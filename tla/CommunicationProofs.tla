------------------------ MODULE CommunicationProofs --------------------------
(***************************************************************************)
(* What is proved of FileSequentielle holds of the server, whose actions   *)
(* use it: the order of service, and the account of the requests, whatever *)
(* the connections, broadcasts and failures.                               *)
(***************************************************************************)
EXTENDS Communication, TLAPS

(***************************************************************************)
(* A request that a ClientThread queues is a deposit.                      *)
(***************************************************************************)
LEMMA DeposerEstDeposer ==
  ASSUME NEW k \in Connexions, NEW g \in Genres, DeposerRequete(k, g)
  PROVE  File!Next
<1>1. UNCHANGED proc
  BY DEF DeposerRequete
<1>2. CASE File!Deposer(k, g)
  BY <1>2 DEF File!Next, File!Genres, Genres
<1>3. CASE File!Deborder(k)
  BY <1>3 DEF File!Next
<1> QED
  BY <1>2, <1>3 DEF DeposerRequete

(***************************************************************************)
(* A broadcast, whether it ends or is given up, ends its treatment without *)
(* touching the queue.                                                     *)
(***************************************************************************)
LEMMA DiffusionEstAchever ==
  ASSUME AbandonnerDiffusion \/ FinirDiffusion
  PROVE  File!Next
<1>1. /\ proc # "libre"
      /\ proc' = "libre"
      /\ UNCHANGED file
  BY DEF AbandonnerDiffusion, FinirDiffusion
<1>2. File!Achever
  BY <1>1 DEF File!Achever, file
<1> QED
  BY <1>2 DEF File!Next

(***************************************************************************)
(* The other actions leave the queue, and whether a request is treated, as *)
(* they are.                                                               *)
(***************************************************************************)
LEMMA AutresActions ==
  ASSUME NEW k \in Connexions,
         \/ Accepter(k) \/ FermerPair(k)
         \/ AjouterClient(k) \/ LireFin(k) \/ SupprimerClient(k)
         \/ CommencerDiffusion \/ Diffuser
  PROVE  UNCHANGED File!vars
<1>1. UNCHANGED file /\ (proc # "libre")' = (proc # "libre")
  <2>1. CASE CommencerDiffusion
    BY <2>1 DEF CommencerDiffusion
  <2>2. CASE Diffuser
    BY <2>2 DEF Diffuser
  <2>3. CASE Accepter(k) \/ FermerPair(k)
    BY <2>3 DEF Accepter, FermerPair
  <2>4. CASE AjouterClient(k) \/ LireFin(k) \/ SupprimerClient(k)
    BY <2>4 DEF AjouterClient, LireFin, SupprimerClient
  <2> QED
    BY <2>1, <2>2, <2>3, <2>4
<1> QED
  BY <1>1 DEF File!vars, file

(***************************************************************************)
(* Every step of the server is a step of the queue, or leaves it alone.    *)
(***************************************************************************)
LEMMA PasDeLaFile == [Next]_vars => [File!Next]_(File!vars)
<1> SUFFICES ASSUME [Next]_vars
             PROVE  [File!Next]_(File!vars)
  OBVIOUS
<1>1. CASE \E k \in Connexions : Accepter(k) \/ FermerPair(k)
  BY <1>1, AutresActions
<1>2. CASE \E k \in Connexions : ClientThread(k)
  <2> PICK k \in Connexions : ClientThread(k)
    BY <1>2
  <2>1. CASE AjouterClient(k) \/ LireFin(k) \/ SupprimerClient(k)
    BY <2>1, AutresActions
  <2>2. CASE \E g \in Genres : DeposerRequete(k, g)
    BY <2>2, DeposerEstDeposer
  <2> QED
    BY <2>1, <2>2 DEF ClientThread
<1>3. CASE Prendre
  BY <1>3 DEF Prendre, File!Next
<1>4. CASE AbandonnerDiffusion \/ FinirDiffusion
  BY <1>4, DiffusionEstAchever
<1>5. CASE Repondre
  BY <1>5 DEF Repondre, File!Next
<1>6. CASE CommencerDiffusion \/ Diffuser
  <2>1. UNCHANGED file /\ (proc # "libre")' = (proc # "libre")
    BY <1>6 DEF CommencerDiffusion, Diffuser
  <2> QED
    BY <2>1 DEF File!vars, file
<1>7. CASE UNCHANGED vars
  BY <1>7 DEF vars, File!vars
<1> QED
  BY <1>1, <1>2, <1>3, <1>4, <1>5, <1>6, <1>7 DEF Next, ProcessusRequetes

-----------------------------------------------------------------------------
(* What FileSequentielleProofs shows of the sequence, for the server. *)

Sequence == INSTANCE FileSequentielleProofs WITH
              MAX_CLIENTS <- MAX_REQUETES,
              Sockets <- Connexions,
              traite <- proc # "libre"

LEMMA MemesPas ==
  /\ File!Init => Sequence!Init
  /\ [File!Next]_(File!vars) => [Sequence!Next]_(Sequence!vars)
<1>1. File!Init => Sequence!Init
  BY DEF File!Init, Sequence!Init
<1>2. ASSUME NEW s, NEW g, File!Deposer(s, g)
      PROVE  Sequence!Deposer(s, g)
  BY <1>2 DEF File!Deposer, Sequence!Deposer, File!Dater, Sequence!Dater
<1>3. ASSUME NEW s, File!Deborder(s)
      PROVE  Sequence!Deborder(s)
  BY <1>3 DEF File!Deborder, Sequence!Deborder, File!Dater, Sequence!Dater
<1>4. File!Servir => Sequence!Servir
  BY DEF File!Servir, Sequence!Servir
<1>5. File!Achever => Sequence!Achever
  BY DEF File!Achever, Sequence!Achever, File!Ecraser, Sequence!Ecraser,
         File!EnTraitement, Sequence!EnTraitement
<1>6. File!Next => Sequence!Next
  BY <1>2, <1>3, <1>4, <1>5
  DEF File!Next, Sequence!Next, File!Genres, Sequence!Genres
<1>7. UNCHANGED File!vars => UNCHANGED Sequence!vars
  BY DEF File!vars, Sequence!vars
<1> QED
  BY <1>1, <1>6, <1>7

\* What the proofs about the server need to know of its queue.
FaitsDeLaFile ==
  /\ File!TypeOK
  /\ File!PremierArrivePremierServi
  /\ File!Conservation
  /\ \A k \in Connexions : rang[k] <= depots
  /\ \A j \in DOMAIN attente : rang[attente[j].client_socket] > 0

LEMMA FileInvariante == Spec => []FaitsDeLaFile
<1>1. Spec => Sequence!Init /\ [][Sequence!Next]_(Sequence!vars)
  <2>1. Init => File!Init
    BY DEF Init, File!Init
  <2> QED
    BY <2>1, PasDeLaFile, MemesPas, PTL DEF Spec
<1>2. Sequence!Init /\ [][Sequence!Next]_(Sequence!vars) => []Sequence!IInv
  BY CommunicationAssumption, Sequence!InvarianceFile DEF Sequence!Spec
<1>3. Sequence!IInv => FaitsDeLaFile
  <2>1. Sequence!TypeOK => File!TypeOK
    BY DEF Sequence!TypeOK, File!TypeOK, Sequence!Requetes, File!Requetes,
           Sequence!Contenus, File!Contenus, Sequence!Genres, File!Genres,
           Sequence!Copies, File!Copies
  <2> QED
    BY <2>1
    DEF FaitsDeLaFile, Sequence!IInv, Sequence!Rangs,
        Sequence!PremierArrivePremierServi, Sequence!Croissant,
        File!PremierArrivePremierServi, File!Croissant,
        Sequence!Conservation, File!Conservation
<1> QED
  BY <1>1, <1>2, <1>3, PTL

(***************************************************************************)
(* The server takes the requests in the order in which the client threads  *)
(* queued them, each at most once, and accounts for all of them: what no   *)
(* connection, broadcast or failed write can disturb.                      *)
(***************************************************************************)
THEOREM OrdreEtComptes ==
  Spec => [](File!PremierArrivePremierServi /\ File!Conservation)
BY FileInvariante, PTL DEF FaitsDeLaFile

=============================================================================
