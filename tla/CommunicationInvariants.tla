----------------------- MODULE CommunicationInvariants -----------------------
(***************************************************************************)
(* Proofs about the connections, the table and the messages of the server, *)
(* for every size of the table and of the queue and every set of           *)
(* connections and of descriptors.                                         *)
(***************************************************************************)
EXTENDS CommunicationProofs, SequenceTheorems, FiniteSetTheorems,
        WellFoundedInduction

\* Descriptors: an absent connection has none, a thread that has not seen the
\* end of its connection has an open one, no two open ones have one number,
\* and that of a request that was queued stays open.
Descripteurs ==
  /\ \A k \in Connexions :
        /\ fil[k] = "absent" => ~ouvert[k] /\ flux[k] = <<>>
        /\ fil[k] # "absent" => numero[k] \in Fds
        /\ fil[k] \in {"arrive", "lecture"} => ouvert[k]
        /\ fil[k] = "ferme" => ~ouvert[k]
        /\ rang[k] > 0 => fil[k] = "fini" /\ ouvert[k]
  /\ \A k, l \in Connexions :
        ouvert[k] /\ ouvert[l] /\ numero[k] = numero[l] => k = l

\* The treatment: the table is locked from one step to the next by a broadcast
\* only, and a request that is treated was taken from the queue.
Traitement ==
  /\ mutex_clients <=> proc = "diffuse"
  /\ proc # "libre" => servies # <<>>
  /\ proc = "diffuse" => iDiff \in 1..(Len(clients) + 1)

\* What x tells its client: nothing of a request that was not taken, the reply
\* to nobody else, and no reply yet while its request is treated.
Recus ==
  \A k \in Connexions : \A i \in DOMAIN flux[k] :
     LET x == flux[k][i] IN
     /\ servies # <<>>
     /\ rang[x.de] > 0
     /\ rang[x.de] <= rang[Demandeur]
     /\ x.type = "reponse" =>
          x.de = k /\ (proc = "traite" => rang[x.de] < rang[Demandeur])

\* The connections that account for an entry of the table with number n, and
\* those entries.
Porteurs(n) ==
  {k \in Connexions : numero[k] = n /\ (\/ fil[k] \in {"lecture", "ferme"}
                                        \/ fil[k] = "fini" /\ ouvert[k])}

Entrees(n) == {i \in DOMAIN clients : clients[i] = n}

\* The table: only finitely many connections have come, and each number has at
\* most as many entries as connections that registered it and still hold it.
Table ==
  /\ IsFiniteSet({k \in Connexions : fil[k] # "absent"})
  /\ \A n \in Fds : Cardinality(Entrees(n)) <= Cardinality(Porteurs(n))

\* The inductive invariant.
IInv ==
  /\ TypeOK
  /\ Descripteurs
  /\ Traitement
  /\ Recus
  /\ OrdreTotal
  /\ UneReponse
  /\ DiffusionComplete
  /\ Table

-----------------------------------------------------------------------------
(* Lemmas about the operators of the module. *)

(***************************************************************************)
(* A non-empty set of natural numbers has a least element.                 *)
(***************************************************************************)
LEMMA Minimum ==
  ASSUME NEW I \in SUBSET Nat, I # {}
  PROVE  Min(I) \in I /\ \A i \in I : Min(I) <= i
<1> DEFINE R == OpToRel(<, Nat)
<1>1. IsWellFoundedOn(R, Nat)
  BY NatLessThanWellFounded
<1>2. PICK m \in I : \A i \in I : ~(<<i, m>> \in R)
  <2> HIDE DEF R
  <2> QED
    BY <1>1, WFMin
<1>3. \A i \in I : m <= i
  <2> SUFFICES ASSUME NEW i \in I
               PROVE  m <= i
    OBVIOUS
  <2>1. ~(i < m)
    BY <1>2 DEF OpToRel
  <2> QED
    BY <2>1
<1> QED
  BY <1>2, <1>3 DEF Min

(***************************************************************************)
(* SupprimerClient's shift: the first occurrence of e, if there is one, is *)
(* at a place p, and those behind it move by one.                          *)
(***************************************************************************)
LEMMA RetirerPremier ==
  ASSUME NEW S, NEW s \in Seq(S), NEW e
  PROVE  \/ /\ RemoveFirst(s, e) = s
            /\ \A i \in DOMAIN s : s[i] # e
         \/ \E p \in DOMAIN s :
              /\ s[p] = e
              /\ RemoveFirst(s, e) \in Seq(S)
              /\ Len(RemoveFirst(s, e)) = Len(s) - 1
              /\ \A i \in 1..(Len(s) - 1) :
                    RemoveFirst(s, e)[i] = IF i < p THEN s[i] ELSE s[i + 1]
<1>1. CASE \A i \in 1..Len(s) : s[i] # e
  BY <1>1 DEF RemoveFirst, SelectInSeq
<1>2. CASE \E i \in 1..Len(s) : s[i] = e
  <2> DEFINE I == {i \in 1..Len(s) : s[i] = e}
             p == Min(I)
  <2>1. p \in 1..Len(s) /\ p \in DOMAIN s /\ s[p] = e
    <3>1. I \in SUBSET Nat /\ I # {}
      BY <1>2
    <3>2. p \in I
      BY <3>1, Minimum
    <3> QED
      BY <3>2
  <2>2. RemoveFirst(s, e) = SubSeq(s, 1, p - 1) \o SubSeq(s, p + 1, Len(s))
    BY <1>2 DEF RemoveFirst, RemoveAt, SelectInSeq
  <2> HIDE DEF p
  <2> DEFINE a == SubSeq(s, 1, p - 1)
             b == SubSeq(s, p + 1, Len(s))
             r == a \o b
  <2>3. /\ a \in Seq(S)
        /\ Len(a) = p - 1
        /\ \A i \in 1..(p - 1) : a[i] = s[i]
    BY <2>1
  <2>4. /\ b \in Seq(S)
        /\ Len(b) = Len(s) - p
        /\ \A i \in 1..(Len(s) - p) : b[i] = s[p + i]
    BY <2>1
  <2> HIDE DEF a, b
  <2>5. /\ r \in Seq(S)
        /\ Len(r) = Len(s) - 1
        /\ \A i \in 1..(Len(s) - 1) : r[i] = IF i < p THEN a[i] ELSE b[i - (p - 1)]
    <3>1. /\ r \in Seq(S)
          /\ Len(r) = Len(a) + Len(b)
          /\ \A i \in 1..Len(r) : r[i] = IF i <= Len(a) THEN a[i] ELSE b[i - Len(a)]
      BY <2>3, <2>4, ConcatProperties
    <3> HIDE DEF r
    <3> QED
      BY SMTT(30), <2>1, <2>3, <2>4, <3>1
  <2>6. ASSUME NEW i \in 1..(Len(s) - 1)
        PROVE  r[i] = IF i < p THEN s[i] ELSE s[i + 1]
    <3>1. CASE i < p
      BY <2>1, <2>3, <2>5, <3>1
    <3>2. CASE ~(i < p)
      <4>1. i - (p - 1) \in 1..(Len(s) - p) /\ p + (i - (p - 1)) = i + 1
        BY <2>1, <3>2
      <4> QED
        BY <2>4, <2>5, <3>2, <4>1
    <3> QED
      BY <3>1, <3>2
  <2>7. RemoveFirst(s, e) = r
    BY <2>2 DEF a, b
  <2> HIDE DEF r
  <2> QED
    BY <2>1, <2>5, <2>6, <2>7
<1> QED
  BY <1>1, <1>2

(***************************************************************************)
(* A client that is written to has one item more at the end, and only if   *)
(* its socket is open with that number; the others' items are the same.    *)
(***************************************************************************)
LEMMA EcrireAjoute ==
  ASSUME flux \in [Connexions -> Seq(Items)], NEW n, NEW x \in Items, Ecrire(n, x)
  PROVE  /\ flux' \in [Connexions -> Seq(Items)]
         /\ \A k \in Connexions :
              \/ flux'[k] = flux[k] /\ ~(ouvert[k] /\ numero[k] = n /\ pair[k])
              \/ /\ ouvert[k] /\ numero[k] = n /\ pair[k]
                 /\ Len(flux[k]) + 1 \in DOMAIN flux'[k]
                 /\ flux'[k][Len(flux[k]) + 1] = x
                 /\ \A i \in DOMAIN flux[k] : i \in DOMAIN flux'[k] /\ flux'[k][i] = flux[k][i]
                 /\ \A i \in DOMAIN flux'[k] :
                      (i \in DOMAIN flux[k] /\ i <= Len(flux[k])) \/ i = Len(flux[k]) + 1
<1>1. ASSUME NEW k \in Connexions
      PROVE  /\ Append(flux[k], x) \in Seq(Items)
             /\ DOMAIN Append(flux[k], x) = 1..(Len(flux[k]) + 1)
             /\ DOMAIN flux[k] = 1..Len(flux[k])
             /\ Len(flux[k]) \in Nat
             /\ Append(flux[k], x)[Len(flux[k]) + 1] = x
             /\ \A i \in DOMAIN flux[k] : Append(flux[k], x)[i] = flux[k][i]
  <2>1. flux[k] \in Seq(Items)
    OBVIOUS
  <2> QED
    BY <2>1
<1>2. flux' \in [Connexions -> Seq(Items)]
  BY <1>1 DEF Ecrire
<1>3. ASSUME NEW k \in Connexions
      PROVE  flux'[k] = IF ouvert[k] /\ numero[k] = n /\ pair[k] THEN Append(flux[k], x)
                        ELSE flux[k]
  BY DEF Ecrire
<1>4. ASSUME NEW k \in Connexions, ouvert[k] /\ numero[k] = n /\ pair[k]
      PROVE  /\ Len(flux[k]) + 1 \in DOMAIN flux'[k]
             /\ flux'[k][Len(flux[k]) + 1] = x
             /\ \A i \in DOMAIN flux[k] : i \in DOMAIN flux'[k] /\ flux'[k][i] = flux[k][i]
             /\ \A i \in DOMAIN flux'[k] :
                  (i \in DOMAIN flux[k] /\ i <= Len(flux[k])) \/ i = Len(flux[k]) + 1
  <2> DEFINE a == Append(flux[k], x)
  <2>1. /\ flux'[k] = a
        /\ DOMAIN a = 1..(Len(flux[k]) + 1)
        /\ DOMAIN flux[k] = 1..Len(flux[k])
        /\ Len(flux[k]) \in Nat
        /\ a[Len(flux[k]) + 1] = x
        /\ \A i \in DOMAIN flux[k] : a[i] = flux[k][i]
    BY <1>1, <1>3, <1>4
  <2> HIDE DEF a
  <2> QED
    BY <2>1
<1> QED
  BY <1>2, <1>3, <1>4

(***************************************************************************)
(* The request that is treated is one of the queue's: its client is a      *)
(* connection that has deposited, none that was served before did later.   *)
(***************************************************************************)
LEMMA DemandeurServi ==
  ASSUME FaitsDeLaFile, servies # <<>>
  PROVE  /\ Len(servies) \in DOMAIN servies
         /\ Demandeur \in Connexions
         /\ rang[Demandeur] > 0
         /\ rang \in [Connexions -> Nat]
<1>1. servies \in Seq(File!Requetes) /\ rang \in [Connexions -> Nat]
  BY DEF FaitsDeLaFile, File!TypeOK
<1>2. Len(servies) \in DOMAIN servies /\ servies[Len(servies)] \in File!Requetes
  BY <1>1
<1>3. Demandeur \in Connexions
  BY <1>2 DEF Demandeur, Courante, File!Requetes
<1>4. rang[Demandeur] > 0
  BY <1>2 DEF Demandeur, Courante, FaitsDeLaFile, File!PremierArrivePremierServi
<1> QED
  BY <1>1, <1>2, <1>3, <1>4

-----------------------------------------------------------------------------
(* IInv is inductive: one lemma per conjunct, one case per action. *)

(***************************************************************************)
(* The steps of the server, one by one.                                    *)
(***************************************************************************)
LEMMA Pas ==
  ASSUME [Next]_vars
  PROVE  \/ \E k \in Connexions : Accepter(k) \/ FermerPair(k) \/ AjouterClient(k)
                                 \/ LireFin(k) \/ SupprimerClient(k)
         \/ \E k \in Connexions, g \in Genres : DeposerRequete(k, g)
         \/ Prendre \/ CommencerDiffusion \/ AbandonnerDiffusion
         \/ Diffuser \/ FinirDiffusion \/ Repondre
         \/ UNCHANGED vars
BY DEF Next, ClientThread, ProcessusRequetes

LEMMA InitIInv ==
  ASSUME Init, FaitsDeLaFile
  PROVE  IInv
<1>1. TypeOK
  <2>1. flux \in [Connexions -> Seq(Items)]
    BY DEF Init
  <2>2. clients \in Seq(Fds) /\ Len(clients) <= MAX_CLIENTS /\ iDiff \in 0..(MAX_CLIENTS + 1)
    BY CommunicationAssumption DEF Init
  <2> QED
    BY <2>1, <2>2 DEF Init, TypeOK, FaitsDeLaFile
<1>2. Descripteurs /\ Traitement
  BY DEF Init, File!Init, Descripteurs, Traitement
<1>3. Recus /\ OrdreTotal /\ UneReponse /\ DiffusionComplete
  <2>1. \A k \in Connexions : DOMAIN flux[k] = {}
    BY DEF Init
  <2> QED
    BY <2>1 DEF Init, Recus, OrdreTotal, UneReponse, DiffusionComplete
<1>4. Table
  <2>1. {k \in Connexions : fil[k] # "absent"} = {}
    BY DEF Init
  <2>2. ASSUME NEW n \in Fds
        PROVE  Entrees(n) = {} /\ Porteurs(n) = {}
    BY DEF Init, Entrees, Porteurs
  <2> QED
    BY <2>1, <2>2, FS_EmptySet DEF Table
<1> QED
  BY <1>1, <1>2, <1>3, <1>4 DEF IInv

LEMMA ItemType ==
  ASSUME IInv, FaitsDeLaFile, proc # "libre", NEW type \in {"reponse", "message"}
  PROVE  Item(type) \in Items
BY DemandeurServi DEF IInv, Traitement, Item, Items

LEMMA TypeStable ==
  ASSUME IInv, FaitsDeLaFile, FaitsDeLaFile', [Next]_vars
  PROVE  TypeOK'
<1> USE DEF IInv
<1>1. File!TypeOK'
  BY DEF FaitsDeLaFile
<1>2. MAX_CLIENTS \in Nat
  BY CommunicationAssumption
<1>3. CASE \E k \in Connexions : Accepter(k) \/ FermerPair(k) \/ LireFin(k)
  <2> PICK k \in Connexions : Accepter(k) \/ FermerPair(k) \/ LireFin(k)
    BY <1>3
  <2>1. UNCHANGED <<flux, clients, mutex_clients, proc, iDiff>>
    BY DEF Accepter, FermerPair, LireFin
  <2>2. CASE Accepter(k)
    BY <1>1, <2>1, <2>2 DEF Accepter, TypeOK
  <2>3. CASE FermerPair(k)
    BY <1>1, <2>1, <2>3 DEF FermerPair, TypeOK
  <2>4. CASE LireFin(k)
    BY <1>1, <2>1, <2>4 DEF LireFin, TypeOK
  <2> QED
    BY <2>2, <2>3, <2>4
<1>4. ASSUME NEW k \in Connexions, AjouterClient(k)
      PROVE  TypeOK'
  <2>1. numero[k] \in Fds
    BY <1>4 DEF AjouterClient, Descripteurs
  <2>2. clients' \in Seq(Fds) /\ Len(clients') <= MAX_CLIENTS
    BY <1>2, <1>4, <2>1 DEF AjouterClient, TypeOK
  <2> QED
    BY <1>1, <1>4, <2>2 DEF AjouterClient, TypeOK, sockets
<1>5. ASSUME NEW k \in Connexions, SupprimerClient(k)
      PROVE  TypeOK'
  <2>1. clients' = RemoveFirst(clients, numero[k]) /\ clients \in Seq(Fds)
    BY <1>5 DEF SupprimerClient, TypeOK
  <2>2. clients' \in Seq(Fds) /\ Len(clients') <= Len(clients)
    BY <2>1, RetirerPremier
  <2> QED
    BY <1>1, <1>2, <1>5, <2>1, <2>2 DEF SupprimerClient, TypeOK, sockets
<1>6. CASE \E k \in Connexions, g \in Genres : DeposerRequete(k, g)
  BY <1>1, <1>6 DEF DeposerRequete, TypeOK, sockets
<1>7. CASE Prendre \/ AbandonnerDiffusion \/ FinirDiffusion
  <2>1. UNCHANGED <<fil, numero, ouvert, pair, flux, clients>>
    BY <1>7 DEF Prendre, AbandonnerDiffusion, FinirDiffusion, sockets
  <2>2. iDiff' \in 0..(MAX_CLIENTS + 1)
    BY <1>2, <1>7 DEF Prendre, AbandonnerDiffusion, FinirDiffusion, TypeOK
  <2>4. mutex_clients' \in BOOLEAN
    <3>1. mutex_clients' = mutex_clients \/ mutex_clients' = FALSE
      BY <1>7 DEF Prendre, AbandonnerDiffusion, FinirDiffusion
    <3> QED
      BY <3>1 DEF TypeOK
  <2>3. proc' \in {"libre", "traite", "diffuse"}
    BY <1>7 DEF Prendre, AbandonnerDiffusion, FinirDiffusion
  <2> QED
    BY <1>1, <2>1, <2>2, <2>3, <2>4 DEF TypeOK
<1>8. CASE CommencerDiffusion \/ Diffuser \/ Repondre
  <2>1. proc # "libre"
    BY <1>8 DEF CommencerDiffusion, Diffuser, Repondre
  <2>2. flux' \in [Connexions -> Seq(Items)]
    <3>1. \E n, t : t \in {"reponse", "message"} /\ Ecrire(n, Item(t))
      BY <1>8 DEF CommencerDiffusion, Diffuser, Repondre
    <3> QED
      BY <2>1, <3>1, ItemType, EcrireAjoute DEF TypeOK
  <2>3. Len(clients) \in Nat
    BY DEF TypeOK
  <2>4. iDiff' \in 0..(MAX_CLIENTS + 1)
    BY <1>2, <1>8, <2>3 DEF CommencerDiffusion, Diffuser, Repondre, TypeOK
  <2> QED
    BY <1>1, <1>8, <2>2, <2>4 DEF CommencerDiffusion, Diffuser, Repondre, TypeOK, sockets
<1>9. CASE UNCHANGED vars
  BY <1>1, <1>9 DEF vars, TypeOK
<1> QED
  BY <1>3, <1>4, <1>5, <1>6, <1>7, <1>8, <1>9, Pas

LEMMA DescripteursStables ==
  ASSUME IInv, FaitsDeLaFile, [Next]_vars
  PROVE  Descripteurs'
<1> USE DEF IInv
<1>1. /\ rang \in [Connexions -> Nat]
      /\ fil \in [Connexions -> {"absent", "arrive", "lecture", "ferme", "fini"}]
      /\ numero \in [Connexions -> Fds \cup {0}]
      /\ ouvert \in [Connexions -> BOOLEAN]
  BY DEF FaitsDeLaFile, File!TypeOK, TypeOK
<1>2. ASSUME NEW k \in Connexions, Accepter(k)
      PROVE  Descripteurs'
  <2>1. PICK n \in Fds : ~Pris(n) /\ numero' = [numero EXCEPT ![k] = n]
    BY <1>2 DEF Accepter
  <2>2. \A l \in Connexions : ouvert[l] => numero[l] # n
    BY <2>1 DEF Pris
  <2>3. UNCHANGED <<flux, rang>>
    BY <1>2 DEF Accepter, file
  <2>4. /\ fil' = [fil EXCEPT ![k] = "arrive"] /\ ouvert' = [ouvert EXCEPT ![k] = TRUE]
        /\ fil[k] = "absent"
    BY <1>2 DEF Accepter
  <2> QED
    BY <1>1, <2>1, <2>2, <2>3, <2>4 DEF Descripteurs
<1>3. ASSUME NEW k \in Connexions, LireFin(k)
      PROVE  Descripteurs'
  <2>1. UNCHANGED <<flux, rang, numero>>
    BY <1>3 DEF LireFin, file
  <2>2. /\ fil' = [fil EXCEPT ![k] = "ferme"] /\ ouvert' = [ouvert EXCEPT ![k] = FALSE]
        /\ fil[k] = "lecture"
    BY <1>3 DEF LireFin
  <2> QED
    BY <1>1, <2>1, <2>2 DEF Descripteurs
<1>4. ASSUME NEW k \in Connexions, AjouterClient(k) \/ SupprimerClient(k)
      PROVE  Descripteurs'
  <2>1. UNCHANGED <<flux, rang, numero, ouvert>>
    BY <1>4 DEF AjouterClient, SupprimerClient, file, sockets
  <2>2. \/ fil' = [fil EXCEPT ![k] = "lecture"] /\ fil[k] = "arrive"
        \/ fil' = [fil EXCEPT ![k] = "fini"] /\ fil[k] = "ferme"
    BY <1>4 DEF AjouterClient, SupprimerClient
  <2> QED
    BY <1>1, <2>1, <2>2 DEF Descripteurs
<1>5. ASSUME NEW k \in Connexions, NEW g \in Genres, DeposerRequete(k, g)
      PROVE  Descripteurs'
  <2>1. UNCHANGED <<flux, numero, ouvert>>
    BY <1>5 DEF DeposerRequete, sockets
  <2>2. fil' = [fil EXCEPT ![k] = "fini"] /\ fil[k] = "lecture"
    BY <1>5 DEF DeposerRequete
  <2>3. rang' = [rang EXCEPT ![k] = depots + 1]
    BY <1>5 DEF DeposerRequete, File!Deposer, File!Deborder, File!Dater
  <2> QED
    BY <1>1, <2>1, <2>2, <2>3 DEF Descripteurs
<1>6. CASE \/ \E k \in Connexions : FermerPair(k)
           \/ Prendre \/ AbandonnerDiffusion \/ FinirDiffusion \/ UNCHANGED vars
  <2>1. UNCHANGED <<fil, flux, rang, numero, ouvert>>
    BY <1>6 DEF FermerPair, Prendre, AbandonnerDiffusion, FinirDiffusion, vars,
                file, sockets, File!Servir
  <2> QED
    BY <2>1 DEF Descripteurs
<1>7. CASE CommencerDiffusion \/ Diffuser \/ Repondre
  <2>1. UNCHANGED <<fil, rang, numero, ouvert>>
    BY <1>7 DEF CommencerDiffusion, Diffuser, Repondre, file, sockets, File!Achever
  <2>2. \E n, x : Ecrire(n, x)
    BY <1>7 DEF CommencerDiffusion, Diffuser, Repondre
  <2>3. \A k \in Connexions : ~ouvert[k] => flux'[k] = flux[k]
    BY <2>2 DEF Ecrire
  <2> QED
    BY <2>1, <2>3 DEF Descripteurs
<1> QED
  BY <1>2, <1>3, <1>4, <1>5, <1>6, <1>7, Pas

LEMMA TraitementStable ==
  ASSUME IInv, FaitsDeLaFile, [Next]_vars
  PROVE  Traitement'
<1> USE DEF IInv
<1>1. Len(clients) \in Nat /\ iDiff \in Nat
  BY CommunicationAssumption DEF TypeOK
<1>2. CASE \/ \E k \in Connexions : Accepter(k) \/ FermerPair(k) \/ LireFin(k)
           \/ \E k \in Connexions, g \in Genres : DeposerRequete(k, g)
           \/ UNCHANGED vars
  <2>1. UNCHANGED <<clients, mutex_clients, proc, iDiff, servies>>
    BY <1>2 DEF Accepter, FermerPair, LireFin, DeposerRequete, file, vars,
                File!Deposer, File!Deborder
  <2> QED
    BY <2>1 DEF Traitement
<1>3. CASE \E k \in Connexions : AjouterClient(k) \/ SupprimerClient(k)
  <2>1. UNCHANGED <<mutex_clients, proc, servies>> /\ proc # "diffuse"
    BY <1>3 DEF AjouterClient, SupprimerClient, file, Traitement
  <2> QED
    BY <2>1 DEF Traitement
<1>4. CASE Prendre
  <2>1. servies' = Append(servies, Head(attente)) /\ servies \in Seq(File!Requetes)
    BY <1>4 DEF Prendre, File!Servir, FaitsDeLaFile, File!TypeOK
  <2>2. servies' # <<>>
    BY <2>1
  <2>3. UNCHANGED mutex_clients /\ proc = "libre" /\ proc' = "traite"
    BY <1>4 DEF Prendre
  <2> QED
    BY <2>2, <2>3 DEF Traitement
<1>5. CASE CommencerDiffusion
  <2>1. UNCHANGED <<clients, servies>>
    BY <1>5 DEF CommencerDiffusion, file
  <2> QED
    BY <1>1, <1>5, <2>1 DEF CommencerDiffusion, Traitement
<1>6. CASE Diffuser
  <2>1. UNCHANGED <<clients, servies, mutex_clients, proc>>
    BY <1>6 DEF Diffuser, file
  <2> QED
    BY <1>1, <1>6, <2>1 DEF Diffuser, Traitement
<1>7. CASE AbandonnerDiffusion \/ Repondre
  <2>1. UNCHANGED mutex_clients /\ proc = "traite" /\ proc' = "libre"
    BY <1>7 DEF AbandonnerDiffusion, Repondre
  <2> QED
    BY <2>1 DEF Traitement
<1>8. CASE FinirDiffusion
  BY <1>8 DEF FinirDiffusion, Traitement
<1> QED
  BY <1>2, <1>3, <1>4, <1>5, <1>6, <1>7, <1>8, Pas

(***************************************************************************)
(* What is sent is the current request's: a reply, which reaches nobody    *)
(* but the client of the request and ends its being due, or its message.   *)
(***************************************************************************)
LEMMA EnvoiAjoute ==
  ASSUME IInv, FaitsDeLaFile, CommencerDiffusion \/ Diffuser \/ Repondre
  PROVE  /\ proc # "libre" /\ proc' # "traite"
         /\ UNCHANGED <<servies, rang>>
         /\ \E type \in {"reponse", "message"} :
              /\ type = "reponse" => proc = "traite"
              /\ \A k \in Connexions :
                   \/ flux'[k] = flux[k]
                   \/ /\ type = "reponse" => k = Demandeur
                      /\ Len(flux[k]) + 1 \in DOMAIN flux'[k]
                      /\ flux'[k][Len(flux[k]) + 1] = Item(type)
                      /\ \A i \in DOMAIN flux[k] : flux'[k][i] = flux[k][i]
                      /\ \A i \in DOMAIN flux'[k] :
                           (i \in DOMAIN flux[k] /\ i <= Len(flux[k])) \/ i = Len(flux[k]) + 1
<1>1. proc # "libre" /\ proc' # "traite" /\ UNCHANGED <<servies, rang>>
  BY DEF CommencerDiffusion, Diffuser, Repondre, file, File!Achever
<1>2. PICK n, type :
         /\ type \in {"reponse", "message"}
         /\ Ecrire(n, Item(type))
         /\ type = "reponse" => proc = "traite" /\ n = numero[Demandeur]
  <2>1. CASE CommencerDiffusion \/ Repondre
    BY <2>1 DEF CommencerDiffusion, Repondre
  <2>2. CASE Diffuser
    BY <2>2 DEF Diffuser
  <2> QED
    BY <2>1, <2>2
<1>3. Item(type) \in Items
  BY <1>1, <1>2, ItemType
<1>4. flux \in [Connexions -> Seq(Items)]
  BY DEF IInv, TypeOK
<1>5. ASSUME NEW k \in Connexions, ouvert[k] /\ numero[k] = numero[Demandeur]
      PROVE  k = Demandeur
  <2>1. Demandeur \in Connexions /\ rang[Demandeur] > 0
    BY <1>1, DemandeurServi DEF IInv, Traitement
  <2> QED
    BY <1>5, <2>1 DEF IInv, Descripteurs
<1>6. ASSUME NEW k \in Connexions, flux'[k] # flux[k]
      PROVE  /\ type = "reponse" => k = Demandeur
             /\ Len(flux[k]) + 1 \in DOMAIN flux'[k]
             /\ flux'[k][Len(flux[k]) + 1] = Item(type)
             /\ \A i \in DOMAIN flux[k] : flux'[k][i] = flux[k][i]
             /\ \A i \in DOMAIN flux'[k] :
                  (i \in DOMAIN flux[k] /\ i <= Len(flux[k])) \/ i = Len(flux[k]) + 1
  BY <1>2, <1>3, <1>4, <1>5, <1>6, EcrireAjoute
<1> QED
  BY <1>1, <1>2, <1>6

(***************************************************************************)
(* A client thread that queues a request is not the client of any request  *)
(* that was taken or told of before.                                       *)
(***************************************************************************)
LEMMA DepotNouveau ==
  ASSUME IInv, FaitsDeLaFile, NEW k \in Connexions, NEW g \in Genres, DeposerRequete(k, g)
  PROVE  /\ UNCHANGED <<flux, servies, proc>>
         /\ rang[k] = 0
         /\ rang' = [rang EXCEPT ![k] = depots + 1]
         /\ servies # <<>> => rang'[Demandeur] = rang[Demandeur]
         /\ \A l \in Connexions : \A i \in DOMAIN flux[l] :
              rang'[flux[l][i].de] = rang[flux[l][i].de]
<1>1. /\ UNCHANGED <<flux, servies, proc>>
      /\ rang[k] = 0
      /\ rang' = [rang EXCEPT ![k] = depots + 1]
  BY DEF DeposerRequete, File!Deposer, File!Deborder, File!Dater
<1>2. rang \in [Connexions -> Nat]
  BY DEF FaitsDeLaFile, File!TypeOK
<1>3. servies # <<>> => rang'[Demandeur] = rang[Demandeur]
  BY <1>1, <1>2, DemandeurServi
<1>4. ASSUME NEW l \in Connexions, NEW i \in DOMAIN flux[l]
      PROVE  rang'[flux[l][i].de] = rang[flux[l][i].de]
  <2>1. flux[l][i] \in Items
    BY DEF IInv, TypeOK
  <2> QED
    BY <1>1, <1>2, <2>1 DEF IInv, Recus, Items
<1> QED
  BY <1>1, <1>3, <1>4

LEMMA RecusStables ==
  ASSUME IInv, FaitsDeLaFile, FaitsDeLaFile', [Next]_vars
  PROVE  Recus'
<1> USE DEF IInv
<1>1. CASE \/ \E k \in Connexions : Accepter(k) \/ FermerPair(k) \/ AjouterClient(k)
                                    \/ LireFin(k) \/ SupprimerClient(k)
           \/ AbandonnerDiffusion \/ FinirDiffusion
           \/ UNCHANGED vars
  <2>1. UNCHANGED <<flux, servies, rang>> /\ (proc' = "traite" => proc = "traite")
    BY <1>1 DEF Accepter, FermerPair, AjouterClient, LireFin, SupprimerClient,
                AbandonnerDiffusion, FinirDiffusion, file, vars
  <2>2. Demandeur' = Demandeur
    BY <2>1 DEF Demandeur, Courante
  <2> QED
    BY <2>1, <2>2 DEF Recus
<1>2. ASSUME NEW k \in Connexions, NEW g \in Genres, DeposerRequete(k, g)
      PROVE  Recus'
  <2>1. Demandeur' = Demandeur
    BY <1>2, DepotNouveau DEF Demandeur, Courante
  <2> QED
    BY <1>2, <2>1, DepotNouveau DEF Recus
<1>3. CASE Prendre
  <2>1. /\ servies' = Append(servies, Head(attente))
        /\ UNCHANGED <<flux, rang>>
        /\ proc = "libre"
    BY <1>3 DEF Prendre, File!Servir
  <2>2. servies \in Seq(File!Requetes) /\ servies' \in Seq(File!Requetes)
    BY DEF FaitsDeLaFile, File!TypeOK
  <2>3. servies' # <<>>
    BY <2>1, <2>2
  <2>4. ASSUME servies # <<>>
        PROVE  rang[Demandeur] < rang[Demandeur']
    <3>1. /\ Len(servies) \in DOMAIN servies' /\ Len(servies') \in DOMAIN servies'
          /\ Len(servies) < Len(servies')
          /\ servies'[Len(servies)] = servies[Len(servies)]
      BY <2>1, <2>2, <2>4
    <3>2. \A i, j \in DOMAIN servies' :
             i < j => rang[servies'[i].client_socket] < rang[servies'[j].client_socket]
      BY <2>1 DEF FaitsDeLaFile, File!PremierArrivePremierServi, File!Croissant
    <3> QED
      BY <3>1, <3>2 DEF Demandeur, Courante
  <2>5. ASSUME NEW k \in Connexions, NEW i \in DOMAIN flux[k]
        PROVE  /\ rang[flux[k][i].de] > 0
               /\ rang[flux[k][i].de] <= rang[Demandeur']
               /\ rang[flux[k][i].de] < rang[Demandeur']
               /\ flux[k][i].type = "reponse" => flux[k][i].de = k
    <3>1. /\ servies # <<>>
          /\ rang[flux[k][i].de] > 0
          /\ rang[flux[k][i].de] <= rang[Demandeur]
          /\ flux[k][i].type = "reponse" => flux[k][i].de = k
      BY DEF Recus
    <3>2. flux[k][i] \in Items
      BY DEF TypeOK
    <3>3. Demandeur' \in Connexions
      <4>1. servies'[Len(servies')] \in File!Requetes
        BY <2>2, <2>3
      <4> QED
        BY <4>1 DEF Demandeur, Courante, File!Requetes
    <3>4. /\ rang[flux[k][i].de] \in Nat
          /\ rang[Demandeur] \in Nat
          /\ rang[Demandeur'] \in Nat
      BY <3>1, <3>2, <3>3, DemandeurServi DEF Items
    <3> QED
      BY <2>4, <3>1, <3>4
  <2> QED
    BY <2>1, <2>3, <2>5 DEF Recus
<1>4. CASE CommencerDiffusion \/ Diffuser \/ Repondre
  <2>1. /\ servies # <<>> /\ UNCHANGED <<servies, rang>> /\ proc' # "traite"
        /\ Demandeur' = Demandeur /\ rang[Demandeur] \in Nat /\ rang[Demandeur] > 0
    BY <1>4, EnvoiAjoute, DemandeurServi DEF Traitement, Demandeur, Courante
  <2>2. ASSUME NEW k \in Connexions, NEW i \in DOMAIN flux'[k]
        PROVE  /\ rang[flux'[k][i].de] > 0
               /\ rang[flux'[k][i].de] <= rang[Demandeur]
               /\ flux'[k][i].type = "reponse" => flux'[k][i].de = k
    <3>1. CASE i \in DOMAIN flux[k] /\ flux'[k][i] = flux[k][i]
      BY <3>1 DEF Recus
    <3>2. CASE \E type \in {"reponse", "message"} :
                 flux'[k][i] = Item(type) /\ (type = "reponse" => k = Demandeur)
      BY <2>1, <3>2 DEF Item
    <3> QED
      BY <1>4, <3>1, <3>2, EnvoiAjoute
  <2> QED
    BY <2>1, <2>2 DEF Recus
<1> QED
  BY <1>1, <1>2, <1>3, <1>4, Pas

LEMMA OrdreTotalStable ==
  ASSUME IInv, FaitsDeLaFile, [Next]_vars
  PROVE  OrdreTotal'
<1> USE DEF IInv
<1>1. CASE \/ \E k \in Connexions : Accepter(k) \/ FermerPair(k) \/ AjouterClient(k)
                                    \/ LireFin(k) \/ SupprimerClient(k)
           \/ Prendre \/ AbandonnerDiffusion \/ FinirDiffusion
           \/ UNCHANGED vars
  <2>1. UNCHANGED <<flux, rang>>
    BY <1>1 DEF Accepter, FermerPair, AjouterClient, LireFin, SupprimerClient, Prendre,
                AbandonnerDiffusion, FinirDiffusion, file, vars, File!Servir
  <2> QED
    BY <2>1 DEF OrdreTotal
<1>2. CASE \E k \in Connexions, g \in Genres : DeposerRequete(k, g)
  BY <1>2, DepotNouveau DEF OrdreTotal
<1>3. CASE CommencerDiffusion \/ Diffuser \/ Repondre
  <2>1. /\ UNCHANGED rang
        /\ rang[Demandeur] \in Nat
    BY <1>3, EnvoiAjoute, DemandeurServi DEF Traitement
  <2> SUFFICES ASSUME NEW k \in Connexions,
                      NEW i \in DOMAIN flux'[k], NEW j \in DOMAIN flux'[k], i < j,
                      flux'[k][i].type = "message", flux'[k][j].type = "message"
               PROVE  rang[flux'[k][i].de] <= rang[flux'[k][j].de]
    BY <2>1 DEF OrdreTotal
  <2>2. flux[k] \in Seq(Items)
    BY DEF TypeOK
  <2>3. CASE flux'[k] = flux[k]
    BY <2>3 DEF OrdreTotal
  <2>4. CASE /\ flux'[k][Len(flux[k]) + 1].de = Demandeur
             /\ \A n \in DOMAIN flux[k] : flux'[k][n] = flux[k][n]
             /\ \A n \in DOMAIN flux'[k] :
                  (n \in DOMAIN flux[k] /\ n <= Len(flux[k])) \/ n = Len(flux[k]) + 1
    <3>1. i \in DOMAIN flux[k] /\ flux'[k][i] = flux[k][i]
      BY <2>2, <2>4
    <3>2. CASE j \in DOMAIN flux[k]
      BY <2>4, <3>1, <3>2 DEF OrdreTotal
    <3>3. CASE j = Len(flux[k]) + 1
      BY <2>4, <3>1, <3>3 DEF Recus
    <3> QED
      BY <2>4, <3>2, <3>3
  <2> QED
    BY <1>3, <2>3, <2>4, EnvoiAjoute DEF Item
<1> QED
  BY <1>1, <1>2, <1>3, Pas

LEMMA UneReponseStable ==
  ASSUME IInv, FaitsDeLaFile, Recus', [Next]_vars
  PROVE  UneReponse'
<1> USE DEF IInv
<1> SUFFICES ASSUME NEW k \in Connexions,
                    NEW i \in DOMAIN flux'[k], NEW j \in DOMAIN flux'[k],
                    flux'[k][i].type = "reponse", flux'[k][j].type = "reponse"
             PROVE  i = j
  BY DEF UneReponse, Recus
<1>1. CASE flux'[k] = flux[k]
  BY <1>1 DEF UneReponse
<1>2. CASE CommencerDiffusion \/ Diffuser \/ Repondre
  <2>1. flux[k] \in Seq(Items)
    BY DEF TypeOK
  <2> DEFINE dernier == Len(flux[k]) + 1
  <2>2. CASE flux'[k][dernier].type = "message"
    BY <1>1, <1>2, <2>2, EnvoiAjoute DEF UneReponse
  <2>3. CASE proc = "traite" /\ k = Demandeur
    <3>1. \A n \in DOMAIN flux[k] : flux[k][n].type # "reponse"
      <4>1. rang[Demandeur] \in Nat
        BY <2>3, DemandeurServi DEF Traitement
      <4> QED
        BY <2>3, <4>1 DEF Recus
    <3> QED
      BY <1>1, <1>2, <3>1, EnvoiAjoute
  <2> QED
    BY <1>1, <1>2, <2>2, <2>3, EnvoiAjoute DEF Item
<1>3. CASE \/ \E l \in Connexions : Accepter(l) \/ FermerPair(l) \/ AjouterClient(l)
                                    \/ LireFin(l) \/ SupprimerClient(l)
           \/ \E l \in Connexions, g \in Genres : DeposerRequete(l, g)
           \/ Prendre \/ AbandonnerDiffusion \/ FinirDiffusion
           \/ UNCHANGED vars
  <2>1. UNCHANGED flux
    BY <1>3 DEF Accepter, FermerPair, AjouterClient, LireFin, SupprimerClient,
                DeposerRequete, Prendre, AbandonnerDiffusion, FinirDiffusion, vars
  <2> QED
    BY <1>1, <2>1
<1> QED
  BY <1>2, <1>3, Pas

LEMMA DiffusionCompleteStable ==
  ASSUME IInv, FaitsDeLaFile, [Next]_vars
  PROVE  DiffusionComplete'
<1> USE DEF IInv
<1> DEFINE Atteint(k) == ouvert[k] /\ pair[k] /\ fil[k] # "arrive"
<1>1. CASE \/ \E k \in Connexions : Accepter(k) \/ FermerPair(k) \/ LireFin(k)
           \/ \E k \in Connexions, g \in Genres : DeposerRequete(k, g)
           \/ UNCHANGED vars
  <2>1. UNCHANGED <<proc, iDiff, clients, servies, flux>>
    BY <1>1 DEF Accepter, FermerPair, LireFin, DeposerRequete, file, vars,
                File!Deposer, File!Deborder
  <2>2. ASSUME NEW l \in Connexions, Atteint(l)'
        PROVE  Atteint(l) /\ numero'[l] = numero[l]
    <3>1. ASSUME NEW k \in Connexions, Accepter(k)
          PROVE  Atteint(l) /\ numero'[l] = numero[l]
      BY <2>2, <3>1 DEF Accepter, TypeOK
    <3>2. ASSUME NEW k \in Connexions, FermerPair(k) \/ LireFin(k)
          PROVE  Atteint(l) /\ numero'[l] = numero[l]
      BY <2>2, <3>2 DEF FermerPair, LireFin, TypeOK
    <3>3. ASSUME NEW k \in Connexions, NEW g \in Genres, DeposerRequete(k, g)
          PROVE  Atteint(l) /\ numero'[l] = numero[l]
      BY <2>2, <3>3 DEF DeposerRequete, sockets, TypeOK
    <3>4. CASE UNCHANGED vars
      BY <2>2, <3>4 DEF vars
    <3> QED
      BY <1>1, <3>1, <3>2, <3>3, <3>4
  <2>3. \A k \in Connexions : Recu(k, "message", Demandeur) => Recu(k, "message", Demandeur)'
    BY <2>1 DEF Recu, Demandeur, Courante
  <2> HIDE DEF Recu
  <2> QED
    BY <2>1, <2>2, <2>3 DEF DiffusionComplete
<1>2. CASE \/ \E k \in Connexions : AjouterClient(k) \/ SupprimerClient(k)
           \/ Prendre \/ AbandonnerDiffusion \/ FinirDiffusion \/ Repondre
  <2>1. proc' # "diffuse"
    BY <1>2 DEF AjouterClient, SupprimerClient, Prendre, AbandonnerDiffusion,
                FinirDiffusion, Repondre, Traitement
  <2> QED
    BY <2>1 DEF DiffusionComplete
<1>3. CASE CommencerDiffusion
  <2>1. iDiff' = 1
    BY <1>3 DEF CommencerDiffusion
  <2>2. 1..(iDiff' - 1) = {}
    BY <2>1
  <2> QED
    BY <2>2 DEF DiffusionComplete
<1>4. CASE Diffuser
  <2>1. /\ UNCHANGED <<fil, numero, ouvert, pair, clients, servies>>
        /\ Ecrire(clients[iDiff], Item("message"))
        /\ iDiff' = iDiff + 1
        /\ proc = "diffuse" /\ iDiff \in Nat
        /\ flux \in [Connexions -> Seq(Items)]
        /\ Item("message") \in Items
        /\ Demandeur' = Demandeur
    <3>1. iDiff \in Nat
      BY CommunicationAssumption DEF TypeOK
    <3> QED
      BY <1>4, <3>1, ItemType DEF Diffuser, sockets, file, TypeOK, Demandeur, Courante
  <2> SUFFICES ASSUME NEW k \in Connexions, NEW j \in 1..iDiff,
                      clients[j] = numero[k], Atteint(k)
               PROVE  \E i \in DOMAIN flux'[k] :
                         flux'[k][i] = [type |-> "message", de |-> Demandeur]
    BY <2>1 DEF DiffusionComplete, Recu
  <2>2. CASE j = iDiff
    <3>1. ouvert[k] /\ numero[k] = clients[iDiff] /\ pair[k]
      BY <2>2
    <3>2. /\ Len(flux[k]) + 1 \in DOMAIN flux'[k]
          /\ flux'[k][Len(flux[k]) + 1] = Item("message")
      BY <2>1, <3>1, EcrireAjoute
    <3> QED
      BY <3>2 DEF Item
  <2>3. CASE j \in 1..(iDiff - 1)
    <3>1. PICK i \in DOMAIN flux[k] : flux[k][i] = [type |-> "message", de |-> Demandeur]
      BY <2>1, <2>3 DEF DiffusionComplete, Recu
    <3>2. i \in DOMAIN flux'[k] /\ flux'[k][i] = flux[k][i]
      BY <2>1, EcrireAjoute
    <3> QED
      BY <3>1, <3>2
  <2> QED
    BY <2>1, <2>2, <2>3
<1> QED
  BY <1>1, <1>2, <1>3, <1>4, Pas

-----------------------------------------------------------------------------
(* The table *)

(***************************************************************************)
(* A connection carries the entries of one number, if any, and there are   *)
(* finitely many connections.                                              *)
(***************************************************************************)
LEMMA PorteursFinis ==
  ASSUME Table, NEW n \in Fds
  PROVE  IsFiniteSet(Porteurs(n)) /\ Cardinality(Porteurs(n)) \in Nat
<1>1. Porteurs(n) \in SUBSET {k \in Connexions : fil[k] # "absent"}
  BY DEF Porteurs
<1> QED
  BY <1>1, FS_Subset, FS_CardinalityType DEF Table

LEMMA EntreesFinies ==
  ASSUME clients \in Seq(Fds), NEW n
  PROVE  IsFiniteSet(Entrees(n)) /\ Cardinality(Entrees(n)) \in Nat
<1>1. Entrees(n) \in SUBSET (1..Len(clients)) /\ Len(clients) \in Nat
  BY DEF Entrees
<1>2. IsFiniteSet(1..Len(clients))
  BY <1>1, FS_Interval
<1>3. IsFiniteSet(Entrees(n))
  BY <1>1, <1>2, FS_Subset
<1> QED
  BY <1>3, FS_CardinalityType

(***************************************************************************)
(* Registering a socket adds an entry for its number and no other.         *)
(***************************************************************************)
LEMMA EntreeAjoutee ==
  ASSUME clients \in Seq(Fds), NEW n, NEW m, clients' = Append(clients, m)
  PROVE  Cardinality(Entrees(n)') =
           IF n = m THEN Cardinality(Entrees(n)) + 1 ELSE Cardinality(Entrees(n))
<1>1. /\ DOMAIN clients = 1..Len(clients) /\ Len(clients) \in Nat
      /\ DOMAIN clients' = 1..(Len(clients) + 1)
      /\ clients'[Len(clients) + 1] = m
      /\ \A i \in DOMAIN clients : clients'[i] = clients[i]
  OBVIOUS
<1>2. CASE n = m
  <2>1. Entrees(n)' = Entrees(n) \cup {Len(clients) + 1}
    BY <1>1, <1>2 DEF Entrees
  <2>2. Len(clients) + 1 \notin Entrees(n)
    BY <1>1 DEF Entrees
  <2> QED
    BY <1>2, <2>1, <2>2, EntreesFinies, FS_AddElement
<1>3. CASE n # m
  <2>1. Entrees(n)' = Entrees(n)
    BY <1>1, <1>3 DEF Entrees
  <2> QED
    BY <1>3, <2>1
<1> QED
  BY <1>2, <1>3

(***************************************************************************)
(* Removing the first entry with number m removes one entry for m, if      *)
(* there is any, and none for another number.                              *)
(***************************************************************************)
LEMMA EntreeRetiree ==
  ASSUME clients \in Seq(Fds), NEW n, NEW m, clients' = RemoveFirst(clients, m)
  PROVE  /\ Cardinality(Entrees(n)') \in Nat
         /\ Cardinality(Entrees(n)') <= Cardinality(Entrees(n))
         /\ n = m => \/ Cardinality(Entrees(n)') = 0
                     \/ Cardinality(Entrees(n)') <= Cardinality(Entrees(n)) - 1
<1>1. IsFiniteSet(Entrees(n)) /\ Cardinality(Entrees(n)) \in Nat
  BY EntreesFinies
<1>2. CASE clients' = clients /\ \A i \in DOMAIN clients : clients[i] # m
  <2>1. Entrees(n)' = Entrees(n) /\ (n = m => Entrees(n) = {})
    BY <1>2 DEF Entrees
  <2> QED
    BY <1>1, <2>1, FS_EmptySet
<1>3. ASSUME NEW p \in DOMAIN clients, clients[p] = m,
             clients' \in Seq(Fds), Len(clients') = Len(clients) - 1,
             \A i \in 1..(Len(clients) - 1) :
                clients'[i] = IF i < p THEN clients[i] ELSE clients[i + 1]
      PROVE  /\ Cardinality(Entrees(n)') \in Nat
             /\ Cardinality(Entrees(n)') <= Cardinality(Entrees(n))
             /\ n = m => Cardinality(Entrees(n)') <= Cardinality(Entrees(n)) - 1
  <2> DEFINE avant == [i \in Entrees(n)' |-> IF i < p THEN i ELSE i + 1]
  <2>1. /\ DOMAIN clients = 1..Len(clients) /\ Len(clients) \in Nat
        /\ DOMAIN clients' = 1..(Len(clients) - 1)
    BY <1>3
  <2>2. ASSUME NEW i \in Entrees(n)'
        PROVE  avant[i] \in Entrees(n) \ {p} /\ i \in Nat
    <3>1. i \in 1..(Len(clients) - 1) /\ clients'[i] = n
      BY <2>1 DEF Entrees
    <3>2. avant[i] \in 1..Len(clients) /\ avant[i] # p /\ clients[avant[i]] = n
      BY <1>3, <2>1, <3>1
    <3> QED
      BY <2>1, <3>1, <3>2 DEF Entrees
  <2>3. avant \in Injection(Entrees(n)', Entrees(n) \ {p})
    <3>1. avant \in [Entrees(n)' -> Entrees(n) \ {p}]
      BY <2>2
    <3>2. ASSUME NEW i \in Entrees(n)', NEW j \in Entrees(n)', avant[i] = avant[j]
          PROVE  i = j
      BY <2>1, <2>2, <3>2
    <3> QED
      BY <3>1, <3>2 DEF Injection, IsInjective
  <2>4. /\ IsFiniteSet(Entrees(n) \ {p})
        /\ Cardinality(Entrees(n) \ {p}) =
              IF n = m THEN Cardinality(Entrees(n)) - 1 ELSE Cardinality(Entrees(n))
    <3>1. p \in Entrees(n) <=> n = m
      BY <1>3 DEF Entrees
    <3> QED
      BY <1>1, <3>1, FS_RemoveElement
  <2>5. Cardinality(Entrees(n)') <= Cardinality(Entrees(n) \ {p})
    <3> HIDE DEF avant
    <3> QED
      BY <2>3, <2>4, FS_Injection
  <2>6. Cardinality(Entrees(n)') \in Nat
    <3> HIDE DEF avant
    <3> QED
      BY <2>3, <2>4, FS_Injection, FS_CardinalityType
  <2> QED
    BY <1>1, <2>4, <2>5, <2>6
<1> QED
  BY <1>2, <1>3, RetirerPremier

LEMMA TableStable ==
  ASSUME IInv, FaitsDeLaFile, [Next]_vars
  PROVE  Table'
<1> USE DEF IInv
<1> DEFINE Venues == {k \in Connexions : fil[k] # "absent"}
<1>1. /\ clients \in Seq(Fds)
      /\ fil \in [Connexions -> {"absent", "arrive", "lecture", "ferme", "fini"}]
      /\ numero \in [Connexions -> Fds \cup {0}]
      /\ ouvert \in [Connexions -> BOOLEAN]
  BY DEF TypeOK
<1>2. ASSUME NEW n \in Fds
      PROVE  /\ IsFiniteSet(Porteurs(n)) /\ Cardinality(Porteurs(n)) \in Nat
             /\ IsFiniteSet(Entrees(n)) /\ Cardinality(Entrees(n)) \in Nat
             /\ Cardinality(Entrees(n)) <= Cardinality(Porteurs(n))
  BY <1>1, PorteursFinis, EntreesFinies DEF Table
<1>3. CASE \/ \E k \in Connexions : FermerPair(k) \/ LireFin(k)
           \/ \E k \in Connexions, g \in Genres : DeposerRequete(k, g)
           \/ Prendre \/ CommencerDiffusion \/ AbandonnerDiffusion
           \/ Diffuser \/ FinirDiffusion \/ Repondre \/ UNCHANGED vars
  <2>1. UNCHANGED <<clients, numero>>
    BY <1>3 DEF FermerPair, LireFin, DeposerRequete, Prendre, CommencerDiffusion, sockets,
                AbandonnerDiffusion, Diffuser, FinirDiffusion, Repondre, vars
  <2>2. \/ UNCHANGED <<fil, ouvert>>
        \/ \E k \in Connexions :
             /\ fil[k] = "lecture" /\ fil' = [fil EXCEPT ![k] = "ferme"]
             /\ ouvert' = [ouvert EXCEPT ![k] = FALSE]
        \/ \E k \in Connexions :
             /\ fil[k] = "lecture" /\ fil' = [fil EXCEPT ![k] = "fini"]
             /\ UNCHANGED ouvert
    BY <1>3 DEF FermerPair, LireFin, DeposerRequete, Prendre, CommencerDiffusion, sockets,
                AbandonnerDiffusion, Diffuser, FinirDiffusion, Repondre, vars
  <2>3. Venues' = Venues
    BY <1>1, <2>2
  <2>4. ASSUME NEW n \in Fds
        PROVE  Porteurs(n)' = Porteurs(n) /\ Entrees(n)' = Entrees(n)
    BY <1>1, <2>1, <2>2 DEF Porteurs, Entrees, Descripteurs
  <2> QED
    BY <2>3, <2>4 DEF Table
<1>4. ASSUME NEW k \in Connexions, Accepter(k)
      PROVE  Table'
  <2>1. PICK m \in Fds : numero' = [numero EXCEPT ![k] = m]
    BY <1>4 DEF Accepter
  <2>2. /\ fil[k] = "absent" /\ fil' = [fil EXCEPT ![k] = "arrive"]
        /\ ouvert' = [ouvert EXCEPT ![k] = TRUE]
        /\ UNCHANGED clients
    BY <1>4 DEF Accepter
  <2>3. Venues' = Venues \cup {k}
    BY <1>1, <2>2
  <2>4. IsFiniteSet(Venues')
    BY <2>3, FS_AddElement DEF Table
  <2>5. ASSUME NEW n \in Fds
        PROVE  Porteurs(n)' = Porteurs(n) /\ Entrees(n)' = Entrees(n)
    BY <1>1, <2>1, <2>2 DEF Porteurs, Entrees
  <2> QED
    BY <2>4, <2>5 DEF Table
<1>5. ASSUME NEW k \in Connexions, AjouterClient(k)
      PROVE  Table'
  <2>1. /\ fil[k] = "arrive" /\ fil' = [fil EXCEPT ![k] = "lecture"]
        /\ UNCHANGED <<numero, ouvert>>
        /\ clients' = clients \/ clients' = Append(clients, numero[k])
    BY <1>5 DEF AjouterClient, sockets
  <2>2. Venues' = Venues
    BY <1>1, <2>1
  <2> SUFFICES ASSUME NEW n \in Fds
               PROVE  Cardinality(Entrees(n)') <= Cardinality(Porteurs(n)')
    BY <2>2 DEF Table
  <2>3. CASE numero[k] = n
    <3>1. Porteurs(n)' = Porteurs(n) \cup {k} /\ k \notin Porteurs(n)
      BY <1>1, <2>1, <2>3 DEF Porteurs
    <3>2. Cardinality(Porteurs(n)') = Cardinality(Porteurs(n)) + 1
      BY <1>2, <3>1, FS_AddElement
    <3>3. \/ Cardinality(Entrees(n)') = Cardinality(Entrees(n))
          \/ Cardinality(Entrees(n)') = Cardinality(Entrees(n)) + 1
      BY <1>1, <2>1, EntreeAjoutee DEF Entrees
    <3> QED
      BY <1>2, <3>2, <3>3
  <2>4. CASE numero[k] # n
    <3>1. Porteurs(n)' = Porteurs(n)
      BY <1>1, <2>1, <2>4 DEF Porteurs
    <3>2. Cardinality(Entrees(n)') = Cardinality(Entrees(n))
      BY <1>1, <2>1, <2>4, EntreeAjoutee DEF Entrees
    <3> QED
      BY <1>2, <3>1, <3>2
  <2> QED
    BY <2>3, <2>4
<1>6. ASSUME NEW k \in Connexions, SupprimerClient(k)
      PROVE  Table'
  <2>1. /\ fil[k] = "ferme" /\ fil' = [fil EXCEPT ![k] = "fini"]
        /\ UNCHANGED <<numero, ouvert>> /\ ~ouvert[k]
        /\ clients' = RemoveFirst(clients, numero[k])
    BY <1>6 DEF SupprimerClient, sockets, Descripteurs
  <2>2. Venues' = Venues
    BY <1>1, <2>1
  <2> SUFFICES ASSUME NEW n \in Fds
               PROVE  Cardinality(Entrees(n)') <= Cardinality(Porteurs(n)')
    BY <2>2 DEF Table
  <2>3. CASE numero[k] = n
    <3>1. Porteurs(n)' = Porteurs(n) \ {k} /\ k \in Porteurs(n)
      BY <1>1, <2>1, <2>3 DEF Porteurs
    <3>2. /\ Cardinality(Porteurs(n)') = Cardinality(Porteurs(n)) - 1
          /\ Cardinality(Porteurs(n)') \in Nat
      BY <1>2, <3>1, FS_RemoveElement, FS_CardinalityType
    <3>3. /\ Cardinality(Entrees(n)') \in Nat
          /\ \/ Cardinality(Entrees(n)') = 0
             \/ Cardinality(Entrees(n)') <= Cardinality(Entrees(n)) - 1
      BY <1>1, <2>1, <2>3, EntreeRetiree
    <3> QED
      BY <1>2, <3>2, <3>3
  <2>4. CASE numero[k] # n
    <3>1. Porteurs(n)' = Porteurs(n)
      BY <1>1, <2>1, <2>4 DEF Porteurs
    <3>2. /\ Cardinality(Entrees(n)') \in Nat
          /\ Cardinality(Entrees(n)') <= Cardinality(Entrees(n))
      BY <1>1, <2>1, EntreeRetiree
    <3> QED
      BY <1>2, <3>1, <3>2
  <2> QED
    BY <2>3, <2>4
<1> QED
  BY <1>3, <1>4, <1>5, <1>6, Pas

-----------------------------------------------------------------------------
(* The theorems. *)

(***************************************************************************)
(* The inductive invariant holds, given what is known of the queue.        *)
(***************************************************************************)
THEOREM InvarianceServeur == Spec => []IInv
<1>1. FaitsDeLaFile /\ Init => IInv
  BY InitIInv
<1>2. FaitsDeLaFile /\ FaitsDeLaFile' /\ IInv /\ [Next]_vars => IInv'
  <2> SUFFICES ASSUME FaitsDeLaFile, FaitsDeLaFile', IInv, [Next]_vars
               PROVE  IInv'
    OBVIOUS
  <2>1. TypeOK' /\ Descripteurs' /\ Traitement'
    BY TypeStable, DescripteursStables, TraitementStable
  <2>2. Recus' /\ OrdreTotal'
    BY RecusStables, OrdreTotalStable
  <2>3. UneReponse' /\ DiffusionComplete' /\ Table'
    BY <2>2, UneReponseStable, DiffusionCompleteStable, TableStable
  <2> QED
    BY <2>1, <2>2, <2>3 DEF IInv
<1> QED
  BY <1>1, <1>2, FileInvariante, PTL DEF Spec

(***************************************************************************)
(* The table never exceeds its size, the loop of a broadcast never runs    *)
(* further than one place behind it, and only requests of the queue are    *)
(* answered (Communication.c, clients and nb_clients).                     *)
(***************************************************************************)
THEOREM TypeServeur == Spec => []TypeOK
<1>1. IInv => TypeOK
  BY DEF IInv
<1> QED
  BY <1>1, InvarianceServeur, PTL

(***************************************************************************)
(* All clients see the broadcasts in the order in which the requests were  *)
(* queued, for any number of clients and however many leave meanwhile.     *)
(***************************************************************************)
THEOREM OrdreDesDiffusions == Spec => []OrdreTotal
<1>1. IInv => OrdreTotal
  BY DEF IInv
<1> QED
  BY <1>1, InvarianceServeur, PTL

(***************************************************************************)
(* A broadcast reaches every open socket of the table that the loop of     *)
(* ProcessusRequetes has passed.                                           *)
(***************************************************************************)
THEOREM DiffusionsCompletes == Spec => []DiffusionComplete
<1>1. IInv => DiffusionComplete
  BY DEF IInv
<1> QED
  BY <1>1, InvarianceServeur, PTL

(***************************************************************************)
(* A reply reaches the client that asked, nobody else, and once: although  *)
(* the server writes to a number that the kernel gives again.              *)
(***************************************************************************)
THEOREM ReponsesUniques == Spec => []UneReponse
<1>1. IInv => UneReponse
  BY DEF IInv
<1> QED
  BY <1>1, InvarianceServeur, PTL

(***************************************************************************)
(* Entries of the table do not pile up: SupprimerClient, which removes any *)
(* entry with its number, leaves at most one per connection that holds the *)
(* number or is still to remove it.                                        *)
(***************************************************************************)
THEOREM EntreesBornees == Spec => []EntreesVivantes
<1>1. IInv => EntreesVivantes
  <2> SUFFICES ASSUME IInv, NEW n \in Fds
               PROVE  Cardinality({i \in DOMAIN clients : clients[i] = n})
                        <= Cardinality({k \in Connexions :
                                          numero[k] = n /\ (ouvert[k] \/ fil[k] = "ferme")})
    BY DEF EntreesVivantes
  <2> DEFINE Tenants == {k \in Connexions : numero[k] = n /\ (ouvert[k] \/ fil[k] = "ferme")}
  <2>1. IsFiniteSet(Tenants)
    <3>1. Tenants \in SUBSET {k \in Connexions : fil[k] # "absent"}
      BY DEF IInv, Descripteurs
    <3> QED
      BY <3>1, FS_Subset DEF IInv, Table
  <2>2. Porteurs(n) \in SUBSET Tenants
    BY DEF IInv, Descripteurs, Porteurs
  <2>3. Cardinality(Porteurs(n)) <= Cardinality(Tenants)
    BY <2>1, <2>2, FS_Subset
  <2>4. /\ Cardinality(Porteurs(n)) \in Nat /\ Cardinality(Tenants) \in Nat
        /\ Cardinality(Entrees(n)) \in Nat
    BY <2>1, PorteursFinis, EntreesFinies, FS_CardinalityType DEF IInv, TypeOK
  <2>5. Cardinality(Entrees(n)) <= Cardinality(Porteurs(n))
    BY DEF IInv, Table
  <2> HIDE DEF Tenants
  <2>6. Cardinality(Entrees(n)) <= Cardinality(Tenants)
    BY <2>3, <2>4, <2>5
  <2> QED
    BY <2>6 DEF Entrees, Tenants
<1> QED
  BY <1>1, InvarianceServeur, PTL

=============================================================================
