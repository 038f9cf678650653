----------------------- MODULE FileSequentielleProofs -----------------------
(***************************************************************************)
(* Proofs about FileSequentielle, for every number of slots and every set  *)
(* of sockets.                                                             *)
(***************************************************************************)
EXTENDS FileSequentielle, SequenceTheorems, TLAPS

(***************************************************************************)
(* Overwriting the text of a waiting request changes nothing else: neither *)
(* the number of requests nor the socket of any of them.                   *)
(***************************************************************************)
LEMMA EcraserGardeLesSockets ==
  ASSUME NEW q \in Seq(Requetes), NEW i \in Nat, NEW texte \in Contenus
  PROVE  /\ Ecraser(q, i, texte) \in Seq(Requetes)
         /\ Len(Ecraser(q, i, texte)) = Len(q)
         /\ DOMAIN Ecraser(q, i, texte) = DOMAIN q
         /\ \A j \in DOMAIN q :
               /\ Ecraser(q, i, texte)[j].client_socket = q[j].client_socket
               /\ Ecraser(q, i, texte)[j].message = IF j = i THEN texte ELSE q[j].message
<1>1. CASE i \notin DOMAIN q
  BY <1>1 DEF Ecraser
<1>2. CASE i \in DOMAIN q
  <2> DEFINE r == [q[i] EXCEPT !.message = texte]
             e == [q EXCEPT ![i] = r]
  <2>1. Ecraser(q, i, texte) = e
    BY <1>2 DEF Ecraser
  <2>2. r \in Requetes /\ r.client_socket = q[i].client_socket /\ r.message = texte
    <3>1. q[i] \in Requetes
      BY <1>2
    <3> QED
      BY <3>1 DEF Requetes
  <2>3. e \in Seq(Requetes) /\ Len(e) = Len(q) /\ DOMAIN e = DOMAIN q
    BY <1>2, <2>2
  <2>4. \A j \in DOMAIN q : e[j] = IF j = i THEN r ELSE q[j]
    BY <1>2
  <2> QED
    BY <2>1, <2>2, <2>3, <2>4
<1> QED
  BY <1>1, <1>2

\* Who has deposited is in the order of deposits, who waits has deposited.
Rangs ==
  /\ \A s \in Sockets : rang[s] <= depots
  /\ \A j \in DOMAIN attente : rang[attente[j].client_socket] > 0

\* The inductive invariant behind the order and the count.
IInv ==
  /\ TypeOK
  /\ Rangs
  /\ PremierArrivePremierServi
  /\ Conservation
  /\ ListeEnTete

-----------------------------------------------------------------------------
(* IInv is inductive: one lemma per action. *)

LEMMA InitIInv ==
  ASSUME MAX_CLIENTS \in Nat \ {0}, Init
  PROVE  IInv
<1>1. TypeOK
  <2>1. <<>> \in Seq(Requetes) /\ Len(<<>>) = 0
    BY EmptySeq
  <2>2. rang \in [Sockets -> Nat]
    BY DEF Init
  <2>3. Len(attente) < MAX_CLIENTS /\ recents <= Len(attente)
    BY <2>1 DEF Init
  <2> QED
    BY <2>1, <2>2, <2>3 DEF Init, TypeOK
<1>2. DOMAIN attente = {} /\ DOMAIN servies = {}
  BY DEF Init
<1>3. Rangs /\ PremierArrivePremierServi /\ ListeEnTete
  BY <1>2 DEF Init, Rangs, PremierArrivePremierServi, Croissant, ListeEnTete
<1>4. Conservation
  BY DEF Init, Conservation
<1> QED
  BY <1>1, <1>3, <1>4 DEF IInv

LEMMA DeposerIInv ==
  ASSUME MAX_CLIENTS \in Nat \ {0}, IInv,
         NEW s \in Sockets, NEW g \in Genres, Deposer(s, g)
  PROVE  IInv'
<1> DEFINE r == [message |-> g, client_socket |-> s]
<1>1. r \in Requetes
  BY DEF Requetes, Contenus
<1>2. /\ DOMAIN attente' = 1..(Len(attente) + 1)
      /\ attente'[Len(attente) + 1] = r
      /\ \A i \in DOMAIN attente : attente'[i] = attente[i] /\ i \in 1..Len(attente)
      /\ Len(attente') = Len(attente) + 1
  BY DEF Deposer, IInv, TypeOK
<1>3. TypeOK'
  BY <1>1 DEF Deposer, Dater, IInv, TypeOK
<1>4. /\ \A i \in DOMAIN attente : attente[i].client_socket \in Sockets \ {s}
      /\ \A i \in DOMAIN servies : servies[i].client_socket \in Sockets \ {s}
  <2>1. /\ \A i \in DOMAIN attente : attente[i] \in Requetes
        /\ \A i \in DOMAIN servies : servies[i] \in Requetes
    BY DEF IInv, TypeOK
  <2>2. rang[s] = 0
    BY DEF Deposer, Dater
  <2> QED
    BY <2>1, <2>2 DEF IInv, Rangs, PremierArrivePremierServi, Requetes
<1>5. /\ rang'[s] = depots + 1
      /\ \A t \in Sockets \ {s} : rang'[t] = rang[t] /\ rang[t] <= depots
  BY DEF Deposer, Dater, IInv, TypeOK, Rangs
<1>6. Rangs'
  BY <1>2, <1>3, <1>4, <1>5 DEF Deposer, Dater, IInv, TypeOK, Rangs
<1>7. Croissant(attente)'
  <2> SUFFICES ASSUME NEW i \in DOMAIN attente', NEW j \in DOMAIN attente', i < j
               PROVE  rang'[attente'[i].client_socket] < rang'[attente'[j].client_socket]
    BY DEF Croissant
  <2>1. /\ i \in DOMAIN attente
        /\ j \in DOMAIN attente \/ j = Len(attente) + 1
    BY <1>2 DEF IInv, TypeOK
  <2>2. rang'[attente'[i].client_socket] = rang[attente[i].client_socket]
    BY <1>2, <1>4, <1>5, <2>1
  <2>3. CASE j \in DOMAIN attente
    <3>1. rang[attente[i].client_socket] < rang[attente[j].client_socket]
      BY <2>1, <2>3 DEF IInv, PremierArrivePremierServi, Croissant
    <3> QED
      BY <1>2, <1>4, <1>5, <2>2, <2>3, <3>1
  <2>4. CASE j = Len(attente) + 1
    BY <1>2, <1>4, <1>5, <2>1, <2>2, <2>4 DEF IInv, TypeOK
  <2> QED
    BY <2>1, <2>3, <2>4
<1>8. PremierArrivePremierServi'
  <2>1. servies' = servies
    BY DEF Deposer
  <2>2. \A i \in DOMAIN servies :
           rang'[servies[i].client_socket] = rang[servies[i].client_socket]
    BY <1>4, <1>5
  <2>3. \A i \in DOMAIN servies, j \in DOMAIN attente' :
           rang[servies[i].client_socket] < rang'[attente'[j].client_socket]
    <3> SUFFICES ASSUME NEW i \in DOMAIN servies, NEW j \in DOMAIN attente'
                 PROVE  rang[servies[i].client_socket] < rang'[attente'[j].client_socket]
      OBVIOUS
    <3>1. CASE j \in DOMAIN attente
      BY <1>2, <1>4, <1>5, <3>1 DEF IInv, PremierArrivePremierServi
    <3>2. CASE j = Len(attente) + 1
      BY <1>2, <1>4, <1>5, <3>2 DEF IInv, TypeOK
    <3> QED
      BY <1>2, <3>1, <3>2 DEF IInv, TypeOK
  <2> QED
    BY <1>7, <2>1, <2>2, <2>3 DEF IInv, PremierArrivePremierServi, Croissant
<1>9. Conservation'
  BY <1>2 DEF Deposer, Dater, IInv, TypeOK, Conservation
<1>10. ListeEnTete'
  BY <1>2 DEF IInv, TypeOK, ListeEnTete, Genres
<1> QED
  BY <1>3, <1>6, <1>8, <1>9, <1>10 DEF IInv

LEMMA DeborderIInv ==
  ASSUME MAX_CLIENTS \in Nat \ {0}, IInv, NEW s \in Sockets, Deborder(s)
  PROVE  IInv'
<1>1. TypeOK'
  BY DEF Deborder, Dater, IInv, TypeOK
<1>2. \A i \in DOMAIN servies : servies[i].client_socket \in Sockets \ {s}
  <2>1. \A i \in DOMAIN servies : servies[i] \in Requetes
    BY DEF IInv, TypeOK
  <2> QED
    BY <2>1 DEF Deborder, Dater, IInv, Rangs, PremierArrivePremierServi, Requetes
<1>3. \A t \in Sockets \ {s} : rang'[t] = rang[t]
  BY DEF Deborder, Dater, IInv, TypeOK
<1>4. Rangs'
  BY <1>1 DEF Deborder, Dater, IInv, TypeOK, Rangs
<1>5. PremierArrivePremierServi'
  BY <1>2, <1>3 DEF Deborder, IInv, PremierArrivePremierServi, Croissant
<1>6. Conservation'
  BY DEF Deborder, Dater, IInv, TypeOK, Conservation
<1>7. ListeEnTete'
  BY DEF Deborder, ListeEnTete
<1> QED
  BY <1>1, <1>4, <1>5, <1>6, <1>7 DEF IInv

LEMMA ServirIInv ==
  ASSUME MAX_CLIENTS \in Nat \ {0}, IInv, Servir
  PROVE  IInv'
<1>1. /\ Len(attente) \in Nat \ {0}
      /\ DOMAIN attente' = 1..(Len(attente) - 1)
      /\ Len(attente') = Len(attente) - 1
      /\ \A i \in DOMAIN attente' : attente'[i] = attente[i + 1] /\ i + 1 \in DOMAIN attente
      /\ attente[1] \in Requetes
      /\ attente' \in Seq(Requetes)
      /\ 1 \in DOMAIN attente
  BY DEF Servir, IInv, TypeOK
<1>2. /\ DOMAIN servies' = 1..(Len(servies) + 1)
      /\ servies'[Len(servies) + 1] = attente[1]
      /\ \A i \in DOMAIN servies : servies'[i] = servies[i]
      /\ DOMAIN servies = 1..Len(servies)
      /\ Len(servies') = Len(servies) + 1
      /\ Len(servies) \in Nat
      /\ servies' \in Seq(Requetes)
  BY <1>1 DEF Servir, IInv, TypeOK
<1>3. TypeOK'
  BY <1>1, <1>2 DEF Servir, IInv, TypeOK
<1>4. Rangs'
  BY <1>1 DEF Servir, IInv, Rangs
<1> DEFINE Avant(r, t) == rang[r.client_socket] < rang[t.client_socket]
<1>a. /\ \A i, j \in DOMAIN servies : i < j => Avant(servies[i], servies[j])
      /\ \A i, j \in DOMAIN attente : i < j => Avant(attente[i], attente[j])
      /\ \A i \in DOMAIN servies, j \in DOMAIN attente : Avant(servies[i], attente[j])
      /\ DOMAIN attente = 1..Len(attente)
  BY DEF IInv, TypeOK, PremierArrivePremierServi, Croissant
<1> HIDE DEF Avant
<1>5. \A i, j \in DOMAIN servies' : i < j => Avant(servies'[i], servies'[j])
  <2> SUFFICES ASSUME NEW i \in DOMAIN servies', NEW j \in DOMAIN servies', i < j
               PROVE  Avant(servies'[i], servies'[j])
    OBVIOUS
  <2>1. i \in DOMAIN servies
    BY <1>2
  <2>2. CASE j \in DOMAIN servies
    BY <1>a, <1>2, <2>1, <2>2
  <2>3. CASE j = Len(servies) + 1
    BY <1>a, <1>1, <1>2, <2>1, <2>3
  <2> QED
    BY <1>2, <2>2, <2>3
<1>6. \A i, j \in DOMAIN attente' : i < j => Avant(attente'[i], attente'[j])
  BY <1>1, <1>a
<1>7. \A i \in DOMAIN servies', j \in DOMAIN attente' : Avant(servies'[i], attente'[j])
  <2> SUFFICES ASSUME NEW i \in DOMAIN servies', NEW j \in DOMAIN attente'
               PROVE  Avant(servies'[i], attente'[j])
    OBVIOUS
  <2>1. CASE i \in DOMAIN servies
    BY <1>a, <1>1, <1>2, <2>1
  <2>2. CASE i = Len(servies) + 1
    BY <1>a, <1>1, <1>2, <2>2
  <2> QED
    BY <1>2, <2>1, <2>2
<1>8. \A i \in DOMAIN servies' : rang[servies'[i].client_socket] > 0
  BY <1>1, <1>2 DEF IInv, Rangs, PremierArrivePremierServi
<1>9. Conservation'
  BY <1>1, <1>2 DEF Servir, IInv, TypeOK, Conservation
<1>10. PremierArrivePremierServi'
  BY <1>5, <1>6, <1>7, <1>8 DEF Servir, PremierArrivePremierServi, Croissant, Avant
<1>11. ListeEnTete'
  BY <1>1 DEF IInv, TypeOK, ListeEnTete
<1> QED
  BY <1>3, <1>4, <1>9, <1>10, <1>11 DEF IInv

\* What a treatment may do to the waiting requests, whichever it overwrites.
LEMMA EcraserAttente ==
  ASSUME IInv, NEW k \in Nat, NEW texte \in Copies, attente' = Ecraser(attente, k, texte)
  PROVE  /\ attente' \in Seq(Requetes)
         /\ Len(attente') = Len(attente)
         /\ DOMAIN attente' = DOMAIN attente
         /\ \A j \in DOMAIN attente : attente'[j].client_socket = attente[j].client_socket
         /\ \A j \in DOMAIN attente :
               attente'[j].message = IF j = k THEN texte ELSE attente[j].message
<1> DEFINE e == Ecraser(attente, k, texte)
<1>1. attente \in Seq(Requetes)
  BY DEF IInv, TypeOK
<1>2. texte \in Contenus
  BY DEF Contenus
<1>3. /\ e \in Seq(Requetes)
      /\ Len(e) = Len(attente)
      /\ DOMAIN e = DOMAIN attente
      /\ \A j \in DOMAIN attente :
            /\ e[j].client_socket = attente[j].client_socket
            /\ e[j].message = IF j = k THEN texte ELSE attente[j].message
  BY <1>1, <1>2, EcraserGardeLesSockets
<1> HIDE DEF e
<1>4. attente' = e
  BY DEF e
<1> QED
  BY <1>3, <1>4

LEMMA AcheverIInv ==
  ASSUME IInv, Achever
  PROVE  IInv'
<1>1. UNCHANGED <<recents, servies, rang, depots, debordements>> /\ traite' = FALSE
  BY DEF Achever
<1> DEFINE Garde ==
      /\ attente' \in Seq(Requetes)
      /\ Len(attente') = Len(attente)
      /\ DOMAIN attente' = DOMAIN attente
      /\ \A j \in DOMAIN attente : attente'[j].client_socket = attente[j].client_socket
      /\ \A j \in DOMAIN attente :
            attente'[j].message = "liste" => j = 1 \/ attente[j].message = "liste"
<1>2. Garde
  <2>1. CASE attente' = attente
    BY <2>1 DEF IInv, TypeOK
  <2>2. CASE attente' = Ecraser(attente, 1, "liste")
    <3>1. "liste" \in Copies
      BY DEF Copies
    <3> QED
      BY <2>2, <3>1, EcraserAttente
  <2>3. CASE \E i \in 1..Len(attente) : attente' = Ecraser(attente, i, "code")
    <3> PICK k \in 1..Len(attente) : attente' = Ecraser(attente, k, "code")
      BY <2>3
    <3>1. "code" \in Copies /\ k \in Nat
      BY DEF Copies
    <3> QED
      BY <3>1, EcraserAttente
  <2> QED
    BY <2>1, <2>2, <2>3 DEF Achever
<1>3. TypeOK'
  BY <1>1, <1>2 DEF IInv, TypeOK
<1>4. Rangs'
  BY <1>1, <1>2 DEF IInv, Rangs
<1>5. PremierArrivePremierServi'
  BY <1>1, <1>2 DEF IInv, PremierArrivePremierServi, Croissant
<1>6. Conservation'
  BY <1>1, <1>2 DEF IInv, Conservation
<1>7. ListeEnTete'
  BY <1>2 DEF IInv, ListeEnTete
<1> QED
  BY <1>3, <1>4, <1>5, <1>6, <1>7 DEF IInv

LEMMA StutterIInv ==
  ASSUME IInv, UNCHANGED vars
  PROVE  IInv'
BY DEF IInv, vars, TypeOK, Rangs, PremierArrivePremierServi, Croissant, Conservation,
       ListeEnTete

(***************************************************************************)
(* IInv holds in every reachable state of the sequence.                    *)
(***************************************************************************)
THEOREM InvarianceFile ==
  ASSUME MAX_CLIENTS \in Nat \ {0}
  PROVE  Spec => []IInv
<1>1. Init => IInv
  BY InitIInv
<1>2. IInv /\ [Next]_vars => IInv'
  BY DeposerIInv, DeborderIInv, ServirIInv, AcheverIInv, StutterIInv DEF Next
<1> QED
  BY <1>1, <1>2, PTL DEF Spec

(***************************************************************************)
(* First come, first served: the requests taken, then those that wait, are *)
(* in the order in which the client threads deposited them, whatever is    *)
(* overwritten by the treatments and lost by a full queue.                 *)
(***************************************************************************)
THEOREM OrdreFile ==
  ASSUME MAX_CLIENTS \in Nat \ {0}
  PROVE  Spec => []PremierArrivePremierServi
<1>1. IInv => PremierArrivePremierServi
  BY DEF IInv
<1> QED
  BY <1>1, InvarianceFile, PTL

(***************************************************************************)
(* Deposits are served, waiting, or lost MAX_CLIENTS at a time.            *)
(***************************************************************************)
THEOREM ConservationFile ==
  ASSUME MAX_CLIENTS \in Nat \ {0}
  PROVE  Spec => []Conservation
<1>1. IInv => Conservation
  BY DEF IInv
<1> QED
  BY <1>1, InvarianceFile, PTL

(***************************************************************************)
(* Only the next request to be taken can have lost its text to a list.     *)
(***************************************************************************)
THEOREM ListeFile ==
  ASSUME MAX_CLIENTS \in Nat \ {0}
  PROVE  Spec => []ListeEnTete
<1>1. IInv => ListeEnTete
  BY DEF IInv
<1> QED
  BY <1>1, InvarianceFile, PTL

=============================================================================
