------------------------- MODULE GestionRequeteProofs --------------------------
(***************************************************************************)
(* Proofs about the treatment of requests: for every number of clients and *)
(* users and every bound, nobody is connected without an account's name    *)
(* and password, and whoever believes to be connected is listed, but for   *)
(* the cases that SuccesVrai and CroyantsListes name.                      *)
(***************************************************************************)
EXTENDS GestionRequete, SequenceTheorems, FiniteSetTheorems, WellFoundedInduction, TLAPS

-----------------------------------------------------------------------------
(* The inductive invariant. *)

\* The requests to treat: the one that awaits the gateway comes first.
Toutes == courant \o file

Departs == {"DECONNEXION", "SUPPRIMERCOMPTE", "QUITTER"}

\* A client knows whether it is connected by the menu it is in.
ClientOK(c) ==
  /\ etat[c] # "ILLISIBLE"
  /\ etat[c] \in OpsConnectees => etat_co[c]
  /\ etat[c] \in OpsAnonymes => ~etat_co[c] /\ ident[c] \in Ids
  /\ etat[c] = "arrete" => ~etat_co[c]
  /\ reponse[c] # "aucune" => etat[c] \in Ops

\* A request is what its client waits for, unless it was overwritten.
Attendue(r) ==
  /\ r.op \in OpsAnonymes => r.id \in Ids
  /\ r.de \in Clients =>
       /\ etat[r.de] \in Ops /\ reponse[r.de] = "aucune"
       /\ r.op = "ILLISIBLE" \/ (r.op = etat[r.de] /\ r.id = ident[r.de])

\* Each client has at most one request.
Demandes ==
  /\ \A i \in DOMAIN Toutes : Attendue(Toutes[i])
  /\ \A i, j \in DOMAIN Toutes : Toutes[i].de \in Clients /\ Toutes[i].de = Toutes[j].de => i = j

\* At most one datagram is of the request under treatment, and only its answer
\* is received, once.
Questions ==
  /\ \A i \in DOMAIN udp :
       /\ udp[i].op = "CREERCOMPTE" => udp[i].id \in Ids
       /\ udp[i].vivant => /\ recu = "attendu"
                           /\ udp[i].op = courant[1].op /\ udp[i].id = courant[1].id
  /\ \A i, j \in DOMAIN udp : udp[i].vivant /\ udp[j].vivant => i = j
  /\ recu \in OpsComptes => courant[1].op = recu /\ courant[1].id \in crees

\* Those of whom an entry p of the list is.
Tenants(p) ==
  Croyants(p) \cup {c \in Clients : etat[c] = "CONNEXION" /\ reponse[c] = "0" /\ ident[c].pseudo = p}

\* The requests to leave that clients which are gone have left behind.
Orphelin(p) == {r \in Requetes : r.de = Personne /\ r.op \in Departs /\ r.id.pseudo = p}

\* The positions of s with an element of S.
Positions(s, S) == {i \in DOMAIN s : s[i] \in S}

\* There is an entry for each who has one, and one for each request that will
\* still remove one.
Compte(p) ==
  /\ IsFiniteSet(Tenants(p))
  /\ Cardinality(Tenants(p)) + Cardinality(Positions(Toutes, Orphelin(p)))
       <= Cardinality(Entrees(p))

IInv ==
  /\ TypeOK
  /\ \A c \in Clients : ClientOK(c)
  /\ Demandes
  /\ Questions
  /\ SuccesVrai
  /\ \A p \in Pseudos \ trompes : Compte(p)

-----------------------------------------------------------------------------
(* Positions in a sequence. *)

LEMMA PositionsFinies ==
  ASSUME NEW S, NEW s \in Seq(S), NEW X
  PROVE  IsFiniteSet(Positions(s, X)) /\ Cardinality(Positions(s, X)) \in Nat
<1>1. IsFiniteSet(1..Len(s))
  BY FS_Interval
<1>2. Positions(s, X) \subseteq 1..Len(s)
  BY DEF Positions
<1> QED
  BY <1>1, <1>2, FS_Subset, FS_CardinalityType

LEMMA PositionsAppend ==
  ASSUME NEW S, NEW s \in Seq(S), NEW x \in S, NEW X
  PROVE  Cardinality(Positions(Append(s, x), X))
           = Cardinality(Positions(s, X)) + (IF x \in X THEN 1 ELSE 0)
<1> DEFINE P == Positions(s, X)
           n == Len(s) + 1
<1>1. IsFiniteSet(P) /\ Cardinality(P) \in Nat
  BY PositionsFinies
<1>2. /\ Len(s) \in Nat /\ DOMAIN s = 1..Len(s) /\ DOMAIN Append(s, x) = 1..n
      /\ Append(s, x)[n] = x /\ \A i \in 1..Len(s) : Append(s, x)[i] = s[i]
  OBVIOUS
<1>3. n \notin P
  BY <1>2 DEF Positions
<1>4. Positions(Append(s, x), X) = IF x \in X THEN P \cup {n} ELSE P
  BY <1>2 DEF Positions
<1>5. Cardinality(P \cup {n}) = Cardinality(P) + 1
  <2> HIDE DEF P, n
  <2> QED
    BY <1>1, <1>3, FS_AddElement
<1> HIDE DEF P, n
<1> QED
  BY <1>1, <1>4, <1>5 DEF P

(***************************************************************************)
(* t is s without its element k.                                           *)
(***************************************************************************)
LEMMA PositionsSansUne ==
  ASSUME NEW S, NEW s \in Seq(S), NEW t \in Seq(S), NEW k \in 1..Len(s), NEW X,
         Len(t) = Len(s) - 1,
         \A j \in 1..Len(t) : t[j] = IF j < k THEN s[j] ELSE s[j + 1]
  PROVE  Cardinality(Positions(t, X))
           = Cardinality(Positions(s, X)) - (IF s[k] \in X THEN 1 ELSE 0)
<1> DEFINE P == Positions(s, X)
           Q == Positions(t, X)
           f == [j \in Q |-> IF j < k THEN j ELSE j + 1]
<1>1. /\ IsFiniteSet(P) /\ Cardinality(P) \in Nat
      /\ IsFiniteSet(Q) /\ Cardinality(Q) \in Nat
  BY PositionsFinies
<1>2. /\ Len(s) \in Nat /\ DOMAIN s = 1..Len(s) /\ DOMAIN t = 1..(Len(s) - 1) /\ k \in Nat
  OBVIOUS
<1>3. \A j \in Q : j \in 1..(Len(s) - 1) /\ t[j] \in X
  BY <1>2 DEF Positions
<1>4. \A i : i \in P \ {k} <=> i \in 1..Len(s) /\ i # k /\ s[i] \in X
  BY <1>2 DEF Positions
<1>5. f \in [Q -> P \ {k}]
  <2> SUFFICES ASSUME NEW j \in Q
               PROVE  (IF j < k THEN j ELSE j + 1) \in P \ {k}
    OBVIOUS
  <2>1. j \in 1..(Len(s) - 1) /\ t[j] \in X
    BY <1>3
  <2> QED
    BY <1>2, <1>4, <2>1
<1>6. \A i, j \in Q : f[i] = f[j] => i = j
  BY <1>2, <1>3
<1>7. \A i \in P \ {k} : \E j \in Q : f[j] = i
  <2> SUFFICES ASSUME NEW i \in P \ {k}
               PROVE  \E j \in Q : f[j] = i
    OBVIOUS
  <2>1. i \in 1..Len(s) /\ i # k /\ s[i] \in X
    BY <1>4
  <2> DEFINE j == IF i < k THEN i ELSE i - 1
  <2>2. j \in 1..(Len(s) - 1) /\ t[j] = s[i]
    BY <1>2, <2>1
  <2>3. j \in Q
    BY <1>2, <2>1, <2>2 DEF Positions
  <2>4. (IF j < k THEN j ELSE j + 1) = i
    BY <1>2, <2>1
  <2> HIDE DEF j
  <2> QED
    BY <2>3, <2>4
<1>8. ExistsBijection(Q, P \ {k})
  <2> HIDE DEF f, P, Q
  <2>1. f \in Bijection(Q, P \ {k})
    BY <1>5, <1>6, <1>7 DEF Bijection, Injection, Surjection, IsInjective
  <2> QED
    BY <2>1 DEF ExistsBijection
<1>9. Cardinality(P \ {k}) = Cardinality(Q)
  <2> HIDE DEF f, P, Q
  <2> QED
    BY <1>1, <1>8, FS_Bijection
<1>10. Cardinality(P \ {k}) = IF k \in P THEN Cardinality(P) - 1 ELSE Cardinality(P)
  <2> HIDE DEF P, Q, f
  <2> QED
    BY <1>1, FS_RemoveElement
<1>11. k \in P <=> s[k] \in X
  BY <1>2 DEF Positions
<1> HIDE DEF P, Q, f
<1>12. Cardinality(Q) = Cardinality(P) - (IF s[k] \in X THEN 1 ELSE 0)
  BY <1>1, <1>9, <1>10, <1>11
<1> QED
  BY <1>12 DEF P, Q

LEMMA PositionsTail ==
  ASSUME NEW S, NEW s \in Seq(S), s # <<>>, NEW X
  PROVE  Cardinality(Positions(Tail(s), X))
           = Cardinality(Positions(s, X)) - (IF s[1] \in X THEN 1 ELSE 0)
<1> DEFINE t == Tail(s)
<1>1. t \in Seq(S) /\ Len(t) = Len(s) - 1 /\ 1 \in 1..Len(s)
      /\ \A j \in 1..Len(t) : t[j] = IF j < 1 THEN s[j] ELSE s[j + 1]
  OBVIOUS
<1> HIDE DEF t
<1>2. Cardinality(Positions(t, X)) = Cardinality(Positions(s, X)) - (IF s[1] \in X THEN 1 ELSE 0)
  BY <1>1, PositionsSansUne
<1> QED
  BY <1>2 DEF t

LEMMA PositionsMoins ==
  ASSUME NEW S, NEW s \in Seq(S), NEW t \in Seq(S), Len(t) = Len(s), NEW X,
         \A i \in 1..Len(s) : t[i] \in X => s[i] \in X
  PROVE  Cardinality(Positions(t, X)) <= Cardinality(Positions(s, X))
<1>1. Positions(t, X) \subseteq Positions(s, X)
  BY DEF Positions
<1> QED
  BY <1>1, PositionsFinies, FS_Subset

LEMMA PositionsPlusUne ==
  ASSUME NEW S, NEW s \in Seq(S), NEW t \in Seq(S), Len(t) = Len(s), NEW X, NEW k,
         \A i \in 1..Len(s) : i # k /\ t[i] \in X => s[i] \in X
  PROVE  Cardinality(Positions(t, X)) <= Cardinality(Positions(s, X)) + 1
<1> DEFINE P == Positions(s, X)
           Q == Positions(t, X)
<1>1. Q \subseteq P \cup {k}
  BY DEF Positions
<1>2. IsFiniteSet(P) /\ Cardinality(P) \in Nat /\ Cardinality(Q) \in Nat
  BY PositionsFinies
<1> HIDE DEF P, Q
<1>3. /\ IsFiniteSet(P \cup {k})
      /\ Cardinality(P \cup {k}) = IF k \in P THEN Cardinality(P) ELSE Cardinality(P) + 1
  BY <1>2, FS_AddElement
<1>4. Cardinality(Q) <= Cardinality(P \cup {k})
  BY <1>1, <1>3, FS_Subset
<1>5. Cardinality(Q) <= Cardinality(P) + 1
  BY <1>2, <1>3, <1>4
<1> QED
  BY <1>5 DEF P, Q

(***************************************************************************)
(* The loop of SupprimerUtilisateur takes out the first entry of the name, *)
(* if there is one, and moves the following up.                            *)
(***************************************************************************)
LEMMA RetirerPremier ==
  ASSUME NEW S, NEW s \in Seq(S), NEW e, Contains(s, e)
  PROVE  /\ RemoveFirst(s, e) \in Seq(S)
         /\ Len(RemoveFirst(s, e)) = Len(s) - 1
         /\ \E k \in 1..Len(s) :
              /\ s[k] = e
              /\ \A j \in 1..(Len(s) - 1) :
                   RemoveFirst(s, e)[j] = IF j < k THEN s[j] ELSE s[j + 1]
<1> DEFINE I == {i \in 1..Len(s) : s[i] = e}
           k == CHOOSE x \in I : \A y \in I : x <= y
<1>1. I # {} /\ I \subseteq Nat
  BY DEF Contains
<1>2. \E x \in I : \A y \in I : x <= y
  <2> DEFINE R == OpToRel(<, Nat)
  <2>1. IsWellFoundedOn(R, Nat)
    BY NatLessThanWellFounded
  <2>2. PICK x \in I : \A y \in I : ~(<<y, x>> \in R)
    <3> HIDE DEF R, I
    <3> QED
      BY <1>1, <2>1, WFMin
  <2>3. \A y \in I : ~(y < x)
    BY <1>1, <2>2 DEF OpToRel
  <2> QED
    BY <1>1, <2>3
<1>3. k \in I
  <2> HIDE DEF I
  <2> QED
    BY <1>2
<1>4. k \in 1..Len(s) /\ s[k] = e
  <2> HIDE DEF k
  <2> QED
    BY <1>3
<1>5. RemoveFirst(s, e) = SubSeq(s, 1, k - 1) \o SubSeq(s, k + 1, Len(s))
  <2>1. SelectInSeq(s, LAMBDA v : v = e) = k
    BY <1>1 DEF SelectInSeq, Min
  <2> QED
    BY <2>1 DEF RemoveFirst, Contains, RemoveAt
<1> HIDE DEF k, I
<1> DEFINE u == SubSeq(s, 1, k - 1)
           v == SubSeq(s, k + 1, Len(s))
<1>6. u \in Seq(S) /\ Len(u) = k - 1 /\ \A j \in 1..(k - 1) : u[j] = s[j]
  BY <1>4
<1>7. v \in Seq(S) /\ Len(v) = Len(s) - k /\ \A j \in 1..(Len(s) - k) : v[j] = s[k + j]
  BY <1>4
<1>8. RemoveFirst(s, e) = u \o v
  BY <1>5
<1> HIDE DEF u, v
<1>9. /\ u \o v \in Seq(S) /\ Len(u \o v) = (k - 1) + (Len(s) - k)
      /\ \A j \in 1..((k - 1) + (Len(s) - k)) :
           (u \o v)[j] = IF j <= k - 1 THEN u[j] ELSE v[j - (k - 1)]
  <2>1. /\ u \o v \in Seq(S) /\ Len(u \o v) = Len(u) + Len(v)
        /\ \A j \in 1..(Len(u) + Len(v)) :
             (u \o v)[j] = IF j <= Len(u) THEN u[j] ELSE v[j - Len(u)]
    BY <1>6, <1>7, ConcatProperties
  <2>2. Len(u) = k - 1 /\ Len(v) = Len(s) - k
    BY <1>6, <1>7
  <2> QED
    BY <2>1, <2>2
<1>10. (k - 1) + (Len(s) - k) = Len(s) - 1
  BY <1>4
<1>11. ASSUME NEW j \in 1..(Len(s) - 1)
       PROVE  RemoveFirst(s, e)[j] = IF j < k THEN s[j] ELSE s[j + 1]
  <2>1. CASE j < k
    BY <1>4, <1>6, <1>8, <1>9, <1>10, <2>1
  <2>2. CASE ~(j < k)
    <3>1. j - (k - 1) \in 1..(Len(s) - k) /\ k + (j - (k - 1)) = j + 1 /\ ~(j <= k - 1)
      BY <1>4, <2>2
    <3>2. v[j - (k - 1)] = s[k + (j - (k - 1))]
      BY <1>7, <3>1
    <3> QED
      BY <1>8, <1>9, <1>10, <2>2, <3>1, <3>2
  <2> QED
    BY <2>1, <2>2
<1> QED
  BY <1>4, <1>8, <1>9, <1>10, <1>11

-----------------------------------------------------------------------------
(* The list of users. *)

LEMMA EntreesAjoutees ==
  ASSUME utilisateurs \in Seq(Pseudos), NEW q \in Pseudos,
         utilisateurs' = Append(utilisateurs, q), NEW p
  PROVE  Cardinality(Entrees(p)') = Cardinality(Entrees(p)) + (IF q = p THEN 1 ELSE 0)
<1>1. Entrees(p) = Positions(utilisateurs, {p})
      /\ Entrees(p)' = Positions(Append(utilisateurs, q), {p})
  BY DEF Entrees, Positions
<1>2. Cardinality(Positions(Append(utilisateurs, q), {p}))
        = Cardinality(Positions(utilisateurs, {p})) + (IF q \in {p} THEN 1 ELSE 0)
  BY PositionsAppend
<1> QED
  BY <1>1, <1>2

LEMMA EntreesRetirees ==
  ASSUME utilisateurs \in Seq(Pseudos), NEW q, utilisateurs' = RemoveFirst(utilisateurs, q),
         NEW p
  PROVE  /\ utilisateurs' \in Seq(Pseudos) /\ Len(utilisateurs') <= Len(utilisateurs)
         /\ Cardinality(Entrees(p)')
              = Cardinality(Entrees(p)) - (IF q = p /\ Entrees(p) # {} THEN 1 ELSE 0)
         /\ Contains(utilisateurs, p) <=> Entrees(p) # {}
<1> DEFINE s == utilisateurs
           t == RemoveFirst(s, q)
<1>1. Entrees(p) = Positions(s, {p}) /\ Entrees(p)' = Positions(t, {p})
  BY DEF Entrees, Positions
<1>2. /\ Contains(s, p) <=> Entrees(p) # {}
      /\ Contains(s, q) <=> Entrees(q) # {}
  BY DEF Contains, Entrees
<1>3. Cardinality(Positions(s, {p})) \in Nat
  BY PositionsFinies
<1>4. CASE Contains(s, q)
  <2>1. PICK k \in 1..Len(s) :
          /\ s[k] = q
          /\ \A j \in 1..(Len(s) - 1) : t[j] = IF j < k THEN s[j] ELSE s[j + 1]
    BY SMTT(30), <1>4, RetirerPremier
  <2>2. t \in Seq(Pseudos) /\ Len(t) = Len(s) - 1
    BY <1>4, RetirerPremier
  <2> HIDE DEF t
  <2>3. Cardinality(Positions(t, {p}))
          = Cardinality(Positions(s, {p})) - (IF s[k] \in {p} THEN 1 ELSE 0)
    <3>1. \A j \in 1..Len(t) : t[j] = IF j < k THEN s[j] ELSE s[j + 1]
      BY <2>1, <2>2
    <3> QED
      BY SMTT(30), <2>2, <3>1, PositionsSansUne
  <2>4. s[k] \in {p} <=> q = p /\ Entrees(p) # {}
    BY <1>2, <1>4, <2>1
  <2>5. Len(t) <= Len(s)
    BY <2>2
  <2> QED
    BY <1>1, <1>2, <2>2, <2>3, <2>4, <2>5 DEF t
<1>5. CASE ~Contains(s, q)
  <2>1. t = s
    BY <1>5 DEF Contains, RemoveFirst
  <2>2. Len(t) <= Len(s)
    BY <2>1
  <2>3. ~(q = p /\ Entrees(p) # {})
    BY <1>2, <1>5
  <2> HIDE DEF t
  <2>4. t \in Seq(Pseudos) /\ Entrees(p)' = Entrees(p) /\ Cardinality(Entrees(p)) \in Nat
    BY <1>1, <1>3, <2>1
  <2>5. Cardinality(Entrees(p)')
          = Cardinality(Entrees(p)) - (IF q = p /\ Entrees(p) # {} THEN 1 ELSE 0)
    BY <2>3, <2>4
  <2> QED
    BY <1>2, <2>2, <2>4, <2>5 DEF t
<1> QED
  BY <1>4, <1>5

-----------------------------------------------------------------------------
(* The requests to treat. *)

LEMMA TypesFile ==
  ASSUME file \in Seq(Requetes), courant \in Seq(Requetes)
  PROVE  /\ Toutes \in Seq(Requetes) /\ Len(Toutes) = Len(courant) + Len(file)
         /\ \A i \in 1..(Len(courant) + Len(file)) :
              Toutes[i] = IF i <= Len(courant) THEN courant[i] ELSE file[i - Len(courant)]
         /\ DOMAIN Toutes = 1..Len(Toutes)
         /\ courant = <<>> => Toutes = file
<1>1. /\ courant \o file \in Seq(Requetes) /\ Len(courant \o file) = Len(courant) + Len(file)
      /\ \A i \in 1..(Len(courant) + Len(file)) :
           (courant \o file)[i] = IF i <= Len(courant) THEN courant[i] ELSE file[i - Len(courant)]
  BY ConcatProperties
<1>2. courant = <<>> => courant \o file = file
  BY ConcatEmptySeq
<1> QED
  BY <1>1, <1>2 DEF Toutes

LEMMA ToutesDeDeux ==
  ASSUME NEW S, NEW x \in S, NEW q \in Seq(S)
  PROVE  LET s == <<x>> \o q
         IN  s \in Seq(S) /\ s # <<>> /\ s[1] = x /\ Head(s) = x /\ Tail(s) = q
<1> DEFINE s == <<x>> \o q
<1>1. <<x>> \in Seq(S) /\ Len(<<x>>) = 1
  OBVIOUS
<1>2. /\ s \in Seq(S) /\ Len(s) = 1 + Len(q)
      /\ \A i \in 1..(1 + Len(q)) : s[i] = IF i <= 1 THEN <<x>>[i] ELSE q[i - 1]
  <2>1. /\ s \in Seq(S) /\ Len(s) = Len(<<x>>) + Len(q)
        /\ \A i \in 1..(Len(<<x>>) + Len(q)) :
             s[i] = IF i <= Len(<<x>>) THEN <<x>>[i] ELSE q[i - Len(<<x>>)]
    BY <1>1, ConcatProperties
  <2> HIDE DEF s
  <2> QED
    BY <1>1, <2>1
<1> HIDE DEF s
<1>3. s # <<>> /\ s[1] = x /\ Head(s) = x
  BY <1>2
<1>4. Tail(s) \in Seq(S) /\ Len(Tail(s)) = Len(q) /\ \A i \in 1..Len(q) : Tail(s)[i] = q[i]
  BY <1>2, <1>3
<1>5. Tail(s) = q
  BY <1>4, SeqEqual
<1> QED
  BY <1>2, <1>3, <1>5 DEF s

(***************************************************************************)
(* The request under treatment comes first.                                *)
(***************************************************************************)
LEMMA ToutesAvecCourant ==
  ASSUME file \in Seq(Requetes), courant \in Seq(Requetes), Len(courant) = 1
  PROVE  Toutes # <<>> /\ Toutes[1] = courant[1] /\ Tail(Toutes) = file
<1>1. courant = <<courant[1]>> /\ courant[1] \in Requetes
  OBVIOUS
<1> DEFINE x == courant[1]
<1>2. Toutes = <<x>> \o file
  BY <1>1 DEF Toutes
<1> HIDE DEF x
<1>3. x \in Requetes
  BY <1>1 DEF x
<1>4. <<x>> \o file # <<>> /\ (<<x>> \o file)[1] = x /\ Tail(<<x>> \o file) = file
  BY <1>3, ToutesDeDeux
<1> QED
  BY <1>2, <1>4 DEF x

(***************************************************************************)
(* A deposit comes last, or every request that waits is lost with it.      *)
(***************************************************************************)
LEMMA EffetDeposer ==
  ASSUME file \in Seq(Requetes), Len(file) < MAX_CLIENTS, courant \in Seq(Requetes),
         perdus \subseteq Clients,
         NEW r \in Requetes, Deposer(r), courant' = courant
  PROVE  /\ file' \in Seq(Requetes) /\ Len(file') < MAX_CLIENTS
         /\ perdus' \subseteq Clients
         /\ Toutes' = Append(Toutes, r) \/ Toutes' = courant
<1>1. CASE Len(file) + 1 < MAX_CLIENTS
  <2>1. file' = Append(file, r) /\ perdus' = perdus
    BY <1>1 DEF Deposer
  <2>2. file' \in Seq(Requetes) /\ Len(file') = Len(file) + 1
    BY <2>1
  <2>3. Append(file, r) = file \o <<r>> /\ <<r>> \in Seq(Requetes)
    BY AppendIsConcat
  <2>4. (courant \o file) \o <<r>> = courant \o (file \o <<r>>)
    BY <2>3, ConcatAssociative
  <2>5. Append(Toutes, r) = Toutes \o <<r>>
    BY TypesFile, AppendIsConcat
  <2>6. Toutes' = courant \o Append(file, r)
    BY <2>1 DEF Toutes
  <2>7. Toutes' = Append(Toutes, r)
    BY <2>3, <2>4, <2>5, <2>6 DEF Toutes
  <2> QED
    BY <1>1, <2>1, <2>2, <2>7
<1>2. CASE ~(Len(file) + 1 < MAX_CLIENTS)
  <2>1. /\ file' = <<>>
        /\ perdus' = perdus \cup ({q.de : q \in ToSet(file) \cup {r}} \ {Personne})
    BY <1>2 DEF Deposer
  <2>2. ToSet(file) \cup {r} \subseteq Requetes
    BY DEF ToSet
  <2>3. perdus' \subseteq Clients
    BY <2>1, <2>2 DEF Requetes
  <2>4. file' \in Seq(Requetes) /\ Len(file') = 0
    BY <2>1, EmptySeq
  <2>5. Toutes' = courant
    <3>1. Toutes' = courant \o <<>>
      BY <2>1 DEF Toutes
    <3> QED
      BY <3>1, ConcatEmptySeq
  <2>6. Len(file') < MAX_CLIENTS
    BY <2>4, GestionRequeteAssumption
  <2> QED
    BY <2>3, <2>4, <2>5, <2>6
<1> QED
  BY <1>1, <1>2

LEMMA ToutesApresDepot ==
  ASSUME file \in Seq(Requetes), courant \in Seq(Requetes), NEW r \in Requetes,
         NEW t, t = Append(Toutes, r) \/ t = courant
  PROVE  /\ t \in Seq(Requetes)
         /\ \A i \in DOMAIN t : \/ i \in DOMAIN Toutes /\ t[i] = Toutes[i]
                                \/ i = Len(Toutes) + 1 /\ t[i] = r
         /\ \A X : r \notin X =>
              Cardinality(Positions(t, X)) <= Cardinality(Positions(Toutes, X))
<1> DEFINE s == Toutes
<1>1. /\ s \in Seq(Requetes) /\ DOMAIN s = 1..Len(s) /\ Len(s) = Len(courant) + Len(file)
      /\ \A i \in 1..Len(courant) : s[i] = courant[i]
      /\ Len(courant) \in Nat /\ Len(file) \in Nat
  <2>1. Len(courant) \in Nat /\ Len(file) \in Nat
    OBVIOUS
  <2> QED
    BY <2>1, TypesFile
<1>2. t = Append(s, r) \/ t = courant
  OBVIOUS
<1> HIDE DEF s
<1>3. CASE t = Append(s, r)
  <2>1. t \in Seq(Requetes) /\ DOMAIN t = 1..(Len(s) + 1) /\ t[Len(s) + 1] = r
        /\ \A i \in 1..Len(s) : t[i] = s[i]
    <3> DEFINE u == Append(s, r)
    <3>1. u \in Seq(Requetes) /\ DOMAIN u = 1..(Len(s) + 1) /\ u[Len(s) + 1] = r
          /\ \A i \in 1..Len(s) : u[i] = s[i]
      BY <1>1
    <3> HIDE DEF u
    <3>2. t = u
      BY <1>3 DEF u
    <3> QED
      BY <3>1, <3>2
  <2>2. ASSUME NEW X, r \notin X
        PROVE  Cardinality(Positions(t, X)) <= Cardinality(Positions(s, X))
    <3>1. Cardinality(Positions(Append(s, r), X)) = Cardinality(Positions(s, X)) + 0
      BY <1>1, <2>2, PositionsAppend
    <3>2. Cardinality(Positions(s, X)) \in Nat
      BY <1>1, PositionsFinies
    <3> QED
      BY <1>3, <3>1, <3>2
  <2>3. \A i \in DOMAIN t : (i \in DOMAIN s /\ t[i] = s[i]) \/ (i = Len(s) + 1 /\ t[i] = r)
    BY <1>1, <2>1
  <2> QED
    BY <2>1, <2>2, <2>3 DEF s
<1>4. CASE t = courant
  <2>1. DOMAIN t = 1..Len(courant) /\ \A i \in DOMAIN t : i \in DOMAIN s /\ t[i] = s[i]
    BY <1>1, <1>4
  <2>2. ASSUME NEW X
        PROVE  Cardinality(Positions(t, X)) <= Cardinality(Positions(s, X))
    <3>1. Positions(t, X) \subseteq Positions(s, X)
      BY <2>1 DEF Positions
    <3>2. IsFiniteSet(Positions(s, X))
      BY <1>1, PositionsFinies
    <3> QED
      BY <3>1, <3>2, FS_Subset
  <2> QED
    BY <1>4, <2>1, <2>2 DEF s
<1> QED
  BY <1>2, <1>3, <1>4

LEMMA EffetOrphelines ==
  ASSUME NEW q \in Seq(Requetes), NEW c \in Clients
  PROVE  /\ Orphelines(q, c) \in Seq(Requetes) /\ Len(Orphelines(q, c)) = Len(q)
         /\ \A i \in 1..Len(q) :
              /\ Orphelines(q, c)[i].op = q[i].op /\ Orphelines(q, c)[i].id = q[i].id
              /\ Orphelines(q, c)[i].de = IF q[i].de = c THEN Personne ELSE q[i].de
<1>1. ASSUME NEW i \in 1..Len(q)
      PROVE  LET r == IF q[i].de = c THEN [q[i] EXCEPT !.de = Personne] ELSE q[i]
             IN  /\ r \in Requetes
                 /\ r.op = q[i].op /\ r.id = q[i].id
                 /\ r.de = IF q[i].de = c THEN Personne ELSE q[i].de
  <2>1. q[i] \in Requetes
    OBVIOUS
  <2> QED
    BY <2>1 DEF Requetes
<1>2. Orphelines(q, c)
        = [i \in 1..Len(q) |-> IF q[i].de = c THEN [q[i] EXCEPT !.de = Personne] ELSE q[i]]
  BY DEF Orphelines
<1>3. Orphelines(q, c) \in [1..Len(q) -> Requetes]
  BY <1>1, <1>2
<1> QED
  BY <1>1, <1>2, <1>3

LEMMA EffetAbandonner ==
  ASSUME file \in Seq(Requetes), courant \in Seq(Requetes), NEW c \in Clients, Abandonner(c)
  PROVE  /\ file' \in Seq(Requetes) /\ Len(file') = Len(file)
         /\ courant' \in Seq(Requetes) /\ Len(courant') = Len(courant)
         /\ \A i \in 1..Len(courant) : /\ courant'[i].op = courant[i].op
                                       /\ courant'[i].id = courant[i].id
         /\ Toutes' \in Seq(Requetes) /\ Len(Toutes') = Len(Toutes)
         /\ DOMAIN Toutes' = DOMAIN Toutes
         /\ \A i \in 1..Len(Toutes) :
              /\ Toutes'[i].op = Toutes[i].op /\ Toutes'[i].id = Toutes[i].id
              /\ Toutes'[i].de = IF Toutes[i].de = c THEN Personne ELSE Toutes[i].de
<1> DEFINE f == Orphelines(file, c)
           g == Orphelines(courant, c)
<1>1. file' = f /\ courant' = g
  BY DEF Abandonner
<1>2. /\ f \in Seq(Requetes) /\ Len(f) = Len(file)
      /\ \A i \in 1..Len(file) :
           /\ f[i].op = file[i].op /\ f[i].id = file[i].id
           /\ f[i].de = IF file[i].de = c THEN Personne ELSE file[i].de
  BY EffetOrphelines
<1>3. /\ g \in Seq(Requetes) /\ Len(g) = Len(courant)
      /\ \A i \in 1..Len(courant) :
           /\ g[i].op = courant[i].op /\ g[i].id = courant[i].id
           /\ g[i].de = IF courant[i].de = c THEN Personne ELSE courant[i].de
  BY EffetOrphelines
<1> HIDE DEF f, g
<1>4. /\ g \o f \in Seq(Requetes) /\ Len(g \o f) = Len(g) + Len(f)
      /\ \A i \in 1..(Len(g) + Len(f)) : (g \o f)[i] = IF i <= Len(g) THEN g[i] ELSE f[i - Len(g)]
  <2>1. f \in Seq(Requetes) /\ g \in Seq(Requetes)
    BY <1>2, <1>3
  <2> QED
    BY <2>1, ConcatProperties
<1>5. /\ Len(Toutes) = Len(courant) + Len(file) /\ Toutes \in Seq(Requetes)
      /\ \A i \in 1..(Len(courant) + Len(file)) :
           Toutes[i] = IF i <= Len(courant) THEN courant[i] ELSE file[i - Len(courant)]
  BY TypesFile
<1>6. Toutes' = g \o f
  BY <1>1 DEF Toutes
<1> DEFINE t == g \o f
<1>7. t \in Seq(Requetes) /\ Len(t) = Len(Toutes) /\ DOMAIN t = DOMAIN Toutes
  <2>1. t \in Seq(Requetes) /\ Len(t) = Len(Toutes)
    BY <1>2, <1>3, <1>4, <1>5
  <2> HIDE DEF t
  <2> QED
    BY <1>5, <2>1
<1>8. ASSUME NEW i \in 1..Len(Toutes)
      PROVE  /\ t[i].op = Toutes[i].op /\ t[i].id = Toutes[i].id
             /\ t[i].de = IF Toutes[i].de = c THEN Personne ELSE Toutes[i].de
  <2>1. t[i] = IF i <= Len(courant) THEN g[i] ELSE f[i - Len(courant)]
    BY <1>2, <1>3, <1>4, <1>5
  <2>2. Toutes[i] = IF i <= Len(courant) THEN courant[i] ELSE file[i - Len(courant)]
    BY <1>5
  <2> HIDE DEF t
  <2>3. CASE i <= Len(courant)
    <3>1. i \in 1..Len(courant)
      BY <2>3
    <3> QED
      BY <1>3, <2>1, <2>2, <2>3, <3>1
  <2>4. CASE ~(i <= Len(courant))
    <3>1. i - Len(courant) \in 1..Len(file)
      BY <1>5, <2>4
    <3> QED
      BY <1>2, <2>1, <2>2, <2>4, <3>1
  <2> QED
    BY <2>3, <2>4
<1> HIDE DEF t
<1>9. Toutes' = t
  BY <1>6 DEF t
<1> QED
  BY <1>1, <1>2, <1>3, <1>7, <1>8, <1>9

(***************************************************************************)
(* A treatment takes the first request, and may overwrite one of the       *)
(* others, of which the client only is known then.                         *)
(***************************************************************************)
LEMMA EffetRepondre ==
  ASSUME file \in Seq(Requetes), courant \in Seq(Requetes), Toutes # <<>>, NEW code,
         Repondre(Toutes[1], Tail(Toutes), code)
  PROVE  /\ courant' = <<>> /\ file' \in Seq(Requetes) /\ Len(file') = Len(Toutes) - 1
         /\ Toutes' = file'
         /\ \A i \in 1..(Len(Toutes) - 1) :
              Toutes'[i] = Toutes[i + 1] \/ Toutes'[i] = Illisible(Toutes[i + 1].de)
         /\ reponse' = [c \in Clients |-> IF c = Toutes[1].de THEN code ELSE reponse[c]]
<1> DEFINE q == Tail(Toutes)
<1>1. Toutes \in Seq(Requetes)
  BY TypesFile
<1>2. q \in Seq(Requetes) /\ Len(q) = Len(Toutes) - 1
      /\ \A i \in 1..(Len(Toutes) - 1) : q[i] = Toutes[i + 1]
  BY <1>1
<1>3. /\ courant' = <<>>
      /\ reponse' = [c \in Clients |-> IF c = Toutes[1].de THEN code ELSE reponse[c]]
      /\ file' \in {q} \cup {[q EXCEPT ![i] = Illisible(@.de)] : i \in DOMAIN q}
  BY DEF Repondre
<1> HIDE DEF q
<1>4. ASSUME NEW x \in Requetes
      PROVE  Illisible(x.de) \in Requetes
  BY <1>4 DEF Illisible, Requete, Requetes, Ops
<1>5. /\ file' \in Seq(Requetes) /\ Len(file') = Len(q)
      /\ \A i \in 1..Len(q) : file'[i] = q[i] \/ file'[i] = Illisible(q[i].de)
  <2>1. CASE file' = q
    BY <1>2, <2>1
  <2>2. ASSUME NEW i \in DOMAIN q, file' = [q EXCEPT ![i] = Illisible(q[i].de)]
        PROVE  /\ file' \in Seq(Requetes) /\ Len(file') = Len(q)
               /\ \A j \in 1..Len(q) : file'[j] = q[j] \/ file'[j] = Illisible(q[j].de)
    <3>1. i \in 1..Len(q) /\ q[i] \in Requetes
      BY <1>2
    <3>2. Illisible(q[i].de) \in Requetes
      BY <1>4, <3>1
    <3> QED
      BY <1>2, <2>2, <3>1, <3>2, ExceptSeq
  <2> QED
    BY <1>3, <2>1, <2>2
<1>6. Toutes' = file'
  <2>1. Toutes' = <<>> \o file'
    BY <1>3 DEF Toutes
  <2> QED
    BY <1>5, <2>1, ConcatEmptySeq
<1> QED
  BY <1>2, <1>3, <1>5, <1>6

-----------------------------------------------------------------------------
(* The end of a treatment. *)

LEMMA EffetTraitement ==
  ASSUME TypeOK, \A c \in Clients : ClientOK(c), Demandes, SuccesVrai, Toutes # <<>>,
         NEW code \in Codes, Repondre(Toutes[1], Tail(Toutes), code),
         UNCHANGED <<etat, etat_co, ident, crees>>,
         code = "0" => /\ Toutes[1].op # "ILLISIBLE"
                       /\ Toutes[1].op \in OpsAnonymes => Admis(Toutes[1].id)
  PROVE  /\ reponse' \in [Clients -> Codes \cup {"aucune"}]
         /\ \A c \in Clients : ClientOK(c)'
         /\ Demandes' /\ SuccesVrai'
<1> DEFINE r == Toutes[1]
<1>1. /\ file \in Seq(Requetes) /\ courant \in Seq(Requetes)
      /\ reponse \in [Clients -> Codes \cup {"aucune"}]
  BY DEF TypeOK
<1>2. /\ Toutes \in Seq(Requetes) /\ DOMAIN Toutes = 1..Len(Toutes) /\ Len(Toutes) \in Nat
      /\ 1 \in DOMAIN Toutes
  <2>1. Toutes \in Seq(Requetes) /\ DOMAIN Toutes = 1..Len(Toutes) /\ Len(Toutes) \in Nat
    BY <1>1, TypesFile
  <2> QED
    BY <2>1, EmptySeq
<1>3. /\ file' \in Seq(Requetes) /\ Len(file') = Len(Toutes) - 1 /\ Toutes' = file'
      /\ \A i \in 1..(Len(Toutes) - 1) :
           Toutes'[i] = Toutes[i + 1] \/ Toutes'[i] = Illisible(Toutes[i + 1].de)
      /\ reponse' = [c \in Clients |-> IF c = r.de THEN code ELSE reponse[c]]
  BY <1>1, EffetRepondre
<1>4. reponse' \in [Clients -> Codes \cup {"aucune"}]
  BY <1>1, <1>3
<1>5. Attendue(r)
  BY <1>2 DEF Demandes
<1>6. \A c \in Clients : ClientOK(c)'
  <2> SUFFICES ASSUME NEW c \in Clients
               PROVE  ClientOK(c)'
    OBVIOUS
  <2>1. reponse'[c] # "aucune" => etat[c] \in Ops
    BY <1>3, <1>5 DEF Attendue, ClientOK
  <2> QED
    BY <2>1 DEF ClientOK
<1>7. Demandes'
  <2>1. DOMAIN Toutes' = 1..(Len(Toutes) - 1)
    BY <1>2, <1>3
  <2>2. ASSUME NEW i \in 1..(Len(Toutes) - 1)
        PROVE  /\ i + 1 \in DOMAIN Toutes /\ i + 1 # 1
               /\ Toutes'[i].de = Toutes[i + 1].de
               /\ Attendue(Toutes[i])'
    <3>1. i + 1 \in DOMAIN Toutes /\ i + 1 # 1
      BY <1>2
    <3>2. Toutes'[i] = Toutes[i + 1] \/ Toutes'[i] = Illisible(Toutes[i + 1].de)
      BY <1>3
    <3>3. Toutes'[i].de = Toutes[i + 1].de
      BY <3>2 DEF Illisible, Requete
    <3>4. Attendue(Toutes[i + 1])
      BY <3>1 DEF Demandes
    <3>5. /\ Toutes'[i].op = Toutes[i + 1].op /\ Toutes'[i].id = Toutes[i + 1].id
          \/ Toutes'[i].op = "ILLISIBLE"
      BY <3>2 DEF Illisible, Requete
    <3>6. Toutes'[i].op \in OpsAnonymes => Toutes'[i].id \in Ids
      BY <3>4, <3>5 DEF Attendue, OpsAnonymes
    <3>7. ASSUME Toutes'[i].de \in Clients
          PROVE  /\ etat[Toutes'[i].de] \in Ops /\ reponse'[Toutes'[i].de] = "aucune"
                 /\ \/ Toutes'[i].op = "ILLISIBLE"
                    \/ /\ Toutes'[i].op = etat[Toutes'[i].de]
                       /\ Toutes'[i].id = ident[Toutes'[i].de]
      <4>1. Toutes[i + 1].de # r.de
        BY <1>2, <3>1, <3>3, <3>7 DEF Demandes
      <4>2. reponse'[Toutes'[i].de] = reponse[Toutes[i + 1].de]
        BY <1>3, <3>3, <3>7, <4>1
      <4> QED
        BY <3>3, <3>4, <3>5, <3>7, <4>2 DEF Attendue
    <3> QED
      BY <3>1, <3>3, <3>6, <3>7 DEF Attendue
  <2>3. ASSUME NEW i \in 1..(Len(Toutes) - 1), NEW j \in 1..(Len(Toutes) - 1),
               Toutes'[i].de \in Clients, Toutes'[i].de = Toutes'[j].de
        PROVE  i = j
    <3>1. i + 1 = j + 1
      BY <2>2, <2>3 DEF Demandes
    <3> QED
      BY <3>1
  <2> QED
    BY <2>1, <2>2, <2>3 DEF Demandes
<1>8. SuccesVrai'
  <2> SUFFICES ASSUME NEW c \in Clients
               PROVE  /\ etat_co[c] => Admis(ident[c])
                      /\ etat[c] \in OpsAnonymes /\ reponse'[c] = "0" => Admis(ident[c])
    BY DEF SuccesVrai, Admis
  <2>1. CASE c # r.de
    BY <1>3, <2>1 DEF SuccesVrai
  <2>2. CASE c = r.de
    <3>1. reponse'[c] = code
      BY <1>3, <2>2
    <3>2. code = "0" => r.op = etat[c] /\ r.id = ident[c]
      BY <1>5, <2>2 DEF Attendue
    <3> QED
      BY <3>1, <3>2 DEF SuccesVrai
  <2> QED
    BY <2>1, <2>2
<1> QED
  BY <1>4, <1>6, <1>7, <1>8

(***************************************************************************)
(* Only a success of CONNEXION makes a client own an entry; one of a       *)
(* request to leave takes it back.                                         *)
(***************************************************************************)
LEMMA TraitementTenants ==
  ASSUME TypeOK, \A c \in Clients : ClientOK(c), Demandes, Toutes # <<>>,
         NEW code \in Codes, Repondre(Toutes[1], Tail(Toutes), code),
         UNCHANGED <<etat, etat_co, ident>>,
         code = "0" => Toutes[1].op # "ILLISIBLE",
         NEW p
  PROVE  /\ code = "0" /\ Toutes[1].op = "CONNEXION" =>
              \/ Tenants(p)' \subseteq Tenants(p)
              \/ Toutes[1].id.pseudo = p /\ Tenants(p)' \subseteq Tenants(p) \cup {Toutes[1].de}
         /\ ~(code = "0" /\ Toutes[1].op = "CONNEXION") => Tenants(p)' \subseteq Tenants(p)
         /\ code = "0" /\ Toutes[1].op \in Departs /\ Toutes[1].de \in Clients
              /\ Toutes[1].id.pseudo = p
              => Toutes[1].de \in Tenants(p) /\ Toutes[1].de \notin Tenants(p)'
<1> DEFINE r == Toutes[1]
<1>1. /\ file \in Seq(Requetes) /\ courant \in Seq(Requetes)
      /\ reponse \in [Clients -> Codes \cup {"aucune"}]
  BY DEF TypeOK
<1>2. 1 \in DOMAIN Toutes
  <2>1. Toutes \in Seq(Requetes) /\ DOMAIN Toutes = 1..Len(Toutes)
    BY <1>1, TypesFile
  <2> QED
    BY <2>1, EmptySeq
<1>3. reponse' = [c \in Clients |-> IF c = r.de THEN code ELSE reponse[c]]
  BY <1>1, EffetRepondre
<1>4. Attendue(r)
  BY <1>2 DEF Demandes
<1>5. \A c \in Clients : c # r.de => (c \in Tenants(p)' <=> c \in Tenants(p))
  BY <1>3 DEF Tenants, Croyants
<1>6. r.de \in Clients => reponse'[r.de] = code /\ reponse[r.de] = "aucune"
  BY <1>3, <1>4 DEF Attendue
<1>7. r.de \in Clients /\ code = "0" => etat[r.de] = r.op /\ ident[r.de] = r.id
  BY <1>4 DEF Attendue
<1>8. Tenants(p) \subseteq Clients /\ Tenants(p)' \subseteq Clients
  BY DEF Tenants, Croyants
<1>9. ASSUME r.de \in Clients, r.de \in Tenants(p)'
      PROVE  \/ r.de \in Tenants(p)
             \/ code = "0" /\ r.op = "CONNEXION" /\ r.id.pseudo = p
  BY <1>6, <1>7, <1>9 DEF Tenants, Croyants
<1>10. ASSUME code = "0", r.op \in Departs, r.de \in Clients, r.id.pseudo = p
       PROVE  r.de \in Tenants(p) /\ r.de \notin Tenants(p)'
  <2>1. etat[r.de] \in Departs /\ ident[r.de].pseudo = p /\ etat_co[r.de]
    BY <1>7, <1>10 DEF Departs, ClientOK, OpsConnectees
  <2>2. etat[r.de] # "CONNEXION"
    BY <2>1 DEF Departs
  <2> QED
    BY <1>6, <1>10, <2>1, <2>2 DEF Tenants, Croyants, Departs
<1> HIDE DEF r
<1>11. \/ Tenants(p)' \subseteq Tenants(p)
       \/ /\ code = "0" /\ r.op = "CONNEXION" /\ r.id.pseudo = p
          /\ Tenants(p)' \subseteq Tenants(p) \cup {r.de}
  BY <1>5, <1>8, <1>9
<1> QED
  BY <1>10, <1>11 DEF r

LEMMA TraitementPositions ==
  ASSUME TypeOK, Toutes # <<>>, NEW code, Repondre(Toutes[1], Tail(Toutes), code), NEW p
  PROVE  Cardinality(Positions(Toutes, Orphelin(p))')
           <= Cardinality(Positions(Toutes, Orphelin(p)))
                - (IF Toutes[1] \in Orphelin(p) THEN 1 ELSE 0)
<1> DEFINE O == Orphelin(p)
           q == Tail(Toutes)
           t == Toutes'
<1>1. file \in Seq(Requetes) /\ courant \in Seq(Requetes)
  BY DEF TypeOK
<1>2. Toutes \in Seq(Requetes)
  BY <1>1, TypesFile
<1>3. q \in Seq(Requetes) /\ Len(q) = Len(Toutes) - 1
      /\ \A i \in 1..Len(q) : q[i] = Toutes[i + 1]
  BY <1>2
<1>4. t \in Seq(Requetes) /\ Len(t) = Len(q)
      /\ \A i \in 1..Len(q) : t[i] = q[i] \/ t[i] = Illisible(q[i].de)
  <2>1. t \in Seq(Requetes) /\ Len(t) = Len(Toutes) - 1
        /\ \A i \in 1..(Len(Toutes) - 1) :
             t[i] = Toutes[i + 1] \/ t[i] = Illisible(Toutes[i + 1].de)
    BY <1>1, EffetRepondre
  <2> HIDE DEF t, q
  <2> QED
    BY <1>3, <2>1
<1>5. \A x : Illisible(x) \notin O
  BY DEF Illisible, Requete, Orphelin, Departs
<1> HIDE DEF t, q
<1>6. Cardinality(Positions(t, O)) <= Cardinality(Positions(q, O))
  <2>1. \A i \in 1..Len(q) : t[i] \in O => q[i] \in O
    BY <1>4, <1>5
  <2> HIDE DEF O
  <2> QED
    BY <1>3, <1>4, <2>1, PositionsMoins
<1>7. Cardinality(Positions(Tail(Toutes), O))
        = Cardinality(Positions(Toutes, O)) - (IF Toutes[1] \in O THEN 1 ELSE 0)
  <2> HIDE DEF O
  <2> QED
    BY <1>2, PositionsTail
<1>8. Positions(Toutes, Orphelin(p))' = Positions(t, O)
  BY DEF Positions, Orphelin, t
<1> QED
  BY <1>6, <1>7, <1>8 DEF q

LEMMA TypesCompte ==
  ASSUME TypeOK, NEW p
  PROVE  /\ Cardinality(Positions(Toutes, Orphelin(p))) \in Nat
         /\ Cardinality(Entrees(p)) \in Nat
<1>1. /\ file \in Seq(Requetes) /\ courant \in Seq(Requetes)
      /\ utilisateurs \in Seq(Pseudos)
  BY DEF TypeOK
<1>2. Toutes \in Seq(Requetes)
  BY <1>1, TypesFile
<1>3. Cardinality(Positions(utilisateurs, {p})) \in Nat
  BY <1>1, PositionsFinies
<1>4. Entrees(p) = Positions(utilisateurs, {p})
  BY DEF Entrees, Positions
<1> QED
  BY <1>2, <1>3, <1>4, PositionsFinies

LEMMA TypesCompteApres ==
  ASSUME TypeOK, Toutes # <<>>, NEW code, Repondre(Toutes[1], Tail(Toutes), code), NEW p
  PROVE  Cardinality(Positions(Toutes, Orphelin(p))') \in Nat
<1>1. file \in Seq(Requetes) /\ courant \in Seq(Requetes)
  BY DEF TypeOK
<1>2. Toutes' \in Seq(Requetes)
  BY <1>1, EffetRepondre
<1>3. Cardinality(Positions(Toutes', Orphelin(p))) \in Nat
  BY <1>2, PositionsFinies
<1> QED
  BY <1>3 DEF Positions, Orphelin

(***************************************************************************)
(* A treatment that does not touch the list, and does not connect anybody. *)
(***************************************************************************)
LEMMA CompteSansListe ==
  ASSUME TypeOK, \A c \in Clients : ClientOK(c), Demandes, Toutes # <<>>,
         NEW code \in Codes, Repondre(Toutes[1], Tail(Toutes), code),
         UNCHANGED <<etat, etat_co, ident>>, UNCHANGED utilisateurs,
         code = "0" => Toutes[1].op \notin {"ILLISIBLE", "CONNEXION"},
         NEW p, Compte(p)
  PROVE  Compte(p)'
<1> DEFINE T == Tenants(p)
           o == Cardinality(Positions(Toutes, Orphelin(p)))
           e == Cardinality(Entrees(p))
<1>1. T' \subseteq T
  BY TraitementTenants
<1>2. o \in Nat /\ o' \in Nat /\ e \in Nat /\ e' = e
  BY TypesCompte, TypesCompteApres DEF Entrees
<1>3. o' <= o - (IF Toutes[1] \in Orphelin(p) THEN 1 ELSE 0)
  BY TraitementPositions
<1>4. IsFiniteSet(T) /\ Cardinality(T) + o <= e
  BY DEF Compte
<1> HIDE DEF T, o, e
<1>5. IsFiniteSet(T') /\ Cardinality(T') <= Cardinality(T)
      /\ Cardinality(T) \in Nat /\ Cardinality(T') \in Nat
  BY <1>1, <1>4, FS_Subset, FS_CardinalityType
<1>6. IsFiniteSet(T') /\ Cardinality(T') + o' <= e'
  BY <1>2, <1>3, <1>4, <1>5
<1> QED
  BY <1>6 DEF Compte, T, o, e

(***************************************************************************)
(* An entry of another name goes, or none.                                 *)
(***************************************************************************)
LEMMA CompteDesAutres ==
  ASSUME TypeOK, \A c \in Clients : ClientOK(c), Demandes, Toutes # <<>>,
         NEW code \in Codes, Repondre(Toutes[1], Tail(Toutes), code),
         UNCHANGED <<etat, etat_co, ident>>,
         utilisateurs' = RemoveFirst(utilisateurs, Toutes[1].id.pseudo),
         Toutes[1].op # "ILLISIBLE",
         NEW p, p # Toutes[1].id.pseudo, Compte(p)
  PROVE  Compte(p)'
<1> DEFINE T == Tenants(p)
           o == Cardinality(Positions(Toutes, Orphelin(p)))
           e == Cardinality(Entrees(p))
<1>1. T' \subseteq T
  BY TraitementTenants
<1>2. o \in Nat /\ o' \in Nat /\ e \in Nat
  BY TypesCompte, TypesCompteApres
<1>3. o' <= o - (IF Toutes[1] \in Orphelin(p) THEN 1 ELSE 0)
  BY TraitementPositions
<1>4. IsFiniteSet(T) /\ Cardinality(T) + o <= e
  BY DEF Compte
<1>5. e' = e
  <2> DEFINE q == Toutes[1].id.pseudo
  <2>1. e' = e - (IF q = p /\ Entrees(p) # {} THEN 1 ELSE 0)
    BY EntreesRetirees DEF TypeOK
  <2> HIDE DEF e
  <2> QED
    BY <1>2, <2>1
<1> HIDE DEF T, o, e
<1>6. IsFiniteSet(T') /\ Cardinality(T') <= Cardinality(T)
      /\ Cardinality(T) \in Nat /\ Cardinality(T') \in Nat
  BY <1>1, <1>4, FS_Subset, FS_CardinalityType
<1>7. IsFiniteSet(T') /\ Cardinality(T') + o' <= e'
  BY <1>2, <1>3, <1>4, <1>5, <1>6
<1> QED
  BY <1>7 DEF Compte, T, o, e

(***************************************************************************)
(* AjouterUtilisateur: the entry comes with whom it is of.                 *)
(***************************************************************************)
LEMMA CompteAjout ==
  ASSUME TypeOK, \A c \in Clients : ClientOK(c), Demandes, Toutes # <<>>,
         Repondre(Toutes[1], Tail(Toutes), "0"), Toutes[1].op = "CONNEXION",
         UNCHANGED <<etat, etat_co, ident>>,
         Toutes[1].id.pseudo \in Pseudos,
         utilisateurs' = Append(utilisateurs, Toutes[1].id.pseudo),
         NEW p, Compte(p)
  PROVE  Compte(p)'
<1> DEFINE T == Tenants(p)
           o == Cardinality(Positions(Toutes, Orphelin(p)))
           e == Cardinality(Entrees(p))
           q == Toutes[1].id.pseudo
           c == Toutes[1].de
<1>0. "0" \in Codes
  BY DEF Codes
<1>1. T' \subseteq T \/ (q = p /\ T' \subseteq T \cup {c})
  BY <1>0, TraitementTenants
<1>2. o \in Nat /\ o' \in Nat /\ e \in Nat
  BY TypesCompte, TypesCompteApres
<1>3. o' <= o - (IF Toutes[1] \in Orphelin(p) THEN 1 ELSE 0)
  BY TraitementPositions
<1>4. IsFiniteSet(T) /\ Cardinality(T) + o <= e
  BY DEF Compte
<1>5. e' = e + (IF q = p THEN 1 ELSE 0)
  BY EntreesAjoutees DEF TypeOK
<1> HIDE DEF T, o, e, q, c
<1>6. IsFiniteSet(T') /\ Cardinality(T) \in Nat /\ Cardinality(T') \in Nat
      /\ Cardinality(T') <= Cardinality(T) + (IF q = p THEN 1 ELSE 0)
  <2>1. Cardinality(T) \in Nat
    BY <1>4, FS_CardinalityType
  <2>2. CASE T' \subseteq T
    BY <1>4, <2>1, <2>2, FS_Subset, FS_CardinalityType
  <2>3. CASE q = p /\ T' \subseteq T \cup {c}
    <3>1. /\ IsFiniteSet(T \cup {c})
          /\ Cardinality(T \cup {c}) = IF c \in T THEN Cardinality(T) ELSE Cardinality(T) + 1
      BY <1>4, FS_AddElement
    <3>2. IsFiniteSet(T') /\ Cardinality(T') <= Cardinality(T \cup {c})
      BY <2>3, <3>1, FS_Subset
    <3>3. Cardinality(T') \in Nat
      BY <3>2, FS_CardinalityType
    <3> QED
      BY <2>1, <2>3, <3>1, <3>2, <3>3
  <2> QED
    BY <1>1, <2>2, <2>3
<1>7. IsFiniteSet(T') /\ Cardinality(T') + o' <= e'
  BY <1>2, <1>3, <1>4, <1>5, <1>6
<1> QED
  BY <1>7 DEF Compte, T, o, e

(***************************************************************************)
(* SupprimerUtilisateur, for whoever leaves: its entry goes with it, or    *)
(* with the request that it left behind.                                   *)
(***************************************************************************)
LEMMA CompteRetrait ==
  ASSUME TypeOK, \A c \in Clients : ClientOK(c), Demandes, Toutes # <<>>,
         NEW code \in Codes, Repondre(Toutes[1], Tail(Toutes), code),
         Toutes[1].op \in Departs,
         UNCHANGED <<etat, etat_co, ident>>,
         utilisateurs' = RemoveFirst(utilisateurs, Toutes[1].id.pseudo),
         code = "0" \/ Entrees(Toutes[1].id.pseudo) = {},
         NEW p, Compte(p)
  PROVE  Compte(p)'
<1> DEFINE T == Tenants(p)
           o == Cardinality(Positions(Toutes, Orphelin(p)))
           E == Entrees(p)
           e == Cardinality(E)
           q == Toutes[1].id.pseudo
           c == Toutes[1].de
<1>0. Toutes[1].op # "ILLISIBLE" /\ Toutes[1].op # "CONNEXION"
  BY DEF Departs
<1>1. T' \subseteq T
  BY <1>0, TraitementTenants
<1>2. code = "0" /\ c \in Clients /\ q = p => c \in T /\ c \notin T'
  BY <1>0, TraitementTenants
<1>3. o \in Nat /\ o' \in Nat /\ e \in Nat
  BY TypesCompte, TypesCompteApres
<1>4. o' <= o - (IF Toutes[1] \in Orphelin(p) THEN 1 ELSE 0)
  BY TraitementPositions
<1>5. IsFiniteSet(T) /\ Cardinality(T) + o <= e
  BY DEF Compte
<1>6. e' = e - (IF q = p /\ E # {} THEN 1 ELSE 0)
  BY EntreesRetirees DEF TypeOK
<1>7. c \notin Clients /\ q = p => Toutes[1] \in Orphelin(p)
  <2>1. file \in Seq(Requetes) /\ courant \in Seq(Requetes)
    BY DEF TypeOK
  <2>2. Toutes \in Seq(Requetes)
    BY <2>1, TypesFile
  <2>3. Toutes[1] \in Requetes
    BY <2>2
  <2> QED
    BY <2>3 DEF Orphelin, Requetes
<1>8. q = p /\ E # {} => code = "0"
  OBVIOUS
<1> HIDE DEF T, o, E, e, q, c
<1>9. IsFiniteSet(T') /\ Cardinality(T) \in Nat /\ Cardinality(T') \in Nat
      /\ Cardinality(T') <= Cardinality(T)
  BY <1>1, <1>5, FS_Subset, FS_CardinalityType
<1>10. Cardinality(T') + o' <= e'
  <2>1. CASE ~(q = p /\ E # {})
    BY <1>3, <1>4, <1>5, <1>6, <1>9, <2>1
  <2>2. CASE q = p /\ E # {} /\ c \notin Clients
    BY <1>3, <1>4, <1>5, <1>6, <1>7, <1>9, <2>2
  <2>3. CASE q = p /\ E # {} /\ c \in Clients
    <3>1. c \in T /\ T' \subseteq T \ {c}
      BY <1>1, <1>2, <1>8, <2>3
    <3>2. IsFiniteSet(T \ {c}) /\ Cardinality(T \ {c}) = Cardinality(T) - 1
      BY <1>5, <3>1, FS_RemoveElement
    <3>3. Cardinality(T') <= Cardinality(T \ {c})
      BY <3>1, <3>2, FS_Subset
    <3> QED
      BY <1>3, <1>4, <1>5, <1>6, <1>9, <2>3, <3>2, <3>3
  <2> QED
    BY <2>1, <2>2, <2>3
<1> QED
  BY <1>9, <1>10 DEF Compte, T, o, E, e

-----------------------------------------------------------------------------
(* The steps of ProcessusRequetes. *)

LEMMA DepuisLaFile ==
  ASSUME TypeOK, courant = <<>>, file # <<>>
  PROVE  /\ Toutes # <<>> /\ Toutes[1] = Head(file) /\ Tail(Toutes) = Tail(file)
         /\ Toutes[1] \in Requetes
         /\ recu = "aucun"
<1>1. file \in Seq(Requetes) /\ courant \in Seq(Requetes)
  BY DEF TypeOK
<1>2. Toutes = file
  BY <1>1, TypesFile
<1>3. file[1] = Head(file) /\ file[1] \in Requetes
  BY <1>1
<1>4. recu = "aucun"
  BY DEF TypeOK
<1> QED
  BY <1>2, <1>3, <1>4

LEMMA DepuisCourant ==
  ASSUME TypeOK, recu # "aucun"
  PROVE  /\ courant # <<>> /\ Toutes # <<>> /\ Toutes[1] = courant[1]
         /\ Tail(Toutes) = file /\ Toutes[1] \in Requetes
<1>1. file \in Seq(Requetes) /\ courant \in Seq(Requetes) /\ Len(courant) = 1
  BY DEF TypeOK
<1>2. courant[1] \in Requetes
  BY <1>1
<1>3. courant # <<>>
  <2>1. Len(<<>>) = 0 /\ 0 # 1
    BY EmptySeq
  <2>2. Len(courant) = 1
    BY <1>1
  <2> QED
    BY <2>1, <2>2, Zenon
<1> QED
  BY <1>1, <1>2, <1>3, ToutesAvecCourant

(***************************************************************************)
(* What every treatment leaves behind, however it ends.                    *)
(***************************************************************************)
LEMMA FinDeTraitement ==
  ASSUME IInv, Toutes # <<>>,
         NEW code \in Codes, Repondre(Toutes[1], Tail(Toutes), code),
         UNCHANGED <<etat, etat_co, ident, passerelle, comptes, crees, perdus>>,
         trompes' \subseteq Pseudos,
         diffuse' \subseteq Clients,
         code = "0" => /\ Toutes[1].op # "ILLISIBLE"
                       /\ Toutes[1].op \in OpsAnonymes => Admis(Toutes[1].id),
         utilisateurs' \in Seq(Pseudos), Len(utilisateurs') <= MAX_UTILISATEURS,
         udp' \in Seq([op : OpsRMI, id : Ids \cup {Anonyme}, vivant : BOOLEAN]),
         Len(udp') <= MaxDatagrammes,
         \A i \in DOMAIN udp' : /\ udp'[i].op = "CREERCOMPTE" => udp'[i].id \in Ids
                                /\ ~udp'[i].vivant,
         recu' = "aucun",
         \A p \in Pseudos \ trompes' : Compte(p)'
  PROVE  IInv'
<1>1. TypeOK /\ (\A c \in Clients : ClientOK(c)) /\ Demandes /\ SuccesVrai
  BY DEF IInv
<1>2. /\ reponse' \in [Clients -> Codes \cup {"aucune"}]
      /\ \A c \in Clients : ClientOK(c)'
      /\ Demandes' /\ SuccesVrai'
  BY <1>1, EffetTraitement
<1>3. /\ file \in Seq(Requetes) /\ courant \in Seq(Requetes)
      /\ Len(file) < MAX_CLIENTS /\ Len(courant) <= 1
  BY <1>1 DEF TypeOK
<1>4. courant' = <<>> /\ file' \in Seq(Requetes) /\ Len(file') = Len(Toutes) - 1
  BY <1>3, EffetRepondre
<1>5. Len(file') < MAX_CLIENTS
  <2>1. Len(Toutes) = Len(courant) + Len(file) /\ Len(courant) \in Nat /\ Len(file) \in Nat
    BY <1>3, TypesFile
  <2> QED
    BY <1>3, <1>4, <2>1, GestionRequeteAssumption
<1>6. courant' \in Seq(Requetes) /\ Len(courant') = 0
  BY <1>4
<1>7. TypeOK'
  BY <1>1, <1>2, <1>4, <1>5, <1>6 DEF TypeOK
<1>8. Questions'
  BY DEF Questions, OpsComptes
<1> QED
  BY <1>2, <1>7, <1>8 DEF IInv

(***************************************************************************)
(* A treatment that does not ask the gateway, with the list as it was.     *)
(***************************************************************************)
LEMMA FinSansPasserelle ==
  ASSUME IInv, courant = <<>>, file # <<>>,
         NEW code \in Codes, Repondre(Head(file), Tail(file), code),
         UNCHANGED <<client, rmi, perdus>>, diffuse' \subseteq Clients,
         trompes' \subseteq Pseudos,
         code = "0" => /\ Head(file).op # "ILLISIBLE"
                       /\ Head(file).op \in OpsAnonymes => Admis(Head(file).id),
         utilisateurs' \in Seq(Pseudos), Len(utilisateurs') <= MAX_UTILISATEURS,
         \A p \in Pseudos \ trompes' : Compte(p)'
  PROVE  IInv'
<1>1. TypeOK /\ Questions
  BY DEF IInv
<1>2. /\ Toutes # <<>> /\ Toutes[1] = Head(file) /\ Tail(Toutes) = Tail(file)
      /\ recu = "aucun"
  BY <1>1, DepuisLaFile
<1>3. /\ Repondre(Toutes[1], Tail(Toutes), code)
      /\ UNCHANGED <<etat, etat_co, ident, passerelle, comptes, crees, perdus>>
      /\ UNCHANGED udp /\ recu' = "aucun"
  BY <1>2 DEF client, rmi
<1>4. /\ udp' \in Seq([op : OpsRMI, id : Ids \cup {Anonyme}, vivant : BOOLEAN])
      /\ Len(udp') <= MaxDatagrammes
  BY <1>1, <1>3 DEF TypeOK
<1>5. \A i \in DOMAIN udp' : /\ udp'[i].op = "CREERCOMPTE" => udp'[i].id \in Ids
                             /\ ~udp'[i].vivant
  BY <1>1, <1>2, <1>3 DEF Questions
<1>6. code = "0" => /\ Toutes[1].op # "ILLISIBLE"
                    /\ Toutes[1].op \in OpsAnonymes => Admis(Toutes[1].id)
  BY <1>2
<1> QED
  BY <1>2, <1>3, <1>4, <1>5, <1>6, FinDeTraitement

LEMMA FinSansListe ==
  ASSUME IInv, courant = <<>>, file # <<>>,
         NEW code \in Codes, Repondre(Head(file), Tail(file), code),
         UNCHANGED <<client, rmi, trompes, perdus>>, UNCHANGED utilisateurs,
         diffuse' \subseteq Clients,
         code = "0" => Head(file).op \notin {"ILLISIBLE", "CONNEXION", "CREERCOMPTE"}
  PROVE  IInv'
<1>1. TypeOK /\ (\A c \in Clients : ClientOK(c)) /\ Demandes
  BY DEF IInv
<1>2. Toutes # <<>> /\ Toutes[1] = Head(file) /\ Tail(Toutes) = Tail(file)
  BY <1>1, DepuisLaFile
<1>3. Repondre(Toutes[1], Tail(Toutes), code) /\ UNCHANGED <<etat, etat_co, ident>>
  BY <1>2 DEF client
<1>4. \A p \in Pseudos \ trompes' : Compte(p)'
  BY <1>1, <1>2, <1>3, CompteSansListe DEF IInv
<1>5. /\ trompes' \subseteq Pseudos
      /\ utilisateurs' \in Seq(Pseudos) /\ Len(utilisateurs') <= MAX_UTILISATEURS
  BY <1>1 DEF TypeOK
<1>6. code = "0" => /\ Head(file).op # "ILLISIBLE"
                    /\ Head(file).op \in OpsAnonymes => Admis(Head(file).id)
  BY DEF OpsAnonymes
<1> QED
  BY <1>4, <1>5, <1>6, FinSansPasserelle

LEMMA ListerInv ==
  ASSUME IInv, Lister
  PROVE  IInv'
<1>1. /\ courant = <<>> /\ file # <<>>
      /\ Repondre(Head(file), Tail(file), "3") /\ "3" \in Codes
      /\ UNCHANGED <<client, rmi, trompes, perdus>> /\ UNCHANGED utilisateurs
  BY DEF Lister, ATraiter, Codes, histoires
<1>2. diffuse' \subseteq Clients
  BY DEF Lister, IInv, TypeOK
<1> QED
  BY <1>1, <1>2, FinSansListe

LEMMA NonImplementeeInv ==
  ASSUME IInv, NonImplementee
  PROVE  IInv'
<1>1. /\ courant = <<>> /\ file # <<>>
      /\ Repondre(Head(file), Tail(file), "4") /\ "4" \in Codes
      /\ UNCHANGED <<client, rmi, trompes, perdus>> /\ UNCHANGED utilisateurs
  BY DEF NonImplementee, ATraiter, Codes, histoires
<1>2. diffuse' \subseteq Clients
  BY DEF NonImplementee, IInv, TypeOK
<1> QED
  BY <1>1, <1>2, FinSansListe

LEMMA SansArgumentInv ==
  ASSUME IInv, SansArgument
  PROVE  IInv'
<1>1. /\ courant = <<>> /\ file # <<>>
      /\ Repondre(Head(file), Tail(file), "1") /\ "1" \in Codes
      /\ UNCHANGED <<client, rmi, trompes, perdus>> /\ UNCHANGED utilisateurs
  BY DEF SansArgument, ATraiter, Codes, histoires
<1>2. diffuse' \subseteq Clients
  BY DEF SansArgument, IInv, TypeOK
<1> QED
  BY <1>1, <1>2, FinSansListe

(***************************************************************************)
(* The branch of l.235: a client that leaves takes its entry along; one    *)
(* that wanted to connect or to create an account takes anybody's of its   *)
(* name.                                                                   *)
(***************************************************************************)
LEMMA QuitterInv ==
  ASSUME IInv, Quitter
  PROVE  IInv'
<1> DEFINE r == Head(file)
           q == r.id.pseudo
<1>1. TypeOK /\ (\A c \in Clients : ClientOK(c)) /\ Demandes
  BY DEF IInv
<1>2. /\ courant = <<>> /\ file # <<>> /\ Branche(r) = "QUITTER"
      /\ Repondre(r, Tail(file), "0") /\ "0" \in Codes
      /\ utilisateurs' = RemoveFirst(utilisateurs, q)
      /\ trompes' = (IF r.op \in OpsAnonymes THEN trompes \cup {q} ELSE trompes)
      /\ UNCHANGED <<client, rmi, perdus>>
  BY DEF Quitter, ATraiter, Codes, PrisPourUnDepart
<1>3. diffuse' \subseteq Clients
  BY DEF Quitter, IInv, TypeOK
<1>4. /\ Toutes # <<>> /\ Toutes[1] = r /\ Tail(Toutes) = Tail(file)
      /\ Toutes[1] \in Requetes
  BY <1>1, <1>2, DepuisLaFile
<1>5. Repondre(Toutes[1], Tail(Toutes), "0") /\ UNCHANGED <<etat, etat_co, ident>>
  BY <1>2, <1>4 DEF client
<1>6. Attendue(Toutes[1])
  <2>1. Toutes \in Seq(Requetes) /\ DOMAIN Toutes = 1..Len(Toutes)
    BY <1>1, TypesFile DEF TypeOK
  <2>2. 1 \in DOMAIN Toutes
    BY <1>4, <2>1, EmptySeq
  <2> QED
    BY <1>1, <2>2 DEF Demandes
<1> HIDE DEF r
<1>7. r.op \in Ops /\ (r.op \in OpsAnonymes => r.id \in Ids)
  BY <1>4, <1>6 DEF Attendue, Requetes
<1>8. r.op \in Departs \/ (r.op \in OpsAnonymes /\ AvecLeMotQuitter(r.id))
  <2>1. CASE r.op = "QUITTER"
    BY <2>1 DEF Departs
  <2>2. CASE r.op # "QUITTER"
    <3>1. r.op \notin {"MESSAGE", "ILLISIBLE", "LISTEUTILISATEUR"} /\ Contient(r, AvecQuitter)
      <4>1. r.op \notin {"MESSAGE", "ILLISIBLE"}
        BY <1>2 DEF Branche
      <4>2. Contient(r, AvecQuitter)
        BY <1>2, <2>2, <4>1 DEF Branche
      <4> QED
        BY <4>1, <4>2 DEF Contient
    <3>2. AvecLeMotQuitter(r.id)
      BY <3>1 DEF Contient, AvecLeMotQuitter
    <3> QED
      BY <1>7, <3>1, <3>2 DEF Ops, OpsAnonymes, OpsConnectees, Departs
  <2> QED
    BY <2>1, <2>2
<1>9. utilisateurs' \in Seq(Pseudos) /\ Len(utilisateurs') <= MAX_UTILISATEURS
  <2>1. utilisateurs \in Seq(Pseudos) /\ Len(utilisateurs) <= MAX_UTILISATEURS
    BY <1>1 DEF TypeOK
  <2>2. utilisateurs' \in Seq(Pseudos) /\ Len(utilisateurs') <= Len(utilisateurs)
    BY <1>2, <2>1, EntreesRetirees
  <2> QED
    BY <2>1, <2>2, GestionRequeteAssumption
<1>10. trompes' \subseteq Pseudos
  BY <1>1, <1>2, <1>7 DEF TypeOK, Ids
<1>11. r.op # "ILLISIBLE" /\ (r.op \in OpsAnonymes => Admis(r.id))
  <2>1. r.op # "ILLISIBLE"
    BY <1>8 DEF Departs, OpsAnonymes
  <2>2. r.op \in OpsAnonymes => r.op \notin Departs
    BY DEF Departs, OpsAnonymes
  <2> QED
    BY <1>7, <1>8, <2>1, <2>2 DEF Admis
<1>12. ASSUME NEW p \in Pseudos \ trompes'
       PROVE  Compte(p)'
  <2>1. p \in Pseudos \ trompes /\ (r.op \in OpsAnonymes => p # q)
    BY <1>2
  <2>2. Compte(p)
    BY <2>1 DEF IInv
  <2>3. CASE r.op \in Departs
    <3>1. Toutes[1].op \in Departs /\ utilisateurs' = RemoveFirst(utilisateurs, Toutes[1].id.pseudo)
      BY <1>2, <1>4, <2>3
    <3> QED
      BY <1>1, <1>2, <1>4, <1>5, <2>2, <3>1, CompteRetrait
  <2>4. CASE r.op \in OpsAnonymes
    <3>1. /\ Toutes[1].op # "ILLISIBLE" /\ p # Toutes[1].id.pseudo
          /\ utilisateurs' = RemoveFirst(utilisateurs, Toutes[1].id.pseudo)
      BY <1>2, <1>4, <1>11, <2>1, <2>4
    <3> QED
      BY <1>1, <1>2, <1>4, <1>5, <2>2, <3>1, CompteDesAutres
  <2> QED
    BY <1>8, <2>3, <2>4
<1> QED
  BY <1>2, <1>3, <1>9, <1>10, <1>11, <1>12, FinSansPasserelle DEF r

LEMMA DiffuserInv ==
  ASSUME IInv, Diffuser
  PROVE  IInv'
<1>1. /\ courant = <<>> /\ file # <<>> /\ Branche(Head(file)) = "MESSAGE" /\ "0" \in Codes
      /\ UNCHANGED <<client, rmi, trompes, perdus>> /\ UNCHANGED utilisateurs
  BY DEF Diffuser, ATraiter, Codes, histoires
<1>2. Head(file).op \notin {"ILLISIBLE", "CONNEXION", "CREERCOMPTE"}
  BY <1>1 DEF Branche
<1>3. diffuse' \subseteq Clients
  BY GestionRequeteAssumption DEF Diffuser, IInv, TypeOK
<1>4. /\ file' = Tail(file) /\ courant' = <<>>
      /\ reponse' = [c \in Clients |-> IF c = Head(file).de THEN "0" ELSE reponse[c]]
  BY <1>1 DEF Diffuser
<1>5. Repondre(Head(file), Tail(file), "0")
  BY <1>4 DEF Repondre
<1> QED
  BY <1>1, <1>2, <1>3, <1>5, FinSansListe

(***************************************************************************)
(* A treatment that has asked the gateway.                                 *)
(***************************************************************************)
LEMMA RecevoirReponseInv ==
  ASSUME IInv, RecevoirReponse
  PROVE  IInv'
<1>1. TypeOK /\ (\A c \in Clients : ClientOK(c)) /\ Demandes /\ Questions
  BY DEF IInv
<1>2. /\ recu # "aucun" /\ recu # "attendu"
      /\ UNCHANGED <<etat, etat_co, ident, passerelle, comptes, crees, trompes, perdus>>
      /\ UNCHANGED <<etat, etat_co, ident>> /\ UNCHANGED udp /\ UNCHANGED diffuse
  BY DEF RecevoirReponse, client, histoires
<1>3. /\ courant # <<>> /\ Toutes # <<>> /\ Toutes[1] = courant[1]
      /\ Tail(Toutes) = file /\ Toutes[1] \in Requetes
  BY <1>1, <1>2, DepuisCourant
<1>4. /\ utilisateurs \in Seq(Pseudos) /\ Len(utilisateurs) <= MAX_UTILISATEURS
      /\ udp' \in Seq([op : OpsRMI, id : Ids \cup {Anonyme}, vivant : BOOLEAN])
      /\ Len(udp') <= MaxDatagrammes /\ diffuse' \subseteq Clients /\ trompes' \subseteq Pseudos
  BY <1>1, <1>2 DEF TypeOK
<1>5. \A i \in DOMAIN udp' : /\ udp'[i].op = "CREERCOMPTE" => udp'[i].id \in Ids
                             /\ ~udp'[i].vivant
  BY <1>1, <1>2 DEF Questions
<1>6. ASSUME NEW code \in Codes, Finir(code),
             code = "0" => /\ Toutes[1].op # "ILLISIBLE"
                           /\ Toutes[1].op \in OpsAnonymes => Admis(Toutes[1].id),
             utilisateurs' \in Seq(Pseudos), Len(utilisateurs') <= MAX_UTILISATEURS,
             \A p \in Pseudos \ trompes' : Compte(p)'
      PROVE  IInv'
  <2>1. recu' = "aucun" /\ Repondre(Toutes[1], Tail(Toutes), code)
    BY <1>3, <1>6 DEF Finir
  <2> QED
    BY <1>2, <1>3, <1>4, <1>5, <1>6, <2>1, FinDeTraitement
<1>7. ASSUME NEW code \in Codes, Finir(code), UNCHANGED utilisateurs,
             code = "0" => /\ Toutes[1].op \notin {"ILLISIBLE", "CONNEXION"}
                           /\ Toutes[1].op \in OpsAnonymes => Admis(Toutes[1].id)
      PROVE  IInv'
  <2>1. Repondre(Toutes[1], Tail(Toutes), code)
    BY <1>3, <1>7 DEF Finir
  <2>2. \A p \in Pseudos \ trompes' : Compte(p)'
    BY <1>1, <1>2, <1>3, <1>7, <2>1, CompteSansListe DEF IInv
  <2> QED
    BY <1>4, <1>6, <1>7, <2>2
<1>8. ASSUME Toutes[1].op \in Departs, SupprimerUtilisateur
      PROVE  IInv'
  <2> DEFINE code == IF Contains(utilisateurs, Pseudo) THEN "0" ELSE "1"
  <2>1. code \in Codes /\ Finir(code) /\ Pseudo = Toutes[1].id.pseudo
        /\ utilisateurs' = RemoveFirst(utilisateurs, Toutes[1].id.pseudo)
    BY <1>3, <1>8 DEF SupprimerUtilisateur, Codes, Pseudo
  <2>2. utilisateurs' \in Seq(Pseudos) /\ Len(utilisateurs') <= Len(utilisateurs)
    BY <1>4, <2>1, EntreesRetirees
  <2>3. Contains(utilisateurs, Pseudo) <=> Entrees(Pseudo) # {}
    BY <1>4, <2>1, EntreesRetirees
  <2>4. code = "0" \/ Entrees(Toutes[1].id.pseudo) = {}
    BY <2>1, <2>3
  <2> HIDE DEF code
  <2>5. Repondre(Toutes[1], Tail(Toutes), code)
    BY <1>3, <2>1 DEF Finir
  <2>6. \A p \in Pseudos \ trompes' : Compte(p)'
    BY <1>1, <1>2, <1>3, <1>8, <2>1, <2>4, <2>5, CompteRetrait DEF IInv
  <2>7. Toutes[1].op # "ILLISIBLE" /\ Toutes[1].op \notin OpsAnonymes
    BY <1>8 DEF Departs, OpsAnonymes
  <2>8. Len(utilisateurs') <= MAX_UTILISATEURS
    BY <1>4, <2>2, GestionRequeteAssumption
  <2> QED
    BY <1>6, <2>1, <2>2, <2>6, <2>7, <2>8
<1>9. ASSUME courant[1].op = "CONNEXION", recu = "CONNEXION", AjouterUtilisateur
      PROVE  IInv'
  <2>1. Toutes[1].id \in crees /\ Toutes[1].op = "CONNEXION" /\ Admis(Toutes[1].id)
    BY <1>1, <1>3, <1>9 DEF Questions, OpsComptes, Admis
  <2>2. Pseudo = Toutes[1].id.pseudo /\ Toutes[1].id.pseudo \in Pseudos
    BY <1>1, <1>3, <2>1 DEF TypeOK, Ids, Pseudo
  <2>3. CASE Len(utilisateurs) < MAX_UTILISATEURS
    <3>1. Finir("0") /\ utilisateurs' = Append(utilisateurs, Toutes[1].id.pseudo) /\ "0" \in Codes
      BY <1>9, <2>2, <2>3 DEF AjouterUtilisateur, Codes
    <3>2. utilisateurs' \in Seq(Pseudos) /\ Len(utilisateurs') = Len(utilisateurs) + 1
      BY <1>4, <2>2, <3>1
    <3>3. Len(utilisateurs') <= MAX_UTILISATEURS
      BY <1>4, <2>3, <3>2, GestionRequeteAssumption
    <3>4. Repondre(Toutes[1], Tail(Toutes), "0")
      BY <1>3, <3>1 DEF Finir
    <3>5. \A p \in Pseudos \ trompes' : Compte(p)'
      BY <1>1, <1>2, <1>3, <2>1, <2>2, <3>1, <3>4, CompteAjout DEF IInv
    <3> QED
      BY <1>6, <2>1, <3>1, <3>2, <3>3, <3>5
  <2>4. CASE ~(Len(utilisateurs) < MAX_UTILISATEURS)
    <3>1. Finir("1") /\ UNCHANGED utilisateurs /\ "1" \in Codes
      BY <1>9, <2>4 DEF AjouterUtilisateur, Codes
    <3> QED
      BY <1>7, <3>1
  <2> QED
    BY <2>3, <2>4
<1>10. ASSUME courant[1].op = "CREERCOMPTE", recu = "CREERCOMPTE", Finir("0"),
              UNCHANGED utilisateurs
       PROVE  IInv'
  <2>1. Admis(Toutes[1].id) /\ Toutes[1].op = "CREERCOMPTE" /\ "0" \in Codes
    BY <1>1, <1>3, <1>10 DEF Questions, OpsComptes, Codes, Admis
  <2> QED
    BY <1>7, <1>10, <2>1
<1>11. ASSUME Finir("1"), UNCHANGED utilisateurs
       PROVE  IInv'
  <2>1. "1" \in Codes
    BY DEF Codes
  <2> QED
    BY <1>7, <1>11, <2>1
<1>12. \/ courant[1].op = "CONNEXION" /\ recu = "CONNEXION" /\ AjouterUtilisateur
       \/ courant[1].op = "CREERCOMPTE" /\ recu = "CREERCOMPTE" /\ Finir("0")
            /\ UNCHANGED utilisateurs
       \/ courant[1].op \in Departs /\ SupprimerUtilisateur
       \/ Finir("1") /\ UNCHANGED utilisateurs
  BY DEF RecevoirReponse, EnCours, Departs
<1> QED
  BY <1>3, <1>8, <1>9, <1>10, <1>11, <1>12

LEMMA TimeoutInv ==
  ASSUME IInv, Gestionnaire_timeout
  PROVE  IInv'
<1>1. TypeOK /\ (\A c \in Clients : ClientOK(c)) /\ Demandes /\ Questions
  BY DEF IInv
<1>2. /\ recu # "aucun" /\ Finir("2") /\ udp' = Orphelins /\ "2" \in Codes
      /\ UNCHANGED <<etat, etat_co, ident, passerelle, comptes, crees, trompes, perdus>>
      /\ UNCHANGED <<etat, etat_co, ident>> /\ UNCHANGED utilisateurs /\ UNCHANGED diffuse
  BY DEF Gestionnaire_timeout, client, Codes, histoires
<1>3. /\ Toutes # <<>> /\ Toutes[1] = courant[1] /\ Tail(Toutes) = file
  BY <1>1, <1>2, DepuisCourant
<1>4. recu' = "aucun" /\ Repondre(Toutes[1], Tail(Toutes), "2")
  BY <1>2, <1>3 DEF Finir
<1>5. /\ utilisateurs' \in Seq(Pseudos) /\ Len(utilisateurs') <= MAX_UTILISATEURS
      /\ udp \in Seq([op : OpsRMI, id : Ids \cup {Anonyme}, vivant : BOOLEAN])
      /\ Len(udp) <= MaxDatagrammes /\ diffuse' \subseteq Clients /\ trompes' \subseteq Pseudos
  BY <1>1, <1>2 DEF TypeOK
<1> DEFINE M == [op : OpsRMI, id : Ids \cup {Anonyme}, vivant : BOOLEAN]
<1>6. \A x \in M : LET y == [x EXCEPT !.vivant = FALSE]
                   IN  y \in M /\ y.op = x.op /\ y.id = x.id /\ ~y.vivant
  OBVIOUS
<1> HIDE DEF M
<1>7. udp \in Seq(M)
  BY <1>5 DEF M
<1>8. /\ udp' \in Seq(M) /\ Len(udp') = Len(udp)
      /\ \A i \in 1..Len(udp) : udp'[i].op = udp[i].op /\ udp'[i].id = udp[i].id /\ ~udp'[i].vivant
  <2>1. udp' = [i \in 1..Len(udp) |-> [udp[i] EXCEPT !.vivant = FALSE]]
    BY <1>2, <1>7 DEF Orphelins
  <2>2. \A i \in 1..Len(udp) : udp[i] \in M
    BY <1>7
  <2>3. udp' \in [1..Len(udp) -> M]
    BY <1>6, <2>1, <2>2
  <2>4. udp' \in Seq(M)
    BY <1>7, <2>3
  <2>5. Len(udp') = Len(udp)
    BY <1>7, <2>3
  <2>6. ASSUME NEW i \in 1..Len(udp)
        PROVE  udp'[i].op = udp[i].op /\ udp'[i].id = udp[i].id /\ ~udp'[i].vivant
    <3>1. udp'[i] = [udp[i] EXCEPT !.vivant = FALSE] /\ udp[i] \in M
      BY <2>1, <2>2
    <3> QED
      BY <1>6, <3>1
  <2> QED
    BY <2>4, <2>5, <2>6
<1>9. \A i \in DOMAIN udp' : /\ udp'[i].op = "CREERCOMPTE" => udp'[i].id \in Ids
                             /\ ~udp'[i].vivant
  <2>1. DOMAIN udp' = DOMAIN udp /\ DOMAIN udp = 1..Len(udp)
    BY <1>7, <1>8
  <2> QED
    BY <1>1, <1>8, <2>1 DEF Questions
<1>10. \A p \in Pseudos \ trompes' : Compte(p)'
  BY <1>1, <1>2, <1>3, <1>4, CompteSansListe DEF IInv
<1> QED
  BY <1>2, <1>3, <1>4, <1>5, <1>8, <1>9, <1>10, FinDeTraitement DEF M

LEMMA DemanderRMIInv ==
  ASSUME IInv, DemanderRMI
  PROVE  IInv'
<1> DEFINE r == Head(file)
           d == Datagramme(r)
           M == [op : OpsRMI, id : Ids \cup {Anonyme}, vivant : BOOLEAN]
<1>1. TypeOK /\ (\A c \in Clients : ClientOK(c)) /\ Demandes /\ Questions /\ SuccesVrai
  BY DEF IInv
<1>2. /\ courant = <<>> /\ file # <<>> /\ r.op \in OpsRMI
      /\ courant' = <<r>> /\ file' = Tail(file) /\ Envoyer(d) /\ recu' = "attendu"
      /\ UNCHANGED <<etat, etat_co, ident, reponse, diffuse, utilisateurs, passerelle, comptes,
                     crees, trompes, perdus>>
  <2>1. /\ courant = <<>> /\ file # <<>> /\ Branche(r) \in OpsRMI
        /\ courant' = <<r>> /\ file' = Tail(file) /\ Envoyer(d) /\ recu' = "attendu"
        /\ UNCHANGED <<etat, etat_co, ident, reponse, diffuse, utilisateurs, passerelle, comptes,
                       crees, trompes, perdus>>
    BY DEF DemanderRMI, ATraiter, client, sockets, histoires
  <2> HIDE DEF r, d
  <2>2. r.op \in OpsRMI
    BY <2>1 DEF Branche, OpsRMI
  <2> QED
    BY <2>1, <2>2
<1>3. /\ Toutes # <<>> /\ Toutes[1] = r /\ Toutes[1] \in Requetes /\ recu = "aucun"
  BY <1>1, <1>2, DepuisLaFile
<1>4. /\ file \in Seq(Requetes) /\ courant \in Seq(Requetes) /\ Len(file) < MAX_CLIENTS
      /\ udp \in Seq(M) /\ Len(udp) <= MaxDatagrammes
  BY <1>1 DEF TypeOK
<1>5. /\ file' \in Seq(Requetes) /\ Len(file') = Len(file) - 1
      /\ courant' \in Seq(Requetes) /\ Len(courant') = 1 /\ courant'[1] = r
  <2>1. r \in Requetes
    BY <1>3
  <2> HIDE DEF r
  <2>2. file' \in Seq(Requetes) /\ Len(file') = Len(file) - 1
    BY <1>2, <1>4
  <2>3. courant' \in Seq(Requetes) /\ Len(courant') = 1 /\ courant'[1] = r
    BY <1>2, <2>1
  <2> QED
    BY <2>2, <2>3
<1>6. Toutes' = Toutes
  <2> DEFINE t == <<r>> \o Tail(file)
  <2>1. r \in Requetes /\ Tail(file) \in Seq(Requetes)
    BY <1>2, <1>3, <1>5
  <2>2. t \in Seq(Requetes) /\ t # <<>> /\ Head(t) = r /\ Tail(t) = Tail(file)
    <3> HIDE DEF r
    <3> QED
      BY <2>1, ToutesDeDeux
  <2>3. t = file
    <3> HIDE DEF t
    <3>0. Len(file) \in Nat /\ Len(file) > 0 /\ Len(t) \in Nat /\ Len(t) > 0
      BY <1>2, <1>4, <2>2, EmptySeq
    <3>1. /\ Len(t) = Len(file) /\ t[1] = file[1]
          /\ \A i \in 1..(Len(file) - 1) : t[i + 1] = file[i + 1]
      <4>1. t[1] = Head(t) /\ file[1] = Head(file)
        BY <1>4, <2>2
      <4>2. Len(Tail(t)) = Len(t) - 1 /\ Len(Tail(file)) = Len(file) - 1
        BY <1>2, <1>4, <2>2
      <4>3. Len(t) = Len(file)
        BY <2>2, <3>0, <4>2
      <4>4. \A i \in 1..(Len(t) - 1) : Tail(t)[i] = t[i + 1]
        BY <2>2
      <4>5. \A i \in 1..(Len(file) - 1) : Tail(file)[i] = file[i + 1]
        BY <1>2, <1>4
      <4>6. ASSUME NEW i \in 1..(Len(file) - 1)
            PROVE  t[i + 1] = file[i + 1]
        BY <2>2, <4>3, <4>4, <4>5
      <4> QED
        BY <2>2, <4>1, <4>3, <4>6 DEF r
    <3>2. \A i \in 1..Len(file) : t[i] = file[i]
      <4> SUFFICES ASSUME NEW i \in 1..Len(file)
                   PROVE  t[i] = file[i]
        OBVIOUS
      <4>1. CASE i = 1
        BY <3>1, <4>1
      <4>2. CASE i # 1
        <5>1. i - 1 \in 1..(Len(file) - 1) /\ (i - 1) + 1 = i
          BY <1>4, <4>2
        <5> QED
          BY <3>1, <5>1
      <4> QED
        BY <4>1, <4>2
    <3> QED
      BY <1>4, <2>2, <3>1, <3>2, SeqEqual
  <2>4. Toutes = file
    BY <1>2, <1>4, TypesFile
  <2> QED
    BY <1>2, <2>3, <2>4 DEF Toutes
<1>7. d \in M /\ d.op = r.op /\ d.id = r.id
  BY <1>2, <1>3 DEF Datagramme, Requetes
<1>8. Attendue(Toutes[1])
  <2>1. 1 \in DOMAIN Toutes
    <3>1. Toutes \in Seq(Requetes) /\ DOMAIN Toutes = 1..Len(Toutes)
      BY <1>4, TypesFile
    <3> QED
      BY <1>3, <3>1, EmptySeq
  <2> QED
    BY <1>1, <2>1 DEF Demandes
<1>9. \A i \in DOMAIN udp : ~udp[i].vivant
  BY <1>1, <1>3 DEF Questions
<1> HIDE DEF r, d, M
<1>10. udp' = udp \/ (udp' = Append(udp, d) /\ Len(udp) < MaxDatagrammes)
  BY <1>2 DEF Envoyer
<1>11. udp' \in Seq(M) /\ Len(udp') <= MaxDatagrammes
  <2>1. CASE udp' = udp
    BY <1>4, <2>1
  <2>2. CASE udp' = Append(udp, d) /\ Len(udp) < MaxDatagrammes
    <3>1. udp' \in Seq(M) /\ Len(udp') = Len(udp) + 1
      BY <1>4, <1>7, <2>2
    <3> QED
      BY <1>4, <2>2, <3>1, GestionRequeteAssumption
  <2> QED
    BY <1>10, <2>1, <2>2
<1>12. \A i \in DOMAIN udp' : \/ i \in DOMAIN udp /\ udp'[i] = udp[i]
                              \/ i = Len(udp) + 1 /\ udp'[i] = d
  <2>1. CASE udp' = udp
    BY <2>1
  <2>2. CASE udp' = Append(udp, d)
    BY <1>4, <1>7, <2>2
  <2> QED
    BY <1>10, <2>1, <2>2
<1>13. TypeOK'
  <2>1. Len(file') < MAX_CLIENTS
    BY <1>4, <1>5, GestionRequeteAssumption
  <2> QED
    BY <1>1, <1>2, <1>5, <1>11, <2>1 DEF TypeOK, M
<1>14. Questions'
  <2>1. ASSUME NEW i \in DOMAIN udp'
        PROVE  /\ udp'[i].op = "CREERCOMPTE" => udp'[i].id \in Ids
               /\ udp'[i].vivant => /\ i = Len(udp) + 1
                                    /\ udp'[i].op = courant'[1].op /\ udp'[i].id = courant'[1].id
    <3>1. CASE i \in DOMAIN udp /\ udp'[i] = udp[i]
      BY <1>1, <1>9, <3>1 DEF Questions
    <3>2. CASE i = Len(udp) + 1 /\ udp'[i] = d
      BY <1>3, <1>5, <1>7, <1>8, <3>2 DEF Attendue, OpsAnonymes
    <3> QED
      BY <1>12, <3>1, <3>2
  <2>2. recu' \notin OpsComptes
    BY <1>2 DEF OpsComptes
  <2> QED
    BY <1>2, <2>1, <2>2 DEF Questions
<1>15. (\A c \in Clients : ClientOK(c)') /\ SuccesVrai'
  BY <1>1, <1>2 DEF ClientOK, SuccesVrai, Admis
<1>16. Demandes'
  BY <1>1, <1>2, <1>6 DEF Demandes, Attendue
<1>17. \A p \in Pseudos \ trompes : Compte(p)'
  BY <1>2, <1>6 DEF IInv, Compte, Tenants, Croyants, Positions, Orphelin, Entrees
<1> QED
  BY <1>2, <1>13, <1>14, <1>15, <1>16, <1>17 DEF IInv

-----------------------------------------------------------------------------
(* The gateway. *)

LEMMA ReponseInv ==
  ASSUME IInv, udp # <<>>, NEW r, EnvoyerReponse(r),
         r = "ERREUR" \/ (r \in OpsComptes /\ r = D.op /\ D.id \in crees'),
         comptes' \subseteq crees', crees \subseteq crees', crees' \subseteq Ids,
         UNCHANGED <<client, sockets, file, courant, utilisateurs, passerelle, histoires>>
  PROVE  IInv'
<1> DEFINE M == [op : OpsRMI, id : Ids \cup {Anonyme}, vivant : BOOLEAN]
<1>1. TypeOK /\ (\A c \in Clients : ClientOK(c)) /\ Demandes /\ Questions /\ SuccesVrai
  BY DEF IInv
<1>2. UNCHANGED <<etat, etat_co, ident, reponse, diffuse, file, courant, utilisateurs,
                  passerelle, trompes, perdus>>
  BY DEF client, sockets, histoires
<1>3. udp \in Seq(M) /\ Len(udp) <= MaxDatagrammes
  BY <1>1 DEF TypeOK
<1>4. udp' = Tail(udp) /\ recu' = (IF D.vivant THEN r ELSE recu) /\ D = udp[1]
  BY <1>3 DEF EnvoyerReponse, D
<1> HIDE DEF M
<1>5. /\ udp' \in Seq(M) /\ Len(udp') = Len(udp) - 1
      /\ \A i \in 1..(Len(udp) - 1) : udp'[i] = udp[i + 1]
      /\ Len(udp) \in Nat /\ DOMAIN udp' = 1..(Len(udp) - 1) /\ DOMAIN udp = 1..Len(udp)
      /\ 1 \in DOMAIN udp
  <2>1. Len(udp) \in Nat \ {0}
    BY <1>3, EmptySeq
  <2> QED
    BY <1>3, <1>4, <2>1
<1>6. D.vivant => /\ recu = "attendu"
                  /\ D.op = courant[1].op /\ D.id = courant[1].id
  BY <1>1, <1>4, <1>5 DEF Questions
<1>7. recu' = recu \/ (recu = "attendu" /\ recu' = r)
  BY <1>4, <1>6
<1>8. recu' \in {"aucun", "attendu", "ERREUR"} \cup OpsComptes /\ (recu' = "aucun" <=> recu = "aucun")
  BY <1>1, <1>7 DEF TypeOK, OpsComptes
<1>9. TypeOK'
  <2>1. Len(udp') <= MaxDatagrammes
    BY <1>3, <1>5, GestionRequeteAssumption
  <2> QED
    BY <1>1, <1>2, <1>5, <1>8, <2>1 DEF TypeOK, M
<1>10. Questions'
  <2>1. ASSUME NEW i \in DOMAIN udp'
        PROVE  /\ i + 1 \in DOMAIN udp /\ i + 1 # 1 /\ udp'[i] = udp[i + 1]
               /\ udp'[i].op = "CREERCOMPTE" => udp'[i].id \in Ids
               /\ udp'[i].vivant => /\ recu' = "attendu"
                                    /\ udp'[i].op = courant'[1].op /\ udp'[i].id = courant'[1].id
    <3>1. i + 1 \in DOMAIN udp /\ i + 1 # 1 /\ udp'[i] = udp[i + 1]
      BY <1>5
    <3>2. udp'[i].vivant => ~D.vivant
      BY <1>1, <1>4, <1>5, <3>1 DEF Questions
    <3> QED
      BY <1>1, <1>2, <1>4, <3>1, <3>2 DEF Questions
  <2>2. ASSUME NEW i \in DOMAIN udp', NEW j \in DOMAIN udp', udp'[i].vivant, udp'[j].vivant
        PROVE  i = j
    <3>1. i + 1 = j + 1
      BY <1>1, <2>1, <2>2 DEF Questions
    <3> QED
      BY <1>5, <3>1
  <2>3. ASSUME recu' \in OpsComptes
        PROVE  courant'[1].op = recu' /\ courant'[1].id \in crees'
    <3>1. CASE D.vivant
      BY <1>2, <1>4, <1>6, <2>3, <3>1 DEF OpsComptes
    <3>2. CASE ~D.vivant
      BY <1>1, <1>2, <1>4, <2>3, <3>2 DEF Questions
    <3> QED
      BY <3>1, <3>2
  <2> QED
    BY <2>1, <2>2, <2>3 DEF Questions
<1>11. (\A c \in Clients : ClientOK(c)') /\ SuccesVrai'
  BY <1>1, <1>2 DEF ClientOK, SuccesVrai, Admis
<1>12. Demandes'
  BY <1>1, <1>2 DEF Demandes, Attendue, Toutes
<1>13. \A p \in Pseudos \ trompes : Compte(p)'
  BY <1>2 DEF IInv, Compte, Tenants, Croyants, Positions, Orphelin, Entrees, Toutes
<1> QED
  BY <1>2, <1>9, <1>10, <1>11, <1>12, <1>13 DEF IInv

LEMMA ServirComptesInv ==
  ASSUME IInv, ServirComptes
  PROVE  IInv'
<1>1. TypeOK /\ Questions
  BY DEF IInv
<1>2. udp # <<>> /\ comptes \subseteq crees /\ crees \subseteq Ids
      /\ UNCHANGED <<client, sockets, file, courant, utilisateurs, passerelle, histoires>>
  BY <1>1 DEF ServirComptes, TypeOK
<1>3. D.op = "CREERCOMPTE" => D.id \in Ids
  <2>1. 1 \in DOMAIN udp /\ D = udp[1]
    <3>1. Len(udp) \in Nat \ {0} /\ DOMAIN udp = 1..Len(udp) /\ Head(udp) = udp[1]
      BY <1>1, <1>2, EmptySeq DEF TypeOK
    <3> QED
      BY <3>1 DEF D
  <2> QED
    BY <1>1, <2>1 DEF Questions
<1>4. CASE CreerCompte
  <2>1. D.op = "CREERCOMPTE" /\ D.id \in Ids /\ "CREERCOMPTE" \in OpsComptes
        /\ comptes' = comptes \cup {D.id} /\ crees' = crees \cup {D.id}
    BY <1>3, <1>4 DEF CreerCompte, OpsComptes
  <2>2. comptes' \subseteq crees' /\ crees \subseteq crees' /\ crees' \subseteq Ids /\ D.id \in crees'
    BY <1>2, <2>1
  <2>3. EnvoyerReponse("CREERCOMPTE") \/ EnvoyerReponse("ERREUR")
    BY <1>4 DEF CreerCompte
  <2> QED
    BY <1>2, <2>1, <2>2, <2>3, ReponseInv
<1>5. CASE SupprimerCompter
  <2>1. D.op = "SUPPRIMERCOMPTE" /\ "SUPPRIMERCOMPTE" \in OpsComptes /\ D.id \in crees'
        /\ comptes' \subseteq crees' /\ crees \subseteq crees' /\ crees' \subseteq Ids
    BY <1>2, <1>5 DEF SupprimerCompter, OpsComptes
  <2>2. EnvoyerReponse("SUPPRIMERCOMPTE") \/ EnvoyerReponse("ERREUR")
    BY <1>5 DEF SupprimerCompter
  <2> QED
    BY <1>2, <2>1, <2>2, ReponseInv
<1>6. CASE Connexion
  <2>1. D.op = "CONNEXION" /\ "CONNEXION" \in OpsComptes /\ D.id \in crees'
        /\ comptes' \subseteq crees' /\ crees \subseteq crees' /\ crees' \subseteq Ids
    BY <1>2, <1>6 DEF Connexion, OpsComptes
  <2>2. EnvoyerReponse("CONNEXION")
    BY <1>6 DEF Connexion
  <2> QED
    BY <1>2, <2>1, <2>2, ReponseInv
<1>7. CASE Refuser
  <2>1. EnvoyerReponse("ERREUR")
        /\ comptes' \subseteq crees' /\ crees \subseteq crees' /\ crees' \subseteq Ids
    BY <1>2, <1>7 DEF Refuser
  <2> QED
    BY <1>2, <2>1, ReponseInv
<1> QED
  BY <1>4, <1>5, <1>6, <1>7 DEF ServirComptes

LEMMA FinPasserelleInv ==
  ASSUME IInv, FinPasserelle
  PROVE  IInv'
<1>1. TypeOK /\ (\A c \in Clients : ClientOK(c)) /\ Demandes /\ Questions /\ SuccesVrai
  BY DEF IInv
<1>2. UNCHANGED <<etat, etat_co, ident, reponse, diffuse, file, courant, utilisateurs,
                  recu, comptes, crees, trompes, perdus>>
      /\ udp' = <<>> /\ passerelle' = FALSE
  BY DEF FinPasserelle, client, sockets, histoires
<1>3. TypeOK'
  <2>1. Len(<<>>) <= MaxDatagrammes
    BY GestionRequeteAssumption
  <2>2. passerelle' \in BOOLEAN
    BY <1>2
  <2> QED
    BY <1>1, <1>2, <2>1, <2>2 DEF TypeOK
<1>4. Questions'
  BY <1>1, <1>2 DEF Questions
<1>5. (\A c \in Clients : ClientOK(c)') /\ SuccesVrai' /\ Demandes'
  BY <1>1, <1>2 DEF ClientOK, SuccesVrai, Admis, Demandes, Attendue, Toutes
<1>6. \A p \in Pseudos \ trompes : Compte(p)'
  BY <1>2 DEF IInv, Compte, Tenants, Croyants, Positions, Orphelin, Entrees, Toutes
<1> QED
  BY <1>2, <1>3, <1>4, <1>5, <1>6 DEF IInv

-----------------------------------------------------------------------------
(* The steps of a client. *)

(***************************************************************************)
(* A request is sent: it is the only one of its client, and it is not a    *)
(* departure that somebody who is gone has left behind.                    *)
(***************************************************************************)
LEMMA DepotInv ==
  ASSUME IInv, NEW c \in Clients, etat[c] = "menu",
         NEW de \in {c, Personne}, NEW op \in Ops, NEW id \in Ids \cup {Anonyme},
         Deposer(Requete(de, op, id)), op \in OpsAnonymes => id \in Ids,
         etat' \in [Clients -> {"arrete", "menu"} \cup Ops],
         etat_co' \in [Clients -> BOOLEAN],
         ident' \in [Clients -> Ids \cup {Anonyme}],
         \A d \in Clients \ {c} : /\ etat'[d] = etat[d] /\ etat_co'[d] = etat_co[d]
                                  /\ ident'[d] = ident[d],
         de = c => etat'[c] = op /\ ident'[c] = id,
         ClientOK(c)',
         etat_co'[c] => Admis(ident'[c]),
         \A p \in Pseudos : /\ c \in Tenants(p)' => c \in Tenants(p)
                            /\ Requete(de, op, id) \notin Orphelin(p),
         UNCHANGED <<reponse, courant, utilisateurs, rmi, trompes>>, diffuse' \subseteq Clients
  PROVE  IInv'
<1> DEFINE r == Requete(de, op, id)
<1>1. TypeOK /\ (\A d \in Clients : ClientOK(d)) /\ Demandes /\ Questions /\ SuccesVrai
  BY DEF IInv
<1>2. UNCHANGED <<reponse, courant, utilisateurs, udp, recu, passerelle, comptes, crees, trompes>>
  BY DEF rmi
<1>3. file \in Seq(Requetes) /\ Len(file) < MAX_CLIENTS /\ courant \in Seq(Requetes)
      /\ perdus \subseteq Clients
  BY <1>1 DEF TypeOK
<1>4. r \in Requetes /\ r.de = de /\ r.op = op /\ r.id = id
  BY DEF Requete, Requetes
<1> HIDE DEF r
<1>5. /\ file' \in Seq(Requetes) /\ Len(file') < MAX_CLIENTS /\ perdus' \subseteq Clients
      /\ Toutes' = Append(Toutes, r) \/ Toutes' = courant
  BY <1>2, <1>3, <1>4, EffetDeposer DEF r
<1>6. Toutes \in Seq(Requetes) /\ DOMAIN Toutes = 1..Len(Toutes) /\ Len(Toutes) \in Nat
  BY <1>3, TypesFile
<1> DEFINE t == Toutes'
<1>7. /\ t \in Seq(Requetes)
      /\ \A i \in DOMAIN t : \/ i \in DOMAIN Toutes /\ t[i] = Toutes[i]
                             \/ i = Len(Toutes) + 1 /\ t[i] = r
      /\ \A X : r \notin X =>
           Cardinality(Positions(t, X)) <= Cardinality(Positions(Toutes, X))
  <2>1. t = Append(Toutes, r) \/ t = courant
    BY <1>5
  <2> HIDE DEF t
  <2> QED
    BY <1>3, <1>4, <2>1, ToutesApresDepot
<1>8. TypeOK'
  BY <1>1, <1>2, <1>3, <1>5 DEF TypeOK
<1>9. \A d \in Clients : ClientOK(d)'
  BY <1>1, <1>2 DEF ClientOK
<1>10. "menu" \notin Ops
  BY DEF Ops, OpsAnonymes, OpsConnectees
<1>11. \A i \in DOMAIN Toutes : Toutes[i].de # c
  BY <1>1, <1>10 DEF Demandes, Attendue
<1>12. reponse[c] = "aucune"
  BY <1>1, <1>10 DEF ClientOK
<1>13. Demandes'
  <2>1. ASSUME NEW i \in DOMAIN Toutes'
        PROVE  Attendue(Toutes[i])'
    <3>1. CASE i \in DOMAIN Toutes /\ Toutes'[i] = Toutes[i]
      <4>1. Attendue(Toutes[i]) /\ Toutes[i].de # c
        BY <1>1, <1>11, <3>1 DEF Demandes
      <4> QED
        BY <1>2, <3>1, <4>1 DEF Attendue
    <3>2. CASE Toutes'[i] = r
      BY <1>2, <1>4, <1>12, <3>2, GestionRequeteAssumption DEF Attendue
    <3> QED
      BY <1>7, <3>1, <3>2
  <2>2. ASSUME NEW i \in DOMAIN Toutes', NEW j \in DOMAIN Toutes',
               Toutes'[i].de \in Clients, Toutes'[i].de = Toutes'[j].de
        PROVE  i = j
    <3>1. \/ i \in DOMAIN Toutes /\ Toutes'[i] = Toutes[i]
          \/ i = Len(Toutes) + 1 /\ Toutes'[i] = r
      BY <1>7
    <3>2. \/ j \in DOMAIN Toutes /\ Toutes'[j] = Toutes[j]
          \/ j = Len(Toutes) + 1 /\ Toutes'[j] = r
      BY <1>7
    <3>3. r.de \in Clients => r.de = c
      BY <1>4, GestionRequeteAssumption
    <3> QED
      BY <1>1, <1>11, <2>2, <3>1, <3>2, <3>3 DEF Demandes
  <2> QED
    BY <2>1, <2>2 DEF Demandes
<1>14. Questions'
  BY <1>1, <1>2 DEF Questions
<1>15. SuccesVrai'
  BY <1>1, <1>2, <1>12 DEF SuccesVrai, Admis
<1>16. ASSUME NEW p \in Pseudos \ trompes
       PROVE  Compte(p)'
  <2> DEFINE T == Tenants(p)
             o == Cardinality(Positions(Toutes, Orphelin(p)))
             e == Cardinality(Entrees(p))
  <2>1. T' \subseteq T
    BY <1>2 DEF Tenants, Croyants
  <2>2. o' <= o /\ o' \in Nat
    <3> DEFINE O == Orphelin(p)
    <3>1. r \notin O
      BY DEF r
    <3>2. o' = Cardinality(Positions(t, O)) /\ o = Cardinality(Positions(Toutes, O))
      BY DEF Positions, Orphelin
    <3> HIDE DEF O, t, o
    <3>3. Cardinality(Positions(t, O)) \in Nat
      BY <1>7, PositionsFinies
    <3> QED
      BY <1>7, <3>1, <3>2, <3>3
  <2>3. e' = e
    BY <1>2 DEF Entrees
  <2>4. IsFiniteSet(T) /\ Cardinality(T) + o <= e
    BY DEF IInv, Compte
  <2>5. o \in Nat /\ e \in Nat
    BY <1>1, TypesCompte
  <2> HIDE DEF T, o, e
  <2>6. IsFiniteSet(T') /\ Cardinality(T') <= Cardinality(T)
        /\ Cardinality(T) \in Nat /\ Cardinality(T') \in Nat
    BY <2>1, <2>4, FS_Subset, FS_CardinalityType
  <2>7. Cardinality(T') + o' <= e'
    BY <2>2, <2>3, <2>4, <2>5, <2>6
  <2> QED
    BY <2>6, <2>7 DEF Compte, T, o, e
<1> QED
  BY <1>2, <1>8, <1>9, <1>13, <1>14, <1>15, <1>16 DEF IInv

LEMMA MenuPremiereConnexionInv ==
  ASSUME IInv, NEW c \in Clients, MenuPremiereConnexion(c)
  PROVE  IInv'
<1>1. TypeOK
  BY DEF IInv
<1>2. /\ ~etat_co[c]
      /\ UNCHANGED <<etat_co, diffuse>>
      /\ UNCHANGED <<reponse, courant, utilisateurs, rmi, trompes>>
  BY DEF MenuPremiereConnexion, sockets
<1>3. PICK op \in OpsAnonymes, id \in Ids :
        EnvoyerRequete(c, op, id) /\ ident' = [ident EXCEPT ![c] = id]
  BY DEF MenuPremiereConnexion
<1>4. /\ etat[c] = "menu" /\ etat' = [etat EXCEPT ![c] = op] /\ Deposer(Requete(c, op, id))
      /\ op \in Ops /\ op # "ILLISIBLE" /\ op \notin OpsConnectees
  BY <1>3 DEF EnvoyerRequete, Ops, OpsAnonymes, OpsConnectees
<1>5. /\ etat' \in [Clients -> {"arrete", "menu"} \cup Ops]
      /\ etat_co' \in [Clients -> BOOLEAN]
      /\ ident' \in [Clients -> Ids \cup {Anonyme}]
      /\ etat'[c] = op /\ ident'[c] = id /\ ~etat_co'[c]
  BY <1>1, <1>2, <1>3, <1>4 DEF TypeOK
<1>6. \A d \in Clients \ {c} : /\ etat'[d] = etat[d] /\ etat_co'[d] = etat_co[d]
                               /\ ident'[d] = ident[d]
  BY <1>1, <1>2, <1>3, <1>4 DEF TypeOK
<1>7. diffuse' \subseteq Clients
  BY <1>1, <1>2 DEF TypeOK
<1>8. reponse'[c] = "aucune"
  <2>1. "menu" \notin Ops
    BY DEF Ops, OpsAnonymes, OpsConnectees
  <2> QED
    BY <1>2, <1>4, <2>1 DEF IInv, ClientOK
<1>9. ClientOK(c)'
  BY <1>4, <1>5, <1>8 DEF ClientOK
<1>10. \A p \in Pseudos : /\ c \in Tenants(p)' => c \in Tenants(p)
                          /\ Requete(c, op, id) \notin Orphelin(p)
  BY <1>5, <1>8, GestionRequeteAssumption DEF Tenants, Croyants, Orphelin, Requete
<1>11. ~(etat_co'[c])
  BY <1>5
<1> QED
  BY <1>2, <1>4, <1>5, <1>6, <1>7, <1>9, <1>10, <1>11, DepotInv

LEMMA QuitterSortieInv ==
  ASSUME IInv, NEW c \in Clients, QuitterSortie(c)
  PROVE  IInv'
<1>1. TypeOK
  BY DEF IInv
<1>2. /\ etat[c] = "menu" /\ Deposer(Requete(Personne, "QUITTER", Anonyme)) /\ Terminer(c)
      /\ diffuse' = diffuse \ {c}
      /\ UNCHANGED <<reponse, courant, utilisateurs, rmi, trompes>>
  BY DEF QuitterSortie
<1>3. "QUITTER" \in Ops /\ "QUITTER" \notin OpsAnonymes /\ "menu" \notin Ops /\ "arrete" \notin Ops
  BY DEF Ops, OpsAnonymes, OpsConnectees
<1>4. /\ etat' \in [Clients -> {"arrete", "menu"} \cup Ops]
      /\ etat_co' \in [Clients -> BOOLEAN]
      /\ ident' \in [Clients -> Ids \cup {Anonyme}]
      /\ etat'[c] = "arrete" /\ ~etat_co'[c]
  BY <1>1, <1>2 DEF TypeOK, Terminer
<1>5. \A d \in Clients \ {c} : /\ etat'[d] = etat[d] /\ etat_co'[d] = etat_co[d]
                               /\ ident'[d] = ident[d]
  BY <1>1, <1>2 DEF TypeOK, Terminer
<1>6. diffuse' \subseteq Clients
  BY <1>1, <1>2 DEF TypeOK
<1>7. reponse'[c] = "aucune"
  BY <1>2, <1>3 DEF IInv, ClientOK
<1>8. ClientOK(c)'
  BY <1>3, <1>4, <1>7 DEF ClientOK, Ops
<1>9. \A p \in Pseudos : /\ c \in Tenants(p)' => c \in Tenants(p)
                         /\ Requete(Personne, "QUITTER", Anonyme) \notin Orphelin(p)
  BY <1>4, <1>7, GestionRequeteAssumption DEF Tenants, Croyants, Orphelin, Requete, Anonyme
<1>10. Personne # c
  BY GestionRequeteAssumption
<1>11. ~(etat_co'[c])
  BY <1>4
<1> QED
  BY <1>2, <1>3, <1>4, <1>5, <1>6, <1>8, <1>9, <1>10, <1>11, DepotInv

LEMMA MenuPrincipalInv ==
  ASSUME IInv, NEW c \in Clients, MenuPrincipal(c)
  PROVE  IInv'
<1>1. TypeOK /\ SuccesVrai
  BY DEF IInv
<1>2. /\ etat_co[c]
      /\ UNCHANGED <<etat_co, ident, diffuse>>
      /\ UNCHANGED <<reponse, courant, utilisateurs, rmi, trompes>>
  BY DEF MenuPrincipal, sockets
<1>3. PICK op \in OpsConnectees : EnvoyerRequete(c, op, ident[c])
  BY DEF MenuPrincipal
<1> DEFINE id == ident[c]
<1>4. /\ etat[c] = "menu" /\ etat' = [etat EXCEPT ![c] = op] /\ Deposer(Requete(c, op, id))
      /\ op \in Ops /\ op # "ILLISIBLE" /\ op # "arrete" /\ op \notin OpsAnonymes
  BY <1>3 DEF EnvoyerRequete, Ops, OpsAnonymes, OpsConnectees
<1>5. /\ etat' \in [Clients -> {"arrete", "menu"} \cup Ops]
      /\ etat_co' \in [Clients -> BOOLEAN]
      /\ ident' \in [Clients -> Ids \cup {Anonyme}] /\ id \in Ids \cup {Anonyme}
      /\ etat'[c] = op /\ ident'[c] = id /\ etat_co'[c] = etat_co[c]
  BY <1>1, <1>2, <1>3, <1>4 DEF TypeOK
<1>6. \A d \in Clients \ {c} : /\ etat'[d] = etat[d] /\ etat_co'[d] = etat_co[d]
                               /\ ident'[d] = ident[d]
  BY <1>1, <1>2, <1>4 DEF TypeOK
<1>7. diffuse' \subseteq Clients
  BY <1>1, <1>2 DEF TypeOK
<1>8. reponse'[c] = "aucune"
  <2>1. "menu" \notin Ops
    BY DEF Ops, OpsAnonymes, OpsConnectees
  <2> QED
    BY <1>2, <1>4, <2>1 DEF IInv, ClientOK
<1>9. ClientOK(c)'
  BY <1>2, <1>4, <1>5, <1>8 DEF ClientOK
<1>10. etat_co'[c] => Admis(ident'[c])
  BY <1>1, <1>2 DEF SuccesVrai, Admis
<1>11. \A p \in Pseudos : /\ c \in Tenants(p)' => c \in Tenants(p)
                          /\ Requete(c, op, id) \notin Orphelin(p)
  <2>1. op # "CONNEXION"
    BY <1>4 DEF OpsAnonymes
  <2>2. reponse[c] = "aucune"
    BY <1>2, <1>8
  <2> QED
    BY <1>2, <1>5, <1>8, <2>1, <2>2, GestionRequeteAssumption DEF Tenants, Croyants, Orphelin, Requete
<1> HIDE DEF id
<1> QED
  BY <1>2, <1>4, <1>5, <1>6, <1>7, <1>9, <1>10, <1>11, DepotInv

(***************************************************************************)
(* Back at the menu, or ended: what a client knows afterwards.             *)
(***************************************************************************)
LEMMA EffetRetour ==
  ASSUME IInv, NEW c \in Clients,
         (\E b \in BOOLEAN : RetourMenu(c, b) /\ (b = etat_co[c] \/ b = FALSE
                                \/ (b /\ etat[c] = "CONNEXION" /\ reponse[c] = "0")))
           \/ Terminer(c),
         reponse' = [reponse EXCEPT ![c] = "aucune"]
  PROVE  /\ etat' \in [Clients -> {"arrete", "menu"} \cup Ops]
         /\ etat_co' \in [Clients -> BOOLEAN]
         /\ ident' \in [Clients -> Ids \cup {Anonyme}]
         /\ reponse' \in [Clients -> Codes \cup {"aucune"}]
         /\ \A d \in Clients \ {c} : /\ etat'[d] = etat[d] /\ etat_co'[d] = etat_co[d]
                                     /\ ident'[d] = ident[d] /\ reponse'[d] = reponse[d]
         /\ etat'[c] \in {"arrete", "menu"} /\ reponse'[c] = "aucune"
         /\ etat_co'[c] => ident'[c] = ident[c] /\ Admis(ident[c])
         /\ ClientOK(c)'
<1>1. TypeOK /\ SuccesVrai
  BY DEF IInv
<1>2. reponse' \in [Clients -> Codes \cup {"aucune"}] /\ reponse'[c] = "aucune"
      /\ \A d \in Clients \ {c} : reponse'[d] = reponse[d]
  BY <1>1 DEF TypeOK
<1>3. {"arrete", "menu"} \cap Ops = {} /\ "ILLISIBLE" \in Ops
      /\ OpsAnonymes \subseteq Ops /\ OpsConnectees \subseteq Ops
  BY DEF Ops, OpsAnonymes, OpsConnectees
<1>4. ASSUME etat' \in [Clients -> {"arrete", "menu"} \cup Ops],
             etat_co' \in [Clients -> BOOLEAN],
             ident' \in [Clients -> Ids \cup {Anonyme}],
             \A d \in Clients \ {c} : /\ etat'[d] = etat[d] /\ etat_co'[d] = etat_co[d]
                                      /\ ident'[d] = ident[d],
             etat'[c] = "menu" \/ (etat'[c] = "arrete" /\ ~etat_co'[c]),
             etat_co'[c] => ident'[c] = ident[c] /\ Admis(ident[c])
      PROVE  /\ \A d \in Clients \ {c} : /\ etat'[d] = etat[d] /\ etat_co'[d] = etat_co[d]
                                         /\ ident'[d] = ident[d] /\ reponse'[d] = reponse[d]
             /\ etat'[c] \in {"arrete", "menu"}
             /\ ClientOK(c)'
  <2>1. \A d \in Clients \ {c} : /\ etat'[d] = etat[d] /\ etat_co'[d] = etat_co[d]
                                 /\ ident'[d] = ident[d] /\ reponse'[d] = reponse[d]
    BY <1>2, <1>4
  <2>2. etat'[c] \in {"arrete", "menu"}
    BY <1>4
  <2>3. ClientOK(c)'
    BY <1>2, <1>3, <1>4, <2>2 DEF ClientOK
  <2> QED
    BY <2>1, <2>2, <2>3
<1>5. ASSUME NEW b \in BOOLEAN, RetourMenu(c, b),
             b = etat_co[c] \/ b = FALSE \/ (b /\ etat[c] = "CONNEXION" /\ reponse[c] = "0")
      PROVE  /\ etat' \in [Clients -> {"arrete", "menu"} \cup Ops]
             /\ etat_co' \in [Clients -> BOOLEAN]
             /\ ident' \in [Clients -> Ids \cup {Anonyme}]
             /\ \A d \in Clients \ {c} : /\ etat'[d] = etat[d] /\ etat_co'[d] = etat_co[d]
                                         /\ ident'[d] = ident[d]
             /\ etat'[c] = "menu" \/ (etat'[c] = "arrete" /\ ~etat_co'[c])
             /\ etat_co'[c] => ident'[c] = ident[c] /\ Admis(ident[c])
  <2>1. /\ etat' = [etat EXCEPT ![c] = "menu"]
        /\ etat_co' = [etat_co EXCEPT ![c] = b]
        /\ ident' = [ident EXCEPT ![c] = IF b THEN ident[c] ELSE Anonyme]
    BY <1>5 DEF RetourMenu
  <2>2. /\ etat' \in [Clients -> {"arrete", "menu"} \cup Ops]
        /\ etat_co' \in [Clients -> BOOLEAN]
        /\ ident' \in [Clients -> Ids \cup {Anonyme}]
    BY <1>1, <2>1 DEF TypeOK
  <2>3. etat'[c] = "menu" /\ etat_co'[c] = b /\ ident'[c] = IF b THEN ident[c] ELSE Anonyme
    BY <1>1, <2>1 DEF TypeOK
  <2>4. \A d \in Clients \ {c} : /\ etat'[d] = etat[d] /\ etat_co'[d] = etat_co[d]
                                 /\ ident'[d] = ident[d]
    BY <1>1, <2>1 DEF TypeOK
  <2>5. b => Admis(ident[c])
    BY <1>1, <1>5 DEF SuccesVrai, OpsAnonymes
  <2> QED
    BY <2>2, <2>3, <2>4, <2>5
<1>6. ASSUME Terminer(c)
      PROVE  /\ etat' \in [Clients -> {"arrete", "menu"} \cup Ops]
             /\ etat_co' \in [Clients -> BOOLEAN]
             /\ ident' \in [Clients -> Ids \cup {Anonyme}]
             /\ \A d \in Clients \ {c} : /\ etat'[d] = etat[d] /\ etat_co'[d] = etat_co[d]
                                         /\ ident'[d] = ident[d]
             /\ etat'[c] = "menu" \/ (etat'[c] = "arrete" /\ ~etat_co'[c])
             /\ etat_co'[c] => ident'[c] = ident[c] /\ Admis(ident[c])
  BY <1>1, <1>6 DEF TypeOK, Terminer
<1>7. /\ etat' \in [Clients -> {"arrete", "menu"} \cup Ops]
      /\ etat_co' \in [Clients -> BOOLEAN]
      /\ ident' \in [Clients -> Ids \cup {Anonyme}]
      /\ \A d \in Clients \ {c} : /\ etat'[d] = etat[d] /\ etat_co'[d] = etat_co[d]
                                  /\ ident'[d] = ident[d]
      /\ etat'[c] = "menu" \/ (etat'[c] = "arrete" /\ ~etat_co'[c])
      /\ etat_co'[c] => ident'[c] = ident[c] /\ Admis(ident[c])
  BY <1>5, <1>6
<1> QED
  BY <1>2, <1>4, <1>7

LEMMA TraiterReponseInv ==
  ASSUME IInv, NEW c \in Clients, TraiterReponse(c)
  PROVE  IInv'
<1>1. TypeOK /\ (\A d \in Clients : ClientOK(d)) /\ Demandes /\ Questions /\ SuccesVrai
  BY DEF IInv
<1>2. /\ etat[c] \in Ops /\ reponse[c] # "aucune"
      /\ IF reponse[c] = "0" THEN Succes(c) ELSE Echec(c)
      /\ reponse' = [reponse EXCEPT ![c] = "aucune"]
      /\ UNCHANGED <<diffuse, file, courant, utilisateurs, udp, recu, passerelle, comptes, crees,
                     trompes, perdus>>
  BY DEF TraiterReponse, rmi, histoires
<1>3. etat_co[c] \in BOOLEAN
  BY <1>1 DEF TypeOK
\* How the client goes on.
<1>4. \/ etat[c] = "CONNEXION" /\ reponse[c] = "0" /\ RetourMenu(c, TRUE)
      \/ RetourMenu(c, FALSE)
      \/ Terminer(c)
      \/ RetourMenu(c, etat_co[c]) /\ ~(etat[c] \in Departs /\ reponse[c] = "0")
  <2>1. CASE reponse[c] = "0"
    <3>1. Succes(c)
      BY <1>2, <2>1
    <3> QED
      BY <2>1, <3>1 DEF Succes, Departs
  <2>2. CASE reponse[c] # "0"
    BY <1>2, <2>2 DEF Echec
  <2> QED
    BY <2>1, <2>2
<1>5. (\E b \in BOOLEAN : RetourMenu(c, b) /\ (b = etat_co[c] \/ b = FALSE
                             \/ (b /\ etat[c] = "CONNEXION" /\ reponse[c] = "0")))
        \/ Terminer(c)
  BY <1>3, <1>4
<1>6. /\ etat' \in [Clients -> {"arrete", "menu"} \cup Ops]
      /\ etat_co' \in [Clients -> BOOLEAN]
      /\ ident' \in [Clients -> Ids \cup {Anonyme}]
      /\ reponse' \in [Clients -> Codes \cup {"aucune"}]
      /\ \A d \in Clients \ {c} : /\ etat'[d] = etat[d] /\ etat_co'[d] = etat_co[d]
                                  /\ ident'[d] = ident[d] /\ reponse'[d] = reponse[d]
      /\ etat'[c] \in {"arrete", "menu"} /\ reponse'[c] = "aucune"
      /\ etat_co'[c] => ident'[c] = ident[c] /\ Admis(ident[c])
      /\ ClientOK(c)'
  BY <1>2, <1>5, EffetRetour
<1>7. TypeOK'
  BY <1>1, <1>2, <1>6 DEF TypeOK
<1>8. \A d \in Clients : ClientOK(d)'
  BY <1>1, <1>6 DEF ClientOK
<1>9. Demandes'
  <2>1. \A i \in DOMAIN Toutes : Attendue(Toutes[i]) /\ Toutes[i].de # c
    BY <1>1, <1>2 DEF Demandes, Attendue
  <2>2. Toutes' = Toutes
    BY <1>2 DEF Toutes
  <2>3. \A i \in DOMAIN Toutes : Attendue(Toutes[i])'
    BY <1>6, <2>1, <2>2 DEF Attendue
  <2> QED
    BY <1>1, <2>2, <2>3 DEF Demandes
<1>10. Questions'
  BY <1>1, <1>2 DEF Questions
<1>11. SuccesVrai'
  BY <1>1, <1>2, <1>6 DEF SuccesVrai, Admis
<1>12. ASSUME NEW p \in Pseudos \ trompes
       PROVE  Compte(p)'
  <2> DEFINE T == Tenants(p)
             o == Cardinality(Positions(Toutes, Orphelin(p)))
             e == Cardinality(Entrees(p))
  <2>1. o' = o /\ e' = e
    BY <1>2 DEF Positions, Orphelin, Entrees, Toutes
  <2>2. c \in T' => c \in T
    <3> SUFFICES ASSUME c \in T'
                 PROVE  c \in T
      OBVIOUS
    <3>1. etat_co'[c] /\ ident'[c].pseudo = p
      BY <1>6 DEF Tenants, Croyants
    <3>2. ident[c].pseudo = p
      BY <1>6, <3>1
    <3>3. CASE etat[c] = "CONNEXION" /\ reponse[c] = "0"
      BY <3>2, <3>3 DEF Tenants
    <3>4. CASE RetourMenu(c, etat_co[c]) /\ ~(etat[c] \in Departs /\ reponse[c] = "0")
      <4>1. etat_co[c]
        BY <1>1, <3>1, <3>4 DEF RetourMenu, TypeOK
      <4> QED
        BY <3>2, <3>4, <4>1 DEF Tenants, Croyants, Departs
    <3>5. ~(RetourMenu(c, FALSE) \/ Terminer(c))
      BY <1>1, <3>1 DEF RetourMenu, Terminer, TypeOK
    <3> QED
      BY <1>4, <3>3, <3>4, <3>5
  <2>3. T' \subseteq T
    BY <1>6, <2>2 DEF Tenants, Croyants
  <2>4. IsFiniteSet(T) /\ Cardinality(T) + o <= e
    BY DEF IInv, Compte
  <2>5. o \in Nat /\ e \in Nat
    BY <1>1, TypesCompte
  <2> HIDE DEF T, o, e
  <2>6. IsFiniteSet(T') /\ Cardinality(T') <= Cardinality(T)
        /\ Cardinality(T) \in Nat /\ Cardinality(T') \in Nat
    BY <2>3, <2>4, FS_Subset, FS_CardinalityType
  <2>7. Cardinality(T') + o' <= e'
    BY <2>1, <2>4, <2>5, <2>6
  <2> QED
    BY <2>6, <2>7 DEF Compte, T, o, e
<1> QED
  BY <1>2, <1>7, <1>8, <1>9, <1>10, <1>11, <1>12 DEF IInv

(***************************************************************************)
(* A client goes on, or ends, without the reply that it awaits: its        *)
(* request, if it is still there, is now of somebody who is gone.          *)
(***************************************************************************)
LEMMA AbandonInv ==
  ASSUME IInv, NEW c \in Clients, Abandonner(c), RetourMenu(c, etat_co[c]) \/ Terminer(c),
         UNCHANGED <<utilisateurs, rmi>>, trompes' \subseteq Pseudos,
         \A p \in Pseudos \ trompes' : Compte(p)'
  PROVE  IInv'
<1>1. TypeOK /\ (\A d \in Clients : ClientOK(d)) /\ Demandes /\ Questions /\ SuccesVrai
  BY DEF IInv
<1>2. /\ reponse' = [reponse EXCEPT ![c] = "aucune"] /\ diffuse' = diffuse \ {c}
      /\ perdus' = perdus \ {c}
      /\ UNCHANGED <<utilisateurs, udp, recu, passerelle, comptes, crees>>
  BY DEF Abandonner, rmi
<1>3. etat_co[c] \in BOOLEAN
  BY <1>1 DEF TypeOK
<1>4. (\E b \in BOOLEAN : RetourMenu(c, b) /\ (b = etat_co[c] \/ b = FALSE
                             \/ (b /\ etat[c] = "CONNEXION" /\ reponse[c] = "0")))
        \/ Terminer(c)
  BY <1>3
<1>5. /\ etat' \in [Clients -> {"arrete", "menu"} \cup Ops]
      /\ etat_co' \in [Clients -> BOOLEAN]
      /\ ident' \in [Clients -> Ids \cup {Anonyme}]
      /\ reponse' \in [Clients -> Codes \cup {"aucune"}]
      /\ \A d \in Clients \ {c} : /\ etat'[d] = etat[d] /\ etat_co'[d] = etat_co[d]
                                  /\ ident'[d] = ident[d] /\ reponse'[d] = reponse[d]
      /\ etat'[c] \in {"arrete", "menu"} /\ reponse'[c] = "aucune"
      /\ etat_co'[c] => ident'[c] = ident[c] /\ Admis(ident[c])
      /\ ClientOK(c)'
  BY <1>2, <1>4, EffetRetour
<1>6. /\ file' \in Seq(Requetes) /\ Len(file') = Len(file)
      /\ courant' \in Seq(Requetes) /\ Len(courant') = Len(courant)
      /\ \A i \in 1..Len(courant) : /\ courant'[i].op = courant[i].op
                                    /\ courant'[i].id = courant[i].id
      /\ Toutes' \in Seq(Requetes) /\ Len(Toutes') = Len(Toutes)
      /\ DOMAIN Toutes' = DOMAIN Toutes
      /\ \A i \in 1..Len(Toutes) :
           /\ Toutes'[i].op = Toutes[i].op /\ Toutes'[i].id = Toutes[i].id
           /\ Toutes'[i].de = IF Toutes[i].de = c THEN Personne ELSE Toutes[i].de
  BY <1>1, EffetAbandonner DEF TypeOK
<1>7. TypeOK'
  BY <1>1, <1>2, <1>5, <1>6 DEF TypeOK
<1>8. \A d \in Clients : ClientOK(d)'
  BY <1>1, <1>5 DEF ClientOK
<1>9. DOMAIN Toutes = 1..Len(Toutes)
  BY <1>1, TypesFile DEF TypeOK
<1>10. Demandes'
  <2>1. ASSUME NEW i \in DOMAIN Toutes
        PROVE  /\ Attendue(Toutes[i])'
               /\ Toutes'[i].de \in Clients => Toutes'[i].de = Toutes[i].de
    <3>1. /\ Toutes'[i].op = Toutes[i].op /\ Toutes'[i].id = Toutes[i].id
          /\ Toutes'[i].de = IF Toutes[i].de = c THEN Personne ELSE Toutes[i].de
      BY <1>6, <1>9
    <3>2. Toutes'[i].de \in Clients => Toutes'[i].de = Toutes[i].de /\ Toutes[i].de # c
      BY <3>1, GestionRequeteAssumption
    <3>3. Attendue(Toutes[i])
      BY <1>1 DEF Demandes
    <3> QED
      BY <1>5, <3>1, <3>2, <3>3 DEF Attendue
  <2>2. \A i, j \in DOMAIN Toutes :
          Toutes'[i].de \in Clients /\ Toutes'[i].de = Toutes'[j].de => i = j
    BY <1>1, <2>1 DEF Demandes
  <2> QED
    BY <1>6, <2>1, <2>2 DEF Demandes
<1>11. Questions'
  <2>1. recu # "aucun" => courant'[1].op = courant[1].op /\ courant'[1].id = courant[1].id
    <3>1. recu # "aucun" => 1 \in 1..Len(courant)
      BY <1>1 DEF TypeOK
    <3> QED
      BY <1>6, <3>1
  <2>2. "aucun" \notin OpsComptes
    BY DEF OpsComptes
  <2> QED
    BY <1>1, <1>2, <2>1, <2>2 DEF Questions
<1>12. SuccesVrai'
  BY <1>1, <1>2, <1>5 DEF SuccesVrai, Admis
<1> QED
  BY <1>7, <1>8, <1>10, <1>11, <1>12 DEF IInv

LEMMA LireDiffusionInv ==
  ASSUME IInv, NEW c \in Clients, LireDiffusion(c)
  PROVE  IInv'
<1>1. TypeOK /\ (\A d \in Clients : ClientOK(d)) /\ Demandes /\ SuccesVrai
  BY DEF IInv
<1>2. /\ etat[c] \in Ops /\ RetourMenu(c, etat_co[c]) /\ Abandonner(c)
      /\ trompes' = (IF etat[c] \in Departs THEN trompes \cup {ident[c].pseudo} ELSE trompes)
      /\ UNCHANGED <<utilisateurs, rmi>>
  BY DEF LireDiffusion, Echec, Departs
<1>3. trompes \subseteq Pseudos /\ crees \subseteq Ids
      /\ file \in Seq(Requetes) /\ courant \in Seq(Requetes)
  BY <1>1 DEF TypeOK
<1>4. trompes' \subseteq Pseudos
  <2>1. etat[c] \in Departs => Admis(ident[c])
    BY <1>1 DEF ClientOK, SuccesVrai, Departs, OpsConnectees
  <2>2. etat[c] \in Departs => ident[c].pseudo \in Pseudos
    BY <1>3, <2>1 DEF Ids, Admis
  <2> QED
    BY <1>2, <1>3, <2>2
<1>5. /\ Toutes' \in Seq(Requetes) /\ Len(Toutes') = Len(Toutes)
      /\ \A i \in 1..Len(Toutes) :
           /\ Toutes'[i].op = Toutes[i].op /\ Toutes'[i].id = Toutes[i].id
           /\ Toutes'[i].de = IF Toutes[i].de = c THEN Personne ELSE Toutes[i].de
  BY <1>2, <1>3, EffetAbandonner
<1>6. Toutes \in Seq(Requetes) /\ DOMAIN Toutes = 1..Len(Toutes)
  BY <1>3, TypesFile
<1>7. /\ \A d \in Clients \ {c} : /\ etat'[d] = etat[d] /\ etat_co'[d] = etat_co[d]
                                  /\ ident'[d] = ident[d] /\ reponse'[d] = reponse[d]
      /\ etat'[c] = "menu" /\ etat_co'[c] = etat_co[c]
      /\ ident'[c] = (IF etat_co[c] THEN ident[c] ELSE Anonyme)
  BY <1>1, <1>2 DEF RetourMenu, Abandonner, TypeOK
<1>8. ASSUME NEW p \in Pseudos \ trompes'
      PROVE  Compte(p)'
  <2> DEFINE T == Tenants(p)
             O == Orphelin(p)
             o == Cardinality(Positions(Toutes, O))
             e == Cardinality(Entrees(p))
  <2>1. p \in Pseudos \ trompes /\ ~(etat[c] \in Departs /\ ident[c].pseudo = p)
    BY <1>2
  <2>2. c \in T' => c \in T
    BY <1>7, <2>1 DEF Tenants, Croyants, Departs
  <2>3. T' \subseteq T
    BY <1>7, <2>2 DEF Tenants, Croyants
  <2>4. \A i \in 1..Len(Toutes) : Toutes'[i] \in O => Toutes[i] \in O
    <3> SUFFICES ASSUME NEW i \in 1..Len(Toutes), Toutes'[i] \in O
                 PROVE  Toutes[i] \in O
      OBVIOUS
    <3>1. Toutes[i].op \in Departs /\ Toutes[i].id.pseudo = p /\ Toutes[i] \in Requetes
      BY <1>5, <1>6 DEF Orphelin
    <3>2. Toutes[i].de = Personne \/ Toutes[i].de = c
      BY <1>5 DEF Orphelin
    <3>3. Toutes[i].de # c
      <4>1. Attendue(Toutes[i])
        BY <1>1, <1>6 DEF Demandes
      <4> QED
        BY <2>1, <3>1, <4>1 DEF Attendue, Departs
    <3> QED
      BY <3>1, <3>2, <3>3 DEF Orphelin
  <2>5. o \in Nat /\ e \in Nat
    BY <1>1, TypesCompte
  <2>6. o' = Cardinality(Positions(Toutes', O))
    BY DEF Positions, Orphelin
  <2>7. e' = e
    BY <1>2 DEF Entrees
  <2>8. IsFiniteSet(T) /\ Cardinality(T) + o <= e
    BY <2>1 DEF IInv, Compte
  <2> HIDE DEF O
  <2>9. o' \in Nat /\ o' <= o
    <3>1. Cardinality(Positions(Toutes', O)) \in Nat
      BY <1>5, PositionsFinies
    <3>2. Cardinality(Positions(Toutes', O)) <= Cardinality(Positions(Toutes, O))
      <4> DEFINE t == Toutes'
                 s == Toutes
      <4>1. t \in Seq(Requetes) /\ s \in Seq(Requetes) /\ Len(t) = Len(s)
            /\ \A i \in 1..Len(s) : t[i] \in O => s[i] \in O
        BY <1>5, <1>6, <2>4
      <4> HIDE DEF t, s
      <4>2. Cardinality(Positions(t, O)) <= Cardinality(Positions(s, O))
        BY <4>1, PositionsMoins
      <4> QED
        BY <4>2 DEF t, s
    <3> QED
      BY <2>6, <3>1, <3>2
  <2> HIDE DEF T, o, e
  <2>10. IsFiniteSet(T') /\ Cardinality(T') <= Cardinality(T)
         /\ Cardinality(T) \in Nat /\ Cardinality(T') \in Nat
    BY <2>3, <2>8, FS_Subset, FS_CardinalityType
  <2>11. Cardinality(T') + o' <= e'
    BY <2>5, <2>7, <2>8, <2>9, <2>10
  <2> QED
    BY <2>10, <2>11 DEF Compte, T, o, e, O
<1> QED
  BY <1>2, <1>4, <1>8, AbandonInv

LEMMA CtrlCInv ==
  ASSUME IInv, NEW c \in Clients, CtrlC(c)
  PROVE  IInv'
<1>1. TypeOK /\ (\A d \in Clients : ClientOK(d)) /\ Demandes
  BY DEF IInv
<1>2. /\ Terminer(c) /\ Abandonner(c) /\ UNCHANGED <<utilisateurs, rmi>> /\ UNCHANGED trompes
  BY DEF CtrlC
<1>3. trompes' \subseteq Pseudos /\ file \in Seq(Requetes) /\ courant \in Seq(Requetes)
  BY <1>1, <1>2 DEF TypeOK
<1>4. /\ Toutes' \in Seq(Requetes) /\ Len(Toutes') = Len(Toutes)
      /\ \A i \in 1..Len(Toutes) :
           /\ Toutes'[i].op = Toutes[i].op /\ Toutes'[i].id = Toutes[i].id
           /\ Toutes'[i].de = IF Toutes[i].de = c THEN Personne ELSE Toutes[i].de
  BY <1>2, <1>3, EffetAbandonner
<1>5. Toutes \in Seq(Requetes) /\ DOMAIN Toutes = 1..Len(Toutes)
  BY <1>3, TypesFile
<1>6. /\ \A d \in Clients \ {c} : /\ etat'[d] = etat[d] /\ etat_co'[d] = etat_co[d]
                                  /\ ident'[d] = ident[d] /\ reponse'[d] = reponse[d]
      /\ etat'[c] = "arrete" /\ ~(etat_co'[c])
  BY <1>1, <1>2 DEF Terminer, Abandonner, TypeOK
<1>7. ASSUME NEW p \in Pseudos \ trompes
      PROVE  Compte(p)'
  <2> DEFINE T == Tenants(p)
             O == Orphelin(p)
             o == Cardinality(Positions(Toutes, O))
             e == Cardinality(Entrees(p))
             s == Toutes
             t == Toutes'
             Laissee(i) == s[i].de = c /\ s[i].op \in Departs /\ s[i].id.pseudo = p
  <2>1. T' \subseteq T \ {c}
    BY <1>6 DEF Tenants, Croyants
  <2>2. s \in Seq(Requetes) /\ t \in Seq(Requetes) /\ Len(t) = Len(s)
    BY <1>4, <1>5
  <2>3. \A i \in 1..Len(s) : t[i] \in O => s[i] \in O \/ Laissee(i)
    BY <1>4, <1>5 DEF Orphelin
  <2>4. o \in Nat /\ e \in Nat
    BY <1>1, TypesCompte
  <2>5. o' = Cardinality(Positions(t, O))
    BY DEF Positions, Orphelin
  <2>6. e' = e
    BY <1>2 DEF Entrees
  <2>7. IsFiniteSet(T) /\ Cardinality(T) + o <= e
    BY DEF IInv, Compte
  \* A departure of c itself: c still owned an entry until now.
  <2>8. ASSUME NEW k \in 1..Len(s), Laissee(k)
        PROVE  /\ c \in T
               /\ \A i \in 1..Len(s) : i # k /\ t[i] \in O => s[i] \in O
    <3>1. Attendue(s[k])
      BY <1>1, <1>5 DEF Demandes
    <3>2. etat[c] = s[k].op /\ ident[c] = s[k].id /\ reponse[c] = "aucune"
      BY <2>8, <3>1 DEF Attendue, Departs
    <3>3. etat_co[c]
      BY <1>1, <2>8, <3>2 DEF ClientOK, Departs, OpsConnectees
    <3>4. c \in T
      BY <2>8, <3>2, <3>3 DEF Tenants, Croyants
    <3>5. \A i \in 1..Len(s) : i # k => ~Laissee(i)
      BY <1>1, <1>5, <2>8 DEF Demandes
    <3> QED
      BY <2>3, <3>4, <3>5
  <2>9. Cardinality(Positions(t, O)) \in Nat
    <3> HIDE DEF t, O
    <3> QED
      BY <2>2, PositionsFinies
  <2>10. ASSUME NEW k \in 1..Len(s),
                \A i \in 1..Len(s) : i # k /\ t[i] \in O => s[i] \in O
         PROVE  Cardinality(Positions(t, O)) <= Cardinality(Positions(s, O)) + 1
    <3> HIDE DEF s, t, O
    <3> QED
      BY <2>2, <2>10, PositionsPlusUne
  <2>11. ASSUME \A i \in 1..Len(s) : t[i] \in O => s[i] \in O
         PROVE  Cardinality(Positions(t, O)) <= Cardinality(Positions(s, O))
    <3> HIDE DEF s, t, O
    <3> QED
      BY <2>2, <2>11, PositionsMoins
  <2>12. \/ c \in T /\ o' <= o + 1
         \/ o' <= o
    <3>1. CASE \E k \in 1..Len(s) : Laissee(k)
      <4>1. PICK k \in 1..Len(s) : Laissee(k)
        BY <3>1
      <4>2. /\ c \in T
            /\ \A i \in 1..Len(s) : i # k /\ t[i] \in O => s[i] \in O
        BY <2>8, <4>1
      <4>3. Cardinality(Positions(t, O)) <= Cardinality(Positions(s, O)) + 1
        BY <2>10, <4>2
      <4> QED
        BY <2>5, <4>2, <4>3
    <3>2. CASE ~\E k \in 1..Len(s) : Laissee(k)
      <4>1. \A i \in 1..Len(s) : t[i] \in O => s[i] \in O
        BY <2>3, <3>2
      <4>2. Cardinality(Positions(t, O)) <= Cardinality(Positions(s, O))
        BY <2>11, <4>1
      <4> QED
        BY <2>5, <4>2
    <3> QED
      BY <3>1, <3>2
  <2>13. o' \in Nat
    BY <2>5, <2>9
  <2> HIDE DEF T, o, e, O, s, t, Laissee
  <2>14. /\ IsFiniteSet(T \ {c}) /\ Cardinality(T) \in Nat
         /\ Cardinality(T \ {c}) = IF c \in T THEN Cardinality(T) - 1 ELSE Cardinality(T)
    BY <2>7, FS_RemoveElement, FS_CardinalityType
  <2>15. IsFiniteSet(T') /\ Cardinality(T') <= Cardinality(T \ {c}) /\ Cardinality(T') \in Nat
    BY <2>1, <2>14, FS_Subset, FS_CardinalityType
  <2>16. Cardinality(T') + o' <= e'
    BY <2>4, <2>6, <2>7, <2>12, <2>13, <2>14, <2>15
  <2> QED
    BY <2>15, <2>16 DEF Compte, T, o, e, O
<1> QED
  BY <1>2, <1>3, <1>7, AbandonInv

-----------------------------------------------------------------------------
(* The invariant, and what follows from it. *)

LEMMA InitIInv == Init => IInv
<1> SUFFICES ASSUME Init
             PROVE  IInv
  OBVIOUS
<1>1. {"menu", "aucune", "arrete"} \cap Ops = {}
  BY DEF Ops, OpsAnonymes, OpsConnectees
<1>2. Len(<<>>) = 0 /\ \A S : <<>> \in Seq(S)
  BY EmptySeq
<1>3. TypeOK
  <2>1. Len(<<>>) < MAX_CLIENTS /\ Len(<<>>) <= MAX_UTILISATEURS /\ Len(<<>>) <= MaxDatagrammes
    BY <1>2, GestionRequeteAssumption
  <2>2. passerelle \in BOOLEAN
    BY DEF Init
  <2> QED
    BY <2>1, <2>2 DEF Init, TypeOK
<1>4. \A c \in Clients : ClientOK(c)
  BY <1>1 DEF Init, ClientOK, Ops
<1>5. Toutes = <<>>
  <2>1. Toutes = <<>> \o <<>>
    BY DEF Init, Toutes
  <2> QED
    BY <2>1
<1>6. DOMAIN Toutes = {} /\ DOMAIN udp = {} /\ DOMAIN utilisateurs = {}
  BY <1>5 DEF Init
<1>7. Demandes
  BY <1>6 DEF Demandes
<1>8. Questions
  BY <1>6 DEF Init, Questions, OpsComptes
<1>9. SuccesVrai
  BY DEF Init, SuccesVrai
<1>10. ASSUME NEW p
       PROVE  Compte(p)
  <2>1. Tenants(p) = {}
    BY DEF Init, Tenants, Croyants
  <2>2. Positions(Toutes, Orphelin(p)) = {} /\ Entrees(p) = {}
    BY <1>6 DEF Positions, Entrees
  <2>3. IsFiniteSet({}) /\ Cardinality({}) = 0
    BY FS_EmptySet
  <2> QED
    BY <2>1, <2>2, <2>3 DEF Compte
<1> QED
  BY <1>3, <1>4, <1>7, <1>8, <1>9, <1>10 DEF IInv

LEMMA StutterIInv ==
  ASSUME IInv, UNCHANGED vars
  PROVE  IInv'
<1>1. UNCHANGED <<etat, etat_co, ident, reponse, diffuse, file, courant, utilisateurs,
                  udp, recu, passerelle, comptes, crees, trompes, perdus>>
  BY DEF vars
<1>2. TypeOK' /\ (\A c \in Clients : ClientOK(c)') /\ Questions' /\ SuccesVrai'
  BY <1>1 DEF IInv, TypeOK, ClientOK, Questions, SuccesVrai, Admis
<1>3. Demandes'
  BY <1>1 DEF IInv, Demandes, Attendue, Toutes
<1>4. \A p \in Pseudos \ trompes : Compte(p)'
  BY <1>1 DEF IInv, Compte, Tenants, Croyants, Positions, Orphelin, Entrees, Toutes
<1> QED
  BY <1>1, <1>2, <1>3, <1>4 DEF IInv

(***************************************************************************)
(* Whatever the clients, the requests, the gateway, the alarm and the      *)
(* overwritten text do, for every number of clients, names and entries:    *)
(* each client has at most one request, each request under treatment at    *)
(* most one datagram, and the list has an entry for each who has one.      *)
(***************************************************************************)
THEOREM InvarianceRequete == Spec => []IInv
<1>1. Init => IInv
  BY InitIInv
<1>2. IInv /\ [Next]_vars => IInv'
  <2> SUFFICES ASSUME IInv, [Next]_vars
               PROVE  IInv'
    OBVIOUS
  <2>1. ASSUME NEW c \in Clients, Client(c)
        PROVE  IInv'
    <3>1. CASE MenuPremiereConnexion(c)
      BY <3>1, MenuPremiereConnexionInv
    <3>2. CASE QuitterSortie(c)
      BY <3>2, QuitterSortieInv
    <3>3. CASE MenuPrincipal(c)
      BY <3>3, MenuPrincipalInv
    <3>4. CASE TraiterReponse(c)
      BY <3>4, TraiterReponseInv
    <3>5. CASE LireDiffusion(c)
      BY <3>5, LireDiffusionInv
    <3>6. CASE CtrlC(c)
      BY <3>6, CtrlCInv
    <3> QED
      BY <2>1, <3>1, <3>2, <3>3, <3>4, <3>5, <3>6 DEF Client
  <2>2. CASE ProcessusRequetes
    <3>1. CASE Diffuser
      BY <3>1, DiffuserInv
    <3>2. CASE Lister
      BY <3>2, ListerInv
    <3>3. CASE Quitter
      BY <3>3, QuitterInv
    <3>4. CASE SansArgument
      BY <3>4, SansArgumentInv
    <3>5. CASE DemanderRMI
      BY <3>5, DemanderRMIInv
    <3>6. CASE RecevoirReponse
      BY <3>6, RecevoirReponseInv
    <3>7. CASE NonImplementee
      BY <3>7, NonImplementeeInv
    <3> QED
      BY <2>2, <3>1, <3>2, <3>3, <3>4, <3>5, <3>6, <3>7 DEF ProcessusRequetes
  <2>3. CASE Gestionnaire_timeout
    BY <2>3, TimeoutInv
  <2>4. CASE Passerelle
    BY <2>4, ServirComptesInv, FinPasserelleInv DEF Passerelle
  <2>5. CASE UNCHANGED vars
    BY <2>5, StutterIInv
  <2> QED
    BY <2>1, <2>2, <2>3, <2>4, <2>5 DEF Next
<1> QED
  BY <1>1, <1>2, PTL DEF Spec

(***************************************************************************)
(* Every variable keeps its type: the list of users stays within           *)
(* MAX_UTILISATEURS, and Gestion_requete waits exactly while it treats a   *)
(* request that needs the gateway.                                         *)
(***************************************************************************)
THEOREM TypeRequete == Spec => []TypeOK
<1>1. IInv => TypeOK
  BY DEF IInv
<1> QED
  BY <1>1, InvarianceRequete, PTL

(***************************************************************************)
(* Nobody believes to be connected, or has a success to read, without the  *)
(* name and password of an account that was created, or a name or password *)
(* that contains the word QUITTER: a late answer of the gateway, and one   *)
(* to an overwritten request, are never taken for it.                      *)
(***************************************************************************)
THEOREM SuccesDUnCompte == Spec => []SuccesVrai
<1>1. IInv => SuccesVrai
  BY DEF IInv
<1> QED
  BY <1>1, InvarianceRequete, PTL

(***************************************************************************)
(* The list has an entry for each client that believes to be connected     *)
(* under a name, unless a client of this name took a broadcast for the     *)
(* reply to its request to leave, or the request of one to connect or to   *)
(* create an account was taken for a request to leave.                     *)
(***************************************************************************)
THEOREM ConnectesListes == Spec => []CroyantsListes
<1>1. IInv => CroyantsListes
  <2> SUFFICES ASSUME IInv, NEW p \in Pseudos \ trompes
               PROVE  Cardinality(Croyants(p)) <= Cardinality(Entrees(p))
    BY DEF CroyantsListes
  <2> DEFINE T == Tenants(p)
             o == Cardinality(Positions(Toutes, Orphelin(p)))
             e == Cardinality(Entrees(p))
  <2>1. IsFiniteSet(T) /\ Cardinality(T) + o <= e
    BY DEF IInv, Compte
  <2>2. o \in Nat /\ e \in Nat
    BY TypesCompte DEF IInv
  <2>3. Croyants(p) \subseteq T
    BY DEF Tenants
  <2> HIDE DEF T, o, e
  <2>4. /\ Cardinality(Croyants(p)) <= Cardinality(T)
        /\ Cardinality(T) \in Nat /\ Cardinality(Croyants(p)) \in Nat
    BY <2>1, <2>3, FS_Subset, FS_CardinalityType
  <2>5. Cardinality(Croyants(p)) <= e
    BY <2>1, <2>2, <2>4
  <2> QED
    BY <2>5 DEF e
<1> QED
  BY <1>1, InvarianceRequete, PTL

=============================================================================
