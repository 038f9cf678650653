-------------------------- MODULE FileMessageProofs --------------------------
(***************************************************************************)
(* Proofs about FileMessage, for every number of slots and every set of    *)
(* sockets: it is type correct, it implements FileSequentielle, and so     *)
(* inherits what FileSequentielleProofs shows of the sequence.             *)
(***************************************************************************)
EXTENDS FileMessage, SequenceTheorems, TLAPS

\* The number of waiting requests: a queue with all its slots taken has lost them.
Nb == IF NbDeposes = MAX_CLIENTS THEN 0 ELSE NbDeposes

-----------------------------------------------------------------------------
(* The arithmetic of the slots. *)

(***************************************************************************)
(* An index goes past the end of the array at most once.                   *)
(***************************************************************************)
LEMMA UnTour ==
  \A a \in 0..(2 * MAX_CLIENTS - 1) :
     a % MAX_CLIENTS = IF a < MAX_CLIENTS THEN a ELSE a - MAX_CLIENTS
BY FileAssumption, SMT

\* Place without the remainder operator, for a queue that starts in slot d.
Numero(d, i) == IF d + i - 1 < MAX_CLIENTS THEN d + i - 1 ELSE d + i - 1 - MAX_CLIENTS

(***************************************************************************)
(* Different requests wait in different slots.                             *)
(***************************************************************************)
LEMMA NumerosDistincts ==
  ASSUME NEW d \in Indices, NEW i \in 1..MAX_CLIENTS, NEW j \in 1..MAX_CLIENTS
  PROVE  /\ Numero(d, i) \in Indices
         /\ Numero(d, i) = Numero(d, j) => i = j
BY FileAssumption DEF Numero, Indices

\* What the array says, without the remainder operator.
Lecture ==
  /\ NbVisibles \in 0..(MAX_CLIENTS - 1)
  /\ Nb \in 0..(MAX_CLIENTS - 1)
  /\ Attente \in Seq(Emplacements)
  /\ Len(Attente) = Nb
  /\ DOMAIN Attente = 1..Nb
  /\ \A i \in 1..Nb : Attente[i] = tab_message[Numero(debut, i)]

LEMMA LectureJuste == TypeOK => Lecture
<1> SUFFICES ASSUME TypeOK PROVE Lecture
  OBVIOUS
<1>1. /\ debut \in Indices /\ fin \in Indices /\ mutex \in Sockets \cup {Nul}
      /\ tab_message \in [Indices -> Emplacements]
      /\ MAX_CLIENTS \in Nat \ {0}
  BY FileAssumption DEF TypeOK
<1>2. NbVisibles \in 0..(MAX_CLIENTS - 1)
  BY <1>1 DEF NbVisibles, Indices
<1>3. Nb \in 0..(MAX_CLIENTS - 1)
  BY <1>1, <1>2 DEF Nb, NbDeposes
<1>4. \A i \in 1..MAX_CLIENTS : Place(i) = Numero(debut, i) /\ Place(i) \in Indices
  <2> SUFFICES ASSUME NEW i \in 1..MAX_CLIENTS
               PROVE  Place(i) = Numero(debut, i) /\ Place(i) \in Indices
    OBVIOUS
  <2> DEFINE a == debut + i - 1
  <2>1. a \in 0..(2 * MAX_CLIENTS - 1)
    BY <1>1 DEF Indices
  <2>2. a % MAX_CLIENTS = IF a < MAX_CLIENTS THEN a ELSE a - MAX_CLIENTS
    BY <2>1, UnTour
  <2>3. Place(i) = a % MAX_CLIENTS
    BY DEF Place
  <2> QED
    BY <1>1, <2>1, <2>2, <2>3 DEF Indices, Numero
<1>5. Attente = [i \in 1..Nb |-> tab_message[Place(i)]]
  <2>1. CASE NbDeposes = MAX_CLIENTS
    <3>1. Nb = 0 /\ 1..Nb = {}
      BY <2>1 DEF Nb
    <3> QED
      BY <2>1, <3>1 DEF Attente
  <2>2. CASE NbDeposes # MAX_CLIENTS
    BY <2>2 DEF Attente, Nb
  <2> QED
    BY <2>1, <2>2
<1>6. \A i \in 1..Nb : tab_message[Place(i)] \in Emplacements
  BY <1>1, <1>3, <1>4
<1>7. /\ Attente \in Seq(Emplacements)
      /\ Len(Attente) = Nb
      /\ DOMAIN Attente = 1..Nb
      /\ \A i \in 1..Nb : Attente[i] = tab_message[Numero(debut, i)]
  <2>1. 1..Nb \subseteq 1..MAX_CLIENTS /\ Nb \in Nat
    BY <1>1, <1>3
  <2>2. \A i \in 1..Nb : Attente[i] = tab_message[Numero(debut, i)]
    BY <1>4, <1>5, <2>1
  <2> QED
    BY <1>5, <1>6, <2>1, <2>2
<1> QED
  BY <1>2, <1>3, <1>7 DEF Lecture

LEMMA LectureJusteApres == TypeOK' => Lecture'
BY LectureJuste, PTL

(***************************************************************************)
(* The slot after another one is a slot.                                   *)
(***************************************************************************)
LEMMA SuivantJuste ==
  ASSUME NEW i \in Indices
  PROVE  /\ Suivant(i) = IF i + 1 = MAX_CLIENTS THEN 0 ELSE i + 1
         /\ Suivant(i) \in Indices
<1>1. i + 1 \in 0..(2 * MAX_CLIENTS - 1)
  BY FileAssumption DEF Indices
<1> QED
  BY <1>1, UnTour, FileAssumption DEF Suivant, Indices

-----------------------------------------------------------------------------
(* The inductive invariant.  TypeOK alone does not say what the refinement *)
(* needs: that a thread in its section holds the mutex, that the request   *)
(* being treated is the last one served, and that the slot where a reply   *)
(* is about to be copied, read without the mutex, can have been filled     *)
(* meanwhile only by a request that arrived during the treatment.          *)

Sections == \A s \in Sockets : mutex = s <=> thread[s] = "section"

Dates == \A s \in Sockets : thread[s] = "lecture" => rang[s] = 0

Arrivees == mutex # Nul => recents > 0 \/ Nb = 0

Courante ==
  /\ proc \in {"traite", "copie"} =>
        servies # <<>> /\ requete = servies[Len(servies)]
  /\ proc = "copie" => requete.message # "MESSAGE"

Copie ==
  proc = "copie" => \A i \in 1..Nb : Numero(debut, i) = iFin => i > Nb - recents

IInv ==
  /\ TypeOK
  /\ Sections
  /\ Dates
  /\ Arrivees
  /\ Courante
  /\ Copie

LEMMA InitIInv == Init => IInv
<1> SUFFICES ASSUME Init PROVE IInv
  OBVIOUS
<1>1. 0 \in Indices /\ NouvelleRequete \in Emplacements
  BY FileAssumption DEF Indices, NouvelleRequete, Emplacements, Contenus
<1>2. TypeOK
  <2>1. <<>> \in Seq(Emplacements)
    BY EmptySeq
  <2>2. /\ tab_message \in [Indices -> Emplacements]
        /\ thread \in [Sockets -> {"lecture", "section", "fini"}]
        /\ rang \in [Sockets -> Nat]
    BY <1>1 DEF Init
  <2> QED
    BY <1>1, <2>1, <2>2 DEF Init, TypeOK
<1> QED
  BY <1>2, FileAssumption
  DEF Init, IInv, Sections, Dates, Arrivees, Courante, Copie

(***************************************************************************)
(* Every step keeps every variable in its type.                            *)
(***************************************************************************)
LEMMA PasTypeOK == TypeOK /\ [Next]_vars => TypeOK'
<1> SUFFICES ASSUME TypeOK, [Next]_vars PROVE TypeOK'
  OBVIOUS
<1>0. Genres \subseteq Contenus /\ Copies \subseteq Contenus
  BY DEF Contenus
<1>1. ASSUME NEW s \in Sockets, NEW g \in Genres, CopierRequete(s, g)
      PROVE  TypeOK'
  <2>1. [message |-> g, client_socket |-> s] \in Emplacements
    BY <1>0 DEF Emplacements
  <2>2. tab_message' \in [Indices -> Emplacements]
    BY <1>1, <2>1 DEF CopierRequete, TypeOK
  <2>3. debordements' \in Nat /\ recents' \in Nat
    BY <1>1 DEF CopierRequete, TypeOK
  <2> QED
    BY <1>1, <2>2, <2>3 DEF CopierRequete, TypeOK
<1>2. ASSUME NEW s \in Sockets, Publier(s)
      PROVE  TypeOK'
  BY <1>2, SuivantJuste DEF Publier, histoire, TypeOK
<1>3. CASE Attendre
  BY <1>3 DEF Attendre, histoire, TypeOK
<1>4. CASE ReveilSansSignal
  BY <1>4 DEF ReveilSansSignal, histoire, TypeOK
<1>5. CASE Prendre
  <2>1. tab_message[debut] \in Emplacements
    BY DEF TypeOK
  <2>2. servies' \in Seq(Emplacements) /\ debut' \in Indices
    BY <1>5, <2>1, SuivantJuste DEF Prendre, TypeOK
  <2> QED
    BY <1>5, <2>1, <2>2 DEF Prendre, TypeOK
<1>6. CASE Repondre
  BY <1>6 DEF Repondre, histoire, TypeOK
<1>7. ASSUME NEW i \in Indices, NEW t \in Copies,
             tab_message' = [tab_message EXCEPT ![i].message = t]
      PROVE  tab_message' \in [Indices -> Emplacements]
  <2>1. [tab_message[i] EXCEPT !.message = t] \in Emplacements
    <3>1. tab_message[i] \in Emplacements
      BY DEF TypeOK
    <3> QED
      BY <1>0, <3>1 DEF Emplacements
  <2> QED
    BY <1>7, <2>1 DEF TypeOK
<1>8. CASE CopierListe
  <2>1. tab_message' \in [Indices -> Emplacements]
    BY <1>7, <1>8 DEF CopierListe, TypeOK, Copies
  <2> QED
    BY <1>8, <2>1 DEF CopierListe, histoire, TypeOK
<1>9. CASE LireFin
  BY <1>9 DEF LireFin, histoire, TypeOK
<1>10. CASE CopierCode
  <2>1. tab_message' \in [Indices -> Emplacements]
    BY <1>7, <1>10 DEF CopierCode, TypeOK, Copies
  <2> QED
    BY <1>10, <2>1 DEF CopierCode, histoire, TypeOK
<1>11. CASE UNCHANGED vars
  BY <1>11 DEF vars, TypeOK
<1> QED
  BY <1>1, <1>2, <1>3, <1>4, <1>5, <1>6, <1>8, <1>9, <1>10, <1>11
  DEF Next, ClientThread, ProcessusRequetes

-----------------------------------------------------------------------------
(* One lemma per step: it keeps IInv, and it is a step of FileSequentielle *)
(* or leaves its state alone.                                              *)

LEMMA CopierRequeteRaffine ==
  ASSUME IInv, NEW s \in Sockets, NEW g \in Genres, CopierRequete(s, g)
  PROVE  /\ IInv'
         /\ File!Deposer(s, g) \/ File!Deborder(s)
<1> DEFINE r == [message |-> g, client_socket |-> s]
<1>1. TypeOK /\ TypeOK' /\ Lecture /\ Lecture'
  BY PasTypeOK, LectureJuste, LectureJusteApres DEF IInv, Next, ClientThread
<1>2. /\ MAX_CLIENTS \in Nat \ {0} /\ debut \in Indices /\ fin \in Indices
      /\ NbVisibles \in 0..(MAX_CLIENTS - 1)
      /\ mutex = Nul /\ mutex' = s /\ s # Nul
      /\ UNCHANGED <<debut, fin, proc, requete, iFin, servies>>
      /\ recents \in Nat /\ recents' \in Nat
  BY <1>1, FileAssumption DEF TypeOK, Lecture, CopierRequete
<1>3. Nb = NbVisibles /\ NbDeposes' = NbVisibles + 1 /\ NbVisibles' = NbVisibles
  BY <1>2 DEF Nb, NbDeposes, NbVisibles
<1>4. Sections'
  <2>1. \A t \in Sockets : thread'[t] = IF t = s THEN "section" ELSE thread[t]
    BY <1>1 DEF CopierRequete, TypeOK
  <2>2. \A t \in Sockets : thread[t] # "section"
    BY <1>2, FileAssumption DEF IInv, Sections
  <2> QED
    BY <1>2, <2>1, <2>2 DEF Sections
<1>5. Dates'
  BY <1>1 DEF CopierRequete, IInv, Dates, TypeOK
<1>6. Courante'
  BY <1>2 DEF IInv, Courante
<1>7. /\ rang[s] = 0
      /\ depots' = depots + 1
      /\ rang' = [rang EXCEPT ![s] = depots + 1]
  BY DEF CopierRequete, IInv, Dates
<1>8. CASE NbVisibles + 1 = MAX_CLIENTS
  <2>1. Nb' = 0 /\ Attente' = <<>>
    BY <1>3, <1>8 DEF Nb, Attente
  <2>2. recents' = 0 /\ debordements' = debordements + 1
    BY <1>8 DEF CopierRequete
  <2>3. Arrivees' /\ Copie'
    BY <2>1 DEF Arrivees, Copie
  <2>4. Len(Attente) + 1 = MAX_CLIENTS
    BY <1>1, <1>3, <1>8 DEF Lecture
  <2>5. File!Deborder(s)
    BY <1>2, <1>7, <2>1, <2>2, <2>4 DEF File!Deborder, File!Dater
  <2> QED
    BY <1>1, <1>4, <1>5, <1>6, <2>3, <2>5 DEF IInv
<1>9. CASE NbVisibles + 1 # MAX_CLIENTS
  <2>1. Nb' = Nb + 1 /\ Nb \in Nat /\ Nb + 1 \in 1..(MAX_CLIENTS - 1)
    BY <1>2, <1>3, <1>9 DEF Nb
  <2>2. recents' = recents + 1 /\ debordements' = debordements
    BY <1>9 DEF CopierRequete
  <2>3. /\ Numero(debut, Nb + 1) = fin
        /\ \A i \in 1..Nb : Numero(debut, i) # fin /\ Numero(debut, i) \in Indices
    <3>1. Numero(debut, Nb + 1) = fin
      BY <1>2, <1>3, <2>1 DEF Numero, NbVisibles, Indices
    <3>2. 1..(Nb + 1) \subseteq 1..MAX_CLIENTS /\ 1..Nb \subseteq 1..(Nb + 1)
      BY <1>2, <2>1
    <3> QED
      BY <1>2, <2>1, <3>1, <3>2, NumerosDistincts
  <2>4. /\ tab_message'[fin] = r
        /\ \A i \in Indices : i # fin => tab_message'[i] = tab_message[i]
    BY <1>1, <1>2 DEF CopierRequete, TypeOK
  <2>5. /\ \A i \in 1..Nb : Attente'[i] = Attente[i]
        /\ Attente'[Nb + 1] = r
    BY SMTT(30), <1>1, <1>2, <2>1, <2>3, <2>4 DEF Lecture
  <2>6. Attente' = Append(Attente, r)
    <3>1. /\ r \in Emplacements
          /\ Append(Attente, r) \in Seq(Emplacements)
          /\ Len(Append(Attente, r)) = Nb + 1
          /\ \A i \in 1..(Nb + 1) :
                Append(Attente, r)[i] = IF i = Nb + 1 THEN r ELSE Attente[i]
      BY <1>1, <2>1 DEF Lecture, Emplacements, Contenus
    <3> QED
      BY <1>1, <2>1, <2>5, <3>1, SeqEqual DEF Lecture
  <2>7. Len(Attente) + 1 < MAX_CLIENTS
    BY <1>1, <1>2, <2>1 DEF Lecture
  <2>8. File!Deposer(s, g)
    BY <1>2, <1>7, <2>2, <2>6, <2>7 DEF File!Deposer, File!Dater
  <2>9. Arrivees' /\ Copie'
    <3>1. Arrivees'
      BY <1>2, <2>2 DEF Arrivees
    <3>2. Copie'
      BY <1>2, <2>1, <2>2, <2>3 DEF IInv, Copie
    <3> QED
      BY <3>1, <3>2
  <2> QED
    BY <1>1, <1>4, <1>5, <1>6, <2>8, <2>9 DEF IInv
<1> QED
  BY <1>8, <1>9

LEMMA PublierRaffine ==
  ASSUME IInv, NEW s \in Sockets, Publier(s)
  PROVE  IInv' /\ UNCHANGED File!vars
<1>1. TypeOK /\ TypeOK' /\ Lecture /\ Lecture'
  BY PasTypeOK, LectureJuste, LectureJusteApres DEF IInv, Next, ClientThread
<1>2. /\ MAX_CLIENTS \in Nat \ {0} /\ debut \in Indices /\ fin \in Indices
      /\ mutex = s /\ s # Nul /\ mutex' = Nul
      /\ fin' = IF fin + 1 = MAX_CLIENTS THEN 0 ELSE fin + 1
      /\ UNCHANGED <<tab_message, debut, requete, iFin, histoire>>
  BY <1>1, FileAssumption, SuivantJuste DEF Publier, IInv, TypeOK, Sections
<1>3. NbVisibles' = IF NbVisibles + 1 = MAX_CLIENTS THEN 0 ELSE NbVisibles + 1
  BY <1>1, <1>2 DEF NbVisibles, Indices
<1>4. Nb' = Nb
  BY <1>1, <1>2, <1>3 DEF Nb, NbDeposes, Lecture
<1>6. Attente' = Attente
  BY <1>1, <1>2, <1>4, SeqEqual DEF Lecture
<1>7. UNCHANGED File!vars
  BY <1>2, <1>6 DEF Publier, File!vars, histoire
<1>8. \A t \in Sockets : thread'[t] = IF t = s THEN "fini" ELSE thread[t]
  BY <1>1 DEF Publier, TypeOK
<1>9. Sections'
  BY <1>2, <1>8, FileAssumption DEF IInv, Sections
<1>10. Dates' /\ Arrivees'
  BY <1>2, <1>8 DEF IInv, Dates, Arrivees, histoire
<1>11. Courante' /\ Copie'
  BY <1>2, <1>4 DEF Publier, IInv, Courante, Copie, histoire
<1> QED
  BY <1>1, <1>7, <1>9, <1>10, <1>11 DEF IInv

LEMMA DormirRaffine ==
  ASSUME IInv, Attendre \/ ReveilSansSignal
  PROVE  IInv' /\ UNCHANGED File!vars
<1>1. /\ UNCHANGED <<tab_message, debut, fin, mutex, thread, requete, iFin, histoire>>
      /\ proc \in {"boucle", "attend"} /\ proc' \in {"boucle", "attend"}
  BY DEF Attendre, ReveilSansSignal
<1>2. TypeOK'
  BY PasTypeOK DEF IInv, Next, ProcessusRequetes
<1>3. Attente' = Attente /\ Nb' = Nb
  BY <1>1 DEF Attente, Nb, NbDeposes, NbVisibles, Place
<1>4. UNCHANGED File!vars
  BY <1>1, <1>3 DEF File!vars, histoire
<1>5. Sections' /\ Dates' /\ Arrivees' /\ Courante' /\ Copie'
  BY <1>1, <1>3 DEF IInv, Sections, Dates, Arrivees, Courante, Copie, histoire
<1> QED
  BY <1>2, <1>4, <1>5 DEF IInv

LEMMA PrendreRaffine ==
  ASSUME IInv, Prendre
  PROVE  IInv' /\ File!Servir
<1>1. TypeOK /\ TypeOK' /\ Lecture /\ Lecture'
  BY PasTypeOK, LectureJuste, LectureJusteApres DEF IInv, Next, ProcessusRequetes
<1>2. /\ MAX_CLIENTS \in Nat \ {0} /\ debut \in Indices /\ fin \in Indices
      /\ NbVisibles \in 0..(MAX_CLIENTS - 1)
      /\ mutex = Nul /\ debut # fin /\ proc = "boucle" /\ proc' = "traite"
      /\ debut' = IF debut + 1 = MAX_CLIENTS THEN 0 ELSE debut + 1
      /\ requete' = tab_message[debut]
      /\ servies' = Append(servies, tab_message[debut])
      /\ servies \in Seq(Emplacements)
      /\ recents' = 0
      /\ UNCHANGED <<tab_message, fin, mutex, thread, rang, depots, debordements>>
  BY <1>1, FileAssumption, SuivantJuste DEF TypeOK, Lecture, Prendre
<1>3. NbVisibles' = NbVisibles - 1 /\ NbVisibles > 0
  BY <1>2 DEF NbVisibles, Indices
<1>4. Nb = NbVisibles /\ Nb' = Nb - 1 /\ Nb \in 1..(MAX_CLIENTS - 1)
  BY <1>2, <1>3 DEF Nb, NbDeposes
<1>5. /\ Numero(debut, 1) = debut
      /\ \A i \in 1..(Nb - 1) : Numero(debut', i) = Numero(debut, i + 1)
  BY <1>2, <1>4 DEF Numero, Indices
<1>6. Attente # <<>> /\ Head(Attente) = tab_message[debut]
  BY <1>1, <1>4, <1>5 DEF Lecture
<1>7. Attente' = Tail(Attente)
  <2>1. /\ Tail(Attente) \in Seq(Emplacements)
        /\ Len(Tail(Attente)) = Nb - 1
        /\ \A i \in 1..(Nb - 1) : Tail(Attente)[i] = Attente[i + 1]
    BY <1>1, <1>4, <1>6 DEF Lecture
  <2>2. \A i \in 1..(Nb - 1) : i + 1 \in 1..Nb
    BY <1>4
  <2>3. \A i \in 1..(Nb - 1) : Attente'[i] = Attente[i + 1]
    BY SMTT(30), <1>1, <1>2, <1>4, <1>5, <2>2 DEF Lecture
  <2> QED
    BY <1>1, <1>4, <2>1, <2>3, SeqEqual DEF Lecture
<1>8. File!Servir
  BY <1>2, <1>6, <1>7 DEF File!Servir
<1>9. Courante'
  <2>1. tab_message[debut] \in Emplacements
    BY <1>1, <1>2 DEF TypeOK
  <2>2. /\ Len(servies') = Len(servies) + 1
        /\ servies'[Len(servies) + 1] = tab_message[debut]
    BY <1>2, <2>1
  <2>3. servies' # <<>>
    BY <1>2, <2>1
  <2> QED
    BY <1>2, <2>2, <2>3 DEF Courante
<1>10. Sections' /\ Dates' /\ Arrivees' /\ Copie'
  BY <1>2 DEF IInv, Sections, Dates, Arrivees, Copie
<1> QED
  BY <1>1, <1>8, <1>9, <1>10 DEF IInv

(***************************************************************************)
(* What the ends of a treatment have in common: the waiting requests keep  *)
(* their slots, so that only the text written there can differ.            *)
(***************************************************************************)
LEMMA FinDeTraitement ==
  ASSUME IInv,
         proc \in {"traite", "copie"}, proc' = "boucle", TypeOK',
         UNCHANGED <<debut, fin, mutex, thread, requete, iFin, histoire>>
  PROVE  /\ IInv'
         /\ Nb' = Nb
         /\ UNCHANGED <<recents, servies, rang, depots, debordements>>
         /\ File!EnTraitement = requete.message
<1>1. Nb' = Nb
  BY DEF Nb, NbDeposes, NbVisibles
<1>2. UNCHANGED <<recents, servies, rang, depots, debordements>>
  BY DEF histoire
<1>3. Sections' /\ Dates' /\ Arrivees' /\ Courante' /\ Copie'
  BY <1>1, <1>2 DEF IInv, Sections, Dates, Arrivees, Courante, Copie
<1>4. File!EnTraitement = requete.message
  BY DEF File!EnTraitement, IInv, Courante
<1> QED
  BY <1>1, <1>2, <1>3, <1>4 DEF IInv

LEMMA RepondreRaffine ==
  ASSUME IInv, Repondre
  PROVE  IInv' /\ File!Achever
<1>1. TypeOK'
  BY PasTypeOK DEF IInv, Next, ProcessusRequetes
<1>2. /\ IInv'
      /\ UNCHANGED <<recents, servies, rang, depots, debordements>>
  BY <1>1, FinDeTraitement DEF Repondre
<1>3. Attente' = Attente
  BY DEF Repondre, Attente, NbDeposes, NbVisibles, Place
<1> QED
  BY <1>2, <1>3 DEF File!Achever, Repondre

(***************************************************************************)
(* Writing a text into a slot changes the waiting requests as the module   *)
(* FileSequentielle says: the one in that slot, if there is one.           *)
(***************************************************************************)
LEMMA EcrireDansUneCase ==
  ASSUME TypeOK, TypeOK', UNCHANGED <<debut, fin, mutex>>,
         NEW k \in Indices, NEW t \in Copies,
         tab_message' = [tab_message EXCEPT ![k].message = t]
  PROVE  /\ \A i \in 1..Nb : Numero(debut, i) = k => Attente' = File!Ecraser(Attente, i, t)
         /\ (\A i \in 1..Nb : Numero(debut, i) # k) => Attente' = Attente
<1>1. Lecture /\ Lecture' /\ Nb' = Nb
  BY LectureJuste, LectureJusteApres DEF Nb, NbDeposes, NbVisibles
<1>2. /\ debut \in Indices /\ Nb \in Nat /\ 1..Nb \subseteq 1..MAX_CLIENTS
      /\ \A i \in 1..Nb : Numero(debut, i) \in Indices
  <2>1. debut \in Indices /\ Nb \in Nat /\ 1..Nb \subseteq 1..MAX_CLIENTS
    BY <1>1, FileAssumption DEF Lecture, TypeOK
  <2> QED
    BY <2>1, NumerosDistincts
<1> DEFINE e == [tab_message[k] EXCEPT !.message = t]
<1>3. /\ tab_message'[k] = e
      /\ \A j \in Indices \ {k} : tab_message'[j] = tab_message[j]
  BY DEF TypeOK
<1>4. ASSUME NEW i \in 1..Nb, Numero(debut, i) = k
      PROVE  Attente' = File!Ecraser(Attente, i, t)
  <2>1. \A j \in 1..Nb : j # i => Numero(debut, j) # k
    BY <1>2, <1>4, NumerosDistincts
  <2>2. \A j \in 1..Nb : Attente'[j] = IF j = i THEN e ELSE Attente[j]
    BY <1>1, <1>2, <1>3, <1>4, <2>1 DEF Lecture
  <2>3. Attente[i] = tab_message[k]
    BY <1>1, <1>4 DEF Lecture
  <2>4. File!Ecraser(Attente, i, t) = [Attente EXCEPT ![i] = e]
    BY <1>1, <1>4, <2>3 DEF File!Ecraser, Lecture
  <2>5. e \in Emplacements
    BY <1>3, <1>4 DEF TypeOK
  <2> DEFINE q == [Attente EXCEPT ![i] = e]
  <2>6. q \in Seq(Emplacements) /\ Len(q) = Nb
    BY <1>1, <1>4, <2>5 DEF Lecture
  <2>7. \A j \in 1..Nb : q[j] = IF j = i THEN e ELSE Attente[j]
    BY <1>1, <1>4 DEF Lecture
  <2> QED
    BY <1>1, <2>2, <2>4, <2>6, <2>7, SeqEqual DEF Lecture
<1>5. ASSUME \A i \in 1..Nb : Numero(debut, i) # k
      PROVE  Attente' = Attente
  <2>1. \A j \in 1..Nb : Attente'[j] = Attente[j]
    BY <1>1, <1>2, <1>3, <1>5 DEF Lecture
  <2> QED
    BY <1>1, <2>1, SeqEqual DEF Lecture
<1> QED
  BY <1>4, <1>5

LEMMA CopierListeRaffine ==
  ASSUME IInv, CopierListe
  PROVE  IInv' /\ File!Achever
<1>1. TypeOK'
  BY PasTypeOK DEF IInv, Next, ProcessusRequetes
<1>2. /\ IInv' /\ Nb' = Nb
      /\ UNCHANGED <<recents, servies, rang, depots, debordements>>
      /\ File!EnTraitement = "LISTE"
  BY <1>1, FinDeTraitement DEF CopierListe
<1>3. TypeOK /\ debut \in Indices /\ Nb \in Nat /\ DOMAIN Attente = 1..Nb
  BY LectureJuste DEF IInv, TypeOK, Lecture
<1>4. Attente' = File!Ecraser(Attente, 1, "liste")
  <2>1. Numero(debut, 1) = debut
    BY <1>3, FileAssumption DEF Numero, Indices
  <2>2. CASE 1 \in 1..Nb
    BY <1>1, <1>3, <2>1, <2>2, EcrireDansUneCase DEF CopierListe, Copies
  <2>3. CASE 1 \notin 1..Nb
    <3>1. 1..Nb = {} /\ File!Ecraser(Attente, 1, "liste") = Attente
      BY <1>3, <2>3 DEF File!Ecraser
    <3> QED
      BY <1>1, <1>3, <3>1, EcrireDansUneCase DEF CopierListe, Copies
  <2> QED
    BY <2>2, <2>3
<1> QED
  BY <1>2, <1>4 DEF File!Achever, CopierListe

LEMMA LireFinRaffine ==
  ASSUME IInv, LireFin
  PROVE  IInv' /\ UNCHANGED File!vars
<1>1. TypeOK /\ TypeOK' /\ Lecture
  BY PasTypeOK, LectureJuste DEF IInv, Next, ProcessusRequetes
<1>2. UNCHANGED <<tab_message, debut, fin, mutex, thread, requete, histoire>>
  BY DEF LireFin
<1>3. Attente' = Attente /\ Nb' = Nb
  BY <1>2 DEF Attente, Nb, NbDeposes, NbVisibles, Place
<1>4. UNCHANGED File!vars
  BY <1>2, <1>3 DEF LireFin, File!vars, histoire
<1>5. Sections' /\ Dates' /\ Arrivees' /\ Courante'
  BY <1>2, <1>3 DEF LireFin, IInv, Sections, Dates, Arrivees, Courante, histoire
<1>6. Copie'
  <2> SUFFICES ASSUME NEW i \in 1..Nb, Numero(debut, i) = fin
               PROVE  i > Nb - recents
    BY <1>2, <1>3 DEF LireFin, Copie, histoire
  <2>1. /\ MAX_CLIENTS \in Nat \ {0} /\ debut \in Indices /\ fin \in Indices
        /\ Nb \in 1..(MAX_CLIENTS - 1) /\ i \in 1..(MAX_CLIENTS - 1)
        /\ NbVisibles \in 0..(MAX_CLIENTS - 1)
    BY <1>1, FileAssumption DEF TypeOK, Lecture
  <2>2. i = NbVisibles + 1
    BY <2>1 DEF Numero, NbVisibles, Indices
  <2>3. mutex # Nul /\ Nb = i
    BY <2>1, <2>2 DEF Nb, NbDeposes
  <2> QED
    BY <1>1, <2>1, <2>3 DEF IInv, Arrivees, TypeOK
<1> QED
  BY <1>1, <1>4, <1>5, <1>6 DEF IInv

LEMMA CopierCodeRaffine ==
  ASSUME IInv, CopierCode
  PROVE  IInv' /\ File!Achever
<1>1. TypeOK'
  BY PasTypeOK DEF IInv, Next, ProcessusRequetes
<1>2. /\ IInv'
      /\ UNCHANGED <<recents, servies, rang, depots, debordements>>
      /\ File!EnTraitement # "MESSAGE"
  BY <1>1, FinDeTraitement DEF CopierCode, IInv, Courante
<1>3. TypeOK /\ iFin \in Indices /\ Nb \in Nat /\ Len(Attente) = Nb
  BY LectureJuste DEF IInv, TypeOK, Lecture
<1>4. CASE \E i \in 1..Nb : Numero(debut, i) = iFin
  <2> PICK i \in 1..Nb : Numero(debut, i) = iFin
    BY <1>4
  <2>1. Attente' = File!Ecraser(Attente, i, "code")
    BY <1>1, <1>3, EcrireDansUneCase DEF CopierCode, Copies
  <2>2. i \in 1..Len(Attente) /\ i > Len(Attente) - recents
    BY <1>3 DEF IInv, Copie, CopierCode
  <2> QED
    BY <1>2, <2>1, <2>2 DEF File!Achever, CopierCode
<1>5. CASE \A i \in 1..Nb : Numero(debut, i) # iFin
  <2>1. Attente' = Attente
    BY <1>1, <1>3, <1>5, EcrireDansUneCase DEF CopierCode, Copies
  <2> QED
    BY <1>2, <2>1 DEF File!Achever, CopierCode
<1> QED
  BY <1>4, <1>5

LEMMA PasIInv == IInv /\ [Next]_vars => IInv' /\ [File!Next]_(File!vars)
<1> SUFFICES ASSUME IInv, [Next]_vars PROVE IInv' /\ [File!Next]_(File!vars)
  OBVIOUS
<1>1. ASSUME NEW s \in Sockets, NEW g \in Genres, CopierRequete(s, g)
      PROVE  IInv' /\ [File!Next]_(File!vars)
  <2>1. g \in File!Genres
    BY DEF Genres, File!Genres
  <2> QED
    BY <1>1, <2>1, CopierRequeteRaffine DEF File!Next
<1>2. ASSUME NEW s \in Sockets, Publier(s)
      PROVE  IInv' /\ [File!Next]_(File!vars)
  BY <1>2, PublierRaffine
<1>3. CASE Attendre \/ ReveilSansSignal
  BY <1>3, DormirRaffine
<1>4. CASE Prendre
  BY <1>4, PrendreRaffine DEF File!Next
<1>5. CASE Repondre \/ CopierListe \/ CopierCode
  BY <1>5, RepondreRaffine, CopierListeRaffine, CopierCodeRaffine DEF File!Next
<1>6. CASE LireFin
  BY <1>6, LireFinRaffine
<1>7. CASE UNCHANGED vars
  <2>1. UNCHANGED File!vars
    BY <1>7 DEF vars, File!vars, Attente, NbDeposes, NbVisibles, Place
  <2>2. IInv'
    BY <1>7 DEF vars, IInv, TypeOK, Sections, Dates, Arrivees, Courante, Copie,
                Nb, NbDeposes, NbVisibles
  <2> QED
    BY <2>1, <2>2
<1> QED
  BY <1>1, <1>2, <1>3, <1>4, <1>5, <1>6, <1>7
  DEF Next, ClientThread, ProcessusRequetes

LEMMA InitRaffine == Init => File!Init
<1> SUFFICES ASSUME Init PROVE File!Init
  OBVIOUS
<1>1. NbDeposes = 0 /\ MAX_CLIENTS # 0
  BY FileAssumption DEF Init, NbDeposes, NbVisibles
<1>2. Attente = <<>>
  BY <1>1 DEF Attente
<1> QED
  BY <1>2 DEF Init, File!Init

(***************************************************************************)
(* The queue of Communication never leaves its types: in particular both   *)
(* indices stay within the array, through every wrap-around and overflow.  *)
(***************************************************************************)
THEOREM TypeCorrect == Spec => []TypeOK
<1>1. TypeOK /\ [Next]_vars => TypeOK'
  BY PasTypeOK
<1>2. Init => TypeOK
  BY InitIInv DEF IInv
<1> QED
  BY <1>1, <1>2, PTL DEF Spec

(***************************************************************************)
(* The circular array, with the critical sections of the client threads    *)
(* and the unprotected copies of replies, implements FileSequentielle.     *)
(***************************************************************************)
THEOREM Raffinement == Spec => ImplementeFileSequentielle
<1>1. Init => IInv /\ File!Init
  BY InitIInv, InitRaffine
<1>2. IInv /\ [Next]_vars => IInv' /\ [File!Next]_(File!vars)
  BY PasIInv
<1>3. Spec => File!Init /\ [][File!Next]_(File!vars)
  BY <1>1, <1>2, PTL DEF Spec
<1> QED
  BY <1>3 DEF ImplementeFileSequentielle, File!Spec

-----------------------------------------------------------------------------
(* What FileSequentielleProofs shows of the sequence, for the array. *)

Sequence == INSTANCE FileSequentielleProofs WITH
              attente <- Attente,
              traite <- proc \in {"traite", "copie"}

LEMMA MemesPas ==
  /\ File!Init => Sequence!Init
  /\ [File!Next]_(File!vars) => [Sequence!Next]_(Sequence!vars)
<1>1. File!Init => Sequence!Init
  BY DEF File!Init, Sequence!Init
<1>2. ASSUME NEW s, NEW g, File!Deposer(s, g)
      PROVE  Sequence!Deposer(s, g)
  BY <1>2 DEF File!Deposer, Sequence!Deposer, File!Dater, Sequence!Dater
<1>3. ASSUME NEW s, File!Deborder(s)
      PROVE  Sequence!Deborder(s)
  BY <1>3 DEF File!Deborder, Sequence!Deborder, File!Dater, Sequence!Dater
<1>4. File!Servir => Sequence!Servir
  BY DEF File!Servir, Sequence!Servir
<1>5. File!Achever => Sequence!Achever
  BY DEF File!Achever, Sequence!Achever, File!Ecraser, Sequence!Ecraser,
         File!EnTraitement, Sequence!EnTraitement
<1>6. File!Next => Sequence!Next
  BY <1>2, <1>3, <1>4, <1>5
  DEF File!Next, Sequence!Next, File!Genres, Sequence!Genres
<1>7. UNCHANGED File!vars => UNCHANGED Sequence!vars
  BY DEF File!vars, Sequence!vars
<1> QED
  BY <1>1, <1>6, <1>7

LEMMA InvarianceSequence == Spec => []Sequence!IInv
<1>1. Spec => Sequence!Init /\ [][Sequence!Next]_(Sequence!vars)
  <2>1. Spec => File!Init /\ [][File!Next]_(File!vars)
    BY Raffinement DEF ImplementeFileSequentielle, File!Spec
  <2>2. File!Init => Sequence!Init
    BY MemesPas
  <2>3. [File!Next]_(File!vars) => [Sequence!Next]_(Sequence!vars)
    BY MemesPas
  <2> QED
    BY <2>1, <2>2, <2>3, PTL
<1>2. Sequence!Init /\ [][Sequence!Next]_(Sequence!vars) => []Sequence!IInv
  BY FileAssumption, Sequence!InvarianceFile DEF Sequence!Spec
<1> QED
  BY <1>1, <1>2, PTL

(***************************************************************************)
(* The requests are taken in the order in which the client threads entered *)
(* their critical sections, each at most once.                             *)
(***************************************************************************)
THEOREM Ordre == Spec => []PremierArrivePremierServi
<1>1. Sequence!IInv => PremierArrivePremierServi
  BY DEF Sequence!IInv, Sequence!PremierArrivePremierServi, Sequence!Croissant,
         PremierArrivePremierServi, File!PremierArrivePremierServi, File!Croissant
<1> QED
  BY <1>1, InvarianceSequence, PTL

(***************************************************************************)
(* Requests are lost only MAX_CLIENTS at a time, by a full queue.          *)
(***************************************************************************)
THEOREM Comptes == Spec => []Conservation
<1>1. Sequence!IInv => Conservation
  BY DEF Sequence!IInv, Sequence!Conservation, Conservation, File!Conservation
<1> QED
  BY <1>1, InvarianceSequence, PTL

(***************************************************************************)
(* A LISTEUTILISATEUR damages no request but the next to be taken.         *)
(***************************************************************************)
THEOREM ListeSurLaSuivante == Spec => []ListeEnTete
<1>1. Sequence!IInv => ListeEnTete
  BY DEF Sequence!IInv, Sequence!ListeEnTete, ListeEnTete, File!ListeEnTete
<1> QED
  BY <1>1, InvarianceSequence, PTL

=============================================================================
