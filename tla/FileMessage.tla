----------------------------- MODULE FileMessage -----------------------------
(***************************************************************************)
(* The circular message queue of Partie_centrale/Communication.c           *)
(* (FileMessage), with the threads that use it: one ClientThread per       *)
(* client socket, which deposits the request it read, and the one thread   *)
(* ProcessusRequetes, which takes requests out and treats them.            *)
(*                                                                         *)
(* Deposits and withdrawals are critical sections of file->mutex, and the  *)
(* consumer sleeps on file->cond.  The copies of the reply into the array  *)
(* at the end of a treatment are made WITHOUT the mutex: the index fin is  *)
(* read in one step and the slot written in a later one.                   *)
(*                                                                         *)
(* A treatment is abstracted to its effect on the queue; what Gestion_     *)
(* requete answers and the sending of replies belong to other modules.     *)
(***************************************************************************)
EXTENDS Integers, Sequences

CONSTANTS
  MAX_CLIENTS,  \* number of slots
  Sockets,      \* the client sockets
  Nul           \* client_socket of a slot that was never written, owner of a free mutex

ASSUME FileAssumption == MAX_CLIENTS \in Nat \ {0} /\ Nul \notin Sockets

Genres == {"MESSAGE", "LISTE", "AUTRE"}
Copies == {"liste", "code"}
Contenus == Genres \cup Copies \cup {"vide"}

Emplacements == [message : Contenus, client_socket : Sockets \cup {Nul}]
Indices == 0..(MAX_CLIENTS - 1)

VARIABLES
  tab_message,  \* the slots
  debut, fin,   \* first waiting request, next free slot
  mutex,        \* Nul, or the socket whose thread is in its critical section
  thread,       \* where each ClientThread is
  proc,         \* where ProcessusRequetes is
  requete,      \* its local copy of the request it treats
  iFin          \* the value of file->fin it read before copying a reply

\* History variables: they record what happened and no guard reads them.
VARIABLES
  servies,      \* the requests taken, in order
  rang,         \* the place of each socket in the order of deposits
  depots,       \* number of deposits
  debordements, \* number of deposits that made fin catch up with debut
  recents       \* waiting requests deposited since the last withdrawal

etat == <<tab_message, debut, fin, mutex, thread, proc, requete, iFin>>
histoire == <<servies, rang, depots, debordements, recents>>
vars == <<tab_message, debut, fin, mutex, thread, proc, requete, iFin,
          servies, rang, depots, debordements, recents>>

NouvelleRequete == [message |-> "vide", client_socket |-> Nul]

\* Faulty variant: the index is not brought back to 0.
SuivantSansModulo(i) == i + 1

\* The slot after slot i.
Suivant(i) == (i + 1) % MAX_CLIENTS

\* How many requests wait, as the two indices tell it.
NbVisibles == IF fin >= debut THEN fin - debut ELSE fin - debut + MAX_CLIENTS

\* The slot of the i-th waiting request.
Place(i) == (debut + i - 1) % MAX_CLIENTS

\* A critical section has copied its request and not yet advanced fin.
NbDeposes == IF mutex = Nul THEN NbVisibles ELSE NbVisibles + 1

\* The waiting requests as a sequence: what the array stands for.
Attente ==
  IF NbDeposes = MAX_CLIENTS THEN <<>>
  ELSE [i \in 1..NbDeposes |-> tab_message[Place(i)]]

Init ==
  /\ tab_message = [i \in Indices |-> NouvelleRequete]
  /\ debut = 0
  /\ fin = 0
  /\ mutex = Nul
  /\ thread = [s \in Sockets |-> "lecture"]
  /\ proc = "boucle"
  /\ requete = NouvelleRequete
  /\ iFin = 0
  /\ servies = <<>>
  /\ rang = [s \in Sockets |-> 0]
  /\ depots = 0
  /\ debordements = 0
  /\ recents = 0

-----------------------------------------------------------------------------
(* ClientThread *)

\* Faulty variant: the deposit does not take the mutex.
CopierSansMutex(s, g) ==
  /\ thread[s] = "lecture"
  /\ mutex' = s
  /\ thread' = [thread EXCEPT ![s] = "section"]
  /\ tab_message' = [tab_message EXCEPT
                       ![fin] = [message |-> g, client_socket |-> s]]
  /\ depots' = depots + 1
  /\ rang' = [rang EXCEPT ![s] = depots + 1]
  /\ recents' = recents + 1
  /\ UNCHANGED <<debut, fin, proc, requete, iFin, servies, debordements>>

\* The thread of s has read request g: it takes the mutex and copies it into
\* slot fin, whether or not that slot is free.
CopierRequete(s, g) ==
  /\ thread[s] = "lecture"
  /\ mutex = Nul
  /\ mutex' = s
  /\ thread' = [thread EXCEPT ![s] = "section"]
  /\ tab_message' = [tab_message EXCEPT
                       ![fin] = [message |-> g, client_socket |-> s]]
  /\ depots' = depots + 1
  /\ rang' = [rang EXCEPT ![s] = depots + 1]
  /\ IF NbVisibles + 1 = MAX_CLIENTS
       THEN debordements' = debordements + 1 /\ recents' = 0
       ELSE recents' = recents + 1 /\ UNCHANGED debordements
  /\ UNCHANGED <<debut, fin, proc, requete, iFin, servies>>

\* Faulty variant: the condition is not signalled.
PublierSansSignal(s) ==
  /\ thread[s] = "section"
  /\ fin' = Suivant(fin)
  /\ mutex' = Nul
  /\ thread' = [thread EXCEPT ![s] = "fini"]
  /\ UNCHANGED <<tab_message, debut, proc, requete, iFin, histoire>>

\* It advances fin, signals the condition and releases the mutex.
Publier(s) ==
  /\ thread[s] = "section"
  /\ fin' = Suivant(fin)
  /\ proc' = IF proc = "attend" THEN "boucle" ELSE proc
  /\ mutex' = Nul
  /\ thread' = [thread EXCEPT ![s] = "fini"]
  /\ UNCHANGED <<tab_message, debut, requete, iFin, histoire>>

-----------------------------------------------------------------------------
(* ProcessusRequetes *)

\* Under the mutex, nothing to take: pthread_cond_wait releases the mutex.
Attendre ==
  /\ proc = "boucle"
  /\ mutex = Nul
  /\ debut = fin
  /\ proc' = "attend"
  /\ UNCHANGED <<tab_message, debut, fin, mutex, thread, requete, iFin, histoire>>

\* pthread_cond_wait may return without a signal; the loop tests again.
ReveilSansSignal ==
  /\ proc = "attend"
  /\ proc' = "boucle"
  /\ UNCHANGED <<tab_message, debut, fin, mutex, thread, requete, iFin, histoire>>

\* Faulty variant: debut is not advanced.
PrendreSansAvancer ==
  /\ proc = "boucle"
  /\ mutex = Nul
  /\ debut # fin
  /\ requete' = tab_message[debut]
  /\ proc' = "traite"
  /\ servies' = Append(servies, tab_message[debut])
  /\ recents' = 0
  /\ UNCHANGED <<tab_message, debut, fin, mutex, thread, iFin,
                 rang, depots, debordements>>

\* Under the mutex, copy the oldest request and advance debut.
Prendre ==
  /\ proc = "boucle"
  /\ mutex = Nul
  /\ debut # fin
  /\ requete' = tab_message[debut]
  /\ debut' = Suivant(debut)
  /\ proc' = "traite"
  /\ servies' = Append(servies, tab_message[debut])
  /\ recents' = 0
  /\ UNCHANGED <<tab_message, fin, mutex, thread, iFin,
                 rang, depots, debordements>>

\* A treatment that copies nothing into the array: a broadcast, or a
\* Gestion_requete that did not exit normally.
Repondre ==
  /\ proc = "traite"
  /\ proc' = "boucle"
  /\ UNCHANGED <<tab_message, debut, fin, mutex, thread, requete, iFin, histoire>>

\* Faulty variant: the list is copied at the other end of the queue.
CopierListeEnFin ==
  /\ proc = "traite"
  /\ requete.message = "LISTE"
  /\ tab_message' = [tab_message EXCEPT ![fin].message = "liste"]
  /\ proc' = "boucle"
  /\ UNCHANGED <<debut, fin, mutex, thread, requete, iFin, histoire>>

\* Exit status 3: the list of users is copied into slot debut, which since
\* Prendre is the slot of the NEXT request.
CopierListe ==
  /\ proc = "traite"
  /\ requete.message = "LISTE"
  /\ tab_message' = [tab_message EXCEPT ![debut].message = "liste"]
  /\ proc' = "boucle"
  /\ UNCHANGED <<debut, fin, mutex, thread, requete, iFin, histoire>>

\* Faulty variant: the exit status goes to the oldest request's slot.
LireDebut ==
  /\ proc = "traite"
  /\ requete.message # "MESSAGE"
  /\ iFin' = debut
  /\ proc' = "copie"
  /\ UNCHANGED <<tab_message, debut, fin, mutex, thread, requete, histoire>>

\* Any other exit status (a LISTE can also end with status 1): first the
\* index fin is read ...
LireFin ==
  /\ proc = "traite"
  /\ requete.message # "MESSAGE"
  /\ iFin' = fin
  /\ proc' = "copie"
  /\ UNCHANGED <<tab_message, debut, fin, mutex, thread, requete, histoire>>

\* ... then the exit status is copied into that slot.
CopierCode ==
  /\ proc = "copie"
  /\ tab_message' = [tab_message EXCEPT ![iFin].message = "code"]
  /\ proc' = "boucle"
  /\ UNCHANGED <<debut, fin, mutex, thread, requete, iFin, histoire>>

-----------------------------------------------------------------------------

ClientThread(s) == (\E g \in Genres : CopierRequete(s, g)) \/ Publier(s)

ProcessusRequetes ==
  \/ Attendre
  \/ Prendre
  \/ Repondre
  \/ CopierListe
  \/ LireFin
  \/ CopierCode

Next ==
  \/ \E s \in Sockets : ClientThread(s)
  \/ ProcessusRequetes
  \/ ReveilSansSignal

Spec == Init /\ [][Next]_vars

(***************************************************************************)
(* A thread that can run does run: a client thread leaves the critical     *)
(* section it entered, and ProcessusRequetes, which has no blocking call   *)
(* but the mutex, the condition and Gestion_requete (which ends by itself, *)
(* an alarm bounds its only wait), keeps going round its loop.  Nothing    *)
(* forces a client to send a request, nor the condition to wake up alone.  *)
(***************************************************************************)
FairSpec ==
  /\ Spec
  /\ \A s \in Sockets : WF_vars(Publier(s))
  /\ WF_vars(ProcessusRequetes)

-----------------------------------------------------------------------------

TypeOK ==
  /\ tab_message \in [Indices -> Emplacements]
  /\ debut \in Indices
  /\ fin \in Indices
  /\ mutex \in Sockets \cup {Nul}
  /\ thread \in [Sockets -> {"lecture", "section", "fini"}]
  /\ proc \in {"boucle", "attend", "traite", "copie"}
  /\ requete \in Emplacements
  /\ iFin \in Indices
  /\ servies \in Seq(Emplacements)
  /\ rang \in [Sockets -> Nat]
  /\ depots \in Nat
  /\ debordements \in Nat
  /\ recents \in Nat

File == INSTANCE FileSequentielle WITH
          attente <- Attente,
          traite <- proc \in {"traite", "copie"}

(***************************************************************************)
(* The circular array with its unprotected copies behaves as the sequence  *)
(* of FileSequentielle: nothing else is lost, reordered or overwritten.    *)
(***************************************************************************)
ImplementeFileSequentielle == File!Spec

(***************************************************************************)
(* The requests are taken in the order in which the threads deposited      *)
(* them, each at most once, through every wrap-around of the two indices   *)
(* and every loss (the array stands for the sequence of that module).      *)
(***************************************************************************)
PremierArrivePremierServi == File!PremierArrivePremierServi

(***************************************************************************)
(* Deposits are never lost one by one: what is neither served nor waiting  *)
(* was lost by MAX_CLIENTS at a time, when fin caught up with debut.       *)
(***************************************************************************)
Conservation == File!Conservation

EnAttente(s) == \E i \in DOMAIN Attente : Attente[i].client_socket = s

(***************************************************************************)
(* A deposited request does not wait for ever: it is taken, or lost with   *)
(* all the others.  ProcessusRequetes never sleeps on the condition while  *)
(* the indices show it a request.                                          *)
(***************************************************************************)
AttenteFinie == \A s \in Sockets : EnAttente(s) ~> ~EnAttente(s)

(***************************************************************************)
(* The text overwritten by a LISTEUTILISATEUR is that of the next request  *)
(* to be taken, never of one further back in the queue.                    *)
(***************************************************************************)
ListeEnTete == File!ListeEnTete

(***************************************************************************)
(* Communication.c:186 "Récupérer la requête de la file de messages": the  *)
(* text taken out of the queue is the one a client sent, never a reply     *)
(* copied over it.  The code breaks it: see CopierListe and CopierCode.    *)
(***************************************************************************)
RequeteIntacte == \A i \in DOMAIN servies : servies[i].message \in Genres

(***************************************************************************)
(* Communication.c:182 "Attendre qu'une requête soit disponible dans la    *)
(* file de messages": ProcessusRequetes sleeps only when every request     *)
(* whose deposit is complete has been taken.  The code breaks it: a queue  *)
(* with all its slots taken looks empty, and its requests are lost.        *)
(***************************************************************************)
AttendreSiTousServis ==
  proc = "attend" /\ mutex = Nul => depots = Len(servies)

=============================================================================
