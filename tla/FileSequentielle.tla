-------------------------- MODULE FileSequentielle --------------------------
(***************************************************************************)
(* What the message queue of Communication promises, as a sequence.        *)
(*                                                                         *)
(* Client threads deposit one request each, the single thread              *)
(* ProcessusRequetes serves them.  The promise is weaker than "a bounded   *)
(* FIFO queue" in exactly two ways, both of which the code really has:     *)
(*   - nothing stops a deposit into a full queue, and the deposit that     *)
(*     brings the number of waiting requests to MAX_CLIENTS empties it;    *)
(*   - ending a treatment may overwrite the text of one waiting request:   *)
(*     the next one after a LISTEUTILISATEUR, or one of those that arrived *)
(*     during the treatment after any other request but MESSAGE.           *)
(* Who is served, in which order and how often is never damaged: see       *)
(* PremierArrivePremierServi and Conservation.  FileMessage, the circular  *)
(* array the code uses, implements this module.                            *)
(***************************************************************************)
EXTENDS Naturals, Sequences

CONSTANTS
  MAX_CLIENTS,  \* number of slots of the queue (10 in the code)
  Sockets       \* the client sockets; each one's thread deposits one request

\* What a client may send, as far as the queue's treatment can tell:
\* MESSAGE_..., LISTEUTILISATEUR_..., or any other request.
Genres == {"MESSAGE", "LISTE", "AUTRE"}

\* What the text of a waiting request may have become: the list of users or
\* the exit status of Gestion_requete, written over it by another treatment.
Copies == {"liste", "code"}

Contenus == Genres \cup Copies

Requetes == [message : Contenus, client_socket : Sockets]

VARIABLES
  attente,       \* the waiting requests, oldest first
  recents,       \* how many of them arrived since the last one was taken
  traite,        \* is ProcessusRequetes treating a request?
  servies,       \* history: the requests taken so far, in order
  rang,          \* history: the place of each socket in the order of deposits
  depots,        \* history: number of deposits
  debordements   \* history: number of times the queue was emptied by a deposit

vars == <<attente, recents, traite, servies, rang, depots, debordements>>

\* The request q[i] keeps its socket and gets another text.
Ecraser(q, i, texte) ==
  IF i \in DOMAIN q THEN [q EXCEPT ![i].message = texte] ELSE q

Init ==
  /\ attente = <<>>
  /\ recents = 0
  /\ traite = FALSE
  /\ servies = <<>>
  /\ rang = [s \in Sockets |-> 0]
  /\ depots = 0
  /\ debordements = 0

Dater(s) ==
  /\ rang[s] = 0
  /\ depots' = depots + 1
  /\ rang' = [rang EXCEPT ![s] = depots + 1]

\* The thread of s deposits its request while there is room for it.
Deposer(s, g) ==
  /\ Len(attente) + 1 < MAX_CLIENTS
  /\ attente' = Append(attente, [message |-> g, client_socket |-> s])
  /\ recents' = recents + 1
  /\ Dater(s)
  /\ UNCHANGED <<traite, servies, debordements>>

\* The deposit that fills the last slot loses all the waiting requests.
Deborder(s) ==
  /\ Len(attente) + 1 = MAX_CLIENTS
  /\ attente' = <<>>
  /\ recents' = 0
  /\ debordements' = debordements + 1
  /\ Dater(s)
  /\ UNCHANGED <<traite, servies>>

\* ProcessusRequetes takes the oldest request.
Servir ==
  /\ ~traite
  /\ attente # <<>>
  /\ servies' = Append(servies, Head(attente))
  /\ attente' = Tail(attente)
  /\ recents' = 0
  /\ traite' = TRUE
  /\ UNCHANGED <<rang, depots, debordements>>

EnTraitement == servies[Len(servies)].message

\* It ends the treatment, having overwritten at most one waiting request.
Achever ==
  /\ traite
  /\ traite' = FALSE
  /\ \/ attente' = attente
     \/ /\ EnTraitement = "LISTE"
        /\ attente' = Ecraser(attente, 1, "liste")
     \/ /\ EnTraitement # "MESSAGE"
        /\ \E i \in 1..Len(attente) :
              /\ i > Len(attente) - recents
              /\ attente' = Ecraser(attente, i, "code")
  /\ UNCHANGED <<recents, servies, rang, depots, debordements>>

Next ==
  \/ \E s \in Sockets : \E g \in Genres : Deposer(s, g)
  \/ \E s \in Sockets : Deborder(s)
  \/ Servir
  \/ Achever

Spec == Init /\ [][Next]_vars

-----------------------------------------------------------------------------

TypeOK ==
  /\ attente \in Seq(Requetes)
  /\ Len(attente) < MAX_CLIENTS
  /\ recents \in Nat
  /\ recents <= Len(attente)
  /\ traite \in BOOLEAN
  /\ servies \in Seq(Requetes)
  /\ rang \in [Sockets -> Nat]
  /\ depots \in Nat
  /\ debordements \in Nat

\* The places, in the order of deposits, of the requests of a sequence.
Croissant(q) ==
  \A i, j \in DOMAIN q :
     i < j => rang[q[i].client_socket] < rang[q[j].client_socket]

(***************************************************************************)
(* First come, first served: the requests served, followed by those that   *)
(* wait, stand in the order in which they were deposited.  In particular   *)
(* no socket is served twice, and none is served that did not deposit.     *)
(***************************************************************************)
PremierArrivePremierServi ==
  /\ Croissant(servies)
  /\ Croissant(attente)
  /\ \A i \in DOMAIN servies, j \in DOMAIN attente :
        rang[servies[i].client_socket] < rang[attente[j].client_socket]
  /\ \A i \in DOMAIN servies : rang[servies[i].client_socket] > 0

(***************************************************************************)
(* Every deposit is accounted for: served, waiting, or lost in one of the  *)
(* losses, each of which takes exactly MAX_CLIENTS requests.               *)
(***************************************************************************)
Conservation ==
  depots = Len(servies) + Len(attente) + MAX_CLIENTS * debordements

(***************************************************************************)
(* The request whose text a LISTEUTILISATEUR overwrites is the next to be  *)
(* taken, never one further back.                                          *)
(***************************************************************************)
ListeEnTete == \A i \in DOMAIN attente : attente[i].message = "liste" => i = 1

=============================================================================
