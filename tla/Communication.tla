---------------------------- MODULE Communication ----------------------------
(***************************************************************************)
(* The server process (Partie_centrale/Communication.c): it accepts        *)
(* connections, each with a ClientThread, keeps the table clients of the   *)
(* sockets that receive the broadcasts, queues the requests and answers    *)
(* them in the one thread ProcessusRequetes.                               *)
(*                                                                         *)
(* The queue is the sequence FileSequentielle, which FileMessage shows the *)
(* circular array to implement.  What Gestion_requete computes is left to  *)
(* other modules: here a reply is only known by the request it answers.    *)
(*                                                                         *)
(* A connection is identified by a model value; the server knows it by its *)
(* descriptor number alone, and the kernel gives a closed number again.    *)
(* A client's request is read and queued in one step: that it was sent     *)
(* some time before cannot be seen by the server.                          *)
(***************************************************************************)
EXTENDS Naturals, Sequences, FiniteSets, SequencesExt

CONSTANTS
  MAX_CLIENTS,  \* size of the table
  MAX_REQUETES, \* size of the queue: MAX_CLIENTS too in the code, and a constant
                \* of its own so that a small table may meet a longer queue
  Connexions,   \* the connections that clients may open
  Ecoutes,      \* those of them that listen to broadcasts and send nothing
  Fds           \* descriptor numbers the kernel may give to them

ASSUME CommunicationAssumption ==
  /\ MAX_CLIENTS \in Nat \ {0} /\ MAX_REQUETES \in Nat \ {0}
  /\ Ecoutes \subseteq Connexions
  /\ Fds \subseteq Nat

Genres == {"MESSAGE", "LISTE", "AUTRE"}

VARIABLES
  fil,            \* where the ClientThread of each connection is
  numero,         \* the descriptor number each connection was accepted with
  ouvert,         \* has the server not closed it?
  pair,           \* has the client not closed its end?
  flux,           \* what each client was sent, in order
  clients,        \* the table: descriptor numbers
  mutex_clients,  \* is it held across steps, by a broadcast?
  proc,           \* where ProcessusRequetes is
  iDiff           \* the loop index of a broadcast

\* The queue, with the history that FileSequentielle records.
VARIABLES attente, recents, servies, rang, depots, debordements

file == <<attente, recents, servies, rang, depots, debordements>>
sockets == <<numero, ouvert, pair>>
vars == <<fil, numero, ouvert, pair, flux, clients, mutex_clients, proc, iDiff,
          attente, recents, servies, rang, depots, debordements>>

File == INSTANCE FileSequentielle WITH
          MAX_CLIENTS <- MAX_REQUETES,
          Sockets <- Connexions,
          traite <- proc # "libre"

Init ==
  /\ fil = [k \in Connexions |-> "absent"]
  /\ numero = [k \in Connexions |-> 0]
  /\ ouvert = [k \in Connexions |-> FALSE]
  /\ pair = [k \in Connexions |-> FALSE]
  /\ flux = [k \in Connexions |-> <<>>]
  /\ clients = <<>>
  /\ mutex_clients = FALSE
  /\ proc = "libre"
  /\ iDiff = 0
  /\ File!Init

-----------------------------------------------------------------------------
(* DemarrerServeur, and the clients at the other end *)

Pris(n) == \E k \in Connexions : ouvert[k] /\ numero[k] = n

\* A client connects; accept gives its socket the lowest free number and a
\* thread is created for it.
Accepter(k) ==
  /\ fil[k] = "absent"
  /\ \E n \in Fds :
        /\ ~Pris(n)
        /\ \A m \in Fds : m < n => Pris(m)
        /\ numero' = [numero EXCEPT ![k] = n]
  /\ ouvert' = [ouvert EXCEPT ![k] = TRUE]
  /\ pair' = [pair EXCEPT ![k] = TRUE]
  /\ fil' = [fil EXCEPT ![k] = "arrive"]
  /\ UNCHANGED <<flux, clients, mutex_clients, proc, iDiff, file>>

\* The client closes its end: it has read an answer, or it has gone.
FermerPair(k) ==
  /\ pair[k]
  /\ pair' = [pair EXCEPT ![k] = FALSE]
  /\ UNCHANGED <<fil, numero, ouvert, flux, clients, mutex_clients, proc, iDiff, file>>

-----------------------------------------------------------------------------
(* ClientThread *)

\* Faulty variant: the size of the table is not checked.
AjouterSansBorne(k) ==
  /\ fil[k] = "arrive"
  /\ ~mutex_clients
  /\ clients' = Append(clients, numero[k])
  /\ fil' = [fil EXCEPT ![k] = "lecture"]
  /\ UNCHANGED <<sockets, flux, mutex_clients, proc, iDiff, file>>

\* Register the socket, if there is room; a client that finds none is served
\* all the same.
AjouterClient(k) ==
  /\ fil[k] = "arrive"
  /\ ~mutex_clients
  /\ clients' = IF Len(clients) < MAX_CLIENTS THEN Append(clients, numero[k])
                ELSE clients
  /\ fil' = [fil EXCEPT ![k] = "lecture"]
  /\ UNCHANGED <<sockets, flux, mutex_clients, proc, iDiff, file>>

\* Faulty variant: the socket is closed once its request is in the queue.
DeposerPuisFermer(k, g) ==
  /\ fil[k] = "lecture"
  /\ pair[k]
  /\ UNCHANGED proc
  /\ File!Deposer(k, g) \/ File!Deborder(k)
  /\ fil' = [fil EXCEPT ![k] = "fini"]
  /\ ouvert' = [ouvert EXCEPT ![k] = FALSE]
  /\ UNCHANGED <<numero, pair, flux, clients, mutex_clients, iDiff>>

\* read returns the request g: it is queued and the thread ends.  The socket
\* stays open, and in the table.
DeposerRequete(k, g) ==
  /\ fil[k] = "lecture"
  /\ pair[k]
  /\ UNCHANGED proc
  /\ File!Deposer(k, g) \/ File!Deborder(k)
  /\ fil' = [fil EXCEPT ![k] = "fini"]
  /\ UNCHANGED <<sockets, flux, clients, mutex_clients, iDiff>>

\* Faulty variant: the thread ends without SupprimerClient.
LireFinSansSupprimer(k) ==
  /\ fil[k] = "lecture"
  /\ ~pair[k]
  /\ ouvert' = [ouvert EXCEPT ![k] = FALSE]
  /\ fil' = [fil EXCEPT ![k] = "fini"]
  /\ UNCHANGED <<numero, pair, flux, clients, mutex_clients, proc, iDiff, file>>

\* read returns 0 or -1: the socket is closed, its entry not yet removed.
LireFin(k) ==
  /\ fil[k] = "lecture"
  /\ ~pair[k]
  /\ ouvert' = [ouvert EXCEPT ![k] = FALSE]
  /\ fil' = [fil EXCEPT ![k] = "ferme"]
  /\ UNCHANGED <<numero, pair, flux, clients, mutex_clients, proc, iDiff, file>>

\* Faulty variant: the table is shifted without its mutex.
SupprimerSansMutex(k) ==
  /\ fil[k] = "ferme"
  /\ clients' = RemoveFirst(clients, numero[k])
  /\ fil' = [fil EXCEPT ![k] = "fini"]
  /\ UNCHANGED <<sockets, flux, mutex_clients, proc, iDiff, file>>

\* Remove the first entry with the socket's number, by shifting the others;
\* the number may meanwhile belong to another client.
SupprimerClient(k) ==
  /\ fil[k] = "ferme"
  /\ ~mutex_clients
  /\ clients' = RemoveFirst(clients, numero[k])
  /\ fil' = [fil EXCEPT ![k] = "fini"]
  /\ UNCHANGED <<sockets, flux, mutex_clients, proc, iDiff, file>>

-----------------------------------------------------------------------------
(* ProcessusRequetes *)

Courante == servies[Len(servies)]
Demandeur == Courante.client_socket

\* write(n, x): it reaches the client whose socket now has this number, if
\* there is one and it has not gone.
Ecrire(n, x) ==
  flux' = [k \in Connexions |->
             IF ouvert[k] /\ numero[k] = n /\ pair[k] THEN Append(flux[k], x)
             ELSE flux[k]]

\* Such a write fails only if there is none, or it has gone.
PeutEchouer(n) == \A k \in Connexions : ouvert[k] /\ numero[k] = n => ~pair[k]

Item(type) == [type |-> type, de |-> Demandeur]

\* Faulty variant: the youngest request first.
PrendreDerniere ==
  /\ proc = "libre"
  /\ attente # <<>>
  /\ proc' = "traite"
  /\ servies' = Append(servies, attente[Len(attente)])
  /\ attente' = SubSeq(attente, 1, Len(attente) - 1)
  /\ recents' = 0
  /\ UNCHANGED <<fil, sockets, flux, clients, mutex_clients, iDiff,
                 rang, depots, debordements>>

\* Wait for a request and take the oldest one.
Prendre ==
  /\ proc = "libre"
  /\ proc' = "traite"
  /\ File!Servir
  /\ UNCHANGED <<fil, sockets, flux, clients, mutex_clients, iDiff>>

\* A MESSAGE: with the table locked, "0" is written to the sender ...
CommencerDiffusion ==
  /\ proc = "traite"
  /\ Courante.message = "MESSAGE"
  /\ ~mutex_clients
  /\ mutex_clients' = TRUE
  /\ Ecrire(numero[Demandeur], Item("reponse"))
  /\ proc' = "diffuse"
  /\ iDiff' = 1
  /\ UNCHANGED <<fil, sockets, clients, file>>

\* Faulty variant: the failure leaves with the table locked.
AbandonnerVerrouille ==
  /\ proc = "traite"
  /\ Courante.message = "MESSAGE"
  /\ ~mutex_clients
  /\ PeutEchouer(numero[Demandeur])
  /\ mutex_clients' = TRUE
  /\ proc' = "libre"
  /\ UNCHANGED <<fil, sockets, flux, clients, iDiff, file>>

\* ... and if that fails the message is dropped, nobody receives it.
AbandonnerDiffusion ==
  /\ proc = "traite"
  /\ Courante.message = "MESSAGE"
  /\ ~mutex_clients
  /\ PeutEchouer(numero[Demandeur])
  /\ proc' = "libre"
  /\ UNCHANGED <<fil, sockets, flux, clients, mutex_clients, iDiff, file>>

\* The message is written to one entry of the table after another, whether or
\* not the write fails.
Diffuser ==
  /\ proc = "diffuse"
  /\ iDiff <= Len(clients)
  /\ Ecrire(clients[iDiff], Item("message"))
  /\ iDiff' = iDiff + 1
  /\ UNCHANGED <<fil, sockets, clients, mutex_clients, proc, file>>

FinirDiffusion ==
  /\ proc = "diffuse"
  /\ iDiff > Len(clients)
  /\ mutex_clients' = FALSE
  /\ proc' = "libre"
  /\ iDiff' = 0
  /\ UNCHANGED <<fil, sockets, flux, clients, file>>

\* Faulty variant: only a list is written to the client, not an exit status.
RepondreListeSeule ==
  /\ proc = "traite"
  /\ Courante.message # "MESSAGE"
  /\ proc' = "libre"
  /\ File!Achever
  /\ IF Courante.message = "LISTE" THEN Ecrire(numero[Demandeur], Item("reponse"))
     ELSE UNCHANGED flux
  /\ UNCHANGED <<fil, sockets, clients, mutex_clients, iDiff>>

\* Any other request: Gestion_requete is run, its result is copied into the
\* queue's array as FileSequentielle says, and written to the client.
Repondre ==
  /\ proc = "traite"
  /\ Courante.message # "MESSAGE"
  /\ proc' = "libre"
  /\ File!Achever
  /\ Ecrire(numero[Demandeur], Item("reponse"))
  /\ UNCHANGED <<fil, sockets, clients, mutex_clients, iDiff>>

-----------------------------------------------------------------------------

ClientThread(k) ==
  \/ AjouterClient(k)
  \/ \E g \in Genres : k \notin Ecoutes /\ DeposerRequete(k, g)
  \/ LireFin(k)
  \/ SupprimerClient(k)

ProcessusRequetes ==
  \/ Prendre
  \/ CommencerDiffusion
  \/ AbandonnerDiffusion
  \/ Diffuser
  \/ FinirDiffusion
  \/ Repondre

Next ==
  \/ \E k \in Connexions : Accepter(k) \/ FermerPair(k) \/ ClientThread(k)
  \/ ProcessusRequetes

Spec == Init /\ [][Next]_vars

(***************************************************************************)
(* The threads that can run do run: a client thread gets the mutex when it *)
(* is free and sees the end of its connection, ProcessusRequetes goes      *)
(* round its loop.  No client is obliged to connect, to send or to leave.  *)
(***************************************************************************)
FairSpec ==
  /\ Spec
  /\ \A k \in Connexions :
        WF_vars(AjouterClient(k)) /\ WF_vars(LireFin(k)) /\ WF_vars(SupprimerClient(k))
  /\ WF_vars(ProcessusRequetes)

-----------------------------------------------------------------------------

Items == [type : {"reponse", "message"}, de : Connexions]

TypeOK ==
  /\ fil \in [Connexions -> {"absent", "arrive", "lecture", "ferme", "fini"}]
  /\ numero \in [Connexions -> Fds \cup {0}]
  /\ ouvert \in [Connexions -> BOOLEAN]
  /\ pair \in [Connexions -> BOOLEAN]
  /\ flux \in [Connexions -> Seq(Items)]
  /\ clients \in Seq(Fds)
  /\ Len(clients) <= MAX_CLIENTS
  /\ mutex_clients \in BOOLEAN
  /\ proc \in {"libre", "traite", "diffuse"}
  /\ iDiff \in 0..(MAX_CLIENTS + 1)
  /\ File!TypeOK

Recu(k, type, de) == \E i \in DOMAIN flux[k] : flux[k][i] = [type |-> type, de |-> de]

(***************************************************************************)
(* All clients see the broadcasts in the same order, that in which their   *)
(* requests entered the queue.                                             *)
(***************************************************************************)
OrdreTotal ==
  \A k \in Connexions : \A i, j \in DOMAIN flux[k] :
     i < j /\ flux[k][i].type = "message" /\ flux[k][j].type = "message"
       => rang[flux[k][i].de] <= rang[flux[k][j].de]

(***************************************************************************)
(* A broadcast skips nobody: each client whose entry is behind the loop    *)
(* index has received the message, although sockets are closed, numbers    *)
(* reused and threads wait to change the table during the loop.            *)
(***************************************************************************)
DiffusionComplete ==
  proc = "diffuse" =>
    \A k \in Connexions : \A j \in 1..(iDiff - 1) :
       (/\ clients[j] = numero[k]
        /\ ouvert[k] /\ pair[k]
        /\ fil[k] # "arrive") => Recu(k, "message", Demandeur)

(***************************************************************************)
(* A client receives at most one reply, and only to its own request: the   *)
(* server keeps a request's socket open, so its number cannot have been    *)
(* given to another client when the reply is written.                      *)
(***************************************************************************)
UneReponse ==
  \A k \in Connexions : \A i, j \in DOMAIN flux[k] :
     /\ flux[k][i].type = "reponse" => flux[k][i].de = k
     /\ flux[k][i].type = "reponse" /\ flux[k][j].type = "reponse" => i = j

(***************************************************************************)
(* No entry of the table outlives its socket for good: a number has at     *)
(* most as many entries as connections that hold it or whose thread is     *)
(* still to remove it.                                                     *)
(***************************************************************************)
EntreesVivantes ==
  \A n \in Fds :
     Cardinality({i \in DOMAIN clients : clients[i] = n})
       <= Cardinality({k \in Connexions :
                         numero[k] = n /\ (ouvert[k] \/ fil[k] = "ferme")})

(***************************************************************************)
(* The table is not locked for ever: a thread that wants to register its   *)
(* socket does so, also after a broadcast that failed half-way.            *)
(***************************************************************************)
InscriptionFinie ==
  \A k \in Connexions : fil[k] = "arrive" ~> fil[k] # "arrive"

Depose(k) == rang[k] > 0

(***************************************************************************)
(* A request in the queue is answered, unless its client goes or the queue *)
(* overflows: also when its text was overwritten, then with the answer to  *)
(* another text.                                                           *)
(***************************************************************************)
ReponseFinie ==
  \A k \in Connexions :
     Depose(k) ~> Recu(k, "reponse", k) \/ ~pair[k] \/ debordements > 0

(***************************************************************************)
(* Client_chat.c:369 "Réception de la réponse": what a client reads first  *)
(* after sending its request is the reply to it.  The code breaks it: the  *)
(* sockets that carry requests receive the broadcasts too.                 *)
(***************************************************************************)
ReponseAttendue ==
  \A k \in Connexions \ Ecoutes :
     flux[k] # <<>> /\ Depose(k) => Head(flux[k]).type = "reponse"

(***************************************************************************)
(* Communication.c:64 "Tableau pour stocker les informations des clients   *)
(* connectés": a client connected to listen is in the table once its       *)
(* thread waits for data.  The code breaks it: answered requests keep      *)
(* their entries, and a full table is not reported.                        *)
(***************************************************************************)
EcouteInscrite ==
  \A k \in Ecoutes :
     fil[k] = "lecture" /\ pair[k] =>
       \E i \in DOMAIN clients : clients[i] = numero[k]

=============================================================================
