--------------------------- MODULE GestionRequete ----------------------------
(***************************************************************************)
(* The treatment of a request from end to end: the menu of a client        *)
(* (Client_chat.c), the server that runs Gestion_requete for one request   *)
(* after the other, the list of users in shared memory, and the gateway    *)
(* ClientRMI with the accounts behind it.                                  *)
(*                                                                         *)
(* The question is what a client believes (etat_co) against what the list  *)
(* and the accounts say, although Gestion_requete gives up after TIMEOUT,  *)
(* the gateway is slow or dead, a client is killed, a broadcast is read    *)
(* instead of a reply, and waiting requests are overwritten or lost.       *)
(*                                                                         *)
(* The queue of Communication is a sequence here; FileSequentielle says    *)
(* which waiting requests may be overwritten, here any of them may.  A     *)
(* treatment without the gateway is one step: arrivals during it are as    *)
(* well taken to have come before.                                         *)
(*                                                                         *)
(* A name or password is one word for the shell that starts                *)
(* Gestion_requete; a name is no exit status, and no operation that goes   *)
(* to the gateway: the list of users, copied over a request, is none.      *)
(***************************************************************************)
EXTENDS Naturals, Sequences, FiniteSets, SequencesExt

CONSTANTS
  Clients,           \* the runs of Client_chat: started again, it is another one
  Inscrits,          \* those for whose request sockets the server's table has room
  Personne,          \* stands for a client that does not read its reply
  Pseudos, Mdps,     \* names and non-empty passwords
  Vide,              \* the empty password
  Sortie,            \* the name SORTIE that a client without account quits with
  AvecQuitter,       \* the names and passwords that contain the word QUITTER,
  AvecListe,         \* LISTEUTILISATEUR,
  AvecMessage,       \* or MESSAGE,
  Maladroits,        \* and the clients whose users type one of these
  MAX_UTILISATEURS,  \* size of the list of users (100 in the code)
  MAX_CLIENTS,       \* size of the queue (10 in the code)
  MaxDatagrammes     \* what the gateway's UDP socket can hold

ASSUME GestionRequeteAssumption ==
  /\ Inscrits \subseteq Clients /\ Maladroits \subseteq Clients
  /\ Personne \notin Clients
  /\ Vide \notin Mdps
  /\ Sortie \notin Pseudos
  /\ AvecQuitter \cup AvecListe \cup AvecMessage \subseteq Pseudos \cup Mdps
  /\ {MAX_UTILISATEURS, MAX_CLIENTS, MaxDatagrammes} \subseteq Nat \ {0}

Ids == [pseudo : Pseudos, mdp : Mdps \cup {Vide}]
Anonyme == [pseudo |-> Sortie, mdp |-> Vide]
AvecUnMot(id) == {id.pseudo, id.mdp} \cap (AvecQuitter \cup AvecListe \cup AvecMessage) # {}

OpsAnonymes == {"CONNEXION", "CREERCOMPTE"}
OpsConnectees == {"LISTEUTILISATEUR", "MESSAGE", "DECONNEXION", "SUPPRIMERCOMPTE", "QUITTER"}
\* What a request's text is once another treatment was copied over it.
Ops == OpsAnonymes \cup OpsConnectees \cup {"ILLISIBLE"}

Requetes == [de : Clients \cup {Personne}, op : Ops, id : Ids \cup {Anonyme}]

\* The exit status of Gestion_requete: done, failed, timeout, list, not
\* implemented.
Codes == {"0", "1", "2", "3", "4"}

VARIABLES
  etat,          \* of each client: at its "menu", the operation whose reply it
                 \* awaits, or "arrete"
  etat_co,       \* does it believe that it is connected?
  ident,         \* the name and password it keeps
  reponse,       \* the reply in its socket
  diffuse,       \* the clients with a broadcast in their socket, before any reply
  file,          \* the waiting requests
  courant,       \* the request for which Gestion_requete awaits the gateway, if any
  utilisateurs,  \* the list of users in shared memory
  udp,           \* what the gateway has to read
  recu,          \* "attendu", or the answer that Gestion_requete has to read
  passerelle,    \* is the gateway alive?
  comptes,       \* the accounts
  crees,         \* history: the accounts that were ever created
  trompes,       \* history: names of which the list may have lost an entry: a
                 \* client took a broadcast for the reply to a request to leave,
                 \* or its first request was taken for one
  perdus         \* history: the clients whose request the queue has lost

client == <<etat, etat_co, ident>>
sockets == <<reponse, diffuse>>
rmi == <<udp, recu, passerelle, comptes, crees>>
histoires == <<trompes, perdus>>
vars == <<etat, etat_co, ident, reponse, diffuse, file, courant,
          utilisateurs, udp, recu, passerelle, comptes, crees, trompes, perdus>>

Init ==
  /\ etat = [c \in Clients |-> "menu"]
  /\ etat_co = [c \in Clients |-> FALSE]
  /\ ident = [c \in Clients |-> Anonyme]
  /\ reponse = [c \in Clients |-> "aucune"]
  /\ diffuse = {}
  /\ file = <<>>
  /\ courant = <<>>
  /\ utilisateurs = <<>>
  /\ udp = <<>>
  /\ recu = "aucun"
  /\ passerelle = TRUE
  /\ comptes = {}
  /\ crees = {}
  /\ trompes = {}
  /\ perdus = {}

-----------------------------------------------------------------------------
(* Client_chat *)

\* Nobody reads the replies to the requests of c any more.
Orphelines(q, c) ==
  [i \in DOMAIN q |-> IF q[i].de = c THEN [q[i] EXCEPT !.de = Personne] ELSE q[i]]

Abandonner(c) ==
  /\ file' = Orphelines(file, c)
  /\ courant' = Orphelines(courant, c)
  /\ reponse' = [reponse EXCEPT ![c] = "aucune"]
  /\ diffuse' = diffuse \ {c}
  /\ perdus' = perdus \ {c}

\* The process ends, with all it knew.
Terminer(c) ==
  /\ etat' = [etat EXCEPT ![c] = "arrete"]
  /\ etat_co' = [etat_co EXCEPT ![c] = FALSE]
  /\ ident' = [ident EXCEPT ![c] = Anonyme]

Requete(de, op, id) == [de |-> de, op |-> op, id |-> id]

\* ClientThread does not look whether there is room: the deposit of r that
\* fills the array makes it look empty.
Deposer(r) ==
  IF Len(file) + 1 < MAX_CLIENTS
  THEN file' = Append(file, r) /\ UNCHANGED perdus
  ELSE /\ file' = <<>>
       /\ perdus' = perdus \cup ({q.de : q \in ToSet(file) \cup {r}} \ {Personne})

EnvoyerRequete(c, op, id) ==
  /\ etat[c] = "menu"
  /\ etat' = [etat EXCEPT ![c] = op]
  /\ Deposer(Requete(c, op, id))

\* MenuPremiereConnexion: a name and a password are typed and kept.
MenuPremiereConnexion(c) ==
  /\ ~etat_co[c]
  /\ \E op \in OpsAnonymes, id \in Ids :
        /\ AvecUnMot(id) => c \in Maladroits
        /\ EnvoyerRequete(c, op, id)
        /\ ident' = [ident EXCEPT ![c] = id]
  /\ UNCHANGED <<etat_co, sockets, courant, utilisateurs, rmi, trompes>>

\* "Quitter" from that menu: QUITTER_SORTIE is sent, nothing is read.
QuitterSortie(c) ==
  /\ ~etat_co[c]
  /\ etat[c] = "menu"
  /\ Deposer(Requete(Personne, "QUITTER", Anonyme))
  /\ Terminer(c)
  /\ diffuse' = diffuse \ {c}
  /\ UNCHANGED <<reponse, courant, utilisateurs, rmi, trompes>>

\* MenuPrincipal: the request carries the name and password that were kept.
MenuPrincipal(c) ==
  /\ etat_co[c]
  /\ \E op \in OpsConnectees : EnvoyerRequete(c, op, ident[c])
  /\ UNCHANGED <<etat_co, ident, sockets, courant, utilisateurs, rmi, trompes>>

\* What a client that is not connected keeps is typed again before it is used.
RetourMenu(c, connecte) ==
  /\ etat' = [etat EXCEPT ![c] = "menu"]
  /\ etat_co' = [etat_co EXCEPT ![c] = connecte]
  /\ ident' = [ident EXCEPT ![c] = IF connecte THEN @ ELSE Anonyme]

\* TraiterReponse, of "0".
Succes(c) ==
  CASE etat[c] = "CONNEXION" -> RetourMenu(c, TRUE)
    [] etat[c] \in {"CREERCOMPTE", "DECONNEXION", "SUPPRIMERCOMPTE"} -> RetourMenu(c, FALSE)
    [] etat[c] = "QUITTER" -> Terminer(c)
    [] OTHER -> RetourMenu(c, etat_co[c])

\* TraiterReponse, of any other text.
Echec(c) == RetourMenu(c, etat_co[c])

\* RecevoirReponse reads the reply, TraiterReponse draws the conclusions, and
\* the socket is closed.
TraiterReponse(c) ==
  /\ etat[c] \in Ops
  /\ c \notin diffuse
  /\ reponse[c] # "aucune"
  /\ IF reponse[c] = "0" THEN Succes(c) ELSE Echec(c)
  /\ reponse' = [reponse EXCEPT ![c] = "aucune"]
  /\ UNCHANGED <<diffuse, file, courant, utilisateurs, rmi, histoires>>

\* RecevoirReponse reads a broadcast instead: no reply has this text, so it
\* is a failure, and the reply itself will find the socket closed.
LireDiffusion(c) ==
  /\ etat[c] \in Ops
  /\ c \in diffuse
  /\ Echec(c)
  /\ Abandonner(c)
  /\ trompes' = IF etat[c] \in {"DECONNEXION", "SUPPRIMERCOMPTE", "QUITTER"}
                THEN trompes \cup {ident[c].pseudo} ELSE trompes
  /\ UNCHANGED <<utilisateurs, rmi>>

\* Gestionnaire_sigint, or the end of the process for any other reason.
CtrlC(c) ==
  /\ etat[c] # "arrete"
  /\ Terminer(c)
  /\ Abandonner(c)
  /\ UNCHANGED <<utilisateurs, rmi, trompes>>

-----------------------------------------------------------------------------
(* Communication and Gestion_requete *)

\* strstr looks anywhere in the text.  That of a LISTEUTILISATEUR has no name.
Contient(r, mots) ==
  r.op # "LISTEUTILISATEUR" /\ {r.id.pseudo, r.id.mdp} \cap mots # {}

\* What is done for r: a broadcast for a text that begins with MESSAGE, else
\* the branch of Gestion_requete, whatever the operation is.
Branche(r) ==
  IF r.op \in {"MESSAGE", "ILLISIBLE", "QUITTER"} THEN r.op
  ELSE IF Contient(r, AvecQuitter) THEN "QUITTER"
  ELSE IF r.op = "LISTEUTILISATEUR" \/ Contient(r, AvecListe) THEN "LISTEUTILISATEUR"
  ELSE IF Contient(r, AvecMessage) THEN "NONIMPLEMENTE"
  ELSE r.op

\* The oldest request, if this is its branch and its turn has come.
ATraiter(branches) == courant = <<>> /\ file # <<>> /\ Branche(Head(file)) \in branches

Illisible(de) == Requete(de, "ILLISIBLE", Anonyme)

\* The treatment of r ends with q waiting: an exit status, or the list, is
\* written to its client, if it still reads its socket, and copied into the
\* queue, perhaps over a waiting request.
Repondre(r, q, code) ==
  /\ courant' = <<>>
  /\ reponse' = [c \in Clients |-> IF c = r.de THEN code ELSE reponse[c]]
  /\ file' \in {q} \cup {[q EXCEPT ![i] = Illisible(@.de)] : i \in DOMAIN q}

\* A MESSAGE is answered, then broadcast to the request sockets that are in
\* the server's table.  A client that has a reply to read reads that first.
Diffuser ==
  /\ ATraiter({"MESSAGE"})
  /\ file' = Tail(file)
  /\ reponse' = [c \in Clients |-> IF c = Head(file).de THEN "0" ELSE reponse[c]]
  /\ \E S \in SUBSET {c \in Inscrits : etat[c] # "arrete" /\ reponse'[c] = "aucune"} :
        diffuse' = diffuse \cup S
  /\ UNCHANGED <<client, courant, utilisateurs, rmi, histoires>>

\* The list is not changed.
Lister ==
  /\ ATraiter({"LISTEUTILISATEUR"})
  /\ Repondre(Head(file), Tail(file), "3")
  /\ UNCHANGED <<client, diffuse, utilisateurs, rmi, histoires>>

\* Somebody wants to connect or to create an account, with a name or password
\* in which the word QUITTER is found: the entry is not the one of a leaver.
PrisPourUnDepart(r) ==
  trompes' = IF r.op \in OpsAnonymes THEN trompes \cup {r.id.pseudo} ELSE trompes

\* The first entry with this name is removed; the status does not depend on it.
Quitter ==
  /\ ATraiter({"QUITTER"})
  /\ utilisateurs' = RemoveFirst(utilisateurs, Head(file).id.pseudo)
  /\ Repondre(Head(file), Tail(file), "0")
  /\ PrisPourUnDepart(Head(file))
  /\ UNCHANGED <<client, diffuse, rmi, perdus>>

NonImplementee ==
  /\ ATraiter({"NONIMPLEMENTE"})
  /\ Repondre(Head(file), Tail(file), "4")
  /\ UNCHANGED <<client, diffuse, utilisateurs, rmi, histoires>>

\* A request overwritten with an empty list leaves Gestion_requete without
\* its argument.
SansArgument ==
  /\ ATraiter({"ILLISIBLE"})
  /\ Repondre(Head(file), Tail(file), "1")
  /\ UNCHANGED <<client, diffuse, utilisateurs, rmi, histoires>>

OpsRMI == {"CONNEXION", "CREERCOMPTE", "DECONNEXION", "SUPPRIMERCOMPTE", "ILLISIBLE"}

\* EnvoyerMessage: a datagram is sent to the gateway, or is lost.
Envoyer(d) ==
  udp' = IF passerelle /\ Len(udp) < MaxDatagrammes THEN Append(udp, d) ELSE udp

Datagramme(r) == [op |-> r.op, id |-> r.id, vivant |-> TRUE]

\* Faulty variant: the user is removed before the gateway has answered.
DeconnecterPuisDemander ==
  /\ ATraiter(OpsRMI)
  /\ courant' = <<Head(file)>>
  /\ file' = Tail(file)
  /\ Envoyer(Datagramme(Head(file)))
  /\ recu' = "attendu"
  /\ utilisateurs' = IF ATraiter({"DECONNEXION"})
                     THEN RemoveFirst(utilisateurs, Head(file).id.pseudo)
                     ELSE utilisateurs
  /\ UNCHANGED <<client, sockets, passerelle, comptes, crees, histoires>>

\* Any other request is put to the gateway, whatever it is.
DemanderRMI ==
  /\ ATraiter(OpsRMI)
  /\ courant' = <<Head(file)>>
  /\ file' = Tail(file)
  /\ Envoyer(Datagramme(Head(file)))
  /\ recu' = "attendu"
  /\ UNCHANGED <<client, sockets, utilisateurs, passerelle, comptes, crees, histoires>>

EnCours(ops) == courant # <<>> /\ courant[1].op \in ops
Pseudo == courant[1].id.pseudo
Finir(code) == recu' = "aucun" /\ Repondre(courant[1], file, code)

\* Faulty variant: the size of the list is not checked.
AjouterSansBorne ==
  /\ utilisateurs' = Append(utilisateurs, Pseudo)
  /\ Finir("0")

AjouterUtilisateur ==
  IF Len(utilisateurs) < MAX_UTILISATEURS
  THEN /\ utilisateurs' = Append(utilisateurs, Pseudo)
       /\ Finir("0")
  ELSE /\ UNCHANGED utilisateurs
       /\ Finir("1")

SupprimerUtilisateur ==
  /\ utilisateurs' = RemoveFirst(utilisateurs, Pseudo)
  /\ Finir(IF Contains(utilisateurs, Pseudo) THEN "0" ELSE "1")

\* RecevoirReponse of Gestion_requete: recu is the operation that the gateway
\* reports as done, or "ERREUR".  Of a DECONNEXION it is not looked at.
RecevoirReponse ==
  /\ recu \notin {"aucun", "attendu"}
  /\ \/ EnCours({"CONNEXION"}) /\ recu = "CONNEXION" /\ AjouterUtilisateur
     \/ EnCours({"CREERCOMPTE"}) /\ recu = "CREERCOMPTE"
        /\ Finir("0") /\ UNCHANGED utilisateurs
     \/ EnCours({"DECONNEXION"}) /\ SupprimerUtilisateur
     \/ EnCours({"SUPPRIMERCOMPTE"}) /\ recu = "SUPPRIMERCOMPTE" /\ SupprimerUtilisateur
     \/ ~EnCours({"DECONNEXION", recu}) /\ Finir("1") /\ UNCHANGED utilisateurs
  /\ UNCHANGED <<client, diffuse, udp, passerelle, comptes, crees, histoires>>

Orphelins == [i \in DOMAIN udp |-> [udp[i] EXCEPT !.vivant = FALSE]]

\* Faulty variant: the alarm is set once the answer is there.
TimeoutApresReponse ==
  /\ recu \notin {"aucun", "attendu"}
  /\ Finir("2")
  /\ udp' = Orphelins
  /\ UNCHANGED <<client, diffuse, utilisateurs, passerelle, comptes, crees, histoires>>

\* Gestionnaire_timeout: TIMEOUT seconds after the request was sent, unless
\* the answer was taken.  An answer to a process that has ended is dropped.
Gestionnaire_timeout ==
  /\ recu # "aucun"
  /\ Finir("2")
  /\ udp' = Orphelins
  /\ UNCHANGED <<client, diffuse, utilisateurs, passerelle, comptes, crees, histoires>>

-----------------------------------------------------------------------------
(* ClientRMI and GestionComptes *)

D == Head(udp)

\* Faulty variant: an answer reaches whoever waits for one.
EnvoyerATous(r) ==
  /\ udp' = Tail(udp)
  /\ recu' = IF recu = "attendu" THEN r ELSE recu

\* The answer reaches the process that sent the datagram, if it still waits:
\* the kernel chose its port, and does not choose it again at once.
EnvoyerReponse(r) ==
  /\ udp' = Tail(udp)
  /\ recu' = IF D.vivant THEN r ELSE recu

CreerCompte ==
  /\ D.op = "CREERCOMPTE"
  /\ \A id \in comptes : id.pseudo # D.id.pseudo
  /\ comptes' = comptes \cup {D.id}
  /\ crees' = crees \cup {D.id}
  /\ EnvoyerReponse("CREERCOMPTE") \/ EnvoyerReponse("ERREUR")

SupprimerCompter ==
  /\ D.op = "SUPPRIMERCOMPTE"
  /\ D.id \in comptes
  /\ comptes' = comptes \ {D.id}
  /\ EnvoyerReponse("SUPPRIMERCOMPTE") \/ EnvoyerReponse("ERREUR")
  /\ UNCHANGED crees

Connexion ==
  /\ D.op = "CONNEXION"
  /\ D.id \in comptes
  /\ EnvoyerReponse("CONNEXION")
  /\ UNCHANGED <<comptes, crees>>

\* ..._INVALIDE, an unknown request, or a RemoteException before anything was
\* done; one after it was done is the second disjunct of the actions above.
Refuser ==
  /\ EnvoyerReponse("ERREUR")
  /\ UNCHANGED <<comptes, crees>>

OpsComptes == {"CONNEXION", "CREERCOMPTE", "SUPPRIMERCOMPTE"}
SansMotDePasse == D.op \in OpsComptes /\ D.id.mdp = Vide

\* One round of the gateway's loop.
ServirComptes ==
  /\ udp # <<>>
  /\ ~SansMotDePasse
  /\ CreerCompte \/ SupprimerCompter \/ Connexion \/ Refuser
  /\ UNCHANGED <<client, sockets, file, courant, utilisateurs, passerelle, histoires>>

\* Without a password parts[2] does not exist: the exception, which is no
\* RemoteException, ends the gateway.
FinPasserelle ==
  /\ udp # <<>>
  /\ SansMotDePasse
  /\ passerelle' = FALSE
  /\ udp' = <<>>
  /\ UNCHANGED <<client, sockets, file, courant, utilisateurs, recu, comptes, crees, histoires>>

-----------------------------------------------------------------------------

Client(c) ==
  \/ MenuPremiereConnexion(c)
  \/ QuitterSortie(c)
  \/ MenuPrincipal(c)
  \/ TraiterReponse(c)
  \/ LireDiffusion(c)
  \/ CtrlC(c)

ProcessusRequetes ==
  \/ Diffuser
  \/ Lister
  \/ Quitter
  \/ NonImplementee
  \/ SansArgument
  \/ DemanderRMI
  \/ RecevoirReponse

Passerelle == ServirComptes \/ FinPasserelle

Next ==
  \/ \E c \in Clients : Client(c)
  \/ ProcessusRequetes
  \/ Gestionnaire_timeout
  \/ Passerelle

Spec == Init /\ [][Next]_vars

(***************************************************************************)
(* ProcessusRequetes goes round its loop, the alarm rings, and a client    *)
(* treats what it can read.  Nothing is assumed of the gateway: it may be  *)
(* slow for ever.  No user is obliged to do anything.                      *)
(***************************************************************************)
FairSpec ==
  /\ Spec
  /\ WF_vars(ProcessusRequetes)
  /\ WF_vars(Gestionnaire_timeout)
  /\ \A c \in Clients : WF_vars(TraiterReponse(c) \/ LireDiffusion(c))

-----------------------------------------------------------------------------

Entrees(p) == {i \in DOMAIN utilisateurs : utilisateurs[i] = p}

\* The clients that believe to be connected as p, and have not been told
\* otherwise by a reply that they have yet to read.
Croyants(p) ==
  {c \in Clients :
     /\ etat_co[c] /\ ident[c].pseudo = p
     /\ ~(etat[c] \in {"DECONNEXION", "SUPPRIMERCOMPTE", "QUITTER"} /\ reponse[c] = "0")}

TypeOK ==
  /\ etat \in [Clients -> {"arrete", "menu"} \cup Ops]
  /\ etat_co \in [Clients -> BOOLEAN]
  /\ ident \in [Clients -> Ids \cup {Anonyme}]
  /\ reponse \in [Clients -> Codes \cup {"aucune"}]
  /\ diffuse \subseteq Clients
  /\ file \in Seq(Requetes) /\ Len(file) < MAX_CLIENTS
  /\ courant \in Seq(Requetes) /\ Len(courant) = IF recu = "aucun" THEN 0 ELSE 1
  /\ utilisateurs \in Seq(Pseudos) /\ Len(utilisateurs) <= MAX_UTILISATEURS
  /\ udp \in Seq([op : OpsRMI, id : Ids \cup {Anonyme}, vivant : BOOLEAN])
  /\ Len(udp) <= MaxDatagrammes
  /\ recu \in {"aucun", "attendu", "ERREUR"} \cup OpsComptes
  /\ passerelle \in BOOLEAN
  /\ comptes \subseteq crees /\ crees \subseteq Ids
  /\ trompes \subseteq Pseudos
  /\ perdus \subseteq Clients

(***************************************************************************)
(* Whoever believes to be connected is in the list of users, once for each *)
(* of them: also if the gateway never answers, or too late, if it is dead, *)
(* if another client of the same name leaves, or if requests were          *)
(* overwritten or lost.  Excluded are the names of clients that took a     *)
(* broadcast for the reply to a request to leave, and names with which     *)
(* somebody has tried to connect whose name or password contains QUITTER   *)
(* (Gestion_requete.c:235): he believes to be connected and is not listed, *)
(* and who was there under that name may be listed no more.                *)
(***************************************************************************)
CroyantsListes ==
  \A p \in Pseudos \ trompes : Cardinality(Croyants(p)) <= Cardinality(Entrees(p))

AvecLeMotQuitter(id) == {id.pseudo, id.mdp} \cap AvecQuitter # {}
Admis(id) == id \in crees \/ (id \in Ids /\ AvecLeMotQuitter(id))

(***************************************************************************)
(* Nobody is connected without an account's name and password: neither a   *)
(* late answer, meant for a request that timed out, nor an answer of a     *)
(* request that was overwritten is taken for a success.  The only way to   *)
(* succeed without is a name or password that contains the word QUITTER    *)
(* (Gestion_requete.c:235); those that contain another word fail.          *)
(***************************************************************************)
SuccesVrai ==
  \A c \in Clients :
     etat_co[c] \/ (etat[c] \in OpsAnonymes /\ reponse[c] = "0") => Admis(ident[c])

(***************************************************************************)
(* Nobody waits for a reply for ever: it comes, or something that is taken *)
(* for one, even if the gateway is dead, unless the request was lost when  *)
(* the queue was full.                                                     *)
(***************************************************************************)
ReponseFinie ==
  \A c \in Clients : []<>(etat[c] \notin Ops \/ c \in perdus)

\* p is listed, yet nobody is connected as p or waits for it.
Fantome(p) ==
  /\ Entrees(p) # {}
  /\ \A c \in Clients : ident[c].pseudo # p

(***************************************************************************)
(* README.md:32 "Management of connections and disconnections, with        *)
(* real-time updates of the active user list.": the name of a user who is  *)
(* gone leaves the list.  The code breaks it: a client stopped with Ctrl+C *)
(* stays listed.                                                           *)
(***************************************************************************)
FantomesRetires == \A p \in Pseudos : Fantome(p) ~> ~Fantome(p)

=============================================================================
