------------------------------ MODULE ClientChat ------------------------------
(***************************************************************************)
(* One client (Client/Client_chat.c): ThreadPrincipal treats replies and   *)
(* opens and closes the chat, ThreadEcoute passes broadcasts on to a file, *)
(* the "tube", which an Afficheur_message, one per connection of the user, *)
(* reads again and again (Client/Afficheur_message.c).                     *)
(*                                                                         *)
(* The threads share openChat, pipe_fd and the position of strtok, all     *)
(* without a lock.  What is sent to the server and when it replies is the  *)
(* matter of GestionRequete; here a reply may come at any time.            *)
(*                                                                         *)
(* Broadcasts are numbered, hence distinct, and their texts have no "_".   *)
(* The server sends them without a terminator (Communication.c:207).       *)
(* A file is a sequence of texts, each at most what the reader's buffer    *)
(* holds.                                                                  *)
(***************************************************************************)
EXTENDS Naturals, Sequences, SequencesExt

CONSTANTS
  MaxSessions,   \* bound: how often the user connects
  MaxDiffusions  \* bound: broadcasts

ASSUME ClientChatAssumption == {MaxSessions, MaxDiffusions} \subseteq Nat

Sessions == 1..MaxSessions
Message(n) == <<"message", n>>
Colle(n) == <<"colle", n>>  \* message n, and the first word of the next broadcast
Diffusion(n) == {Message(n), Colle(n)}
Nom(i) == <<"nom", i>>  \* an entry of the list of users
Mot == <<"mot", 0>>     \* a part of a request, or of a reply that is no list
Exit == <<"exit", 0>>
Trou == <<"trou", 0>>   \* bytes that nobody has written
Nul == <<"nul", 0>>     \* a NULL pointer
Textes == (UNION {Diffusion(n) : n \in 1..MaxDiffusions})
            \cup {Nom(1), Nom(2), Mot, Exit, Trou, Nul}

OpsAnonymes == {"CONNEXION", "CREERCOMPTE"}
OpsConnectees == {"LISTEUTILISATEUR", "MESSAGE", "DECONNEXION", "SUPPRIMERCOMPTE", "QUITTER"}

\* What LISTEUTILISATEUR may be answered: the list, a code, or a broadcast that
\* is read in the place of the reply (Communication.c:207).
Listes == {<<Nom(1), Nom(2)>>, <<Mot>>, <<Mot, Mot>>}

VARIABLES
  etat,       \* of the process: "vivant", "fini", or how it died: "ebadf", "nul"
  serveur,    \* is the server there?
  etat_co, openChat,
  sessions,   \* how often the user has connected
  tube,       \* the file of pipe_fd, named by its session; 0 if it is closed
  pos,        \* the offset of pipe_fd
  nom,        \* the file of the name nom_tube, or 0
  fichiers,   \* the files' texts
  arrives,    \* how many broadcasts have come
  lus,        \* how many ThreadEcoute has read
  curseur,    \* what strtok(NULL) would still return
  ecoute,     \* ThreadEcoute: its step, the text strtok gave it, the rest
  principal,  \* ThreadPrincipal: the same, and will it exit then?
  reponse,    \* history: what is still to be shown of a reply to LISTEUTILISATEUR
  afficheurs, \* the readers: state, file and offset
  montres,    \* history: the messages that each reader has shown
  sautes,     \* history: messages and "exit" that each has read behind another text
  presses,    \* history: readers behind when their file was truncated
  croise      \* history: did strtok(s) come between two calls of the other thread?

chat == <<etat_co, openChat, sessions, tube, pos, nom>>
tuyau == <<tube, pos>>
reseau == <<serveur, arrives>>
strtok == <<curseur, croise>>
ecouteur == <<lus, ecoute>>
lecture == <<afficheurs, montres, sautes>>
affichage == <<reponse, lecture, presses>>
vars == <<etat, serveur, etat_co, openChat, sessions, tube, pos, nom, fichiers, arrives,
          lus, curseur, ecoute, principal, reponse, afficheurs, montres, sautes,
          presses, croise>>

AuDebut == [etape |-> "lire", mot |-> Nul, reste |-> <<>>]
AuMenu == [etape |-> "menu", mot |-> Nul, reste |-> <<>>, quitter |-> FALSE]

Init ==
  /\ etat = "vivant"
  /\ serveur = TRUE
  /\ etat_co = FALSE
  /\ openChat = FALSE
  /\ sessions = 0
  /\ tube = 0
  /\ pos = 0
  /\ nom = 0
  /\ fichiers = [k \in Sessions |-> <<>>]
  /\ arrives = 0
  /\ lus = 0
  /\ curseur = <<>>
  /\ ecoute = AuDebut
  /\ principal = AuMenu
  /\ reponse = <<>>
  /\ afficheurs = [k \in Sessions |-> [etape |-> "absent", fichier |-> 0, pos |-> 0]]
  /\ montres = [k \in Sessions |-> <<>>]
  /\ sautes = [k \in Sessions |-> {}]
  /\ presses = {}
  /\ croise = FALSE

P(etape) == etat = "vivant" /\ principal.etape = etape
E(etape) == etat = "vivant" /\ ecoute.etape = etape
PasserP(etape) == principal' = [principal EXCEPT !.etape = etape]
PasserE(etape) == ecoute' = [ecoute EXCEPT !.etape = etape]

-----------------------------------------------------------------------------
(* strtok and the file *)

\* Is the thread between strtok(s) and its last strtok(NULL)?
EcouteCoupe == ecoute.etape \in {"tester", "suite", "noter"}
PrincipalCoupe == principal.etape \in {"lister", "noter"}

\* strtok(s): s has been cut, its other parts remain.
Couper(reste) ==
  /\ curseur' = reste
  /\ croise' = (croise \/ PrincipalCoupe \/ EcouteCoupe)

\* strtok(NULL): first it reads the position ..
Premier(s) == IF s = <<>> THEN Nul ELSE Head(s)
Reste(s) == IF s = <<>> THEN <<>> ELSE Tail(s)

\* .. and then it moves it.
Noter(reste) == curseur' = reste

\* write at the offset, which ftruncate does not move.
Ecrire(texte) ==
  /\ fichiers' = [fichiers EXCEPT
       ![tube] = [i \in 1..(pos + 1) |->
                    IF i = pos + 1 THEN texte
                    ELSE IF i <= Len(@) THEN @[i] ELSE Trou]
                 \o SubSeq(@, pos + 2, Len(@))]
  /\ pos' = pos + 1

-----------------------------------------------------------------------------
(* ThreadEcoute *)

\* read takes what has come, perhaps several broadcasts, each glued to the next
\* one's first word; they are cut.
LireDiffusions ==
  /\ E("lire")
  /\ \E n \in (lus + 1)..arrives :
        /\ lus' = n
        /\ Couper([i \in 1..(n - lus) |-> IF lus + i = n THEN Message(n) ELSE Colle(lus + i)])
  /\ PasserE("tester")
  /\ UNCHANGED <<etat, reseau, chat, fichiers, principal, affichage>>

\* The server has gone: read and strtok return nothing.
LireFin ==
  /\ E("lire") /\ ~serveur /\ lus = arrives
  /\ Couper(<<>>)
  /\ PasserE("testerNul")
  /\ UNCHANGED <<etat, reseau, chat, fichiers, lus, principal, affichage>>

TesterOpenChat ==
  /\ \/ E("tester") /\ PasserE(IF openChat THEN "suite" ELSE "lire") /\ UNCHANGED etat
     \/ /\ E("testerNul")
        /\ IF openChat THEN etat' = "nul" /\ UNCHANGED ecoute  \* strstr(NULL)
           ELSE PasserE("lire") /\ UNCHANGED etat
  /\ UNCHANGED <<reseau, chat, fichiers, lus, strtok, principal, affichage>>

SuiteMessage ==
  /\ \/ /\ E("suite")
        /\ ecoute' = [etape |-> "noter", mot |-> Premier(curseur), reste |-> Reste(curseur)]
        /\ UNCHANGED curseur
     \/ /\ E("noter")
        /\ Noter(ecoute.reste)
        /\ ecoute' = [ecoute EXCEPT !.etape = "ecrire", !.reste = <<>>]
  /\ UNCHANGED <<etat, reseau, chat, fichiers, lus, principal, affichage, croise>>

\* Without a text strlen crashes, without a file write fails: exit.
EcrireTube ==
  /\ E("ecrire")
  /\ IF ecoute.mot = Nul \/ tube = 0
     THEN /\ etat' = IF ecoute.mot = Nul THEN "nul" ELSE "ebadf"
          /\ UNCHANGED <<fichiers, pos>>
     ELSE Ecrire(ecoute.mot) /\ UNCHANGED etat
  /\ ecoute' = [ecoute EXCEPT !.etape = "lire", !.mot = Nul]
  /\ UNCHANGED <<reseau, etat_co, openChat, sessions, tube, nom, lus, strtok,
                 principal, affichage>>

-----------------------------------------------------------------------------
(* ThreadPrincipal: replies *)

\* The other parts of a request, or none where no strtok(NULL) can ask for them.
ResteRequete(op) ==
  IF op = "LISTEUTILISATEUR" \/ ~EcouteCoupe THEN <<>> ELSE <<Mot, Mot>>

\* What a reply that is no failure leads to.
ApresReponse(op) ==
  IF op = "CONNEXION" THEN "creerTube"
  ELSE IF op = "LISTEUTILISATEUR" THEN "afficherListe"
  ELSE IF op \in {"DECONNEXION", "SUPPRIMERCOMPTE", "QUITTER"} THEN "exit"
  ELSE "menu"

\* The request is cut; what follows depends on the reply, which is empty if the
\* server has gone.  Only "2" and "4" are no list.
TraiterReponse ==
  /\ P("menu")
  /\ \E op \in IF etat_co THEN OpsConnectees ELSE OpsAnonymes :
     \E suite \in {"menu", ApresReponse(op)} :
        /\ suite \in {"creerTube", "exit"} => serveur
        /\ suite = "creerTube" => sessions < MaxSessions
        /\ Couper(ResteRequete(op))
        /\ principal' = [principal EXCEPT !.etape = suite,
                           !.quitter = suite = "exit" /\ op = "QUITTER"]
        /\ etat_co' = (suite = "creerTube" \/ (etat_co /\ suite # "exit"))
        /\ reponse' \in IF suite = "afficherListe" /\ serveur THEN Listes ELSE {<<>>}
  /\ UNCHANGED <<etat, reseau, openChat, sessions, tuyau, nom, fichiers, ecouteur,
                 lecture, presses>>

\* Faulty variant: the request is cut again after the list.
AfficherListePuisCouper ==
  /\ P("afficherListe")
  /\ Couper(<<>>)
  /\ reponse' = Reste(reponse)
  /\ PasserP(IF reponse = <<>> THEN "menu" ELSE "lister")
  /\ UNCHANGED <<etat, reseau, chat, fichiers, ecouteur, lecture, presses>>

AfficherListeNumerotee ==
  /\ P("afficherListe")
  /\ Couper(Reste(reponse))
  /\ reponse' = Reste(reponse)
  /\ PasserP(IF reponse = <<>> THEN "menu" ELSE "lister")
  /\ UNCHANGED <<etat, reseau, chat, fichiers, ecouteur, lecture, presses>>

\* The loop: strtok(NULL), until it returns NULL.
SuiteListe ==
  /\ \/ /\ P("lister")
        /\ principal' = [principal EXCEPT !.etape = "noter", !.mot = Premier(curseur),
                                         !.reste = Reste(curseur)]
        /\ UNCHANGED <<curseur, reponse>>
     \/ /\ P("noter")
        /\ Noter(principal.reste)
        /\ principal' = [principal EXCEPT !.mot = Nul, !.reste = <<>>,
                            !.etape = IF principal.mot = Nul THEN "menu" ELSE "lister"]
        /\ reponse' = IF principal.mot = Nul THEN <<>> ELSE Reste(reponse)
  /\ UNCHANGED <<etat, reseau, chat, fichiers, ecouteur, lecture, presses, croise>>

-----------------------------------------------------------------------------
(* ThreadPrincipal: LancerAfficheur and FermerAfficheur *)

\* fork; the parent goes on whatever becomes of the terminal.
Lancer(k) == afficheurs' = [afficheurs EXCEPT ![k].etape = "lance"]

\* Faulty variant: the reader is started before its file is there.
LancerPuisCreer ==
  /\ P("creerTube")
  /\ IF afficheurs[sessions + 1].etape = "absent"
     THEN Lancer(sessions + 1) /\ UNCHANGED <<sessions, nom, tuyau, principal>>
     ELSE /\ sessions' = sessions + 1
          /\ nom' = IF nom = 0 THEN sessions' ELSE nom
          /\ tube' = nom'
          /\ pos' = 0
          /\ PasserP("ouvrirChat")
          /\ UNCHANGED afficheurs
  /\ UNCHANGED <<etat, reseau, etat_co, openChat, fichiers, ecouteur, strtok, reponse,
                 montres, sautes, presses>>

\* open with O_CREAT, without O_TRUNC; fork.
CreerTube ==
  /\ P("creerTube")
  /\ sessions' = sessions + 1
  /\ nom' = IF nom = 0 THEN sessions' ELSE nom
  /\ tube' = nom'
  /\ pos' = 0
  /\ Lancer(sessions')
  /\ PasserP("ouvrirChat")
  /\ UNCHANGED <<etat, reseau, etat_co, openChat, fichiers, ecouteur, strtok, reponse,
                 montres, sautes, presses>>

OuvrirChat ==
  /\ P("ouvrirChat")
  /\ openChat' = TRUE
  /\ PasserP("menu")
  /\ UNCHANGED <<etat, reseau, etat_co, sessions, tuyau, nom, fichiers, ecouteur,
                 strtok, affichage>>

\* Faulty variant: with an end of line, as a message has.
EcrireExitEtLigne ==
  /\ P("exit")
  /\ Ecrire(Mot)
  /\ PasserP("tronquer")
  /\ UNCHANGED <<etat, reseau, etat_co, openChat, sessions, tube, nom, ecouteur,
                 strtok, affichage>>

EcrireExit ==
  /\ P("exit")
  /\ Ecrire(Exit)
  /\ PasserP("tronquer")
  /\ UNCHANGED <<etat, reseau, etat_co, openChat, sessions, tube, nom, ecouteur,
                 strtok, affichage>>

\* Has reader k read all that is in its file?
AJour(k) ==
  LET a == afficheurs[k]
  IN a.etape \in {"fini", "perdu"} \/ (a.etape = "lit" /\ a.pos >= Len(fichiers[a.fichier]))

\* Faulty variant: close in the wrong place.
TronquerEtFermer ==
  /\ P("tronquer")
  /\ fichiers' = [fichiers EXCEPT ![tube] = <<>>]
  /\ tube' = 0
  /\ PasserP("fermerChat")
  /\ UNCHANGED <<etat, reseau, etat_co, openChat, sessions, nom, pos, ecouteur,
                 strtok, affichage>>

\* After sleep(1), which gives the reader time, but no certainty.
Tronquer ==
  /\ P("tronquer")
  /\ fichiers' = [fichiers EXCEPT ![tube] = <<>>]
  /\ presses' = presses \cup {k \in Sessions : k = sessions /\ ~AJour(k)}
  /\ PasserP("fermerChat")
  /\ UNCHANGED <<etat, reseau, chat, ecouteur, strtok, reponse, lecture>>

FermerChat ==
  /\ P("fermerChat")
  /\ openChat' = FALSE
  /\ PasserP("fermerTube")
  /\ UNCHANGED <<etat, reseau, etat_co, sessions, tuyau, nom, fichiers, ecouteur,
                 strtok, affichage>>

\* Faulty variant: without close.
OublierClose ==
  /\ P("fermerTube")
  /\ PasserP("supprimerTube")
  /\ UNCHANGED <<etat, reseau, chat, fichiers, ecouteur, strtok, affichage>>

FermerTube ==
  /\ P("fermerTube")
  /\ tube' = 0
  /\ pos' = 0
  /\ PasserP("supprimerTube")
  /\ UNCHANGED <<etat, reseau, etat_co, openChat, sessions, nom, fichiers, ecouteur,
                 strtok, affichage>>

RevenirAuMenu ==
  /\ etat' = IF principal.quitter THEN "fini" ELSE etat
  /\ PasserP("menu")

\* Faulty variant: the file is not removed.
GarderTube ==
  /\ P("supprimerTube")
  /\ RevenirAuMenu
  /\ UNCHANGED <<reseau, chat, fichiers, ecouteur, strtok, affichage>>

SupprimerTube ==
  /\ P("supprimerTube")
  /\ nom' = 0
  /\ RevenirAuMenu
  /\ UNCHANGED <<reseau, etat_co, openChat, sessions, tuyau, fichiers, ecouteur,
                 strtok, affichage>>

\* "Quitter" before a connection, Ctrl+C, or no connection to the server: the
\* process and its descriptors are gone, file and reader stay.
Sortir ==
  /\ etat = "vivant"
  /\ etat' = "fini"
  /\ etat_co' = FALSE
  /\ openChat' = FALSE
  /\ tube' = 0
  /\ pos' = 0
  /\ curseur' = <<>>
  /\ ecoute' = AuDebut
  /\ principal' = AuMenu
  /\ reponse' = <<>>
  /\ UNCHANGED <<reseau, sessions, nom, fichiers, lus, lecture, presses, croise>>

-----------------------------------------------------------------------------
(* Afficheur_message *)

\* The terminal has started: the name is opened, whosever file it is by now.
OuvrirAfficheur(k) ==
  /\ afficheurs[k].etape = "lance"
  /\ afficheurs' = [afficheurs EXCEPT
       ![k].etape = IF nom = 0 THEN "fini" ELSE "lit", ![k].fichier = nom]
  /\ UNCHANGED <<etat, reseau, chat, fichiers, ecouteur, strtok, principal, reponse,
                 montres, sautes, presses>>

\* The terminal cannot be started (Client_chat.c:456), or its window is closed,
\* with what it has shown.
PerdreAfficheur(k) ==
  /\ k = tube /\ afficheurs[k].etape \in {"lance", "lit"}
  /\ afficheurs' = [afficheurs EXCEPT ![k] = [etape |-> "perdu", fichier |-> 0, pos |-> 0]]
  /\ montres' = [montres EXCEPT ![k] = <<>>]
  /\ sautes' = [sautes EXCEPT ![k] = {}]
  /\ UNCHANGED <<etat, reseau, chat, fichiers, ecouteur, strtok, principal, reponse,
                 presses>>

EstMessage(t) == t[1] \in {"message", "colle"}

\* Faulty variant: the end of the file ends the reader.
AfficherJusquaLaFin(k) ==
  LET a == afficheurs[k]
      f == fichiers[a.fichier]
  IN /\ a.etape = "lit"
     /\ afficheurs' = [afficheurs EXCEPT
          ![k].etape = IF a.pos < Len(f) THEN "lit" ELSE "fini", ![k].pos = Len(f)]
     /\ montres' = [montres EXCEPT ![k] = @ \o SelectSeq(SubSeq(f, a.pos + 1, Len(f)), EstMessage)]
     /\ UNCHANGED <<etat, reseau, chat, fichiers, ecouteur, strtok, principal,
                    reponse, sautes, presses>>

\* A read may return several texts: the first is shown, or is "exit".
Afficher(k) ==
  LET a == afficheurs[k]
      f == fichiers[a.fichier]
  IN /\ a.etape = "lit"
     /\ \E n \in (a.pos + 1)..Len(f) :
           /\ afficheurs' = [afficheurs EXCEPT
                ![k] = IF f[a.pos + 1] = Exit THEN [etape |-> "fini", fichier |-> 0, pos |-> 0]
                       ELSE [a EXCEPT !.pos = n]]
           /\ montres' = [montres EXCEPT ![k] = IF EstMessage(f[a.pos + 1])
                                                THEN Append(@, f[a.pos + 1]) ELSE @]
           /\ sautes' = [sautes EXCEPT ![k] = @ \cup {t \in {f[i] : i \in (a.pos + 2)..n} :
                                                      EstMessage(t) \/ t = Exit}]
     /\ UNCHANGED <<etat, reseau, chat, fichiers, ecouteur, strtok, principal,
                    reponse, presses>>

-----------------------------------------------------------------------------
(* The server *)

ServeurDiffuse ==
  /\ etat = "vivant" /\ serveur /\ arrives < MaxDiffusions
  /\ arrives' = arrives + 1
  /\ UNCHANGED <<etat, serveur, chat, fichiers, ecouteur, strtok, principal, affichage>>

ServeurArrete ==
  /\ etat = "vivant" /\ serveur
  /\ serveur' = FALSE
  /\ UNCHANGED <<etat, chat, fichiers, arrives, ecouteur, strtok, principal, affichage>>

ThreadEcoute ==
  \/ LireDiffusions
  \/ LireFin
  \/ TesterOpenChat
  \/ SuiteMessage
  \/ EcrireTube

FermerAfficheur ==
  \/ EcrireExit
  \/ Tronquer
  \/ FermerChat
  \/ FermerTube
  \/ SupprimerTube

ThreadPrincipal ==
  \/ TraiterReponse
  \/ AfficherListeNumerotee
  \/ SuiteListe
  \/ CreerTube
  \/ OuvrirChat
  \/ FermerAfficheur

Afficheur(k) == OuvrirAfficheur(k) \/ Afficher(k)

Next ==
  \/ ThreadEcoute
  \/ ThreadPrincipal
  \/ Sortir
  \/ \E k \in Sessions : Afficheur(k) \/ PerdreAfficheur(k)
  \/ ServeurDiffuse
  \/ ServeurArrete

Spec == Init /\ [][Next]_vars

\* As long as the listening thread or a reader can go on, one of them does; the
\* user need not choose anything, and no window need be closed.
FairSpec == Spec /\ WF_vars(ThreadEcoute \/ \E k \in Sessions : Afficheur(k))

-----------------------------------------------------------------------------

\* Types; the file that is open is the one that has the name.
TypeOK ==
  /\ etat \in {"vivant", "fini", "ebadf", "nul"}
  /\ {serveur, etat_co, openChat, croise} \subseteq BOOLEAN
  /\ {sessions, tube, nom} \subseteq 0..MaxSessions
  /\ tube \in {0, nom}
  /\ pos \in Nat
  /\ fichiers \in [Sessions -> Seq(Textes)]
  /\ arrives \in 0..MaxDiffusions
  /\ lus \in 0..arrives
  /\ curseur \in Seq(Textes)
  /\ ecoute \in [etape : {"lire", "tester", "testerNul", "suite", "noter", "ecrire"},
                 mot : Textes, reste : Seq(Textes)]
  /\ principal \in [etape : {"menu", "afficherListe", "lister", "noter", "creerTube",
                             "ouvrirChat", "exit", "tronquer", "fermerChat", "fermerTube",
                             "supprimerTube"},
                    mot : Textes, reste : Seq(Textes),
                    quitter : BOOLEAN]
  /\ reponse \in Seq(Textes)
  /\ afficheurs \in [Sessions -> [etape : {"absent", "lance", "lit", "fini", "perdu"},
                                  fichier : 0..MaxSessions, pos : Nat]]
  /\ montres \in [Sessions -> Seq(Textes)]
  /\ sautes \in [Sessions -> SUBSET Textes]
  /\ presses \subseteq Sessions

(***************************************************************************)
(* At every step of LancerAfficheur and FermerAfficheur, an open chat has  *)
(* an open file: ThreadEcoute can only fail to write (Client_chat.c:435)   *)
(* if the chat was closed since it looked.  And the menu shown goes with   *)
(* the chat.                                                               *)
(***************************************************************************)
ChatOuvert ==
  /\ openChat => tube # 0
  /\ principal.etape = "menu" => etat_co = openChat

(***************************************************************************)
(* While the user is connected the reader of this connection is there, or  *)
(* about to be, and on the file that is being written; unless its terminal *)
(* was never started or has been closed, which nobody notices.             *)
(***************************************************************************)
AfficheurOuvert ==
  openChat /\ etat_co =>
    \/ afficheurs[sessions].etape = "lance" /\ nom = tube
    \/ afficheurs[sessions].etape = "lit" /\ afficheurs[sessions].fichier = tube
    \/ afficheurs[sessions].etape = "perdu"

(***************************************************************************)
(* As long as the threads have not cut texts at the same time, the reader  *)
(* shows messages in the order of the broadcasts, none twice and none of   *)
(* an earlier connection after one of a later.                             *)
(***************************************************************************)
AffichageOrdonne ==
  ~croise =>
    \A k \in Sessions : \A i, j \in DOMAIN montres[k] :
      i < j => montres[k][i][2] < montres[k][j][2]

(***************************************************************************)
(* Apart from the position of strtok that the two threads share            *)
(* (Client_chat.c:390, :346), what is received is shown: all parts of the  *)
(* reply to LISTEUTILISATEUR, be it a list or not (:158), and into the     *)
(* file only broadcasts, their own words or the next one's first behind    *)
(* them.  And no NULL pointer ends the process while the server is there.  *)
(***************************************************************************)
SansCroisement ==
  ~croise =>
    /\ principal.etape = "noter" => principal.mot = Premier(reponse)
    /\ \A k \in Sessions :
         ToSet(fichiers[k]) \cap {Nom(1), Nom(2), Mot, Nul} = {}
    /\ etat = "nul" => ~serveur

(***************************************************************************)
(* "exit" ends the reader, if sleep(1) (Client_chat.c:464) was long enough *)
(* for it to read all, and if "exit" did not follow a message in the same  *)
(* read (Afficheur_message.c:26).                                          *)
(***************************************************************************)
ExitVu ==
  \A k \in 1..sessions :
    /\ etat = "vivant" /\ nom # k
    /\ k \notin presses /\ Exit \notin sautes[k]
    => afficheurs[k].etape \in {"fini", "perdu"}

(***************************************************************************)
(* A message that ThreadEcoute has accepted is shown, unless the user      *)
(* leaves or the window is closed before, or the reader finds it behind    *)
(* another text, or texts were cut at the same time.                       *)
(***************************************************************************)
Montre(n) == \E k \in Sessions : Diffusion(n) \cap (ToSet(montres[k]) \cup sautes[k]) # {}
SansFenetre == \E k \in Sessions : k = sessions /\ afficheurs[k].etape = "perdu"
MessageMontre ==
  \A n \in 1..MaxDiffusions :
    E("suite") /\ curseur # <<>> /\ Head(curseur) \in Diffusion(n)
      ~> Montre(n) \/ croise \/ SansFenetre \/ ~etat_co \/ etat # "vivant"

=============================================================================
