---------------------------- MODULE GestionComptes ----------------------------
(***************************************************************************)
(* The account server (Gestion_comptes/GestionComptes.java): RMI runs each *)
(* call in a thread of its own, without any lock, on the file              *)
(* listeComptes.txt.  Several gateways may call, and a call goes on when   *)
(* its gateway has gone.                                                   *)
(*                                                                         *)
(* A file is a sequence of lines, all of one length.  What a call writes   *)
(* stays in its BufferedWriter until the file is closed, which for a       *)
(* deletion is after the file has taken the other one's name.              *)
(***************************************************************************)
EXTENDS Naturals, Sequences, FiniteSets, SequencesExt

CONSTANTS
  Appelants, Pseudos, Mdps, Aucun,  \* as in ICompte
  Fichiers                          \* the files that may exist, named or open

ASSUME GestionComptesAssumption ==
  /\ Aucun \notin [pseudo : Pseudos, mdp : Mdps] \cup Fichiers
  /\ IsFiniteSet(Pseudos)  \* the gateway's buffers have a size

Ids == [pseudo : Pseudos, mdp : Mdps]
Ops == {"creerCompte", "supprimerCompter", "connexion"}
Issues == {"vrai", "faux", "exception"}

VARIABLES
  nom,        \* the file of each of the two names, or Aucun
  contenu,    \* the lines of each file
  appel,      \* the call of each caller, and the step it has reached
  chevauche,  \* history: have two calls overlapped of which one deletes, or
              \* which create the same name?
  risque,     \* history: has a deletion overlapped another call, or been cut?
  acquis      \* history: the accounts that were there from the start or have been
              \* created, and whose deletion nobody has asked for since

disque == <<nom, contenu>>
histoire == <<chevauche, risque, acquis>>
vars == <<nom, contenu, appel, chevauche, risque, acquis>>

Libre == [op |-> "aucun", id |-> Aucun, etape |-> "libre", lu |-> Aucun,
          ecrit |-> Aucun, tampon |-> <<>>, issue |-> "attendue"]

Lignes(f) == IF f = Aucun THEN {} ELSE ToSet(contenu[f])
NomsUniques(s) == \A i, j \in DOMAIN s : s[i].pseudo = s[j].pseudo => i = j

\* A list of accounts that earlier runs have left.
Init ==
  /\ \E f \in Fichiers, s \in SeqOf(Ids, Cardinality(Pseudos)) :
        /\ NomsUniques(s)
        /\ nom = [listeComptes |-> f, tempFile |-> Aucun]
        /\ contenu = [g \in Fichiers |-> IF g = f THEN s ELSE <<>>]
        /\ acquis = ToSet(s)
  /\ appel = [a \in Appelants |-> Libre]
  /\ chevauche = FALSE
  /\ risque = FALSE

-----------------------------------------------------------------------------
(* Calls *)

EnCours(b) == appel[b].etape \notin {"libre", "rendre"}

\* A new call of op meets a deletion, or is one and meets another call.
Trouble(op) ==
  \E b \in Appelants : EnCours(b) /\ "supprimerCompter" \in {op, appel[b].op}

\* A new call creates the name that a call under way creates.
Doublon(op, id) ==
  \E b \in Appelants :
     /\ EnCours(b)
     /\ op = "creerCompte" /\ appel[b].op = op
     /\ appel[b].id.pseudo = id.pseudo

\* An RMI call arrives; each operation first looks for the account.
Appeler(a) ==
  /\ appel[a] = Libre
  /\ \E op \in Ops, id \in Ids :
        /\ appel' = [appel EXCEPT ![a].op = op, ![a].id = id, ![a].etape = "ouvrir"]
        /\ risque' = (risque \/ Trouble(op))
        /\ chevauche' = (chevauche \/ Trouble(op) \/ Doublon(op, id))
        /\ acquis' = IF op = "supprimerCompter" THEN acquis \ {id} ELSE acquis
  /\ UNCHANGED disque

A(a, etape) == appel[a].etape = etape
Passer(a, etape) == appel' = [appel EXCEPT ![a].etape = etape]
Ouvrir(a, champ, f, etape) == appel' = [appel EXCEPT ![a][champ] = f, ![a].etape = etape]

\* The result is known and every file of the call closed.
Finir(a, issue) ==
  appel' = [appel EXCEPT ![a] = [Libre EXCEPT !.op = appel[a].op, !.id = appel[a].id,
                                              !.etape = "rendre", !.issue = issue]]

\* The caller receives the result.
Rendre(a) ==
  /\ A(a, "rendre")
  /\ appel' = [appel EXCEPT ![a] = Libre]
  /\ UNCHANGED <<disque, histoire>>

\* new FileReader: without the file it throws, which the caller sees as a
\* RemoteException.
OuvrirListe(a, suite) ==
  /\ IF nom.listeComptes = Aucun THEN Finir(a, "exception")
     ELSE Ouvrir(a, "lu", nom.listeComptes, suite)
  /\ UNCHANGED <<disque, histoire>>

Chercher(a) == A(a, "ouvrir") /\ OuvrirListe(a, "lire")

Booleen(b) == IF b THEN "vrai" ELSE "faux"
Trouve(a) == appel[a].id \in Lignes(appel[a].lu)

-----------------------------------------------------------------------------
(* connexion, creerCompte *)

Connexion(a) ==
  /\ A(a, "lire") /\ appel[a].op = "connexion"
  /\ Finir(a, Booleen(Trouve(a)))
  /\ UNCHANGED <<disque, histoire>>

PseudoDejaUtilise(a) ==
  /\ A(a, "lire") /\ appel[a].op = "creerCompte"
  /\ IF \E id \in Lignes(appel[a].lu) : id.pseudo = appel[a].id.pseudo
     THEN Finir(a, "faux")
     ELSE Passer(a, "ajouter")
  /\ UNCHANGED <<disque, histoire>>

\* A file that is neither named nor open.
Neuf(f) ==
  /\ f \notin {nom.listeComptes, nom.tempFile}
  /\ \A b \in Appelants : f \notin {appel[b].lu, appel[b].ecrit}

Creer(n) ==
  \E f \in Fichiers :
     /\ Neuf(f)
     /\ nom' = [nom EXCEPT ![n] = f]
     /\ contenu' = [g \in Fichiers |-> IF g = f \/ Neuf(g) THEN <<>> ELSE contenu[g]]

\* new FileWriter(.., true) creates the file if it has gone since.
OuvrirAjout(a) ==
  /\ A(a, "ajouter")
  /\ IF nom.listeComptes = Aucun THEN Creer("listeComptes") ELSE UNCHANGED disque
  /\ Ouvrir(a, "ecrit", nom'.listeComptes, "vider")
  /\ UNCHANGED histoire

\* Faulty variant: the file is opened without append.
EcrireAuDebut(a) ==
  /\ A(a, "vider")
  /\ contenu' = [contenu EXCEPT ![appel[a].ecrit] = <<appel[a].id>>]
  /\ Finir(a, "vrai")
  /\ acquis' = acquis \cup {appel[a].id}
  /\ UNCHANGED <<nom, chevauche, risque>>

\* The writer is closed: its line goes to the end of the file.
Ajouter(a) ==
  /\ A(a, "vider")
  /\ contenu' = [contenu EXCEPT ![appel[a].ecrit] = Append(@, appel[a].id)]
  /\ Finir(a, "vrai")
  /\ acquis' = acquis \cup {appel[a].id}
  /\ UNCHANGED <<nom, chevauche, risque>>

-----------------------------------------------------------------------------
(* supprimerCompter *)

Verifier(a) ==
  /\ A(a, "lire") /\ appel[a].op = "supprimerCompter"
  /\ IF Trouve(a) THEN Passer(a, "relire") ELSE Finir(a, "faux")
  /\ UNCHANGED <<disque, histoire>>

Relire(a) == A(a, "relire") /\ OuvrirListe(a, "temporaire")

\* new FileWriter("./tempFile.txt") empties what another call has put there.
OuvrirTemporaire(a) ==
  /\ A(a, "temporaire")
  /\ IF nom.tempFile = Aucun THEN Creer("tempFile")
     ELSE contenu' = [contenu EXCEPT ![nom.tempFile] = <<>>] /\ UNCHANGED nom
  /\ Ouvrir(a, "ecrit", nom'.tempFile, "copier")
  /\ UNCHANGED histoire

\* Faulty variant: accounts with the same password are left out too.
CopierAutresMdps(a) ==
  /\ A(a, "copier")
  /\ appel' = [appel EXCEPT
       ![a].tampon = SelectSeq(contenu[appel[a].lu],
                               LAMBDA id : /\ id.pseudo # appel[a].id.pseudo
                                           /\ id.mdp # appel[a].id.mdp),
       ![a].etape = "effacer"]
  /\ UNCHANGED <<disque, histoire>>

\* What the loop copies of the lines s: all but those of the account.
Sauf(s, id) ==
  LET copie[i \in 0..Len(s)] ==
        IF i = 0 THEN <<>>
        ELSE IF s[i] = id THEN copie[i - 1] ELSE Append(copie[i - 1], s[i])
  IN copie[Len(s)]

Copier(a) ==
  /\ A(a, "copier")
  /\ appel' = [appel EXCEPT ![a].tampon = Sauf(contenu[appel[a].lu], appel[a].id),
                            ![a].etape = "effacer"]
  /\ UNCHANGED <<disque, histoire>>

\* delete(), whose result is not looked at.
Effacer(a) ==
  /\ A(a, "effacer")
  /\ nom' = [nom EXCEPT !.listeComptes = Aucun]
  /\ Passer(a, "renommer")
  /\ UNCHANGED <<contenu, histoire>>

\* Faulty variant: a hard link is made, and the temporary name kept.
RenommerEnGardant(a) ==
  /\ A(a, "renommer")
  /\ nom' = IF nom.tempFile = Aucun THEN nom
            ELSE [nom EXCEPT !.listeComptes = nom.tempFile]
  /\ Passer(a, "fermer")
  /\ UNCHANGED <<contenu, histoire>>

\* renameTo(), whose result is not looked at either: another call may have
\* renamed the temporary file before.
Renommer(a) ==
  /\ A(a, "renommer")
  /\ nom' = IF nom.tempFile = Aucun THEN nom
            ELSE [listeComptes |-> nom.tempFile, tempFile |-> Aucun]
  /\ Passer(a, "fermer")
  /\ UNCHANGED <<contenu, histoire>>

\* The end of the try block closes the writer: the buffer is written at the
\* start of the file, over what is there by then.
Fermer(a) ==
  LET t == appel[a].tampon
  IN /\ A(a, "fermer")
     /\ contenu' = [contenu EXCEPT ![appel[a].ecrit] = t \o SubSeq(@, Len(t) + 1, Len(@))]
     /\ Finir(a, "vrai")
     /\ UNCHANGED <<nom, histoire>>

-----------------------------------------------------------------------------

\* The process stops and is started again: calls and buffers are gone.
Panne ==
  /\ appel' = [a \in Appelants |-> Libre]
  /\ risque' = (risque \/ \E a \in Appelants : EnCours(a) /\ appel[a].op = "supprimerCompter")
  /\ UNCHANGED <<disque, chevauche, acquis>>

SupprimerCompter(a) ==
  \/ Verifier(a)
  \/ Relire(a)
  \/ OuvrirTemporaire(a)
  \/ Copier(a)
  \/ Effacer(a)
  \/ Renommer(a)
  \/ Fermer(a)

Next ==
  \/ \E a \in Appelants :
        \/ Appeler(a) \/ Chercher(a) \/ Connexion(a)
        \/ PseudoDejaUtilise(a) \/ OuvrirAjout(a) \/ Ajouter(a)
        \/ SupprimerCompter(a)
        \/ Rendre(a)
  \/ Panne

Spec == Init /\ [][Next]_vars

-----------------------------------------------------------------------------

Etapes == {"libre", "ouvrir", "lire", "ajouter", "vider", "relire", "temporaire",
           "copier", "effacer", "renommer", "fermer", "rendre"}

TypeOK ==
  /\ nom \in [{"listeComptes", "tempFile"} -> Fichiers \cup {Aucun}]
  /\ nom.listeComptes = nom.tempFile => nom.listeComptes = Aucun
  /\ contenu \in [Fichiers -> Seq(Ids)]
  /\ appel \in [Appelants ->
                 [op : Ops \cup {"aucun"}, id : Ids \cup {Aucun}, etape : Etapes,
                  lu : Fichiers \cup {Aucun}, ecrit : Fichiers \cup {Aucun},
                  tampon : Seq(Ids), issue : Issues \cup {"attendue"}]]
  /\ chevauche \in BOOLEAN
  /\ risque \in BOOLEAN
  /\ acquis \subseteq Ids

\* The list has been deleted and the buffer is not yet on the disk.
Remplace(a) == appel[a].etape \in {"renommer", "fermer"}

Comptes ==
  IF \E a \in Appelants : Remplace(a)
  THEN UNION {ToSet(appel[a].tampon) \cup {appel[a].id} : a \in {b \in Appelants : Remplace(b)}}
  ELSE Lignes(nom.listeComptes)

Promesse == INSTANCE ICompte WITH
  comptes <- Comptes,
  appel <- [a \in Appelants |-> [op |-> appel[a].op, id |-> appel[a].id,
                                 issue |-> appel[a].issue]]

(***************************************************************************)
(* Until two calls have overlapped that could disturb each other, the file *)
(* operations amount to what ICompte promises, crashes included: a crash   *)
(* of which no deletion is a victim loses nothing.                         *)
(***************************************************************************)
ImplementeICompte ==
  Promesse!Init /\ [][chevauche' \/ Promesse!Next]_(Promesse!vars)

(***************************************************************************)
(* An account that was created stays, unless its deletion is asked for:    *)
(* also when several are created at once and when the server crashes, as   *)
(* long as no deletion overlaps another call or is cut short.              *)
(***************************************************************************)
CreationsDurables ==
  ~risque /\ (\A a \in Appelants : ~Remplace(a)) => acquis \subseteq Lignes(nom.listeComptes)

(***************************************************************************)
(* README.md:118 "The accounts are saved in the `listeComptes.txt` file    *)
(* with a pseudonym and password.": what was reported created is there     *)
(* whenever no call is under way.  The code breaks it: a deletion of       *)
(* another account that crashes, or meets another call, loses them all.    *)
(***************************************************************************)
ComptesEnregistres ==
  (\A a \in Appelants : ~EnCours(a)) => acquis \subseteq Lignes(nom.listeComptes)

=============================================================================
