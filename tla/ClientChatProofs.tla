--------------------------- MODULE ClientChatProofs ---------------------------
(***************************************************************************)
(* Proofs about one client: for every number of connections of its user    *)
(* and of broadcasts.                                                      *)
(***************************************************************************)
EXTENDS ClientChat, SequenceTheorems, TLAPS

\* What may come out of strtok: no "exit" and no hole.
Coupes == (UNION {Diffusion(n) : n \in 1..MaxDiffusions}) \cup {Nom(1), Nom(2), Mot, Nul}

Morceaux ==
  /\ curseur \in Seq(Coupes)
  /\ ecoute.mot \in Coupes /\ ecoute.reste \in Seq(Coupes)
  /\ principal.reste \in Seq(Coupes)
  /\ reponse \in Seq(Coupes)

\* What ThreadPrincipal finds at each of its steps.  While a file is open it is
\* that of the present connection, and nothing is behind the offset.
Etapes ==
  /\ tube # 0 => tube = sessions /\ nom = sessions /\ Len(fichiers[tube]) <= pos
  /\ nom \in {0, sessions}
  /\ etat = "vivant" /\ tube = 0 /\ principal.etape # "supprimerTube" => nom = 0
  /\ etat_co <=> \/ principal.etape = "menu" /\ tube # 0
                 \/ principal.etape \in {"afficherListe", "lister", "noter",
                                         "creerTube", "ouvrirChat"}
  /\ openChat <=> \/ principal.etape = "menu" /\ tube # 0
                  \/ principal.etape \in {"afficherListe", "lister", "noter",
                                          "exit", "tronquer", "fermerChat"}
  /\ tube = 0 => principal.etape \in {"menu", "creerTube", "supprimerTube"}
  /\ principal.etape \in {"creerTube", "supprimerTube"} => tube = 0
  /\ principal.etape = "creerTube" => sessions < MaxSessions

\* Of connections to come there is no reader and no text yet; a reader that has
\* not opened its file is at its beginning.
LecteursAVenir ==
  \A k \in Sessions :
    /\ k > sessions => afficheurs[k].etape = "absent" /\ fichiers[k] = <<>>
    /\ afficheurs[k].etape \in {"absent", "lance"} => afficheurs[k].pos = 0

\* None is ahead of the offset, and an "exit" that a reader has passed was behind
\* another text.
LecteursOuverts ==
  \A k \in Sessions : afficheurs[k].etape = "lit" =>
    /\ afficheurs[k].fichier \in 1..sessions
    /\ afficheurs[k].fichier = tube => afficheurs[k].pos <= pos
    /\ \A i \in DOMAIN fichiers[afficheurs[k].fichier] :
          i <= afficheurs[k].pos /\ fichiers[afficheurs[k].fichier][i] = Exit
            => Exit \in sautes[k]

\* The reader of the present connection reads its file.
LecteurPresent ==
  tube # 0 =>
    /\ afficheurs[tube].etape # "absent"
    /\ afficheurs[tube].etape = "lit" => afficheurs[tube].fichier = tube
    /\ etat_co => /\ afficheurs[tube].etape # "fini"
                  /\ \A i \in DOMAIN fichiers[tube] : fichiers[tube][i] # Exit

Lecteurs == LecteursAVenir /\ LecteursOuverts /\ LecteurPresent

\* The end of a connection: "exit" is in the file until it is truncated, and
\* from then on the reader has ended, or one of the histories says why not.
Fins ==
  /\ principal.etape = "tronquer" => \E i \in DOMAIN fichiers[tube] : fichiers[tube][i] = Exit
  /\ etat = "vivant" /\ principal.etape \in {"fermerChat", "fermerTube", "supprimerTube"} =>
        /\ sessions \in Sessions
        /\ \/ sessions \in presses \/ Exit \in sautes[sessions]
           \/ afficheurs[sessions].etape \in {"fini", "perdu"}

\* What remains behind strtok's position is what is still to be shown ..
ListeEnCours ==
  /\ principal.etape = "lister" => curseur = reponse
  /\ principal.etape = "noter" =>
       principal.mot = Premier(reponse) /\ principal.reste = Reste(reponse)

\* .. and what ThreadEcoute passes on is a broadcast that it has read.
DiffusionEnCours ==
  /\ ecoute.etape \in {"tester", "suite"} =>
       curseur # <<>> /\ \E n \in 1..lus : curseur[1] \in Diffusion(n)
  /\ ecoute.etape \in {"noter", "ecrire"} => \E n \in 1..lus : ecoute.mot \in Diffusion(n)
  /\ ecoute.etape = "testerNul" => ~serveur

\* The position of strtok, as long as the threads have not met there.
Curseur ==
  ~croise =>
    /\ PrincipalCoupe => ~EcouteCoupe
    /\ ListeEnCours
    /\ DiffusionEnCours

\* The number of the broadcast that ThreadEcoute is to pass on, or of the next.
Prochain ==
  IF ecoute.etape \in {"tester", "suite"} THEN curseur[1][2]
  ELSE IF ecoute.etape \in {"noter", "ecrire"} THEN ecoute.mot[2]
  ELSE lus + 1

\* A file holds broadcasts in their order, all before the next one ..
FichiersOrdonnes ==
  /\ \A f \in Sessions : \A i \in DOMAIN fichiers[f] :
       EstMessage(fichiers[f][i]) => fichiers[f][i][2] < Prochain
  /\ \A f \in Sessions : \A i, j \in DOMAIN fichiers[f] :
       i < j /\ EstMessage(fichiers[f][i]) /\ EstMessage(fichiers[f][j])
         => fichiers[f][i][2] < fichiers[f][j][2]

\* .. and what a reader has shown is before that, and before what it has to read.
MontresAvant ==
  /\ \A k \in Sessions : \A i \in DOMAIN montres[k] : montres[k][i][2] < Prochain
  /\ \A k \in Sessions : afficheurs[k].etape = "lit" =>
       \A i \in DOMAIN montres[k], j \in DOMAIN fichiers[afficheurs[k].fichier] :
          j > afficheurs[k].pos /\ EstMessage(fichiers[afficheurs[k].fichier][j])
            => montres[k][i][2] < fichiers[afficheurs[k].fichier][j][2]

Ordres ==
  /\ \A k \in Sessions : afficheurs[k].etape \in {"absent", "lance"} => montres[k] = <<>>
  /\ \A k \in Sessions : \A i \in DOMAIN montres[k] : EstMessage(montres[k][i])
  /\ ~croise => FichiersOrdonnes /\ MontresAvant

\* The inductive invariant.
IInv ==
  /\ TypeOK
  /\ Morceaux
  /\ Etapes
  /\ Lecteurs
  /\ Fins
  /\ ExitVu
  /\ Curseur
  /\ SansCroisement
  /\ Ordres
  /\ AffichageOrdonne

-----------------------------------------------------------------------------
(* Lemmas about the operators of the module. *)

LEMMA SuiteDeTextes ==
  ASSUME NEW S, NEW a \in S, NEW b \in S, NEW n \in Nat, NEW f \in [1..n -> S]
  PROVE  <<a>> \in Seq(S) /\ <<a, b>> \in Seq(S) /\ f \in Seq(S) /\ Len(f) = n
OBVIOUS

LEMMA QuiEstTexte ==
  /\ \A t : t \in Coupes <=> \/ \E n \in 1..MaxDiffusions : t \in Diffusion(n)
                             \/ t \in {Nom(1), Nom(2), Mot, Nul}
  /\ \A t : t \in Textes <=> t \in Coupes \/ t \in {Exit, Trou}
<1> DEFINE U == UNION {Diffusion(n) : n \in 1..MaxDiffusions}
<1>1. \A t : t \in U <=> \E n \in 1..MaxDiffusions : t \in Diffusion(n)
  OBVIOUS
<1>2. \A t : t \in Coupes <=> t \in U \/ t \in {Nom(1), Nom(2), Mot, Nul}
  BY Zenon DEF Coupes
<1>3. \A t : t \in Textes <=> t \in U \/ t \in {Nom(1), Nom(2), Mot, Exit, Trou, Nul}
  BY Zenon DEF Textes
<1> HIDE DEF U
<1> QED
  BY <1>1, <1>2, <1>3

LEMMA CoupesSontTextes ==
  /\ \A c \in Coupes : c \in Textes
  /\ \A q \in Seq(Coupes) : q \in Seq(Textes)
  /\ Nul \in Coupes /\ \A n \in 1..MaxDiffusions : Message(n) \in Coupes /\ Colle(n) \in Coupes
  /\ Exit \in Textes /\ Exit \notin Coupes
  /\ <<>> \in Seq(Coupes) /\ <<Mot, Mot>> \in Seq(Coupes)
  /\ Listes \subseteq Seq(Coupes)
<1>1. Coupes \subseteq Textes
  BY QuiEstTexte
<1>2. Nul \in Coupes /\ Mot \in Coupes /\ Nom(1) \in Coupes /\ Nom(2) \in Coupes
  BY QuiEstTexte
<1>3. \A n \in 1..MaxDiffusions : Message(n) \in Coupes /\ Colle(n) \in Coupes
  BY QuiEstTexte DEF Diffusion
<1>4. Exit \in Textes
  BY QuiEstTexte
<1>5. Exit \notin Coupes
  <2>1. \A c \in Coupes : c[1] \in {"message", "colle", "nom", "mot", "nul"}
    BY QuiEstTexte DEF Diffusion, Message, Colle, Nom, Mot, Nul
  <2>2. Exit[1] = "exit"
    BY DEF Exit
  <2> QED
    BY <2>1, <2>2
<1>6. <<Mot, Mot>> \in Seq(Coupes) /\ Listes \subseteq Seq(Coupes)
  <2>1. ASSUME NEW a \in Coupes, NEW b \in Coupes
        PROVE  <<a>> \in Seq(Coupes) /\ <<a, b>> \in Seq(Coupes)
    OBVIOUS
  <2> QED
    BY <1>2, <2>1 DEF Listes
<1> QED
  BY <1>1, <1>2, <1>3, <1>4, <1>5, <1>6

(***************************************************************************)
(* What is read from the position of strtok is NULL or the next text; what *)
(* then remains are texts again.                                           *)
(***************************************************************************)
LEMMA PremierEtReste ==
  ASSUME NEW q \in Seq(Coupes)
  PROVE  /\ Premier(q) \in Coupes /\ Reste(q) \in Seq(Coupes)
         /\ q # <<>> => Premier(q) = q[1]
<1>1. Nul \in Coupes
  BY CoupesSontTextes
<1>2. CASE q = <<>>
  BY <1>1, <1>2 DEF Premier, Reste
<1>3. CASE q # <<>>
  BY <1>3 DEF Premier, Reste
<1> QED
  BY <1>2, <1>3

(***************************************************************************)
(* A write when nothing is behind the offset: the text becomes the last,   *)
(* and what was truncated in between reads as holes.                       *)
(***************************************************************************)
LEMMA EcrireEffet ==
  ASSUME tube \in Sessions, pos \in Nat, fichiers \in [Sessions -> Seq(Textes)],
         Len(fichiers[tube]) <= pos, NEW texte \in Textes, Ecrire(texte)
  PROVE  /\ fichiers' \in [Sessions -> Seq(Textes)]
         /\ pos' = pos + 1
         /\ \A k \in Sessions \ {tube} : fichiers'[k] = fichiers[k]
         /\ DOMAIN fichiers'[tube] = 1..(pos + 1) /\ Len(fichiers'[tube]) = pos + 1
         /\ fichiers'[tube][pos + 1] = texte
         /\ \A i \in 1..pos : fichiers'[tube][i] =
              IF i \in DOMAIN fichiers[tube] THEN fichiers[tube][i] ELSE Trou
<1> DEFINE f == fichiers[tube]
           g == [i \in 1..(pos + 1) |->
                   IF i = pos + 1 THEN texte
                   ELSE IF i <= Len(f) THEN f[i] ELSE Trou]
<1>1. f \in Seq(Textes) /\ Len(f) \in Nat /\ DOMAIN f = 1..Len(f) /\ Trou \in Textes
  BY QuiEstTexte
<1>2. g \in Seq(Textes) /\ Len(g) = pos + 1 /\ DOMAIN g = 1..(pos + 1)
  <2>1. \A i \in 1..(pos + 1) : g[i] \in Textes
    BY <1>1
  <2> HIDE DEF f
  <2>2. g \in [1..(pos + 1) -> Textes]
    BY <2>1
  <2> HIDE DEF g
  <2> QED
    BY <2>2
<1>3. SubSeq(f, pos + 2, Len(f)) = <<>>
  BY <1>1
<1>4. fichiers' = [fichiers EXCEPT ![tube] = g]
  <2>1. fichiers' = [fichiers EXCEPT ![tube] = g \o SubSeq(f, pos + 2, Len(f))]
    BY DEF Ecrire
  <2> HIDE DEF f, g
  <2>2. g \o <<>> = g
    BY <1>2, ConcatEmptySeq
  <2> QED
    BY <1>3, <2>1, <2>2
<1>5. fichiers'[tube] = g /\ pos' = pos + 1
  BY <1>4 DEF Ecrire
<1>6. g[pos + 1] = texte /\ \A i \in 1..pos : g[i] = IF i \in DOMAIN f THEN f[i] ELSE Trou
  BY <1>1
<1> HIDE DEF g
<1> QED
  BY <1>2, <1>4, <1>5, <1>6

-----------------------------------------------------------------------------
(* IInv is inductive: types first, then one lemma per part. *)

LEMMA InitIInv ==
  ASSUME Init
  PROVE  IInv
<1>1. /\ MaxSessions \in Nat /\ MaxDiffusions \in Nat
      /\ Nul \in Coupes /\ Nul \in Textes
  BY ClientChatAssumption, CoupesSontTextes
<1>2. TypeOK
  <2>1. ecoute \in [etape : {"lire", "tester", "testerNul", "suite", "noter", "ecrire"},
                    mot : Textes, reste : Seq(Textes)]
    BY <1>1 DEF Init, AuDebut
  <2>2. principal \in [etape : {"menu", "afficherListe", "lister", "noter", "creerTube",
                                "ouvrirChat", "exit", "tronquer", "fermerChat", "fermerTube",
                                "supprimerTube"},
                       mot : Textes, reste : Seq(Textes), quitter : BOOLEAN]
    BY <1>1 DEF Init, AuMenu
  <2>3. /\ fichiers \in [Sessions -> Seq(Textes)] /\ montres \in [Sessions -> Seq(Textes)]
        /\ sautes \in [Sessions -> SUBSET Textes]
        /\ afficheurs \in [Sessions -> [etape : {"absent", "lance", "lit", "fini", "perdu"},
                                        fichier : 0..MaxSessions, pos : Nat]]
    BY <1>1 DEF Init
  <2>4. {serveur, etat_co, openChat, croise} \subseteq BOOLEAN
    BY DEF Init
  <2>5. {sessions, tube, nom} \subseteq 0..MaxSessions /\ tube \in {0, nom} /\ pos \in Nat
    BY <1>1 DEF Init
  <2>6. arrives \in 0..MaxDiffusions /\ lus \in 0..arrives
    BY <1>1 DEF Init
  <2> QED
    BY <2>1, <2>2, <2>3, <2>4, <2>5, <2>6 DEF Init, TypeOK
<1>3. Morceaux
  BY <1>1 DEF Init, Morceaux, AuDebut, AuMenu
<1>4. Etapes /\ Fins /\ ExitVu
  BY DEF Init, Etapes, Fins, ExitVu, AuMenu
<1>5. Lecteurs
  BY DEF Init, Lecteurs, LecteursAVenir, LecteursOuverts, LecteurPresent
<1>6. Curseur
  BY DEF Init, Curseur, PrincipalCoupe, ListeEnCours, DiffusionEnCours, AuMenu, AuDebut
<1>7. SansCroisement
  <2>1. \A k \in Sessions : ToSet(fichiers[k]) = {}
    BY DEF Init, ToSet
  <2> QED
    BY <2>1 DEF Init, SansCroisement, AuMenu
<1>8. Ordres /\ AffichageOrdonne
  BY DEF Init, Ordres, FichiersOrdonnes, MontresAvant, AffichageOrdonne
<1> QED
  BY <1>2, <1>3, <1>4, <1>5, <1>6, <1>7, <1>8 DEF IInv

(***************************************************************************)
(* The steps of a client, one by one.                                      *)
(***************************************************************************)
LEMMA Pas ==
  ASSUME [Next]_vars
  PROVE  \/ LireDiffusions \/ LireFin \/ TesterOpenChat \/ SuiteMessage \/ EcrireTube
         \/ TraiterReponse \/ AfficherListeNumerotee \/ SuiteListe
         \/ CreerTube \/ OuvrirChat
         \/ EcrireExit \/ Tronquer \/ FermerChat \/ FermerTube \/ SupprimerTube
         \/ Sortir \/ ServeurDiffuse \/ ServeurArrete
         \/ \E k \in Sessions : OuvrirAfficheur(k) \/ Afficher(k) \/ PerdreAfficheur(k)
         \/ UNCHANGED vars
BY DEF Next, ThreadEcoute, ThreadPrincipal, FermerAfficheur, Afficheur

\* What the types say, one variable after the other.
EcouteType == [etape : {"lire", "tester", "testerNul", "suite", "noter", "ecrire"},
               mot : Textes, reste : Seq(Textes)]
PrincipalType == [etape : {"menu", "afficherListe", "lister", "noter", "creerTube",
                           "ouvrirChat", "exit", "tronquer", "fermerChat", "fermerTube",
                           "supprimerTube"},
                  mot : Textes, reste : Seq(Textes), quitter : BOOLEAN]
AfficheurType == [etape : {"absent", "lance", "lit", "fini", "perdu"},
                  fichier : 0..MaxSessions, pos : Nat]

TypeProcessus ==
  /\ etat \in {"vivant", "fini", "ebadf", "nul"}
  /\ etat_co \in BOOLEAN /\ openChat \in BOOLEAN
  /\ sessions \in 0..MaxSessions /\ tube \in 0..MaxSessions /\ nom \in 0..MaxSessions
  /\ tube \in {0, nom}
  /\ pos \in Nat
  /\ fichiers \in [Sessions -> Seq(Textes)]
  /\ presses \subseteq Sessions

TypeTextes ==
  /\ serveur \in BOOLEAN /\ croise \in BOOLEAN
  /\ arrives \in 0..MaxDiffusions /\ lus \in 0..arrives
  /\ curseur \in Seq(Textes)
  /\ ecoute \in EcouteType
  /\ principal \in PrincipalType
  /\ reponse \in Seq(Textes)

TypeLecteurs ==
  /\ afficheurs \in [Sessions -> AfficheurType]
  /\ montres \in [Sessions -> Seq(Textes)]
  /\ sautes \in [Sessions -> SUBSET Textes]

LEMMA TypesParGroupe == TypeOK <=> TypeProcessus /\ TypeTextes /\ TypeLecteurs
BY DEF TypeOK, TypeProcessus, TypeTextes, TypeLecteurs, EcouteType, PrincipalType,
       AfficheurType

LEMMA TypeProcessusStable ==
  ASSUME IInv, [Next]_vars
  PROVE  TypeProcessus'
<1> USE DEF IInv
<1>1. /\ MaxSessions \in Nat
      /\ TypeProcessus
  BY ClientChatAssumption, TypesParGroupe
<1>2. CASE \/ LireDiffusions \/ LireFin \/ TesterOpenChat \/ SuiteMessage
           \/ AfficherListeNumerotee \/ SuiteListe \/ ServeurDiffuse \/ ServeurArrete
           \/ UNCHANGED vars
  <2>1. UNCHANGED <<etat_co, openChat, sessions, tube, pos, nom, fichiers, presses>>
    BY <1>2 DEF LireDiffusions, LireFin, TesterOpenChat, SuiteMessage, AfficherListeNumerotee,
                SuiteListe, ServeurDiffuse, ServeurArrete, chat, affichage, vars
  <2>2. etat' \in {etat, "nul"}
    BY <1>2 DEF LireDiffusions, LireFin, TesterOpenChat, SuiteMessage, AfficherListeNumerotee,
                SuiteListe, ServeurDiffuse, ServeurArrete, vars
  <2> QED
    BY <1>1, <2>1, <2>2 DEF TypeProcessus
<1>3. CASE \E k \in Sessions : OuvrirAfficheur(k) \/ Afficher(k) \/ PerdreAfficheur(k)
  <2>1. UNCHANGED <<etat, etat_co, openChat, sessions, tube, pos, nom, fichiers, presses>>
    BY <1>3 DEF OuvrirAfficheur, Afficher, PerdreAfficheur, chat
  <2> QED
    BY <1>1, <2>1 DEF TypeProcessus
<1>4. CASE EcrireTube \/ EcrireExit
  <2>1. UNCHANGED <<etat_co, openChat, sessions, tube, nom, presses>>
    BY <1>4 DEF EcrireTube, EcrireExit, affichage
  <2>2. etat' \in {etat, "nul", "ebadf"}
    BY <1>4 DEF EcrireTube, EcrireExit
  <2>3. \/ UNCHANGED <<fichiers, pos>>
        \/ tube # 0 /\ \E texte \in Textes : Ecrire(texte)
    <3>1. ecoute.mot \in Textes /\ Exit \in Textes
      BY CoupesSontTextes DEF Morceaux
    <3> QED
      BY <1>4, <3>1 DEF EcrireTube, EcrireExit, P, Etapes
  <2>4. fichiers' \in [Sessions -> Seq(Textes)] /\ pos' \in Nat
    <3>1. tube # 0 => tube \in Sessions /\ Len(fichiers[tube]) <= pos
      BY <1>1 DEF TypeProcessus, Sessions, Etapes
    <3> QED
      BY <1>1, <2>3, <3>1, EcrireEffet DEF TypeProcessus
  <2> QED
    BY <1>1, <2>1, <2>2, <2>4 DEF TypeProcessus
<1>5. CASE TraiterReponse
  <2>1. UNCHANGED <<etat, openChat, sessions, tube, pos, nom, fichiers, presses>>
    BY <1>5 DEF TraiterReponse, tuyau
  <2>2. etat_co' \in BOOLEAN
    BY <1>1, <1>5 DEF TraiterReponse, TypeProcessus
  <2> QED
    BY <1>1, <2>1, <2>2 DEF TypeProcessus
<1>6. CASE CreerTube
  <2>1. UNCHANGED <<etat, etat_co, openChat, fichiers, presses>>
    BY <1>6 DEF CreerTube
  <2>2. sessions + 1 \in 0..MaxSessions
    BY <1>1, <1>6 DEF CreerTube, P, Etapes, TypeProcessus
  <2>3. sessions' \in 0..MaxSessions /\ nom' \in 0..MaxSessions /\ tube' = nom' /\ pos' = 0
    BY <1>1, <1>6, <2>2 DEF CreerTube, TypeProcessus
  <2> QED
    BY <1>1, <2>1, <2>3 DEF TypeProcessus
<1>7. CASE OuvrirChat \/ FermerChat
  <2>1. UNCHANGED <<etat, etat_co, sessions, tube, pos, nom, fichiers, presses>>
    BY <1>7 DEF OuvrirChat, FermerChat, tuyau, affichage
  <2>2. openChat' \in BOOLEAN
    BY <1>7 DEF OuvrirChat, FermerChat
  <2> QED
    BY <1>1, <2>1, <2>2 DEF TypeProcessus
<1>8. CASE Tronquer
  <2>1. UNCHANGED <<etat, etat_co, openChat, sessions, tube, pos, nom>>
    BY <1>8 DEF Tronquer, chat
  <2>2. fichiers' \in [Sessions -> Seq(Textes)]
    <3>1. fichiers' = [fichiers EXCEPT ![tube] = <<>>] /\ <<>> \in Seq(Textes)
      BY <1>8 DEF Tronquer
    <3>2. fichiers \in [Sessions -> Seq(Textes)]
      BY <1>1 DEF TypeProcessus
    <3> QED
      BY <3>1, <3>2
  <2>3. presses' \subseteq Sessions
    BY <1>1, <1>8 DEF Tronquer, TypeProcessus
  <2> QED
    BY <1>1, <2>1, <2>2, <2>3 DEF TypeProcessus
<1>9. CASE FermerTube \/ SupprimerTube
  <2>1. UNCHANGED <<etat_co, openChat, sessions, fichiers, presses>>
    BY <1>9 DEF FermerTube, SupprimerTube, affichage
  <2>2. etat' \in {etat, "fini"}
    BY <1>9 DEF FermerTube, SupprimerTube, RevenirAuMenu
  <2>3. \/ tube' = 0 /\ pos' = 0 /\ nom' = nom
        \/ tube' = tube /\ tube = 0 /\ pos' = pos /\ nom' = 0
    BY <1>9 DEF FermerTube, SupprimerTube, P, tuyau, Etapes
  <2> QED
    BY <1>1, <2>1, <2>2, <2>3 DEF TypeProcessus
<1>10. CASE Sortir
  <2>1. UNCHANGED <<sessions, nom, fichiers, presses>>
    BY <1>10 DEF Sortir
  <2>2. etat' = "fini" /\ tube' = 0 /\ pos' = 0
        /\ etat_co' \in BOOLEAN /\ openChat' \in BOOLEAN
    BY <1>10 DEF Sortir
  <2> QED
    BY <1>1, <2>1, <2>2 DEF TypeProcessus
<1> QED
  BY <1>2, <1>3, <1>4, <1>5, <1>6, <1>7, <1>8, <1>9, <1>10, Pas

LEMMA TypeTextesStable ==
  ASSUME IInv, [Next]_vars
  PROVE  TypeTextes' /\ Morceaux'
<1> USE DEF IInv
<1>1. /\ MaxDiffusions \in Nat
      /\ TypeTextes /\ Morceaux
  BY ClientChatAssumption, TypesParGroupe
<1>2. Nul \in Coupes /\ Nul \in Textes /\ <<>> \in Seq(Coupes) /\ <<>> \in Seq(Textes)
  BY CoupesSontTextes
<1>3. /\ Premier(curseur) \in Coupes /\ Reste(curseur) \in Seq(Coupes)
      /\ Premier(curseur) \in Textes /\ Reste(curseur) \in Seq(Textes)
      /\ Reste(reponse) \in Seq(Coupes)
  BY <1>1, PremierEtReste, CoupesSontTextes DEF Morceaux
<1>4. CASE \/ CreerTube \/ OuvrirChat \/ EcrireExit \/ Tronquer \/ FermerChat
           \/ FermerTube \/ SupprimerTube
  <2>1. UNCHANGED <<serveur, croise, arrives, lus, curseur, ecoute, reponse>>
    BY <1>4 DEF CreerTube, OuvrirChat, EcrireExit, Tronquer, FermerChat, FermerTube,
                SupprimerTube, reseau, ecouteur, strtok, affichage
  <2>2. PICK e \in {"ouvrirChat", "menu", "tronquer", "fermerChat", "fermerTube", "supprimerTube"} :
           principal' = [principal EXCEPT !.etape = e]
    BY <1>4 DEF CreerTube, OuvrirChat, EcrireExit, Tronquer, FermerChat, FermerTube,
                SupprimerTube, RevenirAuMenu, PasserP
  <2>3. principal' \in PrincipalType /\ principal'.reste = principal.reste
    BY <1>1, <2>2 DEF TypeTextes, PrincipalType
  <2> QED
    BY <1>1, <2>1, <2>3 DEF TypeTextes, Morceaux
<1>5. CASE \/ \E k \in Sessions : OuvrirAfficheur(k) \/ Afficher(k) \/ PerdreAfficheur(k)
           \/ ServeurDiffuse \/ ServeurArrete \/ UNCHANGED vars
  <2>1. UNCHANGED <<croise, lus, curseur, ecoute, principal, reponse>>
    BY <1>5 DEF OuvrirAfficheur, Afficher, PerdreAfficheur, ServeurDiffuse, ServeurArrete,
                ecouteur, strtok, affichage, vars
  <2>2. arrives' = arrives \/ (arrives' = arrives + 1 /\ arrives < MaxDiffusions)
    BY <1>5 DEF OuvrirAfficheur, Afficher, PerdreAfficheur, ServeurDiffuse, ServeurArrete, reseau, vars
  <2>3. arrives' \in 0..MaxDiffusions /\ lus \in 0..arrives'
    BY <1>1, <2>2 DEF TypeTextes
  <2>4. serveur' \in BOOLEAN
    BY <1>1, <1>5 DEF OuvrirAfficheur, Afficher, PerdreAfficheur, ServeurDiffuse, ServeurArrete,
                reseau, vars, TypeTextes
  <2> QED
    BY <1>1, <2>1, <2>3, <2>4 DEF TypeTextes, Morceaux
<1>6. CASE LireDiffusions \/ LireFin
  <2>1. UNCHANGED <<serveur, arrives, principal, reponse>> /\ croise' \in BOOLEAN
    BY <1>1, <1>6 DEF LireDiffusions, LireFin, reseau, affichage, Couper, EcouteCoupe,
                      PrincipalCoupe, TypeTextes
  <2>2. \E e \in {"tester", "testerNul"} : ecoute' = [ecoute EXCEPT !.etape = e]
    BY <1>6 DEF LireDiffusions, LireFin, PasserE
  <2>3. ecoute' \in EcouteType /\ ecoute'.mot = ecoute.mot /\ ecoute'.reste = ecoute.reste
    BY <1>1, <2>2 DEF TypeTextes, EcouteType
  <2>4. lus' \in 0..arrives /\ curseur' \in Seq(Coupes)
    <3>1. CASE LireFin
      BY <1>1, <1>2, <3>1 DEF LireFin, Couper, TypeTextes
    <3>2. CASE LireDiffusions
      <4>1. PICK n \in (lus + 1)..arrives :
               /\ lus' = n
               /\ curseur' = [i \in 1..(n - lus) |-> IF lus + i = n THEN Message(n)
                                                     ELSE Colle(lus + i)]
        BY <3>2 DEF LireDiffusions, Couper
      <4>2. lus \in Nat /\ arrives \in Nat /\ arrives <= MaxDiffusions /\ n - lus \in Nat
            /\ n \in 0..arrives
        BY <1>1, <4>1 DEF TypeTextes
      <4>3. \A i \in 1..(n - lus) : Message(n) \in Coupes /\ Colle(lus + i) \in Coupes
        BY <1>1, <4>2, CoupesSontTextes
      <4>4. curseur' \in [1..(n - lus) -> Coupes]
        BY <4>1, <4>3
      <4>5. curseur' \in Seq(Coupes)
        BY <1>2, <4>2, <4>4, SuiteDeTextes
      <4> QED
        BY <4>1, <4>2, <4>5
    <3> QED
      BY <1>6, <3>1, <3>2
  <2> QED
    BY <1>1, <2>1, <2>3, <2>4, CoupesSontTextes DEF TypeTextes, Morceaux
<1>7. CASE TesterOpenChat \/ SuiteMessage \/ EcrireTube
  <2>1. UNCHANGED <<serveur, arrives, croise, lus, principal, reponse>>
    BY <1>7 DEF TesterOpenChat, SuiteMessage, EcrireTube, reseau, strtok, affichage
  <2>2. \/ \E e \in {"lire", "suite"} : ecoute' = [ecoute EXCEPT !.etape = e]
        \/ ecoute' = [etape |-> "noter", mot |-> Premier(curseur), reste |-> Reste(curseur)]
        \/ ecoute' = [ecoute EXCEPT !.etape = "ecrire", !.reste = <<>>]
        \/ ecoute' = [ecoute EXCEPT !.etape = "lire", !.mot = Nul]
        \/ ecoute' = ecoute
    BY <1>7 DEF TesterOpenChat, SuiteMessage, EcrireTube, PasserE
  <2>3. ecoute' \in EcouteType /\ ecoute'.mot \in Coupes /\ ecoute'.reste \in Seq(Coupes)
    <3>1. ecoute \in EcouteType /\ ecoute.mot \in Coupes /\ ecoute.reste \in Seq(Coupes)
      BY <1>1 DEF TypeTextes, Morceaux
    <3>2. CASE \E e \in {"lire", "suite"} : ecoute' = [ecoute EXCEPT !.etape = e]
      BY <3>1, <3>2 DEF EcouteType
    <3>3. CASE ecoute' = [etape |-> "noter", mot |-> Premier(curseur), reste |-> Reste(curseur)]
      BY <1>3, <3>3 DEF EcouteType
    <3>4. CASE ecoute' = [ecoute EXCEPT !.etape = "ecrire", !.reste = <<>>]
      BY <1>2, <3>1, <3>4 DEF EcouteType
    <3>5. CASE ecoute' = [ecoute EXCEPT !.etape = "lire", !.mot = Nul]
      BY <1>2, <3>1, <3>5 DEF EcouteType
    <3> QED
      BY <2>2, <3>1, <3>2, <3>3, <3>4, <3>5
  <2>4. curseur' \in Seq(Coupes)
    <3>1. curseur' = curseur \/ curseur' = ecoute.reste
      BY <1>7 DEF TesterOpenChat, SuiteMessage, EcrireTube, strtok, Noter
    <3> QED
      BY <1>1, <3>1 DEF Morceaux
  <2> QED
    BY <1>1, <2>1, <2>3, <2>4, CoupesSontTextes DEF TypeTextes, Morceaux
<1>8. CASE TraiterReponse
  <2>1. UNCHANGED <<serveur, arrives, lus, ecoute>> /\ croise' \in BOOLEAN
    BY <1>1, <1>8 DEF TraiterReponse, reseau, ecouteur, Couper, EcouteCoupe, PrincipalCoupe,
                      TypeTextes
  <2>2. PICK e \in {"menu", "creerTube", "afficherListe", "exit"}, q \in BOOLEAN :
           principal' = [principal EXCEPT !.etape = e, !.quitter = q]
    BY <1>8 DEF TraiterReponse, ApresReponse
  <2>3. principal' \in PrincipalType /\ principal'.reste = principal.reste
    BY <1>1, <2>2 DEF TypeTextes, PrincipalType
  <2>4. curseur' = <<>> \/ curseur' = <<Mot, Mot>>
    BY <1>8 DEF TraiterReponse, Couper, ResteRequete
  <2>5. curseur' \in Seq(Coupes)
    BY <2>4, CoupesSontTextes
  <2>6. reponse' \in Seq(Coupes)
    <3>1. reponse' \in Listes \cup {<<>>}
      BY <1>8 DEF TraiterReponse
    <3> QED
      BY <3>1, CoupesSontTextes
  <2> QED
    BY <1>1, <1>2, <2>1, <2>3, <2>5, <2>6, CoupesSontTextes DEF TypeTextes, Morceaux
<1>9. CASE AfficherListeNumerotee \/ SuiteListe
  <2>1. UNCHANGED <<serveur, arrives, lus, ecoute>>
    BY <1>9 DEF AfficherListeNumerotee, SuiteListe, reseau, ecouteur
  <2>2. croise' \in BOOLEAN
    BY <1>1, <1>9 DEF AfficherListeNumerotee, SuiteListe, Couper, EcouteCoupe, PrincipalCoupe,
                      TypeTextes
  <2>3. \/ \E e \in {"lister", "menu"} : principal' = [principal EXCEPT !.etape = e]
        \/ principal' = [principal EXCEPT !.etape = "noter", !.mot = Premier(curseur),
                                         !.reste = Reste(curseur)]
        \/ \E e \in {"lister", "menu"} :
             principal' = [principal EXCEPT !.mot = Nul, !.reste = <<>>, !.etape = e]
    BY <1>9 DEF AfficherListeNumerotee, SuiteListe, PasserP
  <2>4. principal' \in PrincipalType /\ principal'.reste \in Seq(Coupes)
    BY <1>1, <1>2, <1>3, <2>3 DEF TypeTextes, PrincipalType, Morceaux
  <2>5. curseur' \in Seq(Coupes)
    <3>1. curseur' = curseur \/ curseur' = principal.reste \/ curseur' = Reste(reponse)
      BY <1>9 DEF AfficherListeNumerotee, SuiteListe, Couper, Noter
    <3> QED
      BY <1>1, <1>3, <3>1 DEF Morceaux
  <2>6. reponse' \in Seq(Coupes)
    <3>1. reponse' = reponse \/ reponse' = <<>> \/ reponse' = Reste(reponse)
      BY <1>9 DEF AfficherListeNumerotee, SuiteListe
    <3> QED
      BY <1>1, <1>2, <1>3, <3>1 DEF Morceaux
  <2> QED
    BY <1>1, <2>1, <2>2, <2>4, <2>5, <2>6, CoupesSontTextes DEF TypeTextes, Morceaux
<1>10. CASE Sortir
  <2>1. UNCHANGED <<serveur, arrives, croise, lus>>
    BY <1>10 DEF Sortir, reseau
  <2>2. curseur' = <<>> /\ ecoute' = AuDebut /\ principal' = AuMenu /\ reponse' = <<>>
    BY <1>10 DEF Sortir
  <2>3. /\ AuDebut \in EcouteType /\ AuDebut.mot \in Coupes /\ AuDebut.reste \in Seq(Coupes)
        /\ AuMenu \in PrincipalType /\ AuMenu.reste \in Seq(Coupes)
    BY <1>2 DEF AuDebut, AuMenu, EcouteType, PrincipalType
  <2> QED
    BY <1>1, <1>2, <2>1, <2>2, <2>3 DEF TypeTextes, Morceaux
<1> QED
  BY <1>4, <1>5, <1>6, <1>7, <1>8, <1>9, <1>10, Pas

(***************************************************************************)
(* A read by a reader: it goes from p to n in its file, ends if the first  *)
(* text is "exit", shows it if it is a message, and skips the others.      *)
(***************************************************************************)
LEMMA AfficherEffet ==
  ASSUME IInv, NEW k \in Sessions, Afficher(k)
  PROVE  \E f \in Sessions, p \in Nat, n \in Nat, S \in SUBSET Textes :
           /\ afficheurs[k].etape = "lit" /\ afficheurs[k].fichier = f /\ afficheurs[k].pos = p
           /\ p + 1 <= n /\ n <= Len(fichiers[f]) /\ p + 1 \in DOMAIN fichiers[f]
           /\ afficheurs' = [afficheurs EXCEPT ![k] =
                IF fichiers[f][p + 1] = Exit THEN [etape |-> "fini", fichier |-> 0, pos |-> 0]
                ELSE [etape |-> "lit", fichier |-> f, pos |-> n]]
           /\ montres' = [montres EXCEPT ![k] =
                IF EstMessage(fichiers[f][p + 1]) THEN Append(montres[k], fichiers[f][p + 1])
                ELSE montres[k]]
           /\ sautes' = [sautes EXCEPT ![k] = sautes[k] \cup S]
           /\ \A i \in (p + 2)..n : fichiers[f][i] = Exit => Exit \in S
<1> DEFINE f == afficheurs[k].fichier
           p == afficheurs[k].pos
<1>1. /\ fichiers \in [Sessions -> Seq(Textes)]
      /\ afficheurs \in [Sessions -> AfficheurType]
      /\ sautes \in [Sessions -> SUBSET Textes]
      /\ montres \in [Sessions -> Seq(Textes)]
  BY TypesParGroupe DEF IInv, TypeProcessus, TypeLecteurs
<1>2. afficheurs[k].etape = "lit"
  BY DEF Afficher
<1>3. f \in Sessions /\ p \in Nat /\ fichiers[f] \in Seq(Textes) /\ Len(fichiers[f]) \in Nat
      /\ afficheurs[k] = [etape |-> "lit", fichier |-> f, pos |-> p]
  <2>1. f \in 1..sessions /\ sessions \in 0..MaxSessions /\ MaxSessions \in Nat
    BY <1>2, ClientChatAssumption, TypesParGroupe
       DEF IInv, Lecteurs, LecteursOuverts, TypeProcessus
  <2>2. f \in Sessions
    BY <2>1 DEF Sessions
  <2> QED
    BY <1>1, <1>2, <2>2 DEF AfficheurType
<1>4. PICK n \in (p + 1)..Len(fichiers[f]) :
        /\ afficheurs' = [afficheurs EXCEPT
             ![k] = IF fichiers[f][p + 1] = Exit THEN [etape |-> "fini", fichier |-> 0, pos |-> 0]
                    ELSE [afficheurs[k] EXCEPT !.pos = n]]
        /\ montres' = [montres EXCEPT ![k] =
             IF EstMessage(fichiers[f][p + 1]) THEN Append(montres[k], fichiers[f][p + 1])
             ELSE montres[k]]
        /\ sautes' = [sautes EXCEPT ![k] = sautes[k] \cup
             {t \in {fichiers[f][i] : i \in (p + 2)..n} : EstMessage(t) \/ t = Exit}]
  BY <1>1 DEF Afficher
<1> DEFINE S == {t \in {fichiers[f][i] : i \in (p + 2)..n} : EstMessage(t) \/ t = Exit}
<1>5. S \in SUBSET Textes /\ \A i \in (p + 2)..n : fichiers[f][i] = Exit => Exit \in S
  <2> HIDE DEF f, p
  <2>1. ASSUME NEW i \in (p + 2)..n
        PROVE  fichiers[f][i] \in Textes
    <3>1. n \in Nat /\ n <= Len(fichiers[f]) /\ i \in 1..Len(fichiers[f])
      BY <1>3, <1>4
    <3> QED
      BY <1>3, <3>1
  <2> QED
    BY <2>1
<1>6. [afficheurs[k] EXCEPT !.pos = n] = [etape |-> "lit", fichier |-> f, pos |-> n]
  BY <1>3
<1>7. n \in Nat /\ p + 1 <= n /\ n <= Len(fichiers[f]) /\ p + 1 \in DOMAIN fichiers[f]
  BY <1>3, <1>4
<1> HIDE DEF S, f, p
<1>8. /\ afficheurs[k].fichier = f /\ afficheurs[k].pos = p
  BY DEF f, p
<1>9. /\ S \in SUBSET Textes
      /\ sautes' = [sautes EXCEPT ![k] = sautes[k] \cup S]
      /\ \A i \in (p + 2)..n : fichiers[f][i] = Exit => Exit \in S
  BY <1>4, <1>5 DEF S
<1>10. /\ afficheurs' = [afficheurs EXCEPT ![k] =
            IF fichiers[f][p + 1] = Exit THEN [etape |-> "fini", fichier |-> 0, pos |-> 0]
            ELSE [etape |-> "lit", fichier |-> f, pos |-> n]]
       /\ montres' = [montres EXCEPT ![k] =
            IF EstMessage(fichiers[f][p + 1]) THEN Append(montres[k], fichiers[f][p + 1])
            ELSE montres[k]]
  BY <1>4, <1>6
<1> QED
  BY <1>2, <1>3, <1>7, <1>8, <1>9, <1>10

LEMMA OuvrirEffet ==
  ASSUME TypeLecteurs, NEW k \in Sessions, OuvrirAfficheur(k)
  PROVE  /\ afficheurs[k].etape = "lance"
         /\ afficheurs' = [afficheurs EXCEPT ![k] =
              [etape |-> IF nom = 0 THEN "fini" ELSE "lit", fichier |-> nom,
               pos |-> afficheurs[k].pos]]
<1>1. afficheurs \in [Sessions -> AfficheurType]
  BY DEF TypeLecteurs
<1> DEFINE a == afficheurs[k]
<1>2. a \in AfficheurType
  BY <1>1
<1>3. /\ a.etape = "lance"
      /\ afficheurs' = [afficheurs EXCEPT
           ![k] = [[a EXCEPT !.etape = IF nom = 0 THEN "fini" ELSE "lit"] EXCEPT !.fichier = nom]]
  BY <1>1 DEF OuvrirAfficheur
<1>4. ASSUME NEW e, NEW n
      PROVE  [[a EXCEPT !.etape = e] EXCEPT !.fichier = n]
               = [etape |-> e, fichier |-> n, pos |-> a.pos]
  <2>1. a = [etape |-> a.etape, fichier |-> a.fichier, pos |-> a.pos]
    BY <1>2 DEF AfficheurType
  <2> HIDE DEF a
  <2>2. [a EXCEPT !.etape = e] = [etape |-> e, fichier |-> a.fichier, pos |-> a.pos]
    BY <2>1
  <2>3. [[etape |-> e, fichier |-> a.fichier, pos |-> a.pos] EXCEPT !.fichier = n]
          = [etape |-> e, fichier |-> n, pos |-> a.pos]
    OBVIOUS
  <2> QED
    BY <2>2, <2>3
<1> QED
  BY <1>3, <1>4

LEMMA PerdreEffet ==
  ASSUME TypeLecteurs, NEW k \in Sessions, PerdreAfficheur(k)
  PROVE  /\ k = tube /\ afficheurs[k].etape \in {"lance", "lit"}
         /\ \A m \in Sessions \ {k} : /\ afficheurs'[m] = afficheurs[m]
                                      /\ montres'[m] = montres[m]
                                      /\ sautes'[m] = sautes[m]
         /\ afficheurs'[k] = [etape |-> "perdu", fichier |-> 0, pos |-> 0]
         /\ montres'[k] = <<>>
BY DEF PerdreAfficheur, TypeLecteurs

LEMMA TypeLecteursStable ==
  ASSUME IInv, [Next]_vars
  PROVE  TypeLecteurs'
<1> USE DEF IInv
<1>1. /\ MaxSessions \in Nat
      /\ TypeLecteurs /\ TypeProcessus
  BY ClientChatAssumption, TypesParGroupe
<1>2. CASE \/ LireDiffusions \/ LireFin \/ TesterOpenChat \/ SuiteMessage \/ EcrireTube
           \/ TraiterReponse \/ AfficherListeNumerotee \/ SuiteListe \/ OuvrirChat
           \/ EcrireExit \/ Tronquer \/ FermerChat \/ FermerTube \/ SupprimerTube
           \/ Sortir \/ ServeurDiffuse \/ ServeurArrete \/ UNCHANGED vars
  <2>1. UNCHANGED lecture
    BY <1>2 DEF LireDiffusions, LireFin, TesterOpenChat, SuiteMessage, EcrireTube,
                TraiterReponse, AfficherListeNumerotee, SuiteListe, OuvrirChat, EcrireExit,
                Tronquer, FermerChat, FermerTube, SupprimerTube, Sortir, ServeurDiffuse,
                ServeurArrete, affichage, lecture, vars
  <2> QED
    BY <1>1, <2>1 DEF TypeLecteurs, lecture
<1>3. CASE CreerTube
  <2>1. UNCHANGED <<montres, sautes>>
        /\ afficheurs' = [afficheurs EXCEPT ![sessions + 1].etape = "lance"]
    BY <1>3 DEF CreerTube, Lancer
  <2>2. sessions + 1 \in Sessions
    BY <1>1, <1>3 DEF CreerTube, P, Etapes, TypeProcessus, Sessions
  <2>3. afficheurs' \in [Sessions -> AfficheurType]
    BY <1>1, <2>1, <2>2 DEF TypeLecteurs, AfficheurType
  <2> QED
    BY <1>1, <2>1, <2>3 DEF TypeLecteurs
<1>4. ASSUME NEW k \in Sessions, OuvrirAfficheur(k)
      PROVE  TypeLecteurs'
  <2>1. UNCHANGED <<montres, sautes>>
    BY <1>4 DEF OuvrirAfficheur
  <2> DEFINE b == [etape |-> IF nom = 0 THEN "fini" ELSE "lit", fichier |-> nom,
                   pos |-> afficheurs[k].pos]
  <2>2. b \in AfficheurType
    <3>1. nom \in 0..MaxSessions
      BY <1>1 DEF TypeProcessus
    <3>2. afficheurs[k].pos \in Nat
      BY <1>1 DEF TypeLecteurs, AfficheurType
    <3> QED
      BY <3>1, <3>2 DEF AfficheurType
  <2>4. afficheurs' = [afficheurs EXCEPT ![k] = b]
    BY <1>1, <1>4, OuvrirEffet
  <2> HIDE DEF b
  <2>3. afficheurs' \in [Sessions -> AfficheurType]
    BY <1>1, <2>2, <2>4 DEF TypeLecteurs
  <2> QED
    BY <1>1, <2>1, <2>3 DEF TypeLecteurs
<1>5. ASSUME NEW k \in Sessions, Afficher(k)
      PROVE  TypeLecteurs'
  <2>1. PICK f \in Sessions, p \in Nat, n \in Nat, S \in SUBSET Textes :
          /\ afficheurs[k].etape = "lit" /\ afficheurs[k].fichier = f /\ afficheurs[k].pos = p
          /\ p + 1 <= n /\ n <= Len(fichiers[f]) /\ p + 1 \in DOMAIN fichiers[f]
          /\ afficheurs' = [afficheurs EXCEPT ![k] =
               IF fichiers[f][p + 1] = Exit THEN [etape |-> "fini", fichier |-> 0, pos |-> 0]
               ELSE [etape |-> "lit", fichier |-> f, pos |-> n]]
          /\ montres' = [montres EXCEPT ![k] =
               IF EstMessage(fichiers[f][p + 1]) THEN Append(montres[k], fichiers[f][p + 1])
               ELSE montres[k]]
          /\ sautes' = [sautes EXCEPT ![k] = sautes[k] \cup S]
          /\ \A i \in (p + 2)..n : fichiers[f][i] = Exit => Exit \in S
    BY <1>5, AfficherEffet
  <2>2. f \in 0..MaxSessions /\ 0 \in 0..MaxSessions
    BY <1>1 DEF Sessions
  <2>3. fichiers[f][p + 1] \in Textes
    BY <1>1, <2>1 DEF TypeProcessus
  <2>4. Append(montres[k], fichiers[f][p + 1]) \in Seq(Textes)
    <3>1. montres[k] \in Seq(Textes)
      BY <1>1 DEF TypeLecteurs
    <3> QED
      BY <2>3, <3>1
  <2>5. afficheurs' \in [Sessions -> AfficheurType]
    BY <1>1, <2>1, <2>2 DEF TypeLecteurs, AfficheurType
  <2>6. montres' \in [Sessions -> Seq(Textes)] /\ sautes' \in [Sessions -> SUBSET Textes]
    BY <1>1, <2>1, <2>4 DEF TypeLecteurs
  <2> QED
    BY <2>5, <2>6 DEF TypeLecteurs
<1>6. ASSUME NEW k \in Sessions, PerdreAfficheur(k)
      PROVE  TypeLecteurs'
  <2>1. [etape |-> "perdu", fichier |-> 0, pos |-> 0] \in AfficheurType
    BY <1>1 DEF AfficheurType
  <2>2. <<>> \in Seq(Textes) /\ {} \in SUBSET Textes
    OBVIOUS
  <2> QED
    BY <1>1, <1>6, <2>1, <2>2 DEF PerdreAfficheur, TypeLecteurs
<1> QED
  BY <1>2, <1>3, <1>4, <1>5, <1>6, Pas

LEMMA EtapesStables ==
  ASSUME IInv, TypeOK', [Next]_vars
  PROVE  Etapes'
<1> USE DEF IInv
<1>1. TypeProcessus /\ TypeProcessus' /\ principal \in PrincipalType
  BY TypesParGroupe DEF TypeTextes, TypeOK, TypeProcessus, PrincipalType
<1>2. CASE \/ LireDiffusions \/ LireFin \/ TesterOpenChat \/ SuiteMessage
           \/ ServeurDiffuse \/ ServeurArrete
           \/ \E k \in Sessions : OuvrirAfficheur(k) \/ Afficher(k) \/ PerdreAfficheur(k)
           \/ UNCHANGED vars
  <2>1. UNCHANGED <<etat_co, openChat, sessions, tube, pos, nom, fichiers, principal>>
    BY <1>2 DEF LireDiffusions, LireFin, TesterOpenChat, SuiteMessage, ServeurDiffuse,
                ServeurArrete, OuvrirAfficheur, Afficher, PerdreAfficheur, chat, vars
  <2>2. etat' = "vivant" => etat = "vivant"
    BY <1>2 DEF LireDiffusions, LireFin, TesterOpenChat, SuiteMessage, ServeurDiffuse,
                ServeurArrete, OuvrirAfficheur, Afficher, PerdreAfficheur, chat, vars
  <2> QED
    BY <2>1, <2>2 DEF Etapes
<1>3. CASE EcrireTube \/ EcrireExit
  <2>1. UNCHANGED <<etat_co, openChat, sessions, tube, nom>>
    BY <1>3 DEF EcrireTube, EcrireExit
  <2>2. etat' = "vivant" => etat = "vivant"
    BY <1>3 DEF EcrireTube, EcrireExit
  <2>3. \/ UNCHANGED <<fichiers, pos>>
        \/ tube # 0 /\ \E texte \in Textes : Ecrire(texte)
    <3>1. ecoute.mot \in Textes /\ Exit \in Textes
      BY CoupesSontTextes DEF Morceaux
    <3> QED
      BY <1>3, <3>1 DEF EcrireTube, EcrireExit, P, Etapes
  <2>4. tube # 0 => Len(fichiers'[tube]) <= pos'
    <3>1. tube # 0 => tube \in Sessions /\ Len(fichiers[tube]) <= pos
      BY <1>1 DEF TypeProcessus, Sessions, Etapes
    <3>2. pos \in Nat /\ fichiers \in [Sessions -> Seq(Textes)]
      BY <1>1 DEF TypeProcessus
    <3>3. ASSUME tube # 0, NEW texte \in Textes, Ecrire(texte)
          PROVE  pos' = pos + 1 /\ Len(fichiers'[tube]) = pos + 1
      BY <3>1, <3>2, <3>3, EcrireEffet
    <3> QED
      BY <2>3, <3>1, <3>2, <3>3
  <2>5. \/ principal' = principal
        \/ principal.etape = "exit" /\ principal'.etape = "tronquer"
    BY <1>1, <1>3 DEF EcrireTube, EcrireExit, P, PasserP, affichage, PrincipalType
  <2> QED
    BY <2>1, <2>2, <2>4, <2>5 DEF Etapes
<1>4. CASE TraiterReponse
  <2>1. UNCHANGED <<etat, openChat, sessions, tube, pos, nom, fichiers>>
    BY <1>4 DEF TraiterReponse, tuyau
  <2>2. principal.etape = "menu"
    BY <1>4 DEF TraiterReponse, P
  <2>3. \/ principal'.etape = "menu" /\ etat_co' = etat_co
        \/ principal'.etape = "creerTube" /\ ~etat_co /\ etat_co' /\ sessions < MaxSessions
        \/ principal'.etape = "afficherListe" /\ etat_co /\ etat_co'
        \/ principal'.etape = "exit" /\ etat_co /\ ~etat_co'
    <3>0. PICK op \in IF etat_co THEN OpsConnectees ELSE OpsAnonymes :
            \E e \in {"menu", ApresReponse(op)} :
               /\ e = "creerTube" => sessions < MaxSessions
               /\ principal' = [principal EXCEPT !.etape = e,
                                  !.quitter = e = "exit" /\ op = "QUITTER"]
               /\ etat_co' = (e = "creerTube" \/ (etat_co /\ e # "exit"))
      BY <1>4 DEF TraiterReponse
    <3>1. PICK e \in {"menu", ApresReponse(op)} :
            /\ e = "creerTube" => sessions < MaxSessions
            /\ principal' = [principal EXCEPT !.etape = e,
                               !.quitter = e = "exit" /\ op = "QUITTER"]
            /\ etat_co' = (e = "creerTube" \/ (etat_co /\ e # "exit"))
      BY <3>0
    <3>2. \/ e = "menu"
          \/ e = "creerTube" /\ op = "CONNEXION"
          \/ e = "afficherListe" /\ op = "LISTEUTILISATEUR"
          \/ e = "exit" /\ op \in {"DECONNEXION", "SUPPRIMERCOMPTE", "QUITTER"}
      BY <3>1 DEF ApresReponse
    <3>3. /\ op = "CONNEXION" => ~etat_co
          /\ op \in {"LISTEUTILISATEUR", "DECONNEXION", "SUPPRIMERCOMPTE", "QUITTER"} => etat_co
      BY <3>0 DEF OpsConnectees, OpsAnonymes
    <3>4. principal'.etape = e
      BY <1>1, <3>1 DEF PrincipalType
    <3>5. etat_co \in BOOLEAN
      BY <1>1 DEF TypeProcessus
    <3> QED
      BY <3>1, <3>2, <3>3, <3>4, <3>5
  <2> QED
    BY <2>1, <2>2, <2>3 DEF Etapes
<1>5. CASE AfficherListeNumerotee \/ SuiteListe
  <2>1. UNCHANGED <<etat, etat_co, openChat, sessions, tube, pos, nom, fichiers>>
    BY <1>5 DEF AfficherListeNumerotee, SuiteListe, chat
  <2>2. /\ principal.etape \in {"afficherListe", "lister", "noter"}
        /\ principal'.etape \in {"menu", "lister", "noter"}
    BY <1>1, <1>5 DEF AfficherListeNumerotee, SuiteListe, P, PasserP, PrincipalType
  <2> QED
    BY <2>1, <2>2 DEF Etapes
<1>6. CASE CreerTube
  <2>1. UNCHANGED <<etat, etat_co, openChat, fichiers>>
    BY <1>6 DEF CreerTube
  <2>2. /\ principal.etape = "creerTube" /\ principal'.etape = "ouvrirChat"
        /\ etat = "vivant"
    BY <1>1, <1>6 DEF CreerTube, P, PasserP, PrincipalType
  <2>3. sessions' = sessions + 1 /\ nom' = sessions + 1 /\ tube' = sessions + 1 /\ pos' = 0
    BY <1>6, <2>2 DEF CreerTube, Etapes
  <2>4. sessions + 1 \in Sessions /\ sessions + 1 # 0 /\ sessions + 1 > sessions
    BY <1>1, <2>2, ClientChatAssumption DEF TypeProcessus, Sessions, Etapes
  <2>5. Len(fichiers[sessions + 1]) = 0
    BY <2>4 DEF Lecteurs, LecteursAVenir
  <2> QED
    BY <2>1, <2>2, <2>3, <2>4, <2>5 DEF Etapes
<1>7. CASE OuvrirChat
  <2>1. UNCHANGED <<etat, etat_co, sessions, tube, pos, nom, fichiers>> /\ openChat'
    BY <1>7 DEF OuvrirChat, tuyau
  <2>2. principal.etape = "ouvrirChat" /\ principal'.etape = "menu"
    BY <1>1, <1>7 DEF OuvrirChat, P, PasserP, PrincipalType
  <2> QED
    BY <2>1, <2>2 DEF Etapes
<1>8. CASE Tronquer
  <2>1. UNCHANGED <<etat, etat_co, openChat, sessions, tube, pos, nom>>
        /\ fichiers' = [fichiers EXCEPT ![tube] = <<>>]
    BY <1>8 DEF Tronquer, chat
  <2>2. principal.etape = "tronquer" /\ principal'.etape = "fermerChat"
    BY <1>1, <1>8 DEF Tronquer, P, PasserP, PrincipalType
  <2>3. tube # 0 => Len(fichiers'[tube]) = 0
    BY <1>1, <2>1 DEF TypeProcessus, Sessions
  <2> QED
    BY <1>1, <2>1, <2>2, <2>3 DEF Etapes, TypeProcessus
<1>9. CASE FermerChat
  <2>1. UNCHANGED <<etat, etat_co, sessions, tube, pos, nom, fichiers>> /\ ~openChat'
    BY <1>9 DEF FermerChat, tuyau
  <2>2. principal.etape = "fermerChat" /\ principal'.etape = "fermerTube"
    BY <1>1, <1>9 DEF FermerChat, P, PasserP, PrincipalType
  <2> QED
    BY <2>1, <2>2 DEF Etapes
<1>10. CASE FermerTube
  <2>1. UNCHANGED <<etat, etat_co, openChat, sessions, nom, fichiers>> /\ tube' = 0
    BY <1>10 DEF FermerTube
  <2>2. principal.etape = "fermerTube" /\ principal'.etape = "supprimerTube"
    BY <1>1, <1>10 DEF FermerTube, P, PasserP, PrincipalType
  <2> QED
    BY <2>1, <2>2 DEF Etapes
<1>11. CASE SupprimerTube
  <2>1. UNCHANGED <<etat_co, openChat, sessions, tube, pos, fichiers>> /\ nom' = 0
    BY <1>11 DEF SupprimerTube, tuyau
  <2>2. principal.etape = "supprimerTube" /\ principal'.etape = "menu"
    BY <1>1, <1>11 DEF SupprimerTube, RevenirAuMenu, P, PasserP, PrincipalType
  <2> QED
    BY <2>1, <2>2 DEF Etapes
<1>12. CASE Sortir
  <2>1. UNCHANGED <<sessions, nom, fichiers>> /\ etat' = "fini"
    BY <1>12 DEF Sortir
  <2>2. tube' = 0 /\ ~etat_co' /\ ~openChat' /\ principal'.etape = "menu"
    BY <1>12 DEF Sortir, AuMenu
  <2> QED
    BY <2>1, <2>2 DEF Etapes
<1> QED
  BY <1>2, <1>3, <1>4, <1>5, <1>6, <1>7, <1>8, <1>9, <1>10, <1>11, <1>12, Pas

LEMMA LecteursStables ==
  ASSUME IInv, TypeOK', Etapes', [Next]_vars
  PROVE  Lecteurs'
<1> USE DEF IInv
<1>1. /\ MaxSessions \in Nat
      /\ TypeProcessus /\ TypeLecteurs
      /\ LecteursAVenir /\ LecteursOuverts /\ LecteurPresent
  BY ClientChatAssumption, TypesParGroupe DEF Lecteurs
<1>2. /\ sessions \in Nat /\ tube \in Nat /\ pos \in Nat
      /\ \A k \in Sessions : afficheurs[k].pos \in Nat
      /\ tube # 0 => tube \in Sessions /\ tube = sessions
      /\ \A k \in 1..sessions : k \in Sessions /\ k # 0 /\ k \in Nat
      /\ \A k \in Sessions : k \in Nat /\ k # 0 /\ (k <= sessions => k \in 1..sessions)
  BY <1>1 DEF TypeProcessus, TypeLecteurs, AfficheurType, Sessions, Etapes
<1>3. CASE \/ LireDiffusions \/ LireFin \/ TesterOpenChat \/ SuiteMessage
           \/ TraiterReponse \/ AfficherListeNumerotee \/ SuiteListe
           \/ OuvrirChat \/ FermerChat \/ SupprimerTube
           \/ ServeurDiffuse \/ ServeurArrete \/ UNCHANGED vars
  <2>1. UNCHANGED <<sessions, tube, pos, fichiers, afficheurs, sautes>>
    BY <1>3 DEF LireDiffusions, LireFin, TesterOpenChat, SuiteMessage, TraiterReponse,
                AfficherListeNumerotee, SuiteListe, OuvrirChat, FermerChat, SupprimerTube,
                ServeurDiffuse, ServeurArrete, chat, tuyau, affichage, lecture, vars
  <2>2. etat_co' /\ tube # 0 => etat_co
    <3>1. CASE TraiterReponse
      BY <3>1 DEF TraiterReponse, P, Etapes
    <3>2. CASE ~TraiterReponse
      BY <1>3, <3>2 DEF LireDiffusions, LireFin, TesterOpenChat, SuiteMessage,
                AfficherListeNumerotee, SuiteListe, OuvrirChat, FermerChat, SupprimerTube,
                ServeurDiffuse, ServeurArrete, chat, vars
    <3> QED
      BY <3>1, <3>2
  <2>3. LecteursAVenir' /\ LecteursOuverts'
    BY <1>1, <2>1 DEF LecteursAVenir, LecteursOuverts
  <2>4. LecteurPresent'
    BY <1>1, <2>1, <2>2 DEF LecteurPresent
  <2> QED
    BY <2>3, <2>4 DEF Lecteurs
<1>4. CASE FermerTube \/ Sortir
  <2>1. UNCHANGED <<sessions, fichiers, afficheurs, sautes>> /\ tube' = 0
    BY <1>4 DEF FermerTube, Sortir, affichage, lecture
  <2>2. LecteursAVenir' /\ LecteurPresent'
    BY <1>1, <2>1 DEF LecteursAVenir, LecteurPresent
  <2>3. LecteursOuverts'
    BY <1>1, <1>2, <2>1 DEF LecteursOuverts
  <2> QED
    BY <2>2, <2>3 DEF Lecteurs
<1>5. CASE Tronquer
  <2>1. UNCHANGED <<etat_co, sessions, tube, pos, afficheurs, sautes>>
        /\ fichiers' = [fichiers EXCEPT ![tube] = <<>>]
    BY <1>5 DEF Tronquer, chat, lecture
  <2>2. ~etat_co /\ tube # 0
    BY <1>5 DEF Tronquer, P, Etapes
  <2>3. \A k \in Sessions : fichiers'[k] = IF k = tube THEN <<>> ELSE fichiers[k]
    BY <1>1, <2>1 DEF TypeProcessus
  <2>4. LecteursAVenir' /\ LecteurPresent'
    BY <1>1, <2>1, <2>2, <2>3 DEF LecteursAVenir, LecteurPresent
  <2>5. LecteursOuverts'
    BY <1>1, <1>2, <2>1, <2>3 DEF LecteursOuverts
  <2> QED
    BY <2>4, <2>5 DEF Lecteurs
<1>6. CASE EcrireTube \/ EcrireExit
  <2>1. UNCHANGED <<etat_co, sessions, tube, afficheurs, sautes>>
    BY <1>6 DEF EcrireTube, EcrireExit, affichage, lecture
  <2>2. CASE UNCHANGED <<fichiers, pos>>
    <3>1. LecteursAVenir' /\ LecteursOuverts' /\ LecteurPresent'
      BY <1>1, <2>1, <2>2 DEF LecteursAVenir, LecteursOuverts, LecteurPresent
    <3> QED
      BY <3>1 DEF Lecteurs
  <2>3. CASE ~UNCHANGED <<fichiers, pos>>
    <3>1. PICK texte \in Textes : tube # 0 /\ Ecrire(texte) /\ (etat_co => texte # Exit)
      <4>1. ecoute.mot \in Textes /\ Exit \in Textes /\ ecoute.mot # Exit
        BY CoupesSontTextes DEF Morceaux
      <4> QED
        BY <1>6, <2>3, <4>1 DEF EcrireTube, EcrireExit, P, Etapes
    <3>2. Len(fichiers[tube]) <= pos
      BY <3>1 DEF Etapes
    <3>3. /\ pos' = pos + 1
          /\ \A k \in Sessions \ {tube} : fichiers'[k] = fichiers[k]
          /\ DOMAIN fichiers'[tube] = 1..(pos + 1)
          /\ fichiers'[tube][pos + 1] = texte
          /\ \A i \in 1..pos : fichiers'[tube][i] =
               IF i \in DOMAIN fichiers[tube] THEN fichiers[tube][i] ELSE Trou
      BY <1>1, <1>2, <3>1, <3>2, EcrireEffet DEF TypeProcessus
    <3>4. Trou # Exit
      BY DEF Trou, Exit
    <3>5. LecteursAVenir'
      BY <1>1, <1>2, <2>1, <3>1, <3>3 DEF LecteursAVenir
    <3>6. LecteurPresent'
      BY <1>1, <1>2, <2>1, <3>1, <3>3, <3>4 DEF LecteurPresent
    <3>7. LecteursOuverts'
      <4> SUFFICES ASSUME NEW k \in Sessions, afficheurs[k].etape = "lit"
                   PROVE  /\ afficheurs[k].fichier \in 1..sessions
                          /\ afficheurs[k].fichier = tube => afficheurs[k].pos <= pos'
                          /\ \A i \in DOMAIN fichiers'[afficheurs[k].fichier] :
                                /\ i <= afficheurs[k].pos
                                /\ fichiers'[afficheurs[k].fichier][i] = Exit
                                => Exit \in sautes[k]
        BY <2>1 DEF LecteursOuverts
      <4>1. /\ afficheurs[k].fichier \in 1..sessions
            /\ afficheurs[k].fichier = tube => afficheurs[k].pos <= pos
            /\ \A i \in DOMAIN fichiers[afficheurs[k].fichier] :
                  i <= afficheurs[k].pos /\ fichiers[afficheurs[k].fichier][i] = Exit
                    => Exit \in sautes[k]
        BY <1>1 DEF LecteursOuverts
      <4>2. CASE afficheurs[k].fichier = tube
        BY <1>2, <3>1, <3>3, <3>4, <4>1, <4>2
      <4>3. CASE afficheurs[k].fichier # tube
        BY <1>2, <3>3, <4>1, <4>3
      <4> QED
        BY <4>2, <4>3
    <3> QED
      BY <3>5, <3>6, <3>7 DEF Lecteurs
  <2> QED
    BY <2>2, <2>3
<1>7. CASE CreerTube
  <2>1. UNCHANGED <<etat_co, fichiers, sautes>>
        /\ afficheurs' = [afficheurs EXCEPT ![sessions + 1].etape = "lance"]
        /\ sessions' = sessions + 1 /\ tube' = sessions + 1 /\ pos' = 0
    BY <1>7 DEF CreerTube, Lancer, P, Etapes
  <2>2. sessions + 1 \in Sessions /\ sessions + 1 > sessions
    BY <1>1, <1>2, <1>7 DEF CreerTube, P, Etapes, Sessions
  <2>3. /\ \A k \in Sessions \ {sessions + 1} : afficheurs'[k] = afficheurs[k]
        /\ afficheurs'[sessions + 1].etape = "lance"
        /\ afficheurs'[sessions + 1].pos = afficheurs[sessions + 1].pos
    BY <1>1, <2>1, <2>2 DEF TypeLecteurs, AfficheurType
  <2>4. LecteursAVenir'
    BY <1>1, <1>2, <2>1, <2>2, <2>3 DEF LecteursAVenir
  <2>5. LecteursOuverts'
    BY <1>1, <1>2, <2>1, <2>2, <2>3 DEF LecteursOuverts
  <2>6. LecteurPresent'
    <3>1. fichiers[sessions + 1] = <<>>
      BY <1>1, <2>2 DEF LecteursAVenir
    <3> QED
      BY <2>1, <2>3, <3>1 DEF LecteurPresent
  <2> QED
    BY <2>4, <2>5, <2>6 DEF Lecteurs
<1>8. ASSUME NEW k \in Sessions, OuvrirAfficheur(k)
      PROVE  Lecteurs'
  <2>1. UNCHANGED <<etat_co, sessions, tube, pos, fichiers, sautes>>
    BY <1>8 DEF OuvrirAfficheur, chat
  <2>2. afficheurs[k].etape = "lance" /\ afficheurs[k].pos = 0 /\ k <= sessions
    BY <1>1, <1>2, <1>8, OuvrirEffet DEF LecteursAVenir
  <2>3. /\ \A m \in Sessions \ {k} : afficheurs'[m] = afficheurs[m]
        /\ afficheurs'[k] = [etape |-> IF nom = 0 THEN "fini" ELSE "lit", fichier |-> nom,
                             pos |-> afficheurs[k].pos]
    BY <1>1, <1>8, OuvrirEffet DEF TypeLecteurs
  <2>4. nom \in {0, sessions} /\ (tube # 0 => nom = tube) /\ (nom # 0 => nom \in 1..sessions)
    BY <1>1, <1>2 DEF Etapes, TypeProcessus
  <2>5. LecteursAVenir'
    BY <1>1, <1>2, <2>1, <2>2, <2>3 DEF LecteursAVenir
  <2>6. LecteurPresent'
    BY <1>1, <1>2, <2>1, <2>2, <2>3, <2>4 DEF LecteurPresent
  <2>7. LecteursOuverts'
    <3>1. \A f \in 1..sessions : DOMAIN fichiers[f] = 1..Len(fichiers[f])
      BY <1>1, <1>2 DEF TypeProcessus
    <3> SUFFICES ASSUME NEW m \in Sessions, afficheurs'[m].etape = "lit"
                 PROVE  /\ afficheurs'[m].fichier \in 1..sessions
                        /\ afficheurs'[m].fichier = tube => afficheurs'[m].pos <= pos
                        /\ \A i \in DOMAIN fichiers[afficheurs'[m].fichier] :
                              /\ i <= afficheurs'[m].pos
                              /\ fichiers[afficheurs'[m].fichier][i] = Exit
                              => Exit \in sautes[m]
      BY <2>1 DEF LecteursOuverts
    <3>2. CASE m = k
      <4>1. nom # 0 /\ afficheurs'[k].fichier = nom /\ afficheurs'[k].pos = 0
        BY <2>2, <2>3, <3>2
      <4>2. \A i \in DOMAIN fichiers[nom] : ~(i <= 0)
        BY <2>4, <3>1, <4>1
      <4> QED
        BY <1>2, <2>4, <3>2, <4>1, <4>2
    <3>3. CASE m # k
      BY <1>1, <2>3, <3>3 DEF LecteursOuverts
    <3> QED
      BY <3>2, <3>3
  <2> QED
    BY <2>5, <2>6, <2>7 DEF Lecteurs
<1>9. ASSUME NEW k \in Sessions, Afficher(k)
      PROVE  Lecteurs'
  <2>1. UNCHANGED <<etat_co, sessions, tube, pos, fichiers>>
    BY <1>9 DEF Afficher, chat
  <2>2. PICK f \in Sessions, p \in Nat, n \in Nat, S \in SUBSET Textes :
          /\ afficheurs[k].etape = "lit" /\ afficheurs[k].fichier = f /\ afficheurs[k].pos = p
          /\ p + 1 <= n /\ n <= Len(fichiers[f]) /\ p + 1 \in DOMAIN fichiers[f]
          /\ afficheurs' = [afficheurs EXCEPT ![k] =
               IF fichiers[f][p + 1] = Exit THEN [etape |-> "fini", fichier |-> 0, pos |-> 0]
               ELSE [etape |-> "lit", fichier |-> f, pos |-> n]]
          /\ montres' = [montres EXCEPT ![k] =
               IF EstMessage(fichiers[f][p + 1]) THEN Append(montres[k], fichiers[f][p + 1])
               ELSE montres[k]]
          /\ sautes' = [sautes EXCEPT ![k] = sautes[k] \cup S]
          /\ \A i \in (p + 2)..n : fichiers[f][i] = Exit => Exit \in S
    BY <1>9, AfficherEffet
  <2>3. /\ \A m \in Sessions \ {k} : afficheurs'[m] = afficheurs[m] /\ sautes'[m] = sautes[m]
        /\ afficheurs'[k] = IF fichiers[f][p + 1] = Exit
                            THEN [etape |-> "fini", fichier |-> 0, pos |-> 0]
                            ELSE [etape |-> "lit", fichier |-> f, pos |-> n]
        /\ sautes'[k] = sautes[k] \cup S
    BY <1>1, <2>2 DEF TypeLecteurs
  <2>4. LecteursAVenir'
    BY <1>1, <1>2, <2>1, <2>2, <2>3 DEF LecteursAVenir
  <2>5. LecteurPresent'
    BY <1>1, <1>2, <2>1, <2>2, <2>3 DEF LecteurPresent
  <2>6. LecteursOuverts'
    <3>1. f \in 1..sessions
          /\ \A i \in DOMAIN fichiers[f] : i <= p /\ fichiers[f][i] = Exit => Exit \in sautes[k]
      BY <1>1, <2>2 DEF LecteursOuverts
    <3>2. f = tube => n <= pos
      BY <1>1, <1>2, <2>2 DEF Etapes, TypeProcessus
    <3>3. fichiers[f][p + 1] # Exit =>
            \A i \in DOMAIN fichiers[f] : i <= n /\ fichiers[f][i] = Exit => Exit \in sautes'[k]
      <4>1. DOMAIN fichiers[f] \subseteq Nat
        BY <1>1 DEF TypeProcessus
      <4>2. \A i \in Nat : i <= n => i <= p \/ i = p + 1 \/ i \in (p + 2)..n
        OBVIOUS
      <4> QED
        BY <2>2, <2>3, <3>1, <4>1, <4>2
    <3> SUFFICES ASSUME NEW m \in Sessions, afficheurs'[m].etape = "lit"
                 PROVE  /\ afficheurs'[m].fichier \in 1..sessions
                        /\ afficheurs'[m].fichier = tube => afficheurs'[m].pos <= pos
                        /\ \A i \in DOMAIN fichiers[afficheurs'[m].fichier] :
                              /\ i <= afficheurs'[m].pos
                              /\ fichiers[afficheurs'[m].fichier][i] = Exit
                              => Exit \in sautes'[m]
      BY <2>1 DEF LecteursOuverts
    <3>4. CASE m = k
      BY <2>3, <3>1, <3>2, <3>3, <3>4
    <3>5. CASE m # k
      BY <1>1, <2>3, <3>5 DEF LecteursOuverts
    <3> QED
      BY <3>4, <3>5
  <2> QED
    BY <2>4, <2>5, <2>6 DEF Lecteurs
<1>10. ASSUME NEW k \in Sessions, PerdreAfficheur(k)
       PROVE  Lecteurs'
  <2>1. UNCHANGED <<etat_co, sessions, tube, pos, fichiers>>
    BY <1>10 DEF PerdreAfficheur, chat
  <2>2. /\ k = tube
        /\ \A m \in Sessions \ {k} : afficheurs'[m] = afficheurs[m] /\ sautes'[m] = sautes[m]
        /\ afficheurs'[k].etape = "perdu"
    BY <1>1, <1>10, PerdreEffet
  <2>3. LecteursAVenir'
    BY <1>1, <1>2, <2>1, <2>2 DEF LecteursAVenir
  <2>4. LecteurPresent'
    BY <1>1, <2>1, <2>2 DEF LecteurPresent
  <2>5. LecteursOuverts'
    BY <1>1, <2>1, <2>2 DEF LecteursOuverts
  <2> QED
    BY <2>3, <2>4, <2>5 DEF Lecteurs
<1> QED
  BY <1>3, <1>4, <1>5, <1>6, <1>7, <1>8, <1>9, <1>10, Pas

(***************************************************************************)
(* Nothing is undone: what a reader has skipped, unless it is lost, that   *)
(* it has ended or is lost, that it was behind at a truncation, and that   *)
(* the process has ended.                                                  *)
(***************************************************************************)
LEMMA RienNeRevient ==
  ASSUME IInv, [Next]_vars
  PROVE  /\ \A k \in Sessions :
              /\ sautes[k] \subseteq sautes'[k] \/ afficheurs'[k].etape = "perdu"
              /\ afficheurs[k].etape \in {"fini", "perdu"} =>
                   afficheurs'[k].etape \in {"fini", "perdu"}
         /\ presses \subseteq presses'
         /\ etat' = "vivant" => etat = "vivant"
<1> USE DEF IInv
<1>1. /\ TypeProcessus /\ TypeLecteurs
      /\ \A k \in Sessions : k > sessions => afficheurs[k].etape = "absent"
  BY TypesParGroupe DEF Lecteurs, LecteursAVenir
<1>2. presses \subseteq presses' /\ (etat' = "vivant" => etat = "vivant")
  BY Pas DEF LireDiffusions, LireFin, TesterOpenChat, SuiteMessage, EcrireTube,
             TraiterReponse, AfficherListeNumerotee, SuiteListe, CreerTube, OuvrirChat,
             EcrireExit, Tronquer, FermerChat, FermerTube, SupprimerTube, RevenirAuMenu,
             Sortir, ServeurDiffuse, ServeurArrete, OuvrirAfficheur, Afficher, PerdreAfficheur, affichage, vars
<1>3. CASE \/ LireDiffusions \/ LireFin \/ TesterOpenChat \/ SuiteMessage \/ EcrireTube
           \/ TraiterReponse \/ AfficherListeNumerotee \/ SuiteListe \/ OuvrirChat
           \/ EcrireExit \/ Tronquer \/ FermerChat \/ FermerTube \/ SupprimerTube
           \/ Sortir \/ ServeurDiffuse \/ ServeurArrete \/ UNCHANGED vars
  <2>1. UNCHANGED lecture
    BY <1>3 DEF LireDiffusions, LireFin, TesterOpenChat, SuiteMessage, EcrireTube,
                TraiterReponse, AfficherListeNumerotee, SuiteListe, OuvrirChat, EcrireExit,
                Tronquer, FermerChat, FermerTube, SupprimerTube, Sortir, ServeurDiffuse,
                ServeurArrete, affichage, lecture, vars
  <2> QED
    BY <1>2, <2>1 DEF lecture
<1>4. CASE CreerTube
  <2>1. sautes' = sautes
        /\ afficheurs' = [afficheurs EXCEPT ![sessions + 1].etape = "lance"]
    BY <1>4 DEF CreerTube, Lancer
  <2>2. sessions + 1 \in Sessions => afficheurs[sessions + 1].etape = "absent"
    BY <1>1 DEF TypeProcessus
  <2>3. \A k \in Sessions : k # sessions + 1 => afficheurs'[k] = afficheurs[k]
    BY <1>1, <2>1 DEF TypeLecteurs
  <2> QED
    BY <1>2, <2>1, <2>2, <2>3
<1>5. ASSUME NEW k \in Sessions, OuvrirAfficheur(k)
      PROVE  sautes' = sautes /\ afficheurs[k].etape = "lance"
             /\ \A m \in Sessions \ {k} : afficheurs'[m] = afficheurs[m]
  <2>1. sautes' = sautes
    BY <1>5 DEF OuvrirAfficheur
  <2> QED
    BY <1>1, <1>5, <2>1, OuvrirEffet DEF TypeLecteurs
<1>6. ASSUME NEW k \in Sessions, Afficher(k)
      PROVE  /\ afficheurs[k].etape = "lit" /\ sautes[k] \subseteq sautes'[k]
             /\ \A m \in Sessions \ {k} : afficheurs'[m] = afficheurs[m] /\ sautes'[m] = sautes[m]
  <2>1. /\ afficheurs[k].etape = "lit"
        /\ \E v : afficheurs' = [afficheurs EXCEPT ![k] = v]
        /\ \E S : sautes' = [sautes EXCEPT ![k] = sautes[k] \cup S]
    BY <1>6 DEF Afficher
  <2> QED
    BY <1>1, <2>1 DEF TypeLecteurs
<1>7. ASSUME NEW k \in Sessions, PerdreAfficheur(k)
      PROVE  /\ afficheurs'[k].etape = "perdu"
             /\ \A m \in Sessions \ {k} : afficheurs'[m] = afficheurs[m] /\ sautes'[m] = sautes[m]
  BY <1>1, <1>7, PerdreEffet
<1> QED
  BY <1>2, <1>3, <1>4, <1>5, <1>6, <1>7, Pas

(***************************************************************************)
(* The steps of ThreadPrincipal: from where they start and where they end. *)
(***************************************************************************)
LEMMA EtapeSuivante ==
  ASSUME TypeTextes
  PROVE  /\ TraiterReponse => /\ principal.etape = "menu"
                              /\ principal'.etape \in {"menu", "creerTube", "afficherListe", "exit"}
         /\ AfficherListeNumerotee =>
              principal.etape = "afficherListe" /\ principal'.etape \in {"lister", "menu"}
         /\ SuiteListe => /\ principal.etape \in {"lister", "noter"}
                          /\ principal'.etape \in {"lister", "noter", "menu"}
         /\ CreerTube => principal.etape = "creerTube" /\ principal'.etape = "ouvrirChat"
         /\ OuvrirChat => principal.etape = "ouvrirChat" /\ principal'.etape = "menu"
         /\ EcrireExit => principal.etape = "exit" /\ principal'.etape = "tronquer"
         /\ Tronquer => principal.etape = "tronquer" /\ principal'.etape = "fermerChat"
         /\ FermerChat => principal.etape = "fermerChat" /\ principal'.etape = "fermerTube"
         /\ FermerTube => principal.etape = "fermerTube" /\ principal'.etape = "supprimerTube"
         /\ SupprimerTube => principal.etape = "supprimerTube" /\ principal'.etape = "menu"
         /\ Sortir => principal' = AuMenu
<1>1. principal \in PrincipalType
  BY DEF TypeTextes
<1>2. ASSUME TraiterReponse
      PROVE  /\ principal.etape = "menu"
             /\ principal'.etape \in {"menu", "creerTube", "afficherListe", "exit"}
  <2>1. PICK e \in {"menu", "creerTube", "afficherListe", "exit"}, q \in BOOLEAN :
           principal' = [principal EXCEPT !.etape = e, !.quitter = q]
    BY <1>2 DEF TraiterReponse, ApresReponse
  <2> QED
    BY <1>1, <1>2, <2>1 DEF TraiterReponse, P, PrincipalType
<1>3. ASSUME SuiteListe
      PROVE  /\ principal.etape \in {"lister", "noter"}
             /\ principal'.etape \in {"lister", "noter", "menu"}
  <2>1. CASE P("lister")
    BY <1>1, <1>3, <2>1 DEF SuiteListe, P, PrincipalType
  <2>2. CASE P("noter")
    BY <1>1, <1>3, <2>2 DEF SuiteListe, P, PasserP, PrincipalType
  <2> QED
    BY <1>3, <2>1, <2>2 DEF SuiteListe
<1>4. /\ AfficherListeNumerotee =>
           principal.etape = "afficherListe" /\ principal'.etape \in {"lister", "menu"}
      /\ CreerTube => principal.etape = "creerTube" /\ principal'.etape = "ouvrirChat"
      /\ OuvrirChat => principal.etape = "ouvrirChat" /\ principal'.etape = "menu"
      /\ EcrireExit => principal.etape = "exit" /\ principal'.etape = "tronquer"
      /\ Tronquer => principal.etape = "tronquer" /\ principal'.etape = "fermerChat"
  BY <1>1 DEF AfficherListeNumerotee, CreerTube, OuvrirChat, EcrireExit, Tronquer, P, PasserP,
              PrincipalType
<1>5. /\ FermerChat => principal.etape = "fermerChat" /\ principal'.etape = "fermerTube"
      /\ FermerTube => principal.etape = "fermerTube" /\ principal'.etape = "supprimerTube"
      /\ SupprimerTube => principal.etape = "supprimerTube" /\ principal'.etape = "menu"
  BY <1>1 DEF FermerChat, FermerTube, SupprimerTube, RevenirAuMenu, P, PasserP, PrincipalType
<1>6. Sortir => principal' = AuMenu
  BY DEF Sortir
<1> QED
  BY <1>2, <1>3, <1>4, <1>5, <1>6

LEMMA FinsStables ==
  ASSUME IInv, TypeOK', Lecteurs', [Next]_vars
  PROVE  Fins'
<1> USE DEF IInv
<1>1. TypeProcessus /\ TypeTextes /\ TypeLecteurs
  BY TypesParGroupe
<1>2. CASE \/ LireDiffusions \/ LireFin \/ TesterOpenChat \/ SuiteMessage
           \/ ServeurDiffuse \/ ServeurArrete \/ UNCHANGED vars
           \/ \E k \in Sessions : OuvrirAfficheur(k) \/ Afficher(k) \/ PerdreAfficheur(k)
  <2>1. UNCHANGED <<fichiers, tube, sessions, principal>>
    BY <1>2 DEF LireDiffusions, LireFin, TesterOpenChat, SuiteMessage, ServeurDiffuse,
                ServeurArrete, OuvrirAfficheur, Afficher, PerdreAfficheur, chat, vars
  <2> QED
    BY <1>1, <2>1, RienNeRevient DEF Fins, Sessions, TypeProcessus, Etapes
<1>3. CASE \/ TraiterReponse \/ AfficherListeNumerotee \/ SuiteListe \/ CreerTube
           \/ OuvrirChat \/ SupprimerTube \/ Sortir
  <2>1. principal'.etape \notin {"tronquer", "fermerChat", "fermerTube", "supprimerTube"}
    BY <1>1, <1>3, EtapeSuivante DEF AuMenu
  <2> QED
    BY <2>1 DEF Fins
<1>4. CASE FermerChat \/ FermerTube
  <2>1. /\ etat' = etat /\ sessions' = sessions
        /\ principal.etape \in {"fermerChat", "fermerTube"}
        /\ principal'.etape \in {"fermerTube", "supprimerTube"}
    BY <1>1, <1>4 DEF FermerChat, FermerTube, P, PasserP, TypeTextes, PrincipalType
  <2> QED
    BY <2>1, RienNeRevient DEF Fins
<1>5. CASE EcrireTube \/ EcrireExit
  <2>1. UNCHANGED <<sessions, tube>>
    BY <1>5 DEF EcrireTube, EcrireExit
  <2>2. \/ principal'.etape = principal.etape
        \/ EcrireExit /\ principal'.etape = "tronquer"
    BY <1>1, <1>5 DEF EcrireTube, EcrireExit, PasserP, TypeTextes, PrincipalType
  <2>3. ASSUME principal'.etape = "tronquer"
        PROVE  \E i \in DOMAIN fichiers'[tube] : fichiers'[tube][i] = Exit
    <3>1. tube \in Sessions /\ pos \in Nat /\ Len(fichiers[tube]) <= pos
          /\ fichiers \in [Sessions -> Seq(Textes)]
      <4>1. tube # 0
        BY <1>5, <2>2, <2>3 DEF EcrireExit, P, Etapes
      <4> QED
        BY <1>1, <4>1 DEF TypeProcessus, Sessions, Etapes
    <3>2. CASE UNCHANGED fichiers /\ EcrireTube
      <4>1. principal' = principal
        BY <3>2 DEF EcrireTube
      <4> QED
        BY <2>3, <3>2, <4>1 DEF Fins
    <3>3. CASE ~(UNCHANGED fichiers /\ EcrireTube)
      <4>1. PICK texte \in Textes : Ecrire(texte) /\ (EcrireTube \/ texte = Exit)
        BY <1>5, <3>3, CoupesSontTextes DEF EcrireTube, EcrireExit, Morceaux
      <4>2. /\ DOMAIN fichiers'[tube] = 1..(pos + 1)
            /\ fichiers'[tube][pos + 1] = texte
            /\ \A i \in 1..pos : fichiers'[tube][i] =
                 IF i \in DOMAIN fichiers[tube] THEN fichiers[tube][i] ELSE Trou
        BY <3>1, <4>1, EcrireEffet
      <4>3. CASE texte = Exit
        <5>1. pos + 1 \in 1..(pos + 1)
          BY <3>1
        <5>2. pos + 1 \in DOMAIN fichiers'[tube] /\ fichiers'[tube][pos + 1] = Exit
          BY <4>2, <4>3, <5>1
        <5> QED
          BY <5>2
      <4>4. CASE EcrireTube
        <5>1. principal' = principal
          BY <4>4 DEF EcrireTube
        <5>2. PICK i \in DOMAIN fichiers[tube] : fichiers[tube][i] = Exit
          BY <2>3, <5>1 DEF Fins
        <5>3. i \in 1..pos /\ i \in 1..(pos + 1)
          BY <3>1
        <5> QED
          BY <4>2, <5>2, <5>3
      <4> QED
        BY <4>1, <4>3, <4>4
    <3> QED
      BY <3>2, <3>3
  <2> QED
    BY <2>1, <2>2, <2>3, RienNeRevient DEF Fins
<1>6. CASE Tronquer
  <2>1. /\ principal.etape = "tronquer" /\ principal'.etape = "fermerChat"
        /\ UNCHANGED <<sessions, afficheurs, sautes>>
        /\ presses' = presses \cup {k \in Sessions : k = sessions /\ ~AJour(k)}
    BY <1>1, <1>6 DEF Tronquer, P, PasserP, TypeTextes, PrincipalType, chat, lecture
  <2>2. sessions \in Sessions /\ tube = sessions /\ tube # 0
    BY <1>1, <2>1 DEF TypeProcessus, Sessions, Etapes
  <2>3. CASE AJour(sessions)
    <3>1. CASE afficheurs[sessions].etape \in {"fini", "perdu"}
      BY <2>1, <2>2, <3>1 DEF Fins
    <3>2. CASE afficheurs[sessions].etape \notin {"fini", "perdu"}
      <4>1. /\ afficheurs[sessions].etape = "lit"
            /\ afficheurs[sessions].pos >= Len(fichiers[afficheurs[sessions].fichier])
        BY <2>3, <3>2 DEF AJour
      <4>2. afficheurs[sessions].fichier = tube
        BY <2>2, <4>1 DEF Lecteurs, LecteurPresent
      <4>3. PICK i \in DOMAIN fichiers[tube] : fichiers[tube][i] = Exit
        BY <2>1 DEF Fins
      <4>4. i <= afficheurs[sessions].pos
        BY <1>1, <2>2, <4>1, <4>2 DEF TypeProcessus, TypeLecteurs, AfficheurType
      <4>5. Exit \in sautes[sessions]
        BY <2>2, <4>1, <4>2, <4>3, <4>4 DEF Lecteurs, LecteursOuverts
      <4> QED
        BY <2>1, <2>2, <4>5 DEF Fins
    <3> QED
      BY <3>1, <3>2
  <2>4. CASE ~AJour(sessions)
    BY <2>1, <2>2, <2>4 DEF Fins
  <2> QED
    BY <2>3, <2>4
<1> QED
  BY <1>2, <1>3, <1>4, <1>5, <1>6, Pas

LEMMA ExitVuStable ==
  ASSUME IInv, [Next]_vars
  PROVE  ExitVu'
<1> USE DEF IInv
<1>1. TypeProcessus /\ MaxSessions \in Nat
  BY TypesParGroupe, ClientChatAssumption
<1>2. 1..sessions \subseteq Sessions
  BY <1>1 DEF TypeProcessus, Sessions
<1>3. CASE \/ LireDiffusions \/ LireFin \/ TesterOpenChat \/ SuiteMessage \/ EcrireTube
           \/ TraiterReponse \/ AfficherListeNumerotee \/ SuiteListe \/ OuvrirChat
           \/ EcrireExit \/ Tronquer \/ FermerChat \/ FermerTube
           \/ Sortir \/ ServeurDiffuse \/ ServeurArrete \/ UNCHANGED vars
           \/ \E k \in Sessions : OuvrirAfficheur(k) \/ Afficher(k) \/ PerdreAfficheur(k)
  <2>1. UNCHANGED <<sessions, nom>>
    BY <1>3 DEF LireDiffusions, LireFin, TesterOpenChat, SuiteMessage, EcrireTube,
                TraiterReponse, AfficherListeNumerotee, SuiteListe, OuvrirChat, EcrireExit,
                Tronquer, FermerChat, FermerTube, Sortir, ServeurDiffuse, ServeurArrete,
                OuvrirAfficheur, Afficher, PerdreAfficheur, chat, vars
  <2> QED
    BY <1>2, <2>1, RienNeRevient DEF ExitVu
<1>4. CASE CreerTube
  <2>1. nom = 0 /\ sessions' = sessions + 1 /\ nom' = sessions + 1
    BY <1>4 DEF CreerTube, P, Etapes
  <2>2. \A k \in 1..sessions' : k = nom' \/ k \in 1..sessions
    BY <1>1, <2>1 DEF TypeProcessus
  <2>3. \A k \in 1..sessions : k # nom
    BY <1>1, <2>1 DEF TypeProcessus
  <2> QED
    BY <1>2, <2>2, <2>3, RienNeRevient DEF ExitVu
<1>5. CASE SupprimerTube
  <2>1. sessions' = sessions /\ principal.etape = "supprimerTube"
    BY <1>5 DEF SupprimerTube, P
  <2>2. ASSUME etat = "vivant", NEW k \in 1..sessions, k \notin presses, Exit \notin sautes[k]
        PROVE  afficheurs[k].etape \in {"fini", "perdu"}
    <3>1. CASE k # nom
      BY <2>2, <3>1 DEF ExitVu
    <3>2. CASE k = nom
      <4>1. k = sessions
        BY <1>1, <3>2 DEF Etapes, TypeProcessus
      <4> QED
        BY <2>1, <2>2, <4>1 DEF Fins
    <3> QED
      BY <3>1, <3>2
  <2> QED
    BY <1>2, <2>1, <2>2, RienNeRevient DEF ExitVu
<1> QED
  BY <1>3, <1>4, <1>5, Pas

(***************************************************************************)
(* The steps of ThreadEcoute: from where they start and what they leave.   *)
(***************************************************************************)
LEMMA EcouteSuivante ==
  ASSUME TypeTextes
  PROVE  /\ LireDiffusions => ecoute.etape = "lire" /\ ecoute'.etape = "tester"
         /\ LireFin => ecoute.etape = "lire" /\ ecoute'.etape = "testerNul"
         /\ TesterOpenChat => \/ ecoute.etape = "tester" /\ ecoute'.etape \in {"suite", "lire"}
                              \/ ecoute.etape = "testerNul" /\ ecoute'.etape = "lire"
                              \/ ecoute.etape = "testerNul" /\ ecoute' = ecoute
         /\ SuiteMessage =>
              \/ /\ ecoute.etape = "suite" /\ ecoute'.etape = "noter"
                 /\ ecoute'.mot = Premier(curseur) /\ curseur' = curseur
              \/ /\ ecoute.etape = "noter" /\ ecoute'.etape = "ecrire"
                 /\ ecoute'.mot = ecoute.mot
         /\ EcrireTube => ecoute.etape = "ecrire" /\ ecoute'.etape = "lire"
         /\ Sortir => ecoute'.etape = "lire"
<1>1. ecoute \in EcouteType
  BY DEF TypeTextes
<1>2. /\ LireDiffusions => ecoute.etape = "lire" /\ ecoute'.etape = "tester"
      /\ LireFin => ecoute.etape = "lire" /\ ecoute'.etape = "testerNul"
      /\ EcrireTube => ecoute.etape = "ecrire" /\ ecoute'.etape = "lire"
  BY <1>1 DEF LireDiffusions, LireFin, EcrireTube, E, PasserE, EcouteType
<1>5. Sortir => ecoute'.etape = "lire"
  BY DEF Sortir, AuDebut
<1>3. TesterOpenChat => \/ ecoute.etape = "tester" /\ ecoute'.etape \in {"suite", "lire"}
                        \/ ecoute.etape = "testerNul" /\ ecoute'.etape = "lire"
                        \/ ecoute.etape = "testerNul" /\ ecoute' = ecoute
  BY <1>1 DEF TesterOpenChat, E, PasserE, EcouteType
<1>4. ASSUME SuiteMessage
      PROVE  \/ /\ ecoute.etape = "suite" /\ ecoute'.etape = "noter"
                /\ ecoute'.mot = Premier(curseur) /\ curseur' = curseur
             \/ /\ ecoute.etape = "noter" /\ ecoute'.etape = "ecrire"
                /\ ecoute'.mot = ecoute.mot
  <2>1. CASE E("suite") /\ ecoute' = [etape |-> "noter", mot |-> Premier(curseur), reste |-> Reste(curseur)]
             /\ curseur' = curseur
    BY <1>1, <2>1 DEF E, EcouteType
  <2>2. CASE E("noter") /\ ecoute' = [ecoute EXCEPT !.etape = "ecrire", !.reste = <<>>]
    BY <1>1, <2>2 DEF E, EcouteType
  <2> QED
    BY <1>4, <2>1, <2>2 DEF SuiteMessage
<1> QED
  BY <1>2, <1>3, <1>4, <1>5

LEMMA CurseurStable ==
  ASSUME IInv, [Next]_vars
  PROVE  Curseur'
<1> USE DEF IInv
<1>1. TypeTextes /\ Morceaux
  BY TypesParGroupe
<1>2. CASE \/ ServeurDiffuse \/ ServeurArrete \/ UNCHANGED vars
           \/ \E k \in Sessions : OuvrirAfficheur(k) \/ Afficher(k) \/ PerdreAfficheur(k)
  <2>1. UNCHANGED <<croise, curseur, reponse, principal, ecoute, lus>>
    BY <1>2 DEF ServeurDiffuse, ServeurArrete, OuvrirAfficheur, Afficher, PerdreAfficheur, strtok,
                ecouteur, affichage, vars
  <2>2. serveur' = serveur \/ ~serveur'
    BY <1>2 DEF ServeurDiffuse, ServeurArrete, OuvrirAfficheur, Afficher, PerdreAfficheur, reseau, vars
  <2> QED
    BY <2>1, <2>2 DEF Curseur, PrincipalCoupe, EcouteCoupe, ListeEnCours, DiffusionEnCours
<1>3. CASE \/ CreerTube \/ OuvrirChat \/ EcrireExit \/ Tronquer \/ FermerChat
           \/ FermerTube \/ SupprimerTube
  <2>1. UNCHANGED <<croise, curseur, reponse, ecoute, lus, serveur>>
    BY <1>3 DEF CreerTube, OuvrirChat, EcrireExit, Tronquer, FermerChat, FermerTube,
                SupprimerTube, reseau, strtok, ecouteur, affichage
  <2>2. /\ principal.etape \notin {"menu", "lister", "noter"}
        /\ principal'.etape \notin {"lister", "noter"}
    BY <1>1, <1>3, EtapeSuivante
  <2> QED
    BY <2>1, <2>2 DEF Curseur, PrincipalCoupe, EcouteCoupe, ListeEnCours, DiffusionEnCours
<1>4. CASE LireDiffusions
  <2>1. UNCHANGED <<reponse, principal, serveur>>
        /\ (~croise' => ~croise /\ ~PrincipalCoupe)
    BY <1>4 DEF LireDiffusions, Couper, reseau, affichage
  <2>2. ecoute'.etape = "tester"
    BY <1>1, <1>4, EcouteSuivante
  <2>3. curseur' # <<>> /\ \E n \in 1..lus' : curseur'[1] \in Diffusion(n)
    <3>1. PICK n \in (lus + 1)..arrives :
             /\ lus' = n
             /\ curseur' = [i \in 1..(n - lus) |-> IF lus + i = n THEN Message(n)
                                                   ELSE Colle(lus + i)]
      BY <1>4 DEF LireDiffusions, Couper
    <3>2. lus \in Nat /\ arrives \in Nat
      BY <1>1, ClientChatAssumption DEF TypeTextes
    <3>3. 1 \in 1..(n - lus) /\ lus + 1 \in 1..n
      BY <3>1, <3>2
    <3>4. DOMAIN curseur' = 1..(n - lus) /\ curseur'[1] \in Diffusion(lus + 1)
      BY <3>1, <3>3 DEF Diffusion
    <3>5. curseur' # <<>>
      <4>1. DOMAIN <<>> = {}
        OBVIOUS
      <4> QED
        BY <3>3, <3>4, <4>1
    <3> QED
      BY <3>1, <3>3, <3>4, <3>5
  <2> QED
    BY <2>1, <2>2, <2>3 DEF Curseur, PrincipalCoupe, EcouteCoupe, ListeEnCours, DiffusionEnCours
<1>5. CASE LireFin
  <2>1. UNCHANGED <<reponse, principal, serveur>> /\ ~serveur
        /\ (~croise' => ~croise /\ ~PrincipalCoupe)
    BY <1>5 DEF LireFin, Couper, reseau, affichage
  <2>2. ecoute'.etape = "testerNul"
    BY <1>1, <1>5, EcouteSuivante
  <2> QED
    BY <2>1, <2>2 DEF Curseur, PrincipalCoupe, EcouteCoupe, ListeEnCours, DiffusionEnCours
<1>6. CASE TesterOpenChat \/ EcrireTube \/ Sortir
  <2>1. UNCHANGED <<croise, serveur, lus>>
    BY <1>6 DEF TesterOpenChat, EcrireTube, Sortir, strtok, reseau
  <2>2. UNCHANGED <<curseur, reponse, principal>> \/ principal'.etape = "menu"
    BY <1>6 DEF TesterOpenChat, EcrireTube, Sortir, strtok, affichage, AuMenu
  <2>3. \/ ecoute'.etape = "lire"
        \/ ecoute.etape = "tester" /\ ecoute'.etape = "suite" /\ curseur' = curseur
           /\ principal' = principal
        \/ ecoute' = ecoute /\ ecoute.etape = "testerNul"
    BY <1>1, <1>6, EcouteSuivante DEF TesterOpenChat, strtok
  <2> QED
    BY <2>1, <2>2, <2>3 DEF Curseur, PrincipalCoupe, EcouteCoupe, ListeEnCours, DiffusionEnCours
<1>7. CASE SuiteMessage
  <2>1. UNCHANGED <<croise, serveur, lus, reponse, principal>>
    BY <1>7 DEF SuiteMessage, reseau, affichage
  <2>2. \/ /\ ecoute.etape = "suite" /\ ecoute'.etape = "noter"
           /\ ecoute'.mot = Premier(curseur) /\ curseur' = curseur
        \/ /\ ecoute.etape = "noter" /\ ecoute'.etape = "ecrire"
           /\ ecoute'.mot = ecoute.mot
    BY <1>1, <1>7, EcouteSuivante
  <2>3. curseur # <<>> => Premier(curseur) = curseur[1]
    BY <1>1, PremierEtReste DEF Morceaux
  <2>4. ~croise => ~PrincipalCoupe /\ ~PrincipalCoupe'
    BY <2>1, <2>2 DEF Curseur, EcouteCoupe, PrincipalCoupe
  <2>5. ~croise => ListeEnCours'
    BY <2>1, <2>4 DEF PrincipalCoupe, ListeEnCours
  <2>6. ~croise => DiffusionEnCours'
    BY <2>1, <2>2, <2>3 DEF Curseur, DiffusionEnCours
  <2> QED
    BY <2>1, <2>4, <2>5, <2>6 DEF Curseur
<1>8. CASE TraiterReponse
  <2>1. UNCHANGED <<serveur, lus, ecoute>> /\ (~croise' => ~croise /\ ~EcouteCoupe)
    BY <1>8 DEF TraiterReponse, Couper, reseau, ecouteur
  <2>2. principal'.etape \in {"menu", "creerTube", "afficherListe", "exit"}
    BY <1>1, <1>8, EtapeSuivante
  <2> QED
    BY <2>1, <2>2 DEF Curseur, PrincipalCoupe, EcouteCoupe, ListeEnCours, DiffusionEnCours
<1>9. CASE AfficherListeNumerotee
  <2>1. UNCHANGED <<serveur, lus, ecoute>> /\ curseur' = reponse'
        /\ (~croise' => ~croise /\ ~EcouteCoupe)
    BY <1>9 DEF AfficherListeNumerotee, Couper, reseau, ecouteur
  <2>2. principal'.etape \in {"lister", "menu"}
    BY <1>1, <1>9, EtapeSuivante
  <2> QED
    BY <2>1, <2>2 DEF Curseur, PrincipalCoupe, EcouteCoupe, ListeEnCours, DiffusionEnCours
<1>10. CASE SuiteListe
  <2>1. UNCHANGED <<serveur, lus, ecoute, croise>>
    BY <1>10 DEF SuiteListe, reseau, ecouteur
  <2>2. principal \in PrincipalType
    BY <1>1 DEF TypeTextes
  <2>3. CASE P("lister")
    <3>1. /\ UNCHANGED <<curseur, reponse>> /\ principal.etape = "lister"
          /\ principal'.etape = "noter"
          /\ principal'.mot = Premier(curseur) /\ principal'.reste = Reste(curseur)
      BY <1>10, <2>2, <2>3 DEF SuiteListe, P, PrincipalType
    <3>2. ~croise => ListeEnCours'
      BY <3>1 DEF Curseur, ListeEnCours
    <3> QED
      BY <2>1, <3>1, <3>2 DEF Curseur, PrincipalCoupe, EcouteCoupe, DiffusionEnCours
  <2>4. CASE P("noter")
    <3>1. /\ principal.etape = "noter" /\ curseur' = principal.reste
          /\ \/ principal'.etape = "menu"
             \/ principal'.etape = "lister" /\ reponse' = Reste(reponse)
      BY <1>10, <2>2, <2>4 DEF SuiteListe, P, Noter, PrincipalType
    <3>2. ~croise => ListeEnCours'
      BY <3>1 DEF Curseur, ListeEnCours
    <3> QED
      BY <2>1, <3>1, <3>2 DEF Curseur, PrincipalCoupe, EcouteCoupe, DiffusionEnCours
  <2> QED
    BY <1>10, <2>3, <2>4 DEF SuiteListe
<1> QED
  BY <1>2, <1>3, <1>4, <1>5, <1>6, <1>7, <1>8, <1>9, <1>10, Pas

(***************************************************************************)
(* What a step may put into a file, and where.                             *)
(***************************************************************************)
LEMMA FichiersSuivants ==
  ASSUME IInv, [Next]_vars
  PROVE  \/ UNCHANGED fichiers
         \/ /\ tube \in Sessions
            /\ \A k \in Sessions : fichiers'[k] = IF k = tube THEN <<>> ELSE fichiers[k]
         \/ /\ tube \in Sessions /\ pos \in Nat /\ Len(fichiers[tube]) <= pos
            /\ \/ EcrireExit
               \/ EcrireTube /\ ecoute.etape = "ecrire" /\ ecoute.mot # Nul
            /\ \A k \in Sessions \ {tube} : fichiers'[k] = fichiers[k]
            /\ DOMAIN fichiers'[tube] = 1..(pos + 1)
            /\ fichiers'[tube][pos + 1] = IF EcrireExit THEN Exit ELSE ecoute.mot
            /\ \A i \in 1..pos : fichiers'[tube][i] =
                 IF i \in DOMAIN fichiers[tube] THEN fichiers[tube][i] ELSE Trou
<1> USE DEF IInv
<1>1. TypeProcessus /\ TypeTextes
  BY TypesParGroupe
<1>2. /\ tube # 0 => tube \in Sessions /\ Len(fichiers[tube]) <= pos
      /\ pos \in Nat /\ fichiers \in [Sessions -> Seq(Textes)]
  BY <1>1 DEF TypeProcessus, Sessions, Etapes
<1>3. CASE \/ LireDiffusions \/ LireFin \/ TesterOpenChat \/ SuiteMessage
           \/ TraiterReponse \/ AfficherListeNumerotee \/ SuiteListe
           \/ CreerTube \/ OuvrirChat \/ FermerChat \/ FermerTube \/ SupprimerTube
           \/ Sortir \/ ServeurDiffuse \/ ServeurArrete \/ UNCHANGED vars
           \/ \E k \in Sessions : OuvrirAfficheur(k) \/ Afficher(k) \/ PerdreAfficheur(k)
  <2>1. UNCHANGED fichiers
    BY <1>3 DEF LireDiffusions, LireFin, TesterOpenChat, SuiteMessage, TraiterReponse,
                AfficherListeNumerotee, SuiteListe, CreerTube, OuvrirChat, FermerChat,
                FermerTube, SupprimerTube, Sortir, ServeurDiffuse, ServeurArrete,
                OuvrirAfficheur, Afficher, PerdreAfficheur, vars
  <2> QED
    BY <2>1
<1>4. CASE Tronquer
  <2>1. tube # 0 /\ fichiers' = [fichiers EXCEPT ![tube] = <<>>]
    BY <1>4 DEF Tronquer, P, Etapes
  <2> QED
    BY <1>2, <2>1
<1>5. CASE EcrireExit
  <2>1. tube # 0 /\ Ecrire(Exit) /\ Exit \in Textes
    BY <1>5, CoupesSontTextes DEF EcrireExit, P, Etapes
  <2>2. /\ \A k \in Sessions \ {tube} : fichiers'[k] = fichiers[k]
        /\ DOMAIN fichiers'[tube] = 1..(pos + 1)
        /\ fichiers'[tube][pos + 1] = Exit
        /\ \A i \in 1..pos : fichiers'[tube][i] =
             IF i \in DOMAIN fichiers[tube] THEN fichiers[tube][i] ELSE Trou
    BY <1>2, <2>1, EcrireEffet
  <2> QED
    BY <1>2, <1>5, <2>1, <2>2
<1>6. CASE EcrireTube /\ ~UNCHANGED fichiers
  <2>1. /\ tube # 0 /\ ecoute.mot # Nul /\ Ecrire(ecoute.mot)
        /\ ecoute.etape = "ecrire"
    BY <1>6 DEF EcrireTube, E
  <2>2. ecoute.mot \in Textes
    BY CoupesSontTextes DEF Morceaux
  <2>3. /\ \A k \in Sessions \ {tube} : fichiers'[k] = fichiers[k]
        /\ DOMAIN fichiers'[tube] = 1..(pos + 1)
        /\ fichiers'[tube][pos + 1] = ecoute.mot
        /\ \A i \in 1..pos : fichiers'[tube][i] =
             IF i \in DOMAIN fichiers[tube] THEN fichiers[tube][i] ELSE Trou
    BY <1>2, <2>1, <2>2, EcrireEffet
  <2>4. ~EcrireExit
    <3>1. ecoute'.etape = "lire"
      BY <1>1, <1>6, EcouteSuivante
    <3>2. EcrireExit => ecoute' = ecoute
      BY DEF EcrireExit, ecouteur
    <3> QED
      BY <2>1, <3>1, <3>2
  <2> QED
    BY <1>2, <1>6, <2>1, <2>3, <2>4
<1> QED
  BY <1>3, <1>4, <1>5, <1>6, Pas

\* The texts, told apart by their first component.
LEMMA TextesDistincts ==
  /\ \A n : \A t \in Diffusion(n) : t[1] \in {"message", "colle"} /\ t[2] = n
  /\ Exit[1] = "exit" /\ Trou[1] = "trou" /\ Mot[1] = "mot" /\ Nul[1] = "nul"
  /\ Nom(1)[1] = "nom" /\ Nom(2)[1] = "nom"
BY DEF Diffusion, Message, Colle, Exit, Trou, Mot, Nul, Nom

LEMMA CroiseReste ==
  ASSUME [Next]_vars, croise
  PROVE  croise'
BY Pas DEF LireDiffusions, LireFin, TesterOpenChat, SuiteMessage, EcrireTube,
           TraiterReponse, AfficherListeNumerotee, SuiteListe, CreerTube, OuvrirChat,
           EcrireExit, Tronquer, FermerChat, FermerTube, SupprimerTube, Sortir,
           ServeurDiffuse, ServeurArrete, OuvrirAfficheur, Afficher, PerdreAfficheur,
           Couper, strtok, vars

LEMMA SansCroisementStable ==
  ASSUME IInv, TypeOK', Curseur', [Next]_vars
  PROVE  SansCroisement'
<1> USE DEF IInv
<1> SUFFICES ASSUME ~croise, ~croise'
             PROVE  /\ principal'.etape = "noter" => principal'.mot = Premier(reponse)'
                    /\ \A k \in Sessions :
                         ToSet(fichiers'[k]) \cap {Mot, Nul, Nom(1), Nom(2)} = {}
                    /\ etat' = "nul" => ~serveur'
  BY CroiseReste DEF SansCroisement
<1>1. TypeProcessus /\ TypeTextes
  BY TypesParGroupe
<1>2. principal'.etape = "noter" => principal'.mot = Premier(reponse)'
  BY DEF Curseur, ListeEnCours
<1>4. \A k \in Sessions : ToSet(fichiers'[k]) \cap {Mot, Nul, Nom(1), Nom(2)} = {}
  <2> DEFINE X == {Mot, Nul, Nom(1), Nom(2)}
  <2>1. \A k \in Sessions : \A i \in DOMAIN fichiers[k] : fichiers[k][i] \notin X
    BY DEF SansCroisement, ToSet
  <2>2. Exit \notin X /\ Trou \notin X /\ \A n : \A t \in Diffusion(n) : t \notin X
    BY TextesDistincts
  <2>3. ecoute.etape = "ecrire" => ecoute.mot \notin X
    BY <2>2 DEF Curseur, DiffusionEnCours
  <2> HIDE DEF X
  <2>4. ASSUME NEW k \in Sessions, NEW i \in DOMAIN fichiers'[k]
        PROVE  fichiers'[k][i] \notin X
    <3>1. CASE UNCHANGED fichiers
      BY <2>1, <2>4, <3>1
    <3>2. CASE \A m \in Sessions : fichiers'[m] = IF m = tube THEN <<>> ELSE fichiers[m]
      BY <2>1, <2>4, <3>2
    <3>3. CASE /\ tube \in Sessions /\ pos \in Nat /\ Len(fichiers[tube]) <= pos
               /\ \/ EcrireExit
                  \/ EcrireTube /\ ecoute.etape = "ecrire" /\ ecoute.mot # Nul
               /\ \A m \in Sessions \ {tube} : fichiers'[m] = fichiers[m]
               /\ DOMAIN fichiers'[tube] = 1..(pos + 1)
               /\ fichiers'[tube][pos + 1] = IF EcrireExit THEN Exit ELSE ecoute.mot
               /\ \A j \in 1..pos : fichiers'[tube][j] =
                    IF j \in DOMAIN fichiers[tube] THEN fichiers[tube][j] ELSE Trou
      <4>1. CASE k # tube
        BY <2>1, <2>4, <3>3, <4>1
      <4>2. CASE k = tube /\ i = pos + 1
        BY <2>2, <2>3, <3>3, <4>2
      <4>3. CASE k = tube /\ i # pos + 1
        <5>1. i \in 1..pos
          BY <2>4, <3>3, <4>3
        <5> QED
          BY <2>1, <2>2, <3>3, <4>3, <5>1
      <4> QED
        BY <4>1, <4>2, <4>3
    <3> QED
      BY <3>1, <3>2, <3>3, FichiersSuivants
  <2>5. \A k \in Sessions : ToSet(fichiers'[k]) \cap X = {}
    BY <2>4 DEF ToSet
  <2> QED
    BY <2>5 DEF X
<1>5. etat' = "nul" => ~serveur'
  <2>1. ~serveur => ~serveur'
    <3>1. serveur' = serveur \/ ~serveur'
      BY Pas DEF LireDiffusions, LireFin, TesterOpenChat, SuiteMessage, EcrireTube,
           TraiterReponse, AfficherListeNumerotee, SuiteListe, CreerTube, OuvrirChat,
           EcrireExit, Tronquer, FermerChat, FermerTube, SupprimerTube, Sortir,
           ServeurDiffuse, ServeurArrete, OuvrirAfficheur, Afficher, PerdreAfficheur, reseau, vars
    <3> QED
      BY <3>1
  <2>2. etat' # "nul" \/ etat' = etat \/ TesterOpenChat \/ EcrireTube
    <3>1. SupprimerTube \/ Sortir => etat' = "fini" \/ etat' = etat
      BY DEF SupprimerTube, RevenirAuMenu, Sortir
    <3>2. \/ etat' = etat \/ SupprimerTube \/ Sortir \/ TesterOpenChat \/ EcrireTube
      BY Pas DEF LireDiffusions, LireFin, SuiteMessage,
           TraiterReponse, AfficherListeNumerotee, SuiteListe, CreerTube, OuvrirChat,
           EcrireExit, Tronquer, FermerChat, FermerTube,
           ServeurDiffuse, ServeurArrete, OuvrirAfficheur, Afficher, PerdreAfficheur, vars
    <3> QED
      BY <3>1, <3>2
  <2>3. TesterOpenChat /\ etat' = "nul" => etat = "nul" \/ ~serveur
    <3>1. TesterOpenChat /\ etat' = "nul" => etat = "nul" \/ ecoute.etape = "testerNul"
      BY DEF TesterOpenChat, E
    <3> QED
      BY <3>1 DEF Curseur, DiffusionEnCours
  <2>4. EcrireTube /\ etat' = "nul" => etat = "nul"
    <3>1. EcrireTube /\ etat' = "nul" => etat = "nul" \/ (ecoute.etape = "ecrire" /\ ecoute.mot = Nul)
      BY DEF EcrireTube, E
    <3>2. ecoute.etape = "ecrire" => ecoute.mot # Nul
      BY TextesDistincts DEF Curseur, DiffusionEnCours
    <3> QED
      BY <3>1, <3>2
  <2>5. etat = "nul" => ~serveur
    BY DEF SansCroisement
  <2> QED
    BY <2>1, <2>2, <2>3, <2>4, <2>5
<1> QED
  BY <1>2, <1>4, <1>5

(***************************************************************************)
(* What ThreadEcoute is to pass on only grows; when it writes, it has      *)
(* passed on this broadcast.                                               *)
(***************************************************************************)
LEMMA ProchainCroit ==
  ASSUME IInv, Curseur', TypeOK', [Next]_vars, ~croise, ~croise'
  PROVE  /\ Prochain \in Nat /\ Prochain' \in Nat /\ Prochain <= Prochain'
         /\ EcrireTube => ecoute.mot \in Diffusion(Prochain) /\ Prochain < Prochain'
<1> USE DEF IInv
<1>1. /\ TypeTextes /\ TypeTextes'
      /\ lus \in Nat /\ lus' \in Nat
  <2>1. TypeTextes /\ TypeTextes' /\ MaxDiffusions \in Nat
    BY TypesParGroupe, ClientChatAssumption DEF TypeOK, TypeTextes, EcouteType, PrincipalType
  <2> QED
    BY <2>1 DEF TypeTextes
<1>2. \A n : \A t \in Diffusion(n) : t[2] = n
  BY TextesDistincts
<1>3. /\ ecoute.etape \in {"tester", "suite"} => Prochain = curseur[1][2] /\ Prochain \in 1..lus
      /\ ecoute.etape \in {"noter", "ecrire"} =>
           Prochain = ecoute.mot[2] /\ Prochain \in 1..lus /\ ecoute.mot \in Diffusion(Prochain)
      /\ ecoute.etape \in {"lire", "testerNul"} => Prochain = lus + 1
  BY <1>2 DEF Prochain, Curseur, DiffusionEnCours
<1>4. /\ ecoute'.etape \in {"tester", "suite"} =>
           Prochain' = curseur'[1][2] /\ Prochain' \in 1..lus'
      /\ ecoute'.etape \in {"noter", "ecrire"} =>
           Prochain' = ecoute'.mot[2] /\ Prochain' \in 1..lus'
      /\ ecoute'.etape \in {"lire", "testerNul"} => Prochain' = lus' + 1
  BY <1>2 DEF Prochain, Curseur, DiffusionEnCours
<1>5. /\ ecoute.etape \in {"lire", "tester", "testerNul", "suite", "noter", "ecrire"}
      /\ ecoute'.etape \in {"lire", "tester", "testerNul", "suite", "noter", "ecrire"}
  BY <1>1 DEF TypeTextes, EcouteType
<1>6. Prochain \in Nat /\ Prochain' \in Nat /\ Prochain <= lus + 1 /\ Prochain' <= lus' + 1
  BY <1>1, <1>3, <1>4, <1>5
<1> HIDE DEF Prochain
<1>7. CASE LireDiffusions
  <2>1. /\ ecoute.etape = "lire" /\ ecoute'.etape = "tester"
        /\ principal' = principal
    BY <1>1, <1>7, EcouteSuivante DEF LireDiffusions
  <2>2. PICK n \in (lus + 1)..arrives :
           /\ lus' = n
           /\ curseur' = [i \in 1..(n - lus) |-> IF lus + i = n THEN Message(n)
                                                 ELSE Colle(lus + i)]
    BY <1>7 DEF LireDiffusions, Couper
  <2>3. curseur'[1] \in Diffusion(lus + 1)
    <3>1. 1 \in 1..(n - lus)
      BY <1>1, <2>2, ClientChatAssumption DEF TypeTextes
    <3> QED
      BY <2>2, <3>1 DEF Diffusion
  <2>4. ~EcrireTube
    BY <1>1, <2>1, EcouteSuivante
  <2> QED
    BY <1>2, <1>3, <1>4, <1>6, <2>1, <2>3, <2>4
<1>8. CASE EcrireTube
  <2>1. ecoute.etape = "ecrire" /\ ecoute'.etape = "lire" /\ lus' = lus
    BY <1>1, <1>8, EcouteSuivante DEF EcrireTube
  <2> QED
    BY <1>1, <1>3, <1>4, <1>6, <2>1
<1>9. CASE LireFin \/ TesterOpenChat \/ Sortir
  <2>1. lus' = lus
    BY <1>9 DEF LireFin, TesterOpenChat, Sortir
  <2>2. \/ ecoute'.etape \in {"lire", "testerNul"}
        \/ ecoute.etape = "tester" /\ ecoute'.etape = "suite" /\ curseur' = curseur
    BY <1>1, <1>9, EcouteSuivante DEF TesterOpenChat, strtok
  <2> QED
    BY <1>1, <1>3, <1>4, <1>6, <1>8, <2>1, <2>2
<1>10. CASE SuiteMessage
  <2>1. curseur \in Seq(Coupes) /\ (ecoute.etape = "suite" => curseur # <<>>)
    BY DEF Morceaux, Curseur, DiffusionEnCours
  <2>2. \/ /\ ecoute.etape = "suite" /\ ecoute'.etape = "noter"
           /\ ecoute'.mot = curseur[1]
        \/ /\ ecoute.etape = "noter" /\ ecoute'.etape = "ecrire"
           /\ ecoute'.mot = ecoute.mot
    BY <1>1, <1>10, <2>1, EcouteSuivante, PremierEtReste
  <2> QED
    BY <1>1, <1>3, <1>4, <1>6, <1>8, <2>2
<1>11. CASE \/ TraiterReponse \/ AfficherListeNumerotee \/ SuiteListe \/ CreerTube \/ OuvrirChat
            \/ EcrireExit \/ Tronquer \/ FermerChat \/ FermerTube \/ SupprimerTube
            \/ ServeurDiffuse \/ ServeurArrete \/ UNCHANGED vars
            \/ \E k \in Sessions : OuvrirAfficheur(k) \/ Afficher(k) \/ PerdreAfficheur(k)
  <2>1. lus' = lus /\ ecoute' = ecoute
    BY <1>11 DEF TraiterReponse, AfficherListeNumerotee, SuiteListe, CreerTube, OuvrirChat,
            EcrireExit, Tronquer, FermerChat, FermerTube, SupprimerTube, ServeurDiffuse,
            ServeurArrete, OuvrirAfficheur, Afficher, PerdreAfficheur, ecouteur, vars
  <2>2. curseur' = curseur \/ ecoute.etape \notin {"tester", "suite"}
    <3>1. CASE TraiterReponse \/ AfficherListeNumerotee
      BY <3>1 DEF TraiterReponse, AfficherListeNumerotee, Couper, EcouteCoupe
    <3>2. CASE SuiteListe
      <4>1. principal.etape \in {"lister", "noter"}
        BY <1>1, <3>2, EtapeSuivante
      <4> QED
        BY <4>1 DEF Curseur, PrincipalCoupe, EcouteCoupe
    <3>3. CASE ~(TraiterReponse \/ AfficherListeNumerotee \/ SuiteListe)
      BY <1>11, <3>3 DEF CreerTube, OuvrirChat,
            EcrireExit, Tronquer, FermerChat, FermerTube, SupprimerTube, ServeurDiffuse,
            ServeurArrete, OuvrirAfficheur, Afficher, PerdreAfficheur, strtok, vars
    <3> QED
      BY <3>1, <3>2, <3>3
  <2>3. Prochain' = Prochain
    BY <1>3, <1>4, <1>5, <2>1, <2>2
  <2> QED
    BY <1>6, <1>8, <2>3
<1> QED
  BY <1>7, <1>8, <1>9, <1>10, <1>11, Pas

(***************************************************************************)
(* Only a read and the loss of the window change what has been shown; who  *)
(* starts has shown nothing, and a window that is lost shows no more.      *)
(***************************************************************************)
LEMMA LectureSuivante ==
  ASSUME IInv, [Next]_vars
  PROVE  \/ \E k \in Sessions : Afficher(k)
         \/ \A k \in Sessions :
              \/ montres'[k] = montres[k] /\ (afficheurs'[k] = afficheurs[k] \/ montres[k] = <<>>)
              \/ montres'[k] = <<>> /\ afficheurs'[k].etape = "perdu"
<1> USE DEF IInv
<1>1. /\ TypeProcessus /\ TypeLecteurs
      /\ \A k \in Sessions : k > sessions => afficheurs[k].etape = "absent"
      /\ \A k \in Sessions : afficheurs[k].etape \in {"absent", "lance"} => montres[k] = <<>>
  BY TypesParGroupe DEF Lecteurs, LecteursAVenir, Ordres
<1>2. CASE \/ LireDiffusions \/ LireFin \/ TesterOpenChat \/ SuiteMessage \/ EcrireTube
           \/ TraiterReponse \/ AfficherListeNumerotee \/ SuiteListe \/ OuvrirChat
           \/ EcrireExit \/ Tronquer \/ FermerChat \/ FermerTube \/ SupprimerTube
           \/ Sortir \/ ServeurDiffuse \/ ServeurArrete \/ UNCHANGED vars
  <2>1. UNCHANGED lecture
    BY <1>2 DEF LireDiffusions, LireFin, TesterOpenChat, SuiteMessage, EcrireTube,
                TraiterReponse, AfficherListeNumerotee, SuiteListe, OuvrirChat, EcrireExit,
                Tronquer, FermerChat, FermerTube, SupprimerTube, Sortir, ServeurDiffuse,
                ServeurArrete, affichage, lecture, vars
  <2> QED
    BY <2>1 DEF lecture
<1>3. CASE CreerTube
  <2>1. montres' = montres
        /\ afficheurs' = [afficheurs EXCEPT ![sessions + 1].etape = "lance"]
    BY <1>3 DEF CreerTube, Lancer
  <2>2. sessions + 1 \in Sessions => montres[sessions + 1] = <<>>
    BY <1>1 DEF TypeProcessus
  <2>3. \A k \in Sessions : k # sessions + 1 => afficheurs'[k] = afficheurs[k]
    BY <1>1, <2>1 DEF TypeLecteurs
  <2> QED
    BY <2>1, <2>2, <2>3
<1>4. ASSUME NEW k \in Sessions, OuvrirAfficheur(k)
      PROVE  /\ montres' = montres
             /\ \A m \in Sessions : afficheurs'[m] = afficheurs[m] \/ montres[m] = <<>>
  <2>1. montres' = montres
    BY <1>4 DEF OuvrirAfficheur
  <2>2. montres[k] = <<>> /\ \A m \in Sessions \ {k} : afficheurs'[m] = afficheurs[m]
    BY <1>1, <1>4, OuvrirEffet DEF TypeLecteurs
  <2> QED
    BY <2>1, <2>2
<1>5. ASSUME NEW k \in Sessions, PerdreAfficheur(k)
      PROVE  /\ montres'[k] = <<>> /\ afficheurs'[k].etape = "perdu"
             /\ \A m \in Sessions \ {k} : montres'[m] = montres[m] /\ afficheurs'[m] = afficheurs[m]
  BY <1>1, <1>5, PerdreEffet
<1> QED
  BY <1>2, <1>3, <1>4, <1>5, Pas

\* What a broadcast in a file or on the screen looks like.
LEMMA MessageEst ==
  ASSUME NEW t \in Textes, EstMessage(t)
  PROVE  t[2] \in Nat /\ t \in Diffusion(t[2])
<1>1. PICK n \in 1..MaxDiffusions : t \in Diffusion(n)
  BY QuiEstTexte, TextesDistincts DEF EstMessage
<1> QED
  BY <1>1, TextesDistincts

(***************************************************************************)
(* Files stay in the order of the broadcasts, and below the next one.      *)
(***************************************************************************)
LEMMA FichiersOrdonnesStables ==
  ASSUME IInv, TypeOK', Curseur', [Next]_vars, ~croise, ~croise'
  PROVE  FichiersOrdonnes'
<1> USE DEF IInv
<1>1. FichiersOrdonnes
  BY DEF Ordres
<1>2. /\ Prochain \in Nat /\ Prochain' \in Nat /\ Prochain <= Prochain'
      /\ EcrireTube => ecoute.mot \in Diffusion(Prochain) /\ Prochain < Prochain'
  BY ProchainCroit
<1>3. /\ \A f \in Sessions : \A i \in DOMAIN fichiers[f] :
           EstMessage(fichiers[f][i]) => fichiers[f][i][2] \in Nat
      /\ \A f \in Sessions : DOMAIN fichiers[f] = 1..Len(fichiers[f]) /\ Len(fichiers[f]) \in Nat
  <2>1. fichiers \in [Sessions -> Seq(Textes)]
    BY DEF TypeOK
  <2>2. ASSUME NEW f \in Sessions, NEW i \in DOMAIN fichiers[f], EstMessage(fichiers[f][i])
        PROVE  fichiers[f][i][2] \in Nat
    <3>1. fichiers[f][i] \in Textes
      BY <2>1
    <3> QED
      BY <2>2, <3>1, MessageEst
  <2> QED
    BY <2>1, <2>2
<1>4. ~EstMessage(Exit) /\ ~EstMessage(Trou)
      /\ \A n : \A t \in Diffusion(n) : EstMessage(t) /\ t[2] = n
  BY TextesDistincts DEF EstMessage
<1> HIDE DEF Prochain
<1>5. CASE UNCHANGED fichiers
  BY <1>1, <1>2, <1>3, <1>5 DEF FichiersOrdonnes
<1>6. CASE \A k \in Sessions : fichiers'[k] = IF k = tube THEN <<>> ELSE fichiers[k]
  <2>1. \A k \in Sessions : \A i \in DOMAIN fichiers'[k] : fichiers'[k] = fichiers[k]
    BY <1>6
  <2> QED
    BY <1>1, <1>2, <1>3, <2>1 DEF FichiersOrdonnes
<1>7. CASE /\ tube \in Sessions /\ pos \in Nat /\ Len(fichiers[tube]) <= pos
           /\ \/ EcrireExit
              \/ EcrireTube /\ ecoute.etape = "ecrire" /\ ecoute.mot # Nul
           /\ \A m \in Sessions \ {tube} : fichiers'[m] = fichiers[m]
           /\ DOMAIN fichiers'[tube] = 1..(pos + 1)
           /\ fichiers'[tube][pos + 1] = IF EcrireExit THEN Exit ELSE ecoute.mot
           /\ \A j \in 1..pos : fichiers'[tube][j] =
                IF j \in DOMAIN fichiers[tube] THEN fichiers[tube][j] ELSE Trou
  <2>1. ASSUME NEW i \in 1..pos, EstMessage(fichiers'[tube][i])
        PROVE  i \in DOMAIN fichiers[tube] /\ fichiers'[tube][i] = fichiers[tube][i]
    BY <1>4, <1>7, <2>1
  <2>2. ASSUME EstMessage(fichiers'[tube][pos + 1])
        PROVE  fichiers'[tube][pos + 1][2] = Prochain /\ Prochain < Prochain'
    BY <1>2, <1>4, <1>7, <2>2
  <2>3. \A i \in DOMAIN fichiers'[tube] : i \in 1..pos \/ i = pos + 1
    BY <1>7
  <2>4. ASSUME NEW f \in Sessions, NEW i \in DOMAIN fichiers'[f], EstMessage(fichiers'[f][i])
        PROVE  fichiers'[f][i][2] < Prochain'
    <3>1. CASE f # tube
      <4>1. fichiers'[f] = fichiers[f]
        BY <1>7, <3>1
      <4> QED
        BY <1>1, <1>2, <1>3, <2>4, <4>1 DEF FichiersOrdonnes
    <3>2. CASE f = tube /\ i \in 1..pos
      <4>1. i \in DOMAIN fichiers[tube] /\ fichiers'[tube][i] = fichiers[tube][i]
        BY <2>1, <2>4, <3>2
      <4>2. fichiers[tube][i][2] < Prochain /\ fichiers[tube][i][2] \in Nat
        BY <1>1, <1>3, <1>7, <2>4, <3>2, <4>1 DEF FichiersOrdonnes
      <4> QED
        BY <1>2, <3>2, <4>1, <4>2
    <3>3. CASE f = tube /\ i = pos + 1
      BY <2>2, <2>4, <3>3
    <3> QED
      BY <2>3, <3>1, <3>2, <3>3
  <2>5. ASSUME NEW f \in Sessions, NEW i \in DOMAIN fichiers'[f], NEW j \in DOMAIN fichiers'[f],
               i < j, EstMessage(fichiers'[f][i]), EstMessage(fichiers'[f][j])
        PROVE  fichiers'[f][i][2] < fichiers'[f][j][2]
    <3>1. CASE f # tube
      <4>1. fichiers'[f] = fichiers[f]
        BY <1>7, <3>1
      <4> QED
        BY <1>1, <2>5, <4>1 DEF FichiersOrdonnes
    <3>2. CASE f = tube
      <4>1. i \in 1..pos
        BY <1>7, <2>5, <3>2
      <4>2. i \in DOMAIN fichiers[tube] /\ fichiers'[tube][i] = fichiers[tube][i]
        BY <2>1, <2>5, <3>2, <4>1
      <4>3. CASE j = pos + 1
        <5>1. fichiers[tube][i][2] < Prochain
          BY <1>1, <1>7, <2>5, <3>2, <4>2 DEF FichiersOrdonnes
        <5>2. fichiers'[tube][j][2] = Prochain
          BY <2>2, <2>5, <3>2, <4>3
        <5> QED
          BY <3>2, <4>2, <5>1, <5>2
      <4>4. CASE j \in 1..pos
        <5>1. j \in DOMAIN fichiers[tube] /\ fichiers'[tube][j] = fichiers[tube][j]
          BY <2>1, <2>5, <3>2, <4>4
        <5> QED
          BY <1>1, <1>7, <2>5, <3>2, <4>2, <5>1 DEF FichiersOrdonnes
      <4> QED
        BY <2>3, <3>2, <4>3, <4>4
    <3> QED
      BY <3>1, <3>2
  <2> QED
    BY <2>4, <2>5 DEF FichiersOrdonnes
<1> QED
  BY <1>5, <1>6, <1>7, FichiersSuivants

LEMMA OrdresStables ==
  ASSUME IInv, TypeOK', Curseur', [Next]_vars
  PROVE  Ordres' /\ AffichageOrdonne'
<1> USE DEF IInv
<1>1. /\ fichiers \in [Sessions -> Seq(Textes)] /\ montres \in [Sessions -> Seq(Textes)]
      /\ afficheurs \in [Sessions -> AfficheurType]
      /\ \A k \in Sessions : afficheurs[k].etape \in {"absent", "lance"} => montres[k] = <<>>
      /\ \A k \in Sessions : \A i \in DOMAIN montres[k] : EstMessage(montres[k][i])
  BY TypesParGroupe DEF TypeProcessus, TypeLecteurs, Ordres
<1>2. ASSUME NEW k \in Sessions, NEW i \in DOMAIN montres[k]
      PROVE  montres[k][i][2] \in Nat
  <2>1. montres[k][i] \in Textes /\ EstMessage(montres[k][i])
    BY <1>1
  <2> QED
    BY <2>1, MessageEst
<1>3. ASSUME ~croise, ~croise'
      PROVE  /\ FichiersOrdonnes /\ MontresAvant /\ AffichageOrdonne
             /\ FichiersOrdonnes'
             /\ Prochain \in Nat /\ Prochain' \in Nat /\ Prochain <= Prochain'
             /\ EcrireTube => ecoute.mot \in Diffusion(Prochain) /\ Prochain < Prochain'
  BY <1>3, FichiersOrdonnesStables, ProchainCroit DEF Ordres
<1> HIDE DEF Prochain
<1>4. CASE \A k \in Sessions :
             \/ montres'[k] = montres[k] /\ (afficheurs'[k] = afficheurs[k] \/ montres[k] = <<>>)
             \/ montres'[k] = <<>> /\ afficheurs'[k].etape = "perdu"
  <2>0. /\ \A k \in Sessions : montres'[k] = montres[k] \/ montres'[k] = <<>>
        /\ DOMAIN <<>> = {}
    BY <1>4
  <2>1. /\ \A k \in Sessions : afficheurs'[k].etape \in {"absent", "lance"} => montres'[k] = <<>>
        /\ \A k \in Sessions : \A i \in DOMAIN montres'[k] : EstMessage(montres'[k][i])
    BY <1>1, <1>4, <2>0
  <2>2. AffichageOrdonne'
    BY <2>0, CroiseReste DEF AffichageOrdonne
  <2>3. ASSUME ~croise, ~croise'
        PROVE  MontresAvant'
    <3>1. \A k \in Sessions : \A i \in DOMAIN montres'[k] : montres'[k][i][2] < Prochain'
      BY <1>2, <1>3, <2>0, <2>3 DEF MontresAvant
    <3>2. ASSUME NEW k \in Sessions, afficheurs'[k].etape = "lit",
                 NEW i \in DOMAIN montres'[k], NEW j \in DOMAIN fichiers'[afficheurs'[k].fichier],
                 j > afficheurs'[k].pos, EstMessage(fichiers'[afficheurs'[k].fichier][j])
          PROVE  montres'[k][i][2] < fichiers'[afficheurs'[k].fichier][j][2]
      <4> DEFINE f == afficheurs[k].fichier
      <4>1. /\ afficheurs'[k] = afficheurs[k] /\ i \in DOMAIN montres[k]
            /\ montres'[k] = montres[k]
        BY <1>4, <2>0, <3>2
      <4>2. f \in Sessions
        <5>1. f \in 1..sessions
          BY <3>2, <4>1 DEF Lecteurs, LecteursOuverts
        <5>2. sessions \in 0..MaxSessions /\ MaxSessions \in Nat
          BY TypesParGroupe, ClientChatAssumption DEF TypeProcessus
        <5> QED
          BY <5>1, <5>2 DEF Sessions
      <4>3. /\ montres[k][i][2] < Prochain /\ montres[k][i][2] \in Nat
            /\ \A m \in DOMAIN fichiers[f] :
                 m > afficheurs[k].pos /\ EstMessage(fichiers[f][m])
                   => montres[k][i][2] < fichiers[f][m][2]
        BY <1>2, <1>3, <2>3, <3>2, <4>1 DEF MontresAvant
      <4> HIDE DEF f
      <4>4. /\ j \in DOMAIN fichiers'[f] /\ j > afficheurs[k].pos /\ EstMessage(fichiers'[f][j])
        BY <3>2, <4>1 DEF f
      <4>5. ~EstMessage(Exit) /\ ~EstMessage(Trou) /\ \A n : \A t \in Diffusion(n) : t[2] = n
        BY TextesDistincts DEF EstMessage
      <4>6. \/ j \in DOMAIN fichiers[f] /\ fichiers'[f][j] = fichiers[f][j]
            \/ fichiers'[f][j][2] = Prochain
        <5>1. CASE UNCHANGED fichiers
          BY <4>4, <5>1
        <5>2. CASE \A m \in Sessions : fichiers'[m] = IF m = tube THEN <<>> ELSE fichiers[m]
          BY <4>2, <4>4, <5>2
        <5>3. CASE /\ tube \in Sessions /\ pos \in Nat /\ Len(fichiers[tube]) <= pos
                   /\ \/ EcrireExit
                      \/ EcrireTube /\ ecoute.etape = "ecrire" /\ ecoute.mot # Nul
                   /\ \A m \in Sessions \ {tube} : fichiers'[m] = fichiers[m]
                   /\ DOMAIN fichiers'[tube] = 1..(pos + 1)
                   /\ fichiers'[tube][pos + 1] = IF EcrireExit THEN Exit ELSE ecoute.mot
                   /\ \A m \in 1..pos : fichiers'[tube][m] =
                        IF m \in DOMAIN fichiers[tube] THEN fichiers[tube][m] ELSE Trou
          <6>1. CASE f # tube
            BY <4>2, <4>4, <5>3, <6>1
          <6>2. CASE f = tube /\ j = pos + 1
            BY <1>3, <2>3, <4>4, <4>5, <5>3, <6>2
          <6>3. CASE f = tube /\ j # pos + 1
            <7>1. j \in 1..pos
              BY <4>4, <5>3, <6>3
            <7> QED
              BY <4>4, <4>5, <5>3, <6>3, <7>1
          <6> QED
            BY <6>1, <6>2, <6>3
        <5> QED
          BY <5>1, <5>2, <5>3, FichiersSuivants
      <4>7. montres[k][i][2] < fichiers'[f][j][2]
        BY <4>3, <4>4, <4>6
      <4> QED
        BY <4>1, <4>7 DEF f
    <3> QED
      BY <3>1, <3>2 DEF MontresAvant
  <2> QED
    BY <1>3, <2>1, <2>2, <2>3, CroiseReste DEF Ordres
<1>5. ASSUME NEW k \in Sessions, Afficher(k)
      PROVE  Ordres' /\ AffichageOrdonne'
  <2>1. UNCHANGED <<fichiers, croise>>
    BY <1>5 DEF Afficher, strtok
  <2>2. PICK f \in Sessions, p \in Nat, n \in Nat, S \in SUBSET Textes :
          /\ afficheurs[k].etape = "lit" /\ afficheurs[k].fichier = f /\ afficheurs[k].pos = p
          /\ p + 1 <= n /\ n <= Len(fichiers[f]) /\ p + 1 \in DOMAIN fichiers[f]
          /\ afficheurs' = [afficheurs EXCEPT ![k] =
               IF fichiers[f][p + 1] = Exit THEN [etape |-> "fini", fichier |-> 0, pos |-> 0]
               ELSE [etape |-> "lit", fichier |-> f, pos |-> n]]
          /\ montres' = [montres EXCEPT ![k] =
               IF EstMessage(fichiers[f][p + 1]) THEN Append(montres[k], fichiers[f][p + 1])
               ELSE montres[k]]
          /\ sautes' = [sautes EXCEPT ![k] = sautes[k] \cup S]
          /\ \A i \in (p + 2)..n : fichiers[f][i] = Exit => Exit \in S
    BY <1>5, AfficherEffet
  <2> DEFINE t == fichiers[f][p + 1]
  <2>3. /\ \A m \in Sessions \ {k} : afficheurs'[m] = afficheurs[m] /\ montres'[m] = montres[m]
        /\ afficheurs'[k].etape \in {"fini", "lit"}
        /\ afficheurs'[k].etape = "lit" => afficheurs'[k].fichier = f /\ afficheurs'[k].pos = n
    BY <1>1, <2>2
  <2>4. t \in Textes /\ montres[k] \in Seq(Textes)
    BY <1>1, <2>2
  <2>5. montres'[k] = IF EstMessage(t) THEN Append(montres[k], t) ELSE montres[k]
    BY <1>1, <2>2
  <2> HIDE DEF t
  <2>6. \A i \in DOMAIN montres'[k] :
          \/ i \in DOMAIN montres[k] /\ montres'[k][i] = montres[k][i]
          \/ i = Len(montres[k]) + 1 /\ montres'[k][i] = t /\ EstMessage(t)
    BY <2>4, <2>5
  <2>7. /\ DOMAIN montres[k] = 1..Len(montres[k]) /\ Len(montres[k]) \in Nat
        /\ DOMAIN montres'[k] \subseteq Nat
    BY <2>4, <2>6
  <2>8. /\ \A m \in Sessions : afficheurs'[m].etape \in {"absent", "lance"} => montres'[m] = <<>>
        /\ \A m \in Sessions : \A i \in DOMAIN montres'[m] : EstMessage(montres'[m][i])
    BY <1>1, <2>3, <2>6
  <2>9. ASSUME ~croise, ~croise'
        PROVE  /\ \A i \in DOMAIN montres[k] : EstMessage(t) => montres[k][i][2] < t[2]
               /\ EstMessage(t) => t[2] < Prochain /\ t[2] \in Nat
    <3>1. p + 1 > p
      OBVIOUS
    <3>2. FichiersOrdonnes /\ MontresAvant
      BY <1>3, <2>9
    <3> QED
      BY <2>2, <2>4, <3>1, <3>2, MessageEst DEF FichiersOrdonnes, MontresAvant, t
  <2>10. ASSUME ~croise, ~croise'
         PROVE  AffichageOrdonne'
    <3>1. \A m \in Sessions : \A i, j \in DOMAIN montres[m] :
            i < j => montres[m][i][2] < montres[m][j][2]
      BY <1>3, <2>10 DEF AffichageOrdonne
    <3>2. \A i, j \in DOMAIN montres'[k] : i < j => montres'[k][i][2] < montres'[k][j][2]
      <4> SUFFICES ASSUME NEW i \in DOMAIN montres'[k], NEW j \in DOMAIN montres'[k], i < j
                   PROVE  montres'[k][i][2] < montres'[k][j][2]
        OBVIOUS
      <4>1. i \in DOMAIN montres[k] /\ montres'[k][i] = montres[k][i]
        BY <2>6, <2>7
      <4> QED
        BY <2>6, <2>9, <2>10, <3>1, <4>1
    <3> QED
      BY <2>3, <3>1, <3>2 DEF AffichageOrdonne
  <2>11. ASSUME ~croise, ~croise'
         PROVE  MontresAvant'
    <3>1. /\ FichiersOrdonnes /\ MontresAvant
          /\ Prochain \in Nat /\ Prochain' \in Nat /\ Prochain <= Prochain'
      BY <1>3, <2>11
    <3>2. ASSUME NEW m \in Sessions, NEW i \in DOMAIN montres'[m]
          PROVE  montres'[m][i][2] < Prochain'
      <4>1. \A q \in DOMAIN montres[m] : montres[m][q][2] < Prochain'
        BY <1>2, <3>1 DEF MontresAvant
      <4>2. EstMessage(t) => t[2] < Prochain'
        BY <2>9, <2>11, <3>1
      <4> QED
        BY <2>3, <2>6, <3>2, <4>1, <4>2
    <3>3. ASSUME NEW m \in Sessions, afficheurs'[m].etape = "lit",
                 NEW i \in DOMAIN montres'[m], NEW j \in DOMAIN fichiers[afficheurs'[m].fichier],
                 j > afficheurs'[m].pos, EstMessage(fichiers[afficheurs'[m].fichier][j])
          PROVE  montres'[m][i][2] < fichiers[afficheurs'[m].fichier][j][2]
      <4>1. CASE m # k
        BY <2>3, <3>1, <3>3, <4>1 DEF MontresAvant
      <4>2. CASE m = k
        <5>1. /\ j \in DOMAIN fichiers[f] /\ EstMessage(fichiers[f][j])
              /\ afficheurs'[m].fichier = f /\ j > n
          BY <2>3, <3>3, <4>2
        <5>2. j > p /\ p + 1 < j
          BY <1>1, <2>2, <5>1
        <5>3. CASE i \in DOMAIN montres[k] /\ montres'[k][i] = montres[k][i]
          BY <2>2, <3>1, <4>2, <5>1, <5>2, <5>3 DEF MontresAvant
        <5>4. CASE montres'[k][i] = t /\ EstMessage(t)
          BY <2>2, <3>1, <4>2, <5>1, <5>2, <5>4 DEF FichiersOrdonnes, t
        <5> QED
          BY <2>6, <3>3, <4>2, <5>3, <5>4
      <4> QED
        BY <4>1, <4>2
    <3> QED
      BY <2>1, <3>2, <3>3 DEF MontresAvant
  <2> QED
    BY <1>3, <2>8, <2>10, <2>11, CroiseReste DEF Ordres, AffichageOrdonne
<1> QED
  BY <1>4, <1>5, LectureSuivante

-----------------------------------------------------------------------------
(* The theorems. *)

LEMMA IInvStable ==
  ASSUME IInv, [Next]_vars
  PROVE  IInv'
<1>1. TypeProcessus' /\ TypeTextes' /\ TypeLecteurs' /\ Morceaux'
  BY TypeProcessusStable, TypeTextesStable, TypeLecteursStable
<1>2. TypeOK'
  BY <1>1, TypesParGroupe DEF TypeOK, TypeProcessus, TypeTextes, TypeLecteurs, EcouteType,
     PrincipalType, AfficheurType
<1>3. Etapes'
  BY <1>2, EtapesStables
<1>4. Lecteurs'
  BY <1>2, <1>3, LecteursStables
<1>5. Fins'
  BY <1>2, <1>4, FinsStables
<1>6. ExitVu'
  BY ExitVuStable
<1>7. Curseur'
  BY CurseurStable
<1>8. SansCroisement'
  BY <1>2, <1>7, SansCroisementStable
<1>9. Ordres' /\ AffichageOrdonne'
  BY <1>2, <1>7, OrdresStables
<1> QED
  BY <1>1, <1>2, <1>3, <1>4, <1>5, <1>6, <1>7, <1>8, <1>9 DEF IInv

(***************************************************************************)
(* All the parts hold in every state of a client, for every number of      *)
(* connections and of broadcasts.                                          *)
(***************************************************************************)
THEOREM InvarianceClient == Spec => []IInv
<1>1. Init => IInv
  BY InitIInv
<1>2. IInv /\ [Next]_vars => IInv'
  BY IInvStable
<1> QED
  BY <1>1, <1>2, PTL DEF Spec

(***************************************************************************)
(* Types, and the file that is open is the one that has the name: the file *)
(* descriptor of LancerAfficheur never outlives the name of its connection.*)
(***************************************************************************)
THEOREM TypeClient == Spec => []TypeOK
<1>1. IInv => TypeOK
  BY DEF IInv
<1> QED
  BY <1>1, InvarianceClient, PTL

(***************************************************************************)
(* At no step of LancerAfficheur and FermerAfficheur is the chat open and  *)
(* the file of the messages closed, and the menu goes with the chat.       *)
(***************************************************************************)
THEOREM ChatJamaisSansTube == Spec => []ChatOuvert
<1>1. IInv => ChatOuvert
  <2> SUFFICES ASSUME IInv PROVE ChatOuvert
    OBVIOUS
  <2>1. etat_co \in BOOLEAN /\ openChat \in BOOLEAN
    BY TypesParGroupe DEF IInv, TypeProcessus
  <2>2. openChat => tube # 0
    BY DEF IInv, Etapes
  <2>3. principal.etape = "menu" => (etat_co <=> openChat)
    BY DEF IInv, Etapes
  <2> QED
    BY <2>1, <2>2, <2>3 DEF ChatOuvert
<1> QED
  BY <1>1, InvarianceClient, PTL

(***************************************************************************)
(* A connected user whose chat is open has a reader, on the file that is   *)
(* being written, or about to open it under the name it has.               *)
(***************************************************************************)
THEOREM AfficheurDeLaConnexion == Spec => []AfficheurOuvert
<1>1. IInv => AfficheurOuvert
  <2> SUFFICES ASSUME IInv, openChat, etat_co
               PROVE  \/ afficheurs[sessions].etape = "lance" /\ nom = tube
                      \/ afficheurs[sessions].etape = "perdu"
                      \/ afficheurs[sessions].etape = "lit" /\ afficheurs[sessions].fichier = tube
    BY DEF AfficheurOuvert
  <2>1. tube # 0 /\ tube = sessions /\ nom = sessions
    BY DEF IInv, Etapes
  <2>2. tube \in Sessions /\ afficheurs \in [Sessions -> AfficheurType]
    BY <2>1, TypesParGroupe, ClientChatAssumption
       DEF IInv, TypeProcessus, TypeLecteurs, Sessions
  <2>3. afficheurs[tube].etape \in {"absent", "lance", "lit", "fini", "perdu"}
    BY <2>2 DEF AfficheurType
  <2> QED
    BY <2>1, <2>3 DEF IInv, Lecteurs, LecteurPresent
<1> QED
  BY <1>1, InvarianceClient, PTL

(***************************************************************************)
(* As long as the threads have not cut texts at the same time, no reader   *)
(* shows a broadcast twice, or one after a later one.                      *)
(***************************************************************************)
THEOREM AffichageDansLOrdre == Spec => []AffichageOrdonne
<1>1. IInv => AffichageOrdonne
  BY DEF IInv
<1> QED
  BY <1>1, InvarianceClient, PTL

(***************************************************************************)
(* As long as the threads have not cut texts at the same time, what is     *)
(* received is what is shown: all parts of a reply to LISTEUTILISATEUR,    *)
(* whatever it is, and in the file broadcasts only, though one may have    *)
(* the first word of the next behind it.  Nor does a NULL pointer end the  *)
(* process while the server is there.                                      *)
(***************************************************************************)
THEOREM CeQuiEstRecuEstMontre == Spec => []SansCroisement
<1>1. IInv => SansCroisement
  BY DEF IInv
<1> QED
  BY <1>1, InvarianceClient, PTL

(***************************************************************************)
(* The reader of a connection that was closed in order has ended, unless   *)
(* sleep(1) was too short for it or "exit" followed a message in one read. *)
(***************************************************************************)
THEOREM ExitTermineLAfficheur == Spec => []ExitVu
<1>1. IInv => ExitVu
  BY DEF IInv
<1> QED
  BY <1>1, InvarianceClient, PTL

=============================================================================
