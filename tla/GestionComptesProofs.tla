------------------------- MODULE GestionComptesProofs -------------------------
(***************************************************************************)
(* Proofs about the account server: for every number of calls at a time,   *)
(* of accounts and of files, it implements ICompte until two calls have    *)
(* overlapped that could disturb each other, and loses no account as long  *)
(* as no deletion has overlapped another call or been cut short.           *)
(***************************************************************************)
EXTENDS GestionComptes, SequenceTheorems, FiniteSetTheorems, WellFoundedInduction, TLAPS

-----------------------------------------------------------------------------
(* The loop of a deletion. *)

LEMMA Recurrence ==
  ASSUME NEW T \in SUBSET Nat, 0 \in T, \A n \in T : n + 1 \in T
  PROVE  \A n \in Nat : n \in T
<1> DEFINE R == OpToRel(<, Nat)
<1>1. IsWellFoundedOn(R, Nat)
  BY NatLessThanWellFounded
<1>2. SUFFICES ASSUME Nat \ T # {}
               PROVE  FALSE
  OBVIOUS
<1>3. PICK m \in Nat \ T : \A n \in Nat \ T : ~(<<n, m>> \in R)
  <2> HIDE DEF R
  <2> QED
    BY <1>1, <1>2, WFMin
<1>4. m # 0 /\ m - 1 \in Nat /\ m - 1 < m
  OBVIOUS
<1>5. m - 1 \in T
  BY <1>3, <1>4 DEF OpToRel
<1>6. (m - 1) + 1 \in T
  BY <1>5
<1> HIDE DEF R
<1>7. (m - 1) + 1 = m /\ m \notin T
  BY <1>3
<1> QED
  BY <1>6, <1>7

LEMMA ToSetAppend ==
  ASSUME NEW S, NEW q \in Seq(S), NEW x \in S
  PROVE  Append(q, x) \in Seq(S) /\ ToSet(Append(q, x)) = ToSet(q) \cup {x}
<1>1. /\ DOMAIN q = 1..Len(q) /\ Len(q) \in Nat
      /\ DOMAIN Append(q, x) = 1..(Len(q) + 1)
      /\ Append(q, x)[Len(q) + 1] = x
      /\ \A j \in 1..Len(q) : Append(q, x)[j] = q[j]
  OBVIOUS
<1>2. \A j : j \in 1..(Len(q) + 1) <=> j \in 1..Len(q) \/ j = Len(q) + 1
  BY <1>1
<1> QED
  BY <1>1, <1>2 DEF ToSet

(***************************************************************************)
(* What is copied are accounts, and all but the one that is deleted.       *)
(***************************************************************************)
LEMMA SaufEffet ==
  ASSUME NEW S, NEW s \in Seq(S), NEW id
  PROVE  Sauf(s, id) \in Seq(S) /\ ToSet(Sauf(s, id)) = ToSet(s) \ {id}
<1> DEFINE Suivant(copie, i) ==
             IF i = 0 THEN <<>>
             ELSE IF s[i] = id THEN copie[i - 1] ELSE Append(copie[i - 1], s[i])
<1>1. \A n \in Nat : \E g : g = [i \in 0..n |-> Suivant(g, i)]
  <2> DEFINE T == {n \in Nat : \E g : g = [i \in 0..n |-> Suivant(g, i)]}
  <2>1. 0 \in T
    <3> DEFINE g == [i \in 0..0 |-> <<>>]
    <3>1. g = [i \in 0..0 |-> Suivant(g, i)]
      OBVIOUS
    <3> HIDE DEF g
    <3> QED
      BY <3>1
  <2>2. ASSUME NEW n \in T
        PROVE  n + 1 \in T
    <3>1. PICK h : h = [i \in 0..n |-> Suivant(h, i)]
      OBVIOUS
    <3> DEFINE g == [i \in 0..(n + 1) |-> IF i = n + 1 THEN Suivant(h, i) ELSE h[i]]
    <3>2. \A i \in 0..n : h[i] = Suivant(h, i)
      BY <3>1
    <3>3. \A i \in 0..(n + 1) : i # 0 => g[i - 1] = h[i - 1]
      OBVIOUS
    <3>4. \A i \in 0..(n + 1) : g[i] = Suivant(g, i)
      BY <3>2, <3>3
    <3>5. g = [i \in 0..(n + 1) |-> g[i]]
      OBVIOUS
    <3> HIDE DEF g
    <3>6. g = [i \in 0..(n + 1) |-> Suivant(g, i)]
      BY <3>4, <3>5
    <3> HIDE DEF Suivant
    <3> QED
      BY <3>6
  <2> HIDE DEF T
  <2>3. \A n \in Nat : n \in T
    <3>1. T \in SUBSET Nat
      BY DEF T
    <3> QED
      BY <2>1, <2>2, <3>1, Recurrence
  <2> QED
    BY <2>3 DEF T
<1>2. PICK g : g = [i \in 0..Len(s) |-> Suivant(g, i)] /\ Sauf(s, id) = g[Len(s)]
  <2>1. Len(s) \in Nat
    OBVIOUS
  <2>2. \E h : h = [i \in 0..Len(s) |-> Suivant(h, i)]
    BY <1>1, <2>1
  <2> QED
    BY <2>2 DEF Sauf
<1>3. \A i \in 0..Len(s) : g[i] = Suivant(g, i)
  BY <1>2
<1> HIDE DEF Suivant
<1> DEFINE Bon(n) == g[n] \in Seq(S) /\ ToSet(g[n]) = {s[j] : j \in 1..n} \ {id}
           T == {n \in Nat : n <= Len(s) => Bon(n)}
<1>4. 0 \in T
  <2>1. g[0] = <<>>
    <3>1. 0 \in 0..Len(s)
      OBVIOUS
    <3> QED
      BY <1>3, <3>1 DEF Suivant
  <2>2. ToSet(<<>>) = {} /\ {s[j] : j \in 1..0} = {}
    BY DEF ToSet
  <2>3. Bon(0)
    BY <2>1, <2>2
  <2> HIDE DEF Bon
  <2> QED
    BY <2>3
<1>5. ASSUME NEW n \in T
      PROVE  n + 1 \in T
  <2> SUFFICES ASSUME n + 1 <= Len(s)
               PROVE  Bon(n + 1)
    OBVIOUS
  <2>1. n \in Nat /\ Bon(n) /\ n + 1 \in 1..Len(s) /\ s[n + 1] \in S
    OBVIOUS
  <2>2. g[n + 1] = IF s[n + 1] = id THEN g[n] ELSE Append(g[n], s[n + 1])
    BY <1>3, <2>1 DEF Suivant
  <2>3. {s[j] : j \in 1..(n + 1)} = {s[j] : j \in 1..n} \cup {s[n + 1]}
    <3>1. \A j : j \in 1..(n + 1) <=> j \in 1..n \/ j = n + 1
      BY <2>1
    <3> QED
      BY <3>1
  <2> QED
    BY <2>1, <2>2, <2>3, ToSetAppend
<1> HIDE DEF T
<1>6. Len(s) \in T
  <2>1. T \in SUBSET Nat
    BY DEF T
  <2>2. \A n \in Nat : n \in T
    BY <1>4, <1>5, <2>1, Recurrence
  <2> QED
    BY <2>2
<1>7. ToSet(s) = {s[j] : j \in 1..Len(s)}
  BY DEF ToSet
<1> QED
  BY <1>2, <1>6, <1>7 DEF T

-----------------------------------------------------------------------------
(* The inductive invariant. *)

AppelType == [op : Ops \cup {"aucun"}, id : Ids \cup {Aucun}, etape : Etapes,
              lu : Fichiers \cup {Aucun}, ecrit : Fichiers \cup {Aucun},
              tampon : Seq(Ids), issue : Issues \cup {"attendue"}]

\* What a call knows at each of its steps, whatever the others do.
Coherent(a) ==
  /\ appel[a].etape = "libre" => appel[a] = Libre
  /\ appel[a].etape # "libre" => appel[a].op \in Ops /\ appel[a].id \in Ids
  /\ appel[a].etape = "rendre" => appel[a].issue \in Issues
  /\ appel[a].etape # "rendre" => appel[a].issue = "attendue"
  /\ appel[a].etape \in {"ajouter", "vider"} => appel[a].op = "creerCompte"
  /\ appel[a].etape \in {"relire", "temporaire", "copier", "effacer", "renommer", "fermer"} =>
       appel[a].op = "supprimerCompter"
  /\ appel[a].etape \in {"lire", "ajouter", "vider", "relire", "temporaire", "copier"} =>
       appel[a].lu \in Fichiers
  /\ appel[a].etape \in {"vider", "copier", "effacer", "renommer", "fermer"} =>
       appel[a].ecrit \in Fichiers

\* No deletion has met another call: each of the two histories knows of that.
Tranquille == ~(chevauche /\ risque)

\* Then a deletion under way is alone ..
Seule ==
  \A a, b \in Appelants :
    a # b /\ EnCours(a) /\ EnCours(b) => appel[a].op # "supprimerCompter"

\* .. and finds at each step the files as it has left them.
Fidele(a) ==
  /\ appel[a].etape \in {"lire", "ajouter", "vider", "relire", "temporaire", "copier", "effacer"} =>
       appel[a].lu = nom.listeComptes /\ nom.listeComptes # Aucun
  /\ appel[a].etape = "vider" => appel[a].ecrit = nom.listeComptes
  /\ appel[a].etape \in {"relire", "temporaire", "copier", "effacer"} =>
       appel[a].id \in Lignes(nom.listeComptes)
  /\ appel[a].etape \in {"copier", "effacer", "renommer"} =>
       appel[a].ecrit = nom.tempFile
  /\ appel[a].etape \in {"copier", "effacer", "renommer", "fermer"} =>
       contenu[appel[a].ecrit] = <<>>
  /\ appel[a].etape = "effacer" =>
       ToSet(appel[a].tampon) = Lignes(nom.listeComptes) \ {appel[a].id}
  /\ appel[a].etape \in {"renommer", "fermer"} => appel[a].id \notin ToSet(appel[a].tampon)
  /\ appel[a].etape = "renommer" => nom.listeComptes = Aucun
  /\ appel[a].etape = "fermer" => appel[a].ecrit = nom.listeComptes

\* A name that is about to be created is not in the list, and nobody else is
\* about to create it.
NomLibre(a) ==
  /\ appel[a].etape \in {"ajouter", "vider"} =>
       \A id \in Lignes(nom.listeComptes) : id.pseudo # appel[a].id.pseudo
  /\ \A b \in Appelants :
       a # b /\ EnCours(a) /\ EnCours(b)
         /\ appel[a].op = "creerCompte" /\ appel[b].op = "creerCompte"
         => appel[a].id.pseudo # appel[b].id.pseudo

\* An account that must stay is there, and no deletion under way is about it.
AcquisLa ==
  /\ acquis \subseteq Comptes
  /\ \A a \in Appelants :
       EnCours(a) /\ appel[a].op = "supprimerCompter" => appel[a].id \notin acquis

IInv ==
  /\ TypeOK
  /\ \A a \in Appelants : Coherent(a)
  /\ Tranquille => Seule /\ \A a \in Appelants : Fidele(a)
  /\ ~chevauche => \A a \in Appelants : NomLibre(a)
  /\ ~risque => AcquisLa

-----------------------------------------------------------------------------
(* What the steps of a call do to it. *)

\* The calls of the others stay as they are.
Autres(a) == \A b \in Appelants : b # a => appel'[b] = appel[b]

LEMMA EffetPasser ==
  ASSUME appel \in [Appelants -> AppelType], NEW a \in Appelants, NEW e \in Etapes,
         Passer(a, e)
  PROVE  /\ appel' \in [Appelants -> AppelType] /\ Autres(a)
         /\ appel'[a].etape = e
         /\ appel'[a].op = appel[a].op /\ appel'[a].id = appel[a].id
         /\ appel'[a].lu = appel[a].lu /\ appel'[a].ecrit = appel[a].ecrit
         /\ appel'[a].tampon = appel[a].tampon /\ appel'[a].issue = appel[a].issue
<1> DEFINE r == [appel[a] EXCEPT !.etape = e]
<1>1. r \in AppelType
  BY DEF AppelType
<1>2. /\ r.etape = e /\ r.op = appel[a].op /\ r.id = appel[a].id /\ r.lu = appel[a].lu
      /\ r.ecrit = appel[a].ecrit /\ r.tampon = appel[a].tampon /\ r.issue = appel[a].issue
  BY DEF AppelType
<1>3. appel' = [appel EXCEPT ![a] = r]
  BY DEF Passer
<1> HIDE DEF r
<1> QED
  BY <1>1, <1>2, <1>3 DEF Autres

LEMMA EffetOuvrirLu ==
  ASSUME appel \in [Appelants -> AppelType], NEW a \in Appelants, NEW e \in Etapes,
         NEW f \in Fichiers, Ouvrir(a, "lu", f, e)
  PROVE  /\ appel' \in [Appelants -> AppelType] /\ Autres(a)
         /\ appel'[a].etape = e /\ appel'[a].lu = f
         /\ appel'[a].op = appel[a].op /\ appel'[a].id = appel[a].id
         /\ appel'[a].ecrit = appel[a].ecrit
         /\ appel'[a].tampon = appel[a].tampon /\ appel'[a].issue = appel[a].issue
<1> DEFINE r == [appel[a] EXCEPT !.lu = f, !.etape = e]
<1>1. r \in AppelType
  BY DEF AppelType
<1>2. /\ r.etape = e /\ r.op = appel[a].op /\ r.id = appel[a].id /\ r.lu = f
      /\ r.ecrit = appel[a].ecrit /\ r.tampon = appel[a].tampon /\ r.issue = appel[a].issue
  BY DEF AppelType
<1>3. appel' = [appel EXCEPT ![a] = r]
  BY DEF Ouvrir
<1> HIDE DEF r
<1> QED
  BY <1>1, <1>2, <1>3 DEF Autres

LEMMA EffetOuvrirEcrit ==
  ASSUME appel \in [Appelants -> AppelType], NEW a \in Appelants, NEW e \in Etapes,
         NEW f \in Fichiers, Ouvrir(a, "ecrit", f, e)
  PROVE  /\ appel' \in [Appelants -> AppelType] /\ Autres(a)
         /\ appel'[a].etape = e /\ appel'[a].ecrit = f
         /\ appel'[a].op = appel[a].op /\ appel'[a].id = appel[a].id
         /\ appel'[a].lu = appel[a].lu
         /\ appel'[a].tampon = appel[a].tampon /\ appel'[a].issue = appel[a].issue
<1> DEFINE r == [appel[a] EXCEPT !.ecrit = f, !.etape = e]
<1>1. r \in AppelType
  BY DEF AppelType
<1>2. /\ r.etape = e /\ r.op = appel[a].op /\ r.id = appel[a].id /\ r.lu = appel[a].lu
      /\ r.ecrit = f /\ r.tampon = appel[a].tampon /\ r.issue = appel[a].issue
  BY DEF AppelType
<1>3. appel' = [appel EXCEPT ![a] = r]
  BY DEF Ouvrir
<1> HIDE DEF r
<1> QED
  BY <1>1, <1>2, <1>3 DEF Autres

LEMMA EffetFinir ==
  ASSUME appel \in [Appelants -> AppelType], NEW a \in Appelants, NEW issue \in Issues,
         Finir(a, issue)
  PROVE  /\ appel' \in [Appelants -> AppelType] /\ Autres(a)
         /\ appel'[a].etape = "rendre" /\ appel'[a].issue = issue
         /\ appel'[a].op = appel[a].op /\ appel'[a].id = appel[a].id
<1> DEFINE r == [Libre EXCEPT !.op = appel[a].op, !.id = appel[a].id,
                              !.etape = "rendre", !.issue = issue]
<1>1. Libre \in AppelType
  BY DEF Libre, AppelType, Etapes
<1>2. r \in AppelType
  BY <1>1 DEF AppelType, Etapes
<1>3. /\ r.etape = "rendre" /\ r.op = appel[a].op /\ r.id = appel[a].id /\ r.issue = issue
  BY <1>1 DEF AppelType
<1>4. appel' = [appel EXCEPT ![a] = r]
  BY DEF Finir
<1> HIDE DEF r
<1> QED
  BY <1>2, <1>3, <1>4 DEF Autres

LEMMA EffetAppeler ==
  ASSUME appel \in [Appelants -> AppelType], NEW a \in Appelants, Appeler(a)
  PROVE  \E op \in Ops, id \in Ids :
           /\ appel' \in [Appelants -> AppelType] /\ Autres(a)
           /\ appel[a].etape = "libre"
           /\ appel'[a].etape = "ouvrir" /\ appel'[a].issue = "attendue"
           /\ appel'[a].op = op /\ appel'[a].id = id
           /\ risque' = (risque \/ Trouble(op))
           /\ chevauche' = (chevauche \/ Trouble(op) \/ Doublon(op, id))
           /\ acquis' = IF op = "supprimerCompter" THEN acquis \ {id} ELSE acquis
<1>1. PICK op \in Ops, id \in Ids :
        /\ appel' = [appel EXCEPT ![a].op = op, ![a].id = id, ![a].etape = "ouvrir"]
        /\ risque' = (risque \/ Trouble(op))
        /\ chevauche' = (chevauche \/ Trouble(op) \/ Doublon(op, id))
        /\ acquis' = IF op = "supprimerCompter" THEN acquis \ {id} ELSE acquis
  BY DEF Appeler
<1>2. appel[a].etape = "libre" /\ appel[a].issue = "attendue"
  BY DEF Appeler, Libre
<1> DEFINE r == [appel[a] EXCEPT !.op = op, !.id = id, !.etape = "ouvrir"]
<1>3. r \in AppelType
  BY DEF AppelType, Etapes
<1>4. r.etape = "ouvrir" /\ r.issue = "attendue" /\ r.op = op /\ r.id = id
  BY <1>2 DEF AppelType
<1>5. appel' = [appel EXCEPT ![a] = r]
  BY <1>1
<1> HIDE DEF r
<1>6. /\ appel' \in [Appelants -> AppelType] /\ Autres(a)
      /\ appel'[a].etape = "ouvrir" /\ appel'[a].issue = "attendue"
      /\ appel'[a].op = op /\ appel'[a].id = id
  BY <1>3, <1>4, <1>5 DEF Autres
<1> QED
  BY <1>1, <1>2, <1>6

(***************************************************************************)
(* The buffer of a deletion has the lines of the list but the account's.   *)
(***************************************************************************)
LEMMA EffetCopier ==
  ASSUME appel \in [Appelants -> AppelType], contenu \in [Fichiers -> Seq(Ids)],
         NEW a \in Appelants, appel[a].etape = "copier" => appel[a].lu \in Fichiers, Copier(a)
  PROVE  /\ appel' \in [Appelants -> AppelType] /\ Autres(a)
         /\ appel[a].etape = "copier" /\ appel'[a].etape = "effacer"
         /\ appel'[a].op = appel[a].op /\ appel'[a].id = appel[a].id
         /\ appel'[a].lu = appel[a].lu /\ appel'[a].ecrit = appel[a].ecrit
         /\ appel'[a].issue = appel[a].issue
         /\ ToSet(appel'[a].tampon) = ToSet(contenu[appel[a].lu]) \ {appel[a].id}
<1>1. appel[a].etape = "copier" /\ contenu[appel[a].lu] \in Seq(Ids)
  BY DEF Copier, A
<1> DEFINE t == Sauf(contenu[appel[a].lu], appel[a].id)
           r == [appel[a] EXCEPT !.tampon = t, !.etape = "effacer"]
<1>2. t \in Seq(Ids) /\ ToSet(t) = ToSet(contenu[appel[a].lu]) \ {appel[a].id}
  BY <1>1, SaufEffet
<1>3. appel' = [appel EXCEPT ![a] = r]
  BY DEF Copier
<1> HIDE DEF t
<1>4. r \in AppelType
  <2>1. appel[a] \in AppelType /\ "effacer" \in Etapes
    BY DEF Etapes
  <2> QED
    BY <1>2, <2>1 DEF AppelType
<1>5. /\ r.etape = "effacer" /\ r.op = appel[a].op /\ r.id = appel[a].id /\ r.lu = appel[a].lu
      /\ r.ecrit = appel[a].ecrit /\ r.tampon = t /\ r.issue = appel[a].issue
  BY DEF AppelType
<1> HIDE DEF r
<1> QED
  BY <1>1, <1>2, <1>3, <1>4, <1>5 DEF Autres

-----------------------------------------------------------------------------
(* Types, and what a call knows. *)

LEMMA Pas ==
  ASSUME [Next]_vars
  PROVE  \/ \E a \in Appelants :
              \/ Appeler(a) \/ Chercher(a) \/ Connexion(a)
              \/ PseudoDejaUtilise(a) \/ OuvrirAjout(a) \/ Ajouter(a)
              \/ Verifier(a) \/ Relire(a) \/ OuvrirTemporaire(a) \/ Copier(a)
              \/ Effacer(a) \/ Renommer(a) \/ Fermer(a) \/ Rendre(a)
         \/ Panne
         \/ UNCHANGED vars
BY DEF Next, SupprimerCompter

LEMMA LibreType ==
  Libre \in AppelType /\ Libre.etape = "libre" /\ Libre.op = "aucun" /\ Libre.issue = "attendue"
BY DEF Libre, AppelType, Etapes

LEMMA TypesGroupes ==
  TypeOK <=> /\ nom \in [{"listeComptes", "tempFile"} -> Fichiers \cup {Aucun}]
             /\ nom.listeComptes = nom.tempFile => nom.listeComptes = Aucun
             /\ contenu \in [Fichiers -> Seq(Ids)]
             /\ appel \in [Appelants -> AppelType]
             /\ chevauche \in BOOLEAN /\ risque \in BOOLEAN
             /\ acquis \subseteq Ids
BY DEF TypeOK, AppelType

\* The files and their names.
DisqueOK ==
  /\ nom \in [{"listeComptes", "tempFile"} -> Fichiers \cup {Aucun}]
  /\ nom.listeComptes = nom.tempFile => nom.listeComptes = Aucun
  /\ contenu \in [Fichiers -> Seq(Ids)]

(***************************************************************************)
(* A file that is created is empty and nobody's; only files that nobody    *)
(* knows of lose their lines.                                              *)
(***************************************************************************)
LEMMA EffetCreer ==
  ASSUME DisqueOK, NEW n \in {"listeComptes", "tempFile"}, nom[n] = Aucun, Creer(n),
         Aucun \notin Fichiers
  PROVE  /\ DisqueOK' /\ nom'[n] \in Fichiers
         /\ \A m \in {"listeComptes", "tempFile"} \ {n} : nom'[m] = nom[m] /\ nom'[n] # nom[m]
         /\ contenu'[nom'[n]] = <<>>
         /\ \A g \in Fichiers : g \in {nom.listeComptes, nom.tempFile} => contenu'[g] = contenu[g]
<1>1. PICK f \in Fichiers :
        /\ Neuf(f)
        /\ nom' = [nom EXCEPT ![n] = f]
        /\ contenu' = [g \in Fichiers |-> IF g = f \/ Neuf(g) THEN <<>> ELSE contenu[g]]
  BY DEF Creer
<1>2. /\ f \notin {nom.listeComptes, nom.tempFile}
      /\ \A g \in Fichiers : g \in {nom.listeComptes, nom.tempFile} => ~Neuf(g) /\ g # f
  BY <1>1 DEF Neuf
<1>3. /\ nom' \in [{"listeComptes", "tempFile"} -> Fichiers \cup {Aucun}] /\ nom'[n] = f
      /\ \A m \in {"listeComptes", "tempFile"} \ {n} : nom'[m] = nom[m]
  BY <1>1 DEF DisqueOK
<1>4. contenu' \in [Fichiers -> Seq(Ids)] /\ contenu'[f] = <<>>
      /\ \A g \in Fichiers : g \in {nom.listeComptes, nom.tempFile} => contenu'[g] = contenu[g]
  BY <1>1, <1>2 DEF DisqueOK
<1>5. /\ \A m \in {"listeComptes", "tempFile"} : nom[m] # f
      /\ nom'.listeComptes # nom'.tempFile
  BY <1>2, <1>3 DEF DisqueOK
<1> QED
  BY <1>3, <1>4, <1>5 DEF DisqueOK

LEMMA TypesStables ==
  ASSUME TypeOK, \A a \in Appelants : Coherent(a), [Next]_vars
  PROVE  TypeOK' /\ \A a \in Appelants : Coherent(a)'
<1>1. /\ DisqueOK /\ appel \in [Appelants -> AppelType]
      /\ chevauche \in BOOLEAN /\ risque \in BOOLEAN /\ acquis \subseteq Ids
      /\ Aucun \notin Fichiers
  BY TypesGroupes, GestionComptesAssumption DEF DisqueOK
<1>2. SUFFICES /\ DisqueOK' /\ appel' \in [Appelants -> AppelType]
               /\ chevauche' \in BOOLEAN /\ risque' \in BOOLEAN /\ acquis' \subseteq Ids
               /\ \A a \in Appelants : Coherent(a)'
  BY DEF TypeOK, DisqueOK, AppelType
<1>3. CASE Panne
  <2>1. UNCHANGED <<nom, contenu, chevauche, acquis>> /\ risque' \in BOOLEAN
    BY <1>1, <1>3 DEF Panne, disque
  <2>2. appel' = [a \in Appelants |-> Libre]
    BY <1>3 DEF Panne
  <2>3. appel' \in [Appelants -> AppelType] /\ \A a \in Appelants : Coherent(a)'
    BY <2>2, LibreType DEF Coherent
  <2> QED
    BY <1>1, <2>1, <2>3 DEF DisqueOK
<1>4. CASE UNCHANGED vars
  BY <1>1, <1>4 DEF vars, DisqueOK, Coherent
<1>5. ASSUME NEW a \in Appelants,
             /\ appel' \in [Appelants -> AppelType] /\ Autres(a) /\ Coherent(a)'
             /\ DisqueOK'
             /\ chevauche' \in BOOLEAN /\ risque' \in BOOLEAN /\ acquis' \subseteq Ids
      PROVE  /\ DisqueOK' /\ appel' \in [Appelants -> AppelType]
             /\ chevauche' \in BOOLEAN /\ risque' \in BOOLEAN /\ acquis' \subseteq Ids
             /\ \A b \in Appelants : Coherent(b)'
  BY <1>5 DEF Autres, Coherent
<1>6. ASSUME NEW a \in Appelants
      PROVE  Coherent(a) /\ appel[a] \in AppelType
  BY <1>1
<1>7. ASSUME NEW a \in Appelants, Appeler(a)
      PROVE  /\ appel' \in [Appelants -> AppelType] /\ Autres(a) /\ Coherent(a)' /\ DisqueOK'
             /\ chevauche' \in BOOLEAN /\ risque' \in BOOLEAN /\ acquis' \subseteq Ids
  <2>1. UNCHANGED <<nom, contenu>>
    BY <1>7 DEF Appeler, disque
  <2>2. PICK op \in Ops, id \in Ids :
           /\ appel' \in [Appelants -> AppelType] /\ Autres(a)
           /\ appel[a].etape = "libre"
           /\ appel'[a].etape = "ouvrir" /\ appel'[a].issue = "attendue"
           /\ appel'[a].op = op /\ appel'[a].id = id
           /\ risque' = (risque \/ Trouble(op))
           /\ chevauche' = (chevauche \/ Trouble(op) \/ Doublon(op, id))
           /\ acquis' = IF op = "supprimerCompter" THEN acquis \ {id} ELSE acquis
    BY <1>1, <1>7, EffetAppeler
  <2>3. chevauche' \in BOOLEAN /\ risque' \in BOOLEAN /\ acquis' \subseteq Ids
    BY <1>1, <2>2
  <2> QED
    BY <1>1, <2>1, <2>2, <2>3 DEF Coherent, DisqueOK
<1>8. ASSUME NEW a \in Appelants, NEW suite \in {"lire", "temporaire"}, OuvrirListe(a, suite),
             appel[a].etape # "libre", appel[a].etape # "rendre",
             suite = "temporaire" => appel[a].op = "supprimerCompter"
      PROVE  /\ appel' \in [Appelants -> AppelType] /\ Autres(a) /\ Coherent(a)' /\ DisqueOK'
             /\ chevauche' \in BOOLEAN /\ risque' \in BOOLEAN /\ acquis' \subseteq Ids
  <2>1. UNCHANGED <<nom, contenu, chevauche, risque, acquis>>
    BY <1>8 DEF OuvrirListe, disque, histoire
  <2>2. CASE nom.listeComptes = Aucun
    <3>1. Finir(a, "exception") /\ "exception" \in Issues
      BY <1>8, <2>2 DEF OuvrirListe, Issues
    <3> QED
      BY <1>1, <1>6, <1>8, <2>1, <3>1, EffetFinir DEF Coherent, DisqueOK
  <2>3. CASE nom.listeComptes # Aucun
    <3>1. nom.listeComptes \in Fichiers /\ suite \in Etapes
      BY <1>1, <2>3 DEF DisqueOK, Etapes
    <3>2. Ouvrir(a, "lu", nom.listeComptes, suite)
      BY <1>8, <2>3 DEF OuvrirListe
    <3> QED
      BY SMTT(30), <1>1, <1>6, <1>8, <2>1, <3>1, <3>2, EffetOuvrirLu DEF Coherent, DisqueOK
  <2> QED
    BY <2>2, <2>3
<1>9. ASSUME NEW a \in Appelants, Chercher(a) \/ Relire(a)
      PROVE  /\ appel' \in [Appelants -> AppelType] /\ Autres(a) /\ Coherent(a)' /\ DisqueOK'
             /\ chevauche' \in BOOLEAN /\ risque' \in BOOLEAN /\ acquis' \subseteq Ids
  <2>1. CASE Chercher(a)
    BY <1>8, <2>1 DEF Chercher, A
  <2>2. CASE Relire(a)
    BY <1>6, <1>8, <2>2 DEF Relire, A, Coherent
  <2> QED
    BY <1>9, <2>1, <2>2
<1>10. ASSUME NEW a \in Appelants, Connexion(a) \/ PseudoDejaUtilise(a) \/ Verifier(a)
       PROVE  /\ appel' \in [Appelants -> AppelType] /\ Autres(a) /\ Coherent(a)' /\ DisqueOK'
              /\ chevauche' \in BOOLEAN /\ risque' \in BOOLEAN /\ acquis' \subseteq Ids
  <2>1. UNCHANGED <<nom, contenu, chevauche, risque, acquis>>
    BY <1>10 DEF Connexion, PseudoDejaUtilise, Verifier, disque, histoire
  <2>2. appel[a].etape = "lire"
    BY <1>10 DEF Connexion, PseudoDejaUtilise, Verifier, A
  <2>3. \/ \E issue \in Issues : Finir(a, issue)
        \/ /\ \/ appel[a].op = "creerCompte" /\ Passer(a, "ajouter")
              \/ appel[a].op = "supprimerCompter" /\ Passer(a, "relire")
    <3>1. "vrai" \in Issues /\ "faux" \in Issues
      BY DEF Issues
    <3> QED
      BY <1>10, <3>1 DEF Connexion, PseudoDejaUtilise, Verifier, Booleen
  <2>4. CASE \E issue \in Issues : Finir(a, issue)
    BY <1>1, <1>6, <2>1, <2>2, <2>4, EffetFinir DEF Coherent, DisqueOK
  <2>5. CASE appel[a].op = "creerCompte" /\ Passer(a, "ajouter")
    <3>1. "ajouter" \in Etapes
      BY DEF Etapes
    <3> QED
      BY <1>1, <1>6, <2>1, <2>2, <2>5, <3>1, EffetPasser DEF Coherent, DisqueOK
  <2>6. CASE appel[a].op = "supprimerCompter" /\ Passer(a, "relire")
    <3>1. "relire" \in Etapes
      BY DEF Etapes
    <3> QED
      BY <1>1, <1>6, <2>1, <2>2, <2>6, <3>1, EffetPasser DEF Coherent, DisqueOK
  <2> QED
    BY <2>3, <2>4, <2>5, <2>6
<1>11. ASSUME NEW a \in Appelants, OuvrirAjout(a) \/ OuvrirTemporaire(a)
       PROVE  /\ appel' \in [Appelants -> AppelType] /\ Autres(a) /\ Coherent(a)' /\ DisqueOK'
              /\ chevauche' \in BOOLEAN /\ risque' \in BOOLEAN /\ acquis' \subseteq Ids
  <2>1. UNCHANGED <<chevauche, risque, acquis>>
    BY <1>11 DEF OuvrirAjout, OuvrirTemporaire, histoire
  <2>2. CASE OuvrirAjout(a)
    <3>1. DisqueOK' /\ nom'.listeComptes \in Fichiers
      <4>1. CASE nom.listeComptes = Aucun
        BY <1>1, <2>2, <4>1, EffetCreer DEF OuvrirAjout
      <4>2. CASE nom.listeComptes # Aucun
        BY <1>1, <2>2, <4>2 DEF OuvrirAjout, DisqueOK, disque
      <4> QED
        BY <4>1, <4>2
    <3>2. Ouvrir(a, "ecrit", nom'.listeComptes, "vider") /\ appel[a].etape = "ajouter"
          /\ "vider" \in Etapes
      BY <2>2 DEF OuvrirAjout, A, Etapes
    <3> QED
      BY <1>1, <1>6, <2>1, <3>1, <3>2, EffetOuvrirEcrit DEF Coherent
  <2>3. CASE OuvrirTemporaire(a)
    <3>1. DisqueOK' /\ nom'.tempFile \in Fichiers
      <4>1. CASE nom.tempFile = Aucun
        BY <1>1, <2>3, <4>1, EffetCreer DEF OuvrirTemporaire
      <4>2. CASE nom.tempFile # Aucun
        <5>1. nom' = nom /\ contenu' = [contenu EXCEPT ![nom.tempFile] = <<>>]
          BY <2>3, <4>2 DEF OuvrirTemporaire
        <5> QED
          BY <1>1, <4>2, <5>1 DEF DisqueOK
      <4> QED
        BY <4>1, <4>2
    <3>2. Ouvrir(a, "ecrit", nom'.tempFile, "copier") /\ appel[a].etape = "temporaire"
          /\ "copier" \in Etapes
      BY <2>3 DEF OuvrirTemporaire, A, Etapes
    <3> QED
      BY <1>1, <1>6, <2>1, <3>1, <3>2, EffetOuvrirEcrit DEF Coherent
  <2> QED
    BY <1>11, <2>2, <2>3
<1>12. ASSUME NEW a \in Appelants, Ajouter(a) \/ Fermer(a)
       PROVE  /\ appel' \in [Appelants -> AppelType] /\ Autres(a) /\ Coherent(a)' /\ DisqueOK'
              /\ chevauche' \in BOOLEAN /\ risque' \in BOOLEAN /\ acquis' \subseteq Ids
  <2> DEFINE f == appel[a].ecrit
             t == appel[a].tampon
  <2>1. f \in Fichiers /\ contenu[f] \in Seq(Ids) /\ t \in Seq(Ids) /\ appel[a].id \in Ids
    BY <1>1, <1>6, <1>12 DEF Ajouter, Fermer, A, Coherent, DisqueOK, AppelType
  <2>2. UNCHANGED <<nom, chevauche, risque>> /\ acquis' \in {acquis, acquis \cup {appel[a].id}}
    BY <1>12 DEF Ajouter, Fermer, histoire
  <2>3. /\ Finir(a, "vrai") /\ "vrai" \in Issues
        /\ appel[a].etape \notin {"libre", "rendre"}
    BY <1>12 DEF Ajouter, Fermer, A, Issues
  <2>4. \/ contenu' = [contenu EXCEPT ![f] = Append(contenu[f], appel[a].id)]
        \/ contenu' = [contenu EXCEPT ![f] = t \o SubSeq(contenu[f], Len(t) + 1, Len(contenu[f]))]
    BY <1>1, <1>12, <2>1 DEF Ajouter, Fermer, DisqueOK
  <2> HIDE DEF f, t
  <2>5. Append(contenu[f], appel[a].id) \in Seq(Ids)
    BY <2>1
  <2>6. t \o SubSeq(contenu[f], Len(t) + 1, Len(contenu[f])) \in Seq(Ids)
    <3>1. SubSeq(contenu[f], Len(t) + 1, Len(contenu[f])) \in Seq(Ids)
      BY <2>1
    <3> QED
      BY <2>1, <3>1, ConcatProperties
  <2>7. DisqueOK'
    BY <1>1, <2>1, <2>2, <2>4, <2>5, <2>6 DEF DisqueOK
  <2> QED
    BY <1>1, <1>6, <2>1, <2>2, <2>3, <2>7, EffetFinir DEF Coherent
<1>13. ASSUME NEW a \in Appelants, Copier(a)
       PROVE  /\ appel' \in [Appelants -> AppelType] /\ Autres(a) /\ Coherent(a)' /\ DisqueOK'
              /\ chevauche' \in BOOLEAN /\ risque' \in BOOLEAN /\ acquis' \subseteq Ids
  <2>1. UNCHANGED <<nom, contenu, chevauche, risque, acquis>>
    BY <1>13 DEF Copier, disque, histoire
  <2>2. /\ appel' \in [Appelants -> AppelType] /\ Autres(a) /\ appel[a].etape = "copier"
        /\ appel'[a].etape = "effacer" /\ appel'[a].ecrit = appel[a].ecrit
        /\ appel'[a].op = appel[a].op /\ appel'[a].id = appel[a].id
        /\ appel'[a].issue = appel[a].issue
    <3>1. contenu \in [Fichiers -> Seq(Ids)]
      BY <1>1 DEF DisqueOK
    <3>2. appel[a].etape = "copier" => appel[a].lu \in Fichiers
      BY <1>6 DEF Coherent
    <3>3. appel \in [Appelants -> AppelType]
      BY <1>1
    <3> QED
      BY <1>13, <3>1, <3>2, <3>3, EffetCopier
  <2> QED
    BY <1>1, <1>6, <2>1, <2>2 DEF Coherent, DisqueOK
<1>14. ASSUME NEW a \in Appelants, Effacer(a) \/ Renommer(a)
       PROVE  /\ appel' \in [Appelants -> AppelType] /\ Autres(a) /\ Coherent(a)' /\ DisqueOK'
              /\ chevauche' \in BOOLEAN /\ risque' \in BOOLEAN /\ acquis' \subseteq Ids
  <2>1. UNCHANGED <<contenu, chevauche, risque, acquis>>
    BY <1>14 DEF Effacer, Renommer, histoire
  <2>2. \/ nom' = nom
        \/ nom' = [nom EXCEPT !.listeComptes = Aucun]
        \/ nom' = [listeComptes |-> nom.tempFile, tempFile |-> Aucun]
    BY <1>14 DEF Effacer, Renommer
  <2>3. DisqueOK'
    BY <1>1, <2>1, <2>2 DEF DisqueOK
  <2>4. \/ appel[a].etape = "effacer" /\ Passer(a, "renommer") /\ "renommer" \in Etapes
        \/ appel[a].etape = "renommer" /\ Passer(a, "fermer") /\ "fermer" \in Etapes
    BY <1>14 DEF Effacer, Renommer, A, Etapes
  <2> QED
    BY <1>1, <1>6, <2>1, <2>3, <2>4, EffetPasser DEF Coherent
<1>15. ASSUME NEW a \in Appelants, Rendre(a)
       PROVE  /\ appel' \in [Appelants -> AppelType] /\ Autres(a) /\ Coherent(a)' /\ DisqueOK'
              /\ chevauche' \in BOOLEAN /\ risque' \in BOOLEAN /\ acquis' \subseteq Ids
  <2>1. UNCHANGED <<nom, contenu, chevauche, risque, acquis>>
        /\ appel' = [appel EXCEPT ![a] = Libre]
    BY <1>15 DEF Rendre, disque, histoire
  <2> QED
    BY <1>1, <2>1, LibreType DEF Coherent, DisqueOK, Autres
<1> QED
  BY <1>3, <1>4, <1>5, <1>7, <1>9, <1>10, <1>11, <1>12, <1>13, <1>14, <1>15, Pas

-----------------------------------------------------------------------------
(* The initial states. *)

LEMMA ComptesSansEcrivain ==
  ASSUME \A a \in Appelants : ~Remplace(a)
  PROVE  Comptes = Lignes(nom.listeComptes)
BY DEF Comptes

LEMMA InitIInv == Init => IInv
<1> SUFFICES ASSUME Init
             PROVE  IInv
  OBVIOUS
<1>1. PICK f \in Fichiers, s \in SeqOf(Ids, Cardinality(Pseudos)) :
        /\ NomsUniques(s)
        /\ nom = [listeComptes |-> f, tempFile |-> Aucun]
        /\ contenu = [g \in Fichiers |-> IF g = f THEN s ELSE <<>>]
        /\ acquis = ToSet(s)
  BY DEF Init
<1>2. appel = [a \in Appelants |-> Libre] /\ chevauche = FALSE /\ risque = FALSE
  BY DEF Init
<1>3. s \in Seq(Ids)
  <2>1. Cardinality(Pseudos) \in Nat
    BY GestionComptesAssumption, FS_CardinalityType
  <2>2. PICK n \in 0..Cardinality(Pseudos) : s \in [1..n -> Ids]
    BY <2>1 DEF SeqOf
  <2> QED
    BY <2>1, <2>2
<1>4. ToSet(s) \subseteq Ids
  BY <1>3 DEF ToSet
<1>5. Aucun \notin Fichiers
  BY GestionComptesAssumption
<1>6. TypeOK
  <2>1. nom \in [{"listeComptes", "tempFile"} -> Fichiers \cup {Aucun}]
        /\ nom.listeComptes = f /\ nom.tempFile = Aucun
    BY <1>1
  <2>2. contenu \in [Fichiers -> Seq(Ids)]
    BY <1>1, <1>3
  <2>3. appel \in [Appelants -> AppelType]
    BY <1>2, LibreType
  <2> QED
    BY <1>1, <1>2, <1>4, <1>5, <2>1, <2>2, <2>3, TypesGroupes
<1>7. \A a \in Appelants : appel[a] = Libre
  BY <1>2
<1>8. \A a \in Appelants : Coherent(a) /\ Fidele(a) /\ ~EnCours(a) /\ ~Remplace(a)
  BY <1>7, LibreType DEF Coherent, Fidele, EnCours, Remplace
<1>9. Seule /\ \A a \in Appelants : NomLibre(a)
  BY <1>7, <1>8, LibreType DEF Seule, NomLibre
<1>10. AcquisLa
  <2>1. Comptes = Lignes(f)
    BY <1>1, <1>8, ComptesSansEcrivain
  <2>2. Lignes(f) = ToSet(s)
    BY <1>1, <1>5 DEF Lignes
  <2> QED
    BY <1>1, <1>8, <2>1, <2>2 DEF AcquisLa
<1> QED
  BY <1>6, <1>8, <1>9, <1>10 DEF IInv

-----------------------------------------------------------------------------
(* Who is under way. *)

(***************************************************************************)
(* A call that goes on keeps its operation and its account, and only a new *)
(* call or a crash changes the histories of overlapping.                   *)
(***************************************************************************)
LEMMA Continue ==
  ASSUME TypeOK, NEW a \in Appelants, Coherent(a),
         \/ Chercher(a) \/ Connexion(a) \/ PseudoDejaUtilise(a) \/ OuvrirAjout(a)
         \/ Ajouter(a) \/ Verifier(a) \/ Relire(a) \/ OuvrirTemporaire(a) \/ Copier(a)
         \/ Effacer(a) \/ Renommer(a) \/ Fermer(a) \/ Rendre(a)
  PROVE  /\ UNCHANGED <<chevauche, risque>> /\ Autres(a)
         /\ EnCours(a)' => /\ EnCours(a)
                           /\ appel'[a].op = appel[a].op /\ appel'[a].id = appel[a].id
<1>1. UNCHANGED <<chevauche, risque>>
  BY DEF Chercher, OuvrirListe, Connexion, PseudoDejaUtilise, OuvrirAjout, Ajouter, Verifier,
         Relire, OuvrirTemporaire, Copier, Effacer, Renommer, Fermer, Rendre, histoire
<1>2. appel \in [Appelants -> AppelType]
  BY TypesGroupes
<1>3. CASE Rendre(a)
  BY <1>1, <1>2, <1>3, LibreType DEF Rendre, Autres, EnCours
<1>4. ASSUME ~Rendre(a)
      PROVE  EnCours(a)
  BY <1>4 DEF Chercher, Connexion, PseudoDejaUtilise, OuvrirAjout, Ajouter, Verifier,
         Relire, OuvrirTemporaire, Copier, Effacer, Renommer, Fermer, A, EnCours
<1>5. ASSUME NEW r \in AppelType, appel' = [appel EXCEPT ![a] = r],
             r.op = appel[a].op, r.id = appel[a].id
      PROVE  Autres(a) /\ appel'[a].op = appel[a].op /\ appel'[a].id = appel[a].id
  BY <1>2, <1>5 DEF Autres
<1>6. CASE Copier(a)
  <2>1. Autres(a) /\ appel'[a].op = appel[a].op /\ appel'[a].id = appel[a].id
    BY <1>2, <1>6 DEF Copier, Autres, AppelType
  <2> QED
    BY <1>1, <1>4, <1>3, <2>1
<1>7. CASE \/ Chercher(a) \/ Connexion(a) \/ PseudoDejaUtilise(a) \/ OuvrirAjout(a)
           \/ Ajouter(a) \/ Verifier(a) \/ Relire(a) \/ OuvrirTemporaire(a)
           \/ Effacer(a) \/ Renommer(a) \/ Fermer(a)
  <2>1. \/ \E e : Passer(a, e)
        \/ \E f, e : Ouvrir(a, "lu", f, e) \/ Ouvrir(a, "ecrit", f, e)
        \/ \E issue : Finir(a, issue)
    BY <1>7 DEF Chercher, OuvrirListe, Connexion, PseudoDejaUtilise, OuvrirAjout, Ajouter,
         Verifier, Relire, OuvrirTemporaire, Effacer, Renommer, Fermer
  <2>2. ASSUME \E e : Passer(a, e)
        PROVE  Autres(a) /\ appel'[a].op = appel[a].op /\ appel'[a].id = appel[a].id
    BY <1>2, <2>2 DEF Passer, Autres, AppelType
  <2>3. ASSUME \E f, e : Ouvrir(a, "lu", f, e) \/ Ouvrir(a, "ecrit", f, e)
        PROVE  Autres(a) /\ appel'[a].op = appel[a].op /\ appel'[a].id = appel[a].id
    BY <1>2, <2>3 DEF Ouvrir, Autres, AppelType
  <2>4. ASSUME \E issue : Finir(a, issue)
        PROVE  Autres(a) /\ appel'[a].op = appel[a].op /\ appel'[a].id = appel[a].id
    <3>1. PICK issue : Finir(a, issue)
      BY <2>4
    <3>2. Libre \in AppelType
      BY LibreType
    <3> QED
      BY <1>2, <3>1, <3>2 DEF Finir, Autres, AppelType
  <2>5. Autres(a) /\ appel'[a].op = appel[a].op /\ appel'[a].id = appel[a].id
    BY <2>1, <2>2, <2>3, <2>4
  <2> QED
    BY <1>1, <1>3, <1>4, <2>5
<1> QED
  BY <1>3, <1>6, <1>7

(***************************************************************************)
(* The histories forget nothing.                                           *)
(***************************************************************************)
LEMMA Memoire ==
  ASSUME TypeOK, \A a \in Appelants : Coherent(a), [Next]_vars
  PROVE  (chevauche => chevauche') /\ (risque => risque')
<1>1. CASE \E a \in Appelants : Appeler(a)
  BY <1>1 DEF Appeler
<1>2. CASE Panne
  BY <1>2 DEF Panne
<1>3. CASE UNCHANGED vars
  BY <1>3 DEF vars
<1> QED
  BY <1>1, <1>2, <1>3, Pas, Continue

(***************************************************************************)
(* A deletion that no history blames is alone.                             *)
(***************************************************************************)
LEMMA SeuleStable ==
  ASSUME TypeOK, \A a \in Appelants : Coherent(a), Tranquille => Seule, [Next]_vars, Tranquille'
  PROVE  Seule'
<1>1. Seule
  BY Memoire DEF Tranquille
<1>2. SUFFICES ASSUME NEW x \in Appelants, NEW y \in Appelants, x # y, EnCours(x)', EnCours(y)'
               PROVE  appel'[x].op # "supprimerCompter"
  BY DEF Seule
<1>3. ASSUME NEW a \in Appelants, Appeler(a)
      PROVE  appel'[x].op # "supprimerCompter"
  <2>1. appel \in [Appelants -> AppelType]
    BY TypesGroupes
  <2>2. PICK op \in Ops, id \in Ids :
           /\ appel' \in [Appelants -> AppelType] /\ Autres(a)
           /\ appel[a].etape = "libre"
           /\ appel'[a].etape = "ouvrir" /\ appel'[a].issue = "attendue"
           /\ appel'[a].op = op /\ appel'[a].id = id
           /\ risque' = (risque \/ Trouble(op))
           /\ chevauche' = (chevauche \/ Trouble(op) \/ Doublon(op, id))
           /\ acquis' = IF op = "supprimerCompter" THEN acquis \ {id} ELSE acquis
    BY <1>3, <2>1, EffetAppeler
  <2>3. ~Trouble(op)
    BY <2>2 DEF Tranquille
  <2>4. \A b \in Appelants : EnCours(b) => op # "supprimerCompter"
                                           /\ appel[b].op # "supprimerCompter"
    BY <2>3 DEF Trouble
  <2>5. \A b \in Appelants : b # a /\ EnCours(b)' => EnCours(b) /\ appel'[b] = appel[b]
    BY <2>2 DEF Autres, EnCours
  <2>6. CASE x = a
    BY <1>2, <2>2, <2>4, <2>5, <2>6
  <2>7. CASE x # a
    BY <1>2, <2>4, <2>5, <2>7
  <2> QED
    BY <2>6, <2>7
<1>4. CASE Panne
  BY <1>2, <1>4, LibreType DEF Panne, EnCours
<1>5. CASE UNCHANGED vars
  BY <1>1, <1>2, <1>5 DEF vars, EnCours, Seule
<1>6. ASSUME NEW a \in Appelants,
             Autres(a),
             EnCours(a)' => EnCours(a) /\ appel'[a].op = appel[a].op /\ appel'[a].id = appel[a].id
      PROVE  appel'[x].op # "supprimerCompter"
  BY <1>1, <1>2, <1>6 DEF Autres, EnCours, Seule
<1> QED
  BY <1>3, <1>4, <1>5, <1>6, Pas, Continue

-----------------------------------------------------------------------------
(* The files of a deletion that is alone. *)

LEMMA FideleStable ==
  ASSUME TypeOK, \A a \in Appelants : Coherent(a), Seule, \A a \in Appelants : Fidele(a),
         [Next]_vars
  PROVE  \A a \in Appelants : Fidele(a)'
<1>1. DisqueOK /\ appel \in [Appelants -> AppelType] /\ Aucun \notin Fichiers
  BY TypesGroupes, GestionComptesAssumption DEF DisqueOK
<1>2. ASSUME NEW a \in Appelants, UNCHANGED <<nom, contenu>>, Autres(a), Fidele(a)'
      PROVE  \A b \in Appelants : Fidele(b)'
  <2> SUFFICES ASSUME NEW b \in Appelants, b # a
               PROVE  Fidele(b)'
    BY <1>2
  <2>1. appel'[b] = appel[b] /\ Fidele(b)
    BY <1>2 DEF Autres
  <2>2. nom' = nom /\ contenu' = contenu /\ Lignes(nom.listeComptes)' = Lignes(nom.listeComptes)
    BY <1>2 DEF Lignes
  <2> QED
    BY <2>1, <2>2 DEF Fidele
<1>3. ASSUME NEW a \in Appelants, EnCours(a), appel[a].op = "supprimerCompter", Autres(a),
             Fidele(a)'
      PROVE  \A b \in Appelants : Fidele(b)'
  BY <1>3 DEF Seule, EnCours, Autres, Fidele
<1>4. CASE Panne
  BY <1>4, LibreType DEF Panne, Fidele
<1>5. CASE UNCHANGED vars
  <2> SUFFICES ASSUME NEW b \in Appelants
               PROVE  Fidele(b)'
    OBVIOUS
  <2>1. UNCHANGED <<nom, contenu, appel>> /\ Fidele(b)
    BY <1>5 DEF vars
  <2>2. Lignes(nom.listeComptes)' = Lignes(nom.listeComptes)
    BY <2>1 DEF Lignes
  <2> QED
    BY <2>1, <2>2 DEF Fidele
<1>6. ASSUME NEW a \in Appelants, Appeler(a)
      PROVE  \A b \in Appelants : Fidele(b)'
  <2>1. UNCHANGED <<nom, contenu>>
    BY <1>6 DEF Appeler, disque
  <2>2. Autres(a) /\ appel'[a].etape = "ouvrir"
    BY <1>1, <1>6, EffetAppeler
  <2> QED
    BY <1>2, <2>1, <2>2 DEF Fidele
<1>7. ASSUME NEW a \in Appelants, Rendre(a)
      PROVE  \A b \in Appelants : Fidele(b)'
  <2>1. UNCHANGED <<nom, contenu>> /\ Autres(a) /\ appel'[a] = Libre
    BY <1>1, <1>7 DEF Rendre, disque, Autres
  <2> QED
    BY <1>2, <2>1, LibreType DEF Fidele
<1>8. ASSUME NEW a \in Appelants, Chercher(a)
      PROVE  \A b \in Appelants : Fidele(b)'
  <2>1. UNCHANGED <<nom, contenu>>
    BY <1>8 DEF Chercher, OuvrirListe, disque
  <2>2. CASE nom.listeComptes = Aucun
    <3>1. Finir(a, "exception") /\ "exception" \in Issues
      BY <1>8, <2>2 DEF Chercher, OuvrirListe, Issues
    <3>2. Autres(a) /\ appel'[a].etape = "rendre"
      BY <1>1, <3>1, EffetFinir
    <3> QED
      BY <1>2, <2>1, <3>2 DEF Fidele
  <2>3. CASE nom.listeComptes # Aucun
    <3>1. nom.listeComptes \in Fichiers /\ "lire" \in Etapes
          /\ Ouvrir(a, "lu", nom.listeComptes, "lire")
      BY <1>1, <1>8, <2>3 DEF DisqueOK, Etapes, Chercher, OuvrirListe
    <3>2. Autres(a) /\ appel'[a].etape = "lire" /\ appel'[a].lu = nom.listeComptes
      BY <1>1, <3>1, EffetOuvrirLu
    <3> QED
      BY <1>2, <2>1, <2>3, <3>2 DEF Fidele
  <2> QED
    BY <2>2, <2>3
<1>9. ASSUME NEW a \in Appelants, Connexion(a) \/ PseudoDejaUtilise(a) \/ Verifier(a)
      PROVE  \A b \in Appelants : Fidele(b)'
  <2>1. UNCHANGED <<nom, contenu>>
    BY <1>9 DEF Connexion, PseudoDejaUtilise, Verifier, disque
  <2>2. appel[a].etape = "lire" /\ Fidele(a)
    BY <1>9 DEF Connexion, PseudoDejaUtilise, Verifier, A
  <2>3. appel[a].lu = nom.listeComptes /\ nom.listeComptes # Aucun
    BY <2>2 DEF Fidele
  <2>4. \/ \E issue \in Issues : Finir(a, issue)
        \/ Passer(a, "ajouter")
        \/ Passer(a, "relire") /\ appel[a].id \in Lignes(nom.listeComptes)
    <3>1. "vrai" \in Issues /\ "faux" \in Issues
      BY DEF Issues
    <3> QED
      BY <1>9, <2>3, <3>1 DEF Connexion, PseudoDejaUtilise, Verifier, Booleen, Trouve
  <2>5. CASE \E issue \in Issues : Finir(a, issue)
    <3>1. Autres(a) /\ appel'[a].etape = "rendre"
      BY <1>1, <2>5, EffetFinir
    <3> QED
      BY <1>2, <2>1, <3>1 DEF Fidele
  <2>6. CASE Passer(a, "ajouter")
    <3>1. "ajouter" \in Etapes
      BY DEF Etapes
    <3>2. Autres(a) /\ appel'[a].etape = "ajouter" /\ appel'[a].lu = appel[a].lu
      BY <1>1, <2>6, <3>1, EffetPasser
    <3> QED
      BY <1>2, <2>1, <2>3, <3>2 DEF Fidele
  <2>7. CASE Passer(a, "relire") /\ appel[a].id \in Lignes(nom.listeComptes)
    <3>1. "relire" \in Etapes
      BY DEF Etapes
    <3>2. Autres(a) /\ appel'[a].etape = "relire" /\ appel'[a].lu = appel[a].lu
          /\ appel'[a].id = appel[a].id
      BY <1>1, <2>7, <3>1, EffetPasser
    <3>3. Lignes(nom.listeComptes)' = Lignes(nom.listeComptes)
      BY <2>1 DEF Lignes
    <3> QED
      BY <1>2, <2>1, <2>3, <2>7, <3>2, <3>3 DEF Fidele
  <2> QED
    BY <2>4, <2>5, <2>6, <2>7
<1>10. ASSUME NEW a \in Appelants, OuvrirAjout(a)
       PROVE  \A b \in Appelants : Fidele(b)'
  <2>1. appel[a].etape = "ajouter" /\ Fidele(a)
    BY <1>10 DEF OuvrirAjout, A
  <2>2. appel[a].lu = nom.listeComptes /\ nom.listeComptes # Aucun
        /\ nom.listeComptes \in Fichiers
    BY <1>1, <2>1 DEF Fidele, DisqueOK
  <2>3. UNCHANGED <<nom, contenu>>
    BY <1>10, <2>2 DEF OuvrirAjout, disque
  <2>4. Ouvrir(a, "ecrit", nom.listeComptes, "vider") /\ "vider" \in Etapes
    BY <1>10, <2>3 DEF OuvrirAjout, Etapes
  <2>5. Autres(a) /\ appel'[a].etape = "vider" /\ appel'[a].lu = appel[a].lu
        /\ appel'[a].ecrit = nom.listeComptes
    BY <1>1, <2>2, <2>4, EffetOuvrirEcrit
  <2> QED
    BY <1>2, <2>2, <2>3, <2>5 DEF Fidele
<1>11. ASSUME NEW a \in Appelants, Ajouter(a)
       PROVE  \A b \in Appelants : Fidele(b)'
  <2>1. appel[a].etape = "vider" /\ nom' = nom
    BY <1>11 DEF Ajouter, A
  <2>2. Finir(a, "vrai") /\ "vrai" \in Issues
    BY <1>11 DEF Ajouter, Issues
  <2>3. Autres(a) /\ appel'[a].etape = "rendre"
    BY <1>1, <2>2, EffetFinir
  <2> SUFFICES ASSUME NEW b \in Appelants, b # a
               PROVE  Fidele(b)'
    BY <2>3 DEF Fidele
  <2>4. appel'[b] = appel[b] /\ Fidele(b) /\ Coherent(b)
    BY <2>3 DEF Autres
  <2>5. EnCours(b) => appel[b].op # "supprimerCompter"
    BY <2>1 DEF Seule, EnCours
  <2>6. appel[b].etape \notin {"relire", "temporaire", "copier", "effacer", "renommer", "fermer"}
    BY <2>4, <2>5 DEF EnCours, Coherent
  <2> QED
    BY <2>1, <2>4, <2>6 DEF Fidele
<1>12. ASSUME NEW a \in Appelants, Relire(a)
       PROVE  \A b \in Appelants : Fidele(b)'
  <2>1. UNCHANGED <<nom, contenu>> /\ appel[a].etape = "relire" /\ Fidele(a)
    BY <1>12 DEF Relire, A, OuvrirListe, disque
  <2>2. nom.listeComptes # Aucun /\ appel[a].id \in Lignes(nom.listeComptes)
    BY <2>1 DEF Fidele
  <2>3. nom.listeComptes \in Fichiers /\ "temporaire" \in Etapes
        /\ Ouvrir(a, "lu", nom.listeComptes, "temporaire")
    BY <1>1, <1>12, <2>2 DEF DisqueOK, Etapes, Relire, OuvrirListe
  <2>4. Autres(a) /\ appel'[a].etape = "temporaire" /\ appel'[a].lu = nom.listeComptes
        /\ appel'[a].id = appel[a].id
    BY <1>1, <2>3, EffetOuvrirLu
  <2>5. Lignes(nom.listeComptes)' = Lignes(nom.listeComptes)
    BY <2>1 DEF Lignes
  <2> QED
    BY <1>2, <2>1, <2>2, <2>4, <2>5 DEF Fidele
<1>13. ASSUME NEW a \in Appelants,
              OuvrirTemporaire(a) \/ Copier(a) \/ Effacer(a) \/ Renommer(a) \/ Fermer(a)
       PROVE  /\ EnCours(a) /\ appel[a].op = "supprimerCompter" /\ Fidele(a) /\ Coherent(a)
  BY <1>13 DEF OuvrirTemporaire, Copier, Effacer, Renommer, Fermer, A, EnCours, Coherent
<1>14. ASSUME NEW a \in Appelants, OuvrirTemporaire(a)
       PROVE  \A b \in Appelants : Fidele(b)'
  <2>1. appel[a].etape = "temporaire"
    BY <1>14 DEF OuvrirTemporaire, A
  <2>2. appel[a].lu = nom.listeComptes /\ nom.listeComptes # Aucun
        /\ appel[a].id \in Lignes(nom.listeComptes)
    BY <1>13, <1>14, <2>1 DEF Fidele
  <2>3. /\ nom'.tempFile \in Fichiers /\ nom'.listeComptes = nom.listeComptes
        /\ contenu'[nom'.tempFile] = <<>>
        /\ contenu'[nom.listeComptes] = contenu[nom.listeComptes]
    <3>1. CASE nom.tempFile = Aucun
      <4>1. nom.listeComptes \in Fichiers
        BY <1>1, <2>2 DEF DisqueOK
      <4> QED
        BY <1>1, <1>14, <3>1, <4>1, EffetCreer DEF OuvrirTemporaire
    <3>2. CASE nom.tempFile # Aucun
      <4>1. nom' = nom /\ contenu' = [contenu EXCEPT ![nom.tempFile] = <<>>]
        BY <1>14, <3>2 DEF OuvrirTemporaire
      <4> QED
        BY <1>1, <2>2, <3>2, <4>1 DEF DisqueOK
    <3> QED
      BY <3>1, <3>2
  <2>4. Ouvrir(a, "ecrit", nom'.tempFile, "copier") /\ "copier" \in Etapes
    BY <1>14 DEF OuvrirTemporaire, Etapes
  <2>5. Autres(a) /\ appel'[a].etape = "copier" /\ appel'[a].lu = appel[a].lu
        /\ appel'[a].ecrit = nom'.tempFile /\ appel'[a].id = appel[a].id
    BY <1>1, <2>3, <2>4, EffetOuvrirEcrit
  <2>6. Lignes(nom.listeComptes)' = Lignes(nom.listeComptes)
    BY <2>3 DEF Lignes
  <2>7. Fidele(a)'
    BY <2>2, <2>3, <2>5, <2>6 DEF Fidele
  <2> QED
    BY <1>3, <1>13, <1>14, <2>5, <2>7
<1>15. ASSUME NEW a \in Appelants, Copier(a)
       PROVE  \A b \in Appelants : Fidele(b)'
  <2>1. UNCHANGED <<nom, contenu>> /\ appel[a].etape = "copier"
    BY <1>15 DEF Copier, disque, A
  <2>2. appel[a].lu \in Fichiers /\ contenu \in [Fichiers -> Seq(Ids)]
    BY <1>1, <1>13, <1>15, <2>1 DEF Coherent, DisqueOK
  <2>3. /\ Autres(a) /\ appel'[a].etape = "effacer" /\ appel'[a].id = appel[a].id
        /\ appel'[a].lu = appel[a].lu /\ appel'[a].ecrit = appel[a].ecrit
        /\ ToSet(appel'[a].tampon) = ToSet(contenu[appel[a].lu]) \ {appel[a].id}
    BY <1>1, <1>15, <2>2, EffetCopier
  <2>4. /\ appel[a].lu = nom.listeComptes /\ nom.listeComptes # Aucun
        /\ appel[a].id \in Lignes(nom.listeComptes)
        /\ appel[a].ecrit = nom.tempFile /\ contenu[appel[a].ecrit] = <<>>
    BY <1>13, <1>15, <2>1 DEF Fidele
  <2>5. Lignes(nom.listeComptes)' = Lignes(nom.listeComptes)
        /\ Lignes(nom.listeComptes) = ToSet(contenu[appel[a].lu])
    BY <2>1, <2>4 DEF Lignes
  <2>6. Fidele(a)'
    BY <2>1, <2>3, <2>4, <2>5 DEF Fidele
  <2> QED
    BY <1>2, <2>1, <2>3, <2>6
<1>16. ASSUME NEW a \in Appelants, Effacer(a)
       PROVE  \A b \in Appelants : Fidele(b)'
  <2>1. appel[a].etape = "effacer" /\ contenu' = contenu
        /\ nom' = [nom EXCEPT !.listeComptes = Aucun]
        /\ Passer(a, "renommer") /\ "renommer" \in Etapes
    BY <1>16 DEF Effacer, A, Etapes
  <2>2. nom'.listeComptes = Aucun /\ nom'.tempFile = nom.tempFile
    BY <1>1, <2>1 DEF DisqueOK
  <2>3. /\ Autres(a) /\ appel'[a].etape = "renommer" /\ appel'[a].id = appel[a].id
        /\ appel'[a].ecrit = appel[a].ecrit /\ appel'[a].tampon = appel[a].tampon
    BY <1>1, <2>1, EffetPasser
  <2>4. /\ appel[a].ecrit = nom.tempFile /\ contenu[appel[a].ecrit] = <<>>
        /\ appel[a].id \notin ToSet(appel[a].tampon)
    BY <1>13, <1>16, <2>1 DEF Fidele
  <2>5. Fidele(a)'
    BY <2>1, <2>2, <2>3, <2>4 DEF Fidele
  <2> QED
    BY <1>3, <1>13, <1>16, <2>3, <2>5
<1>17. ASSUME NEW a \in Appelants, Renommer(a)
       PROVE  \A b \in Appelants : Fidele(b)'
  <2>1. appel[a].etape = "renommer" /\ contenu' = contenu
        /\ Passer(a, "fermer") /\ "fermer" \in Etapes
    BY <1>17 DEF Renommer, A, Etapes
  <2>2. /\ appel[a].ecrit = nom.tempFile /\ contenu[appel[a].ecrit] = <<>>
        /\ appel[a].id \notin ToSet(appel[a].tampon) /\ appel[a].ecrit \in Fichiers
    BY <1>13, <1>17, <2>1 DEF Fidele, Coherent
  <2>3. nom'.listeComptes = nom.tempFile
    BY <1>1, <1>17, <2>2 DEF Renommer
  <2>4. /\ Autres(a) /\ appel'[a].etape = "fermer" /\ appel'[a].id = appel[a].id
        /\ appel'[a].ecrit = appel[a].ecrit /\ appel'[a].tampon = appel[a].tampon
    BY <1>1, <2>1, EffetPasser
  <2>5. Fidele(a)'
    BY <2>1, <2>2, <2>3, <2>4 DEF Fidele
  <2> QED
    BY <1>3, <1>13, <1>17, <2>4, <2>5
<1>18. ASSUME NEW a \in Appelants, Fermer(a)
       PROVE  \A b \in Appelants : Fidele(b)'
  <2>1. Finir(a, "vrai") /\ "vrai" \in Issues
    BY <1>18 DEF Fermer, Issues
  <2>2. Autres(a) /\ appel'[a].etape = "rendre"
    BY <1>1, <2>1, EffetFinir
  <2> QED
    BY <1>3, <1>13, <1>18, <2>2 DEF Fidele
<1> QED
  BY <1>4, <1>5, <1>6, <1>7, <1>8, <1>9, <1>10, <1>11, <1>12, <1>14, <1>15, <1>16, <1>17, <1>18,
     Pas

-----------------------------------------------------------------------------
(* The lines of the list, and the accounts. *)

\* The steps that write nothing that a reader of the list sees.
SansEcrire(a) ==
  \/ Appeler(a) \/ Chercher(a) \/ Connexion(a) \/ PseudoDejaUtilise(a) \/ OuvrirAjout(a)
  \/ Verifier(a) \/ Relire(a) \/ OuvrirTemporaire(a) \/ Copier(a) \/ Rendre(a)

LEMMA EffetLignes ==
  ASSUME TypeOK, NEW a \in Appelants, Coherent(a), Fidele(a)
  PROVE  /\ SansEcrire(a) => Lignes(nom.listeComptes)' = Lignes(nom.listeComptes)
         /\ Ajouter(a) =>
              Lignes(nom.listeComptes)' = Lignes(nom.listeComptes) \cup {appel[a].id}
<1>1. DisqueOK /\ appel \in [Appelants -> AppelType] /\ Aucun \notin Fichiers
  BY TypesGroupes, GestionComptesAssumption DEF DisqueOK
<1>2. ASSUME UNCHANGED <<nom, contenu>>
      PROVE  Lignes(nom.listeComptes)' = Lignes(nom.listeComptes)
  BY <1>2 DEF Lignes
<1>3. ASSUME \/ Appeler(a) \/ Chercher(a) \/ Connexion(a) \/ PseudoDejaUtilise(a)
             \/ Verifier(a) \/ Relire(a) \/ Copier(a) \/ Rendre(a)
      PROVE  Lignes(nom.listeComptes)' = Lignes(nom.listeComptes)
  <2>1. UNCHANGED <<nom, contenu>>
    BY <1>3 DEF Appeler, Chercher, OuvrirListe, Connexion, PseudoDejaUtilise, Verifier,
         Relire, Copier, Rendre, disque
  <2> QED
    BY <1>2, <2>1
<1>4. ASSUME OuvrirAjout(a)
      PROVE  Lignes(nom.listeComptes)' = Lignes(nom.listeComptes)
  <2>1. nom.listeComptes # Aucun
    BY <1>4 DEF OuvrirAjout, A, Fidele
  <2>2. UNCHANGED <<nom, contenu>>
    BY <1>4, <2>1 DEF OuvrirAjout, disque
  <2> QED
    BY <1>2, <2>2
<1>5. ASSUME OuvrirTemporaire(a)
      PROVE  Lignes(nom.listeComptes)' = Lignes(nom.listeComptes)
  <2>1. nom.listeComptes # Aucun /\ nom.listeComptes \in Fichiers
    BY <1>1, <1>5 DEF OuvrirTemporaire, A, Fidele, DisqueOK
  <2>2. nom'.listeComptes = nom.listeComptes
        /\ contenu'[nom.listeComptes] = contenu[nom.listeComptes]
    <3>1. CASE nom.tempFile = Aucun
      BY <1>1, <1>5, <2>1, <3>1, EffetCreer DEF OuvrirTemporaire
    <3>2. CASE nom.tempFile # Aucun
      <4>1. nom' = nom /\ contenu' = [contenu EXCEPT ![nom.tempFile] = <<>>]
        BY <1>5, <3>2 DEF OuvrirTemporaire
      <4> QED
        BY <1>1, <2>1, <3>2, <4>1 DEF DisqueOK
    <3> QED
      BY <3>1, <3>2
  <2> QED
    BY <2>2 DEF Lignes
<1>6. ASSUME Ajouter(a)
      PROVE  Lignes(nom.listeComptes)' = Lignes(nom.listeComptes) \cup {appel[a].id}
  <2> DEFINE f == nom.listeComptes
  <2>1. /\ appel[a].etape = "vider" /\ nom' = nom
        /\ contenu' = [contenu EXCEPT ![appel[a].ecrit] = Append(@, appel[a].id)]
    BY <1>6 DEF Ajouter, A
  <2>2. appel[a].ecrit = f /\ f # Aucun /\ f \in Fichiers
    BY <1>1, <2>1 DEF Fidele, DisqueOK
  <2>3. appel[a].id \in Ids /\ contenu[f] \in Seq(Ids)
    BY <1>1, <2>1, <2>2 DEF Coherent, DisqueOK
  <2>4. contenu'[f] = Append(contenu[f], appel[a].id)
    BY <1>1, <2>1, <2>2 DEF DisqueOK
  <2>5. Lignes(nom.listeComptes)' = ToSet(contenu'[f]) /\ Lignes(f) = ToSet(contenu[f])
    BY <2>1, <2>2 DEF Lignes
  <2> QED
    BY <2>3, <2>4, <2>5, ToSetAppend
<1> QED
  BY <1>3, <1>4, <1>5, <1>6 DEF SansEcrire

(***************************************************************************)
(* A call that is under way, and has not deleted the list, reads in it all *)
(* the accounts.                                                           *)
(***************************************************************************)
LEMMA ComptesLus ==
  ASSUME \A a \in Appelants : Coherent(a), Seule, NEW a \in Appelants, EnCours(a), ~Remplace(a)
  PROVE  Comptes = Lignes(nom.listeComptes)
<1>1. ASSUME NEW b \in Appelants, Remplace(b)
      PROVE  FALSE
  <2>1. EnCours(b) /\ appel[b].op = "supprimerCompter" /\ b # a
    BY <1>1 DEF Remplace, EnCours, Coherent
  <2> QED
    BY <2>1 DEF Seule
<1> QED
  BY <1>1, ComptesSansEcrivain

LEMMA ComptesDuTampon ==
  ASSUME NEW a \in Appelants, Remplace(a), \A b \in Appelants : b # a => ~Remplace(b)
  PROVE  Comptes = ToSet(appel[a].tampon) \cup {appel[a].id}
<1>1. {b \in Appelants : Remplace(b)} = {a}
  OBVIOUS
<1>2. UNION {ToSet(appel[b].tampon) \cup {appel[b].id} : b \in {a}}
        = ToSet(appel[a].tampon) \cup {appel[a].id}
  OBVIOUS
<1> QED
  BY <1>1, <1>2 DEF Comptes

(***************************************************************************)
(* What each step does to the accounts: only the last step of a creation   *)
(* and the last one of a deletion change them.                             *)
(***************************************************************************)
LEMMA EffetComptes ==
  ASSUME TypeOK, \A b \in Appelants : Coherent(b), Seule, \A b \in Appelants : Fidele(b),
         NEW a \in Appelants
  PROVE  /\ SansEcrire(a) \/ Effacer(a) \/ Renommer(a) => Comptes' = Comptes
         /\ Ajouter(a) => Comptes' = Comptes \cup {appel[a].id}
         /\ Fermer(a) => Comptes' = Comptes \ {appel[a].id} /\ appel[a].id \in Comptes
<1>1. /\ DisqueOK /\ appel \in [Appelants -> AppelType] /\ Aucun \notin Fichiers
      /\ Coherent(a) /\ Fidele(a)
  BY TypesGroupes, GestionComptesAssumption DEF DisqueOK
<1>2. ASSUME SansEcrire(a)
      PROVE  Comptes' = Comptes
  <2>1. Autres(a) /\ ~Remplace(a) /\ ~Remplace(a)'
    <3>1. CASE Appeler(a)
      <4>1. Autres(a) /\ appel[a].etape = "libre" /\ appel'[a].etape = "ouvrir"
        BY <1>1, <3>1, EffetAppeler
      <4> QED
        BY <4>1 DEF Remplace
    <3>2. CASE Rendre(a)
      BY <1>1, <3>2, LibreType DEF Rendre, A, Autres, Remplace
    <3>3. CASE Copier(a)
      <4>1. appel[a].etape = "copier" => appel[a].lu \in Fichiers
        BY <1>1 DEF Coherent
      <4>2. contenu \in [Fichiers -> Seq(Ids)]
        BY <1>1 DEF DisqueOK
      <4>3. Autres(a) /\ appel[a].etape = "copier" /\ appel'[a].etape = "effacer"
        BY <1>1, <3>3, <4>1, <4>2, EffetCopier
      <4> QED
        BY <4>3 DEF Remplace
    <3>4. CASE \/ Chercher(a) \/ Connexion(a) \/ PseudoDejaUtilise(a) \/ OuvrirAjout(a)
               \/ Verifier(a) \/ Relire(a) \/ OuvrirTemporaire(a)
      <4>1. Autres(a)
        BY <1>1, <3>4, Continue
      <4>2. ~Remplace(a)
        BY <3>4 DEF Chercher, Connexion, PseudoDejaUtilise, OuvrirAjout, Verifier, Relire,
             OuvrirTemporaire, A, Remplace
      <4>3. \/ \E e \in {"ajouter", "relire"} : Passer(a, e)
            \/ \E f : \/ Ouvrir(a, "lu", f, "lire") \/ Ouvrir(a, "lu", f, "temporaire")
                      \/ Ouvrir(a, "ecrit", f, "vider") \/ Ouvrir(a, "ecrit", f, "copier")
            \/ \E issue : Finir(a, issue)
        BY <3>4 DEF Chercher, Connexion, PseudoDejaUtilise, OuvrirAjout, Verifier, Relire,
             OuvrirTemporaire, OuvrirListe
      <4>4. appel'[a].etape \notin {"renommer", "fermer"}
        <5>1. ASSUME \E e \in {"ajouter", "relire"} : Passer(a, e)
              PROVE  appel'[a].etape \notin {"renommer", "fermer"}
          BY <1>1, <5>1 DEF Passer, AppelType
        <5>2. ASSUME \E f : \/ Ouvrir(a, "lu", f, "lire") \/ Ouvrir(a, "lu", f, "temporaire")
                            \/ Ouvrir(a, "ecrit", f, "vider") \/ Ouvrir(a, "ecrit", f, "copier")
              PROVE  appel'[a].etape \notin {"renommer", "fermer"}
          BY <1>1, <5>2 DEF Ouvrir, AppelType
        <5>3. ASSUME \E issue : Finir(a, issue)
              PROVE  appel'[a].etape \notin {"renommer", "fermer"}
          BY <1>1, <5>3, LibreType DEF Finir, AppelType
        <5> QED
          BY <4>3, <5>1, <5>2, <5>3
      <4> QED
        BY <4>1, <4>2, <4>4 DEF Remplace
    <3> QED
      BY <1>2, <3>1, <3>2, <3>3, <3>4 DEF SansEcrire
  <2>2. Lignes(nom.listeComptes)' = Lignes(nom.listeComptes)
    BY <1>1, <1>2, EffetLignes
  <2>3. \A b \in Appelants : /\ Remplace(b)' <=> Remplace(b)
                             /\ Remplace(b) => appel'[b] = appel[b]
    BY <2>1 DEF Autres, Remplace
  <2>4. {b \in Appelants : Remplace(b)}' = {b \in Appelants : Remplace(b)}
    BY <2>3
  <2>5. \A b \in {c \in Appelants : Remplace(c)} :
          ToSet(appel'[b].tampon) \cup {appel'[b].id} = ToSet(appel[b].tampon) \cup {appel[b].id}
    BY <2>3
  <2> QED
    BY <2>2, <2>3, <2>4, <2>5 DEF Comptes
<1>3. ASSUME Ajouter(a)
      PROVE  Comptes' = Comptes \cup {appel[a].id}
  <2>1. EnCours(a) /\ ~Remplace(a)
    BY <1>3 DEF Ajouter, A, EnCours, Remplace
  <2>2. Finir(a, "vrai") /\ "vrai" \in Issues
    BY <1>3 DEF Ajouter, Issues
  <2>3. Autres(a) /\ appel'[a].etape = "rendre"
    BY <1>1, <2>2, EffetFinir
  <2>4. \A b \in Appelants : ~Remplace(b)
    BY <2>1 DEF Seule, EnCours, Remplace, Coherent
  <2>5. \A b \in Appelants : ~Remplace(b)'
    BY <2>3, <2>4 DEF Autres, Remplace
  <2>6. Comptes = Lignes(nom.listeComptes)
    BY <2>4, ComptesSansEcrivain
  <2>7. Comptes' = Lignes(nom.listeComptes)'
    BY <2>5 DEF Comptes
  <2> QED
    BY <1>1, <1>3, <2>6, <2>7, EffetLignes
<1>4. ASSUME EnCours(a), appel[a].op = "supprimerCompter", Autres(a)
      PROVE  \A b \in Appelants : b # a => ~Remplace(b) /\ ~Remplace(b)'
  BY <1>4 DEF Seule, EnCours, Remplace, Autres
<1>5. ASSUME Effacer(a)
      PROVE  Comptes' = Comptes
  <2>1. appel[a].etape = "effacer" /\ Passer(a, "renommer") /\ "renommer" \in Etapes
    BY <1>5 DEF Effacer, A, Etapes
  <2>2. /\ Autres(a) /\ appel'[a].etape = "renommer" /\ appel'[a].id = appel[a].id
        /\ appel'[a].tampon = appel[a].tampon
    BY <1>1, <2>1, EffetPasser
  <2>3. EnCours(a) /\ appel[a].op = "supprimerCompter" /\ ~Remplace(a) /\ Remplace(a)'
    BY <1>1, <2>1, <2>2 DEF EnCours, Coherent, Remplace
  <2>4. Comptes = Lignes(nom.listeComptes)
    BY <2>3, ComptesLus
  <2>5. /\ appel[a].id \in Lignes(nom.listeComptes)
        /\ ToSet(appel[a].tampon) = Lignes(nom.listeComptes) \ {appel[a].id}
    BY <1>1, <2>1 DEF Fidele
  <2>6. {b \in Appelants : Remplace(b)}' = {a}
    BY <1>4, <2>2, <2>3
  <2>7. Comptes' = ToSet(appel'[a].tampon) \cup {appel'[a].id}
    BY <2>6 DEF Comptes
  <2> QED
    BY <2>2, <2>4, <2>5, <2>7
<1>6. ASSUME Renommer(a)
      PROVE  Comptes' = Comptes
  <2>1. appel[a].etape = "renommer" /\ Passer(a, "fermer") /\ "fermer" \in Etapes
    BY <1>6 DEF Renommer, A, Etapes
  <2>2. /\ Autres(a) /\ appel'[a].etape = "fermer" /\ appel'[a].id = appel[a].id
        /\ appel'[a].tampon = appel[a].tampon
    BY <1>1, <2>1, EffetPasser
  <2>3. EnCours(a) /\ appel[a].op = "supprimerCompter" /\ Remplace(a) /\ Remplace(a)'
    BY <1>1, <2>1, <2>2 DEF EnCours, Coherent, Remplace
  <2>4. Comptes = ToSet(appel[a].tampon) \cup {appel[a].id}
    BY <1>4, <2>2, <2>3, ComptesDuTampon
  <2>5. {b \in Appelants : Remplace(b)}' = {a}
    BY <1>4, <2>2, <2>3
  <2>6. Comptes' = ToSet(appel'[a].tampon) \cup {appel'[a].id}
    BY <2>5 DEF Comptes
  <2> QED
    BY <2>2, <2>4, <2>6
<1>7. ASSUME Fermer(a)
      PROVE  Comptes' = Comptes \ {appel[a].id} /\ appel[a].id \in Comptes
  <2> DEFINE t == appel[a].tampon
             f == appel[a].ecrit
  <2>1. /\ appel[a].etape = "fermer" /\ Finir(a, "vrai") /\ "vrai" \in Issues /\ nom' = nom
        /\ contenu' = [contenu EXCEPT ![f] = t \o SubSeq(@, Len(t) + 1, Len(@))]
    BY <1>7 DEF Fermer, A, Issues
  <2>2. Autres(a) /\ appel'[a].etape = "rendre"
    BY <1>1, <2>1, EffetFinir
  <2>3. EnCours(a) /\ appel[a].op = "supprimerCompter" /\ Remplace(a) /\ ~Remplace(a)'
    BY <1>1, <2>1, <2>2 DEF EnCours, Coherent, Remplace
  <2>4. Comptes = ToSet(t) \cup {appel[a].id}
    BY <1>4, <2>2, <2>3, ComptesDuTampon
  <2>5. \A b \in Appelants : ~Remplace(b)'
    BY <1>4, <2>2, <2>3
  <2>6. Comptes' = Lignes(nom.listeComptes)'
    BY <2>5 DEF Comptes
  <2>7. f \in Fichiers /\ f = nom.listeComptes /\ contenu[f] = <<>> /\ appel[a].id \notin ToSet(t)
    BY <1>1, <2>1 DEF Fidele, Coherent
  <2>8. contenu'[f] = t
    <3>1. t \in Seq(Ids) /\ contenu \in [Fichiers -> Seq(Ids)]
      BY <1>1 DEF AppelType, DisqueOK
    <3>2. contenu'[f] = t \o SubSeq(<<>>, Len(t) + 1, Len(<<>>))
      BY <2>1, <2>7, <3>1
    <3> HIDE DEF t, f
    <3>3. SubSeq(<<>>, Len(t) + 1, Len(<<>>)) = <<>>
      BY <3>1
    <3> QED
      BY <3>1, <3>2, <3>3, ConcatEmptySeq
  <2>9. Lignes(nom.listeComptes)' = ToSet(t)
    BY <1>1, <2>1, <2>7, <2>8 DEF Lignes
  <2> QED
    BY <2>4, <2>6, <2>7, <2>9
<1> QED
  BY <1>2, <1>3, <1>5, <1>6, <1>7

-----------------------------------------------------------------------------
(* Creations. *)

(***************************************************************************)
(* The steps of a deletion that replace the list.                          *)
(***************************************************************************)
LEMMA EtapesDeSuppression ==
  ASSUME NEW a \in Appelants, Coherent(a), Effacer(a) \/ Renommer(a) \/ Fermer(a)
  PROVE  EnCours(a) /\ appel[a].op = "supprimerCompter"
BY DEF Effacer, Renommer, Fermer, A, EnCours, Coherent

LEMMA NomLibreStable ==
  ASSUME TypeOK, \A a \in Appelants : Coherent(a), Seule, \A a \in Appelants : Fidele(a),
         \A a \in Appelants : NomLibre(a), [Next]_vars, ~chevauche'
  PROVE  \A a \in Appelants : NomLibre(a)'
<1>1. appel \in [Appelants -> AppelType]
  BY TypesGroupes
<1> DEFINE Ecarte(x, y) == appel[x].op = "creerCompte" /\ appel[y].op = "creerCompte"
                             => appel[x].id.pseudo # appel[y].id.pseudo
           Absent(x) == \A id \in Lignes(nom.listeComptes) : id.pseudo # appel[x].id.pseudo
<1>2. \A x, y \in Appelants : x # y /\ EnCours(x) /\ EnCours(y) => Ecarte(x, y)
  BY DEF NomLibre
<1>3. \A x \in Appelants : appel[x].etape \in {"ajouter", "vider"} => Absent(x)
  BY DEF NomLibre
<1>4. ASSUME NEW x \in Appelants, NEW y \in Appelants, x # y, EnCours(x)', EnCours(y)'
      PROVE  Ecarte(x, y)'
  <2>1. ASSUME NEW a \in Appelants, Appeler(a)
        PROVE  Ecarte(x, y)'
    <3>1. PICK op \in Ops, id \in Ids :
             /\ appel' \in [Appelants -> AppelType] /\ Autres(a)
             /\ appel[a].etape = "libre"
             /\ appel'[a].etape = "ouvrir" /\ appel'[a].issue = "attendue"
             /\ appel'[a].op = op /\ appel'[a].id = id
             /\ risque' = (risque \/ Trouble(op))
             /\ chevauche' = (chevauche \/ Trouble(op) \/ Doublon(op, id))
             /\ acquis' = IF op = "supprimerCompter" THEN acquis \ {id} ELSE acquis
      BY <1>1, <2>1, EffetAppeler
    <3>2. ~Doublon(op, id)
      BY <3>1
    <3>3. \A b \in Appelants : EnCours(b) /\ op = "creerCompte" /\ appel[b].op = op
                                 => appel[b].id.pseudo # id.pseudo
      BY <3>2 DEF Doublon
    <3>4. \A b \in Appelants : b # a /\ EnCours(b)' => EnCours(b) /\ appel'[b] = appel[b]
      BY <3>1 DEF Autres, EnCours
    <3>5. CASE x = a
      BY <1>4, <3>1, <3>3, <3>4, <3>5
    <3>6. CASE y = a
      BY <1>4, <3>1, <3>3, <3>4, <3>6
    <3>7. CASE x # a /\ y # a
      BY <1>2, <1>4, <3>4, <3>7
    <3> QED
      BY <3>5, <3>6, <3>7
  <2>2. CASE Panne
    BY <1>4, <2>2, LibreType DEF Panne, EnCours
  <2>3. CASE UNCHANGED vars
    BY <1>2, <1>4, <2>3 DEF vars, EnCours
  <2>4. ASSUME NEW a \in Appelants, Autres(a),
               EnCours(a)' => EnCours(a) /\ appel'[a].op = appel[a].op
                                         /\ appel'[a].id = appel[a].id
        PROVE  Ecarte(x, y)'
    BY <1>2, <1>4, <2>4 DEF Autres, EnCours
  <2> QED
    BY <2>1, <2>2, <2>3, <2>4, Pas, Continue
<1>5. ASSUME NEW x \in Appelants, appel'[x].etape \in {"ajouter", "vider"}
      PROVE  Absent(x)'
  <2>1. ASSUME Lignes(nom.listeComptes)' = Lignes(nom.listeComptes), appel'[x] = appel[x]
        PROVE  Absent(x)'
    BY <1>3, <1>5, <2>1
  <2>2. CASE Panne
    BY <1>5, <2>2, LibreType DEF Panne
  <2>3. CASE UNCHANGED vars
    <3>1. Lignes(nom.listeComptes)' = Lignes(nom.listeComptes)
      BY <2>3 DEF vars, Lignes
    <3> QED
      BY <2>1, <2>3, <3>1 DEF vars
  <2>4. ASSUME NEW a \in Appelants, a # x, SansEcrire(a)
        PROVE  Absent(x)'
    <3>1. Autres(a)
      BY <1>1, <2>4, EffetAppeler, Continue DEF SansEcrire
    <3>2. Lignes(nom.listeComptes)' = Lignes(nom.listeComptes)
      BY <2>4, EffetLignes
    <3> QED
      BY <2>1, <2>4, <3>1, <3>2 DEF Autres
  <2>5. ASSUME NEW a \in Appelants, a # x, Ajouter(a)
        PROVE  Absent(x)'
    <3>1. Autres(a)
      BY <2>5, Continue
    <3>2. appel'[x] = appel[x] /\ appel[x].etape \in {"ajouter", "vider"} /\ EnCours(x)
      BY <1>5, <2>5, <3>1 DEF Autres, EnCours
    <3>3. EnCours(a) /\ appel[a].op = "creerCompte" /\ appel[x].op = "creerCompte"
      BY <2>5, <3>2 DEF Ajouter, A, EnCours, Coherent
    <3>4. appel[a].id.pseudo # appel[x].id.pseudo
      BY <1>2, <2>5, <3>2, <3>3
    <3>5. Lignes(nom.listeComptes)' = Lignes(nom.listeComptes) \cup {appel[a].id}
      BY <2>5, EffetLignes
    <3> QED
      BY <1>3, <3>2, <3>4, <3>5
  <2>6. ASSUME NEW a \in Appelants, a # x, Effacer(a) \/ Renommer(a) \/ Fermer(a)
        PROVE  Absent(x)'
    <3>1. EnCours(a) /\ appel[a].op = "supprimerCompter" /\ Autres(a)
      BY <2>6, EtapesDeSuppression, Continue
    <3>2. EnCours(x)
      BY <1>5, <2>6, <3>1 DEF Autres, EnCours
    <3> QED
      BY <2>6, <3>1, <3>2 DEF Seule
  <2>7. CASE PseudoDejaUtilise(x)
    <3>1. appel[x].etape = "lire" /\ Fidele(x)
      BY <2>7 DEF PseudoDejaUtilise, A
    <3>2. appel[x].lu = nom.listeComptes
      BY <3>1 DEF Fidele
    <3>3. CASE \E id \in Lignes(appel[x].lu) : id.pseudo = appel[x].id.pseudo
      <4>1. Finir(x, "faux") /\ "faux" \in Issues
        BY <2>7, <3>3 DEF PseudoDejaUtilise, Issues
      <4>2. appel'[x].etape = "rendre"
        BY <1>1, <4>1, EffetFinir
      <4> QED
        BY <1>5, <4>2
    <3>4. CASE ~\E id \in Lignes(appel[x].lu) : id.pseudo = appel[x].id.pseudo
      <4>1. Absent(x)
        BY <3>2, <3>4
      <4>2. Passer(x, "ajouter") /\ "ajouter" \in Etapes
        BY <2>7, <3>4 DEF PseudoDejaUtilise, Etapes
      <4>3. appel'[x].id = appel[x].id
        BY <1>1, <4>2, EffetPasser
      <4>4. Lignes(nom.listeComptes)' = Lignes(nom.listeComptes)
        BY <2>7, EffetLignes DEF SansEcrire
      <4> QED
        BY <4>1, <4>3, <4>4
    <3> QED
      BY <3>3, <3>4
  <2>8. CASE OuvrirAjout(x)
    <3>1. appel[x].etape = "ajouter" /\ EnCours(x)'
      BY <1>5, <2>8 DEF OuvrirAjout, A, EnCours
    <3>2. appel'[x].id = appel[x].id
      BY <2>8, <3>1, Continue
    <3>3. Lignes(nom.listeComptes)' = Lignes(nom.listeComptes)
      BY <2>8, EffetLignes DEF SansEcrire
    <3> QED
      BY <1>3, <3>1, <3>2, <3>3
  <2>9. CASE \/ Appeler(x) \/ Chercher(x) \/ Connexion(x) \/ Ajouter(x) \/ Verifier(x)
             \/ Relire(x) \/ OuvrirTemporaire(x) \/ Copier(x) \/ Effacer(x) \/ Renommer(x)
             \/ Fermer(x) \/ Rendre(x)
    <3>1. CASE Appeler(x)
      BY <1>1, <1>5, <3>1, EffetAppeler
    <3>2. CASE Rendre(x)
      BY <1>1, <1>5, <3>2, LibreType DEF Rendre
    <3>3. CASE Copier(x)
      <4>1. (appel[x].etape = "copier" => appel[x].lu \in Fichiers)
            /\ contenu \in [Fichiers -> Seq(Ids)]
        BY TypesGroupes DEF Coherent
      <4> QED
        BY <1>1, <1>5, <3>3, <4>1, EffetCopier
    <3>4. CASE \/ Chercher(x) \/ Connexion(x) \/ Ajouter(x) \/ Verifier(x)
               \/ Relire(x) \/ OuvrirTemporaire(x) \/ Effacer(x) \/ Renommer(x) \/ Fermer(x)
      <4>1. \/ \E e \in {"relire", "renommer", "fermer"} : Passer(x, e)
            \/ \E f : \/ Ouvrir(x, "lu", f, "lire") \/ Ouvrir(x, "lu", f, "temporaire")
                      \/ Ouvrir(x, "ecrit", f, "copier")
            \/ \E issue : Finir(x, issue)
        BY <3>4 DEF Chercher, Connexion, Ajouter, Verifier, Relire, OuvrirTemporaire, Effacer,
             Renommer, Fermer, OuvrirListe
      <4>2. CASE \E e \in {"relire", "renommer", "fermer"} : Passer(x, e)
        <5>1. appel'[x].etape \in {"relire", "renommer", "fermer"}
          BY <1>1, <4>2 DEF Passer, AppelType
        <5> QED
          BY <1>5, <5>1
      <4>3. CASE \E f : \/ Ouvrir(x, "lu", f, "lire") \/ Ouvrir(x, "lu", f, "temporaire")
                        \/ Ouvrir(x, "ecrit", f, "copier")
        <5>1. appel'[x].etape \in {"lire", "temporaire", "copier"}
          BY <1>1, <4>3 DEF Ouvrir, AppelType
        <5> QED
          BY <1>5, <5>1
      <4>4. CASE \E issue : Finir(x, issue)
        <5>1. appel'[x].etape = "rendre"
          BY <1>1, <4>4, LibreType DEF Finir, AppelType
        <5> QED
          BY <1>5, <5>1
      <4> QED
        BY <4>1, <4>2, <4>3, <4>4
    <3> QED
      BY <2>9, <3>1, <3>2, <3>3, <3>4
  <2> HIDE DEF Absent
  <2> QED
    BY <2>2, <2>3, <2>4, <2>5, <2>6, <2>7, <2>8, <2>9, Pas DEF SansEcrire
<1> QED
  BY <1>4, <1>5 DEF NomLibre

-----------------------------------------------------------------------------
(* The accounts that must stay. *)

(***************************************************************************)
(* A crash that cuts no deletion changes no account.                       *)
(***************************************************************************)
LEMMA PanneSansSuppression ==
  ASSUME \A a \in Appelants : Coherent(a), Panne,
         \A a \in Appelants : EnCours(a) => appel[a].op # "supprimerCompter"
  PROVE  Comptes' = Comptes
<1>1. \A a \in Appelants : ~Remplace(a)
  BY DEF EnCours, Remplace, Coherent
<1>2. \A a \in Appelants : ~Remplace(a)'
  BY LibreType DEF Panne, Remplace
<1>3. Comptes = Lignes(nom.listeComptes) /\ Comptes' = Lignes(nom.listeComptes)'
  BY <1>1, <1>2 DEF Comptes
<1> QED
  BY <1>3 DEF Panne, disque, Lignes

LEMMA AcquisStable ==
  ASSUME TypeOK, \A a \in Appelants : Coherent(a), Seule, \A a \in Appelants : Fidele(a),
         AcquisLa, [Next]_vars, ~risque'
  PROVE  AcquisLa'
<1>1. appel \in [Appelants -> AppelType]
  BY TypesGroupes
<1>2. /\ acquis \subseteq Comptes
      /\ \A b \in Appelants :
           EnCours(b) /\ appel[b].op = "supprimerCompter" => appel[b].id \notin acquis
  BY DEF AcquisLa
<1>3. SUFFICES /\ acquis' \subseteq Comptes'
               /\ \A b \in Appelants :
                    EnCours(b)' /\ appel'[b].op = "supprimerCompter" => appel'[b].id \notin acquis'
  BY DEF AcquisLa
<1>4. CASE Panne
  <2>1. acquis' = acquis
        /\ \A a \in Appelants : EnCours(a) => appel[a].op # "supprimerCompter"
    BY <1>4 DEF Panne
  <2>2. Comptes' = Comptes
    BY <1>4, <2>1, PanneSansSuppression
  <2>3. \A b \in Appelants : ~EnCours(b)'
    BY <1>4, LibreType DEF Panne, EnCours
  <2> QED
    BY <1>2, <2>1, <2>2, <2>3
<1>5. CASE UNCHANGED vars
  <2>1. Comptes' = Comptes
    BY <1>5 DEF vars, Comptes, Remplace, Lignes
  <2> QED
    BY <1>2, <1>5, <2>1 DEF vars, EnCours
<1>6. ASSUME NEW a \in Appelants, Appeler(a)
      PROVE  /\ acquis' \subseteq Comptes'
             /\ \A b \in Appelants :
                  EnCours(b)' /\ appel'[b].op = "supprimerCompter" => appel'[b].id \notin acquis'
  <2>1. PICK op \in Ops, id \in Ids :
           /\ appel' \in [Appelants -> AppelType] /\ Autres(a)
           /\ appel[a].etape = "libre"
           /\ appel'[a].etape = "ouvrir" /\ appel'[a].issue = "attendue"
           /\ appel'[a].op = op /\ appel'[a].id = id
           /\ risque' = (risque \/ Trouble(op))
           /\ chevauche' = (chevauche \/ Trouble(op) \/ Doublon(op, id))
           /\ acquis' = IF op = "supprimerCompter" THEN acquis \ {id} ELSE acquis
    BY <1>1, <1>6, EffetAppeler
  <2>2. Comptes' = Comptes
    BY <1>6, EffetComptes DEF SansEcrire
  <2>3. \A b \in Appelants : b # a /\ EnCours(b)' => EnCours(b) /\ appel'[b] = appel[b]
    BY <2>1 DEF Autres, EnCours
  <2>4. acquis' \subseteq acquis /\ (op = "supprimerCompter" => id \notin acquis')
    BY <2>1
  <2> QED
    BY <1>2, <2>1, <2>2, <2>3, <2>4
<1>7. ASSUME NEW a \in Appelants, ~Appeler(a),
             \/ SansEcrire(a) \/ Ajouter(a) \/ Effacer(a) \/ Renommer(a) \/ Fermer(a)
      PROVE  /\ acquis' \subseteq Comptes'
             /\ \A b \in Appelants :
                  EnCours(b)' /\ appel'[b].op = "supprimerCompter" => appel'[b].id \notin acquis'
  <2>1. /\ Autres(a)
        /\ EnCours(a)' => /\ EnCours(a)
                          /\ appel'[a].op = appel[a].op /\ appel'[a].id = appel[a].id
    BY <1>7, Continue DEF SansEcrire
  <2>2. \A b \in Appelants : EnCours(b)' => /\ EnCours(b) /\ appel'[b].op = appel[b].op
                                            /\ appel'[b].id = appel[b].id
    BY <2>1 DEF Autres, EnCours
  <2>3. CASE Ajouter(a)
    <3>1. /\ appel[a].etape = "vider" /\ EnCours(a) /\ Finir(a, "vrai") /\ "vrai" \in Issues
          /\ acquis' = acquis \cup {appel[a].id}
      BY <2>3 DEF Ajouter, A, EnCours, Issues
    <3>2. Comptes' = Comptes \cup {appel[a].id}
      BY <2>3, EffetComptes
    <3>3. appel'[a].etape = "rendre"
      BY <1>1, <3>1, EffetFinir
    <3>4. \A b \in Appelants : b # a /\ EnCours(b) => appel[b].op # "supprimerCompter"
      BY <3>1 DEF Seule
    <3>5. ~EnCours(a)'
      BY <3>3 DEF EnCours
    <3> QED
      BY <1>2, <2>2, <3>1, <3>2, <3>4, <3>5
  <2>4. CASE Fermer(a)
    <3>1. acquis' = acquis /\ EnCours(a) /\ appel[a].op = "supprimerCompter"
      BY <2>4, EtapesDeSuppression DEF Fermer, histoire
    <3>2. Comptes' = Comptes \ {appel[a].id}
      BY <2>4, EffetComptes
    <3> QED
      BY <1>2, <2>2, <3>1, <3>2
  <2>5. CASE SansEcrire(a) \/ Effacer(a) \/ Renommer(a)
    <3>1. acquis' = acquis
      BY <1>7, <2>5 DEF SansEcrire, Chercher, OuvrirListe, Connexion, PseudoDejaUtilise,
           OuvrirAjout, Verifier, Relire, OuvrirTemporaire, Copier, Rendre, Effacer, Renommer,
           histoire
    <3>2. Comptes' = Comptes
      BY <2>5, EffetComptes
    <3> QED
      BY <1>2, <2>2, <3>1, <3>2
  <2> QED
    BY <1>7, <2>3, <2>4, <2>5
<1> QED
  BY <1>3, <1>4, <1>5, <1>6, <1>7, Pas DEF SansEcrire

-----------------------------------------------------------------------------
(* The theorems. *)

LEMMA PasIInv == IInv /\ [Next]_vars => IInv'
<1> SUFFICES ASSUME IInv, [Next]_vars
             PROVE  IInv'
  OBVIOUS
<1>1. TypeOK /\ \A a \in Appelants : Coherent(a)
  BY DEF IInv
<1>2. TypeOK' /\ \A a \in Appelants : Coherent(a)'
  BY <1>1, TypesStables
<1>3. (chevauche => chevauche') /\ (risque => risque')
  BY <1>1, Memoire
<1>4. /\ Tranquille => Seule /\ \A a \in Appelants : Fidele(a)
      /\ ~chevauche => \A a \in Appelants : NomLibre(a)
      /\ ~risque => AcquisLa
  BY DEF IInv
<1>5. ASSUME Tranquille'
      PROVE  Seule' /\ \A a \in Appelants : Fidele(a)'
  <2>1. Tranquille
    BY <1>3, <1>5 DEF Tranquille
  <2> QED
    BY <1>1, <1>4, <1>5, <2>1, SeuleStable, FideleStable
<1>6. ASSUME ~chevauche'
      PROVE  \A a \in Appelants : NomLibre(a)'
  <2>1. ~chevauche /\ Tranquille
    BY <1>3, <1>6 DEF Tranquille
  <2> QED
    BY <1>1, <1>4, <1>6, <2>1, NomLibreStable
<1>7. ASSUME ~risque'
      PROVE  AcquisLa'
  <2>1. ~risque /\ Tranquille
    BY <1>3, <1>7 DEF Tranquille
  <2> QED
    BY <1>1, <1>4, <1>7, <2>1, AcquisStable
<1> QED
  BY <1>2, <1>5, <1>6, <1>7 DEF IInv

(***************************************************************************)
(* The inductive invariant of the account server: what each call knows at  *)
(* each of its steps, and what the files are to it until a deletion has    *)
(* met another call.                                                       *)
(***************************************************************************)
THEOREM Invariance == Spec => []IInv
<1>1. Init => IInv
  BY InitIInv
<1>2. IInv /\ [Next]_vars => IInv'
  BY PasIInv
<1> QED
  BY <1>1, <1>2, PTL DEF Spec

(***************************************************************************)
(* The types of the files, of the calls and of the histories.              *)
(***************************************************************************)
THEOREM TypeComptes == Spec => []TypeOK
<1>1. IInv => TypeOK
  BY DEF IInv
<1> QED
  BY <1>1, Invariance, PTL

(***************************************************************************)
(* An account that was created stays in the file, with any number of       *)
(* creations at once and through crashes, unless its deletion is asked     *)
(* for, as long as no deletion overlaps another call or is cut short.      *)
(***************************************************************************)
THEOREM CreationsRestent == Spec => []CreationsDurables
<1>1. IInv => CreationsDurables
  BY ComptesSansEcrivain DEF IInv, AcquisLa, CreationsDurables
<1> QED
  BY <1>1, Invariance, PTL

-----------------------------------------------------------------------------
(* The refinement of ICompte. *)

\* The calls as ICompte sees them.
Vu == [a \in Appelants |-> [op |-> appel[a].op, id |-> appel[a].id, issue |-> appel[a].issue]]

LEMMA VuLibre == [op |-> Libre.op, id |-> Libre.id, issue |-> Libre.issue] = Promesse!Libre
BY DEF Libre, Promesse!Libre

LEMMA VuMeme ==
  ASSUME NEW a \in Appelants, Autres(a), appel'[a].op = appel[a].op, appel'[a].id = appel[a].id,
         appel'[a].issue = appel[a].issue
  PROVE  Vu' = Vu
BY DEF Vu, Autres

LEMMA VuFini ==
  ASSUME appel \in [Appelants -> AppelType], NEW a \in Appelants, NEW issue \in Issues,
         Finir(a, issue)
  PROVE  Vu' = [Vu EXCEPT ![a].issue = issue]
<1>1. Autres(a) /\ appel'[a].op = appel[a].op /\ appel'[a].id = appel[a].id
      /\ appel'[a].issue = issue
  BY EffetFinir
<1>2. ASSUME NEW b \in Appelants
      PROVE  Vu'[b] = [Vu EXCEPT ![a].issue = issue][b]
  <2>1. Vu'[b] = [op |-> appel'[b].op, id |-> appel'[b].id, issue |-> appel'[b].issue]
        /\ Vu[b] = [op |-> appel[b].op, id |-> appel[b].id, issue |-> appel[b].issue]
    BY DEF Vu
  <2>2. CASE b = a
    <3>1. [Vu EXCEPT ![a].issue = issue][a] = [Vu[a] EXCEPT !.issue = issue]
      BY DEF Vu
    <3>2. [Vu[a] EXCEPT !.issue = issue] = [op |-> appel[a].op, id |-> appel[a].id,
                                            issue |-> issue]
      BY <2>1, <2>2
    <3> QED
      BY <1>1, <2>1, <2>2, <3>1, <3>2
  <2>3. CASE b # a
    <3>1. [Vu EXCEPT ![a].issue = issue][b] = Vu[b] /\ appel'[b] = appel[b]
      BY <1>1, <2>3 DEF Vu, Autres
    <3> QED
      BY <2>1, <3>1
  <2> QED
    BY <2>2, <2>3
<1>3. Vu' = [b \in Appelants |-> Vu'[b]]
      /\ [Vu EXCEPT ![a].issue = issue]
           = [b \in Appelants |-> [Vu EXCEPT ![a].issue = issue][b]]
  BY DEF Vu
<1> QED
  BY <1>2, <1>3

(***************************************************************************)
(* What ICompte sees of a call: it is under way, and its account.          *)
(***************************************************************************)
LEMMA VuEnCours ==
  ASSUME NEW a \in Appelants, Coherent(a), EnCours(a)
  PROVE  /\ Vu[a].op = appel[a].op /\ Vu[a].id = appel[a].id /\ Vu[a].issue = "attendue"
         /\ Vu[a].op \in Ops
BY DEF Vu, Coherent, EnCours

LEMMA InitPromesse == Init => Promesse!Init
<1> SUFFICES ASSUME Init
             PROVE  Promesse!Init
  OBVIOUS
<1>1. PICK f \in Fichiers, s \in SeqOf(Ids, Cardinality(Pseudos)) :
        /\ NomsUniques(s)
        /\ nom = [listeComptes |-> f, tempFile |-> Aucun]
        /\ contenu = [g \in Fichiers |-> IF g = f THEN s ELSE <<>>]
        /\ acquis = ToSet(s)
  BY DEF Init
<1>2. appel = [a \in Appelants |-> Libre]
  BY DEF Init
<1>3. Comptes = ToSet(s)
  <2>1. \A a \in Appelants : ~Remplace(a)
    BY <1>2, LibreType DEF Remplace
  <2>2. Comptes = Lignes(f)
    BY <1>1, <2>1, ComptesSansEcrivain
  <2> QED
    BY <1>1, <2>2, GestionComptesAssumption DEF Lignes
<1>4. ToSet(s) \subseteq Ids
  BY <1>1, InitIInv DEF IInv, TypeOK
<1>5. \A i, j \in ToSet(s) : i.pseudo = j.pseudo => i = j
  BY <1>1 DEF NomsUniques, ToSet
<1>6. Comptes \in {S \in SUBSET Promesse!Ids : Promesse!NomsUniques(S)}
  BY <1>3, <1>4, <1>5 DEF Ids, Promesse!Ids, Promesse!NomsUniques
<1>7. Vu = [a \in Appelants |-> Promesse!Libre]
  BY <1>2, VuLibre DEF Vu
<1> QED
  BY <1>6, <1>7 DEF Promesse!Init, Vu

LEMMA PasPromesse ==
  ASSUME IInv, IInv', [Next]_vars, ~chevauche'
  PROVE  Promesse!Next \/ UNCHANGED Promesse!vars
<1>1. /\ TypeOK /\ \A a \in Appelants : Coherent(a) /\ Fidele(a) /\ NomLibre(a)
      /\ Seule /\ appel \in [Appelants -> AppelType]
  <2>1. ~chevauche
    BY Memoire DEF IInv
  <2> QED
    BY <2>1, TypesGroupes DEF IInv, Tranquille
<1>2. ASSUME Comptes' = Comptes, Vu' = Vu
      PROVE  UNCHANGED Promesse!vars
  BY <1>2 DEF Promesse!vars, Vu
<1>3. CASE UNCHANGED vars
  BY <1>2, <1>3 DEF vars, Comptes, Remplace, Lignes, Vu
<1>4. CASE Panne
  <2>1. appel' = [a \in Appelants |-> Libre] /\ UNCHANGED <<nom, contenu>>
    BY <1>4 DEF Panne, disque
  <2>2. Vu' = [a \in Appelants |-> Promesse!Libre]
    BY <2>1, VuLibre DEF Vu
  <2>3. CASE \A a \in Appelants : EnCours(a) => appel[a].op # "supprimerCompter"
    <3>1. Comptes' = Comptes
      BY <1>1, <1>4, <2>3, PanneSansSuppression
    <3> QED
      BY <2>2, <3>1 DEF Promesse!Next, Promesse!Panne, Vu
  <2>4. ASSUME NEW a \in Appelants, EnCours(a), appel[a].op = "supprimerCompter"
        PROVE  Promesse!Panne
    <3>1. Promesse!EnCours(a, "supprimerCompter")
      BY <1>1, <2>4, VuEnCours DEF Promesse!EnCours, Vu
    <3>2. Comptes' = Lignes(nom.listeComptes)
      <4>1. \A b \in Appelants : ~Remplace(b)'
        BY <2>1, LibreType DEF Remplace
      <4>2. Comptes' = Lignes(nom.listeComptes)'
        BY <4>1 DEF Comptes
      <4> QED
        BY <2>1, <4>2 DEF Lignes
    <3>3. CASE ~Remplace(a)
      <4>1. Comptes' = Comptes
        BY <1>1, <2>4, <3>2, <3>3, ComptesLus
      <4> QED
        BY <2>2, <4>1 DEF Promesse!Panne, Vu
    <3>4. CASE Remplace(a)
      <4>1. Lignes(nom.listeComptes) = {}
        <5>1. CASE appel[a].etape = "renommer"
          BY <1>1, <5>1 DEF Fidele, Lignes
        <5>2. CASE appel[a].etape = "fermer"
          <6>1. nom.listeComptes = Aucun \/ contenu[nom.listeComptes] = <<>>
            BY <1>1, <5>2 DEF Fidele
          <6>2. ToSet(<<>>) = {}
            BY DEF ToSet
          <6> QED
            BY <6>1, <6>2 DEF Lignes
        <5> QED
          BY <3>4, <5>1, <5>2 DEF Remplace
      <4>2. Comptes' = {}
        BY <3>2, <4>1
      <4> QED
        BY <2>2, <3>1, <4>2 DEF Promesse!Panne, Vu
    <3> QED
      BY <3>3, <3>4
  <2> QED
    BY <2>3, <2>4 DEF Promesse!Next
<1>5. ASSUME NEW a \in Appelants, Appeler(a)
      PROVE  Promesse!Appeler(a)
  <2>1. PICK op \in Ops, id \in Ids :
          appel' = [appel EXCEPT ![a].op = op, ![a].id = id, ![a].etape = "ouvrir"]
    BY <1>5 DEF Appeler
  <2>2. appel[a] = Libre
    BY <1>5 DEF Appeler
  <2>3. /\ appel'[a].op = op /\ appel'[a].id = id /\ appel'[a].issue = "attendue"
        /\ \A b \in Appelants : b # a => appel'[b] = appel[b]
    BY <1>1, <2>1, <2>2, LibreType DEF AppelType
  <2>4. Vu[a] = Promesse!Libre
    BY <2>2, VuLibre DEF Vu
  <2>5. Vu' = [Vu EXCEPT ![a] = [op |-> op, id |-> id, issue |-> "attendue"]]
    BY <2>3 DEF Vu
  <2>6. Comptes' = Comptes
    BY <1>1, <1>5, EffetComptes DEF SansEcrire
  <2>7. op \in Promesse!Ops /\ id \in Promesse!Ids
    BY DEF Ops, Ids, Promesse!Ops, Promesse!Ids
  <2> QED
    BY <2>4, <2>5, <2>6, <2>7 DEF Promesse!Appeler, Vu
<1>6. ASSUME NEW a \in Appelants, Rendre(a)
      PROVE  Promesse!Rendre(a)
  <2>1. appel[a].etape = "rendre" /\ appel' = [appel EXCEPT ![a] = Libre]
    BY <1>6 DEF Rendre, A
  <2>2. Vu[a].issue \in Promesse!Issues
    BY <1>1, <2>1 DEF Coherent, Vu, Issues, Promesse!Issues
  <2>3. Vu' = [Vu EXCEPT ![a] = Promesse!Libre]
    BY <1>1, <2>1, VuLibre DEF Vu
  <2>4. Comptes' = Comptes
    BY <1>1, <1>6, EffetComptes DEF SansEcrire
  <2> QED
    BY <2>2, <2>3, <2>4 DEF Promesse!Rendre, Vu
<1>7. ASSUME NEW a \in Appelants, NEW e \in Etapes, Passer(a, e)
      PROVE  Vu' = Vu
  BY <1>1, <1>7, EffetPasser, VuMeme
<1>8. ASSUME NEW a \in Appelants, NEW issue \in Issues, Finir(a, issue)
      PROVE  Promesse!Finir(a, issue)
  BY <1>1, <1>8, VuFini DEF Promesse!Finir, Vu
<1>9. "vrai" \in Issues /\ "faux" \in Issues /\ "exception" \in Issues
  BY DEF Issues
<1>10. ASSUME NEW a \in Appelants, Chercher(a) \/ Relire(a)
       PROVE  Promesse!Echouer(a) \/ UNCHANGED Promesse!vars
  <2>1. EnCours(a) /\ \E e \in {"lire", "temporaire"} : OuvrirListe(a, e)
    BY <1>10 DEF Chercher, Relire, A, EnCours
  <2>2. Comptes' = Comptes
    BY <1>1, <1>10, EffetComptes DEF SansEcrire
  <2>3. CASE nom.listeComptes = Aucun
    <3>1. Promesse!Finir(a, "exception")
      BY <1>8, <1>9, <2>1, <2>3 DEF OuvrirListe
    <3>2. Vu[a].issue = "attendue" /\ Vu[a] # Promesse!Libre
      BY <1>1, <2>1, VuEnCours DEF Promesse!Libre, Ops
    <3> QED
      BY <2>2, <3>1, <3>2 DEF Promesse!Echouer, Vu
  <2>4. CASE nom.listeComptes # Aucun
    <3>1. PICK e \in {"lire", "temporaire"} : Ouvrir(a, "lu", nom.listeComptes, e)
      BY <2>1, <2>4 DEF OuvrirListe
    <3>2. nom.listeComptes \in Fichiers /\ e \in Etapes
      BY <1>1, <2>4 DEF TypeOK, Etapes
    <3>3. Autres(a) /\ appel'[a].op = appel[a].op /\ appel'[a].id = appel[a].id
          /\ appel'[a].issue = appel[a].issue
      BY <1>1, <3>1, <3>2, EffetOuvrirLu
    <3> QED
      BY <1>2, <2>2, <3>3, VuMeme
  <2> QED
    BY <2>3, <2>4
<1>11. ASSUME NEW a \in Appelants, appel[a].etape = "lire"
       PROVE  EnCours(a) /\ Lignes(appel[a].lu) = Comptes
  <2>1. EnCours(a) /\ ~Remplace(a) /\ appel[a].lu = nom.listeComptes
    BY <1>1, <1>11 DEF EnCours, Remplace, Fidele
  <2> QED
    BY <1>1, <2>1, ComptesLus
<1>12. ASSUME NEW a \in Appelants, Connexion(a)
       PROVE  Promesse!Connexion(a)
  <2>1. appel[a].etape = "lire" /\ appel[a].op = "connexion" /\ Finir(a, Booleen(Trouve(a)))
    BY <1>12 DEF Connexion, A
  <2>2. Trouve(a) <=> appel[a].id \in Comptes
    BY <1>11, <2>1 DEF Trouve
  <2>3. /\ appel[a].id \in Comptes => Promesse!Finir(a, "vrai")
        /\ appel[a].id \notin Comptes => Promesse!Finir(a, "faux")
    <3>1. CASE appel[a].id \in Comptes
      <4>1. Finir(a, "vrai")
        BY <2>1, <2>2, <3>1 DEF Booleen
      <4> QED
        BY <1>8, <1>9, <3>1, <4>1
    <3>2. CASE appel[a].id \notin Comptes
      <4>1. Finir(a, "faux")
        BY <2>1, <2>2, <3>2 DEF Booleen
      <4> QED
        BY <1>8, <1>9, <3>2, <4>1
    <3> QED
      BY <3>1, <3>2
  <2>4. Comptes' = Comptes
    BY <1>1, <1>12, EffetComptes DEF SansEcrire
  <2>5. Vu[a].op = "connexion" /\ Vu[a].id = appel[a].id /\ Vu[a].issue = "attendue"
    BY <1>1, <1>11, <2>1, VuEnCours
  <2>6. Promesse!Finir(a, IF Vu[a].id \in Comptes THEN "vrai" ELSE "faux")
    BY <2>3, <2>5 DEF Promesse!Finir
  <2> QED
    BY <2>4, <2>5, <2>6 DEF Promesse!Connexion, Promesse!EnCours, Vu
<1>13. ASSUME NEW a \in Appelants, PseudoDejaUtilise(a)
       PROVE  Promesse!CreerCompte(a) \/ UNCHANGED Promesse!vars
  <2>1. appel[a].etape = "lire" /\ appel[a].op = "creerCompte"
    BY <1>13 DEF PseudoDejaUtilise, A
  <2>2. Comptes' = Comptes
    BY <1>1, <1>13, EffetComptes DEF SansEcrire
  <2>3. CASE \E id \in Comptes : id.pseudo = appel[a].id.pseudo
    <3>1. Promesse!Finir(a, "faux")
      BY <1>8, <1>9, <1>11, <1>13, <2>1, <2>3 DEF PseudoDejaUtilise
    <3>2. Vu[a].op = "creerCompte" /\ Vu[a].id = appel[a].id /\ Vu[a].issue = "attendue"
      BY <1>1, <1>11, <2>1, VuEnCours
    <3> QED
      BY <2>2, <2>3, <3>1, <3>2 DEF Promesse!CreerCompte, Promesse!EnCours,
         Promesse!PseudoDejaUtilise, Vu
  <2>4. CASE ~\E id \in Comptes : id.pseudo = appel[a].id.pseudo
    <3>1. Passer(a, "ajouter") /\ "ajouter" \in Etapes
      BY <1>11, <1>13, <2>1, <2>4 DEF PseudoDejaUtilise, Etapes
    <3> QED
      BY <1>2, <1>7, <2>2, <3>1
  <2> QED
    BY <2>3, <2>4
<1>14. ASSUME NEW a \in Appelants, OuvrirAjout(a) \/ OuvrirTemporaire(a)
       PROVE  UNCHANGED Promesse!vars
  <2>1. Comptes' = Comptes
    BY <1>1, <1>14, EffetComptes DEF SansEcrire
  <2>2. \E f : Ouvrir(a, "ecrit", f, "vider") \/ Ouvrir(a, "ecrit", f, "copier")
    BY <1>14 DEF OuvrirAjout, OuvrirTemporaire
  <2>3. Autres(a) /\ appel'[a].op = appel[a].op /\ appel'[a].id = appel[a].id
        /\ appel'[a].issue = appel[a].issue
    BY <1>1, <2>2 DEF Ouvrir, Autres, AppelType
  <2> QED
    BY <1>2, <2>1, <2>3, VuMeme
<1>15. ASSUME NEW a \in Appelants, Ajouter(a)
       PROVE  Promesse!CreerCompte(a)
  <2>1. appel[a].etape = "vider" /\ EnCours(a) /\ ~Remplace(a)
    BY <1>15 DEF Ajouter, A, EnCours, Remplace
  <2>2. appel[a].op = "creerCompte" /\ Finir(a, "vrai")
    BY <1>1, <1>15, <2>1 DEF Ajouter, Coherent
  <2>3. Comptes' = Comptes \cup {appel[a].id}
    BY <1>1, <1>15, EffetComptes
  <2>4. ~\E id \in Comptes : id.pseudo = appel[a].id.pseudo
    BY <1>1, <2>1, ComptesLus DEF NomLibre
  <2>5. Vu[a].op = "creerCompte" /\ Vu[a].id = appel[a].id /\ Vu[a].issue = "attendue"
    BY <1>1, <2>1, <2>2, VuEnCours
  <2>6. Promesse!Finir(a, "vrai")
    BY <1>8, <1>9, <2>2
  <2> QED
    BY <2>3, <2>4, <2>5, <2>6 DEF Promesse!CreerCompte, Promesse!EnCours,
       Promesse!PseudoDejaUtilise, Vu
<1>16. ASSUME NEW a \in Appelants, Verifier(a)
       PROVE  Promesse!SupprimerCompter(a) \/ UNCHANGED Promesse!vars
  <2>1. appel[a].etape = "lire" /\ appel[a].op = "supprimerCompter"
    BY <1>16 DEF Verifier, A
  <2>2. Comptes' = Comptes
    BY <1>1, <1>16, EffetComptes DEF SansEcrire
  <2>3. CASE appel[a].id \in Comptes
    <3>1. Passer(a, "relire") /\ "relire" \in Etapes
      BY <1>11, <1>16, <2>1, <2>3 DEF Verifier, Trouve, Etapes
    <3> QED
      BY <1>2, <1>7, <2>2, <3>1
  <2>4. CASE appel[a].id \notin Comptes
    <3>1. Promesse!Finir(a, "faux")
      BY <1>8, <1>9, <1>11, <1>16, <2>1, <2>4 DEF Verifier, Trouve
    <3>2. Vu[a].op = "supprimerCompter" /\ Vu[a].id = appel[a].id /\ Vu[a].issue = "attendue"
      BY <1>1, <1>11, <2>1, VuEnCours
    <3>3. Comptes' = Comptes \ {appel[a].id}
      BY <2>2, <2>4
    <3>4. Promesse!Finir(a, IF Vu[a].id \in Comptes THEN "vrai" ELSE "faux")
      BY <2>4, <3>1, <3>2 DEF Promesse!Finir
    <3>5. Comptes' = Comptes \ {Vu[a].id}
      BY <3>2, <3>3
    <3> QED
      BY <3>2, <3>4, <3>5 DEF Promesse!SupprimerCompter, Promesse!EnCours, Vu
  <2> QED
    BY <2>3, <2>4
<1>17. ASSUME NEW a \in Appelants, Copier(a)
       PROVE  UNCHANGED Promesse!vars
  <2>1. Comptes' = Comptes
    BY <1>1, <1>17, EffetComptes DEF SansEcrire
  <2>2. (appel[a].etape = "copier" => appel[a].lu \in Fichiers)
        /\ contenu \in [Fichiers -> Seq(Ids)]
    BY <1>1 DEF Coherent, TypeOK
  <2>3. Autres(a) /\ appel'[a].op = appel[a].op /\ appel'[a].id = appel[a].id
        /\ appel'[a].issue = appel[a].issue
    BY <1>1, <1>17, <2>2, EffetCopier
  <2> QED
    BY <1>2, <2>1, <2>3, VuMeme
<1>18. ASSUME NEW a \in Appelants, Effacer(a) \/ Renommer(a)
       PROVE  UNCHANGED Promesse!vars
  <2>1. Comptes' = Comptes
    BY <1>1, <1>18, EffetComptes
  <2>2. PICK e \in {"renommer", "fermer"} : Passer(a, e)
    BY <1>18 DEF Effacer, Renommer
  <2>3. e \in Etapes
    BY DEF Etapes
  <2> QED
    BY <1>2, <1>7, <2>1, <2>2, <2>3
<1>19. ASSUME NEW a \in Appelants, Fermer(a)
       PROVE  Promesse!SupprimerCompter(a)
  <2>1. EnCours(a) /\ appel[a].op = "supprimerCompter" /\ Finir(a, "vrai")
    BY <1>1, <1>19, EtapesDeSuppression DEF Fermer
  <2>2. Comptes' = Comptes \ {appel[a].id} /\ appel[a].id \in Comptes
    BY <1>1, <1>19, EffetComptes
  <2>3. Promesse!Finir(a, "vrai")
    BY <1>8, <1>9, <2>1
  <2>4. Vu[a].op = "supprimerCompter" /\ Vu[a].id = appel[a].id /\ Vu[a].issue = "attendue"
    BY <1>1, <2>1, VuEnCours
  <2>5. Promesse!Finir(a, IF Vu[a].id \in Comptes THEN "vrai" ELSE "faux")
    BY <2>2, <2>3, <2>4 DEF Promesse!Finir
  <2>6. Comptes' = Comptes \ {Vu[a].id}
    BY <2>2, <2>4
  <2> QED
    BY <2>4, <2>5, <2>6 DEF Promesse!SupprimerCompter, Promesse!EnCours, Vu
<1> QED
  BY <1>3, <1>4, <1>5, <1>6, <1>10, <1>12, <1>13, <1>14, <1>15, <1>16, <1>17, <1>18, <1>19, Pas
     DEF Promesse!Next

(***************************************************************************)
(* The account server keeps the promise of ICompte, crashes included,      *)
(* until two calls have overlapped of which one deletes or which create    *)
(* the same name.                                                          *)
(***************************************************************************)
THEOREM Implementation == Spec => ImplementeICompte
<1>1. Init => Promesse!Init
  BY InitPromesse
<1>2. IInv /\ IInv' /\ [Next]_vars => [chevauche' \/ Promesse!Next]_(Promesse!vars)
  BY PasPromesse
<1> QED
  BY <1>1, <1>2, Invariance, PTL DEF Spec, ImplementeICompte

=============================================================================
