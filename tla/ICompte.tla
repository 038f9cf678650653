------------------------------- MODULE ICompte -------------------------------
(***************************************************************************)
(* What the account server promises (Gestion_comptes/ICompte.java): a set  *)
(* of accounts, at most one of a name, and three operations, each of which *)
(* takes effect at once, or fails by a RemoteException without effect.     *)
(*                                                                         *)
(* Its process may stop and be started again.  Then the calls under way    *)
(* are gone, and if one of them was a deletion, perhaps all the accounts.  *)
(***************************************************************************)
CONSTANTS
  Appelants,     \* those who may have one RMI call under way each
  Pseudos, Mdps, \* names and passwords, without a comma
  Aucun          \* stands for the account of no call

Ids == [pseudo : Pseudos, mdp : Mdps]
Ops == {"creerCompte", "supprimerCompter", "connexion"}
Issues == {"vrai", "faux", "exception"}

Libre == [op |-> "aucun", id |-> Aucun, issue |-> "attendue"]

VARIABLES
  comptes,  \* the accounts
  appel     \* the call of each caller: operation, account and, once it is
            \* known, result

vars == <<comptes, appel>>

NomsUniques(S) == \A i, j \in S : i.pseudo = j.pseudo => i = j

Init ==
  /\ comptes \in {S \in SUBSET Ids : NomsUniques(S)}
  /\ appel = [a \in Appelants |-> Libre]

EnCours(a, op) == appel[a].op = op /\ appel[a].issue = "attendue"
Finir(a, issue) == appel' = [appel EXCEPT ![a].issue = issue]
PseudoDejaUtilise(p) == \E id \in comptes : id.pseudo = p

Appeler(a) ==
  /\ appel[a] = Libre
  /\ \E op \in Ops, id \in Ids :
        appel' = [appel EXCEPT ![a] = [op |-> op, id |-> id, issue |-> "attendue"]]
  /\ UNCHANGED comptes

CreerCompte(a) ==
  /\ EnCours(a, "creerCompte")
  /\ IF PseudoDejaUtilise(appel[a].id.pseudo)
     THEN UNCHANGED comptes /\ Finir(a, "faux")
     ELSE comptes' = comptes \cup {appel[a].id} /\ Finir(a, "vrai")

SupprimerCompter(a) ==
  /\ EnCours(a, "supprimerCompter")
  /\ comptes' = comptes \ {appel[a].id}
  /\ Finir(a, IF appel[a].id \in comptes THEN "vrai" ELSE "faux")

Connexion(a) ==
  /\ EnCours(a, "connexion")
  /\ Finir(a, IF appel[a].id \in comptes THEN "vrai" ELSE "faux")
  /\ UNCHANGED comptes

Echouer(a) ==
  /\ appel[a].issue = "attendue" /\ appel[a] # Libre
  /\ Finir(a, "exception")
  /\ UNCHANGED comptes

Rendre(a) ==
  /\ appel[a].issue \in Issues
  /\ appel' = [appel EXCEPT ![a] = Libre]
  /\ UNCHANGED comptes

Panne ==
  /\ appel' = [a \in Appelants |-> Libre]
  /\ \/ UNCHANGED comptes
     \/ comptes' = {} /\ \E a \in Appelants : EnCours(a, "supprimerCompter")

Next ==
  \/ \E a \in Appelants :
        \/ Appeler(a) \/ CreerCompte(a) \/ SupprimerCompter(a)
        \/ Connexion(a) \/ Echouer(a) \/ Rendre(a)
  \/ Panne

Spec == Init /\ [][Next]_vars

=============================================================================
