------------------------------- MODULE Centrale -------------------------------
(***************************************************************************)
(* The central part (Partie_centrale/Main.c): Main starts ClientRMI,       *)
(* creates the shared memory, starts Communication and waits for "exit" or *)
(* Ctrl+C, upon which it ends its children and removes the memory.         *)
(*                                                                         *)
(* All runs of Main are on one machine with the same port, hence the same  *)
(* key of the memory; each is the foreground group of its own terminal, so *)
(* that Ctrl+C reaches its children too.  A signal is delivered at once.   *)
(*                                                                         *)
(* Three things are delicate.  system() ignores SIGINT while it runs.      *)
(* wait(NULL) takes the end of either child.  And a child that has not yet *)
(* executed its program still has Main's handler.                          *)
(***************************************************************************)
CONSTANTS
  Mains,    \* the runs of Main: started again, it is another one
  Personne  \* stands for the owner of a memory that does not exist

ASSUME CentraleAssumption == Personne \notin Mains

VARIABLES
  main,        \* where each Main is
  interrompu,  \* is it in gestionnaireSignal?
  attache,     \* is the memory attached?
  com, rmi,    \* its children
  segment,     \* whose is the shared memory of the key?
  sourd,       \* history: has its Communication ignored a signal?
  coupe        \* history: was it interrupted between shmget and shmat, or
               \* between shmdt and shmctl?

enfants == <<com, rmi>>
vars == <<main, interrompu, attache, com, rmi, segment, sourd, coupe>>

Init ==
  /\ main = [m \in Mains |-> "absent"]
  /\ interrompu = [m \in Mains |-> FALSE]
  /\ attache = [m \in Mains |-> FALSE]
  /\ com = [m \in Mains |-> "absent"]
  /\ rmi = [m \in Mains |-> "absent"]
  /\ segment = Personne
  /\ sourd = [m \in Mains |-> FALSE]
  /\ coupe = [m \in Mains |-> FALSE]

Vivants == {"fork", "lance", "actif", "system"}
Termines == {"fini", "echec", "tue"}
EnMarche(m) == main[m] \notin Termines \cup {"absent"}

Aller(m, etape) == main' = [main EXCEPT ![m] = etape]

-----------------------------------------------------------------------------
(* Signals *)

\* SIGINT ends a child, unless it is in system().
Signale(e) == IF e \in {"fork", "lance", "actif"} THEN "mort" ELSE e

\* SIGINT for all processes of the terminal.  Main enters its handler, if it
\* is not there.  So does a child before exec, which then signals the group
\* again and, as it has inherited the attached memory, removes it.
Groupe(m, etape) ==
  /\ Aller(m, IF interrompu[m] THEN etape ELSE "tuer")
  /\ interrompu' = [interrompu EXCEPT ![m] = TRUE]
  /\ coupe' = [coupe EXCEPT
       ![m] = @ \/ (~interrompu[m] /\ main[m] \in {"attacher", "supprimer"})]
  /\ com' = [com EXCEPT ![m] = Signale(@)]
  /\ rmi' = [rmi EXCEPT ![m] = Signale(@)]
  /\ sourd' = [sourd EXCEPT ![m] = @ \/ com[m] = "system"]
  /\ segment' = IF com[m] = "fork" /\ segment = m THEN Personne ELSE segment
  /\ UNCHANGED attache

CtrlC(m) == EnMarche(m) /\ Groupe(m, main[m])

\* Main is killed; its children go on.
Tue(m) ==
  /\ EnMarche(m)
  /\ Aller(m, "tue")
  /\ UNCHANGED <<interrompu, attache, enfants, segment, sourd, coupe>>

-----------------------------------------------------------------------------
(* Start *)

LancerClientRMI(m) ==
  /\ main[m] = "absent"
  /\ Aller(m, "memoire")
  /\ rmi' = [rmi EXCEPT ![m] = "fork"]
  /\ UNCHANGED <<interrompu, attache, com, segment, sourd, coupe>>

\* Faulty variant: without IPC_EXCL.
CreerOuPartager(m) ==
  /\ main[m] = "memoire"
  /\ segment' = IF segment = Personne THEN m ELSE segment
  /\ Aller(m, "attacher")
  /\ UNCHANGED <<interrompu, attache, enfants, sourd, coupe>>

\* shmget with IPC_CREAT | IPC_EXCL; a failure leaves ClientRMI behind.
Creer(m) ==
  /\ main[m] = "memoire"
  /\ IF segment = Personne THEN segment' = m /\ Aller(m, "attacher")
     ELSE Aller(m, "echec") /\ UNCHANGED segment
  /\ UNCHANGED <<interrompu, attache, enfants, sourd, coupe>>

Attacher(m) ==
  /\ main[m] = "attacher"
  /\ attache' = [attache EXCEPT ![m] = TRUE]
  /\ Aller(m, "communication")
  /\ UNCHANGED <<interrompu, enfants, segment, sourd, coupe>>

LancerCommunication(m) ==
  /\ main[m] = "communication"
  /\ com' = [com EXCEPT ![m] = "fork"]
  /\ Aller(m, "invite")
  /\ UNCHANGED <<interrompu, attache, rmi, segment, sourd, coupe>>

-----------------------------------------------------------------------------
(* End: after "exit", or in gestionnaireSignal *)

Exit(m) ==
  /\ main[m] = "invite"
  /\ Aller(m, "tuer")
  /\ UNCHANGED <<interrompu, attache, enfants, segment, sourd, coupe>>

\* kill(pid_communication, SIGINT): before the fork the pid is 0, and kill
\* signals the group.
TuerCommunication(m) ==
  /\ main[m] = "tuer"
  /\ IF com[m] \in {"absent", "fork"} THEN Groupe(m, "attendre")
     ELSE /\ Aller(m, "attendre")
          /\ com' = [com EXCEPT ![m] = Signale(@)]
          /\ sourd' = [sourd EXCEPT ![m] = @ \/ com[m] = "system"]
          /\ UNCHANGED <<interrompu, attache, rmi, segment, coupe>>

\* wait(NULL): some child has ended, or there is none left.
Wait(m) ==
  /\ \/ com[m] = "mort" /\ com' = [com EXCEPT ![m] = "attendu"] /\ UNCHANGED rmi
     \/ rmi[m] = "mort" /\ rmi' = [rmi EXCEPT ![m] = "attendu"] /\ UNCHANGED com
     \/ {com[m], rmi[m]} \subseteq {"absent", "attendu"} /\ UNCHANGED enfants
  /\ UNCHANGED <<interrompu, attache, segment, sourd, coupe>>

\* Faulty variant: waits for Communication.
AttendreLaCommunication(m) ==
  /\ main[m] = "attendre"
  /\ Aller(m, "detacher")
  /\ com[m] \notin Vivants
  /\ com' = [com EXCEPT ![m] = "attendu"]
  /\ UNCHANGED <<rmi, interrompu, attache, segment, sourd, coupe>>

\* Faulty variant: the handler does not end the shared memory.
AttendrePuisSortir(m) ==
  /\ main[m] = "attendre"
  /\ Aller(m, IF interrompu[m] THEN "fini" ELSE "detacher")
  /\ Wait(m)

AttendreCommunication(m) ==
  /\ main[m] = "attendre"
  /\ Aller(m, "detacher")
  /\ Wait(m)

\* shmdt fails if nothing is attached (any more).
Detacher(m) ==
  /\ main[m] = "detacher"
  /\ Aller(m, IF attache[m] THEN "supprimer" ELSE "echec")
  /\ attache' = [attache EXCEPT ![m] = FALSE]
  /\ UNCHANGED <<interrompu, enfants, segment, sourd, coupe>>

\* shmctl(IPC_RMID) fails if a child was faster.
Supprimer(m) ==
  /\ main[m] = "supprimer"
  /\ IF segment = m
     THEN segment' = Personne /\ Aller(m, IF interrompu[m] THEN "fini" ELSE "tuerRMI")
     ELSE Aller(m, "echec") /\ UNCHANGED segment
  /\ UNCHANGED <<interrompu, attache, enfants, sourd, coupe>>

\* Faulty variant: no signal is sent.
TuerSansSignal(m) ==
  /\ main[m] = "tuerRMI"
  /\ Aller(m, "attendreRMI")
  /\ UNCHANGED <<interrompu, attache, enfants, segment, sourd, coupe>>

TuerRMI(m) ==
  /\ main[m] = "tuerRMI"
  /\ IF rmi[m] = "fork" THEN Groupe(m, "attendreRMI")
     ELSE /\ Aller(m, "attendreRMI")
          /\ rmi' = [rmi EXCEPT ![m] = Signale(@)]
          /\ UNCHANGED <<interrompu, attache, com, segment, sourd, coupe>>

\* Faulty variant: Main does not wait a second time.
SortirSansAttendre(m) ==
  /\ main[m] = "attendreRMI"
  /\ Aller(m, "fini")
  /\ UNCHANGED <<interrompu, attache, enfants, segment, sourd, coupe>>

AttendreRMI(m) ==
  /\ main[m] = "attendreRMI"
  /\ Aller(m, "fini")
  /\ Wait(m)

-----------------------------------------------------------------------------
(* The children, which may outlive their Main *)

Enfant(e, m, avant, apres) == e[m] = avant /\ e' = [e EXCEPT ![m] = apres]

Exec(m) ==
  /\ \/ Enfant(com, m, "fork", "lance") /\ UNCHANGED rmi
     \/ Enfant(rmi, m, "fork", "lance") /\ UNCHANGED com
  /\ UNCHANGED <<main, interrompu, attache, segment, sourd, coupe>>

\* Faulty variant: SO_REUSEPORT.
PartagerPort(m) ==
  /\ Enfant(com, m, "lance", "actif")
  /\ UNCHANGED <<main, interrompu, attache, rmi, segment, sourd, coupe>>

\* bind: the port may be held by another server, or by connections that are
\* still closing.
DemarrerServeur(m) ==
  /\ \/ /\ \A n \in Mains : com[n] \notin {"actif", "system"}
        /\ Enfant(com, m, "lance", "actif")
     \/ Enfant(com, m, "lance", "mort")
  /\ UNCHANGED <<main, interrompu, attache, rmi, segment, sourd, coupe>>

\* A request is given to Gestion_requete.
System(m) ==
  /\ Enfant(com, m, "actif", "system")
  /\ UNCHANGED <<main, interrompu, attache, rmi, segment, sourd, coupe>>

\* Its end; RetourListe, for a list, exits if the memory has gone.
Repondre(m) ==
  /\ \/ Enfant(com, m, "system", "actif")
     \/ segment = Personne /\ Enfant(com, m, "system", "mort")
  /\ UNCHANGED <<main, interrompu, attache, rmi, segment, sourd, coupe>>

\* ClientRMI finds the account server and its UDP port free, or it ends.
DemarrerClientRMI(m) ==
  /\ \/ (\A n \in Mains : rmi[n] # "actif") /\ Enfant(rmi, m, "lance", "actif")
     \/ Enfant(rmi, m, "lance", "mort")
  /\ UNCHANGED <<main, interrompu, attache, com, segment, sourd, coupe>>

\* An exception in its loop.
FinClientRMI(m) ==
  /\ Enfant(rmi, m, "actif", "mort")
  /\ UNCHANGED <<main, interrompu, attache, com, segment, sourd, coupe>>

-----------------------------------------------------------------------------

Lancement(m) ==
  \/ LancerClientRMI(m)
  \/ Creer(m)
  \/ Attacher(m)
  \/ LancerCommunication(m)

\* TerminerCommunication, TerminerMemoirePartagee, TerminerClientRMI
Arret(m) ==
  \/ TuerCommunication(m)
  \/ AttendreCommunication(m)
  \/ Detacher(m)
  \/ Supprimer(m)
  \/ TuerRMI(m)
  \/ AttendreRMI(m)

Enfants(m) ==
  \/ Exec(m)
  \/ DemarrerServeur(m)
  \/ System(m)
  \/ Repondre(m)
  \/ DemarrerClientRMI(m)
  \/ FinClientRMI(m)

Next ==
  \E m \in Mains :
     \/ Lancement(m) \/ Exit(m) \/ Arret(m)
     \/ CtrlC(m) \/ Tue(m)
     \/ Enfants(m)

Spec == Init /\ [][Next]_vars

\* A Main that has begun to end goes on.
FairSpec == Spec /\ \A m \in Mains : WF_vars(Arret(m))

-----------------------------------------------------------------------------

EtatsMain ==
  {"absent", "memoire", "attacher", "communication", "invite", "tuer", "attendre",
   "detacher", "supprimer", "tuerRMI", "attendreRMI"} \cup Termines
EtatsEnfant == {"absent", "mort", "attendu"} \cup Vivants

\* Types; each port has one server.
TypeOK ==
  /\ main \in [Mains -> EtatsMain]
  /\ {interrompu, attache, sourd, coupe} \subseteq [Mains -> BOOLEAN]
  /\ com \in [Mains -> EtatsEnfant]
  /\ rmi \in [Mains -> EtatsEnfant \ {"system"}]
  /\ segment \in Mains \cup {Personne}
  /\ \A m, n \in Mains :
        \/ {com[m], com[n]} \subseteq {"actif", "system"}
        \/ rmi[m] = "actif" /\ rmi[n] = "actif"
        => m = n

(***************************************************************************)
(* From its creation (Main.c:94) until Main itself removes it the shared   *)
(* memory is its own: no other Main, and no child, takes or removes it,    *)
(* unless a signal has come.                                               *)
(***************************************************************************)
SegmentDuMain ==
  \A m \in Mains :
     /\ main[m] \in {"attacher", "communication", "invite", "tuer", "attendre",
                     "detacher", "supprimer"}
     /\ ~interrompu[m]
     => segment = m

(***************************************************************************)
(* A Main that ends by itself leaves no memory, with which the next one    *)
(* could not start, whenever and how often Ctrl+C was pressed: but for the *)
(* two moments at which TerminerMemoirePartagee cannot detach.             *)
(***************************************************************************)
MemoireRendue ==
  \A m \in Mains : main[m] \in {"fini", "echec"} /\ ~coupe[m] => segment # m

(***************************************************************************)
(* When Main has ended, both children have, in whichever order the two     *)
(* wait(NULL) took them and whatever died before.  Only after Ctrl+C may   *)
(* Communication be left, if it was in system().                           *)
(***************************************************************************)
ServeurArrete ==
  \A m \in Mains :
     main[m] = "fini" =>
       /\ rmi[m] \notin Vivants
       /\ com[m] \in Vivants => interrompu[m] /\ sourd[m]

\* Ctrl+C ends Main, even if Communication ignores it: ClientRMI does not, and
\* its end suffices if it was not waited for before.
CtrlCFinit ==
  \A m \in Mains :
     interrompu[m] /\ (sourd[m] => rmi[m] = "mort") ~> main[m] \in Termines

\* "exit" ends Main (README.md:131), unless Communication was in system().
ExitFinit ==
  \A m \in Mains : main[m] = "tuer" ~> main[m] \in Termines \/ sourd[m]

=============================================================================
