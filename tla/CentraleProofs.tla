---------------------------- MODULE CentraleProofs ----------------------------
(***************************************************************************)
(* The safety properties of Centrale, for every number of runs of Main.    *)
(* TypeOK and SegmentDuMain are inductive, together; the other two need to *)
(* know what each step of the end has achieved (Rendu, Ferme).             *)
(***************************************************************************)
EXTENDS Centrale, TLAPS

AvecSegment == {"attacher", "communication", "invite", "tuer", "attendre", "detacher",
                "supprimer"}

\* The memory of m is there only before m's end, or after an interruption that
\* leaves it; and until Detacher it is attached.
Rendu ==
  \A m \in Mains :
    /\ interrompu[m] => main[m] \in {"tuer", "attendre", "detacher", "supprimer"} \cup Termines
    /\ segment = m /\ ~coupe[m] =>
         /\ main[m] \in AvecSegment \cup {"tue"}
         /\ main[m] \in AvecSegment \ {"attacher", "supprimer"} => attache[m]

\* What the signals and the first wait have achieved.
Ferme ==
  \A m \in Mains :
    /\ main[m] # "absent" => rmi[m] # "absent"
    /\ main[m] \in {"detacher", "supprimer", "tuerRMI", "attendreRMI"} =>
         "attendu" \in {com[m], rmi[m]}
    /\ interrompu[m] \/ main[m] \in {"attendre", "detacher", "supprimer", "tuerRMI", "attendreRMI"}
         => com[m] \notin Vivants \/ sourd[m]
    /\ interrompu[m] \/ main[m] = "attendreRMI" => rmi[m] \notin Vivants

IInv == TypeOK /\ SegmentDuMain /\ Rendu /\ Ferme /\ ServeurArrete

-----------------------------------------------------------------------------

\* Each of the parts of IInv holds at the start.
LEMMA Initial == Init => IInv
  BY CentraleAssumption
     DEF Init, IInv, TypeOK, SegmentDuMain, Rendu, Ferme, ServeurArrete, EtatsMain,
         EtatsEnfant, Vivants, Termines, AvecSegment

\* A signalled child has no port that it had not before.
LEMMA EffetDuSignal ==
  ASSUME NEW e \in EtatsEnfant
  PROVE  /\ Signale(e) \in EtatsEnfant
         /\ e # "system" => Signale(e) \notin Vivants
         /\ Signale(e) \in Vivants => Signale(e) = e /\ e = "system"
         /\ Signale(e) = "system" => e = "system"
         /\ e \in {"absent", "attendu"} => Signale(e) = e
         /\ Signale(e) = "absent" => e = "absent"
  BY DEF EtatsEnfant, Vivants, Signale

\* Types, and one server for each port.
LEMMA PasType == TypeOK /\ [Next]_vars => TypeOK'
<1> SUFFICES ASSUME TypeOK, [Next]_vars PROVE TypeOK'
  OBVIOUS
<1> USE CentraleAssumption DEF TypeOK, EtatsMain, EtatsEnfant, Vivants, Termines, Aller, Enfant
<1>1. ASSUME NEW m \in Mains, Lancement(m) PROVE TypeOK'
  <2>1. CASE LancerClientRMI(m)
    BY <2>1 DEF LancerClientRMI
  <2>2. CASE Creer(m)
    BY <2>2 DEF Creer, enfants
  <2>3. CASE Attacher(m)
    BY <2>3 DEF Attacher, enfants
  <2>4. CASE LancerCommunication(m)
    BY <2>4 DEF LancerCommunication
  <2> QED BY <1>1, <2>1, <2>2, <2>3, <2>4 DEF Lancement
<1>2. ASSUME NEW m \in Mains, NEW etape \in EtatsMain, Groupe(m, etape) PROVE TypeOK'
  BY <1>2 DEF Groupe, Signale
<1>3. ASSUME NEW m \in Mains, CtrlC(m) PROVE TypeOK'
  BY <1>2, <1>3 DEF CtrlC
<1>4. ASSUME NEW m \in Mains, Exit(m) \/ Tue(m) PROVE TypeOK'
  BY <1>4 DEF Exit, Tue, enfants
<1>5. ASSUME NEW m \in Mains, Arret(m) PROVE TypeOK'
  <2>1. CASE TuerCommunication(m)
    <3>1. CASE com[m] \in {"absent", "fork"}
      BY <1>2, <2>1, <3>1 DEF TuerCommunication
    <3>2. CASE com[m] \notin {"absent", "fork"}
      <4>1. /\ main' = [main EXCEPT ![m] = "attendre"]
            /\ com' = [com EXCEPT ![m] = Signale(@)]
            /\ sourd' = [sourd EXCEPT ![m] = @ \/ com[m] = "system"]
            /\ UNCHANGED <<interrompu, attache, rmi, segment, coupe>>
        BY <2>1, <3>2 DEF TuerCommunication
      <4>2. /\ Signale(com[m]) \in EtatsEnfant
            /\ Signale(com[m]) \in {"actif", "system"} => Signale(com[m]) = com[m]
        BY EffetDuSignal
      <4> QED BY <4>1, <4>2
    <3> QED BY <3>1, <3>2
  <2>2. ASSUME NEW etape \in EtatsMain, Aller(m, etape), Wait(m) PROVE TypeOK'
    <3>1. main' \in [Mains -> EtatsMain]
      BY <2>2
    <3>2. CASE com[m] = "mort" /\ com' = [com EXCEPT ![m] = "attendu"] /\ UNCHANGED rmi
      BY <2>2, <3>1, <3>2 DEF Wait
    <3>3. CASE rmi[m] = "mort" /\ rmi' = [rmi EXCEPT ![m] = "attendu"] /\ UNCHANGED com
      BY <2>2, <3>1, <3>3 DEF Wait
    <3>4. CASE UNCHANGED enfants
      BY <2>2, <3>1, <3>4 DEF Wait, enfants
    <3> QED BY <2>2, <3>2, <3>3, <3>4 DEF Wait
  <2>3. CASE Detacher(m)
    BY <2>3 DEF Detacher, enfants
  <2>6. CASE Supprimer(m)
    BY <2>6 DEF Supprimer, enfants
  <2>4. CASE TuerRMI(m)
    <3>1. CASE rmi[m] = "fork"
      BY <1>2, <2>4, <3>1 DEF TuerRMI
    <3>2. CASE rmi[m] # "fork"
      BY <2>4, <3>2 DEF TuerRMI, Signale
    <3> QED BY <3>1, <3>2
  <2>5. CASE AttendreCommunication(m) \/ AttendreRMI(m)
    BY <2>2, <2>5 DEF AttendreCommunication, AttendreRMI
  <2> QED BY <1>5, <2>1, <2>3, <2>4, <2>5, <2>6 DEF Arret
<1>6. ASSUME NEW m \in Mains, Enfants(m) PROVE TypeOK'
  BY <1>6 DEF Enfants, Exec, DemarrerServeur, System, Repondre, DemarrerClientRMI, FinClientRMI
<1>7. CASE UNCHANGED vars
  BY <1>7 DEF vars
<1> QED BY <1>1, <1>3, <1>4, <1>5, <1>6, <1>7 DEF Next

\* The memory: whose it is, and that it does not outlive its Main.
LEMMA PasMemoire ==
  TypeOK /\ SegmentDuMain /\ Rendu /\ [Next]_vars => SegmentDuMain' /\ Rendu'
<1> SUFFICES ASSUME TypeOK, SegmentDuMain, Rendu, [Next]_vars
             PROVE  SegmentDuMain' /\ Rendu'
  OBVIOUS
<1> USE CentraleAssumption DEF TypeOK, EtatsMain, Termines, Aller, SegmentDuMain, Rendu, AvecSegment
<1>1. ASSUME NEW m \in Mains, Lancement(m) PROVE SegmentDuMain' /\ Rendu'
  <2>1. CASE LancerClientRMI(m)
    BY <2>1 DEF LancerClientRMI
  <2>2. CASE Creer(m)
    BY <2>2 DEF Creer
  <2>3. CASE Attacher(m)
    BY <2>3 DEF Attacher
  <2>4. CASE LancerCommunication(m)
    BY <2>4 DEF LancerCommunication
  <2> QED BY <1>1, <2>1, <2>2, <2>3, <2>4 DEF Lancement
<1>2. ASSUME NEW m \in Mains, NEW etape \in EtatsMain, Groupe(m, etape), main[m] \notin Termines,
             interrompu[m] => \/ etape = main[m]
                              \/ main[m] = "tuer" /\ etape = "attendre"
      PROVE  SegmentDuMain' /\ Rendu'
  <2>1. /\ main' = [main EXCEPT ![m] = IF interrompu[m] THEN etape ELSE "tuer"]
        /\ interrompu' = [interrompu EXCEPT ![m] = TRUE]
        /\ coupe' = [coupe EXCEPT
             ![m] = @ \/ (~interrompu[m] /\ main[m] \in {"attacher", "supprimer"})]
        /\ segment' \in {segment, Personne}
        /\ segment = m \/ segment' = segment
        /\ attache' = attache
    BY <1>2 DEF Groupe
  <2>2. ASSUME NEW n \in Mains, n # m
        PROVE  /\ main'[n] = main[n] /\ interrompu'[n] = interrompu[n]
               /\ coupe'[n] = coupe[n] /\ attache'[n] = attache[n]
               /\ segment' = n <=> segment = n
    BY <2>1, <2>2
  <2>3. /\ main'[m] = IF interrompu[m] THEN etape ELSE "tuer"
        /\ interrompu'[m]
        /\ coupe'[m] = (coupe[m] \/ (~interrompu[m] /\ main[m] \in {"attacher", "supprimer"}))
        /\ attache'[m] = attache[m]
        /\ segment' = m => segment = m
    BY <2>1
  <2>4. SegmentDuMain'
    BY <2>2, <2>3
  <2>5. main'[m] \in {"tuer", "attendre", "detacher", "supprimer"} \cup Termines
    <3>1. CASE interrompu[m]
      BY <1>2, <2>3, <3>1
    <3>2. CASE ~interrompu[m]
      BY <2>3, <3>2
    <3> QED BY <3>1, <3>2
  <2>6. ASSUME segment' = m, ~coupe'[m]
        PROVE  /\ main'[m] \in AvecSegment \cup {"tue"}
               /\ main'[m] \in AvecSegment \ {"attacher", "supprimer"} => attache'[m]
    <3>1. CASE interrompu[m]
      BY <1>2, <2>3, <2>6, <3>1
    <3>2. CASE ~interrompu[m]
      BY <1>2, <2>3, <2>6, <3>2
    <3> QED BY <3>1, <3>2
  <2>7. Rendu'
    BY <2>2, <2>3, <2>5, <2>6
  <2> QED BY <2>4, <2>7
<1>3. ASSUME NEW m \in Mains, CtrlC(m) PROVE SegmentDuMain' /\ Rendu'
  BY <1>2, <1>3 DEF CtrlC, EnMarche
<1>4. ASSUME NEW m \in Mains, Exit(m) \/ Tue(m) PROVE SegmentDuMain' /\ Rendu'
  BY <1>4 DEF Exit, Tue
<1>5. ASSUME NEW m \in Mains, Arret(m) PROVE SegmentDuMain' /\ Rendu'
  <2>1. CASE TuerCommunication(m)
    <3>1. CASE com[m] \in {"absent", "fork"}
      BY <1>2, <2>1, <3>1 DEF TuerCommunication
    <3>2. CASE com[m] \notin {"absent", "fork"}
      BY <2>1, <3>2 DEF TuerCommunication
    <3> QED BY <3>1, <3>2
  <2>2. CASE AttendreCommunication(m)
    BY <2>2 DEF AttendreCommunication, Wait
  <2>3. CASE Detacher(m)
    BY <2>3 DEF Detacher
  <2>4. CASE Supprimer(m)
    BY <2>4 DEF Supprimer
  <2>5. CASE TuerRMI(m)
    <3>1. CASE rmi[m] = "fork"
      BY <1>2, <2>5, <3>1 DEF TuerRMI
    <3>2. CASE rmi[m] # "fork"
      BY <2>5, <3>2 DEF TuerRMI
    <3> QED BY <3>1, <3>2
  <2>6. CASE AttendreRMI(m)
    BY <2>6 DEF AttendreRMI, Wait
  <2> QED BY <1>5, <2>1, <2>2, <2>3, <2>4, <2>5, <2>6 DEF Arret
<1>6. ASSUME NEW m \in Mains, Enfants(m) PROVE SegmentDuMain' /\ Rendu'
  <2>1. UNCHANGED <<main, interrompu, attache, segment, coupe>>
    BY <1>6 DEF Enfants, Exec, DemarrerServeur, System, Repondre, DemarrerClientRMI, FinClientRMI
  <2> QED BY <2>1
<1>7. CASE UNCHANGED vars
  BY <1>7 DEF vars
<1> QED BY <1>1, <1>3, <1>4, <1>5, <1>6, <1>7 DEF Next

\* The children: what the signals and the waits have achieved.
LEMMA PasEnfants ==
  TypeOK /\ Rendu /\ Ferme /\ ServeurArrete /\ [Next]_vars => Ferme' /\ ServeurArrete'
<1> SUFFICES ASSUME TypeOK, Rendu, Ferme, ServeurArrete, [Next]_vars
             PROVE  Ferme' /\ ServeurArrete'
  OBVIOUS
<1> USE DEF TypeOK, EtatsMain, Termines, Aller, Rendu, Ferme, ServeurArrete
<1>1. ASSUME NEW m \in Mains, Lancement(m) PROVE Ferme' /\ ServeurArrete'
  <2>1. CASE LancerClientRMI(m)
    BY <2>1 DEF LancerClientRMI
  <2>2. CASE Creer(m)
    BY <2>2 DEF Creer, enfants
  <2>3. CASE Attacher(m)
    BY <2>3 DEF Attacher, enfants
  <2>4. CASE LancerCommunication(m)
    BY <2>4 DEF LancerCommunication
  <2> QED BY <1>1, <2>1, <2>2, <2>3, <2>4 DEF Lancement
<1>2. ASSUME NEW m \in Mains, NEW etape \in EtatsMain, Groupe(m, etape),
             main[m] \notin Termines \cup {"absent"},
             interrompu[m] => \/ etape = main[m]
                              \/ main[m] = "tuer" /\ etape = "attendre"
      PROVE  Ferme' /\ ServeurArrete'
  <2>1. /\ main' = [main EXCEPT ![m] = IF interrompu[m] THEN etape ELSE "tuer"]
        /\ interrompu' = [interrompu EXCEPT ![m] = TRUE]
        /\ com' = [com EXCEPT ![m] = Signale(com[m])]
        /\ rmi' = [rmi EXCEPT ![m] = Signale(rmi[m])]
        /\ sourd' = [sourd EXCEPT ![m] = sourd[m] \/ com[m] = "system"]
    BY <1>2 DEF Groupe
  <2>2. ASSUME NEW n \in Mains, n # m
        PROVE  /\ main'[n] = main[n] /\ interrompu'[n] = interrompu[n]
               /\ com'[n] = com[n] /\ rmi'[n] = rmi[n] /\ sourd'[n] = sourd[n]
    BY <2>1, <2>2
  <2>3. /\ main'[m] = IF interrompu[m] THEN etape ELSE "tuer"
        /\ interrompu'[m]
        /\ com'[m] = Signale(com[m]) /\ rmi'[m] = Signale(rmi[m])
        /\ sourd'[m] = (sourd[m] \/ com[m] = "system")
    BY <2>1
  <2>4. /\ com'[m] \in Vivants => sourd'[m]
        /\ rmi'[m] \notin Vivants
        /\ rmi[m] # "absent" => rmi'[m] # "absent"
        /\ com[m] = "attendu" => com'[m] = "attendu"
        /\ rmi[m] = "attendu" => rmi'[m] = "attendu"
    <3>1. com[m] \in EtatsEnfant /\ rmi[m] \in EtatsEnfant /\ rmi[m] # "system"
      OBVIOUS
    <3> HIDE DEF TypeOK
    <3> QED BY <2>3, <3>1, EffetDuSignal
  <2>5. main'[m] \notin {"absent", "tuerRMI", "attendreRMI"}
        /\ (main'[m] \in {"detacher", "supprimer"} => main[m] = main'[m])
    <3>1. CASE interrompu[m]
      BY <1>2, <2>3, <3>1
    <3>2. CASE ~interrompu[m]
      BY <2>3, <3>2
    <3> QED BY <3>1, <3>2
  <2>6. main[m] # "absent"
    BY <1>2
  <2>7. Ferme'
    BY <2>2, <2>3, <2>4, <2>5, <2>6
  <2>8. ServeurArrete'
    BY <2>2, <2>3, <2>4
  <2> QED BY <2>7, <2>8
<1>3. ASSUME NEW m \in Mains, CtrlC(m) PROVE Ferme' /\ ServeurArrete'
  BY <1>2, <1>3 DEF CtrlC, EnMarche
<1>4. ASSUME NEW m \in Mains, Exit(m) \/ Tue(m) PROVE Ferme' /\ ServeurArrete'
  BY <1>4 DEF Exit, Tue, EnMarche, enfants
<1>5. ASSUME NEW m \in Mains, Arret(m) PROVE Ferme' /\ ServeurArrete'
  <2>1. CASE TuerCommunication(m)
    <3>1. CASE com[m] \in {"absent", "fork"}
      BY <1>2, <2>1, <3>1 DEF TuerCommunication
    <3>2. CASE com[m] \notin {"absent", "fork"}
      <4>1. /\ main[m] = "tuer"
            /\ main' = [main EXCEPT ![m] = "attendre"]
            /\ com' = [com EXCEPT ![m] = Signale(com[m])]
            /\ sourd' = [sourd EXCEPT ![m] = sourd[m] \/ com[m] = "system"]
            /\ UNCHANGED <<interrompu, rmi>>
        BY <2>1, <3>2 DEF TuerCommunication
      <4>2. /\ Signale(com[m]) \in Vivants => com[m] = "system"
            /\ com[m] = "attendu" => Signale(com[m]) = "attendu"
        BY EffetDuSignal
      <4>3. com'[m] \in Vivants => sourd'[m]
        BY <4>1, <4>2
      <4>4. Ferme'
        BY <4>1, <4>2, <4>3
      <4>5. ServeurArrete'
        BY <4>1, <4>3
      <4> QED BY <4>4, <4>5
    <3> QED BY <3>1, <3>2
  <2>2. CASE AttendreCommunication(m)
    BY <2>2 DEF AttendreCommunication, Wait, enfants, Vivants
  <2>3. CASE Detacher(m)
    BY <2>3 DEF Detacher, enfants
  <2>4. CASE Supprimer(m)
    BY <2>4 DEF Supprimer, enfants
  <2>5. CASE TuerRMI(m)
    <3>1. CASE rmi[m] = "fork"
      BY <1>2, <2>5, <3>1 DEF TuerRMI
    <3>2. CASE rmi[m] # "fork"
      BY <2>5, <3>2, EffetDuSignal DEF TuerRMI
    <3> QED BY <3>1, <3>2
  <2>6. CASE AttendreRMI(m)
    BY <2>6 DEF AttendreRMI, Wait, enfants, Vivants
  <2> QED BY <1>5, <2>1, <2>2, <2>3, <2>4, <2>5, <2>6 DEF Arret
<1>6. ASSUME NEW m \in Mains, Enfants(m) PROVE Ferme' /\ ServeurArrete'
  BY <1>6 DEF Enfants, Exec, DemarrerServeur, System, Repondre, DemarrerClientRMI, FinClientRMI,
              Enfant, Vivants
<1>7. CASE UNCHANGED vars
  BY <1>7 DEF vars
<1> QED BY <1>1, <1>3, <1>4, <1>5, <1>6, <1>7 DEF Next

-----------------------------------------------------------------------------

\* The inductive invariant holds always.
THEOREM Invariance == Spec => []IInv
<1>1. IInv /\ [Next]_vars => IInv'
  BY PasType, PasMemoire, PasEnfants DEF IInv
<1> QED BY Initial, <1>1, PTL DEF Spec

\* Everything has its type, and no port two servers, however many Mains there are.
THEOREM TypeCorrect == Spec => []TypeOK
BY Invariance, PTL DEF IInv

\* A Main that was not interrupted has its memory until it removes it.
THEOREM MemoirePropre == Spec => []SegmentDuMain
BY Invariance, PTL DEF IInv

\* A Main that ends by itself leaves no memory, but for the two bad moments.
THEOREM RienNeReste == Spec => []MemoireRendue
<1>1. IInv => MemoireRendue
  BY DEF IInv, Rendu, MemoireRendue, AvecSegment, Termines
<1> QED BY Invariance, <1>1, PTL

\* No child outlives Main, but for a server that was deaf to Ctrl+C.
THEOREM EnfantsTermines == Spec => []ServeurArrete
BY Invariance, PTL DEF IInv

=============================================================================
