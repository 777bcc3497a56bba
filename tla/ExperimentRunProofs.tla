------------------------- MODULE ExperimentRunProofs -------------------------
(***************************************************************************)
(* Proofs about ExperimentRun, for any number of invocations, of native    *)
(* and HELM arms, of edits, and any versions of the inputs.                *)
(***************************************************************************)
EXTENDS ExperimentRun, TLAPS

\* The lock of the run directory.
OwnerInv == \A p, q \in Processes : Owner(p) /\ Owner(q) => p = q

\* Where the loop over the arms is.  Arms are completed in their order, because
\* the first one that fails ends the process.
LoopInv ==
  /\ \A p \in Processes :
       /\ pc[p] \in {"new", "measured", "locked"} => at[p] = 1
       /\ pc[p] # "new" => measured[p] \in Inputs
       /\ pc[p] \in InTry \cup {"arm"} =>
            /\ measured[p] = identity
            /\ \A i \in Arms : i < at[p] => i \in Completed /\ i \in verified[p]
       /\ pc[p] \in InTry => at[p] \in Arms /\ status[at[p]] = "running"
       /\ pc[p] = "helm" => at[p] \in HelmArms
       /\ pc[p] \in {"starting", "intended", "called"} => at[p] \notin HelmArms
  /\ \A i, j \in Arms : i \in Completed /\ j < i => j \in Completed

\* A HELM arm that was cut off once more than it was cleared waits for an opt-in.
HelmInv ==
  \A i \in HelmArms :
    \/ cutOff[i] <= optIns[i]
    \/ /\ cutOff[i] = optIns[i] + 1
       /\ status[i] \in {"running", "interrupted"}
       /\ \A p \in Processes : pc[p] \in InTry => at[p] # i

\* A native arm has a call to spare exactly while its intent is fresh.
NativeInv ==
  /\ \A i \in Arms \ HelmArms :
       /\ calls[i] <= optIns[i] + 1
       /\ ledger[i] = "fresh" => calls[i] = 0
  /\ \A p \in Processes : pc[p] = "intended" =>
       calls[at[p]] <= optIns[at[p]] /\ ledger[at[p]] = "inDoubt"

\* What the arms ran on, as long as there was at most one edit: inputs other
\* than the experiment's were only there after it, and are still there.
EditInv ==
  /\ identity = None => \A i \in Arms : status[i] = "pending" /\ usedBy[i] = None
  /\ \A i \in Arms : ledger[i] = "recorded" => usedBy[i] # None
  /\ \A p \in Processes :
       pc[p] \in {"called", "helm", "executed", "reported"} => usedBy[at[p]] # None
  /\ edits = 0 =>
       /\ identity \in {None, files}
       /\ \A p \in Processes : measured[p] \in {None, files}
       /\ \A i \in Arms : usedBy[i] \in {None, files}
  /\ edits <= 1 => \A i \in Arms : usedBy[i] \notin {None, identity} => files # identity
  /\ OneEditIsNoticed

Inv == TypeOK /\ OwnerInv /\ LoopInv /\ HelmInv /\ NativeInv /\ EditInv

\* The assumption in the form the steps below use.
LEMMA ConstantFacts ==
  /\ ArmCount \in Nat /\ MaxEdits \in Nat
  /\ HelmArms \subseteq Arms
  /\ None \notin Inputs
BY ExperimentAssumption DEF Arms, Inputs

\* What TypeOK lets pc be.
Phases == {"new", "measured"} \cup Holding \cup Ended

\* The types, one step per action and changed variable.
LEMMA TypeStep ==
  ASSUME TypeOK, LoopInv, Next
  PROVE  TypeOK'
<1> USE ConstantFacts DEF Goto, directory, work, input, process
<1>t. /\ files \in Inputs /\ edits \in Nat /\ identity \in Inputs \cup {None}
      /\ status \in [Arms -> ArmStatus] /\ report \in [Arms -> {"none", "good", "altered"}]
      /\ ledger \in [Arms -> {"fresh", "inDoubt", "recorded"}]
      /\ begunWith \in [Arms -> Data \cup {None}] /\ usedBy \in [Arms -> Inputs \cup {None}]
      /\ litter \in BOOLEAN
      /\ calls \in [Arms -> Nat] /\ optIns \in [Arms -> Nat] /\ cutOff \in [Arms -> Nat]
      /\ pc \in [Processes -> Phases] /\ at \in [Processes -> 1..(ArmCount + 1)]
      /\ measured \in [Processes -> Inputs \cup {None}] /\ verified \in [Processes -> SUBSET Arms]
  BY DEF TypeOK, Phases
<1>a. \A p \in Processes : Arm(p) \/ pc[p] \in InTry =>
        at[p] \in Arms /\ at[p] + 1 \in 1..(ArmCount + 1)
  BY <1>t DEF LoopInv, Arm, Arms
<1>d. \A f : f \in Inputs => f.data \in Data
  BY DEF Inputs
<1>1. ASSUME Edit PROVE TypeOK'
  <2>1. files' \in Inputs
    BY <1>t, <1>1 DEF Edit
  <2>2. edits' \in 0..MaxEdits
    BY <1>t, <1>1 DEF Edit
  <2>3. UNCHANGED <<identity, status, litter, report, ledger, begunWith, usedBy, calls, optIns,
      cutOff, pc, at, options, measured, verified>>
    BY <1>1 DEF Edit
  <2> QED
    BY <2>1, <2>2, <2>3 DEF TypeOK, Phases
<1>2. ASSUME NEW i \in Arms, Alter(i) PROVE TypeOK'
  <2>1. edits' \in 0..MaxEdits
    BY <1>t, <1>2 DEF Alter
  <2>2. report' \in [Arms -> {"none", "good", "altered"}]
    BY <1>t, <1>2 DEF Alter
  <2>3. UNCHANGED <<files, identity, status, litter, ledger, begunWith, usedBy, calls, optIns,
      cutOff, pc, at, options, measured, verified>>
    BY <1>2 DEF Alter
  <2> QED
    BY <2>1, <2>2, <2>3 DEF TypeOK, Phases
<1>3. ASSUME NEW p \in Processes, Measure(p) PROVE TypeOK'
  BY <1>a, <1>3 DEF Measure, TypeOK, InTry, Holding, Ended, ArmStatus
<1>4. ASSUME NEW p \in Processes, Lock(p) PROVE TypeOK'
  BY <1>a, <1>4 DEF Lock, TypeOK, InTry, Holding, Ended, ArmStatus
<1>5. ASSUME NEW p \in Processes, OpenRefused(p) PROVE TypeOK'
  BY <1>a, <1>5 DEF OpenRefused, MayOpen, TypeOK, InTry, Holding, Ended, ArmStatus
<1>6. ASSUME NEW p \in Processes, Open(p) PROVE TypeOK'
  BY <1>a, <1>6 DEF Open, MayOpen, TypeOK, InTry, Holding, Ended, ArmStatus
<1>7. ASSUME NEW p \in Processes, Skip(p) PROVE TypeOK'
  <2>1. at' \in [Processes -> 1..(ArmCount + 1)]
    BY <1>t, <1>a, <1>7 DEF Skip, Arm, Next1, InTry
  <2>2. verified' \in [Processes -> SUBSET Arms]
    BY <1>t, <1>a, <1>7 DEF Skip, Arm, Next1, InTry
  <2>3. UNCHANGED <<files, edits, identity, status, litter, report, ledger, begunWith, usedBy,
      calls, optIns, cutOff, pc, options, measured>>
    BY <1>7 DEF Skip
  <2> QED
    BY <2>1, <2>2, <2>3 DEF TypeOK, Phases
<1>8. ASSUME NEW p \in Processes, SkipRefused(p) PROVE TypeOK'
  BY <1>a, <1>8 DEF SkipRefused, Arm, TypeOK, InTry, Holding, Ended, ArmStatus
<1>9. ASSUME NEW p \in Processes, HelmRefused(p) PROVE TypeOK'
  BY <1>a, <1>9 DEF HelmRefused, Arm, NeedsOptIn, TypeOK, InTry, Holding, Ended, ArmStatus
<1>10. ASSUME NEW p \in Processes, BeginArm(p) PROVE TypeOK'
  <2>1. status' \in [Arms -> ArmStatus]
    BY <1>t, <1>a, <1>10 DEF BeginArm, Arm, NeedsOptIn, ArmStatus, InTry
  <2>2. optIns' \in [Arms -> Nat]
    BY <1>t, <1>a, <1>10 DEF BeginArm, Arm, NeedsOptIn, InTry
  <2>3. pc' \in [Processes -> Phases]
    BY <1>t, <1>10 DEF BeginArm, Arm, NeedsOptIn, Phases, Holding, Ended
  <2>4. UNCHANGED <<files, edits, identity, litter, report, ledger, begunWith, usedBy, calls,
      cutOff, at, options, measured, verified>>
    BY <1>10 DEF BeginArm
  <2> QED
    BY <2>1, <2>2, <2>3, <2>4 DEF TypeOK, Phases
<1>11. ASSUME NEW p \in Processes, Check(p) PROVE TypeOK'
  <2>1. pc' \in [Processes -> Phases]
    BY <1>t, <1>11 DEF Check, Phases, Holding, Ended
  <2>2. calls' \in [Arms -> Nat]
    BY <1>t, <1>a, <1>11 DEF Check, InTry
  <2>3. usedBy' \in [Arms -> Inputs \cup {None}]
    BY <1>t, <1>a, <1>11 DEF Check, InTry
  <2>4. UNCHANGED <<files, edits, identity, status, litter, report, ledger, begunWith, optIns,
      cutOff, at, options, measured, verified>>
    BY <1>11 DEF Check
  <2> QED
    BY <2>1, <2>2, <2>3, <2>4 DEF TypeOK, Phases
<1>12. ASSUME NEW p \in Processes, StartNative(p) PROVE TypeOK'
  <2>1. begunWith' \in [Arms -> Data \cup {None}]
    BY <1>t, <1>a, <1>d, <1>12 DEF StartNative, CheckpointAccepts, InTry
  <2>2. ledger' \in [Arms -> {"fresh", "inDoubt", "recorded"}]
    BY <1>t, <1>a, <1>12 DEF StartNative, CheckpointAccepts, InTry
  <2>3. optIns' \in [Arms -> Nat]
    BY <1>t, <1>a, <1>12 DEF StartNative, CheckpointAccepts, InTry
  <2>4. pc' \in [Processes -> Phases]
    BY <1>t, <1>12 DEF StartNative, CheckpointAccepts, Phases, Holding, Ended
  <2>5. UNCHANGED <<files, edits, identity, status, litter, report, usedBy, calls, cutOff, at,
      options, measured, verified>>
    BY <1>12 DEF StartNative
  <2> QED
    BY <2>1, <2>2, <2>3, <2>4, <2>5 DEF TypeOK, Phases
<1>13. ASSUME NEW p \in Processes, CallNative(p) PROVE TypeOK'
  <2>1. calls' \in [Arms -> Nat]
    BY <1>t, <1>a, <1>13 DEF CallNative, InTry
  <2>2. usedBy' \in [Arms -> Inputs \cup {None}]
    BY <1>t, <1>a, <1>13 DEF CallNative, InTry
  <2>3. pc' \in [Processes -> Phases]
    BY <1>t, <1>13 DEF CallNative, Phases, Holding, Ended
  <2>4. UNCHANGED <<files, edits, identity, status, litter, report, ledger, begunWith, optIns,
      cutOff, at, options, measured, verified>>
    BY <1>13 DEF CallNative
  <2> QED
    BY <2>1, <2>2, <2>3, <2>4 DEF TypeOK, Phases
<1>14. ASSUME NEW p \in Processes, RecordNative(p) PROVE TypeOK'
  BY <1>a, <1>14 DEF RecordNative, TypeOK, InTry, Holding, Ended, ArmStatus
<1>15. ASSUME NEW p \in Processes, WriteReport(p) PROVE TypeOK'
  BY <1>a, <1>15 DEF WriteReport, TypeOK, InTry, Holding, Ended, ArmStatus
<1>16. ASSUME NEW p \in Processes, Complete(p) PROVE TypeOK'
  <2>1. status' \in [Arms -> ArmStatus]
    BY <1>t, <1>a, <1>16 DEF Complete, StillMeasured, Next1, ArmStatus, InTry
  <2>2. verified' \in [Processes -> SUBSET Arms]
    BY <1>t, <1>a, <1>16 DEF Complete, StillMeasured, Next1, InTry
  <2>3. at' \in [Processes -> 1..(ArmCount + 1)]
    BY <1>t, <1>a, <1>16 DEF Complete, StillMeasured, Next1, InTry
  <2>4. pc' \in [Processes -> Phases]
    BY <1>t, <1>16 DEF Complete, StillMeasured, Next1, Phases, Holding, Ended
  <2>5. UNCHANGED <<files, edits, identity, litter, report, ledger, begunWith, usedBy, calls,
      optIns, cutOff, options, measured>>
    BY <1>16 DEF Complete
  <2> QED
    BY <2>1, <2>2, <2>3, <2>4, <2>5 DEF TypeOK, Phases
<1>17. ASSUME NEW p \in Processes, Done(p) PROVE TypeOK'
  BY <1>a, <1>17 DEF Done, TypeOK, InTry, Holding, Ended, ArmStatus
<1>18. ASSUME NEW p \in Processes, Fail(p) PROVE TypeOK'
  BY <1>a, <1>18 DEF Fail, TypeOK, InTry, Holding, Ended, ArmStatus
<1>19. ASSUME NEW p \in Processes, Cancel(p) PROVE TypeOK'
  <2>1. status' \in [Arms -> ArmStatus]
    BY <1>t, <1>a, <1>19 DEF Cancel, CutOff, ArmStatus, InTry
  <2>2. cutOff' \in [Arms -> Nat]
    BY <1>t, <1>a, <1>19 DEF Cancel, CutOff, InTry
  <2>3. pc' \in [Processes -> Phases]
    BY <1>t, <1>19 DEF Cancel, CutOff, Phases, Holding, Ended
  <2>4. UNCHANGED <<files, edits, identity, litter, report, ledger, begunWith, usedBy, calls,
      optIns, at, options, measured, verified>>
    BY <1>19 DEF Cancel
  <2> QED
    BY <2>1, <2>2, <2>3, <2>4 DEF TypeOK, Phases
<1>20. ASSUME NEW p \in Processes, Kill(p) PROVE TypeOK'
  <2>1. litter' \in BOOLEAN
    BY <1>t, <1>20 DEF Kill, CutOff
  <2>2. cutOff' \in [Arms -> Nat]
    BY <1>t, <1>a, <1>20 DEF Kill, CutOff, InTry
  <2>3. pc' \in [Processes -> Phases]
    BY <1>t, <1>20 DEF Kill, CutOff, Phases, Holding, Ended
  <2>4. UNCHANGED <<files, edits, identity, status, report, ledger, begunWith, usedBy, calls,
      optIns, at, options, measured, verified>>
    BY <1>20 DEF Kill
  <2> QED
    BY <2>1, <2>2, <2>3, <2>4 DEF TypeOK, Phases
<1>21. ASSUME AllEnded PROVE TypeOK'
  BY <1>21 DEF AllEnded, vars, TypeOK
<1> QED
  BY <1>1, <1>2, <1>3, <1>4, <1>5, <1>6, <1>7, <1>8, <1>9, <1>10, <1>11, <1>12, <1>13, <1>14,
      <1>15, <1>16, <1>17, <1>18, <1>19, <1>20, <1>21 DEF Next, Proceed

\* The lock: a process enters Holding only when no other one is there.
LEMMA OwnerStep ==
  ASSUME TypeOK, OwnerInv, Next
  PROVE  OwnerInv'
<1> USE ConstantFacts DEF Goto, directory, work, input, process, OwnerInv, Owner, Holding, InTry
<1>0. pc \in [Processes -> Phases]
  BY DEF TypeOK, Phases, Arms
<1>1. ASSUME Edit PROVE OwnerInv'
  BY <1>0, <1>1 DEF Edit
<1>2. ASSUME NEW i \in Arms, Alter(i) PROVE OwnerInv'
  BY <1>0, <1>2 DEF Alter
<1>3. ASSUME NEW p \in Processes, Measure(p) PROVE OwnerInv'
  BY <1>0, <1>3 DEF Measure
<1>4. ASSUME NEW p \in Processes, Lock(p) PROVE OwnerInv'
  BY <1>0, <1>4 DEF Lock
<1>5. ASSUME NEW p \in Processes, OpenRefused(p) PROVE OwnerInv'
  BY <1>0, <1>5 DEF OpenRefused, MayOpen
<1>6. ASSUME NEW p \in Processes, Open(p) PROVE OwnerInv'
  BY <1>0, <1>6 DEF Open, MayOpen
<1>7. ASSUME NEW p \in Processes, Skip(p) PROVE OwnerInv'
  BY <1>0, <1>7 DEF Skip, Arm, Next1
<1>8. ASSUME NEW p \in Processes, SkipRefused(p) PROVE OwnerInv'
  BY <1>0, <1>8 DEF SkipRefused, Arm
<1>9. ASSUME NEW p \in Processes, HelmRefused(p) PROVE OwnerInv'
  BY <1>0, <1>9 DEF HelmRefused, Arm, NeedsOptIn
<1>10. ASSUME NEW p \in Processes, BeginArm(p) PROVE OwnerInv'
  BY <1>0, <1>10 DEF BeginArm, Arm, NeedsOptIn
<1>11. ASSUME NEW p \in Processes, Check(p) PROVE OwnerInv'
  BY <1>0, <1>11 DEF Check
<1>12. ASSUME NEW p \in Processes, StartNative(p) PROVE OwnerInv'
  BY <1>0, <1>12 DEF StartNative, CheckpointAccepts
<1>13. ASSUME NEW p \in Processes, CallNative(p) PROVE OwnerInv'
  BY <1>0, <1>13 DEF CallNative
<1>14. ASSUME NEW p \in Processes, RecordNative(p) PROVE OwnerInv'
  BY <1>0, <1>14 DEF RecordNative
<1>15. ASSUME NEW p \in Processes, WriteReport(p) PROVE OwnerInv'
  BY <1>0, <1>15 DEF WriteReport
<1>16. ASSUME NEW p \in Processes, Complete(p) PROVE OwnerInv'
  BY <1>0, <1>16 DEF Complete, StillMeasured, Next1
<1>17. ASSUME NEW p \in Processes, Done(p) PROVE OwnerInv'
  BY <1>0, <1>17 DEF Done
<1>18. ASSUME NEW p \in Processes, Fail(p) PROVE OwnerInv'
  BY <1>0, <1>18 DEF Fail
<1>19. ASSUME NEW p \in Processes, Cancel(p) PROVE OwnerInv'
  BY <1>0, <1>19 DEF Cancel, CutOff
<1>20. ASSUME NEW p \in Processes, Kill(p) PROVE OwnerInv'
  BY <1>0, <1>20 DEF Kill, CutOff
<1>21. ASSUME AllEnded PROVE OwnerInv'
  BY <1>0, <1>21 DEF AllEnded, vars
<1> QED
  BY <1>1, <1>2, <1>3, <1>4, <1>5, <1>6, <1>7, <1>8, <1>9, <1>10, <1>11, <1>12, <1>13, <1>14,
      <1>15, <1>16, <1>17, <1>18, <1>19, <1>20, <1>21 DEF Next, Proceed

\* What a process knows of the arms behind it, it checked or wrote itself, and
\* nobody else changes the state while it has the lock.
LEMMA LoopStep ==
  ASSUME TypeOK, OwnerInv, LoopInv, Next
  PROVE  LoopInv'
<1> USE ConstantFacts DEF Goto, directory, work, input, process, OwnerInv, LoopInv, Owner,
    Holding, InTry, Completed, Ended
<1>0. /\ pc \in [Processes -> Phases] /\ at \in [Processes -> 1..(ArmCount + 1)]
     /\ status \in [Arms -> ArmStatus] /\ Arms = 1..ArmCount
     /\ files \in Inputs /\ measured \in [Processes -> Inputs \cup {None}]
     /\ verified \in [Processes -> SUBSET Arms]
  BY DEF TypeOK, Phases, Arms
<1>1. ASSUME Edit PROVE LoopInv'
  BY <1>0, <1>1 DEF Edit
<1>2. ASSUME NEW i \in Arms, Alter(i) PROVE LoopInv'
  BY <1>0, <1>2 DEF Alter
<1>3. ASSUME NEW p \in Processes, Measure(p) PROVE LoopInv'
  BY <1>0, <1>3 DEF Measure
<1>4. ASSUME NEW p \in Processes, Lock(p) PROVE LoopInv'
  <2>1. /\ pc[p] = "measured" /\ pc'[p] \in {"locked out", "locked"}
        /\ \A q \in Processes : q # p => pc'[q] = pc[q]
    BY <1>0, <1>4 DEF Lock
  <2>2. UNCHANGED <<at, measured, identity, status, verified>>
    BY <1>4 DEF Lock
  <2> QED
    BY <2>1, <2>2
<1>5. ASSUME NEW p \in Processes, OpenRefused(p) PROVE LoopInv'
  <2>1. /\ pc[p] = "locked" /\ pc'[p] \in {"refused", "use resume"}
        /\ \A q \in Processes : q # p => pc'[q] = pc[q]
    BY <1>0, <1>5 DEF OpenRefused
  <2>2. UNCHANGED <<at, measured, identity, status, verified>>
    BY <1>5 DEF OpenRefused
  <2> QED
    BY <2>1, <2>2
<1>6. ASSUME NEW p \in Processes, Open(p) PROVE LoopInv'
  BY <1>0, <1>6 DEF Open, MayOpen
<1>7. ASSUME NEW p \in Processes, Skip(p) PROVE LoopInv'
  BY <1>0, <1>7 DEF Skip, Arm, Next1
<1>8. ASSUME NEW p \in Processes, SkipRefused(p) PROVE LoopInv'
  BY <1>0, <1>8 DEF SkipRefused, Arm
<1>9. ASSUME NEW p \in Processes, HelmRefused(p) PROVE LoopInv'
  BY <1>0, <1>9 DEF HelmRefused, Arm, NeedsOptIn
<1>10. ASSUME NEW p \in Processes, BeginArm(p) PROVE LoopInv'
  BY <1>0, <1>10 DEF BeginArm, Arm, NeedsOptIn
<1>11. ASSUME NEW p \in Processes, Check(p) PROVE LoopInv'
  BY <1>0, <1>11 DEF Check
<1>12. ASSUME NEW p \in Processes, StartNative(p) PROVE LoopInv'
  BY <1>0, <1>12 DEF StartNative, CheckpointAccepts
<1>13. ASSUME NEW p \in Processes, CallNative(p) PROVE LoopInv'
  BY <1>0, <1>13 DEF CallNative
<1>14. ASSUME NEW p \in Processes, RecordNative(p) PROVE LoopInv'
  BY <1>0, <1>14 DEF RecordNative
<1>15. ASSUME NEW p \in Processes, WriteReport(p) PROVE LoopInv'
  BY <1>0, <1>15 DEF WriteReport
<1>16. ASSUME NEW p \in Processes, Complete(p) PROVE LoopInv'
  BY <1>0, <1>16 DEF Complete, StillMeasured, Next1
<1>17. ASSUME NEW p \in Processes, Done(p) PROVE LoopInv'
  BY <1>0, <1>17 DEF Done
<1>18. ASSUME NEW p \in Processes, Fail(p) PROVE LoopInv'
  BY <1>0, <1>18 DEF Fail
<1>19. ASSUME NEW p \in Processes, Cancel(p) PROVE LoopInv'
  BY <1>0, <1>19 DEF Cancel, CutOff
<1>20. ASSUME NEW p \in Processes, Kill(p) PROVE LoopInv'
  BY <1>0, <1>20 DEF Kill, CutOff
<1>21. ASSUME AllEnded PROVE LoopInv'
  BY <1>0, <1>21 DEF AllEnded, vars
<1> QED
  BY <1>1, <1>2, <1>3, <1>4, <1>5, <1>6, <1>7, <1>8, <1>9, <1>10, <1>11, <1>12, <1>13, <1>14,
      <1>15, <1>16, <1>17, <1>18, <1>19, <1>20, <1>21 DEF Next, Proceed

\* A cut adds one to cutOff and leaves the arm running or interrupted; it is
\* begun again only by adding one to optIns.
LEMMA HelmStep ==
  ASSUME TypeOK, OwnerInv, LoopInv, HelmInv, Next
  PROVE  HelmInv'
<1> USE ConstantFacts DEF Goto, directory, work, input, process, OwnerInv, HelmInv, Owner,
    Holding, InTry, LoopInv, Completed
<1>0. /\ pc \in [Processes -> Phases] /\ at \in [Processes -> 1..(ArmCount + 1)]
     /\ status \in [Arms -> ArmStatus] /\ Arms = 1..ArmCount
     /\ cutOff \in [Arms -> Nat] /\ optIns \in [Arms -> Nat]
  BY DEF TypeOK, Phases, Arms
<1>1. ASSUME Edit PROVE HelmInv'
  BY <1>0, <1>1 DEF Edit
<1>2. ASSUME NEW i \in Arms, Alter(i) PROVE HelmInv'
  BY <1>0, <1>2 DEF Alter
<1>3. ASSUME NEW p \in Processes, Measure(p) PROVE HelmInv'
  BY <1>0, <1>3 DEF Measure
<1>4. ASSUME NEW p \in Processes, Lock(p) PROVE HelmInv'
  BY <1>0, <1>4 DEF Lock
<1>5. ASSUME NEW p \in Processes, OpenRefused(p) PROVE HelmInv'
  BY <1>0, <1>5 DEF OpenRefused, MayOpen
<1>6. ASSUME NEW p \in Processes, Open(p) PROVE HelmInv'
  BY <1>0, <1>6 DEF Open, MayOpen
<1>7. ASSUME NEW p \in Processes, Skip(p) PROVE HelmInv'
  BY <1>0, <1>7 DEF Skip, Arm, Next1
<1>8. ASSUME NEW p \in Processes, SkipRefused(p) PROVE HelmInv'
  BY <1>0, <1>8 DEF SkipRefused, Arm
<1>9. ASSUME NEW p \in Processes, HelmRefused(p) PROVE HelmInv'
  BY <1>0, <1>9 DEF HelmRefused, Arm, NeedsOptIn
<1>10. ASSUME NEW p \in Processes, BeginArm(p) PROVE HelmInv'
  BY <1>0, <1>10 DEF BeginArm, Arm, NeedsOptIn
<1>11. ASSUME NEW p \in Processes, Check(p) PROVE HelmInv'
  BY <1>0, <1>11 DEF Check
<1>12. ASSUME NEW p \in Processes, StartNative(p) PROVE HelmInv'
  BY <1>0, <1>12 DEF StartNative, CheckpointAccepts
<1>13. ASSUME NEW p \in Processes, CallNative(p) PROVE HelmInv'
  BY <1>0, <1>13 DEF CallNative
<1>14. ASSUME NEW p \in Processes, RecordNative(p) PROVE HelmInv'
  BY <1>0, <1>14 DEF RecordNative
<1>15. ASSUME NEW p \in Processes, WriteReport(p) PROVE HelmInv'
  BY <1>0, <1>15 DEF WriteReport
<1>16. ASSUME NEW p \in Processes, Complete(p) PROVE HelmInv'
  BY <1>0, <1>16 DEF Complete, StillMeasured, Next1
<1>17. ASSUME NEW p \in Processes, Done(p) PROVE HelmInv'
  BY <1>0, <1>17 DEF Done
<1>18. ASSUME NEW p \in Processes, Fail(p) PROVE HelmInv'
  BY <1>0, <1>18 DEF Fail
<1>19. ASSUME NEW p \in Processes, Cancel(p) PROVE HelmInv'
  BY <1>0, <1>19 DEF Cancel, CutOff
<1>20. ASSUME NEW p \in Processes, Kill(p) PROVE HelmInv'
  BY <1>0, <1>20 DEF Kill, CutOff
<1>21. ASSUME AllEnded PROVE HelmInv'
  BY <1>0, <1>21 DEF AllEnded, vars
<1> QED
  BY <1>1, <1>2, <1>3, <1>4, <1>5, <1>6, <1>7, <1>8, <1>9, <1>10, <1>11, <1>12, <1>13, <1>14,
      <1>15, <1>16, <1>17, <1>18, <1>19, <1>20, <1>21 DEF Next, Proceed

\* The call spends what StartNative saved up when it wrote the intent.
LEMMA NativeStep ==
  ASSUME TypeOK, OwnerInv, LoopInv, NativeInv, Next
  PROVE  NativeInv'
<1> USE ConstantFacts DEF Goto, directory, work, input, process, OwnerInv, NativeInv, Owner,
    Holding, InTry, LoopInv, Completed
<1>0. /\ pc \in [Processes -> Phases] /\ at \in [Processes -> 1..(ArmCount + 1)]
     /\ ledger \in [Arms -> {"fresh", "inDoubt", "recorded"}] /\ Arms = 1..ArmCount
     /\ calls \in [Arms -> Nat] /\ optIns \in [Arms -> Nat]
  BY DEF TypeOK, Phases, Arms
<1>1. ASSUME Edit PROVE NativeInv'
  BY <1>0, <1>1 DEF Edit
<1>2. ASSUME NEW i \in Arms, Alter(i) PROVE NativeInv'
  BY <1>0, <1>2 DEF Alter
<1>3. ASSUME NEW p \in Processes, Measure(p) PROVE NativeInv'
  BY <1>0, <1>3 DEF Measure
<1>4. ASSUME NEW p \in Processes, Lock(p) PROVE NativeInv'
  BY <1>0, <1>4 DEF Lock
<1>5. ASSUME NEW p \in Processes, OpenRefused(p) PROVE NativeInv'
  BY <1>0, <1>5 DEF OpenRefused, MayOpen
<1>6. ASSUME NEW p \in Processes, Open(p) PROVE NativeInv'
  BY <1>0, <1>6 DEF Open, MayOpen
<1>7. ASSUME NEW p \in Processes, Skip(p) PROVE NativeInv'
  BY <1>0, <1>7 DEF Skip, Arm, Next1
<1>8. ASSUME NEW p \in Processes, SkipRefused(p) PROVE NativeInv'
  BY <1>0, <1>8 DEF SkipRefused, Arm
<1>9. ASSUME NEW p \in Processes, HelmRefused(p) PROVE NativeInv'
  BY <1>0, <1>9 DEF HelmRefused, Arm, NeedsOptIn
<1>10. ASSUME NEW p \in Processes, BeginArm(p) PROVE NativeInv'
  BY <1>0, <1>10 DEF BeginArm, Arm, NeedsOptIn
<1>11. ASSUME NEW p \in Processes, Check(p) PROVE NativeInv'
  BY <1>0, <1>11 DEF Check
<1>12. ASSUME NEW p \in Processes, StartNative(p) PROVE NativeInv'
  BY <1>0, <1>12 DEF StartNative, CheckpointAccepts
<1>13. ASSUME NEW p \in Processes, CallNative(p) PROVE NativeInv'
  <2>1. /\ at[p] \in Arms \ HelmArms /\ calls[at[p]] <= optIns[at[p]]
        /\ ledger[at[p]] # "fresh" /\ pc[p] = "intended"
    BY <1>0, <1>13 DEF CallNative
  <2>2. \A q \in Processes : pc'[q] = IF q = p THEN "called" ELSE pc[q]
    BY <1>0, <1>13 DEF CallNative
  <2>3. /\ calls'[at[p]] = calls[at[p]] + 1
        /\ \A i \in Arms : i # at[p] => calls'[i] = calls[i]
    BY <1>0, <2>1, <1>13 DEF CallNative
  <2>4. at' = at /\ optIns' = optIns /\ ledger' = ledger
    BY <1>13 DEF CallNative
  <2>5. \A q \in Processes : pc'[q] # "intended"
    BY <2>1, <2>2
  <2>6. /\ calls'[at[p]] <= optIns'[at[p]] + 1 /\ ledger'[at[p]] # "fresh"
    BY <1>0, <2>1, <2>3, <2>4
  <2>7. \A i \in Arms \ HelmArms : i # at[p] =>
          calls'[i] <= optIns'[i] + 1 /\ (ledger'[i] = "fresh" => calls'[i] = 0)
    BY <2>3, <2>4
  <2> QED
    BY <2>5, <2>6, <2>7
<1>14. ASSUME NEW p \in Processes, RecordNative(p) PROVE NativeInv'
  BY <1>0, <1>14 DEF RecordNative
<1>15. ASSUME NEW p \in Processes, WriteReport(p) PROVE NativeInv'
  BY <1>0, <1>15 DEF WriteReport
<1>16. ASSUME NEW p \in Processes, Complete(p) PROVE NativeInv'
  BY <1>0, <1>16 DEF Complete, StillMeasured, Next1
<1>17. ASSUME NEW p \in Processes, Done(p) PROVE NativeInv'
  BY <1>0, <1>17 DEF Done
<1>18. ASSUME NEW p \in Processes, Fail(p) PROVE NativeInv'
  BY <1>0, <1>18 DEF Fail
<1>19. ASSUME NEW p \in Processes, Cancel(p) PROVE NativeInv'
  BY <1>0, <1>19 DEF Cancel, CutOff
<1>20. ASSUME NEW p \in Processes, Kill(p) PROVE NativeInv'
  BY <1>0, <1>20 DEF Kill, CutOff
<1>21. ASSUME AllEnded PROVE NativeInv'
  BY <1>0, <1>21 DEF AllEnded, vars
<1> QED
  BY <1>1, <1>2, <1>3, <1>4, <1>5, <1>6, <1>7, <1>8, <1>9, <1>10, <1>11, <1>12, <1>13, <1>14,
      <1>15, <1>16, <1>17, <1>18, <1>19, <1>20, <1>21 DEF Next, Proceed

\* Check and Complete compare the files with what the process measured; with at
\* most one edit, files that agree at the end agreed all the time.
LEMMA EditStep ==
  ASSUME TypeOK, OwnerInv, LoopInv, EditInv, Next
  PROVE  EditInv'
<1> USE ConstantFacts DEF Goto, directory, work, input, process, OwnerInv, EditInv,
    OneEditIsNoticed,
        Owner, Holding, InTry, LoopInv, Completed
<1>0. /\ pc \in [Processes -> Phases] /\ at \in [Processes -> 1..(ArmCount + 1)]
     /\ status \in [Arms -> ArmStatus] /\ Arms = 1..ArmCount
     /\ ledger \in [Arms -> {"fresh", "inDoubt", "recorded"}]
     /\ files \in Inputs /\ measured \in [Processes -> Inputs \cup {None}]
     /\ usedBy \in [Arms -> Inputs \cup {None}] /\ edits \in Nat
  BY DEF TypeOK, Phases, Arms
<1>1. ASSUME Edit PROVE EditInv'
  BY <1>0, <1>1 DEF Edit
<1>2. ASSUME NEW i \in Arms, Alter(i) PROVE EditInv'
  BY <1>0, <1>2 DEF Alter
<1>3. ASSUME NEW p \in Processes, Measure(p) PROVE EditInv'
  BY <1>0, <1>3 DEF Measure
<1>4. ASSUME NEW p \in Processes, Lock(p) PROVE EditInv'
  BY <1>0, <1>4 DEF Lock
<1>5. ASSUME NEW p \in Processes, OpenRefused(p) PROVE EditInv'
  BY <1>0, <1>5 DEF OpenRefused, MayOpen
<1>6. ASSUME NEW p \in Processes, Open(p) PROVE EditInv'
  BY <1>0, <1>6 DEF Open, MayOpen
<1>7. ASSUME NEW p \in Processes, Skip(p) PROVE EditInv'
  BY <1>0, <1>7 DEF Skip, Arm, Next1
<1>8. ASSUME NEW p \in Processes, SkipRefused(p) PROVE EditInv'
  BY <1>0, <1>8 DEF SkipRefused, Arm
<1>9. ASSUME NEW p \in Processes, HelmRefused(p) PROVE EditInv'
  BY <1>0, <1>9 DEF HelmRefused, Arm, NeedsOptIn
<1>10. ASSUME NEW p \in Processes, BeginArm(p) PROVE EditInv'
  BY <1>0, <1>10 DEF BeginArm, Arm, NeedsOptIn
<1>11. ASSUME NEW p \in Processes, Check(p) PROVE EditInv'
  <2>1. /\ at[p] \in Arms /\ measured[p] = identity /\ identity # None
        /\ files = identity /\ at[p] \notin Completed
    BY <1>0, <1>11 DEF Check
  <2>2. \A q \in Processes : pc'[q] \in {"called", "helm", "executed", "reported"} =>
          (q = p /\ pc'[p] = "helm" /\ at[p] \in HelmArms) \/ pc[q] = pc'[q]
    BY <1>0, <1>11 DEF Check
  <2>3. \A i \in Arms : usedBy'[i] = IF i = at[p] /\ at[p] \in HelmArms THEN files ELSE usedBy[i]
    BY <1>0, <1>11 DEF Check
  <2>4. UNCHANGED <<files, edits, identity, status, ledger, at, measured>>
    BY <1>11 DEF Check
  <2>5. \A i \in Arms : usedBy'[i] # usedBy[i] =>
          i = at[p] /\ usedBy'[i] = files /\ i \notin Completed
    BY <2>1, <2>3
  <2>6. /\ identity' # None
        /\ \A i \in Arms : ledger'[i] = "recorded" => usedBy'[i] # None
    BY <1>0, <2>1, <2>3, <2>4
  <2>7. \A q \in Processes :
          pc'[q] \in {"called", "helm", "executed", "reported"} => usedBy'[at'[q]] # None
    BY <1>0, <2>1, <2>2, <2>3, <2>4
  <2>8. edits = 0 => \A i \in Arms : usedBy'[i] \in {None, files}
    BY <2>5
  <2>9. edits <= 1 => \A i \in Arms : usedBy'[i] \notin {None, identity} => files # identity
    BY <2>1, <2>5
  <2>10. edits <= 1 => \A i \in Arms : i \in Completed => usedBy'[i] = identity
    BY <2>5
  <2> QED
    BY <2>4, <2>6, <2>7, <2>8, <2>9, <2>10
<1>12. ASSUME NEW p \in Processes, StartNative(p) PROVE EditInv'
  BY <1>0, <1>12 DEF StartNative, CheckpointAccepts
<1>13. ASSUME NEW p \in Processes, CallNative(p) PROVE EditInv'
  BY <1>0, <1>13 DEF CallNative
<1>14. ASSUME NEW p \in Processes, RecordNative(p) PROVE EditInv'
  BY <1>0, <1>14 DEF RecordNative
<1>15. ASSUME NEW p \in Processes, WriteReport(p) PROVE EditInv'
  BY <1>0, <1>15 DEF WriteReport
<1>16. ASSUME NEW p \in Processes, Complete(p) PROVE EditInv'
  BY <1>0, <1>16 DEF Complete, StillMeasured, Next1
<1>17. ASSUME NEW p \in Processes, Done(p) PROVE EditInv'
  BY <1>0, <1>17 DEF Done
<1>18. ASSUME NEW p \in Processes, Fail(p) PROVE EditInv'
  BY <1>0, <1>18 DEF Fail
<1>19. ASSUME NEW p \in Processes, Cancel(p) PROVE EditInv'
  BY <1>0, <1>19 DEF Cancel, CutOff
<1>20. ASSUME NEW p \in Processes, Kill(p) PROVE EditInv'
  BY <1>0, <1>20 DEF Kill, CutOff
<1>21. ASSUME AllEnded PROVE EditInv'
  BY <1>0, <1>21 DEF AllEnded, vars
<1> QED
  BY <1>1, <1>2, <1>3, <1>4, <1>5, <1>6, <1>7, <1>8, <1>9, <1>10, <1>11, <1>12, <1>13, <1>14,
      <1>15, <1>16, <1>17, <1>18, <1>19, <1>20, <1>21 DEF Next, Proceed

LEMMA InitInv == Init => Inv
<1> SUFFICES ASSUME Init PROVE Inv
  OBVIOUS
<1> USE ConstantFacts DEF Init
<1>1. TypeOK
  <2>1. 1 \in 1..(ArmCount + 1) /\ 0 \in 0..MaxEdits
    OBVIOUS
  <2> QED
    BY <2>1 DEF TypeOK, ArmStatus
<1>2. OwnerInv
  BY DEF OwnerInv, Owner, Holding
<1>3. LoopInv
  BY DEF LoopInv, InTry, Completed
<1>4. HelmInv
  BY DEF HelmInv
<1>5. NativeInv
  BY DEF NativeInv
<1>6. EditInv
  BY DEF EditInv, OneEditIsNoticed, Completed
<1> QED
  BY <1>1, <1>2, <1>3, <1>4, <1>5, <1>6 DEF Inv

LEMMA StutterInv == Inv /\ UNCHANGED vars => Inv'
BY DEF Inv, vars, TypeOK, OwnerInv, Owner, LoopInv, Completed, HelmInv, NativeInv, EditInv,
       OneEditIsNoticed

LEMMA Invariance == Spec => []Inv
<1>1. Inv /\ [Next]_vars => Inv'
  BY TypeStep, OwnerStep, LoopStep, HelmStep, NativeStep, EditStep, StutterInv DEF Inv
<1> QED
  BY InitInv, <1>1, PTL DEF Spec

\* Every variable has its type, whatever the processes and the edits do.
THEOREM TypeCorrect == Spec => []TypeOK
<1>1. Inv => TypeOK
  BY DEF Inv
<1> QED
  BY Invariance, <1>1, PTL

\* A process that works on an arm has checked or written the report of every
\* completed arm itself, for any number of processes and arms.
THEOREM WorkIsVerified == Spec => []VerifiedBeforeWork
<1>1. Inv => VerifiedBeforeWork
  <2> SUFFICES ASSUME Inv, NEW p \in Processes, pc[p] \in InTry,
                      NEW i \in Completed
               PROVE  measured[p] = identity /\ i \in verified[p]
    BY DEF VerifiedBeforeWork, Inv, LoopInv
  <2>1. /\ measured[p] = identity
        /\ \A j \in Arms : j < at[p] => j \in verified[p]
        /\ at[p] \in Arms /\ at[p] \notin Completed
    BY DEF Inv, LoopInv, Completed
  <2>2. i \in Arms /\ (at[p] < i => at[p] \in Completed)
    BY <2>1 DEF Inv, LoopInv, Completed
  <2>3. i < at[p] \/ i = at[p] \/ at[p] < i
    BY <2>1, <2>2, ConstantFacts DEF Arms
  <2> QED
    BY <2>1, <2>2, <2>3
<1> QED
  BY Invariance, <1>1, PTL

\* No HELM arm that was cut off is running again without an opt-in.
THEOREM HelmIsNotReplayed == Spec => []HelmReplayNeedsOptIn
<1>1. Inv => HelmReplayNeedsOptIn
  BY DEF Inv, LoopInv, HelmInv, HelmReplayNeedsOptIn, InTry
<1> QED
  BY Invariance, <1>1, PTL

\* No native arm's target is called more than once for each time it was cleared.
THEOREM NativeIsNotReplayed == Spec => []NativeReplayNeedsOptIn
<1>1. Inv => NativeReplayNeedsOptIn
  BY DEF Inv, NativeInv, NativeReplayNeedsOptIn
<1> QED
  BY Invariance, <1>1, PTL

\* Neither kind of arm repeats a call that may have been made without being told to,
\* for any number of processes, arms, kills and edits.
THEOREM ReplayNeedsOptIn == Spec => []NoReplayWithoutOptIn
<1>1. HelmReplayNeedsOptIn /\ NativeReplayNeedsOptIn => NoReplayWithoutOptIn
  BY DEF NoReplayWithoutOptIn
<1> QED
  BY HelmIsNotReplayed, NativeIsNotReplayed, <1>1, PTL

\* While there was at most one edit, what is completed ran on the experiment's
\* inputs.
THEOREM EditIsNoticed == Spec => []OneEditIsNoticed
<1>1. Inv => OneEditIsNoticed
  BY DEF Inv, EditInv
<1> QED
  BY Invariance, <1>1, PTL
=============================================================================
