-------------------------- MODULE EvalRunnerProofs --------------------------
(***************************************************************************)
(* Proofs about EvalRunner, for every plan, concurrency, target, grader    *)
(* and checkpoint.  IInv is the inductive invariant.  The nine actions of  *)
(* an attempt's coroutine are first shown to have one common shape         *)
(* (Effect), and that shape, with the actions of run(), to preserve IInv.  *)
(* StoryInv, on top of it, is the history of each slot.                    *)
(***************************************************************************)
EXTENDS EvalRunnerContract, FiniteSetTheorems, SequenceTheorems, TLAPS

\* The plan is a finite list of attempts.
LEMMA SlotsFinite == IsFiniteSet(Slots)
  BY NAssumption, FS_Interval DEF Slots

\* So the attempts holding a permit can be counted.
LEMMA InFlightFinite ==
  /\ IsFiniteSet(InFlight)
  /\ Cardinality(InFlight) \in Nat
  BY SlotsFinite, FS_Subset, FS_CardinalityType DEF InFlight

\* A stored result is never mistaken for an empty slot.
LEMMA ResultIsNotNone == NoResult \notin SampleResult
  BY DEF NoResult, SampleResult, NoExecution, Execution, ExecutionStatus

\* _spill_isolated returns an execution, whichever branch it takes.
LEMMA SpillType ==
  ASSUME NEW x \in Execution, NEW stored \in BOOLEAN
  PROVE  Spill(x, stored) \in Execution
  BY DEF Spill, Spilled, SpillFailed, Execution, ExecutionStatus, Artifact,
         Output, RawTooBig

\* _summarize returns counts.
LEMMA SummaryType ==
  ASSUME results \in [Slots -> SampleResult \cup {NoResult}]
  PROVE  Summarize(results) \in [Buckets -> Nat]
<1>1. /\ Cardinality(Filled(results)) \in Nat
      /\ \A S : HowMany(results, S) \in Nat
      /\ \A g : HowManyGraded(results, g) \in Nat
  BY SlotsFinite, FS_Subset, FS_CardinalityType DEF Filled, HowMany, HowManyGraded
<1>2. Errors(results) \in Nat
  BY <1>1 DEF Errors
<1>3. QED
  BY <1>1, <1>2 DEF Summarize, Buckets

-----------------------------------------------------------------------------
(* The inductive invariant *)

\* The semaphore's counter and its holders always add up to the concurrency.
PermitsInv == permits + Cardinality(InFlight) = Concurrency

\* Tasks exist exactly from the creation of the group on.
PhaseInv ==
  /\ run \notin Ended \cup {"running"} => \A i \in Slots : task[i] = "unplanned"
  /\ run = "running" => \A i \in Slots : task[i] # "unplanned"
  /\ NoOrphans

\* What the phase of an attempt says of its slot, its answer and its row.
SlotInv ==
  \A i \in Slots :
    /\ task[i] \in {"unplanned", "waiting"} \cup Holding => results[i] = NoResult
    /\ task[i] = "done" => results[i] # NoResult
    /\ task[i] = "grading" => answer[i] \in Execution
    /\ task[i] = "cancelled" /\ ~ComponentsCancel => aborting
    /\ task[i] \in Holding => i \notin completed
    /\ task[i] \in {"unplanned", "waiting"} => answer[i] = NoExecution

RowInv ==
  \A i \in Slots :
    /\ ~HasCheckpoint => row[i] = "absent"
    /\ row[i] = "completed" => payload[i] \in SampleResult
    /\ i \in completed => row[i] = "completed"
    /\ HasCheckpoint /\ task[i] \in Holding => row[i] = "running"
    /\ task[i] = "waiting" /\ row[i] = "completed" => i \in completed
    /\ HasCheckpoint /\ answer[i] # NoExecution => row[i] \in {"running", "completed"}

AbortInv == aborting => cancelled \/ \E i \in Slots : task[i] = "failed"

IInv ==
  /\ TypeOK
  /\ PermitsInv
  /\ PhaseInv
  /\ SlotInv
  /\ RowInv
  /\ AbortInv
  /\ ReturnedRunCoversPlan

-----------------------------------------------------------------------------
(* What any step of an attempt's coroutine does, whichever action it is *)

TaskPhases == {"unplanned", "waiting"} \cup Holding \cup Terminal

Held(p) == IF p \in Holding THEN 1 ELSE 0

EffectTypes ==
  /\ task' \in [Slots -> TaskPhases]
  /\ answer' \in [Slots -> Execution \cup {NoExecution}]
  /\ events' \in [Slots -> Seq({"SampleStarted", "ExecutionCompleted",
                                "GradeCompleted", "SampleCompleted"})]
  /\ results' \in [Slots -> SampleResult \cup {NoResult}]
  /\ row' \in [Slots -> {"absent", "pending", "running", "completed"}]
  /\ payload' \in [Slots -> SampleResult \cup {NoResult}]

\* The step leaves the run and the other slots alone.
EffectFrame(i) ==
  /\ UNCHANGED <<run, log, aborting, cancelled, completed, summary>>
  /\ \A j \in Slots \ {i} :
       /\ task'[j] = task[j]
       /\ answer'[j] = answer[j]
       /\ results'[j] = results[j]
       /\ row'[j] = row[j]
       /\ payload'[j] = payload[j]

EffectPermits(i) ==
  /\ permits' = permits + Held(task[i]) - Held(task'[i])
  /\ task[i] \notin Holding /\ task'[i] \in Holding => permits > 0

EffectSlot(i) ==
  /\ task[i] \in {"waiting"} \cup Holding
  /\ task'[i] \in Holding \cup Terminal
  /\ task'[i] \in Holding => results'[i] = NoResult /\ i \notin completed
  /\ task'[i] = "grading" => answer'[i] \in Execution
  /\ task'[i] = "done" => results'[i] \in SampleResult
  /\ task'[i] = "cancelled" /\ ~ComponentsCancel => aborting
  /\ results'[i] # results[i] => results[i] = NoResult /\ results'[i] \in SampleResult

EffectRow(i) ==
  /\ task'[i] \in Holding /\ HasCheckpoint => row'[i] = "running"
  /\ row[i] = "completed" => row'[i] = "completed" /\ payload'[i] = payload[i]
  /\ row'[i] = "completed" => payload'[i] \in SampleResult
  /\ ~HasCheckpoint => row'[i] = "absent"
  /\ HasCheckpoint /\ answer'[i] # NoExecution => row'[i] \in {"running", "completed"}

Effect(i) ==
  /\ EffectTypes
  /\ EffectFrame(i)
  /\ EffectPermits(i)
  /\ EffectSlot(i)
  /\ EffectRow(i)

\* A completed attempt is replayed from its row.
LEMMA ReplayEffect ==
  ASSUME IInv, NEW i \in Slots, ReplayCompleted(i)
  PROVE  Effect(i)
<1>. USE DEF IInv, TypeOK, SlotInv, RowInv, ReplayCompleted, CanAcquire, StepTask,
             Holding, Terminal
<1>1. EffectTypes
  BY DEF EffectTypes, TaskPhases
<1>2. EffectFrame(i)
  BY DEF EffectFrame
<1>3. EffectPermits(i)
  BY DEF EffectPermits, Held
<1>4. EffectSlot(i)
  BY DEF EffectSlot
<1>5. EffectRow(i)
  BY DEF EffectRow
<1>6. QED
  BY <1>1, <1>2, <1>3, <1>4, <1>5 DEF Effect

\* An attempt gets its permit, and starts or fails to.
LEMMA StartEffect ==
  ASSUME IInv, NEW i \in Slots, StartAttempt(i) \/ StartFails(i)
  PROVE  Effect(i)
<1>. USE DEF IInv, TypeOK, SlotInv, RowInv, StartAttempt, StartFails, CanAcquire,
             StepTask, Send, SetRow, Holding, Terminal
<1>1. EffectTypes
  <2>1. <<"SampleStarted">> \in Seq({"SampleStarted", "ExecutionCompleted",
                                    "GradeCompleted", "SampleCompleted"})
    OBVIOUS
  <2>2. task' \in [Slots -> TaskPhases]
    BY DEF TaskPhases
  <2>3. row' \in [Slots -> {"absent", "pending", "running", "completed"}]
    OBVIOUS
  <2>4. events' \in [Slots -> Seq({"SampleStarted", "ExecutionCompleted",
                                  "GradeCompleted", "SampleCompleted"})]
    BY <2>1
  <2>5. UNCHANGED <<answer, results, payload>>
    OBVIOUS
  <2>6. QED
    BY <2>2, <2>3, <2>4, <2>5 DEF EffectTypes
<1>2. EffectFrame(i)
  BY DEF EffectFrame
<1>3. EffectPermits(i)
  BY DEF EffectPermits, Held
<1>4. EffectSlot(i)
  BY DEF EffectSlot
<1>5. EffectRow(i)
  BY DEF EffectRow
<1>6. QED
  BY <1>1, <1>2, <1>3, <1>4, <1>5 DEF Effect

\* An exception leaves the attempt's coroutine.
LEMMA EscapeEffect ==
  ASSUME IInv, NEW i \in Slots, NEW phase \in {"failed", "cancelled"},
         task[i] \in Holding, Escape(i, phase),
         phase = "cancelled" /\ ~ComponentsCancel => aborting,
         UNCHANGED <<run, log, aborting, cancelled, completed, summary>>
  PROVE  Effect(i)
<1>. USE DEF IInv, TypeOK, SlotInv, RowInv, Escape, StepTask, Holding, Terminal
<1>1. EffectTypes
  BY DEF EffectTypes, TaskPhases
<1>2. EffectFrame(i)
  BY DEF EffectFrame
<1>3. EffectPermits(i)
  BY DEF EffectPermits, Held
<1>4. EffectSlot(i)
  BY DEF EffectSlot
<1>5. EffectRow(i)
  BY DEF EffectRow
<1>6. QED
  BY <1>1, <1>2, <1>3, <1>4, <1>5 DEF Effect

\* A queued attempt is cancelled.
LEMMA CancelWaitingEffect ==
  ASSUME IInv, NEW i \in Slots, CancelWaiting(i)
  PROVE  Effect(i)
<1>. USE DEF IInv, TypeOK, SlotInv, RowInv, CancelWaiting, StepTask, Holding, Terminal
<1>1. EffectTypes
  BY DEF EffectTypes, TaskPhases
<1>2. EffectFrame(i)
  BY DEF EffectFrame
<1>3. EffectPermits(i)
  BY DEF EffectPermits, Held
<1>4. EffectSlot(i)
  BY DEF EffectSlot
<1>5. EffectRow(i)
  BY DEF EffectRow
<1>6. QED
  BY <1>1, <1>2, <1>3, <1>4, <1>5 DEF Effect

\* The tail of an attempt, from the spill on.
LEMMA ConcludeEffect ==
  ASSUME IInv, NEW i \in Slots, NEW x \in Execution,
         NEW g \in GradeStatus \cup {"none"},
         NEW sent \in Seq({"SampleStarted", "ExecutionCompleted",
                          "GradeCompleted", "SampleCompleted"}),
         task[i] \in Holding,
         Conclude(i, x, g, sent),
         answer' \in [Slots -> Execution \cup {NoExecution}],
         \A j \in Slots \ {i} : answer'[j] = answer[j],
         UNCHANGED <<run, log, aborting, cancelled, completed, summary>>
  PROVE  Effect(i)
<1>1. PICK stored \in BOOLEAN :
        LET result == [execution |-> Spill(x, stored), grade |-> g]
        IN  \/ /\ StepTask(i, "done")
               /\ results' = [results EXCEPT ![i] = result]
               /\ SetRow(i, "completed")
               /\ payload' = IF HasCheckpoint
                             THEN [payload EXCEPT ![i] = AtRest(result)] ELSE payload
            \/ /\ CallbacksRaise
               /\ StepTask(i, "failed")
               /\ UNCHANGED <<results, row, payload>>
            \/ /\ CallbacksRaise /\ HasCheckpoint
               /\ StepTask(i, "failed")
               /\ results' = [results EXCEPT ![i] = result]
               /\ UNCHANGED <<row, payload>>
  BY DEF Conclude
<1>. DEFINE result == [execution |-> Spill(x, stored), grade |-> g]
<1>2. result \in SampleResult /\ AtRest(result) \in SampleResult
  BY SpillType DEF SampleResult, AtRest, Execution, Output
<1>3. /\ permits' = permits + 1
      /\ events' = [events EXCEPT ![i] = Append(sent, "SampleCompleted")]
  BY DEF Conclude, Send
<1>. HIDE DEF result
<1>4. \/ /\ task' = [task EXCEPT ![i] = "done"]
         /\ results' = [results EXCEPT ![i] = result]
         /\ row' = IF HasCheckpoint THEN [row EXCEPT ![i] = "completed"] ELSE row
         /\ payload' = IF HasCheckpoint
                       THEN [payload EXCEPT ![i] = AtRest(result)] ELSE payload
      \/ /\ task' = [task EXCEPT ![i] = "failed"]
         /\ results' = results \/ results' = [results EXCEPT ![i] = result]
         /\ UNCHANGED <<row, payload>>
  BY <1>1 DEF StepTask, SetRow, result
<1>. USE DEF IInv, TypeOK, SlotInv, RowInv, Holding, Terminal
<1>5. EffectTypes
  <2>1. events' \in [Slots -> Seq({"SampleStarted", "ExecutionCompleted",
                                  "GradeCompleted", "SampleCompleted"})]
    BY <1>3
  <2>2. task' \in [Slots -> TaskPhases]
    BY <1>4 DEF TaskPhases
  <2>3. row' \in [Slots -> {"absent", "pending", "running", "completed"}]
    BY <1>4
  <2>4. results' \in [Slots -> SampleResult \cup {NoResult}]
    <3>1. results' = results \/ results' = [results EXCEPT ![i] = result]
      BY <1>4
    <3>2. QED
      BY <1>2, <3>1
  <2>5. payload' \in [Slots -> SampleResult \cup {NoResult}]
    <3>1. payload' = payload \/ payload' = [payload EXCEPT ![i] = AtRest(result)]
      BY <1>4
    <3>2. QED
      BY <1>2, <3>1
  <2>6. QED
    BY <2>1, <2>2, <2>3, <2>4, <2>5 DEF EffectTypes
<1>6. EffectFrame(i)
  BY <1>4 DEF EffectFrame
<1>7. EffectPermits(i)
  BY <1>3, <1>4 DEF EffectPermits, Held
<1>8. EffectSlot(i)
  BY <1>2, <1>4 DEF EffectSlot
<1>9. EffectRow(i)
  BY <1>2, <1>4 DEF EffectRow
<1>10. QED
  BY <1>5, <1>6, <1>7, <1>8, <1>9 DEF Effect

\* The target has produced an execution.
LEMMA ExecutedEffect ==
  ASSUME IInv, NEW i \in Slots, NEW x \in Execution,
         task[i] = "executing",
         Executed(i, x),
         UNCHANGED <<run, log, aborting, cancelled, completed, summary>>
  PROVE  Effect(i)
<1>. DEFINE sent == Append(events[i], "ExecutionCompleted")
<1>1. /\ sent \in Seq({"SampleStarted", "ExecutionCompleted",
                       "GradeCompleted", "SampleCompleted"})
      /\ answer' = [answer EXCEPT ![i] = x]
      /\ answer' \in [Slots -> Execution \cup {NoExecution}]
      /\ \A j \in Slots \ {i} : answer'[j] = answer[j]
  BY DEF IInv, TypeOK, Executed
<1>. HIDE DEF sent
<1>2. CASE Conclude(i, x, "none", sent)
  BY <1>1, <1>2, ConcludeEffect DEF Holding
<1>3. CASE /\ Send(i, sent)
           /\ \/ /\ StepTask(i, "grading")
                 /\ UNCHANGED <<permits, results, row, payload>>
              \/ /\ StepTask(i, "failed")
                 /\ permits' = permits + 1
                 /\ UNCHANGED <<results, row, payload>>
  <2>. USE <1>1, <1>3 DEF IInv, TypeOK, SlotInv, RowInv, Send, StepTask, Holding, Terminal
  <2>1. EffectTypes
    <3>1. events' \in [Slots -> Seq({"SampleStarted", "ExecutionCompleted",
                                    "GradeCompleted", "SampleCompleted"})]
      OBVIOUS
    <3>2. task' \in [Slots -> TaskPhases]
      BY DEF TaskPhases
    <3>3. QED
      BY <3>1, <3>2 DEF EffectTypes
  <2>2. EffectFrame(i)
    BY DEF EffectFrame
  <2>3. EffectPermits(i)
    BY DEF EffectPermits, Held
  <2>4. EffectSlot(i)
    BY DEF EffectSlot
  <2>5. EffectRow(i)
    BY DEF EffectRow
  <2>6. QED
    BY <2>1, <2>2, <2>3, <2>4, <2>5 DEF Effect
<1>4. QED
  BY <1>2, <1>3 DEF Executed, sent

\* The grader has produced a verdict.
LEMMA GradedEffect ==
  ASSUME IInv, NEW i \in Slots, NEW g \in GradeStatus,
         task[i] = "grading",
         Graded(i, g),
         UNCHANGED <<run, log, aborting, cancelled, completed, summary>>
  PROVE  Effect(i)
<1>. DEFINE sent == Append(events[i], "GradeCompleted")
<1>1. /\ sent \in Seq({"SampleStarted", "ExecutionCompleted",
                       "GradeCompleted", "SampleCompleted"})
      /\ answer' = answer
      /\ answer[i] \in Execution
      /\ answer' \in [Slots -> Execution \cup {NoExecution}]
  BY DEF IInv, TypeOK, SlotInv, Graded
<1>. HIDE DEF sent
<1>2. CASE Conclude(i, answer[i], g, sent)
  BY <1>1, <1>2, ConcludeEffect DEF Holding
<1>3. CASE /\ Send(i, sent)
           /\ StepTask(i, "failed")
           /\ permits' = permits + 1
           /\ UNCHANGED <<results, row, payload>>
  <2>. USE <1>1, <1>3 DEF IInv, TypeOK, SlotInv, RowInv, Send, StepTask, Holding, Terminal
  <2>1. EffectTypes
    <3>1. events' \in [Slots -> Seq({"SampleStarted", "ExecutionCompleted",
                                    "GradeCompleted", "SampleCompleted"})]
      OBVIOUS
    <3>2. task' \in [Slots -> TaskPhases]
      BY DEF TaskPhases
    <3>3. QED
      BY <3>1, <3>2 DEF EffectTypes
  <2>2. EffectFrame(i)
    BY DEF EffectFrame
  <2>3. EffectPermits(i)
    BY DEF EffectPermits, Held
  <2>4. EffectSlot(i)
    BY DEF EffectSlot
  <2>5. EffectRow(i)
    BY DEF EffectRow
  <2>6. QED
    BY <2>1, <2>2, <2>3, <2>4, <2>5 DEF Effect
<1>4. QED
  BY <1>2, <1>3 DEF Graded, sent

\* Every step of an attempt has such an effect.
LEMMA StepEffect ==
  ASSUME IInv, NEW i \in Slots, Step(i)
  PROVE  Effect(i)
<1>1. CASE ReplayCompleted(i)
  BY <1>1, ReplayEffect
<1>2. CASE StartAttempt(i) \/ StartFails(i)
  BY <1>2, StartEffect
<1>3. CASE TargetReturns(i)
  BY <1>3, ExecutedEffect, AnswersAssumption DEF TargetReturns
<1>4. CASE TargetRaises(i)
  <2>1. \A s \in {"timeout", "error"} : RaisedExecution(s) \in Execution
    BY DEF RaisedExecution, Execution, ExecutionStatus, Output
  <2>2. QED
    BY <1>4, <2>1, ExecutedEffect, EscapeEffect DEF TargetRaises, Holding
<1>5. CASE GraderReturns(i)
  BY <1>5, GradedEffect, VerdictsAssumption DEF GraderReturns
<1>6. CASE GraderRaises(i)
  BY <1>6, GradedEffect, EscapeEffect DEF GraderRaises, GradeStatus, Holding
<1>7. CASE CancelledErrorEscapes(i)
  BY <1>7, EscapeEffect DEF CancelledErrorEscapes
<1>8. CASE CancelWaiting(i)
  BY <1>8, CancelWaitingEffect
<1>9. QED
  BY <1>1, <1>2, <1>3, <1>4, <1>5, <1>6, <1>7, <1>8 DEF Step

-----------------------------------------------------------------------------
(* Such a step preserves the invariant *)

\* Taking or giving back a permit moves the holders by as much.
LEMMA EffectPermitsAddUp ==
  ASSUME IInv, NEW i \in Slots, Effect(i)
  PROVE  PermitsInv' /\ permits' \in 0..Concurrency
<1>. USE DEF IInv, TypeOK, Effect, EffectTypes, EffectFrame, EffectPermits
<1>1. /\ IsFiniteSet(InFlight)
      /\ Cardinality(InFlight) \in Nat
      /\ Cardinality(InFlight') \in Nat
  BY SlotsFinite, FS_Subset, FS_CardinalityType DEF InFlight
<1>2. Cardinality(InFlight') = Cardinality(InFlight) + Held(task'[i]) - Held(task[i])
  <2>1. CASE task[i] \in Holding /\ task'[i] \notin Holding
    <3>1. InFlight' = InFlight \ {i} /\ i \in InFlight
      BY <2>1 DEF InFlight
    <3>2. Cardinality(InFlight') = Cardinality(InFlight) - 1
      BY <1>1, <3>1, FS_RemoveElement
    <3>3. Held(task[i]) = 1 /\ Held(task'[i]) = 0
      BY <2>1 DEF Held
    <3>4. QED
      BY <1>1, <3>2, <3>3
  <2>2. CASE task[i] \notin Holding /\ task'[i] \in Holding
    <3>1. InFlight' = InFlight \cup {i} /\ i \notin InFlight
      BY <2>2 DEF InFlight
    <3>2. Cardinality(InFlight') = Cardinality(InFlight) + 1
      BY <1>1, <3>1, FS_AddElement
    <3>3. Held(task[i]) = 0 /\ Held(task'[i]) = 1
      BY <2>2 DEF Held
    <3>4. QED
      BY <1>1, <3>2, <3>3
  <2>3. CASE (task[i] \in Holding) <=> (task'[i] \in Holding)
    <3>1. InFlight' = InFlight
      BY <2>3 DEF InFlight
    <3>2. QED
      BY <1>1, <2>3, <3>1 DEF Held
  <2>4. QED
    BY <2>1, <2>2, <2>3
<1>3. Held(task'[i]) \in {0, 1} /\ Held(task[i]) \in {0, 1}
  BY DEF Held
<1>4. PermitsInv'
  BY <1>1, <1>2, <1>3, ConcurrencyAssumption DEF PermitsInv
<1>5. permits' >= 0
  BY <1>3 DEF Held
<1>6. QED
  BY <1>1, <1>4, <1>5, ConcurrencyAssumption DEF PermitsInv

\* A step of an attempt preserves the invariant.
LEMMA EffectKeeps ==
  ASSUME IInv, NEW i \in Slots, Effect(i)
  PROVE  IInv'
<1>1. TypeOK'
  BY EffectPermitsAddUp DEF IInv, TypeOK, Effect, EffectTypes, EffectFrame, TaskPhases
<1>2. PermitsInv'
  BY EffectPermitsAddUp
<1>3. run \notin Ended /\ run' = run
  BY DEF IInv, PhaseInv, NoOrphans, Effect, EffectFrame, EffectSlot, Holding, Terminal
<1>4. PhaseInv'
  BY <1>3 DEF IInv, PhaseInv, NoOrphans, Effect, EffectFrame, EffectSlot, Holding, Terminal
<1>5. SlotInv'
  BY ResultIsNotNone
  DEF IInv, SlotInv, Effect, EffectFrame, EffectSlot, Holding, Terminal
<1>6. RowInv'
  BY DEF IInv, RowInv, Effect, EffectFrame, EffectSlot, EffectRow, Holding, Terminal
<1>7. AbortInv'
  BY DEF IInv, AbortInv, Effect, EffectFrame, EffectSlot, Holding
<1>8. ReturnedRunCoversPlan'
  BY <1>3 DEF ReturnedRunCoversPlan, Ended
<1>9. QED
  BY <1>1, <1>2, <1>4, <1>5, <1>6, <1>7, <1>8 DEF IInv

-----------------------------------------------------------------------------
(* The steps of run() preserve it too *)

\* The events of the run stay a sequence of events, whatever Fail adds.
LEMMA FailType ==
  ASSUME NEW sent \in Seq({"RunStarted", "DatasetResolved", "RunCompleted", "RunFailed"}),
         Fail(sent)
  PROVE  /\ run' = "raised"
         /\ log' \in Seq({"RunStarted", "DatasetResolved", "RunCompleted", "RunFailed"})
<1>1. /\ sent \o <<"RunFailed">>
            \in Seq({"RunStarted", "DatasetResolved", "RunCompleted", "RunFailed"})
      /\ sent \o <<>>
            \in Seq({"RunStarted", "DatasetResolved", "RunCompleted", "RunFailed"})
  OBVIOUS
<1>2. log' = sent \o <<"RunFailed">> \/ log' = sent \o <<>>
  BY DEF Fail
<1>3. run' = "raised"
  BY DEF Fail
<1>4. QED
  BY <1>1, <1>2, <1>3

\* Before the group is created, run() touches no slot, row or permit.
LEMMA OpeningKeeps ==
  ASSUME IInv, RejectManifest \/ Start \/ Resolve
  PROVE  IInv'
<1>1. run \notin Ended \cup {"running"}
  BY DEF RejectManifest, Start, Resolve, Ended
<1>2. /\ UNCHANGED <<aborting, cancelled, summary, groupVars>>
      /\ run' \in {"resolving", "preparing", "rejected", "raised"}
      /\ log' \in Seq({"RunStarted", "DatasetResolved", "RunCompleted", "RunFailed"})
  <2>1. CASE RejectManifest
    BY <2>1 DEF RejectManifest, IInv, TypeOK
  <2>2. CASE Start
    BY <2>2 DEF Start, IInv, TypeOK
  <2>3. CASE Resolve
    <3>1. /\ log \in Seq({"RunStarted", "DatasetResolved", "RunCompleted", "RunFailed"})
          /\ Append(log, "DatasetResolved")
               \in Seq({"RunStarted", "DatasetResolved", "RunCompleted", "RunFailed"})
      BY DEF IInv, TypeOK
    <3>2. \/ run' = "preparing" /\ log' = Append(log, "DatasetResolved")
          \/ Fail(log)
          \/ Fail(Append(log, "DatasetResolved"))
      BY <2>3 DEF Resolve
    <3>3. UNCHANGED <<aborting, cancelled, summary, groupVars>>
      BY <2>3 DEF Resolve
    <3>4. QED
      BY <3>1, <3>2, <3>3, FailType
  <2>4. QED
    BY <2>1, <2>2, <2>3
<1>3. TypeOK'
  BY <1>2 DEF IInv, TypeOK, Ended, groupVars
<1>4. PermitsInv'
  BY <1>2 DEF IInv, PermitsInv, InFlight, groupVars
<1>5. PhaseInv'
  BY <1>1, <1>2 DEF IInv, PhaseInv, NoOrphans, Ended, groupVars
<1>6. SlotInv' /\ RowInv' /\ AbortInv'
  BY <1>2 DEF IInv, SlotInv, RowInv, AbortInv, groupVars
<1>7. ReturnedRunCoversPlan'
  BY <1>2 DEF ReturnedRunCoversPlan
<1>8. QED
  BY <1>3, <1>4, <1>5, <1>6, <1>7 DEF IInv

\* Accepting or refusing the plan: the rows that were interrupted may become
\* pending, no task holds a permit.
LEMMA PreparingKeeps ==
  ASSUME IInv, Prepare \/ PrepareFails
  PROVE  IInv'
<1>1. run = "preparing" /\ \A i \in Slots : task[i] = "unplanned"
  BY DEF Prepare, PrepareFails, IInv, PhaseInv, Ended
<1>2. /\ UNCHANGED <<permits, answer, events, results, aborting, cancelled,
                     payload, summary>>
      /\ \/ row' = row
         \/ row' = [i \in Slots |-> IF row[i] = "running" THEN "pending" ELSE row[i]]
  BY DEF Prepare, PrepareFails, BeginRows
<1>3. \/ /\ run' = "running" /\ log' = log
         /\ task' = [i \in Slots |-> "waiting"]
         /\ completed' = {i \in Slots : row[i] = "completed"}
         /\ row' = [i \in Slots |-> IF row[i] = "running" THEN "pending" ELSE row[i]]
      \/ /\ run' = "raised"
         /\ log' \in Seq({"RunStarted", "DatasetResolved", "RunCompleted", "RunFailed"})
         /\ UNCHANGED <<task, completed>>
  BY FailType DEF Prepare, PrepareFails, BeginRows, IInv, TypeOK
<1>4. TypeOK'
  BY <1>2, <1>3 DEF IInv, TypeOK, Ended
<1>5. InFlight = {} /\ InFlight' = {}
  BY <1>1, <1>3 DEF InFlight, Holding
<1>6. PermitsInv'
  BY <1>2, <1>5 DEF IInv, PermitsInv
<1>7. PhaseInv'
  BY <1>1, <1>3 DEF PhaseInv, NoOrphans, Ended
<1>8. SlotInv'
  BY <1>1, <1>2, <1>3 DEF IInv, SlotInv, Holding
<1>9. RowInv'
  <2>1. \A i \in Slots : answer[i] = NoExecution
    BY <1>1 DEF IInv, SlotInv
  <2>2. QED
    BY <1>1, <1>2, <1>3, <2>1 DEF IInv, TypeOK, RowInv, Holding
<1>10. AbortInv'
  BY <1>1, <1>2 DEF IInv, AbortInv
<1>11. ReturnedRunCoversPlan'
  BY <1>3 DEF ReturnedRunCoversPlan
<1>12. QED
  BY <1>4, <1>6, <1>7, <1>8, <1>9, <1>10, <1>11 DEF IInv

\* Cancelling, and the group noticing a failure, set flags only; before the
\* group a cancelled run ends with no task to wait for.
LEMMA AbortingKeeps ==
  ASSUME IInv, CancelRun \/ GroupAborts
  PROVE  IInv'
<1>1. /\ UNCHANGED <<summary, groupVars>>
      /\ cancelled' \in BOOLEAN /\ aborting' \in BOOLEAN
      /\ aborting' => cancelled' \/ \E i \in Slots : task[i] = "failed"
      /\ aborting => aborting'
      /\ \/ run' = run /\ log' = log /\ run = "running"
         \/ /\ run' = "raised" /\ run \in {"resolving", "preparing"}
            /\ log' \in Seq({"RunStarted", "DatasetResolved", "RunCompleted", "RunFailed"})
  BY FailType DEF CancelRun, GroupAborts, IInv, TypeOK, AbortInv
<1>2. TypeOK'
  BY <1>1 DEF IInv, TypeOK, Ended, groupVars
<1>3. PermitsInv'
  BY <1>1 DEF IInv, PermitsInv, InFlight, groupVars
<1>4. PhaseInv'
  BY <1>1 DEF IInv, PhaseInv, NoOrphans, Ended, groupVars
<1>5. SlotInv' /\ RowInv'
  BY <1>1 DEF IInv, SlotInv, RowInv, groupVars
<1>6. AbortInv'
  BY <1>1 DEF AbortInv, groupVars
<1>7. ReturnedRunCoversPlan'
  BY <1>1 DEF ReturnedRunCoversPlan
<1>8. QED
  BY <1>2, <1>3, <1>4, <1>5, <1>6, <1>7 DEF IInv

\* The group is left only when every child has ended; without a failure and
\* without a component cancelling itself every child is "done", with a result.
LEMMA GroupEndKeeps ==
  ASSUME IInv, GroupFails \/ GroupCompletes
  PROVE  IInv'
<1>1. /\ AllTerminal
      /\ UNCHANGED <<aborting, cancelled, groupVars>>
      /\ run' \in {"raised", "returned"}
      /\ run' = "returned" => ~GroupFailed
      /\ log' \in Seq({"RunStarted", "DatasetResolved", "RunCompleted", "RunFailed"})
      /\ summary' \in [Buckets -> Nat]
  <2>1. CASE GroupFails
    BY <2>1, FailType DEF GroupFails, IInv, TypeOK
  <2>2. CASE GroupCompletes
    <3>1. summary' \in [Buckets -> Nat]
      BY <2>2, SummaryType DEF GroupCompletes, IInv, TypeOK
    <3>2. Append(log, "RunCompleted")
            \in Seq({"RunStarted", "DatasetResolved", "RunCompleted", "RunFailed"})
      BY DEF IInv, TypeOK
    <3>3. \/ run' = "returned" /\ log' = Append(log, "RunCompleted")
          \/ Fail(Append(log, "RunCompleted"))
      BY <2>2 DEF GroupCompletes
    <3>4. /\ run' \in {"raised", "returned"}
          /\ log' \in Seq({"RunStarted", "DatasetResolved", "RunCompleted", "RunFailed"})
      BY <3>2, <3>3, FailType
    <3>5. AllTerminal /\ ~GroupFailed /\ UNCHANGED <<aborting, cancelled, groupVars>>
      BY <2>2 DEF GroupCompletes
    <3>6. QED
      BY <3>1, <3>4, <3>5
  <2>3. QED
    BY <2>1, <2>2
<1>2. TypeOK'
  BY <1>1 DEF IInv, TypeOK, Ended, groupVars
<1>3. PermitsInv'
  BY <1>1 DEF IInv, PermitsInv, InFlight, groupVars
<1>4. PhaseInv'
  BY <1>1 DEF PhaseInv, NoOrphans, AllTerminal, Ended, groupVars
<1>5. SlotInv' /\ RowInv' /\ AbortInv'
  BY <1>1 DEF IInv, SlotInv, RowInv, AbortInv, groupVars
<1>6. ReturnedRunCoversPlan'
  <2>1. SUFFICES ASSUME run' = "returned", ~ComponentsCancel, NEW i \in Slots
                 PROVE  results'[i] # NoResult
    BY DEF ReturnedRunCoversPlan
  <2>2. ~cancelled /\ ~aborting /\ task[i] # "failed"
    BY <1>1, <2>1 DEF GroupFailed, IInv, AbortInv
  <2>3. task[i] = "done"
    BY <1>1, <2>1, <2>2 DEF AllTerminal, Terminal, IInv, SlotInv
  <2>4. QED
    BY <1>1, <2>3 DEF IInv, SlotInv, groupVars
<1>7. QED
  BY <1>2, <1>3, <1>4, <1>5, <1>6 DEF IInv

\* Doing nothing preserves it.
LEMMA StutterKeeps ==
  ASSUME IInv, UNCHANGED vars
  PROVE  IInv'
  BY DEF IInv, TypeOK, PermitsInv, InFlight, PhaseInv, NoOrphans, SlotInv, RowInv,
         AbortInv, ReturnedRunCoversPlan, vars

-----------------------------------------------------------------------------
(* The theorems *)

\* The initial states satisfy the invariant, whatever rows an earlier run left.
LEMMA InitIInv == Init => IInv
<1>1. SUFFICES ASSUME Init PROVE IInv
  OBVIOUS
<1>2. TypeOK
  <2>1. RaisedExecution("timeout") \in Execution
    BY DEF RaisedExecution, Execution, ExecutionStatus, Output
  <2>2. payload \in [Slots -> SampleResult \cup {NoResult}]
    <3>1. [execution |-> RaisedExecution("timeout"), grade |-> "none"] \in SampleResult
      BY <2>1 DEF SampleResult
    <3>2. QED
      BY <1>1, <3>1 DEF Init
  <2>3. permits \in 0..Concurrency
    <3>1. permits = Concurrency
      BY <1>1 DEF Init
    <3>2. QED
      BY <3>1, ConcurrencyAssumption
  <2>4. /\ task \in [Slots -> {"unplanned"}]
        /\ answer \in [Slots -> Execution \cup {NoExecution}]
        /\ results \in [Slots -> SampleResult \cup {NoResult}]
    BY <1>1 DEF Init
  <2>5. events \in [Slots -> Seq({"SampleStarted", "ExecutionCompleted",
                                  "GradeCompleted", "SampleCompleted"})]
    BY <1>1 DEF Init
  <2>6. row \in [Slots -> {"absent", "pending", "running", "completed"}]
    BY <1>1 DEF Init
  <2>7. summary \in [Buckets -> Nat]
    BY <1>1 DEF Init, NoSummary
  <2>8. log \in Seq({"RunStarted", "DatasetResolved", "RunCompleted", "RunFailed"})
    <3>1. log = <<>>
      BY <1>1 DEF Init
    <3>2. QED
      BY <3>1
  <2>9. /\ run \in {"new"} /\ aborting \in BOOLEAN /\ cancelled \in BOOLEAN
        /\ completed \subseteq Slots
    BY <1>1 DEF Init
  <2>10. QED
    BY <2>2, <2>3, <2>4, <2>5, <2>6, <2>7, <2>8, <2>9 DEF TypeOK
<1>3. PermitsInv
  <2>1. InFlight = {}
    BY <1>1 DEF Init, InFlight, Holding
  <2>2. QED
    BY <1>1, <2>1, FS_EmptySet, ConcurrencyAssumption DEF Init, PermitsInv
<1>4. PhaseInv /\ SlotInv /\ AbortInv /\ ReturnedRunCoversPlan
  BY <1>1 DEF Init, PhaseInv, NoOrphans, SlotInv, AbortInv, ReturnedRunCoversPlan,
              Ended, Holding
<1>5. RowInv
  BY <1>1 DEF Init, RowInv, Holding, SampleResult, RaisedExecution, Execution,
              ExecutionStatus, Output
<1>6. QED
  BY <1>2, <1>3, <1>4, <1>5 DEF IInv

\* Every step of the specification preserves the invariant.
LEMMA NextIInv == IInv /\ [Next]_vars => IInv'
<1>1. SUFFICES ASSUME IInv, [Next]_vars PROVE IInv'
  OBVIOUS
<1>2. CASE RejectManifest \/ Start \/ Resolve
  BY <1>1, <1>2, OpeningKeeps
<1>3. CASE Prepare \/ PrepareFails
  BY <1>1, <1>3, PreparingKeeps
<1>4. CASE CancelRun \/ GroupAborts
  BY <1>1, <1>4, AbortingKeeps
<1>5. CASE GroupFails \/ GroupCompletes
  BY <1>1, <1>5, GroupEndKeeps
<1>6. CASE \E i \in Slots : Step(i)
  BY <1>1, <1>6, StepEffect, EffectKeeps
<1>7. CASE UNCHANGED vars
  BY <1>1, <1>7, StutterKeeps
<1>8. QED
  BY <1>1, <1>2, <1>3, <1>4, <1>5, <1>6, <1>7 DEF Next, Main, Finished

\* The strengthening is an invariant: it is what every theorem below rests on.
THEOREM Invariance == Spec => []IInv
  BY InitIInv, NextIInv, PTL DEF Spec

\* Every variable of the runner keeps its type, for every plan, concurrency,
\* target and grader.
THEOREM TypeCorrect == Spec => []TypeOK
<1>1. IInv => TypeOK
  BY DEF IInv
<1>2. QED
  BY <1>1, Invariance, PTL

\* asyncio.Semaphore(manifest.concurrency) in _execute_all: no interleaving of
\* completions, failures and cancellations exceeds it.
THEOREM ConcurrencyBounded == Spec => []ConcurrencyBound
<1>1. IInv => ConcurrencyBound
  BY InFlightFinite, ConcurrencyAssumption DEF IInv, TypeOK, PermitsInv, ConcurrencyBound
<1>2. QED
  BY <1>1, Invariance, PTL

\* The TaskGroup of _execute_all: when run() has returned or raised, no attempt
\* is left behind.
THEOREM NoOrphanTasks == Spec => []NoOrphans
<1>1. IInv => NoOrphans
  BY DEF IInv, PhaseInv
<1>2. QED
  BY <1>1, Invariance, PTL

\* The list comprehension over slots in _execute_all drops nothing: run()
\* returns only when every (sample, attempt) pair has its result.
THEOREM CoversPlan == Spec => []ReturnedRunCoversPlan
<1>1. IInv => ReturnedRunCoversPlan
  BY DEF IInv
<1>2. QED
  BY <1>1, Invariance, PTL

\* checkpoint.start before target.execute, whatever happens afterwards.
THEOREM IntentIsDurable == Spec => []IntentBeforeEffect
<1>1. IInv => IntentBeforeEffect
  BY DEF IInv, RowInv, IntentBeforeEffect
<1>2. QED
  BY <1>1, Invariance, PTL

\* No step of the runner rewrites a completed row or the result stored in it.
THEOREM CompletedStaysCompleted == Spec => CompletedRowsImmutable
<1>. DEFINE Kept == \A i \in Slots : row[i] = "completed" =>
                      row'[i] = "completed" /\ payload'[i] = payload[i]
<1>1. IInv /\ [Next]_vars => Kept
  <2>1. SUFFICES ASSUME IInv, [Next]_vars, NEW i \in Slots, row[i] = "completed"
                 PROVE  row'[i] = "completed" /\ payload'[i] = payload[i]
    OBVIOUS
  <2>2. CASE \E j \in Slots : Step(j)
    BY <2>1, <2>2, StepEffect DEF Effect, EffectFrame, EffectRow
  <2>3. CASE Prepare \/ PrepareFails
    BY <2>1, <2>3 DEF Prepare, PrepareFails, BeginRows
  <2>4. CASE RejectManifest \/ Start \/ Resolve \/ CancelRun \/ GroupAborts
             \/ GroupFails \/ GroupCompletes
    BY <2>1, <2>4 DEF RejectManifest, Start, Resolve, CancelRun, GroupAborts,
                      GroupFails, GroupCompletes, groupVars
  <2>5. CASE UNCHANGED vars
    BY <2>1, <2>5 DEF vars
  <2>6. QED
    BY <2>1, <2>2, <2>3, <2>4, <2>5 DEF Next, Main, Finished
<1>2. IInv /\ [Next]_vars => [Kept]_vars
  BY <1>1
<1>3. QED
  BY <1>2, Invariance, PTL DEF Spec, CompletedRowsImmutable

\* The detailed runner implements what a caller may rely on: every step fills one
\* empty slot, ends the run, or is invisible (as long as no component raises
\* CancelledError of its own accord).
THEOREM ImplementsContract == ASSUME ~ComponentsCancel PROVE Spec => MeetsContract
<1>1. Init => Contract!Init
  BY DEF Init, Contract!Init, RunPhase
<1>2. IInv /\ [Next]_vars => [Contract!Next]_(<<RunPhase, results>>)
  <2>1. SUFFICES ASSUME IInv, [Next]_vars
                 PROVE  Contract!Next \/ UNCHANGED <<RunPhase, results>>
    OBVIOUS
  <2>2. CASE \E i \in Slots : Step(i)
    <3>1. PICK i \in Slots : Step(i)
      BY <2>2
    <3>2. Effect(i)
      BY <2>1, <3>1, StepEffect
    <3>3. run \notin Ended /\ run' = run
      BY <2>1, <3>2 DEF IInv, PhaseInv, NoOrphans, Effect, EffectFrame, EffectSlot,
                        Holding, Terminal
    <3>4. RunPhase = "open" /\ RunPhase' = "open"
      BY <3>3 DEF RunPhase, Ended
    <3>5. CASE results'[i] = results[i]
      <4>1. results' = results
        BY <2>1, <3>2, <3>5 DEF IInv, TypeOK, Effect, EffectFrame, EffectTypes
      <4>2. QED
        BY <3>4, <4>1
    <3>6. CASE results'[i] # results[i]
      <4>1. results[i] = NoResult /\ results'[i] \in SampleResult
        BY <3>2, <3>6 DEF Effect, EffectSlot
      <4>2. results' = [results EXCEPT ![i] = results'[i]]
        BY <2>1, <3>2 DEF IInv, TypeOK, Effect, EffectFrame, EffectTypes
      <4>3. Contract!Record(i)
        BY <3>4, <4>1, <4>2 DEF Contract!Record
      <4>4. QED
        BY <4>3 DEF Contract!Next
    <3>7. QED
      BY <3>5, <3>6
  <2>3. CASE RejectManifest \/ Start \/ Resolve \/ Prepare \/ PrepareFails
             \/ CancelRun \/ GroupAborts \/ GroupFails
    <3>1. run \notin Ended /\ results' = results
      BY <2>3 DEF RejectManifest, Start, Resolve, Prepare, PrepareFails, CancelRun,
                  GroupAborts, GroupFails, groupVars, Ended
    <3>2. run' # "returned"
      BY <2>3 DEF RejectManifest, Start, Resolve, Prepare, PrepareFails, CancelRun,
                  GroupAborts, GroupFails, Fail
    <3>3. RunPhase = "open" /\ RunPhase' \in {"open", "raised"}
      BY <3>1, <3>2 DEF RunPhase, Ended
    <3>4. QED
      BY <3>1, <3>3 DEF Contract!Next, Contract!Raise
  <2>4. CASE GroupCompletes
    <3>1. run = "running" /\ results' = results /\ run' \in {"returned", "raised"}
      BY <2>4 DEF GroupCompletes, Fail, groupVars
    <3>2. RunPhase = "open" /\ RunPhase' = run'
      BY <3>1 DEF RunPhase
    <3>3. CASE run' = "raised"
      BY <3>1, <3>2, <3>3 DEF Contract!Next, Contract!Raise
    <3>4. CASE run' = "returned"
      <4>1. ReturnedRunCoversPlan'
        BY <2>1, NextIInv DEF IInv
      <4>2. \A i \in Slots : results[i] # NoResult
        BY <3>1, <3>4, <4>1 DEF ReturnedRunCoversPlan
      <4>3. QED
        BY <3>1, <3>2, <3>4, <4>2 DEF Contract!Next, Contract!Return
    <3>5. QED
      BY <3>1, <3>3, <3>4
  <2>5. CASE UNCHANGED vars
    BY <2>5 DEF vars, RunPhase
  <2>6. QED
    BY <2>1, <2>2, <2>3, <2>4, <2>5 DEF Next, Main, Finished
<1>3. QED
  BY <1>1, <1>2, Invariance, PTL DEF Spec, MeetsContract, Contract!Spec

-----------------------------------------------------------------------------
(* What an attempt leaves behind: the history of each slot, an invariant   *)
(* on top of IInv.                                                         *)

\* Targets leave the reference to a stored output to the runner.
LeavesReferences == \A x \in TargetAnswers : "output_ref" \notin x.artifacts

\* What an attempt that is not over has told and heard so far.
ProgressStory(i) ==
  /\ task[i] \in {"unplanned", "waiting"} \/ i \in completed => events[i] = <<>>
  /\ task[i] = "executing" => events[i] = <<"SampleStarted">>
  /\ task[i] = "grading" =>
       /\ events[i] = <<"SampleStarted", "ExecutionCompleted">>
       /\ answer[i].status = "completed"
       /\ LeavesReferences => "output_ref" \notin answer[i].artifacts

\* A result is there only after SampleCompleted.
EventStory(i) ==
  Fresh(i) =>
    events[i] = IF results[i].grade = "none"
                THEN <<"SampleStarted", "ExecutionCompleted", "SampleCompleted">>
                ELSE <<"SampleStarted", "ExecutionCompleted",
                       "GradeCompleted", "SampleCompleted">>

Faithful(x, said, g) ==
  /\ x.status = said.status
  /\ said.error = "target" => x.error = "target"
  /\ (x.status = "completed") <=> (g # "none")
  /\ said.output # "none" /\ x.output = "none" =>
       /\ ("output_ref" \in x.artifacts) # ("output_spill_error" \in x.artifacts)
       /\ "output_ref" \in x.artifacts \/ said.output \in RawTooBig

TruthStory(i) ==
  Fresh(i) /\ LeavesReferences =>
    Faithful(results[i].execution, answer[i], results[i].grade)

\* A row is completed with the result of its slot, redacted once.
DurableStory(i) ==
  /\ HasCheckpoint /\ task[i] = "done" =>
       row[i] = "completed" /\ payload[i] = AtRest(results[i])
  /\ task[i] = "cancelled" => results[i] = NoResult
  /\ row[i] = "completed" => AtRest(payload[i]) = payload[i]

Story(i) == ProgressStory(i) /\ EventStory(i) /\ TruthStory(i) /\ DurableStory(i)

\* A run that returned was failed by no child.
ReturnStory == run = "returned" => \A i \in Slots : task[i] \in {"done", "cancelled"}

StoryInv == ReturnStory /\ \A i \in Slots : Story(i)

\* Events are appended to what was sent before.
LEMMA AppendToOne ==
  ASSUME NEW S, NEW a \in S, NEW b \in S
  PROVE  Append(<<a>>, b) = <<a, b>>
<1>1. <<a>> \in Seq(S) /\ Len(<<a>>) = 1
  OBVIOUS
<1>2. <<a, b>> \in Seq(S) /\ Len(<<a, b>>) = 2
  OBVIOUS
<1>3. Append(<<a>>, b) \in Seq(S) /\ Len(Append(<<a>>, b)) = 2
  BY <1>1
<1>4. \A k \in 1..2 : Append(<<a>>, b)[k] = <<a, b>>[k]
  BY <1>1
<1>5. QED
  BY <1>2, <1>3, <1>4, SeqEqual

\* To two of them.
LEMMA AppendToTwo ==
  ASSUME NEW S, NEW a \in S, NEW b \in S, NEW c \in S
  PROVE  Append(<<a, b>>, c) = <<a, b, c>>
<1>1. <<a, b>> \in Seq(S) /\ Len(<<a, b>>) = 2
  OBVIOUS
<1>2. <<a, b, c>> \in Seq(S) /\ Len(<<a, b, c>>) = 3
  OBVIOUS
<1>3. Append(<<a, b>>, c) \in Seq(S) /\ Len(Append(<<a, b>>, c)) = 3
  BY <1>1
<1>4. \A k \in 1..3 : Append(<<a, b>>, c)[k] = <<a, b, c>>[k]
  BY <1>1
<1>5. QED
  BY <1>2, <1>3, <1>4, SeqEqual

\* To three.
LEMMA AppendToThree ==
  ASSUME NEW S, NEW a \in S, NEW b \in S, NEW c \in S, NEW d \in S
  PROVE  Append(<<a, b, c>>, d) = <<a, b, c, d>>
<1>1. <<a, b, c>> \in Seq(S) /\ Len(<<a, b, c>>) = 3
  OBVIOUS
<1>2. <<a, b, c, d>> \in Seq(S) /\ Len(<<a, b, c, d>>) = 4
  OBVIOUS
<1>3. Append(<<a, b, c>>, d) \in Seq(S) /\ Len(Append(<<a, b, c>>, d)) = 4
  BY <1>1
<1>4. \A k \in 1..4 : Append(<<a, b, c>>, d)[k] = <<a, b, c, d>>[k]
  BY <1>1
<1>5. QED
  BY <1>2, <1>3, <1>4, SeqEqual

\* The events an attempt sends.
AttemptEvents ==
  {"SampleStarted", "ExecutionCompleted", "GradeCompleted", "SampleCompleted"}

\* An empty slot has no story of its own yet.
LEMMA EmptySlotStory ==
  ASSUME NEW i \in Slots, results[i] = NoResult
  PROVE  EventStory(i) /\ TruthStory(i)
  BY DEF EventStory, TruthStory, Fresh

\* The spill changes neither status nor diagnosis, and what it drops it
\* accounts for.
LEMMA SpillIsFaithful ==
  ASSUME NEW x \in Execution, NEW stored \in BOOLEAN,
         NEW g \in GradeStatus \cup {"none"},
         (x.status = "completed") <=> (g # "none"),
         "output_ref" \notin x.artifacts
  PROVE  Faithful(Spill(x, stored), x, g)
<1>. USE DEF Execution
<1>1. CASE StaysInline(x)
  BY <1>1 DEF Spill, Faithful
<1>2. CASE ~StaysInline(x) /\ PolicyCompiles /\ stored
  <2>1. Spill(x, stored) = Spilled(x)
    BY <1>2 DEF Spill
  <2>2. /\ Spilled(x).status = x.status
        /\ Spilled(x).error = x.error
        /\ "output_ref" \in Spilled(x).artifacts
        /\ "output_spill_error" \notin Spilled(x).artifacts
    BY DEF Spilled
  <2>3. QED
    BY <2>1, <2>2 DEF Faithful
<1>3. CASE ~StaysInline(x) /\ ~(PolicyCompiles /\ stored)
  <2>1. Spill(x, stored) = SpillFailed(x)
    BY <1>3 DEF Spill
  <2>2. /\ SpillFailed(x).status = x.status
        /\ x.error = "target" => SpillFailed(x).error = "target"
        /\ "output_ref" \notin SpillFailed(x).artifacts
        /\ "output_spill_error" \in SpillFailed(x).artifacts
        /\ SpillFailed(x).output = "none" => x.output \in RawTooBig \cup {"none"}
    BY DEF SpillFailed
  <2>3. QED
    BY <2>1, <2>2 DEF Faithful
<1>4. QED
  BY <1>1, <1>2, <1>3

\* Redacting what was redacted changes nothing.
LEMMA AtRestTwice ==
  ASSUME NEW r \in SampleResult
  PROVE  AtRest(AtRest(r)) = AtRest(r)
  BY DEF AtRest, SampleResult, Execution, Output

\* The tail of an attempt tells of its slot what happened in it.
LEMMA ConcludeStory ==
  ASSUME IInv, NEW i \in Slots, Story(i), task[i] \in Holding,
         NEW x \in Execution, NEW g \in GradeStatus \cup {"none"},
         (x.status = "completed") <=> (g # "none"),
         LeavesReferences => "output_ref" \notin x.artifacts,
         Conclude(i, x, g, IF g = "none"
                           THEN <<"SampleStarted", "ExecutionCompleted">>
                           ELSE <<"SampleStarted", "ExecutionCompleted",
                                  "GradeCompleted">>),
         answer' \in [Slots -> Execution \cup {NoExecution}], answer'[i] = x,
         completed' = completed
  PROVE  Story(i)'
<1>1. PICK stored \in BOOLEAN :
        LET result == [execution |-> Spill(x, stored), grade |-> g]
        IN  \/ /\ StepTask(i, "done")
               /\ results' = [results EXCEPT ![i] = result]
               /\ SetRow(i, "completed")
               /\ payload' = IF HasCheckpoint
                             THEN [payload EXCEPT ![i] = AtRest(result)] ELSE payload
            \/ /\ CallbacksRaise
               /\ StepTask(i, "failed")
               /\ UNCHANGED <<results, row, payload>>
            \/ /\ CallbacksRaise /\ HasCheckpoint
               /\ StepTask(i, "failed")
               /\ results' = [results EXCEPT ![i] = result]
               /\ UNCHANGED <<row, payload>>
  BY DEF Conclude
<1>. DEFINE result == [execution |-> Spill(x, stored), grade |-> g]
<1>2. /\ result \in SampleResult
      /\ result.execution = Spill(x, stored)
      /\ result.grade = g
  BY SpillType DEF SampleResult
<1>3. events'[i] = IF g = "none"
                   THEN <<"SampleStarted", "ExecutionCompleted", "SampleCompleted">>
                   ELSE <<"SampleStarted", "ExecutionCompleted",
                          "GradeCompleted", "SampleCompleted">>
  <2>1. /\ Append(<<"SampleStarted", "ExecutionCompleted">>, "SampleCompleted")
             = <<"SampleStarted", "ExecutionCompleted", "SampleCompleted">>
        /\ Append(<<"SampleStarted", "ExecutionCompleted", "GradeCompleted">>,
                  "SampleCompleted")
             = <<"SampleStarted", "ExecutionCompleted", "GradeCompleted",
                 "SampleCompleted">>
    <3>1. /\ "SampleStarted" \in AttemptEvents /\ "ExecutionCompleted" \in AttemptEvents
          /\ "GradeCompleted" \in AttemptEvents /\ "SampleCompleted" \in AttemptEvents
      BY DEF AttemptEvents
    <3>2. QED
      BY <3>1, AppendToTwo, AppendToThree
  <2>2. events \in [Slots -> Seq({"SampleStarted", "ExecutionCompleted",
                                 "GradeCompleted", "SampleCompleted"})]
    BY DEF IInv, TypeOK
  <2>3. CASE g = "none"
    <3>1. events' = [events EXCEPT ![i] =
                      Append(<<"SampleStarted", "ExecutionCompleted">>, "SampleCompleted")]
      BY <2>3 DEF Conclude, Send
    <3>2. QED
      BY <2>1, <2>2, <2>3, <3>1
  <2>4. CASE g # "none"
    <3>1. events' = [events EXCEPT ![i] =
                      Append(<<"SampleStarted", "ExecutionCompleted", "GradeCompleted">>,
                             "SampleCompleted")]
      BY <2>4 DEF Conclude, Send
    <3>2. QED
      BY <2>1, <2>2, <2>4, <3>1
  <2>5. QED
    BY <2>3, <2>4
<1>. HIDE DEF result
<1>4. \/ /\ task' = [task EXCEPT ![i] = "done"]
         /\ results' = [results EXCEPT ![i] = result]
         /\ row' = IF HasCheckpoint THEN [row EXCEPT ![i] = "completed"] ELSE row
         /\ payload' = IF HasCheckpoint
                       THEN [payload EXCEPT ![i] = AtRest(result)] ELSE payload
      \/ /\ task' = [task EXCEPT ![i] = "failed"]
         /\ results' = results \/ results' = [results EXCEPT ![i] = result]
         /\ UNCHANGED <<row, payload>>
  BY <1>1 DEF StepTask, SetRow, result
<1>5. /\ task'[i] \in {"done", "failed"}
      /\ results'[i] \in {NoResult, result}
      /\ i \notin completed'
  BY <1>4 DEF IInv, TypeOK, SlotInv, Holding
<1>6. ProgressStory(i)'
  BY <1>5 DEF ProgressStory
<1>7. EventStory(i)'
  BY <1>2, <1>3, <1>5 DEF EventStory, Fresh
<1>8. TruthStory(i)'
  <2>1. SUFFICES ASSUME results'[i] = result, LeavesReferences
                 PROVE  Faithful(results'[i].execution, answer'[i], results'[i].grade)
    BY <1>5 DEF TruthStory, Fresh, LeavesReferences
  <2>2. Faithful(Spill(x, stored), x, g)
    BY <2>1, SpillIsFaithful
  <2>3. QED
    BY <1>2, <2>1, <2>2
<1>9. DurableStory(i)'
  <2>1. /\ ~HasCheckpoint => row'[i] # "completed"
        /\ payload'[i] = payload[i] \/ payload'[i] = AtRest(result)
    BY <1>4 DEF IInv, TypeOK, RowInv
  <2>2. AtRest(AtRest(result)) = AtRest(result)
    BY <1>2, AtRestTwice
  <2>3. HasCheckpoint /\ task'[i] = "done" =>
          row'[i] = "completed" /\ payload'[i] = AtRest(results'[i])
    BY <1>4 DEF IInv, TypeOK
  <2>4. row'[i] = "completed" => AtRest(payload'[i]) = payload'[i]
    <3>1. CASE row'[i] = row[i] /\ payload'[i] = payload[i]
      BY <3>1 DEF Story, DurableStory
    <3>2. CASE ~(row'[i] = row[i] /\ payload'[i] = payload[i])
      <4>1. payload'[i] = AtRest(result)
        BY <1>4, <3>2 DEF IInv, TypeOK
      <4>2. QED
        BY <2>2, <4>1
    <3>3. QED
      BY <3>1, <3>2
  <2>5. QED
    BY <1>5, <2>3, <2>4 DEF DurableStory
<1>10. QED
  BY <1>6, <1>7, <1>8, <1>9 DEF Story

\* An attempt that leaves its coroutine early leaves no result.
LEMMA EscapeStory ==
  ASSUME IInv, NEW i \in Slots, Story(i), task[i] \in Holding \cup {"waiting"},
         NEW phase \in {"failed", "cancelled"}, StepTask(i, phase),
         i \notin completed \/ UNCHANGED events,
         UNCHANGED <<results, payload, completed>>,
         row' = row \/ row'[i] = "running"
  PROVE  Story(i)'
<1>1. task'[i] = phase /\ results'[i] = NoResult /\ completed' = completed
  BY DEF StepTask, IInv, TypeOK, SlotInv, Holding
<1>2. ProgressStory(i)'
  BY <1>1 DEF Story, ProgressStory, Holding
<1>3. EventStory(i)' /\ TruthStory(i)'
  BY <1>1 DEF EventStory, TruthStory, Fresh
<1>4. DurableStory(i)'
  BY <1>1 DEF Story, DurableStory
<1>5. QED
  BY <1>2, <1>3, <1>4 DEF Story

\* A completed attempt is replayed from its row: nothing is sent, and the row
\* already has the result.
LEMMA ReplayStory ==
  ASSUME IInv, NEW i \in Slots, Story(i), ReplayCompleted(i)
  PROVE  Story(i)'
<1>1. /\ task'[i] = "done" /\ results'[i] = payload[i]
      /\ i \in completed /\ row[i] = "completed"
      /\ UNCHANGED <<answer, events, completed, row, payload>>
  BY DEF ReplayCompleted, StepTask, IInv, TypeOK, RowInv
<1>2. ProgressStory(i)'
  BY <1>1 DEF Story, ProgressStory
<1>3. EventStory(i)' /\ TruthStory(i)'
  BY <1>1 DEF EventStory, TruthStory, Fresh
<1>4. DurableStory(i)'
  BY <1>1 DEF Story, DurableStory
<1>5. QED
  BY <1>2, <1>3, <1>4 DEF Story

\* An attempt that starts has sent SampleStarted.
LEMMA StartStory ==
  ASSUME IInv, NEW i \in Slots, Story(i), StartAttempt(i)
  PROVE  Story(i)'
<1>1. /\ task'[i] = "executing" /\ results'[i] = NoResult
      /\ events'[i] = <<"SampleStarted">>
      /\ i \notin completed'
      /\ payload' = payload /\ (row' = row \/ row'[i] = "running")
  BY DEF StartAttempt, CanAcquire, StepTask, Send, SetRow, IInv, TypeOK, SlotInv
<1>2. ProgressStory(i)'
  BY <1>1 DEF ProgressStory
<1>3. EventStory(i)' /\ TruthStory(i)'
  BY <1>1 DEF EventStory, TruthStory, Fresh
<1>4. DurableStory(i)'
  BY <1>1 DEF Story, DurableStory
<1>5. QED
  BY <1>2, <1>3, <1>4 DEF Story

\* The target has produced an execution: it goes on to the grader exactly when
\* it completed.
LEMMA ExecutedStory ==
  ASSUME IInv, NEW i \in Slots, Story(i), task[i] = "executing",
         NEW x \in Execution,
         LeavesReferences => "output_ref" \notin x.artifacts,
         Executed(i, x), completed' = completed
  PROVE  Story(i)'
<1>. DEFINE sent == <<"SampleStarted", "ExecutionCompleted">>
<1>1. /\ events[i] = <<"SampleStarted">>
      /\ Append(events[i], "ExecutionCompleted") = sent
      /\ results[i] = NoResult /\ i \notin completed
  <2>1. events[i] = <<"SampleStarted">>
    BY DEF Story, ProgressStory
  <2>2. Append(<<"SampleStarted">>, "ExecutionCompleted") = sent
    <3>1. "SampleStarted" \in AttemptEvents /\ "ExecutionCompleted" \in AttemptEvents
      BY DEF AttemptEvents
    <3>2. QED
      BY <3>1, AppendToOne
  <2>3. results[i] = NoResult /\ i \notin completed
    BY DEF IInv, SlotInv, Holding
  <2>4. QED
    BY <2>1, <2>2, <2>3
<1>2. /\ answer' \in [Slots -> Execution \cup {NoExecution}]
      /\ answer'[i] = x
  BY DEF IInv, TypeOK, Executed
<1>3. CASE x.status = "completed" /\ Send(i, sent) /\ StepTask(i, "grading")
           /\ UNCHANGED <<permits, results, row, payload>>
  <2>1. /\ task'[i] = "grading" /\ events'[i] = sent /\ results'[i] = NoResult
        /\ i \notin completed'
    BY <1>1, <1>3 DEF StepTask, Send, IInv, TypeOK
  <2>2. ProgressStory(i)'
    BY <1>2, <1>3, <2>1 DEF ProgressStory, LeavesReferences
  <2>3. EventStory(i)' /\ TruthStory(i)'
    BY <2>1 DEF EventStory, TruthStory, Fresh
  <2>4. DurableStory(i)'
    BY <1>3, <2>1 DEF Story, DurableStory
  <2>5. QED
    BY <2>2, <2>3, <2>4 DEF Story
<1>4. CASE x.status # "completed" /\ Conclude(i, x, "none", sent)
  BY <1>2, <1>4, ConcludeStory DEF Holding
<1>5. CASE StepTask(i, "failed") /\ UNCHANGED <<results, row, payload>>
  BY <1>1, <1>5, EscapeStory DEF Holding
<1>6. QED
  BY <1>1, <1>3, <1>4, <1>5 DEF Executed

\* The grader has produced a verdict.
LEMMA GradedStory ==
  ASSUME IInv, NEW i \in Slots, Story(i), task[i] = "grading",
         NEW g \in GradeStatus, Graded(i, g), completed' = completed
  PROVE  Story(i)'
<1>. DEFINE sent == <<"SampleStarted", "ExecutionCompleted", "GradeCompleted">>
<1>1. /\ Append(events[i], "GradeCompleted") = sent
      /\ answer[i] \in Execution /\ answer[i].status = "completed"
      /\ LeavesReferences => "output_ref" \notin answer[i].artifacts
      /\ answer' = answer /\ i \notin completed
  <2>1. /\ events[i] = <<"SampleStarted", "ExecutionCompleted">>
        /\ answer[i].status = "completed"
        /\ LeavesReferences => "output_ref" \notin answer[i].artifacts
    BY DEF Story, ProgressStory
  <2>2. Append(<<"SampleStarted", "ExecutionCompleted">>, "GradeCompleted") = sent
    <3>1. /\ "SampleStarted" \in AttemptEvents /\ "ExecutionCompleted" \in AttemptEvents
          /\ "GradeCompleted" \in AttemptEvents
      BY DEF AttemptEvents
    <3>2. QED
      BY <3>1, AppendToTwo
  <2>3. answer[i] \in Execution /\ i \notin completed
    BY DEF IInv, SlotInv, Holding
  <2>4. answer' = answer
    BY DEF Graded
  <2>5. QED
    BY <2>1, <2>2, <2>3, <2>4
<1>2. CASE Conclude(i, answer[i], g, sent)
  <2>1. g # "none" /\ g \in GradeStatus \cup {"none"}
    BY DEF GradeStatus
  <2>2. answer' \in [Slots -> Execution \cup {NoExecution}]
    BY <1>1 DEF IInv, TypeOK
  <2>3. QED
    BY <1>1, <1>2, <2>1, <2>2, ConcludeStory DEF Holding
<1>3. CASE StepTask(i, "failed") /\ UNCHANGED <<results, row, payload>>
  BY <1>1, <1>3, EscapeStory DEF Holding
<1>4. QED
  BY <1>1, <1>2, <1>3 DEF Graded

\* Every step of an attempt continues the story of its slot.
LEMMA StepStory ==
  ASSUME IInv, NEW i \in Slots, Story(i), Step(i)
  PROVE  Story(i)'
<1>1. CASE ReplayCompleted(i)
  BY <1>1, ReplayStory
<1>2. CASE StartAttempt(i)
  BY <1>2, StartStory
<1>3. CASE StartFails(i)
  BY <1>3, EscapeStory DEF StartFails, CanAcquire, SetRow, IInv, TypeOK
<1>4. CASE TargetReturns(i)
  BY <1>4, ExecutedStory, AnswersAssumption DEF TargetReturns, LeavesReferences
<1>5. CASE TargetRaises(i)
  <2>1. \A s \in {"timeout", "error"} :
          RaisedExecution(s) \in Execution /\ "output_ref" \notin RaisedExecution(s).artifacts
    BY DEF RaisedExecution, Execution, ExecutionStatus, Output
  <2>2. CASE \E s \in {"timeout", "error"} : Executed(i, RaisedExecution(s))
    BY <1>5, <2>1, <2>2, ExecutedStory DEF TargetRaises
  <2>3. CASE Escape(i, "failed")
    BY <1>5, <2>3, EscapeStory DEF TargetRaises, Escape, Holding
  <2>4. QED
    BY <1>5, <2>2, <2>3 DEF TargetRaises
<1>6. CASE GraderReturns(i)
  BY <1>6, GradedStory, VerdictsAssumption DEF GraderReturns
<1>7. CASE GraderRaises(i)
  <2>1. CASE Graded(i, "error")
    BY <1>7, <2>1, GradedStory DEF GraderRaises, GradeStatus
  <2>2. CASE Escape(i, "failed")
    BY <1>7, <2>2, EscapeStory DEF GraderRaises, Escape, Holding
  <2>3. QED
    BY <1>7, <2>1, <2>2 DEF GraderRaises
<1>8. CASE CancelledErrorEscapes(i)
  BY <1>8, EscapeStory DEF CancelledErrorEscapes, Escape
<1>9. CASE CancelWaiting(i)
  BY <1>9, EscapeStory DEF CancelWaiting
<1>10. QED
  BY <1>1, <1>2, <1>3, <1>4, <1>5, <1>6, <1>7, <1>8, <1>9 DEF Step

\* An attempt sends nothing in another's name.
LEMMA StepSendsForItself ==
  ASSUME NEW i \in Slots, Step(i), NEW j \in Slots \ {i}
  PROVE  events'[j] = events[j]
<1>1. \A sent : Send(i, sent) => events'[j] = events[j]
  BY DEF Send
<1>2. \A x, g, sent : Conclude(i, x, g, sent) => events'[j] = events[j]
  BY <1>1 DEF Conclude
<1>3. \A x : Executed(i, x) => events'[j] = events[j]
  BY <1>1, <1>2 DEF Executed
<1>4. \A g : Graded(i, g) => events'[j] = events[j]
  BY <1>1, <1>2 DEF Graded
<1>5. \A phase : Escape(i, phase) => events'[j] = events[j]
  BY DEF Escape
<1>6. CASE ReplayCompleted(i) \/ StartAttempt(i) \/ StartFails(i) \/ CancelWaiting(i)
  BY <1>1, <1>6 DEF ReplayCompleted, StartAttempt, StartFails, CancelWaiting
<1>7. CASE TargetReturns(i) \/ TargetRaises(i)
  BY <1>3, <1>5, <1>7 DEF TargetReturns, TargetRaises
<1>8. CASE GraderReturns(i) \/ GraderRaises(i) \/ CancelledErrorEscapes(i)
  BY <1>4, <1>5, <1>8 DEF GraderReturns, GraderRaises, CancelledErrorEscapes
<1>9. QED
  BY <1>6, <1>7, <1>8 DEF Step

\* The initial states satisfy it, whatever rows an earlier run left.
LEMMA InitStory == Init => StoryInv
<1>1. SUFFICES ASSUME Init PROVE StoryInv
  OBVIOUS
<1>2. ReturnStory
  BY <1>1 DEF Init, ReturnStory
<1>3. SUFFICES ASSUME NEW i \in Slots PROVE Story(i)
  BY <1>2 DEF StoryInv
<1>4. ProgressStory(i)
  BY <1>1 DEF Init, ProgressStory
<1>5. EventStory(i) /\ TruthStory(i)
  BY <1>1, EmptySlotStory DEF Init
<1>6. DurableStory(i)
  <2>. DEFINE left == [execution |-> RaisedExecution("timeout"), grade |-> "none"]
  <2>1. AtRest(left) = left
    BY DEF AtRest, RaisedExecution
  <2>2. row[i] = "completed" => payload[i] = left
    BY <1>1 DEF Init
  <2>3. task[i] = "unplanned"
    BY <1>1 DEF Init
  <2>4. QED
    BY <2>1, <2>2, <2>3 DEF DurableStory
<1>7. QED
  BY <1>4, <1>5, <1>6 DEF Story

\* Every step of the specification preserves it.
LEMMA NextStory == IInv /\ StoryInv /\ [Next]_vars => StoryInv'
<1>1. SUFFICES ASSUME IInv, StoryInv, [Next]_vars PROVE StoryInv'
  OBVIOUS
<1>2. \A i \in Slots : Story(i)
  BY <1>1 DEF StoryInv
<1>3. CASE \E i \in Slots : Step(i)
  <2>1. PICK i \in Slots : Step(i)
    BY <1>3
  <2>2. Effect(i)
    BY <1>1, <2>1, StepEffect
  <2>3. Story(i)'
    BY <1>1, <1>2, <2>1, StepStory
  <2>4. ASSUME NEW j \in Slots \ {i} PROVE Story(j)'
    <3>1. /\ UNCHANGED <<completed>>
          /\ task'[j] = task[j] /\ answer'[j] = answer[j] /\ events'[j] = events[j]
          /\ results'[j] = results[j] /\ row'[j] = row[j] /\ payload'[j] = payload[j]
      BY <2>1, <2>2, StepSendsForItself DEF Effect, EffectFrame
    <3>2. Story(j)
      BY <1>2
    <3>3. ProgressStory(j)'
      BY <3>1, <3>2 DEF Story, ProgressStory, LeavesReferences
    <3>4. EventStory(j)'
      BY <3>1, <3>2 DEF Story, EventStory, Fresh
    <3>5. TruthStory(j)'
      BY <3>1, <3>2 DEF Story, TruthStory, Fresh, LeavesReferences
    <3>6. DurableStory(j)'
      BY <3>1, <3>2 DEF Story, DurableStory
    <3>7. QED
      BY <3>3, <3>4, <3>5, <3>6 DEF Story
  <2>5. ReturnStory'
    BY <1>1, <2>2 DEF IInv, PhaseInv, NoOrphans, Effect, EffectFrame, EffectSlot,
                      ReturnStory, Ended, Holding, Terminal
  <2>6. QED
    BY <2>3, <2>4, <2>5 DEF StoryInv
<1>4. CASE Prepare \/ PrepareFails
  <2>1. /\ run = "preparing" /\ run' # "returned"
        /\ UNCHANGED <<answer, events, results, payload>>
        /\ \/ row' = row
           \/ row' = [i \in Slots |-> IF row[i] = "running" THEN "pending" ELSE row[i]]
        /\ \/ UNCHANGED <<task, completed>>
           \/ task' = [i \in Slots |-> "waiting"]
    BY <1>4 DEF Prepare, PrepareFails, BeginRows, Fail
  <2>2. SUFFICES ASSUME NEW i \in Slots PROVE Story(i)'
    BY <2>1 DEF StoryInv, ReturnStory
  <2>3. task[i] = "unplanned" /\ results[i] = NoResult
    BY <1>1, <2>1 DEF IInv, PhaseInv, SlotInv, Ended
  <2>4. events[i] = <<>> /\ DurableStory(i)
    BY <1>2, <2>3 DEF Story, ProgressStory
  <2>5. task'[i] \in {"unplanned", "waiting"}
    BY <2>1, <2>3
  <2>6. ProgressStory(i)'
    BY <2>1, <2>4, <2>5 DEF ProgressStory
  <2>7. EventStory(i)' /\ TruthStory(i)'
    BY <2>1, <2>3 DEF EventStory, TruthStory, Fresh
  <2>8. DurableStory(i)'
    BY <2>1, <2>4, <2>5 DEF DurableStory
  <2>9. QED
    BY <2>6, <2>7, <2>8 DEF Story
<1>5. ASSUME UNCHANGED groupVars PROVE \A i \in Slots : Story(i)'
  BY <1>2, <1>5 DEF Story, ProgressStory, EventStory, TruthStory, DurableStory, Fresh,
                    LeavesReferences, groupVars
<1>6. CASE RejectManifest \/ Start \/ Resolve \/ CancelRun \/ GroupAborts \/ GroupFails
  <2>1. /\ UNCHANGED groupVars
        /\ run' # "returned"
    BY <1>6 DEF RejectManifest, Start, Resolve, CancelRun, GroupAborts, GroupFails, Fail
  <2>2. QED
    BY <1>5, <2>1 DEF StoryInv, ReturnStory
<1>7. CASE GroupCompletes
  <2>1. UNCHANGED groupVars /\ AllTerminal /\ ~GroupFailed
    BY <1>7 DEF GroupCompletes
  <2>2. ReturnStory'
    BY <2>1 DEF ReturnStory, AllTerminal, GroupFailed, Terminal, groupVars
  <2>3. QED
    BY <1>5, <2>1, <2>2 DEF StoryInv
<1>8. CASE UNCHANGED vars
  <2>1. UNCHANGED groupVars /\ run' = run
    BY <1>8 DEF vars, groupVars
  <2>2. QED
    BY <1>1, <1>5, <2>1 DEF StoryInv, ReturnStory, groupVars
<1>9. QED
  BY <1>1, <1>3, <1>4, <1>6, <1>7, <1>8 DEF Next, Main, Finished

\* The story of every slot is an invariant.
THEOREM StoryHolds == Spec => []StoryInv
  BY InitStory, NextStory, Invariance, PTL DEF Spec

\* The events of an attempt and its slot agree, and a replayed attempt is
\* silent, whatever fails in between.
THEOREM EventsTellTheSlots == Spec => []EventsMatchSlots
<1>1. StoryInv => EventsMatchSlots
  BY DEF StoryInv, Story, ProgressStory, EventStory, EventsMatchSlots
<1>2. QED
  BY <1>1, StoryHolds, PTL

\* _summarize and the report see what the target and the grader said; an output
\* that disappeared left a reference or a failure record (for targets that put
\* no output_ref into artifacts themselves).
THEOREM ResultsAreTruthful ==
  ASSUME LeavesReferences
  PROVE  Spec => []ResultIsTruthful
<1>1. StoryInv => ResultIsTruthful
  BY DEF StoryInv, Story, TruthStory, Faithful, ResultIsTruthful
<1>2. QED
  BY <1>1, StoryHolds, PTL

\* checkpoint.save before the permit is released: a run that returns has every
\* result it returns in the checkpoint, the replayed ones included.
THEOREM ReturnedIsDurable == Spec => []ReturnedRunIsDurable
<1>1. StoryInv => ReturnedRunIsDurable
  BY DEF StoryInv, ReturnStory, Story, DurableStory, ReturnedRunIsDurable
<1>2. QED
  BY <1>1, StoryHolds, PTL
=============================================================================
