----------------------------- MODULE EvalRunner -----------------------------
(***************************************************************************)
(* One call of EvalRunner.run (runner.py): the run's own phases, the       *)
(* asyncio.TaskGroup of one task per (sample, attempt), the semaphore that *)
(* bounds them, the three fault-isolated components (target, grader,       *)
(* artifact store), the calls that are not isolated (event sink,           *)
(* checkpoint), cancellation, and the summary.                             *)
(*                                                                         *)
(* An asyncio task runs without interruption from one await to the next,   *)
(* so an action is everything between two awaits of one coroutine.  Slot i *)
(* is the i-th entry of attempt_plan.                                      *)
(***************************************************************************)
EXTENDS Integers, Sequences, FiniteSets

CONSTANTS
  N,                 \* number of (sample, attempt) pairs in the plan
  Concurrency,       \* manifest.concurrency
  TargetAnswers,     \* executions a target may return
  Verdicts,          \* grade statuses a grader may return
  HasCheckpoint,     \* a RunCheckpoint was passed to run()
  RetryInterrupted,  \* its --retry-interrupted flag
  PolicyCompiles,    \* every pattern of redaction_policy is a valid regex
  CallbacksRaise,    \* the event sink or the checkpoint may raise
  ComponentsCancel,  \* a component may raise CancelledError of its own accord
  Cancellable        \* the caller may cancel the task awaiting run()

Slots == 1..N

ExecutionStatus == {"completed", "failed", "timeout", "cancelled", "error"}
GradeStatus == {"pass", "fail", "partial", "abstain", "unavailable", "error"}

\* Serialized outputs, told apart by the two sizes the spill measures: the
\* redacted text against the threshold, and, in the failure handler, the raw.
\* "redacted" is what a checkpoint keeps of any of them.
Output == {"none", "small", "large", "grows", "shrinks", "redacted"}
RedactedTooBig == {"large", "grows"}
RawTooBig == {"large", "shrinks"}

Artifact == {"output_ref", "output_spill_error"}

\* A NormalizedExecutionResult: error names who diagnosed it.
Execution == [status: ExecutionStatus, output: Output,
              error: {"none", "target", "spill"}, artifacts: SUBSET Artifact]
SampleResult == [execution: Execution, grade: GradeStatus \cup {"none"}]

\* What stands for None in a list of results.
NoExecution == [status |-> "none", output |-> "none",
                error |-> "none", artifacts |-> {}]
NoResult == [execution |-> NoExecution, grade |-> "none"]

ASSUME NAssumption == N \in Nat
ASSUME ConcurrencyAssumption == Concurrency \in Nat \ {0}
ASSUME AnswersAssumption == TargetAnswers \subseteq Execution
ASSUME VerdictsAssumption == Verdicts \subseteq GradeStatus
ASSUME FlagsAssumption ==
  {HasCheckpoint, RetryInterrupted, PolicyCompiles,
   CallbacksRaise, ComponentsCancel, Cancellable} \subseteq BOOLEAN

VARIABLES
  run,        \* phase of the coroutine run()
  log,        \* run-level events given to the sink, in order
  task,       \* phase of each attempt's coroutine _run_one
  permits,    \* the semaphore's counter
  answer,     \* what the target returned for the attempt
  events,     \* attempt-level events given to the sink, in order
  results,    \* the list of slots filled by _run_one
  aborting,   \* the TaskGroup has cancelled its children
  cancelled,  \* the task awaiting run() was cancelled
  completed,  \* slots the checkpoint reported completed when tasks were made
  row,        \* status of the slot's row in the checkpoint
  payload,    \* the result stored in that row
  summary     \* RunSummary, once built

vars == <<run, log, task, permits, answer, events, results, aborting,
          cancelled, completed, row, payload, summary>>

groupVars == <<task, permits, answer, events, results, completed, row, payload>>

Ended == {"rejected", "returned", "raised"}
Holding == {"executing", "grading"}
Terminal == {"done", "failed", "cancelled"}

InFlight == {i \in Slots : task[i] \in Holding}

Buckets == {"total", "passed", "failed", "partial", "errors", "timeouts",
            "cancelled", "abstained", "unavailable"}
NoSummary == [b \in Buckets |-> 0]

-----------------------------------------------------------------------------
(* The spill, and the summary *)

\* Within the threshold the output stays inline (_spill_large_output).
StaysInline(x) ==
  x.output = "none" \/ (PolicyCompiles /\ x.output \notin RedactedTooBig)

\* Mutant: a stale failure record survives a successful spill.
SpilledKeepsStaleRecord(x) ==
  [x EXCEPT !.output = "none", !.artifacts = @ \cup {"output_ref"}]

\* The bytes are in the store: a reference replaces them, and a failure record
\* the target left in artifacts goes.
Spilled(x) ==
  [x EXCEPT !.output = "none",
            !.artifacts = (@ \ {"output_spill_error"}) \cup {"output_ref"}]

\* _spill_failure_result: the record, in error only if nothing claimed it yet;
\* the output is dropped if its raw text is over the threshold.
SpillFailed(x) ==
  [x EXCEPT !.output = IF @ \in RawTooBig THEN "none" ELSE @,
            !.error = IF @ = "none" THEN "spill" ELSE @,
            !.artifacts = @ \cup {"output_spill_error"}]

\* _spill_isolated: stored is whether the artifact store accepts the bytes.
Spill(x, stored) ==
  IF StaysInline(x) THEN x
  ELSE IF PolicyCompiles /\ stored THEN Spilled(x)
  ELSE SpillFailed(x)

\* checkpoint.save scrubs the text of a result before it writes it; statuses,
\* verdicts and references stay.
AtRest(result) ==
  [result EXCEPT !.execution.output = IF @ = "none" THEN "none" ELSE "redacted"]

Filled(rs) == {i \in Slots : rs[i] # NoResult}
HowMany(rs, S) ==
  Cardinality({i \in Filled(rs) : rs[i].execution.status \in S})
HowManyGraded(rs, g) == Cardinality({i \in Filled(rs) : rs[i].grade = g})

\* An execution that failed and a grade that failed to be made are both errors.
Errors(rs) == HowMany(rs, {"error", "failed"}) + HowManyGraded(rs, "error")

\* _summarize over the slots that are not None.
Summarize(rs) ==
  [total       |-> Cardinality(Filled(rs)),
   passed      |-> HowManyGraded(rs, "pass"),
   failed      |-> HowManyGraded(rs, "fail"),
   partial     |-> HowManyGraded(rs, "partial"),
   errors      |-> Errors(rs),
   timeouts    |-> HowMany(rs, {"timeout"}),
   cancelled   |-> HowMany(rs, {"cancelled"}),
   abstained   |-> HowManyGraded(rs, "abstain"),
   unavailable |-> HowManyGraded(rs, "unavailable")]

\* The result recorded for a target that raised (_target_error_result).
RaisedExecution(status) ==
  [status |-> status, output |-> "none", error |-> "target", artifacts |-> {}]

-----------------------------------------------------------------------------
(* The coroutine run() *)

\* Rows an earlier run left behind, and the results stored in them.
Init ==
  /\ run = "new"
  /\ log = <<>>
  /\ task = [i \in Slots |-> "unplanned"]
  /\ permits = Concurrency
  /\ answer = [i \in Slots |-> NoExecution]
  /\ events = [i \in Slots |-> <<>>]
  /\ results = [i \in Slots |-> NoResult]
  /\ aborting = FALSE
  /\ cancelled = FALSE
  /\ completed = {}
  /\ row \in [Slots -> IF HasCheckpoint THEN {"absent", "running", "completed"}
                                        ELSE {"absent"}]
  /\ payload = [i \in Slots |->
                  IF row[i] = "completed"
                  THEN [execution |-> RaisedExecution("timeout"), grade |-> "none"]
                  ELSE NoResult]
  /\ summary = NoSummary

\* The except BaseException clause: RunFailed is built inside a suppress, and
\* building its message compiles the policy's patterns.
Fail(sent) ==
  /\ run' = "raised"
  /\ log' = sent \o (IF PolicyCompiles THEN <<"RunFailed">> ELSE <<>>)

RejectManifest ==
  /\ run = "new"
  /\ run' = "rejected"
  /\ UNCHANGED <<log, aborting, cancelled, summary, groupVars>>

\* RunStarted is sent before the try block.
Start ==
  /\ run = "new"
  /\ log' = Append(log, "RunStarted")
  /\ \/ run' = "resolving"
     \/ CallbacksRaise /\ run' = "raised"
  /\ UNCHANGED <<aborting, cancelled, summary, groupVars>>

Resolve ==
  /\ run = "resolving"
  /\ \/ run' = "preparing" /\ log' = Append(log, "DatasetResolved")
     \/ Fail(log)
     \/ CallbacksRaise /\ Fail(Append(log, "DatasetResolved"))
  /\ UNCHANGED <<aborting, cancelled, summary, groupVars>>

\* checkpoint.begin: refuses interrupted rows without the opt-in, otherwise
\* turns them into pending ones.
BeginRows ==
  /\ RetryInterrupted \/ \A i \in Slots : row[i] # "running"
  /\ row' = [i \in Slots |-> IF row[i] = "running" THEN "pending" ELSE row[i]]

\* Records are read and adapted, the checkpoint accepts the plan, and one task
\* per slot is created.
Prepare ==
  /\ run = "preparing"
  /\ BeginRows
  /\ run' = "running"
  /\ completed' = {i \in Slots : row[i] = "completed"}
  /\ task' = [i \in Slots |-> "waiting"]
  /\ UNCHANGED <<log, permits, answer, events, results, aborting, cancelled,
                 payload, summary>>

\* A provider error, duplicate sample ids, a plan checkpoint.begin refuses; or
\* begin accepts it and reading the completed rows then fails their checksum.
PrepareFails ==
  /\ run = "preparing"
  /\ Fail(log)
  /\ \/ UNCHANGED row
     \/ HasCheckpoint /\ BeginRows
  /\ UNCHANGED <<task, permits, answer, events, results, aborting, cancelled,
                 completed, payload, summary>>

\* The caller cancels: before the TaskGroup the coroutine just unwinds, inside
\* it the group cancels its children and waits for them.
CancelRun ==
  /\ Cancellable
  /\ ~cancelled
  /\ cancelled' = TRUE
  /\ \/ run \in {"resolving", "preparing"} /\ Fail(log) /\ UNCHANGED aborting
     \/ run = "running" /\ aborting' = TRUE /\ UNCHANGED <<run, log>>
  /\ UNCHANGED <<summary, groupVars>>

\* TaskGroup._on_task_done sees a child that ended with an exception.
GroupAborts ==
  /\ run = "running"
  /\ ~aborting
  /\ \E i \in Slots : task[i] = "failed"
  /\ aborting' = TRUE
  /\ UNCHANGED <<run, log, cancelled, summary, groupVars>>

\* Mutant: the group does not wait for the children it has cancelled.
AllTerminalOrAborting == aborting \/ \A i \in Slots : task[i] \in Terminal

\* Mutant: the group does not wait for attempts still queued on the semaphore.
NobodyHolding == \A i \in Slots : task[i] \notin Holding

\* TaskGroup.__aexit__ waits until its set of tasks is empty.
AllTerminal == \A i \in Slots : task[i] \in Terminal

\* TaskGroup.__aexit__ re-raises: the parent's CancelledError, or a group of
\* the children's exceptions.  A child that ended cancelled is not an error.
GroupFailed == cancelled \/ \E i \in Slots : task[i] = "failed"

GroupFails ==
  /\ run = "running"
  /\ AllTerminal
  /\ GroupFailed
  /\ Fail(log)
  /\ UNCHANGED <<aborting, cancelled, summary, groupVars>>

GroupCompletes ==
  /\ run = "running"
  /\ AllTerminal
  /\ ~GroupFailed
  /\ summary' = Summarize(results)
  /\ \/ run' = "returned" /\ log' = Append(log, "RunCompleted")
     \/ CallbacksRaise /\ Fail(Append(log, "RunCompleted"))
  /\ UNCHANGED <<aborting, cancelled, groupVars>>

-----------------------------------------------------------------------------
(* The coroutine _run_one(i) *)

\* asyncio.Semaphore wakes its waiters in the order they queued.
CanAcquire(i) ==
  /\ run = "running"
  /\ ~aborting
  /\ task[i] = "waiting"
  /\ permits > 0
  /\ \A j \in Slots : j < i => task[j] # "waiting"

StepTask(i, phase) == task' = [task EXCEPT ![i] = phase]
Send(i, sent) == events' = [events EXCEPT ![i] = sent]

\* Mutant: checkpoint.start is not called.
SetRowOnlyCompleted(i, status) ==
  row' = IF HasCheckpoint /\ status = "completed"
         THEN [row EXCEPT ![i] = status] ELSE row

\* Mutant: checkpoint.save is not called.
SetRowOnlyRunning(i, status) ==
  row' = IF HasCheckpoint /\ status = "running"
         THEN [row EXCEPT ![i] = status] ELSE row

SetRow(i, status) ==
  row' = IF HasCheckpoint THEN [row EXCEPT ![i] = status] ELSE row

ReplayCompleted(i) ==
  /\ CanAcquire(i)
  /\ i \in completed
  /\ results' = [results EXCEPT ![i] = payload[i]]
  /\ StepTask(i, "done")
  /\ UNCHANGED <<run, log, permits, answer, events, aborting, cancelled,
                 completed, row, payload, summary>>

StartAttempt(i) ==
  /\ CanAcquire(i)
  /\ i \notin completed
  /\ SetRow(i, "running")
  /\ Send(i, <<"SampleStarted">>)
  /\ StepTask(i, "executing")
  /\ permits' = permits - 1
  /\ UNCHANGED <<run, log, answer, results, aborting, cancelled, completed,
                 payload, summary>>

\* checkpoint.start raises, or it succeeds and the sink then raises.
StartFails(i) ==
  /\ CallbacksRaise
  /\ CanAcquire(i)
  /\ i \notin completed
  /\ \/ HasCheckpoint /\ UNCHANGED <<row, events>>
     \/ SetRow(i, "running") /\ Send(i, <<"SampleStarted">>)
  /\ StepTask(i, "failed")
  /\ UNCHANGED <<run, log, permits, answer, results, aborting, cancelled,
                 completed, payload, summary>>

\* The tail of _execute_and_grade and _run_one: spill, SampleCompleted, the
\* slot, checkpoint.save; the semaphore is released however it ends.
Conclude(i, x, g, sent) ==
  /\ permits' = permits + 1
  /\ Send(i, Append(sent, "SampleCompleted"))
  /\ \E stored \in BOOLEAN :
       LET result == [execution |-> Spill(x, stored), grade |-> g]
       IN  \/ /\ StepTask(i, "done")
              /\ results' = [results EXCEPT ![i] = result]
              /\ SetRow(i, "completed")
              /\ payload' = IF HasCheckpoint
                            THEN [payload EXCEPT ![i] = AtRest(result)] ELSE payload
           \/ /\ CallbacksRaise                        \* the sink raises
              /\ StepTask(i, "failed")
              /\ UNCHANGED <<results, row, payload>>
           \/ /\ CallbacksRaise /\ HasCheckpoint       \* save raises
              /\ StepTask(i, "failed")
              /\ results' = [results EXCEPT ![i] = result]
              /\ UNCHANGED <<row, payload>>

\* target.execute has produced x (its own answer or _target_error_result).
Executed(i, x) ==
  /\ answer' = [answer EXCEPT ![i] = x]
  /\ LET sent == Append(events[i], "ExecutionCompleted")
     IN  \/ /\ x.status = "completed"
            /\ Send(i, sent)
            /\ StepTask(i, "grading")
            /\ UNCHANGED <<permits, results, row, payload>>
         \/ /\ x.status # "completed"
            /\ Conclude(i, x, "none", sent)
         \/ /\ CallbacksRaise                          \* the sink raises
            /\ Send(i, sent)
            /\ StepTask(i, "failed")
            /\ permits' = permits + 1
            /\ UNCHANGED <<results, row, payload>>

\* Mutant: the semaphore is not released when the coroutine is left.
EscapeLeaks(i, phase) ==
  /\ StepTask(i, phase)
  /\ UNCHANGED <<permits, answer, events, results, row, payload>>

\* An exception leaves the coroutine: nothing is recorded for the slot.
Escape(i, phase) ==
  /\ StepTask(i, phase)
  /\ permits' = permits + 1
  /\ UNCHANGED <<answer, events, results, row, payload>>

TargetReturns(i) ==
  /\ task[i] = "executing"
  /\ \E x \in TargetAnswers : Executed(i, x)
  /\ UNCHANGED <<run, log, aborting, cancelled, completed, summary>>

\* Building the error message compiles the redaction patterns.
TargetRaises(i) ==
  /\ task[i] = "executing"
  /\ \/ PolicyCompiles /\ \E s \in {"timeout", "error"} : Executed(i, RaisedExecution(s))
     \/ ~PolicyCompiles /\ Escape(i, "failed")
  /\ UNCHANGED <<run, log, aborting, cancelled, completed, summary>>

\* grader.grade has produced g.
Graded(i, g) ==
  /\ UNCHANGED answer
  /\ LET sent == Append(events[i], "GradeCompleted")
     IN  \/ Conclude(i, answer[i], g, sent)
         \/ /\ CallbacksRaise                          \* the sink raises
            /\ Send(i, sent)
            /\ StepTask(i, "failed")
            /\ permits' = permits + 1
            /\ UNCHANGED <<results, row, payload>>

GraderReturns(i) ==
  /\ task[i] = "grading"
  /\ \E g \in Verdicts : Graded(i, g)
  /\ UNCHANGED <<run, log, aborting, cancelled, completed, summary>>

\* Mutant: the error path skips GradeCompleted.
GraderRaisesSilently(i) ==
  /\ task[i] = "grading"
  /\ UNCHANGED answer
  /\ Conclude(i, answer[i], "error", events[i])
  /\ UNCHANGED <<run, log, aborting, cancelled, completed, summary>>

GraderRaises(i) ==
  /\ task[i] = "grading"
  /\ \/ PolicyCompiles /\ Graded(i, "error")
     \/ ~PolicyCompiles /\ Escape(i, "failed")
  /\ UNCHANGED <<run, log, aborting, cancelled, completed, summary>>

\* CancelledError is a BaseException: nothing in the coroutine catches it.  The
\* group delivers one when it aborts (which the component may also swallow: the
\* actions above stay enabled); a component may raise one of its own.
CancelledErrorEscapes(i) ==
  /\ task[i] \in Holding
  /\ aborting \/ ComponentsCancel
  /\ Escape(i, "cancelled")
  /\ UNCHANGED <<run, log, aborting, cancelled, completed, summary>>

CancelWaiting(i) ==
  /\ aborting
  /\ task[i] = "waiting"
  /\ StepTask(i, "cancelled")
  /\ UNCHANGED <<run, log, permits, answer, events, results, aborting,
                 cancelled, completed, row, payload, summary>>

Step(i) ==
  \/ ReplayCompleted(i)
  \/ StartAttempt(i)
  \/ StartFails(i)
  \/ TargetReturns(i)
  \/ TargetRaises(i)
  \/ GraderReturns(i)
  \/ GraderRaises(i)
  \/ CancelledErrorEscapes(i)
  \/ CancelWaiting(i)

\* run() has returned or raised, and nothing of it is left.
Finished == run \in Ended /\ UNCHANGED vars

Main ==
  \/ RejectManifest
  \/ Start
  \/ Resolve
  \/ Prepare
  \/ PrepareFails
  \/ GroupAborts
  \/ GroupFails
  \/ GroupCompletes

Next == Main \/ CancelRun \/ Finished \/ \E i \in Slots : Step(i)

\* The event loop runs every ready coroutine, and targets and graders answer.
\* Nobody has to cancel.
Fairness == WF_vars(Main) /\ \A i \in Slots : WF_vars(Step(i))

Spec == Init /\ [][Next]_vars
FairSpec == Spec /\ Fairness
-----------------------------------------------------------------------------
(* Properties *)

\* Every variable has its type.
TypeOK ==
  /\ run \in {"new", "resolving", "preparing", "running"} \cup Ended
  /\ log \in Seq({"RunStarted", "DatasetResolved", "RunCompleted", "RunFailed"})
  /\ task \in [Slots -> {"unplanned", "waiting"} \cup Holding \cup Terminal]
  /\ permits \in 0..Concurrency
  /\ answer \in [Slots -> Execution \cup {NoExecution}]
  /\ events \in [Slots -> Seq({"SampleStarted", "ExecutionCompleted",
                               "GradeCompleted", "SampleCompleted"})]
  /\ results \in [Slots -> SampleResult \cup {NoResult}]
  /\ aborting \in BOOLEAN
  /\ cancelled \in BOOLEAN
  /\ completed \subseteq Slots
  /\ row \in [Slots -> {"absent", "pending", "running", "completed"}]
  /\ payload \in [Slots -> SampleResult \cup {NoResult}]
  /\ summary \in [Buckets -> Nat]

\* manifest.concurrency: never more attempts between the target call and the
\* stored result than the semaphore allows, whatever fails or is cancelled.
ConcurrencyBound == Cardinality(InFlight) <= Concurrency

\* "Nothing is left running unsupervised in the background": once run() has
\* ended, every attempt's coroutine has ended too (or was never created).
NoOrphans ==
  run \in Ended =>
    \/ \A i \in Slots : task[i] \in Terminal
    \/ \A i \in Slots : task[i] = "unplanned"

Fresh(i) == i \notin completed /\ results[i] # NoResult

\* A stored result agrees with what the target and the grader said: the spill
\* changes neither the status nor a diagnosis the target made, a verdict is
\* there exactly for a completed execution, an output that disappeared left
\* either a reference or a failure record, never both and never neither, and
\* without a reference only an output too big to keep disappears.
ResultIsTruthful ==
  \A i \in Slots : Fresh(i) =>
    LET x == results[i].execution
    IN  /\ x.status = answer[i].status
        /\ answer[i].error = "target" => x.error = "target"
        /\ (x.status = "completed") <=> (results[i].grade # "none")
        /\ answer[i].output # "none" /\ x.output = "none" =>
             /\ ("output_ref" \in x.artifacts) # ("output_spill_error" \in x.artifacts)
             /\ "output_ref" \in x.artifacts \/ answer[i].output \in RawTooBig

\* The events of an attempt tell the same story as its slot: a result exists
\* only after SampleCompleted, GradeCompleted is there exactly when there is a
\* grade, and a replayed attempt sends no event at all.
EventsMatchSlots ==
  \A i \in Slots :
    /\ Fresh(i) =>
         events[i] = IF results[i].grade = "none"
                     THEN <<"SampleStarted", "ExecutionCompleted", "SampleCompleted">>
                     ELSE <<"SampleStarted", "ExecutionCompleted",
                            "GradeCompleted", "SampleCompleted">>
    /\ i \in completed => events[i] = <<>>

\* A run that returns has a result for every slot of the plan (when no
\* component raises CancelledError of its own accord).
ReturnedRunCoversPlan ==
  run = "returned" /\ ~ComponentsCancel => \A i \in Slots : results[i] # NoResult

\* The intent is durable before the effect: an attempt whose target was called
\* has a row that says running, or completed, whatever happened since.
IntentBeforeEffect ==
  HasCheckpoint =>
    \A i \in Slots :
      task[i] \in Holding \/ answer[i] # NoExecution => row[i] \in {"running", "completed"}

\* A run that returns has checkpointed every result it returns, up to redaction.
ReturnedRunIsDurable ==
  run = "returned" /\ HasCheckpoint =>
    \A i \in Slots : results[i] # NoResult =>
      row[i] = "completed" /\ payload[i] = AtRest(results[i])

\* "Completed attempts are immutable" (checkpoints.py).
CompletedRowsImmutable ==
  [][\A i \in Slots : row[i] = "completed" =>
       row'[i] = "completed" /\ payload'[i] = payload[i]]_vars

\* Whatever fails, run() ends; and a cancelled one ends by raising, even when
\* every attempt has its result by then.
RunEnds == <>(run \in Ended) /\ (cancelled ~> run = "raised")

(***************************************************************************)
(* What the documents say and this model refutes (README, section 6).      *)
(***************************************************************************)
Sent == {log[k] : k \in DOMAIN log}

\* runner.py:256: RunCompleted "is never sent together with RunFailed".
NeverBothTerminalEvents == ~({"RunCompleted", "RunFailed"} \subseteq Sent)

\* run() docstring: when anything goes wrong after RunStarted inside the try
\* block, "exactly one RunFailed event is sent".
FailureIsAnnounced == run = "raised" /\ ~CallbacksRaise => "RunFailed" \in Sent

\* ADR-0020: only Exception is caught at the component boundaries, "so
\* CancelledError still tears the run down".
CancelledErrorTearsDown ==
  run = "returned" => \A i \in Slots : task[i] # "cancelled"
=============================================================================
