--------------------------- MODULE RunCheckpoint ---------------------------
(***************************************************************************)
(* A checkpoint directory (checkpoints.py) and the processes that use it,  *)
(* one after the other or at the same time: `run --checkpoint-dir` with or *)
(* without --resume and --retry-interrupted, each opening RunCheckpoint    *)
(* and handing it to EvalRunner.run.  A process may be killed between any  *)
(* two of its steps; SQLite keeps what was committed, the operating system *)
(* drops the lock.                                                         *)
(*                                                                         *)
(* A process is one invocation: it starts once.  Its attempts run side by  *)
(* side as EvalRunner lets them; of EvalRunner only the calls it makes on  *)
(* the checkpoint and on the target are kept.                              *)
(***************************************************************************)
EXTENDS PythonNone, Naturals

CONSTANTS
  Processes,   \* the invocations
  Attempts,    \* (sample_id, attempt) pairs
  Inputs       \* digests of manifest, resolved dataset and prepared samples

ASSUME NoneAssumption == None \notin Processes /\ None \notin Inputs

VARIABLES
  pc,          \* where each process is
  options,     \* its flags, and the digest of its inputs
  owner,       \* the process that holds .checkpoint.lock
  exists,      \* checkpoint.sqlite3 is there
  runId,       \* metadata: run_id, named after the process that wrote it
  identity,    \* metadata: identity
  row,         \* attempts: status
  stored,      \* attempts: payload, named after the run and the inputs it is of
  executions,  \* attempts: executions
  work,        \* the owner's attempts, in its memory
  calls,       \* how often each attempt's target was called
  optIns       \* how often its interrupted row was cleared

vars == <<pc, options, owner, exists, runId, identity, row, stored, executions,
          work, calls, optIns>>

\* What is in the database, and what happened in the outside world.
database == <<exists, runId, identity, row, stored, executions>>
world == <<calls, optIns>>

Holding == {"locked", "creating", "opened", "running"}
Ended == {"locked out", "refused", "broken", "failed", "returned", "killed"}

Payload == [runId : Processes, inputs : Inputs]
Options == [resume : BOOLEAN, retry : BOOLEAN, inputs : Inputs]

Init ==
  /\ pc = [p \in Processes |-> "new"]
  /\ options \in [Processes -> Options]
  /\ owner = None
  /\ exists = FALSE
  /\ runId = None
  /\ identity = None
  /\ row = [a \in Attempts |-> "absent"]
  /\ stored = [a \in Attempts |-> None]
  /\ executions = [a \in Attempts |-> 0]
  /\ work = [a \in Attempts |-> "idle"]
  /\ calls = [a \in Attempts |-> 0]
  /\ optIns = [a \in Attempts |-> 0]

Goto(p, phase) == pc' = [pc EXCEPT ![p] = phase]

\* __exit__ closes the database and the lock file; what the process knew of its
\* attempts is gone with it.
Release(p, phase) ==
  /\ Goto(p, phase)
  /\ owner' = None
  /\ work' = [a \in Attempts |-> "idle"]

\* ProcessLock.__enter__: non-blocking.
Lock(p) ==
  /\ pc[p] = "new"
  /\ IF owner = None
     THEN owner' = p /\ Goto(p, "locked")
     ELSE UNCHANGED owner /\ Goto(p, "locked out")
  /\ UNCHANGED <<options, work, database, world>>

\* A fresh run refuses an existing file, a resumed one a missing file.
OpenRefused(p) ==
  /\ pc[p] = "locked"
  /\ exists # options[p].resume
  /\ Release(p, "refused")
  /\ UNCHANGED <<options, database, world>>

\* sqlite3.connect creates the file; the metadata come in a later transaction.
CreateFile(p) ==
  /\ pc[p] = "locked"
  /\ ~exists /\ ~options[p].resume
  /\ exists' = TRUE
  /\ Goto(p, "creating")
  /\ UNCHANGED <<options, owner, runId, identity, row, stored, executions, work, world>>

InsertMetadata(p) ==
  /\ pc[p] = "creating"
  /\ runId' = p
  /\ Goto(p, "opened")
  /\ UNCHANGED <<options, owner, exists, identity, row, stored, executions, work, world>>

\* Reading saved["run_id"] of a file whose metadata were never committed is a
\* KeyError.
OpenExisting(p) ==
  /\ pc[p] = "locked"
  /\ exists /\ options[p].resume
  /\ \/ runId # None /\ Goto(p, "opened") /\ UNCHANGED <<owner, work>>
     \/ runId = None /\ Release(p, "broken")
  /\ UNCHANGED <<options, database, world>>

\* Mutant: the inputs are not compared once there is nothing left to run.
AcceptsWhenNothingIsLeft(p) ==
  \/ \A a \in Attempts : row[a] = "completed"
  \/ /\ identity \in {None, options[p].inputs}
     /\ options[p].retry \/ \A a \in Attempts : row[a] # "running"

\* Mutant: interrupted attempts are retried without the opt-in.
AcceptsInterrupted(p) == identity \in {None, options[p].inputs}

\* Mutant: the opt-in does not reach begin.
AcceptsNoRetry(p) ==
  /\ identity \in {None, options[p].inputs}
  /\ \A a \in Attempts : row[a] # "running"

\* The checks of begin: the same inputs as every run before, and no interrupted
\* attempt unless its retry is allowed.
Accepts(p) ==
  /\ identity \in {None, options[p].inputs}
  /\ options[p].retry \/ \A a \in Attempts : row[a] # "running"

BeginRefused(p) ==
  /\ pc[p] = "opened"
  /\ ~Accepts(p)
  /\ Release(p, "refused")
  /\ UNCHANGED <<options, database, world>>

\* begin's transaction; EvalRunner then reads the completed rows and creates a
\* task for every attempt of its plan.
Begin(p) ==
  /\ pc[p] = "opened"
  /\ Accepts(p)
  /\ identity' = IF identity = None THEN options[p].inputs ELSE identity
  /\ row' = [a \in Attempts |-> IF row[a] = "running" THEN "pending" ELSE row[a]]
  /\ optIns' = [a \in Attempts |-> optIns[a] + (IF row[a] = "running" /\ options[p].retry
                                          THEN 1 ELSE 0)]
  /\ work' = [a \in Attempts |-> IF row[a] = "completed" THEN "replayed" ELSE "queued"]
  /\ Goto(p, "running")
  /\ UNCHANGED <<options, owner, exists, runId, stored, executions, calls>>

Work(p, a, before, after) ==
  /\ pc[p] = "running"
  /\ work[a] = before
  /\ work' = [work EXCEPT ![a] = after]

\* Mutant: the intent is not written before the target is called.
StartUnrecorded(p, a) ==
  /\ Work(p, a, "queued", "started")
  /\ UNCHANGED <<pc, options, owner, database, world>>

\* checkpoint.start; a completed row would be left as it is.
Start(p, a) ==
  /\ Work(p, a, "queued", "started")
  /\ IF row[a] = "completed"
     THEN UNCHANGED <<row, executions>>
     ELSE /\ row' = [row EXCEPT ![a] = "running"]
          /\ executions' = [executions EXCEPT ![a] = @ + 1]
  /\ UNCHANGED <<pc, options, owner, exists, runId, identity, stored, world>>

CallTarget(p, a) ==
  /\ Work(p, a, "started", "called")
  /\ calls' = [calls EXCEPT ![a] = @ + 1]
  /\ UNCHANGED <<pc, options, owner, database, optIns>>

\* checkpoint.save writes the result under the run_id read from the metadata.
Saved(p) == [runId |-> runId, inputs |-> options[p].inputs]

\* The row must still be running: rowcount is checked.
Save(p, a) ==
  /\ Work(p, a, "called", "saved")
  /\ row[a] = "running"
  /\ row' = [row EXCEPT ![a] = "completed"]
  /\ stored' = [stored EXCEPT ![a] = Saved(p)]
  /\ UNCHANGED <<pc, options, owner, exists, runId, identity, executions, world>>

\* An exception: a failing database, provider or sink, a cancelled run.  The
\* context manager closes the checkpoint.
Fail(p) ==
  /\ pc[p] \in Holding
  /\ Release(p, "failed")
  /\ UNCHANGED <<options, database, world>>

\* run() returns with a result for every attempt.
Return(p) ==
  /\ pc[p] = "running"
  /\ \A a \in Attempts : work[a] \in {"saved", "replayed"}
  /\ Release(p, "returned")
  /\ UNCHANGED <<options, database, world>>

Kill(p) ==
  /\ pc[p] \in Holding
  /\ Release(p, "killed")
  /\ UNCHANGED <<options, database, world>>

Proceed(p) ==
  \/ Lock(p)
  \/ OpenRefused(p)
  \/ CreateFile(p)
  \/ InsertMetadata(p)
  \/ OpenExisting(p)
  \/ BeginRefused(p)
  \/ Begin(p)
  \/ \E a \in Attempts : Start(p, a) \/ CallTarget(p, a) \/ Save(p, a)
  \/ Return(p)

Step(p) == Proceed(p) \/ Fail(p) \/ Kill(p)

AllEnded == (\A p \in Processes : pc[p] \in Ended) /\ UNCHANGED vars

Next == AllEnded \/ \E p \in Processes : Step(p)

Spec == Init /\ [][Next]_vars

\* A process that was started gets the processor, and its targets answer.
\* Nobody has to start one, and nothing has to fail.
Fairness == \A p \in Processes : WF_vars(pc[p] # "new" /\ Proceed(p))

FairSpec == Spec /\ Fairness
-----------------------------------------------------------------------------
(* Properties *)

TypeOK ==
  /\ pc \in [Processes -> {"new"} \cup Holding \cup Ended]
  /\ options \in [Processes -> Options]
  /\ owner \in Processes \cup {None}
  /\ exists \in BOOLEAN
  /\ runId \in Processes \cup {None}
  /\ identity \in Inputs \cup {None}
  /\ row \in [Attempts -> {"absent", "pending", "running", "completed"}]
  /\ stored \in [Attempts -> Payload \cup {None}]
  /\ executions \in [Attempts -> Nat]
  /\ work \in [Attempts -> {"idle", "queued", "started", "called", "saved", "replayed"}]
  /\ calls \in [Attempts -> Nat]
  /\ optIns \in [Attempts -> Nat]

\* A checkpoint directory has a single writer, and no way out of a process,
\* killed or refused or failed, leaves the directory locked behind it.
OneWriter == \A p \in Processes : pc[p] \in Holding <=> owner = p

\* "Interrupted attempts are never replayed without explicit opt-in": a target
\* is called once, and once more for every time an operator allowed it.
NoReplayWithoutOptIn == \A a \in Attempts : calls[a] <= optIns[a] + 1

\* The executions column never counts fewer calls than were made.
CallsAreCounted == \A a \in Attempts : calls[a] <= executions[a]

\* One directory holds one evaluation: every stored result was produced from
\* the recorded inputs, under the recorded run_id, whichever process wrote it.
OneEvaluation ==
  \A a \in Attempts : row[a] = "completed" =>
    stored[a] = [runId |-> runId, inputs |-> identity]

\* What a process returns is all of its own inputs, the replayed results too.
ReturnsOwnInputs ==
  \A p \in Processes : pc[p] = "running" =>
    \A a \in Attempts : work[a] \in {"saved", "replayed"} =>
      row[a] = "completed" /\ stored[a].inputs = options[p].inputs

\* "Completed attempts are immutable", across processes and crashes; and none
\* of them is executed again.
CompletedIsFinal ==
  [][\A a \in Attempts : row[a] = "completed" =>
       row'[a] = "completed" /\ stored'[a] = stored[a] /\ calls'[a] = calls[a]]_vars

\* A checkpoint that was opened once is never a dead end: whatever state crashes
\* left it in, a process that resumes it with the opt-in and the same inputs is
\* neither refused nor stuck, and returns unless it fails or is killed itself.
ResumeCompletes ==
  \A p \in Processes :
    (/\ pc[p] = "locked"
     /\ options[p].resume /\ options[p].retry
     /\ runId # None /\ identity \in {None, options[p].inputs})
    ~> pc[p] \in {"returned", "failed", "killed"}

(***************************************************************************)
(* What the documents say and this model refutes (README, section 6).      *)
(***************************************************************************)
\* checkpoints.py:100: "checkpoint exists; use resume or a new run directory".
ExistingCheckpointCanBeResumed == \A p \in Processes : pc[p] # "broken"
=============================================================================
