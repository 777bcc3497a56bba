--------------------------- MODULE ExperimentRun ---------------------------
(***************************************************************************)
(* A saved experiment (cli/experiments.py, experiment.py): its run         *)
(* directory, and the `experiments run` and `experiments resume` processes *)
(* that use it.  A process may be killed between any two of its steps; the *)
(* files it reads may be edited while it runs.                             *)
(*                                                                         *)
(* A native arm is the one attempt of AttemptLedger that matters to the    *)
(* experiment; RunCheckpoint has the details.  Its checkpoint knows the    *)
(* data it was begun with (manifest, components, dataset), not the bytes   *)
(* of the target and of EvalKit.  A HELM arm is one child process.         *)
(***************************************************************************)
EXTENDS PythonNone, Naturals

CONSTANTS
  Processes,   \* the invocations
  ArmCount,
  HelmArms,    \* the arms that run HELM; the others are native
  Data, Code,  \* versions of what the experiment reads
  MaxEdits     \* bound on the edits of the input files

ASSUME ExperimentAssumption ==
  /\ ArmCount \in Nat /\ MaxEdits \in Nat
  /\ HelmArms \subseteq 1..ArmCount
  /\ None \notin [data : Data, code : Code]

Arms == 1..ArmCount
Inputs == [data : Data, code : Code]
ArmStatus == {"pending", "running", "completed", "failed", "interrupted"}

VARIABLES
  files,     \* the input files as they are on disk
  edits,
  identity,  \* state.json: input_digest, None when there is no state.json
  status,    \* state.json: arms
  litter,    \* a temporary file of atomic_json that was never renamed
  report,    \* each arm's report: "none", "good", or "altered" after the fact
  ledger,    \* each native arm's checkpoint row
  begunWith, \* the data each native arm's checkpoint was begun with
  usedBy,    \* the inputs each arm's target last ran on
  calls,     \* how often each arm's target or HELM was started
  optIns,    \* how often a started one was cleared for a replay
  cutOff,    \* how often a HELM arm was killed or cancelled before it ended
  pc, at,    \* where each process is, and at which arm
  options,   \* resume and retry_interrupted
  measured,  \* the identity each process computed when it started
  verified   \* the arms whose report each process checked or wrote itself

vars == <<files, edits, identity, status, litter, report, ledger, begunWith, usedBy,
          calls, optIns, cutOff, pc, at, options, measured, verified>>

directory == <<identity, status, litter>>
work == <<report, ledger, begunWith, usedBy, calls, optIns, cutOff>>
input == <<files, edits>>
process == <<options, measured>>

Holding == {"locked", "arm", "checking", "starting", "intended", "called", "helm",
            "executed", "reported"}
Ended == {"locked out", "use resume", "refused", "failed", "killed", "done"}
Options == {o \in [resume : BOOLEAN, retry : BOOLEAN] : o.retry => o.resume}
InTry == {"checking", "starting", "intended", "called", "helm", "executed", "reported"}

Init ==
  /\ files \in Inputs /\ edits = 0
  /\ identity = None
  /\ status = [i \in Arms |-> "pending"]
  /\ litter = FALSE
  /\ report = [i \in Arms |-> "none"]
  /\ ledger = [i \in Arms |-> "fresh"]
  /\ begunWith = [i \in Arms |-> None]
  /\ usedBy = [i \in Arms |-> None]
  /\ calls = [i \in Arms |-> 0]
  /\ optIns = [i \in Arms |-> 0]
  /\ cutOff = [i \in Arms |-> 0]
  /\ pc = [p \in Processes |-> "new"]
  /\ at = [p \in Processes |-> 1]
  /\ options \in [Processes -> Options]
  /\ measured = [p \in Processes |-> None]
  /\ verified = [p \in Processes |-> {}]

Goto(p, phase) == pc' = [pc EXCEPT ![p] = phase]
Owner(p) == pc[p] \in Holding

(***************************************************************************)
(* The world: somebody edits an input file, or a report of a finished arm. *)
(***************************************************************************)
Edit ==
  /\ edits < MaxEdits
  /\ edits' = edits + 1
  /\ files' \in Inputs \ {files}
  /\ UNCHANGED <<directory, work, pc, at, process, verified>>

Alter(i) ==
  /\ edits < MaxEdits
  /\ edits' = edits + 1
  /\ report[i] = "good"
  /\ report' = [report EXCEPT ![i] = "altered"]
  /\ UNCHANGED <<files, directory, ledger, begunWith, usedBy, calls, optIns, cutOff,
                 pc, at, process, verified>>

(***************************************************************************)
(* _execute up to its loop.                                                *)
(***************************************************************************)
\* Before the lock is asked for: a resume reads where the configuration is
\* from state.json, and _input_identity is computed.
Measure(p) ==
  /\ pc[p] = "new"
  /\ measured' = [measured EXCEPT ![p] = files]
  /\ Goto(p, IF options[p].resume /\ identity = None THEN "refused" ELSE "measured")
  /\ UNCHANGED <<input, directory, work, at, options, verified>>

Lock(p) ==
  /\ pc[p] = "measured"
  /\ Goto(p, IF \E q \in Processes : Owner(q) THEN "locked out" ELSE "locked")
  /\ UNCHANGED <<input, directory, work, at, process, verified>>

\* A resume needs a state of the same inputs, a fresh run an empty directory.
MayOpen(p) ==
  IF options[p].resume THEN identity = measured[p]
  ELSE identity = None /\ ~litter

OpenRefused(p) ==
  /\ pc[p] = "locked"
  /\ ~MayOpen(p)
  /\ Goto(p, IF options[p].resume THEN "refused" ELSE "use resume")
  /\ UNCHANGED <<input, directory, work, at, process, verified>>

Open(p) ==
  /\ pc[p] = "locked"
  /\ MayOpen(p)
  /\ identity' = measured[p]
  /\ Goto(p, "arm")
  /\ UNCHANGED <<input, status, litter, work, at, process, verified>>

(***************************************************************************)
(* The loop over the arms.                                                 *)
(***************************************************************************)
Arm(p) == pc[p] = "arm" /\ at[p] <= ArmCount

Next1(p) == at' = [at EXCEPT ![p] = @ + 1]

\* Mutant: a completed arm is passed over without a look at its report.
SkipBlindly(p) ==
  /\ Arm(p) /\ status[at[p]] = "completed"
  /\ Next1(p)
  /\ UNCHANGED <<input, directory, work, pc, process, verified>>

\* _verify_saved_report.
Skip(p) ==
  /\ Arm(p) /\ status[at[p]] = "completed"
  /\ report[at[p]] = "good"
  /\ Next1(p)
  /\ verified' = [verified EXCEPT ![p] = @ \union {at[p]}]
  /\ UNCHANGED <<input, directory, work, pc, process>>

SkipRefused(p) ==
  /\ Arm(p) /\ status[at[p]] = "completed"
  /\ report[at[p]] # "good"
  /\ Goto(p, "refused")
  /\ UNCHANGED <<input, directory, work, at, process, verified>>

\* Mutant: only the status the process itself writes on a cancellation counts;
\* "running", which a killed process leaves behind, does not.
NeedsOptInIfCancelled(i) == i \in HelmArms /\ status[i] = "interrupted"

NeedsOptIn(i) == i \in HelmArms /\ status[i] \in {"running", "interrupted"}

\* Mutant: --retry-interrupted is not passed on to HELM arms.
HelmRefusedAnyway(p) ==
  /\ Arm(p) /\ NeedsOptIn(at[p])
  /\ Goto(p, "refused")
  /\ UNCHANGED <<input, directory, work, at, process, verified>>

HelmRefused(p) ==
  /\ Arm(p) /\ NeedsOptIn(at[p]) /\ ~options[p].retry
  /\ Goto(p, "refused")
  /\ UNCHANGED <<input, directory, work, at, process, verified>>

BeginArm(p) ==
  /\ Arm(p) /\ status[at[p]] # "completed"
  /\ ~(NeedsOptIn(at[p]) /\ ~options[p].retry)
  /\ status' = [status EXCEPT ![at[p]] = "running"]
  /\ optIns' = IF NeedsOptIn(at[p]) THEN [optIns EXCEPT ![at[p]] = @ + 1] ELSE optIns
  /\ Goto(p, "checking")
  /\ UNCHANGED <<input, identity, litter, report, ledger, begunWith, usedBy, calls, cutOff,
                 at, process, verified>>

\* The inputs are what they were when the process started.
Check(p) ==
  /\ pc[p] = "checking"
  /\ files = measured[p]
  /\ Goto(p, IF at[p] \in HelmArms THEN "helm" ELSE "starting")
  /\ UNCHANGED <<input, directory, ledger, begunWith, report, optIns, cutOff, at, process, verified>>
  /\ IF at[p] \in HelmArms
     THEN /\ calls' = [calls EXCEPT ![at[p]] = @ + 1]
          /\ usedBy' = [usedBy EXCEPT ![at[p]] = files]
     ELSE UNCHANGED <<calls, usedBy>>

\* RunCheckpoint.begin and start: the data the checkpoint was begun with, and
\* an interrupted row only with --retry-interrupted.
CheckpointAccepts(p, i) ==
  /\ begunWith[i] \in {None, files.data}
  /\ ledger[i] = "inDoubt" => options[p].retry

StartNative(p) ==
  /\ pc[p] = "starting"
  /\ CheckpointAccepts(p, at[p])
  /\ begunWith' = [begunWith EXCEPT ![at[p]] = files.data]
  /\ ledger' = IF ledger[at[p]] = "recorded" THEN ledger
               ELSE [ledger EXCEPT ![at[p]] = "inDoubt"]
  /\ optIns' = IF ledger[at[p]] = "inDoubt" /\ options[p].retry
             THEN [optIns EXCEPT ![at[p]] = @ + 1] ELSE optIns
  /\ Goto(p, IF ledger[at[p]] = "recorded" THEN "executed" ELSE "intended")
  /\ UNCHANGED <<input, directory, report, usedBy, calls, cutOff, at, process, verified>>

CallNative(p) ==
  /\ pc[p] = "intended"
  /\ calls' = [calls EXCEPT ![at[p]] = @ + 1]
  /\ usedBy' = [usedBy EXCEPT ![at[p]] = files]
  /\ Goto(p, "called")
  /\ UNCHANGED <<input, directory, report, ledger, begunWith, optIns, cutOff, at, process, verified>>

RecordNative(p) ==
  /\ pc[p] = "called"
  /\ ledger' = [ledger EXCEPT ![at[p]] = "recorded"]
  /\ Goto(p, "executed")
  /\ UNCHANGED <<input, directory, report, begunWith, usedBy, calls, optIns, cutOff,
                 at, process, verified>>

\* write_canonical_report; HELM's evidence and helm-result.json.
WriteReport(p) ==
  /\ pc[p] \in {"executed", "helm"}
  /\ report' = [report EXCEPT ![at[p]] = "good"]
  /\ Goto(p, "reported")
  /\ UNCHANGED <<input, directory, ledger, begunWith, usedBy, calls, optIns, cutOff,
                 at, process, verified>>

\* Mutant: the inputs are not measured again.
StillMeasuredUnchecked(p) == TRUE

StillMeasured(p) == files = measured[p]

Complete(p) ==
  /\ pc[p] = "reported"
  /\ StillMeasured(p)
  /\ status' = [status EXCEPT ![at[p]] = "completed"]
  /\ verified' = [verified EXCEPT ![p] = @ \union {at[p]}]
  /\ Next1(p)
  /\ Goto(p, "arm")
  /\ UNCHANGED <<input, identity, litter, work, process>>

Done(p) ==
  /\ pc[p] = "arm" /\ at[p] > ArmCount
  /\ Goto(p, "done")
  /\ UNCHANGED <<input, directory, work, at, process, verified>>

CutOff(p) ==
  cutOff' = IF pc[p] = "helm" THEN [cutOff EXCEPT ![at[p]] = @ + 1] ELSE cutOff

\* The except clause: an error of the target, the grader or HELM, changed
\* inputs, a refused checkpoint; or a cancellation.  HELM is stopped with it.
Fail(p) ==
  /\ pc[p] \in InTry
  /\ status' = [status EXCEPT ![at[p]] = "failed"]
  /\ Goto(p, "failed")
  /\ UNCHANGED <<input, identity, litter, work, at, process, verified>>

Cancel(p) ==
  /\ pc[p] \in InTry
  /\ status' = [status EXCEPT ![at[p]] = "interrupted"]
  /\ CutOff(p)
  /\ Goto(p, "failed")
  /\ UNCHANGED <<input, identity, litter, report, ledger, begunWith, usedBy, calls, optIns,
                 at, process, verified>>

\* Dead between two steps, perhaps inside atomic_json.
Kill(p) ==
  /\ Owner(p)
  /\ litter' \in {litter, TRUE}
  /\ CutOff(p)
  /\ Goto(p, "killed")
  /\ UNCHANGED <<input, identity, status, report, ledger, begunWith, usedBy, calls, optIns,
                 at, process, verified>>

Proceed(p) ==
  \/ Measure(p) \/ Lock(p) \/ OpenRefused(p) \/ Open(p)
  \/ Skip(p) \/ SkipRefused(p) \/ HelmRefused(p) \/ BeginArm(p)
  \/ Check(p) \/ StartNative(p) \/ CallNative(p) \/ RecordNative(p) \/ WriteReport(p)
  \/ Complete(p) \/ Done(p)

AllEnded == (\A p \in Processes : pc[p] \in Ended) /\ UNCHANGED vars

Next ==
  \/ AllEnded
  \/ Edit \/ \E i \in Arms : Alter(i)
  \/ \E p \in Processes : Proceed(p) \/ Fail(p) \/ Cancel(p) \/ Kill(p)

Spec == Init /\ [][Next]_vars

\* A process that was started gets the processor, and the target or HELM
\* answers or times out: one way or the other the arm's step ends.
Fairness == \A p \in Processes : WF_vars(pc[p] # "new" /\ (Proceed(p) \/ Fail(p)))

FairSpec == Spec /\ Fairness
-----------------------------------------------------------------------------
(* Properties *)

TypeOK ==
  /\ files \in Inputs /\ edits \in 0..MaxEdits
  /\ identity \in Inputs \cup {None}
  /\ status \in [Arms -> ArmStatus]
  /\ litter \in BOOLEAN
  /\ report \in [Arms -> {"none", "good", "altered"}]
  /\ ledger \in [Arms -> {"fresh", "inDoubt", "recorded"}]
  /\ begunWith \in [Arms -> Data \cup {None}]
  /\ usedBy \in [Arms -> Inputs \cup {None}]
  /\ calls \in [Arms -> Nat] /\ optIns \in [Arms -> Nat] /\ cutOff \in [Arms -> Nat]
  /\ pc \in [Processes -> {"new", "measured"} \cup Holding \cup Ended]
  /\ at \in [Processes -> 1..(ArmCount + 1)]
  /\ options \in [Processes -> Options]
  /\ measured \in [Processes -> Inputs \cup {None}]
  /\ verified \in [Processes -> SUBSET Arms]

Completed == {i \in Arms : status[i] = "completed"}

\* docs/guides/experiments.md: "`resume` verifies the input identity and
\* completed-report checksums before it does any work".  A process that works on
\* an arm looked at the report of every arm that is completed, whichever process
\* completed it and in whichever order arms failed and were resumed.
VerifiedBeforeWork ==
  \A p \in Processes : pc[p] \in InTry =>
    /\ measured[p] = identity
    /\ Completed \subseteq verified[p]

\* A HELM arm that was cut off, by a cancellation or with its whole process, is
\* not run again before an operator who has seen its log said so.
HelmReplayNeedsOptIn ==
  \A p \in Processes : pc[p] = "helm" => cutOff[at[p]] <= optIns[at[p]]

\* A native arm's target is called once, and once more for each opt-in, whether
\* it was the experiment, the arm or the target that failed before.
NativeReplayNeedsOptIn == \A i \in Arms \ HelmArms : calls[i] <= optIns[i] + 1

\* Neither kind of arm repeats a call that may have been made without being told to.
NoReplayWithoutOptIn == HelmReplayNeedsOptIn /\ NativeReplayNeedsOptIn

\* One edit, at whatever moment, cannot make a completed arm stand for inputs
\* that it did not run on: it takes an edit that is undone later.
OneEditIsNoticed ==
  edits <= 1 => \A i \in Completed : usedBy[i] = identity

\* An experiment is never a dead end while its files are what they were: with
\* the opt-in a resume gets through, unless an arm fails or it is stopped.
ResumeCompletes ==
  \A p \in Processes :
    (pc[p] = "locked" /\ options[p].retry /\ measured[p] = identity)
    ~> \/ pc[p] \in {"done", "failed", "killed"}
       \/ \E i \in Arms : report[i] = "altered"

\* docs/guides/experiments.md: "If the config, declared evidence, dataset, target
\* source, or EvalKit source changes, start a new run directory": the recorded
\* result that a resume takes over instead of running the target again was made
\* from the inputs the resume measured.
ReplayedResultsAreOfTheseInputs ==
  [][\A p \in Processes : pc[p] = "starting" /\ pc'[p] = "executed" =>
       usedBy[at[p]] = measured[p]]_vars

\* cli/experiments.py: a run refused with "run directory exists; use experiments
\* resume" has a state to resume.
RefusedRunCanBeResumed == (\E p \in Processes : pc[p] = "use resume") => identity # None
===========================================================================
