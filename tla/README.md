# TLA+ models of agentic-evalkit

Specifications, model-checking configurations and machine-checked proofs kept
beside the Python package in `src/agentic_evalkit/`. The package runs evaluation
suites against a model or an agent ("target"), grades the answers, and records
everything well enough to be resumed, compared and trusted later. Most of its code
is conversion and rendering; what this development models is the rest: the part
where several coroutines, threads, processes or invocations share state, where a
process may be killed between two writes, where a grade may or may not be allowed
to decide a release, and where the same numbers are computed twice.

Paths below are relative to `src/agentic_evalkit/` unless they start with `docs/`
or `tests/`.

## 1. Inventory

### Modelled

| Component | State it keeps | Operations | What is hard |
|---|---|---|---|
| **Runner** (`runner.py`, `events.py`) | phase of `run()`, the task group's children, the semaphore, the list of result slots, the event sequence, the summary | `run`, `_run_one`, spill, the three isolated boundaries, `_emit_run_failed` | attempts interleave at every await; each of target, grader, store, sink and checkpoint may raise; the caller or a component may cancel |
| **Checkpoint** (`checkpoints.py`) | a lock file, an SQLite file (metadata, identity, one row per attempt) | `ProcessLock`, `RunCheckpoint.__enter__/begin/start/save/__exit__` | processes killed between any two commits; concurrent invocations; the choice between replaying and refusing |
| **Process targets** (`targets/subprocess.py`, `mcp.py`) | a child, perhaps a helper of the child, three pipes, a background reader of stderr, a timer | `execute` of both, `_terminate` | both sides may wait for the other; a child may end, or leave something behind, at any point; the timer and the cancellation arrive at any await |
| **In-process and HTTP targets** (`targets/callable.py`, `http.py`, `claude_agent.py`) | a thread pool's queue, replies under way, a timer | `execute` of each, with retries and streams | work goes on where nobody waits for it any more; a retry repeats work |
| **Judge grading** (`graders/judge.py`, `calibration.py`, `measure.py`) | the confusion counts of a measurement, a calibration artifact with dates and a fingerprint, per grade call the retries and the probe | `measure_judge_calibration`, `judge_authority`, `JudgeGrader.grade` | the judge is a live service that may change between two calls, time passes during a call, thresholds meet at exact fractions |
| **Objective and composite graders** (`graders/exact.py`, `composite.py`, `grounding.py`, `harness.py`, `benchmarks/swebench_docker.py`) | none: functions of an execution | `grade` of each, `_composite_status`, the classification of harness replies | precedence of hard gates, errors and missing verdicts over a weighted mean; a judge among the components |
| **Dataset catalog** (`datasets/catalog.py`, `cache.py`, `resolution_cache.py`, `_cache_io.py`, `_cache_storage.py`) | `resolutions/`, and per page `payload.bin` and `manifest.json`; a lock per key and process | `resolve`, `preview`, `iter_records`, offline or not | lock-free readers, locks that only one process knows, two files per entry, an upstream that moves between two requests |
| **Experiments** (`cli/experiments.py`, `experiment.py`, `helm.py`) | `state.json`, reports with checksums, one checkpoint per native arm, the files the experiment reads | `run`, `resume`, the loop over arms, HELM as a child process | kills, cancellations and edits at any moment; what a resume may skip or repeat |
| **Run command and artifact store** (`cli/runs.py`, `artifacts.py`) | one artifact directory per invocation, one report per run id, the exit code | `run` with `--resume`, `put_bytes` | references cross from one invocation's directory to another's report; disks refuse, processes are killed |
| **Statistics** (`stats/`, `_summarize` of `runner.py`) | none: functions of a run, or of two | `aggregate_run`, pass@k, intervals, `compare_runs`, `summarize_study`, `compare_studies` | the same attempts counted by two rules; pairs, clusters and labels that are incomplete |
| **Redaction and host platforms** (`reporters/base.py`, `integrations/mlflow.py`, `langfuse.py`) | what is on the server of each export; the wrapped judge | `apply_redaction`, `log_eval_run`, `compare_mlflow_runs`, `calibration_gate`, `score_with_calibration_gate` | an export is several calls; what was redacted is compared; a wrapped judge outlives its evidence |

How they interact. `cli/runs.py` and `cli/experiments.py` open a `RunCheckpoint`
and hand it to `EvalRunner.run`, which calls `begin` once, then `start` and `save`
around every attempt, synchronously, inside the coroutine. The runner awaits
targets and graders (a judge among them, mostly inside a composite), calls the
artifact store and the event sink without awaiting. Process targets start one
child per attempt. The catalog is called before a run, to resolve and to read
rows. An experiment runs native arms through runner and checkpoint, one after the
other, each in its own directory, under the experiment's own process lock. A run
that is over is reported, redacted, exported and compared.

The abstract side of each interface is what connects the modules. `EvalRunner`
keeps of a checkpoint one row per slot (status and payload) and of a target the
answers `ProcessTarget` and `RemoteTarget` can give; `RunCheckpoint` keeps of the
runner only the calls it makes; `RunCommand` keeps of both the table of results
they fill; `ExperimentRun` keeps of a native arm the row statuses of
`AttemptLedger`; `CompositeJudging` puts the state machine of `JudgeGrading` into
the rules of `GradeRules`; `ExportedRuns` gives the two runs of `RunReport` to the
export of `HostExports`; `HostGate` wraps the judge whose evidence grows in
`CalibrationHistory`.

What makes each of them correct:

- Runner: no failure of a component costs more than its own attempt; whatever
  does escape ends the whole group, with nothing left running; what is recorded,
  announced and counted is what happened; the intent is on disk before the target
  is called.
- Checkpoint: one writer; an attempt in doubt is never repeated without the
  operator's flag, through any number of crashes; a recorded result is final and
  belongs to the recorded inputs; no directory is a dead end.
- Targets: an attempt with a timeout ends; a tool call that was made is reported
  although the exchange failed; what EvalKit started it ends; a request is
  repeated only when the reply says so.
- Judge: a verdict gates only on a calibration of the very judge that answered,
  in date, measured above the floors; a judge proven bad gives no verdict; trouble
  of the judge is never held against the system under test, alone or in a
  composite; a value on a host platform that counts was allowed to.
- Catalog: an offline command is served only what was published whole under its
  revision; a pin keeps its meaning; a damaged entry is neither trusted nor
  silently fetched again; no lock outlives its writer.
- Experiments: no work before the inputs and all finished reports were verified;
  no second HELM run or target call without the flag; a completed arm stands for
  the inputs it ran on.
- Reports: a reference in a report resolves; exit code and warning say what is in
  it; every attempt counts once and as what it is; a comparison on a server of
  redacted runs is the comparison of the runs.

### Not modelled

| Component | Why |
|---|---|
| Benchmark adapters, `components.py` | pure projections of rows to samples; `EvalRunner` has their failures |
| Dataset providers beyond one request (`datasets/huggingface.py` paging, delays and retries, `local.py`) | `DatasetCatalog` has one page of one dataset. What a sequence of pages adds is one more push between two requests, which the single page already shows to be unguarded |
| Renderers (`reporters/json.py`, `markdown.py`, ...), manifest, provenance, models | conversion and validation without state |
| Floating-point arithmetic of intervals, `stats/power.py`, resource distributions | TLC has integers: which units enter an interval is modelled, the square root is not |
| The other commands (`cli/app.py`, `datasets.py`, `calibrate.py`, `doctor.py`, ...) | parsing and printing around one call of a component |
| Langfuse's `log_eval_run`, `as_mlflow_scorer` | score by score without state; the classification they use is `BucketOfGrade` |
| HELM outliving its process | nothing the code keeps can tell; listed as a hazard |
| `scripts/`, `examples/` | not part of the package |

`PROJECT.json` lists every component with its files and every hazard with its
line, those without a property included.

## 2. Modules

```
RunContract  <--implements-- EvalRunner --- EvalRunnerContract --- MCEvalRunner
                             EvalRunnerProofs
AttemptLedger <--implements- RunCheckpoint - RunCheckpointLedger - MCRunCheckpoint
                             RunCheckpointProofs
ChildProcess --- ProcessTarget --- MCProcessTarget
                              \--- TargetProofs
RemoteTarget ----------------/ --- MCRemoteTarget
RunCommand ----- MCRunCommand
          \----- RunCommandProofs
CalibrationEvidence --- CalibrationHistory --- HostGate --- MCHostGate
                    \-- JudgeGrading --- CompositeJudging --- MCCompositeJudging
                          GradeRules --/             \------ JudgeGradingProofs
DatasetCatalog --- MCDatasetCatalog
                   DatasetCatalogProofs
ExperimentRun ---- MCExperimentRun
                   ExperimentRunProofs
RunStatistics --- RunComparison --- RunReport ------\
                        \-- HostComparison ---------- ExportedRuns --- MCRunReport
                  Redaction --/      HostExports ---/      \
                                     HostGate ---------- ReportingProofs
```

`PythonNone` declares `None`, which most of these modules share, and a proof module
EXTENDS the modules it is about.

A comment that begins with "Mutant:" marks an operator that no specification
uses. It is a plausible bug in the definition below it; put in that definition's
place, it makes the property named in `PROJECT.json` fail. The mutants show that
each property depends on the code it is about.

### EvalRunner

One call of `EvalRunner.run`. A coroutine runs alone between two awaits, so an
action is everything from one await to the next. Slot `i` is the `i`-th pair of
the attempt plan.

| Variable | Code |
|---|---|
| `run`, `log` | where `run()` is; the run-level events given to the sink |
| `task[i]`, `permits` | where `_run_one` is; the semaphore's counter |
| `answer[i]`, `events[i]`, `results[i]` | the execution returned by the target, the events sent for the slot, `results[index]` |
| `aborting`, `cancelled` | the group has cancelled its children; the awaiting task was cancelled |
| `completed`, `row[i]`, `payload[i]` | the checkpoint as `run()` sees it |
| `summary` | the `RunSummary` counters |

`StartAttempt` is acquiring the semaphore through the call of the target, with
`checkpoint.start` in between; `TargetReturns`/`TargetRaises` run on through the
boundary to the grader's await, or to the end of the slot when the execution did
not complete; `GraderReturns`/`GraderRaises` run through the spill, the slot, the
events and `checkpoint.save` to the release of the permit. A sink or checkpoint
that raises leaves the coroutine by `Escape`, which releases the permit and
aborts the group. `GroupAborts`, `GroupFails` and `GroupCompletes` are the exits
of the `async with asyncio.TaskGroup()` block. Outputs are abstracted to their
size against the spill threshold before and after redaction, which is what the
spill and its failure handler measure.

`RunContract` is what a caller may rely on: each slot is written once, a run
returns only with all of them, and an ended run stays ended.

### RunCheckpoint

The directory and the invocations that use it, at the same time or one after the
other. `Lock` is the non-blocking `flock`; `CreateFile` and `InsertMetadata` are
two actions, because `sqlite3.connect` creates the file before the transaction
that fills it; `Begin` is the identity check, the check of running rows, the
UPDATE of the opt-in and the INSERT of new rows in their one transaction; `Start`,
the call of the target and `Save` are three actions per attempt. Killing and
failing are possible wherever a process holds the lock. `calls` and `optIns` are
history: what really happened outside, as opposed to what the `executions` column
says.

`AttemptLedger` says what the directory means: per attempt fresh, in doubt,
cleared or recorded; an attempt is called only in doubt and at most once per
clearing, and a recorded one is never touched again.

### CalibrationEvidence, CalibrationHistory, JudgeGrading

`CalibrationEvidence` has the pure part: counting a labeled sample, the classes,
the point and Wilson floors in integer arithmetic (both sides multiplied out),
expiry and age, and the authority they add up to. `CalibrationHistory` lets
artifacts grow sample by sample and age day by day. `JudgeGrading` is the
measurement followed by grade calls: the advisory path, the judge asked up to
`MaxCalls` times while its answer does not parse, the status of its answer, the
comparison of fingerprints, the order-swapped probe, and the final status with or
without a hard gate. `Drift` changes the live judge and `Day` the date at any
moment; `grade` reads the clock once, the fingerprint again after its calls.

### DatasetCatalog

Commands ask for one page of one dataset, each with its own request (preview or
run, offline or not, pinned or latest). The content of a page is the version it
is of, and its checksum is that content, so a manifest that records another
version than the payload is one that does not verify. `PublishPayload` and
`PublishManifest` are the two replacements of `DatasetCache.write`; `FindEntry`,
`ReadManifest` and `ReadPayload` are the three looks of `DatasetCache.read`.
`ReadRefused` is the reader of a file that is closed to it while being replaced,
as on Windows, after its retries. `RowsServed` has no revision parameter because
the request in `huggingface.py` has none.

### ExperimentRun

`Measure` (the identity of all inputs) happens before `Lock`, as in the code.
The loop over arms follows: skip a completed arm after verifying its report,
refuse a HELM arm that was cut off, begin, check the inputs, run, report, check
again, complete. A native arm is one attempt of its checkpoint, whose identity
covers the data but not the bytes of target and package (`begunWith`). `Edit`
changes an input file and `Alter` a finished report, at any moment. `PREPARED`
is treated like `completed`, as the loop does.

### ChildProcess, ProcessTarget

`ChildProcess` is what is at the other end of the pipes: a program that does
whatever a process can do (read, write either stream, close, start a helper, end)
and a helper that inherits stdout and stderr. A pipe holds `PipeSize` units and a
write waits for room. `ProcessTarget` is one `execute` of `SubprocessTarget`
(`jsonl`: write the request, then read one line, with stderr drained from then on)
or of `McpTarget` (`initialize`, its notification, `tools/call`, stderr drained
from the start). `stage` is the await the coroutine is at. `Timeout` and
`CancelExchange` arrive at any of them, the spawn included: the program is up from
`Launch` on, and a spawn that is interrupted kills it and waits for it (`Unspawned`),
but `execute` has no process yet whose tree it could end. `SpawnFails` is its `OSError`.

`_terminate` is a signal and then a wait of one second (`Waited`, `WaitExpires`). On
POSIX the signal is one step (`Kill`: the process group, then the leader). On Windows
it is an await of its own: `StartTaskkill` hands `taskkill` to a thread, `Taskkill` is what
becomes of it there (it ends the tree, some of it, or nothing: its failure and its
timeout are suppressed, and it runs on when nobody waits for it any more), and
`Taskkilled` is the `process.kill()` that follows, for the program alone. An
interruption of that await leaves `_terminate` before `process.kill()` (`Leave`).
`build` also says whether `process.wait()` waits for the pipes too, as it does up to
Python 3.11.

| Variable | Code |
|---|---|
| `stage`, `final` | the await `execute` is at; whether in the `finally` block |
| `asked`, `recorded` | the id it waits for; `tool_call_record` |
| `timed`, `expired` | the timer |
| `draining`, `closed` | the task that reads stderr; the transport |
| `verdict` | what `execute` is going to return or raise |
| `killers` | the taskkills under way, each of one of the two calls of `_terminate` |
| `signalled`, `spared` | history: `_terminate` killed the program; a taskkill was over and some of the tree was up |

### RemoteTarget

The attempts of one run side by side on a Python function (a thread of a pool, or
a coroutine), an HTTP endpoint or Claude. `queue`, `far` and `replies` are what is
under way elsewhere: a thread that cannot be interrupted, a request at a server, a
stream of messages. `Abandon` is what a timeout or cancellation takes back of it.
`Retry` is what `_send_with_retries` does with `busy` and `broken` replies.

### RunCommand

Invocations of `run` over one output and one checkpoint directory, of one
manifest. Of the runner and the checkpoint it has the table of results they
fill; of `ArtifactStore.put_bytes` the two writes, each of which may fail, and the
rule that nothing is written again when the payload is there. A result refers to
stored output by the directory it was stored in; `Lost` and `LostOutput` are what
the command tells of outputs that could not be stored. A command is in the phase
`opening` until it has the checkpoint's lock, `preparing` while the dataset is
resolved and read and the checkpoint begun, `running` while there are attempts,
then `reporting` and `printing`. In each of them it may be killed (`Kill`) or an
exception may end it (`Fails`), with the exit codes `FailureCodes` gives that phase:
an error of EvalKit's raised while preparing has the code of its type, damaged rows
are found before the first attempt (4), and an error out of an attempt, such as
SQLite's when `save` cannot write, comes in the `ExceptionGroup` of the task group
and ends in a traceback (1).

### GradeRules, CompositeJudging

`GradeRules` has the graders that decide by rule as functions of what they look at
in an execution, the classification of harness replies and reports, and
`CompositeStatus`. `CompositeJudging` composes it with `JudgeGrading`: whenever a
judge has graded, it is combined with any result the other component can have for
the execution, under the flags `build_grounded_citation_grader` sets.

### RunStatistics, RunComparison, RunReport

A row is an execution status, a grade status, a score and a label. `Summarize` is
the runner's count, `Recount` the report's; `PassAtK`, `ClusteredInterval` and
`WilsonInterval` name the units they are over; a bootstrap is the set of means it
can draw. `CompareRuns` pairs rows, `SummarizeStudy` and `CompareStudies` place
labels; a comparison that is refused is one value, `Refused`. `RunReport` lets two
runs grow attempt by attempt, so that every pair of partial runs is a state. Its
assumption says what a row may be: only a completed execution has a grade, and only a
grade has a score and a label.

### Redaction, HostComparison, HostExports, ExportedRuns

`Redaction` is `apply_redaction` over every field of a run that it sweeps, on single
texts that a policy matches or does not, with the references to stored outputs it puts
back after its sweep. The study label of a row is evidence of its grade: a policy that
drops `study` leaves the row without one, and a policy that matches one of its two
actions leaves it with one that is not valid. `HostComparison` has the comparability tables and the
two comparisons, local and on the server. `HostExports` is `log_eval_run` into a
named experiment as a sequence of calls. `ExportedRuns` composes the three with
`RunReport`: a run is exported once it is over, and what is on the server of it is
what was redacted. Two of the exports, `Sides`, are those of the two runs; any others
are exports of other runs beside them.

### HostGate

`calibration_gate` of MLflow and `score_with_calibration_gate` of Langfuse around a
judge whose labeled samples grow while it is wrapped. `Ask` reads the authority,
`Answer` publishes what the judge says under a name of that authority; days may
pass in between, and `entry.day` is the day it was asked.

## 3. Runs

Each run is one question; `PROJECT.json` names its properties.

| Run | Instance | What it shows |
|---|---|---|
| `runner_outcomes` | 3 attempts, 2 permits, five kinds of answer, checkpoint with rows of an earlier run, cancellable; sink and checkpoint may raise | results, events and spill records agree with what happened; implements `RunContract` |
| `runner_failures` | 3 attempts, 2 permits, a redaction pattern that does not compile; sink and checkpoint may raise, components may cancel themselves, cancellable | no orphans, intent before effect, a returned run is durable; the run always ends, a cancelled one by raising |
| `checkpoint_resume` | 3 invocations, 2 attempts, 2 inputs, every combination of flags | no replay without opt-in, own inputs only, implements `AttemptLedger`; a resume with the opt-in gets through |
| `process_target` | 1 exchange, 1 helper, pipes of one unit, requests of up to 2, five builds (both protocols on both systems, both kinds of `wait()`) | what is left running is what nobody could reach, calls are reported, a timeout and an ended child end the exchange |
| `remote_target` | 2 attempts, a pool of 1 thread, 2 retries, four kinds of target | nothing starts late, retries are earned, a timer ends every attempt that has one |
| `run_command` | 2 invocations, 2 attempts, 1 large output | references resolve, exit code and warning tell what the report holds, whichever step raises |
| `calibration_history` | the project's real floors, calibrations around each boundary, 1 more sample, 5 days, a wrapped judge of three fingerprints | 73 negatives are needed and enough; age never promotes; a value that counts on a host had live evidence when it was asked for |
| `judge_grading` | 1 sample, measurements of 2 labeled samples, 2 judges, 2 tries, 2 days, each other grader | gating is by the measured judge; a judge rescues nothing and its trouble fails nothing in a composite; every call ends |
| `experiment_resume` | 3 processes, a native and a HELM arm, 1 edit | verified before work, replays need opt-in, one edit is noticed; a resume over unchanged files gets through |
| `catalog_safety` | 3 commands, two of them threads of one process, 2 versions, 1 fault, Windows files | pins kept, entries whole, no silent refetch |
| `run_report` | 2 samples of 2 attempts, eight kinds of row, 2 exports, 19 cases of identities, policies and older exporters | two counts, estimates, study verdicts and pairing agree; a finished export is whole and compares as the runs do |
| `finding_untrusted_judge` | as `judge_grading` | the disagreement of section 6 |

The runs fire every action of every specification.

Why these bounds. Runner: with three attempts and two permits one can run, one
finish and one wait in every combination, which is where permits and aborts
matter; no action looks at more than one slot besides counting and the queue
order. A policy that does not compile is only in the second run and a component
that cancels itself too: both end attempts early, and the first run is about what
attempts that get far record. Checkpoint and experiments: what a third process
finds is what a second one left of a first one's remains, the deepest chain the
code distinguishes (fresh, resumed, resumed again), and two of the three may be
alive together. Invocations are interchangeable, so they are numbered by the order
they start in (`StartedInOrder`, a state constraint). It cuts off only steps that
start an invocation out of order, and fairness demands no start, so liveness under
it is sound. One native arm and one HELM arm are the two kinds there are. One edit
is the bound at which the documented promise holds (two edits break it, section 6).
Targets: a pipe of one unit is full after one write and empty after one read, which
are the two moments the exchange distinguishes; a request of two units does not fit;
two attempts on one thread make one wait for the other; of Claude's stream each kind
of message comes at most once. Commands: two invocations are one that leaves a
report and one that takes its rows over. Judge: the floors are scaled down so that
two labeled samples reach and miss them; the real ones are in
`calibration_history`. `MaxAge` is scaled to one day, or to two there. Catalog: one
page is enough because keys share nothing; a second version is what tells contents
apart, a third would be as different as the second; one fault already separates
payload from manifest, at either writer. Reports: two samples of two attempts are
the least with clusters that differ; `MaxExported` lets two runs of the same
attempts, at most one, be exported: of a row redaction only touches the label, which
`compare_runs` does not read (`RedactedRows` proves that for any rows), and all else
that varies on the way (identities, policies, tags of older exporters) varies by
case. `None`, `NoScore`, `Running`, `Absent` and `BadLabel` are model values.

Fairness. The event loop resumes every coroutine that is ready, and targets,
graders and judges answer or raise (each has a timeout, or is assumed to; see the
hazard on `claude_agent.py`): weak fairness of the run's own phases and of each
attempt in `EvalRunner`, of each call in `JudgeGrading` and `CompositeJudging`. A
process that was started keeps running until it ends: weak fairness of `Proceed`
for started processes in `RunCheckpoint`, of `Proceed` or `Fail` in `ExperimentRun`,
where the target or HELM may fail instead of answering. `ProcessTarget` asks
fairness of the event loop, of a timer that is set, of what the operating system
does with a signal and of a `taskkill` (which has five seconds), and nothing of the child; `RemoteTarget` of the runner that
starts an attempt and of a timer, and nothing of a thread or a server. Nothing
obliges anybody to start, cancel, kill, edit, push, drift or let a day pass.
Deadlock is checked everywhere but in `calibration_history`, whose days simply run
out, and `run_report`, whose runs are over and exported in the end.

## 4. Proofs

TLAPS checks these for every value of the constants that satisfies the named
assumptions; each theorem is stated in the module given.

| Module | Theorems | From |
|---|---|---|
| `EvalRunnerProofs` | `TypeCorrect`, `ConcurrencyBounded`, `NoOrphanTasks`, `CoversPlan`, `IntentIsDurable`, `CompletedStaysCompleted`, `EventsTellTheSlots`, `ResultsAreTruthful`, `ReturnedIsDurable`, `ImplementsContract` | any plan size, any positive concurrency, any sets of answers and verdicts, any setting of the flags; `ImplementsContract` for components that raise no `CancelledError` of their own, `ResultsAreTruthful` for targets that set no `output_ref` themselves |
| `RunCheckpointProofs` | `TypeCorrect`, `SingleWriter`, `ReplayNeedsOptIn`, `EveryCallIsCounted`, `DirectoryIsOneEvaluation`, `ResultsMatchInputs`, `CompletedStaysFinal`, `ImplementsLedger` | any sets of processes, attempts and inputs that do not contain `None` |
| `JudgeGradingProofs` | `TypeCorrect`, `GatingIsEarned`, `GatingJudgeWasMeasured`, `ProvenBadIsSilent`, `FailuresAreVerdicts` | any floors, lifetimes, sample sets and fingerprints |
| | `CompositesLeaveTheJudgeAlone`, `CheckDecides`, `CompositeFailuresAreVerdicts` | besides, any weights, bar and objective checks |
| `DatasetCatalogProofs` | `TypeCorrect`, `PinsAreKept`, `OfflineIsPublished`, `EntriesStayWhole`, `LocksEndWithWriters`, `PublishedStaysFound` | any commands and processes, versions and number of faults, `None` not a command or version |
| `ExperimentRunProofs` | `TypeCorrect`, `WorkIsVerified`, `HelmIsNotReplayed`, `NativeIsNotReplayed`, `ReplayNeedsOptIn`, `EditIsNoticed` | any number of invocations, arms of either kind and edits, any versions of the inputs |
| `RunCommandProofs` | `CommandTypeCorrect`, `ReferencesAlwaysResolve`, `ExitAlwaysTells` | any number of invocations, attempts and outputs |
| `TargetProofs` | `ProcessTypeCorrect`, `NobodyIsLeftRunning`, `CallsAreInTheResult` | any size of pipes and requests, any builds |
| | `RemoteTypeCorrect`, `EveryRetryIsEarned`, `OverStartsNothing` | any number of attempts, threads and retries, any kind of target |
| `ReportingProofs` | `RecountAgrees`, `EstimatesAgree`, `InstancesAgree`, `LoneAttempts` | any samples, attempts per sample, rows, labels and numbers of reports and exports |
| | `ExportTypeCorrect`, `FinishedIsWhole`, `ExportedRunsAreWhole` | any number of concurrent exports, any of them with a calibrated judge |
| | `ServerSaysTheSame` | any two runs of a manifest, redaction policies, identities and versions of the exporter, beside any other exports |
| | `AuthorityOnlyDecays` | any labeled sets, floors and ages |
| | `SeventyThree`, `GatingNames` | any labeled sets, judges and days; the floors of `calibration.py` (`ProjectFloors`) |

Some of these properties appear in no run: the bound on concurrency, one writer and
one evaluation per checkpoint, gating on authority, silence of a judge proven bad,
what an offline command is served, whose locks there are. They are proved for every
instance, and a run would only repeat one of them.

The inductive invariants and why they are needed:

- `EvalRunnerProofs`. `ConcurrencyBound` says nothing about the semaphore, so
  `PermitsInv` adds that permits and holders always make up `Concurrency`, which
  is where every exit path must release exactly once. `PhaseInv` ties the phase
  of `run()` to the phases of its children (none before the group, all terminal
  after it), `SlotInv` and `RowInv` a slot to its task and to its row, and
  `AbortInv` says that a failed or cancelled child means an abort in progress,
  without which a group with an empty slot could complete. `StoryInv` rests on
  `IInv` and adds the history of each slot: what an unfinished attempt has sent
  (`ProgressStory`), what the result says of the answer (`TruthStory`) and the row of
  the result (`DurableStory`, which also needs that redacting twice changes nothing:
  a replayed result comes from a row that was redacted when it was written).
- `RunCheckpointProofs`. `MetadataInv` says when `runId` and `identity` are
  there, and that the identity of whoever is running is the recorded one.
  `WorkInv` ties the owner's memory of each attempt to the row. `CallsInv` bounds
  `calls` by `optIns` per row status (a pending row has one call to spare, a
  running one may have used it, depending on where its owner is): the property itself
  does not say which states still allow a call, so it is not inductive.
- `JudgeGradingProofs`. `ProbingInv` and `PhaseInv` say what a call in each phase
  already established about its answer; `MatrixInv` that the counts of a
  measurement are those of the judge it names; `ResultInv` carries what was true
  when a grade was made, since the calibration and the live judge may change
  afterwards.
- `DatasetCatalogProofs`. `LockInv` says that a lock belongs to a writer of its
  process and that of two writers of one process only one is past it; without it
  a writer could find its data file replaced before it writes the metadata, and
  `WholeInv` would not be inductive. `PinInv` says that what is remembered of a
  pin is the pin; `PublishedInv` that a manifest names something published, and
  carries what a command read to the moment it serves it.
- `ExperimentRunProofs`. `OwnerInv` is the directory's lock. `LoopInv` says that
  arms are completed in their order and that a process knows every arm behind
  its own; with it, what is completed elsewhere cannot be after it.
  `HelmInv` and `NativeInv` count: an arm that was cut off once more than it was
  cleared waits, and a native arm has a call to spare exactly while its intent
  is fresh. `EditInv` says what an edit can still hide: after one edit, files
  that agree with the experiment's inputs agreed with them all the time.
- `RunCommandProofs`. `TableInv` says that the checkpoint has the results its
  holder has, `ReportInv` that the report under the checkpoint's run id equals the
  rows, which are results by then and stay. Without them the report of a later
  resume could not be related to what an earlier command told (`TellInv`, which adds
  the moment between the write of a report and its announcement).
- `TargetProofs`. Of a process target, `NothingLeftRunning` says nothing before the
  end. The invariant adds that no program is up in the stages behind a kill (`LifeInv`);
  that whoever is at a taskkill with the program up has it still under way or knows it
  failed, and that an mcp exchange reaches its second `_terminate` with the program up
  only by an interruption (`HuntInv`), which with the timer spent leaves the cancellation
  as the one way out past `process.kill()`; and that a kill took the helper along where there
  is a way to (`KilledInv`); only a program that is up starts a helper. Of a call it
  follows the frame (`CallInv`): before `tools/call` is recorded none is in the buffer,
  in the pipe or read. Of a remote target,
  `RetriesAreEarned` counts requests against retryable replies and does not say that
  an attempt in its backoff heard one reply per request: `PhaseOf` and `CountOf` do,
  per phase. `StreamOf` says that a stream still being read brought no trouble yet.
- `ReportingProofs`. What is reported of a run is a function of its rows, so the
  invariant is small (`ReportInv`: rows of the manifest, each a possible one) and the
  proofs are about functions. The lemmas go from sums over finite sets (a sum over the
  things of each kind is the sum over all) to the two counters of every row, the labels
  and the pairs; from factorials to the binomials of pass@k, which count draws; and from one resample
  to the estimate it must be able to give. Exports: `FinishedExportsAreWhole` is about
  the status on the server and says nothing of an export that is still writing, so
  `CallsInv` says for each call of `log_eval_run` what is on the server before it.
  A comparison on the server needs that every field it compares was exempt from the
  sweep (`ManifestIdentity`, `DatasetIdentity`). `GateInv` carries what was true of
  the evidence from `Ask` to the value published much later.

The composites of `CompositeJudging` have `CompositeInv`: the judge's own invariant, and
of every composite made that it combines two grades the components can have given.

`CompletedStaysCompleted`, `CompletedStaysFinal` and `LoneAttemptsChangeNothing` are
action properties that follow from the same invariants. The two refinements are
proved step by step: initial states map to initial states, and every step maps to a
step of the abstract specification or to a stutter. `ExportedRunsAreWhole` and
`CompositesLeaveTheJudgeAlone` are refinements of another kind: a composed
specification implements a part of it, whose theorems then hold of it.

Sums and factorials are recursive in the community modules. Of them the proofs use
only the folds and the recursive functions, never a recursive operator, and what they
compute for every finite set or number is proved from the least counterexample (well-founded
minimum over a set of sets or numbers), which needs no induction rule with an operator
for a parameter.

Every invariant of the passing runs is proved. Only model-checked: what is under fairness
(`ExchangeEnds`, `EndsWithItsChild` and the other liveness properties; liveness and
`ENABLED` are beyond the prover), and the refutations of section 6, which need a
counterexample and no proof.

## 5. Abstractions to keep in mind

- Digests are injective: equal digest, equal content.
- SQLite commits are atomic and durable; `os.replace` is atomic.
- In the runner, redaction is its effect on size and on equality (`AtRest`), not on
  text. In `Redaction` a text is one of a few that a policy matches or does not;
  structured values are dropped by the name of their key. The statuses and scores of
  a row are never redacted, as in the code; its label is, as evidence.
- The runner of a checkpoint calls the target only after `start` returned: this
  is `EvalRunner`'s `IntentBeforeEffect`, checked and proved there, and assumed
  by the order of actions in `RunCheckpoint`.
- HELM ends with the process that started it. The code starts it in a session of
  its own, so after SIGKILL it may live on; that is listed as a hazard.
- `ProcessTarget`: the helper inherits stdout and stderr, not stdin. It stays in the
  process group it was started in. Once `execute` is over neither the child nor a
  taskkill that is still under way is followed. The wait for a drain that was just
  cancelled ends in the next round of the loop and is no await of its own.
- `RemoteTarget`: of Claude's stream each kind of message comes at most once, in any
  order the code distinguishes.
- `RunCommand`: all invocations are of one manifest, and a checkpoint has a database
  exactly when it has a run id (`RunCheckpoint` has the moment in between). That the
  inputs changed is one of the errors of `preparing`. The time in the name of an
  artifact directory is not modelled: each invocation has its own. `--debug`, which
  re-raises, is not modelled.
- Statistics: an interval is named by the units it is over. A bootstrap is the set
  of means of all resamples it could draw, so what holds of the set holds for every
  seed.
- Exports: experiments are named ones. Numbers are logged as text in the code; two
  equal numbers that render differently (0.0 and -0.0) are not modelled, nor are
  `extra_tags` that overwrite a provenance tag, nor an explicit `now` of the gates.

## 6. Disagreements between the code and its documents

One is kept as a run. `finding_untrusted_judge`: `grounding.py:558-562` says that
supplying a calibration "makes the judge *eligible* to gate, not automatically
trusted". `build_grounded_citation_grader` sets the hard-gate flag of the weighted
grader whenever one is supplied, and `CompositeGrader` (`composite.py:124`) reads
that flag and never the one of the grade it wraps: the failing verdict of a judge
whose calibration is undated or of another judge fails the sample, though its own
grade is advisory. A judge whose calibration has expired gives no verdict
(`judge.py:540-557`), so it fails nothing.

The others are stated at the end of their modules, each a property that says what
a document, docstring or message says and that TLC refutes. To see one, put it
into the cfg named, as an invariant unless another kind is given:

| Property (module) | Put into | Says | Does |
|---|---|---|---|
| `NeverBothTerminalEvents` (`EvalRunner`) | `runner_outcomes` | `runner.py:256`: `RunCompleted` "is never sent together with `RunFailed`" | a sink that raises on `RunCompleted` is sent `RunFailed` next |
| `FailureIsAnnounced` (`EvalRunner`) | `runner_outcomes` with `PolicyCompiles = FALSE`, `CallbacksRaise = FALSE` | `run`'s docstring: when anything goes wrong "exactly one `RunFailed` event is sent" | a malformed redaction pattern makes `_emit_run_failed` itself raise inside its `suppress` |
| `CancelledErrorTearsDown` (`EvalRunner`) | `runner_outcomes` with `ComponentsCancel = TRUE` | ADR-0020: `CancelledError` "still tears the run down" | one that a component raises of its own accord ends only its own child, and the run returns without that slot |
| `ExistingCheckpointCanBeResumed` (`RunCheckpoint`) | `checkpoint_resume` | `checkpoints.py:100`: "checkpoint exists; use resume" | killed between creating the file and its metadata, the directory can be neither run nor resumed |
| `PageIsOfItsRevision` (`DatasetCatalog`) | `catalog_safety` | `datasets/catalog.py:394`: pins "really do resolve to two different, unchanging revisions -- they're not just labels" | rows are requested without a revision |
| `RivalWritersSettle` (`DatasetCatalog`) | `catalog_safety` | `docs/adr/0004`: every reader after a race observes a complete entry | two processes can leave a pair of files that never verifies and is never replaced |
| `DecliningDoesNotHelp` (`CalibrationHistory`) | `calibration_history` | `docs/adr/0024:50-51`: a judge "cannot improve its measured accuracy by declining" | within the coverage floor's 5% it can |
| `FailedProbeBlocks` (`JudgeGrading`) | `judge_grading` | `graders/judge.py:63-65`: a failed order-swapped call "blocks gating too" | one that reports a timeout or refusal in its status does not |
| `ReplayedResultsAreOfTheseInputs` (`ExperimentRun`, a PROPERTY) | `experiment_resume` with `MaxEdits = 2` | `docs/guides/experiments.md:20-21`: changed sources need a new directory | an edit that is undone lets a resume complete an arm from a result made with the edited source |
| `RefusedRunCanBeResumed` (`ExperimentRun`) | `experiment_resume` | `cli/experiments.py`: "run directory exists; use experiments resume" | killed inside the first `atomic_json`, a directory holds only a temporary file: `resume` finds no state |
| `ReferencesAreDescribed` (`RunCommand`) | `run_command` | `artifacts.py:11-14`: a sidecar lets a report describe the bytes | a process killed between the two writes leaves a payload that never gets one |
| `ExitCodesAreDocumented` (`RunCommand`) | `run_command` | `docs/guides/cli-reference.md:288-297`: the codes are 0, 2, 3, 4, 5 and 130 | what an attempt, SQLite or the disk of the report raises is not an `AgenticEvalkitError` and exits with 1 |
| `NoStrayProcess` (`ProcessTarget`) | `process_target` | `targets/subprocess.py:29-31`: a timed-out run "never leaves a stray process still running" | a helper runs on when its leader has already ended or its spawn was cut off, when a taskkill failed, or under `mcp` on POSIX, where the server has no group of its own |
| `CancelledProgramIsKilled` (`ProcessTarget`) | `process_target` | `docs/plans/2026-07-02-agentic-evalkit-initial-release.md:1235`: a cancelled run leaves "no orphan subprocesses" | on Windows a cancellation that arrives at the awaited `taskkill` of the last `_terminate` leaves before `process.kill()`; if that `taskkill` fails, or before it is done, the program itself runs on |
| `ClaudeAttemptsEnd` (`RemoteTarget`, a PROPERTY) | `remote_target` | `targets/claude_agent.py:309`: "the runner already races every attempt" | nothing sets a timer for it |

Some need no model:

- `stats/aggregate.py:376` counts executions that FAILED as failed, `_summarize`
  (`runner.py:1004-1014`) as errors; a COMPLETED execution without a grade is in no
  counter of the summary. `RecountMovesOnlyTwoKinds` says that these two kinds are
  the whole difference.
- The clustered interval of a pass rate is centred on the mean of the clusters'
  proportions, which is not the rate it is reported with when clusters differ in
  size.
- MLflow's exporter says that "a run left RUNNING forever is worse" than a failed
  one; an answer of `create_run` that gets lost, or a `set_terminated` that fails,
  leaves one.
- The header of `targets/subprocess.py` (lines 18-26) has stderr drained while the
  exchange goes on; the `jsonl` exchange starts to drain it after the request was
  written.

## 7. Plan

Done: every component of section 1. What is left, in order of use:

1. `ViewerPaging` (`datasets/huggingface.py`): pages, request retries with
   server-given delays, pushes between pages. Abstract specification: the rows of
   one version, in order, without gap or repetition.
2. Langfuse's `log_eval_run` beside MLflow's in `HostExports`.

Modules that are proved about use no RECURSIVE operators, name their assumptions,
and keep one action per operation, so that each proof has one step per action.
