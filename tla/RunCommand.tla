----------------------------- MODULE RunCommand -----------------------------
(***************************************************************************)
(* `agentic-evalkit run`, invoked several times over one output directory  *)
(* and one checkpoint directory: what each invocation leaves on disk (its  *)
(* artifact directory, rows of the checkpoint, the report of its run) and  *)
(* what it tells the shell.  The event loop of the run is EvalRunner, the  *)
(* checkpoint itself RunCheckpoint; here they are the table of results     *)
(* they fill.  A run can raise at any of its steps, disk writes can fail,  *)
(* and the process can be killed.                                          *)
(***************************************************************************)
EXTENDS PythonNone, Naturals

CONSTANTS
  Commands,   \* the invocations; a run id and an artifact directory are named after one
  Attempts,   \* (sample, attempt) pairs, of one manifest
  Bodies,     \* outputs above the inline threshold
  Running     \* an attempt that was started

\* NormalizedExecutionResult after the spill: where the output is, and whose artifact
\* directory has it; ok is FALSE for what the summary counts as error or timeout.
Results == [output : {"inline", "ref", "lost"}, body : Bodies \union {None},
            store : Commands, ok : BOOLEAN]

\* cli/app.py: ExitCode, and 1 for an exception that is not one of EvalKit's.
ExitCodes == {0, 1, 2, 3, 4, 5, 130}

ASSUME RunCommandAssumption ==
  /\ None \notin Commands \union Bodies \union ExitCodes /\ None \notin {"whole", "lost"}
  /\ {None, Running} \intersect Results = {} /\ None # Running
  /\ None \notin [Attempts -> Results]                     \* reports

VARIABLES
  pc,        \* "new", "opening", "preparing", "running", "reporting", "printing",
             \* "ended", "killed"
  options,   \* what it was called with
  payloads,  \* <<command, body>>: .bin files of the artifact directories
  sidecars,  \* <<command, body>>: .json files beside them
  owner,     \* who holds the checkpoint
  runId,     \* the run id the checkpoint was created with
  rows,      \* its attempts: None, Running or a result
  work,      \* a command's attempts, in its memory
  reports,   \* the report file of each run id
  exit,      \* exit code
  announced  \* the report it printed the path of: None, a "whole" one, or one that it
             \* warned has "lost" outputs

vars == <<pc, options, payloads, sidecars, owner, runId, rows, work, reports, exit, announced>>

disk == <<payloads, sidecars>>
checkpoint == <<owner, runId, rows>>
told == <<exit, announced>>

\* fault: what is wrong with the call, if anything.
Options == [fault : {None, "manifest", "component", "bundle", "declined", "target"},
            checkpoint : BOOLEAN, resume : BOOLEAN, retry : BOOLEAN]

Init ==
  /\ pc = [c \in Commands |-> "new"]
  /\ options \in [Commands -> Options]
  /\ payloads = {} /\ sidecars = {}
  /\ owner = None /\ runId = None
  /\ rows = [a \in Attempts |-> None]
  /\ work = [c \in Commands |-> [a \in Attempts |-> None]]
  /\ reports = [c \in Commands |-> None]
  /\ exit = [c \in Commands |-> None]
  /\ announced = [c \in Commands |-> None]

Exit(c, code) ==
  /\ pc' = [pc EXCEPT ![c] = "ended"]
  /\ exit' = [exit EXCEPT ![c] = code]

(***************************************************************************)
(* Before the run.                                                         *)
(***************************************************************************)
\* --resume and --retry-interrupted need --checkpoint-dir (_checkpoint_required).
MissingDirectory(o) == (o.resume \/ o.retry) /\ ~o.checkpoint

\* _ERROR_EXIT_CODES: a bundle that cannot be loaded is a missing capability.
RefusalCode(o) ==
  CASE o.fault = "manifest" \/ MissingDirectory(o) -> 2
    [] o.fault = "bundle" -> 3
    [] o.fault = "declined" -> 130
    [] OTHER -> 2

\* The manifest, the flags, the components, the consent and the target, in this order.
Refuse(c) ==
  /\ pc[c] = "new"
  /\ options[c].fault # None \/ MissingDirectory(options[c])
  /\ Exit(c, RefusalCode(options[c]))
  /\ UNCHANGED <<options, disk, checkpoint, work, reports, announced>>

\* The artifact directory is made first, then the checkpoint is opened.
Open(c) ==
  /\ pc[c] = "new"
  /\ options[c].fault = None /\ ~MissingDirectory(options[c])
  /\ pc' = [pc EXCEPT ![c] = IF options[c].checkpoint THEN "opening" ELSE "preparing"]
  /\ UNCHANGED <<options, disk, checkpoint, work, reports, told>>

\* RunCheckpoint.__enter__: the lock is free, a resumed run finds a database, a fresh
\* one finds none and creates it.
Admitted(c) == owner = None /\ (options[c].resume <=> runId # None)

Enter(c) ==
  /\ pc[c] = "opening" /\ Admitted(c)
  /\ owner' = c
  /\ runId' = IF runId = None THEN c ELSE runId
  /\ pc' = [pc EXCEPT ![c] = "preparing"]
  /\ UNCHANGED <<options, disk, rows, work, reports, told>>

Mine(c) == owner = c

Unlocked(c) == IF Mine(c) THEN None ELSE owner

\* RunCheckpoint.begin: interrupted attempts need the opt-in.
Interrupted == \E a \in Attempts : rows[a] = Running

Accepted(c) == (Mine(c) /\ Interrupted) => options[c].retry

\* The dataset is resolved and its rows are read; then the checkpoint begins.
Begin(c) ==
  /\ pc[c] = "preparing" /\ Accepted(c)
  /\ rows' = IF Mine(c) THEN [a \in Attempts |-> IF rows[a] = Running THEN None ELSE rows[a]]
             ELSE rows
  /\ pc' = [pc EXCEPT ![c] = "running"]
  /\ UNCHANGED <<options, disk, owner, runId, work, reports, told>>

\* __enter__ and begin refuse with a ManifestValidationError.
Decline(c) ==
  /\ \/ pc[c] = "opening" /\ ~Admitted(c)
     \/ pc[c] = "preparing" /\ ~Accepted(c)
  /\ Exit(c, 2)
  /\ owner' = Unlocked(c)
  /\ UNCHANGED <<options, disk, runId, rows, work, reports, announced>>

(***************************************************************************)
(* The run.                                                                *)
(***************************************************************************)
Finished(r) == r \notin {None, Running}

\* What a resumed run takes over: completed() returns every saved result.
Kept(r) == Finished(r)

TakeOver(c, a) ==
  /\ pc[c] = "running" /\ work[c][a] = None
  /\ Mine(c) /\ Kept(rows[a])
  /\ work' = [work EXCEPT ![c][a] = rows[a]]
  /\ UNCHANGED <<pc, options, disk, checkpoint, reports, told>>

Start(c, a) ==
  /\ pc[c] = "running" /\ work[c][a] = None
  /\ Mine(c) => ~Kept(rows[a])
  /\ work' = [work EXCEPT ![c][a] = Running]
  /\ rows' = IF Mine(c) THEN [rows EXCEPT ![a] = Running] ELSE rows
  /\ UNCHANGED <<pc, options, disk, owner, runId, reports, told>>

Result(c, where, b, good) == [output |-> where, body |-> b, store |-> c, ok |-> good]

\* The attempt is over: into the result list, and into its row.
Save(c, a, r) ==
  /\ work' = [work EXCEPT ![c][a] = r]
  /\ rows' = IF Mine(c) THEN [rows EXCEPT ![a] = r] ELSE rows

KeepInline(c, a) ==
  /\ pc[c] = "running" /\ work[c][a] = Running
  /\ \E good \in BOOLEAN : Save(c, a, Result(c, "inline", None, good))
  /\ UNCHANGED <<pc, options, disk, owner, runId, reports, told>>

\* ArtifactStore.put_bytes: one more name for known bytes writes nothing.
Stored(c, b) == <<c, b>> \in payloads

PutPayload(c, b) == payloads' = payloads \union {<<c, b>>}
PutSidecar(c, b) == sidecars' = sidecars \union {<<c, b>>}

Put(c, b) ==
  IF Stored(c, b) THEN UNCHANGED disk ELSE PutPayload(c, b) /\ PutSidecar(c, b)

SpillOutput(c, a) ==
  /\ pc[c] = "running" /\ work[c][a] = Running
  /\ \E b \in Bodies, good \in BOOLEAN :
       Put(c, b) /\ Save(c, a, Result(c, "ref", b, good))
  /\ UNCHANGED <<pc, options, owner, runId, reports, told>>

\* Mutant: the failure is taken for a success once the payload is there.
LostOutputAsRef(c, b, good) == Result(c, "ref", b, good)

\* _spill_failure_result: status and grade stay, the output is dropped.
LostOutput(c, b, good) == Result(c, "lost", None, good)

\* The disk refuses the payload, or takes the payload and refuses its sidecar.
SpillFails(c, a) ==
  /\ pc[c] = "running" /\ work[c][a] = Running
  /\ \E b \in Bodies, good \in BOOLEAN :
       /\ ~Stored(c, b)
       /\ UNCHANGED payloads \/ PutPayload(c, b)
       /\ Save(c, a, LostOutput(c, b, good))
  /\ UNCHANGED <<pc, options, sidecars, owner, runId, reports, told>>

Return(c) ==
  /\ pc[c] = "running"
  /\ \A a \in Attempts : Finished(work[c][a])
  /\ pc' = [pc EXCEPT ![c] = "reporting"]
  /\ owner' = Unlocked(c)
  /\ UNCHANGED <<options, disk, runId, rows, work, reports, told>>

(***************************************************************************)
(* After the run.                                                          *)
(***************************************************************************)
\* The run id is the checkpoint's, so a resumed run writes to the same report.
IdOf(c) == IF options[c].checkpoint THEN runId ELSE c

\* Mutant: only what this invocation ran is looked at.
LostOfOwn(c) == {a \in Attempts : work[c][a].output = "lost" /\ work[c][a].store = c}

\* _failed_spill_count, over all results of the run.
Lost(c) == {a \in Attempts : work[c][a].output = "lost"}

Clean(c) == \A a \in Attempts : work[c][a].ok

\* write_canonical_report is atomic.
Report(c) ==
  /\ pc[c] = "reporting"
  /\ reports' = [reports EXCEPT ![IdOf(c)] = work[c]]
  /\ pc' = [pc EXCEPT ![c] = "printing"]
  /\ UNCHANGED <<options, disk, checkpoint, work, told>>

\* The outcomes, the warning and the path of the report, then the exit code.
Announce(c) ==
  /\ pc[c] = "printing"
  /\ announced' = [announced EXCEPT ![c] = IF Lost(c) # {} THEN "lost" ELSE "whole"]
  /\ Exit(c, IF Clean(c) THEN 0 ELSE 5)
  /\ UNCHANGED <<options, disk, checkpoint, work, reports>>

(***************************************************************************)
(* What goes wrong on the way.                                             *)
(***************************************************************************)
Unstarted(c) == \A a \in Attempts : work[c][a] = None

\* What becomes of an exception that runner.run, the checkpoint or the report lets out.
\* While the dataset is prepared it can be any error of EvalKit's, each with its code;
\* RunCheckpoint.completed finds damaged rows (4) before the first attempt.  What the
\* attempts raise, SQLite's errors of start and save above all, comes in the TaskGroup's
\* ExceptionGroup, which is none of EvalKit's: a traceback, and 1.  Ctrl-C is 130.
FailureCodes(c) ==
  {1, 130}
    \union (IF pc[c] = "preparing" THEN {2, 3, 4, 5} ELSE {})
    \union (IF pc[c] = "running" /\ Mine(c) /\ Unstarted(c) THEN {4} ELSE {})

\* An attempt that is under way leaves its row as start left it, and of its output
\* nothing, the payload, or both files: it ended inside put_bytes or before save.
LeftBehind(c) ==
  \/ UNCHANGED disk
  \/ /\ pc[c] = "running"
     /\ \E a \in Attempts : work[c][a] = Running
     /\ \E b \in Bodies :
          /\ ~Stored(c, b)
          /\ PutPayload(c, b)
          /\ PutSidecar(c, b) \/ UNCHANGED sidecars

Underway == {"opening", "preparing", "running", "reporting", "printing"}

\* The context manager closes the checkpoint.  A report that was not written is lost
\* with what was not checkpointed; one that was written stays, and is not announced.
Fails(c) ==
  /\ pc[c] \in Underway
  /\ \E code \in FailureCodes(c) : Exit(c, code)
  /\ owner' = Unlocked(c)
  /\ LeftBehind(c)
  /\ UNCHANGED <<options, runId, rows, work, reports, announced>>

Kill(c) ==
  /\ pc[c] \in Underway
  /\ pc' = [pc EXCEPT ![c] = "killed"]
  /\ owner' = Unlocked(c)
  /\ LeftBehind(c)
  /\ UNCHANGED <<options, runId, rows, work, reports, told>>

Step(c) ==
  \/ Refuse(c) \/ Open(c) \/ Enter(c) \/ Begin(c) \/ Decline(c)
  \/ \E a \in Attempts :
       TakeOver(c, a) \/ Start(c, a) \/ KeepInline(c, a) \/ SpillOutput(c, a) \/ SpillFails(c, a)
  \/ Return(c) \/ Report(c) \/ Announce(c) \/ Fails(c) \/ Kill(c)

Ended == (\A c \in Commands : pc[c] \in {"ended", "killed"}) /\ UNCHANGED vars

Next == (\E c \in Commands : Step(c)) \/ Ended

Spec == Init /\ [][Next]_vars

(***************************************************************************)
(* Properties.                                                             *)
(***************************************************************************)
TypeOK ==
  /\ pc \in [Commands -> {"new", "ended", "killed"} \union Underway]
  /\ options \in [Commands -> Options]
  /\ payloads \subseteq Commands \X Bodies /\ sidecars \subseteq payloads
  /\ owner \in Commands \union {None} /\ runId \in Commands \union {None}
  /\ rows \in [Attempts -> Results \union {None, Running}]
  /\ work \in [Commands -> [Attempts -> Results \union {None, Running}]]
  /\ reports \in [Commands -> {None} \union [Attempts -> Results]]
  /\ exit \in [Commands -> ExitCodes \union {None}]
  /\ announced \in [Commands -> {None, "whole", "lost"}]

\* What stays behind a command: the rows of the checkpoint and the reports.
Published ==
  {rows[a] : a \in {x \in Attempts : Finished(rows[x])}}
    \union UNION {{reports[c][a] : a \in Attempts} : c \in {x \in Commands : reports[x] # None}}

\* No reference outruns its bytes: what a row or a report refers to is on disk whole,
\* in the directory of the invocation that made the attempt, whatever was killed since.
ReferencesResolve ==
  \A r \in Published : r.output = "ref" => <<r.store, r.body>> \in payloads

\* Exit code and warning tell the truth about the report on disk, also when an earlier,
\* interrupted invocation made the attempts and however runs fail: exit code 0 announces
\* a report, a report that is announced is there, is without errors exactly when the
\* code is 0, and otherwise it is 5, and an output that was lost is announced with it.
ExitTellsTheReport ==
  \A c \in Commands :
    /\ exit[c] = 0 => announced[c] # None
    /\ announced[c] # None =>
         LET report == reports[IdOf(c)] IN
         /\ report # None
         /\ exit[c] = IF \A a \in Attempts : report[a].ok THEN 0 ELSE 5
         /\ announced[c] = "lost" <=> \E a \in Attempts : report[a].output = "lost"

(***************************************************************************)
(* What the documents say and this model refutes (README, section 6).      *)
(***************************************************************************)
\* artifacts.py:11-14: a sidecar beside the bytes lets a report "describe" them.
ReferencesAreDescribed ==
  \A r \in Published : r.output = "ref" => <<r.store, r.body>> \in sidecars

\* docs/guides/cli-reference.md:288-297 and app.py:102-107: the table of exit codes.
ExitCodesAreDocumented == \A c \in Commands : exit[c] \in {None, 0, 2, 3, 4, 5, 130}
=============================================================================
