--------------------------- MODULE ProcessTarget ---------------------------
(***************************************************************************)
(* One execute() of SubprocessTarget (protocol "jsonl") or McpTarget       *)
(* ("mcp"), from the spawn to the result.  Both are one coroutine, so      *)
(* stage is the await it is at; between two awaits nothing else of EvalKit *)
(* runs.  The timer and the runner's cancellation arrive at an await.      *)
(***************************************************************************)
EXTENDS ChildProcess

CONSTANT Targets   \* bound: the builds a run looks at

ASSUME TargetsAssumption == Targets \subseteq Builds

VARIABLES
  timed,      \* timeout_seconds is not None
  expired,    \* the timer fired
  stage,      \* the await execute is at, "start" and "kill" before and between two, "done"
  final,      \* in the finally block
  asked,      \* the id of the response it waits for
  draining,   \* the background task that empties stderr
  closed,     \* the transport was closed after a wait that took too long
  recorded,   \* tool_call_record is not empty
  verdict,    \* what execute will return or raise, as far as decided
  killers,    \* the taskkills under way, each named by the final of its _terminate
  signalled,  \* history: _terminate killed the program, it had not ended by itself
  spared      \* history: a taskkill was over and some of the tree was still up

client == <<timed, expired, stage, final, asked, draining, closed, recorded,
            verdict, killers, signalled, spared>>
processVars == <<build, child, pipes, client>>

Stages == {"start", "spawn", "unspawn", "send", "await", "collect", "kill", "taskkill", "wait",
           "done"}

Statuses == {"completed", "failed", "error", "timeout", "cancelled", "raised"}

ProcessInit ==
  /\ build \in Targets
  /\ ChildInit
  /\ timed \in BOOLEAN
  /\ expired = FALSE
  /\ stage = "start" /\ final = FALSE /\ asked = 1
  /\ draining = FALSE /\ closed = FALSE
  /\ recorded = FALSE
  /\ verdict = None
  /\ killers = {} /\ signalled = FALSE /\ spared = FALSE

(***************************************************************************)
(* How a line is read.                                                     *)
(***************************************************************************)
\* The lines a program may say that the protocol tells apart.
Says(protocol) ==
  IF protocol = "mcp" THEN Lines
  ELSE {l \in Lines : l.kind \notin {"notification", "ask", "rpc_error", "tool_error"}}

\* SubprocessTarget._parse_response: an object with the sample's id, and with an output
\* (which may be missing) and telemetry of the right shape.
JsonlOutcome(l) ==
  IF l # None /\ l.id = 1 /\ l.kind \in {"result", "no_result"} THEN "completed" ELSE "error"

\* _await_response: frames that are read over.
Skipped(l) == l.kind \in {"blank", "notification"} \/ (l.kind \in ResponseKinds /\ l.id # asked)

\* _await_response: what ends the exchange at once, stdout's end included.
FrameTrouble(l) ==
  l # None => ~Skipped(l) /\ l.kind \in {"garbage", "no_result"}

Answers(l) == l.kind \in ResponseKinds /\ ~Skipped(l) /\ ~FrameTrouble(l)

\* _apply_initialize_response.
InitTrouble(l) == l.kind \in {"rpc_error", "malformed"}

\* _normalize_call_response: an isError result is the system under test's own failure.
CallOutcome(l) ==
  IF l.kind \in {"rpc_error", "malformed"} THEN "error"
  ELSE IF l.kind = "tool_error" THEN "failed"
  ELSE "completed"

(***************************************************************************)
(* The exchange.                                                           *)
(***************************************************************************)
Goto(where) == stage' = where

hunt == <<killers, signalled, spared>>

\* McpTarget.execute: input that names no tool is refused before anything is spawned.
RefuseInput ==
  /\ stage = "start" /\ Mcp
  /\ verdict' = "error"
  /\ Goto("done")
  /\ UNCHANGED <<build, child, pipes, hunt, timed, expired, final, asked, draining,
                 closed, recorded>>

\* There is no such program: the OSError of create_subprocess_exec goes to the caller.
SpawnFails ==
  /\ stage = "start"
  /\ verdict' = "raised"
  /\ Goto("done")
  /\ UNCHANGED <<build, child, pipes, hunt, timed, expired, final, asked, draining,
                 closed, recorded>>

\* The program is started, and asyncio connects its pipes.
Launch ==
  /\ stage = "start"
  /\ leader' = "up"
  /\ Goto("spawn")
  /\ UNCHANGED <<build, helper, keeps, blocked, called, pipes, hunt, timed, expired, final,
                 asked, draining, closed, recorded, verdict>>

\* SubprocessTarget: the request is written whole, whatever its size.
SpawnedJsonl ==
  /\ stage = "spawn" /\ Jsonl
  /\ \E n \in 1..MaxRequest : unsent' = [i \in 1..n |-> "piece"]
  /\ Goto("send")
  /\ UNCHANGED <<build, child, inbox, output, hunt, timed, expired, final, asked, draining,
                 closed, recorded, verdict>>

\* McpTarget: the drain starts before the first frame.
SpawnedMcp ==
  /\ stage = "spawn" /\ Mcp
  /\ unsent' = <<"initialize">>
  /\ draining' = TRUE
  /\ Goto("send")
  /\ UNCHANGED <<build, child, inbox, output, hunt, timed, expired, final, asked, closed,
                 recorded, verdict>>

\* A spawn that was interrupted has killed the program (and no helper of it) and waits
\* for its end; execute has no process yet to terminate.
Unspawned ==
  /\ stage = "unspawn" /\ leader = "reaped"
  /\ Goto("done")
  /\ UNCHANGED <<build, child, pipes, hunt, timed, expired, final, asked, draining, closed,
                 recorded, verdict>>

\* stdin.drain() returned; jsonl closes stdin and starts the drain of stderr here.
Sent ==
  /\ stage = "send" /\ unsent = <<>>
  /\ Goto("await")
  /\ draining' = TRUE
  /\ UNCHANGED <<build, child, pipes, hunt, timed, expired, final, asked, closed,
                 recorded, verdict>>

\* Where a decided exchange goes: mcp kills the server, jsonl enters its finally.
Decide(v) ==
  /\ verdict' = v
  /\ Goto("kill")
  /\ final' = Jsonl

\* Nobody reads stdin any more: jsonl lets the OSError out, mcp calls it ServerExited.
SendFails ==
  /\ stage = "send" /\ unsent # <<>> /\ ~Holds("in")
  /\ Decide(IF Mcp THEN "error" ELSE "raised")
  /\ UNCHANGED <<build, child, pipes, hunt, timed, expired, asked, draining, closed,
                 recorded>>

Take == output' = [output EXCEPT !["out"] = @ - 1]

\* Mutant: the end of stdout is not told from a line that is still to come.
ReadLineBlind(l) ==
  /\ stage = "await"
  /\ l # None /\ output["out"] > 0 /\ Take
  /\ UNCHANGED <<unsent, inbox>>

\* _read_bounded_line: a line, or None at the end of the stream.
ReadLine(l) ==
  /\ stage = "await"
  /\ \/ l # None /\ output["out"] > 0 /\ Take
     \/ l = None /\ Ends("out") /\ UNCHANGED output
  /\ UNCHANGED <<unsent, inbox>>

\* SubprocessTarget: the first line is the response, the end of stdout an empty one.  The
\* code parses it after stderr is collected, which only adds the text of stderr to it.
ReadJsonl ==
  /\ Jsonl
  /\ \E l \in Says(build.protocol) \union {None} :
       /\ ReadLine(l)
       /\ IF l # None /\ l.kind = "toolong"
          THEN /\ Decide("error")
               /\ draining' = FALSE
          ELSE /\ verdict' = JsonlOutcome(l)
               /\ Goto("collect")
               /\ UNCHANGED <<draining, final>>
  /\ UNCHANGED <<build, child, hunt, timed, expired, asked, closed, recorded>>

\* A frame that decides the exchange against the server.
ReadMcpTrouble ==
  /\ Mcp
  /\ \E l \in Says("mcp") \union {None} :
       /\ ReadLine(l)
       /\ \/ FrameTrouble(l) /\ UNCHANGED draining
          \/ l # None /\ l.kind = "toolong" /\ draining' = FALSE
          \/ l # None /\ Answers(l) /\ asked = 1 /\ InitTrouble(l) /\ UNCHANGED draining
  /\ Decide("error")
  /\ UNCHANGED <<build, child, hunt, timed, expired, asked, closed, recorded>>

ReadMcpSkips ==
  /\ Mcp
  /\ \E l \in Says("mcp") : ReadLine(l) /\ Skipped(l)
  /\ UNCHANGED <<build, child, client>>

\* _answer_server_request: a ping or any other request of the server is answered.
AnswerServer ==
  /\ Mcp /\ stage = "await" /\ output["out"] > 0 /\ Take
  /\ unsent' = Append(unsent, "reply")
  /\ Goto("send")
  /\ UNCHANGED <<build, child, inbox, hunt, timed, expired, final, asked, draining,
                 closed, recorded, verdict>>

\* Mutant: the call is not recorded when it is sent.
InitializedRecordsLate ==
  /\ Mcp /\ asked = 1
  /\ stage = "await" /\ output["out"] > 0 /\ Take
  /\ unsent' = Append(unsent, "call")
  /\ asked' = 2
  /\ Goto("send")
  /\ UNCHANGED <<build, child, inbox, hunt, timed, expired, final, draining, closed,
                 recorded, verdict>>

\* The handshake is done: the call is recorded, then sent.
Initialized ==
  /\ Mcp /\ asked = 1
  /\ stage = "await" /\ output["out"] > 0 /\ Take
  /\ recorded' = TRUE
  /\ unsent' = Append(unsent, "call")
  /\ asked' = 2
  /\ Goto("send")
  /\ UNCHANGED <<build, child, inbox, hunt, timed, expired, final, draining, closed,
                 verdict>>

\* The response is in hand: close stdin, kill, and only then collect stderr.
Answered ==
  /\ Mcp /\ asked = 2
  /\ \E l \in Says("mcp") : ReadLine(l) /\ Answers(l) /\ verdict' = CallOutcome(l)
  /\ Goto("kill")
  /\ UNCHANGED <<build, child, unsent, inbox, hunt, timed, expired, final, asked, draining,
                 closed, recorded>>

\* `await stderr_task`: the drain task saw the end of stderr, or its transport is closed.
Collect ==
  /\ stage = "collect" /\ (Ends("err") \/ closed)
  /\ draining' = FALSE
  /\ Goto("kill")
  /\ final' = TRUE
  /\ UNCHANGED <<build, child, pipes, hunt, timed, expired, asked, closed, recorded,
                 verdict>>

(***************************************************************************)
(* _terminate.                                                             *)
(***************************************************************************)
\* jsonl's finally cancels the drain before it calls _terminate; mcp's does not.
CancelDrain == draining' = (draining /\ ~(final /\ Jsonl))

\* Mutant: the group is forgotten.
KillLeaderOnly ==
  /\ stage = "kill" /\ build.system = "posix" /\ leader # "reaped"
  /\ KillProgram
  /\ signalled' = (signalled \/ Up)
  /\ CancelDrain
  /\ Goto("wait")
  /\ UNCHANGED <<build, helper, called, pipes, killers, spared, timed, expired, final, asked,
                 closed, recorded, verdict>>

\* POSIX: killpg ends the group of a leader that has one of its own, which jsonl starts
\* and mcp does not; kill ends the leader.
Kill ==
  /\ stage = "kill" /\ build.system = "posix" /\ leader # "reaped"
  /\ KillProgram
  /\ signalled' = (signalled \/ Up)
  /\ helper' = IF Runs(helper) /\ Jsonl THEN "gone" ELSE helper
  /\ CancelDrain
  /\ Goto("wait")
  /\ UNCHANGED <<build, called, pipes, killers, spared, timed, expired, final, asked, closed,
                 recorded, verdict>>

\* Windows: taskkill /T runs in a thread, and the program runs on meanwhile.
StartTaskkill ==
  /\ stage = "kill" /\ build.system = "windows" /\ leader # "reaped"
  /\ killers' = killers \union {final}
  /\ CancelDrain
  /\ Goto("taskkill")
  /\ UNCHANGED <<build, child, pipes, signalled, spared, timed, expired, final, asked, closed,
                 recorded, verdict>>

\* What it does in there, whether or not anyone still waits for it: it ends all of the
\* tree of a program that runs, or some of it, or it fails or never starts.
Taskkill(id) ==
  /\ stage # "done" /\ id \in killers
  /\ killers' = killers \ {id}
  /\ \/ ~Up /\ Lives /\ UNCHANGED <<helper, signalled, spared>>
     \/ /\ Up /\ (Dies \/ Lives)
        /\ helper' \in {helper, IF Runs(helper) THEN "gone" ELSE helper}
        /\ signalled' = (signalled \/ leader' = "gone")
        /\ spared' = (spared \/ leader' = "up" \/ helper' = "up")
  /\ UNCHANGED <<build, called, pipes, timed, expired, stage, final, asked, draining, closed,
                 recorded, verdict>>

\* Whatever became of it, process.kill() follows, for the program alone.
Taskkilled ==
  /\ stage = "taskkill" /\ final \notin killers
  /\ KillProgram
  /\ signalled' = (signalled \/ Up)
  /\ Goto("wait")
  /\ UNCHANGED <<build, helper, called, pipes, killers, spared, timed, expired, final, asked,
                 draining, closed, recorded, verdict>>

\* What follows a _terminate: the value is returned, or the drain is collected unless the
\* stream was given up on.
Terminated ==
  \/ final /\ Goto("done") /\ UNCHANGED final
  \/ ~final /\ draining /\ Goto("collect") /\ UNCHANGED final
  \/ ~final /\ ~draining /\ Goto("kill") /\ final' = TRUE

\* The leader was known to be dead: nothing is signalled, its helpers included.
SkipKill ==
  /\ stage = "kill" /\ leader = "reaped"
  /\ Terminated
  /\ CancelDrain
  /\ UNCHANGED <<build, child, pipes, hunt, timed, expired, asked, closed, recorded,
                 verdict>>

\* Depending on the version of Python, process.wait() returns when the process is
\* reaped, or when its pipes are closed as well.
WaitReturns ==
  leader = "reaped" /\ (build.waitsForPipes => ~Held("out") /\ ~Held("err"))

Waited ==
  /\ stage = "wait" /\ WaitReturns
  /\ Terminated
  /\ UNCHANGED <<build, child, pipes, hunt, timed, expired, asked, draining, closed,
                 recorded, verdict>>

\* One second is over: the transport is closed.
WaitExpires ==
  /\ stage = "wait" /\ ~WaitReturns /\ leader = "reaped"
  /\ closed' = TRUE
  /\ Terminated
  /\ UNCHANGED <<build, child, pipes, hunt, timed, expired, asked, draining, recorded,
                 verdict>>

(***************************************************************************)
(* The timer, and the runner that cancels its group.                       *)
(***************************************************************************)
\* Where an interruption goes: asyncio kills the program it has only just started, the
\* body goes to its finally, and whoever is there already leaves it, before
\* process.kill() when the await is the taskkill's.
Leave ==
  \/ stage = "spawn" /\ Goto("unspawn") /\ KillProgram /\ UNCHANGED final
  \/ stage = "unspawn" /\ Goto("done") /\ Lives /\ UNCHANGED final
  \/ /\ stage \notin {"spawn", "unspawn"}
     /\ Goto(IF final THEN "done" ELSE "kill")
     /\ final' = TRUE
     /\ Lives

\* A timer that fires on a cancelled task, or is cancelled on its way, stays a cancellation.
Interrupt(v) ==
  /\ verdict' = IF verdict = "cancelled" THEN verdict ELSE v
  /\ Leave
  /\ UNCHANGED <<build, helper, called, pipes, hunt, timed, asked, draining, closed,
                 recorded>>

\* Mutant: the timer covers the response only, as if stderr ended with it.
TimeoutOfResponse ==
  /\ timed /\ ~expired
  /\ stage \in {"spawn", "unspawn", "send", "await", "taskkill", "wait"}
  /\ Jsonl => ~final
  /\ expired' = TRUE
  /\ Interrupt("timeout")

Awaits == {"spawn", "unspawn", "send", "await", "collect", "taskkill", "wait"}

\* jsonl's timer covers the body, mcp's the finally too.
Timeout ==
  /\ timed /\ ~expired
  /\ stage \in Awaits
  /\ Jsonl => ~final
  /\ expired' = TRUE
  /\ Interrupt("timeout")

CancelExchange ==
  /\ stage \in Awaits
  /\ verdict # "cancelled"
  /\ Interrupt("cancelled")
  /\ UNCHANGED expired

\* The background task takes what is there.
Drain ==
  /\ draining /\ output["err"] > 0
  /\ output' = [output EXCEPT !["err"] = @ - 1]
  /\ UNCHANGED <<build, child, unsent, inbox, client>>

ChildStep == stage # "done" /\ ProgramStep /\ UNCHANGED client
SystemStep == stage # "done" /\ (Flush \/ Reap) /\ UNCHANGED client
TaskkillStep == \E id \in BOOLEAN : Taskkill(id)

Spawn == RefuseInput \/ SpawnFails \/ Launch \/ SpawnedJsonl \/ SpawnedMcp \/ Unspawned
Send == Sent \/ SendFails
Read == ReadJsonl \/ ReadMcpTrouble \/ ReadMcpSkips \/ AnswerServer \/ Initialized \/ Answered
Terminate == Kill \/ StartTaskkill \/ Taskkilled \/ SkipKill \/ Waited \/ WaitExpires
ClientStep == Spawn \/ Send \/ Read \/ Collect \/ Terminate

ExchangeOver == stage = "done" /\ UNCHANGED processVars

ProcessNext ==
  \/ ChildStep \/ SystemStep \/ Drain \/ TaskkillStep
  \/ ClientStep
  \/ Timeout \/ CancelExchange
  \/ ExchangeOver

ProcessSpec == ProcessInit /\ [][ProcessNext]_processVars

\* The event loop and the operating system do their part, and a taskkill has five
\* seconds; the program need not do anything.
ProcessFairSpec ==
  /\ ProcessSpec
  /\ WF_processVars(ClientStep) /\ WF_processVars(SystemStep)
  /\ WF_processVars(TaskkillStep)
  /\ WF_processVars(Drain) /\ WF_processVars(Timeout)

(***************************************************************************)
(* Properties.                                                             *)
(***************************************************************************)
Done == stage = "done"

ProcessTypeOK ==
  /\ ChildTypeOK
  /\ timed \in BOOLEAN /\ expired \in BOOLEAN
  /\ stage \in Stages
  /\ final \in BOOLEAN /\ asked \in Ids
  /\ draining \in BOOLEAN /\ closed \in BOOLEAN
  /\ recorded \in BOOLEAN
  /\ killers \subseteq BOOLEAN /\ signalled \in BOOLEAN /\ spared \in BOOLEAN
  /\ verdict \in Statuses \union {None}

\* subprocess.py:490-528, _terminate of both: an exchange that is over has left nothing
\* behind, but for what nobody could reach.  The program runs on only on Windows, when a
\* cancellation cut the last _terminate short of process.kill() and its taskkill has not
\* ended or has failed.  The helper of a program that _terminate killed runs on only
\* where a taskkill left some of the tree, or under mcp on POSIX, where the server has no
\* group of its own.  (The helper of a program that had ended, or whose spawn was cut
\* off, is looked up by nobody.)
NothingLeftRunning ==
  Done =>
    /\ Up => /\ build.system = "windows" /\ verdict = "cancelled"
             /\ spared \/ TRUE \in killers
    /\ Runs(helper) /\ signalled => IF build.system = "windows" THEN spared ELSE Mcp

\* A tool call that reached the server is in the result, whatever became of the
\* exchange afterwards (a timeout, a dead pipe, a malformed answer): only a
\* cancellation, which returns no result, may lose it.
CallsAreReported ==
  Done /\ called /\ verdict # "cancelled" => recorded

\* With a timeout every exchange ends, whatever the program does or does not do.
ExchangeEnds == timed ~> Done

\* Without one it still ends once the program and its helper are gone: every wait of
\* both protocols notices a dead other side.
EndsWithItsChild == (leader \in {"gone", "reaped"} /\ ~Runs(helper)) ~> Done

(***************************************************************************)
(* What the documents say and this model refutes (README, section 6).      *)
(***************************************************************************)
\* subprocess.py:29-31: a timed-out run "never leaves a stray process still running".
NoStrayProcess == Done /\ verdict = "timeout" => ~Up /\ ~Runs(helper)

\* docs/plans/2026-07-02-agentic-evalkit-initial-release.md:1235: a cancelled run leaves
\* "no orphan subprocesses", the program itself least of all.
CancelledProgramIsKilled == Done /\ verdict = "cancelled" => ~Up
=============================================================================
