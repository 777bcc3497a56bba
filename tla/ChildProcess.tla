---------------------------- MODULE ChildProcess ----------------------------
(***************************************************************************)
(* What a process target (targets/subprocess.py, targets/mcp.py) has on    *)
(* the other end: a program EvalKit started, a helper that program may     *)
(* have started in turn, and the three pipes between them.  The program is *)
(* anyone's, so it does whatever a process can do with its pipes, in any   *)
(* order, for as long as it likes; only the size of the pipes is bounded.  *)
(*                                                                         *)
(* A unit of a pipe is one buffer of asyncio's transport and the kernel    *)
(* together.  One unit on standard output is one line; as any line may     *)
(* come at any time, what it says is chosen when it is read.               *)
(***************************************************************************)
EXTENDS PythonNone, Integers, Sequences, FiniteSets

CONSTANTS
  PipeSize,    \* units a pipe holds
  MaxRequest   \* bound: units of a jsonl request

ASSUME PipeAssumption == {PipeSize, MaxRequest} \subseteq Nat \ {0}

Protocols == {"jsonl", "mcp"}
Streams == {"out", "err"}
Systems == {"posix", "windows"}
Ids == {1, 2}   \* jsonl: 1 is the sample's own; mcp: initialize is 1, tools/call is 2

\* Lines that are no response to anything ("garbage" is not JSON, or no object).
Chatter == {"blank", "garbage", "toolong", "notification", "ask"}
\* Responses, each to some id: a good one, an isError result, one of the wrong shape,
\* one with neither result nor error, and a JSON-RPC error.
ResponseKinds == {"result", "tool_error", "malformed", "no_result", "rpc_error"}
Lines == [kind : Chatter, id : {0}] \union [kind : ResponseKinds, id : Ids]

\* What goes the other way: pieces of a jsonl request, or whole mcp frames.
Frames == {"piece", "initialize", "call", "reply"}

VARIABLES
  build,     \* protocol, system, and whether process.wait() also waits for the pipes
  leader,    \* the program: "unborn", "up", "gone", and "reaped" once asyncio knows
  helper,    \* a process of its own that shares its output pipes: "none", "up", "gone"
  keeps,     \* the pipe ends the program has not closed
  blocked,   \* the stream it is stuck writing to
  unsent,    \* frames in the transport's buffer
  inbox,     \* frames in the pipe to the program
  output,    \* units of "out" and "err" nobody took yet
  called     \* whether the program has read the tools/call frame

child == <<leader, helper, keeps, blocked, called>>
pipes == <<unsent, inbox, output>>

Builds == [protocol : Protocols, system : Systems, waitsForPipes : BOOLEAN]

ChildTypeOK ==
  /\ build \in Builds
  /\ leader \in {"unborn", "up", "gone", "reaped"}
  /\ helper \in {"none", "up", "gone"}
  /\ keeps \subseteq {"in", "out", "err"}
  /\ blocked \in Streams \union {None}
  /\ unsent \in Seq(Frames) /\ inbox \in Seq(Frames)
  /\ output \in [Streams -> 0..PipeSize]
  /\ called \in BOOLEAN

ChildInit ==
  /\ leader = "unborn" /\ helper = "none"
  /\ keeps = {"in", "out", "err"}
  /\ blocked = None
  /\ unsent = <<>> /\ inbox = <<>> /\ output = [stream \in Streams |-> 0]
  /\ called = FALSE

Jsonl == build.protocol = "jsonl"
Mcp == build.protocol = "mcp"

Up == leader = "up"
Runs(p) == p = "up"
Holds(stream) == Up /\ stream \in keeps
\* A helper inherits the output pipes and keeps them open.
Held(stream) == Holds(stream) \/ Runs(helper)
Ends(stream) == output[stream] = 0 /\ ~Held(stream)

(***************************************************************************)
(* The program.                                                            *)
(***************************************************************************)
Free == Up /\ blocked = None

Reads ==
  /\ Free /\ "in" \in keeps /\ inbox # <<>>
  /\ called' = (called \/ Head(inbox) = "call")
  /\ inbox' = Tail(inbox)
  /\ UNCHANGED <<build, leader, helper, keeps, blocked, unsent, output>>

Room(stream) == output[stream] < PipeSize

\* A unit there is room for is on its way; otherwise the write blocks.
Put(stream) ==
  IF Room(stream)
  THEN output' = [output EXCEPT ![stream] = @ + 1] /\ blocked' = None
  ELSE blocked' = stream /\ UNCHANGED output

Writes ==
  /\ Free
  /\ \E stream \in keeps \intersect Streams : Put(stream)
  /\ UNCHANGED <<build, leader, helper, keeps, unsent, inbox, called>>

Unblocks ==
  /\ Up /\ blocked # None /\ Room(blocked)
  /\ Put(blocked)
  /\ UNCHANGED <<build, leader, helper, keeps, unsent, inbox, called>>

Closes ==
  /\ Free
  /\ \E stream \in keeps : keeps' = keeps \ {stream}
  /\ UNCHANGED <<build, leader, helper, blocked, pipes, called>>

StartsHelper ==
  /\ Free /\ helper = "none"
  /\ helper' = "up"
  /\ UNCHANGED <<build, leader, keeps, blocked, pipes, called>>

\* However the program ends, it has no pipe any more ...
Dies == leader' = "gone" /\ keeps' = {} /\ blocked' = None
Lives == UNCHANGED <<leader, keeps, blocked>>

\* ... and killing what has ended does nothing.
KillProgram == IF Up THEN Dies ELSE Lives

Exits ==
  /\ Free /\ Dies
  /\ UNCHANGED <<build, helper, pipes, called>>

HelperExits ==
  /\ Runs(helper)
  /\ helper' = "gone"
  /\ UNCHANGED <<build, leader, keeps, blocked, pipes, called>>

ProgramStep ==
  Reads \/ Writes \/ Unblocks \/ Closes \/ StartsHelper \/ Exits \/ HelperExits

(***************************************************************************)
(* The operating system and the event loop.                                *)
(***************************************************************************)
\* The transport moves what it has buffered into the pipe.
Flush ==
  /\ unsent # <<>> /\ Len(inbox) < PipeSize /\ Holds("in")
  /\ inbox' = Append(inbox, Head(unsent))
  /\ unsent' = Tail(unsent)
  /\ UNCHANGED <<build, child, output>>

\* The child watcher learns the exit code: process.returncode is set.
Reap ==
  /\ leader = "gone"
  /\ leader' = "reaped"
  /\ UNCHANGED <<build, helper, keeps, blocked, pipes, called>>
=============================================================================
