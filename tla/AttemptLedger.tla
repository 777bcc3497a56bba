--------------------------- MODULE AttemptLedger ---------------------------
(***************************************************************************)
(* What checkpointing promises of each attempt, with no process, file or   *)
(* lock in sight.  An attempt is fresh until someone intends to run it; it *)
(* is then in doubt, for its target may or may not have acted, until its   *)
(* result is recorded.  While it is in doubt the target is called at most  *)
(* once; only an operator's opt-in makes it callable again, and a recorded *)
(* result is never replaced.                                               *)
(***************************************************************************)
EXTENDS Naturals

CONSTANTS Attempts, Results, NoResult

VARIABLES
  status,    \* of each attempt
  calls,     \* how often its target was called
  optIns,    \* how often an operator allowed another call
  recorded   \* its result

Init ==
  /\ status = [a \in Attempts |-> "fresh"]
  /\ calls = [a \in Attempts |-> 0]
  /\ optIns = [a \in Attempts |-> 0]
  /\ recorded = [a \in Attempts |-> NoResult]

Intend(a) ==
  /\ status[a] \in {"fresh", "cleared"}
  /\ status' = [status EXCEPT ![a] = "inDoubt"]
  /\ UNCHANGED <<calls, optIns, recorded>>

Call(a) ==
  /\ status[a] = "inDoubt"
  /\ calls[a] <= optIns[a]
  /\ calls' = [calls EXCEPT ![a] = @ + 1]
  /\ UNCHANGED <<status, optIns, recorded>>

Record(a) ==
  /\ status[a] = "inDoubt"
  /\ status' = [status EXCEPT ![a] = "recorded"]
  /\ \E r \in Results : recorded' = [recorded EXCEPT ![a] = r]
  /\ UNCHANGED <<calls, optIns>>

\* The opt-in is given for everything that is in doubt.
OptIn ==
  /\ status' = [a \in Attempts |-> IF status[a] = "inDoubt" THEN "cleared" ELSE status[a]]
  /\ optIns' = [a \in Attempts |-> optIns[a] + IF status[a] = "inDoubt" THEN 1 ELSE 0]
  /\ UNCHANGED <<calls, recorded>>

Next == OptIn \/ \E a \in Attempts : Intend(a) \/ Call(a) \/ Record(a)

Spec == Init /\ [][Next]_<<status, calls, optIns, recorded>>
=============================================================================
