---------------------------- MODULE RunContract ----------------------------
(***************************************************************************)
(* What a caller of EvalRunner.run may rely on, with no coroutine, event or *)
(* semaphore in sight: each slot of the plan gets at most one outcome and   *)
(* keeps it, the run returns only when every slot has one, and nothing      *)
(* happens after it has returned or raised.                                 *)
(***************************************************************************)
CONSTANTS
  Slots,      \* the plan
  Outcomes,   \* what a slot may hold
  NoOutcome   \* a slot not filled yet, not a member of Outcomes

VARIABLES phase, outcome

Init ==
  /\ phase = "open"
  /\ outcome = [i \in Slots |-> NoOutcome]

Record(i) ==
  /\ phase = "open"
  /\ outcome[i] = NoOutcome
  /\ outcome'[i] \in Outcomes
  /\ outcome' = [outcome EXCEPT ![i] = outcome'[i]]
  /\ UNCHANGED phase

Return ==
  /\ phase = "open"
  /\ \A i \in Slots : outcome[i] # NoOutcome
  /\ phase' = "returned"
  /\ UNCHANGED outcome

Raise ==
  /\ phase = "open"
  /\ phase' = "raised"
  /\ UNCHANGED outcome

Next == Return \/ Raise \/ \E i \in Slots : Record(i)

Spec == Init /\ [][Next]_<<phase, outcome>>
=============================================================================
