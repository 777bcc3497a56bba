------------------------ MODULE RunCheckpointLedger ------------------------
(* RunCheckpoint implements AttemptLedger: its rows and what was done. *)
EXTENDS RunCheckpoint

LedgerStatus == [a \in Attempts |->
  IF row[a] = "absent" THEN "fresh"
  ELSE IF row[a] = "pending" THEN "cleared"
  ELSE IF row[a] = "running" THEN "inDoubt"
  ELSE "recorded"]

Ledger ==
  INSTANCE AttemptLedger WITH
    Results <- Payload, NoResult <- None,
    status <- LedgerStatus, recorded <- stored

\* Through any number of processes, crashes, refusals and retries, an attempt's
\* target is called once per intent and opt-in, and its result recorded once.
KeepsLedger == Ledger!Spec
=============================================================================
