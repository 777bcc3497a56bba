-------------------------- MODULE MCRunCheckpoint --------------------------
EXTENDS RunCheckpointLedger

\* Invocations are alike, so they are numbered in the order they are started in.
\* Fairness asks nobody to start: no fair step leaves the constraint.
StartedInOrder ==
  \A p, q \in Processes : p < q /\ pc[q] # "new" => pc[p] # "new"
=============================================================================
