--------------------------- MODULE HostComparison ---------------------------
(***************************************************************************)
(* When two runs may be compared (stats/compare.py), and the comparison of *)
(* two exported runs (integrations/mlflow.py compare_mlflow_runs): tags    *)
(* are compared before bodies are downloaded, and only the bodies decide.  *)
(***************************************************************************)
EXTENDS RunComparison, Redaction

\* _DATASET_CHECKS and _PROVENANCE_CHECKS.
DatasetFields == {"dataset_id", "revision", "config", "split"}

ProvenanceFields ==
  {"adapter", "grader", "target_name", "target_fingerprint_policy", "target_fingerprint",
   "sampling.temperature", "sampling.seed", "attempts", "environment_fingerprint",
   "code_fingerprint"}

Waivable == {"environment_fingerprint", "code_fingerprint"}

Differing(one, other) == {f \in DOMAIN one \intersect DOMAIN other : one[f] # other[f]}

\* _describe_mismatches: what blocks the comparison ...
Mismatches(left, right, crossEnvironment) ==
  (Differing(left.dataset, right.dataset) \intersect DatasetFields)
    \union ((Differing(left.manifest, right.manifest) \intersect ProvenanceFields)
              \ (IF crossEnvironment THEN Waivable ELSE {}))

\* ... and what differs without blocking it.
Waived(left, right, crossEnvironment) ==
  IF crossEnvironment THEN Differing(left.manifest, right.manifest) \intersect Waivable ELSE {}

\* compare_runs of two run results; refused when it raises IncompatibleRuns.
CompareEvalRuns(left, right, crossEnvironment) ==
  LET comparison == CompareRuns(left.rows, right.rows)
  IN IF Mismatches(left, right, crossEnvironment) # {} \/ comparison.refused THEN Refused
     ELSE [refused |-> FALSE, comparison |-> comparison, waived |-> Waived(left, right, crossEnvironment)]

\* str(value): None and the text "None" are rendered alike.
Render(value) == IF value = None THEN "None" ELSE value

\* comparability_snapshot.
Snapshot(run) ==
  [f \in DatasetFields \union ProvenanceFields |->
     Render(IF f \in DatasetFields THEN run.dataset[f] ELSE run.manifest[f])]

\* _provenance_tags; an exporter of another version wrote the fields it knew.
ProvenanceTags(run, known) == Restrict(Snapshot(run), known)

SnapshotMismatches(left, right, crossEnvironment) ==
  Differing(left, right) \ (IF crossEnvironment THEN Waivable ELSE {})

\* left, right: the tags of an exported run, and its body when that was logged.
CompareExports(left, right, crossEnvironment) ==
  IF \/ SnapshotMismatches(left.tags, right.tags, crossEnvironment) # {}
     \/ ~left.logged \/ ~right.logged
  THEN Refused
  ELSE CompareEvalRuns(left.body, right.body, crossEnvironment)
=============================================================================
