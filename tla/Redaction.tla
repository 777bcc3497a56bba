------------------------------ MODULE Redaction ------------------------------
(***************************************************************************)
(* apply_redaction (reporters/base.py): what a policy rewrites in a run    *)
(* before it is reported or exported, and what it has to leave alone.      *)
(*                                                                         *)
(* A policy is the set of texts its patterns match and the set of evidence *)
(* keys it drops.  A digest here is of the shape ArtifactStore mints, and  *)
(* "spill_code" is OUTPUT_SPILL_FAILED_CODE.                               *)
(***************************************************************************)
EXTENDS RunStatistics

CONSTANT Absent \* a field that is not there

Digests == {"digest1", "digest2"}

Marker == "[REDACTED]"

\* _redact_string, and _redact_json_value of a value that is one text.
Sweep(text, policy) ==
  IF text \in policy.matches THEN Marker ELSE text

\* The fields of a record that are swept; all others are as they were.
SweepFields(record, fields, policy) ==
  [f \in DOMAIN record |-> IF f \in fields THEN Sweep(record[f], policy) ELSE record[f]]

\* Mutant: every text of the manifest is free-form.
RedactWholeManifest(manifest, policy) == SweepFields(manifest, DOMAIN manifest, policy)

RedactManifest(manifest, policy) ==
  SweepFields(manifest, {"artifact_policy", "redaction_policy", "baseline_compatibility_rules",
                         "data_files"}, policy)

RedactDataset(dataset, policy) ==
  SweepFields(dataset, {"card_metadata", "schema_metadata", "selected_files"}, policy)

RedactSample(sample, policy) ==
  SweepFields(sample, {"input", "metadata", "expected_artifacts", "allowed_execution_policy",
                       "reference", "grader_parameters"}, policy)

\* The keys of evidence the policy names are dropped, the rest is swept.
RedactGrade(grade, policy) ==
  [SweepFields(grade, {"artifact_refs"}, policy) EXCEPT
     !.evidence = [key \in DOMAIN grade.evidence \ policy.drops |->
                     Sweep(grade.evidence[key], policy)],
     !.provenance = SweepFields(grade.provenance, DOMAIN grade.provenance, policy)]

\* The study of a row is evidence of its grade; one of whose actions is rewritten
\* is no valid label.
RedactLabel(label, policy) ==
  IF label = None \/ "study" \in policy.drops THEN None
  ELSE IF label = BadLabel \/ {label.expected, label.actual} \intersect policy.matches # {}
  THEN BadLabel
  ELSE label

RedactRow(row, policy) == [row EXCEPT !.label = RedactLabel(@, policy)]

(***************************************************************************)
(* artifacts is the target's, with whatever keys it likes: output_ref, and *)
(* the record of a failed spill under "spill", are the harness's own only  *)
(* when they look it.  All other values are texts here.                    *)
(***************************************************************************)
IsSpillRecord(artifacts) ==
  /\ "spill" \in DOMAIN artifacts /\ "code" \in DOMAIN artifacts.spill
  /\ artifacts.spill.code = "spill_code"

IsReference(artifacts, key) == key = "output_ref" /\ artifacts[key] \in Digests

RestoreArtifacts(artifacts, swept) ==
  [key \in DOMAIN swept |->
     IF key = "spill" /\ IsSpillRecord(artifacts) THEN [swept[key] EXCEPT !.code = "spill_code"]
     ELSE IF IsReference(artifacts, key) THEN artifacts[key]
     ELSE swept[key]]

SweepArtifacts(artifacts, policy) ==
  [key \in DOMAIN artifacts |->
     IF key = "spill" THEN SweepFields(artifacts[key], DOMAIN artifacts[key], policy)
     ELSE Sweep(artifacts[key], policy)]

RedactExecution(execution, policy) ==
  [SweepFields(execution, {"output", "structured_output", "error", "environment_metadata",
                           "tool_calls", "trace_refs"}, policy)
     EXCEPT !.artifacts = RestoreArtifacts(@, SweepArtifacts(@, policy))]

\* A run here has the rows of RunStatistics, whose label is all there is of the study,
\* beside the documents of its attempts.
ApplyRedaction(run, policy) ==
  [run EXCEPT
     !.manifest = RedactManifest(@, policy),
     !.dataset = RedactDataset(@, policy),
     !.rows = [slot \in DOMAIN @ |-> RedactRow(@[slot], policy)],
     !.documents = [slot \in DOMAIN @ |->
        [sample |-> RedactSample(@[slot].sample, policy),
         execution |-> RedactExecution(@[slot].execution, policy),
         grade |-> IF @[slot].grade = Absent THEN Absent
                   ELSE RedactGrade(@[slot].grade, policy)]]]
=============================================================================
