----------------------------- MODULE MCRunReport -----------------------------
EXTENDS ExportedRuns, TLC

Label(expected, actual, correct) ==
  [expected |-> expected, actual |-> actual, correct |-> correct]

Graded(grade, score, label) ==
  [execution |-> "completed", grade |-> grade, score |-> score, label |-> label]

Ungraded(execution) ==
  [execution |-> execution, grade |-> None, score |-> None, label |-> None]

Passed == Graded("pass", 2, Label("accept", "accepted", TRUE))
Failed == Graded("fail", 0, Label("accept", "accepted", FALSE))
Undecided == Graded("partial", 1, Label("reject", "rejected", FALSE))
Mislabelled == Graded("abstain", None, BadLabel)

MCLeftOutcomes == {Passed, Failed, Undecided, Mislabelled,
                   Ungraded("failed"), Ungraded("completed")}
MCRightOutcomes == {Passed, Failed}

Symmetry == Permutations(Samples)

Plain == [f \in DatasetFields \union ProvenanceFields \union
            {"artifact_policy", "redaction_policy", "baseline_compatibility_rules", "data_files",
             "card_metadata", "schema_metadata", "selected_files"} |-> "plain"]

\* An output in the store, and one that could not be stored.
Stored == [output_ref |-> "digest1", note |-> "secret"]
Spilled == [output_ref |-> "secret", spill |-> [code |-> "spill_code", message |-> "secret"]]

Document(artifacts) ==
  [sample |-> [input |-> "secret"],
   execution |-> [output |-> "plain", error |-> "secret", artifacts |-> artifacts],
   grade |-> [evidence |-> [note |-> "plain", detail |-> "secret"],
              provenance |-> [command |-> "secret"], artifact_refs |-> "secret"]]

NoPolicy == [matches |-> {}, drops |-> {}]
Credentials == [matches |-> {"secret"}, drops |-> {"detail", "study"}]
LongHex ==
  [matches |-> {"secret", "digest1", "digest2", "spill_code", "rejected"}, drops |-> {}]

AllFields == DatasetFields \union ProvenanceFields
BeforeADR0015 == AllFields \ Waivable

Exported(field, value, policy, known, artifacts) ==
  LET identity == [Plain EXCEPT ![field] = value, !["baseline_compatibility_rules"] = "secret"]
  IN [manifest |-> identity, dataset |-> identity, document |-> Document(artifacts),
      policy |-> policy, known |-> known]

Case(field, values, policies, known, crossEnvironment) ==
  [left |-> Exported(field, values[1], policies[1], AllFields, Stored),
   right |-> Exported(field, values[2], policies[2], known, Spilled),
   crossEnvironment |-> crossEnvironment]

MCCases ==
  {Case("adapter", values, <<Credentials, LongHex>>, known, TRUE) :
     values \in {<<"digest1", "digest1">>, <<"digest1", "digest2">>},
     known \in {AllFields, BeforeADR0015}}
  \union
  {Case("code_fingerprint", values, policies, known, crossEnvironment) :
     values \in {<<"digest1", "digest1">>, <<"digest1", "digest2">>, <<None, "None">>},
     policies \in {<<LongHex, NoPolicy>>}, known \in {AllFields, BeforeADR0015},
     crossEnvironment \in BOOLEAN}
  \union
  {Case("target_fingerprint", <<None, "None">>, <<Credentials, LongHex>>, AllFields, FALSE),
   Case("revision", <<"secret", "secret">>, <<NoPolicy, Credentials>>, AllFields, FALSE),
   Case("revision", <<"secret", "plain">>, <<Credentials, Credentials>>, AllFields, FALSE)}
=============================================================================
