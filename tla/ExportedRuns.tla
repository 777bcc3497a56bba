---------------------------- MODULE ExportedRuns ----------------------------
(***************************************************************************)
(* The two runs of RunReport, exported to a tracking server and compared   *)
(* there.  A run is exported once it is over: from the first call of an    *)
(* export on, nothing is recorded any more.                                *)
(***************************************************************************)
EXTENDS RunReport, HostComparison, HostExports

CONSTANTS
  Cases,      \* what else there is to know of the two runs and their exporters
  MaxExported \* bound: exports are explored for two runs of so many attempts, the same

\* The exports of the two runs; whatever else is being exported is of other runs.
Sides == {"left", "right"}

ASSUME ExportsAssumption == Sides \subseteq Exports

\* A run result has every field its model declares (models/runs.py, datasets.py,
\* execution.py), and an exporter wrote some of the fields compare_runs compares.
ASSUME CasesAssumption == \A case \in Cases : \A e \in Sides :
  /\ ProvenanceFields \subseteq DOMAIN case[e].manifest
  /\ DatasetFields \subseteq DOMAIN case[e].dataset
  /\ "artifacts" \in DOMAIN case[e].document.execution
  /\ case[e].known \subseteq DatasetFields \union ProvenanceFields

\* Either run as a whole: its rows with the manifest, dataset and documents of the case.
EvalRun(e, case) ==
  LET rows == IF e = "left" THEN left ELSE right
  IN [manifest |-> case[e].manifest, dataset |-> case[e].dataset, rows |-> rows,
      documents |-> [slot \in DOMAIN rows |-> case[e].document]]

\* log_eval_run redacts once, before anything is sent.
Redacted(e, case) == ApplyRedaction(EvalRun(e, case), case[e].policy)

\* get_run and download_artifacts of what is on the server of an export by now.
Downloaded(e, case) ==
  [tags |-> ProvenanceTags(Redacted(e, case), case[e].known),
   logged |-> "body" \in holds[e],
   body |-> Redacted(e, case)]

NothingExported == ~experiment /\ \A e \in Exports : pc[e] = "resolve"

Record == NothingExported /\ ReportNext /\ UNCHANGED exportVars

Export ==
  /\ DOMAIN left = DOMAIN right /\ Cardinality(DOMAIN left) <= MaxExported
  /\ ExportNext
  /\ UNCHANGED reportVars

ExportedInit == ReportInit /\ ExportInit
ExportedNext == Record \/ Export
ExportedSpec == ExportedInit /\ [][ExportedNext]_<<reportVars, exportVars>>
-----------------------------------------------------------------------------
\* mlflow.py:478-512 and compare.py:313: whatever policy each of two runs was
\* exported under, by whatever version, and wherever their exports stopped, the
\* comparison on the server is the comparison of the runs themselves, and it is
\* refused where a body is missing.  The tags never refuse a pair compare_runs
\* accepts.
HostCompareAgrees ==
  (\A e \in Sides : "tags" \in holds[e]) => \A case \in Cases :
    CompareExports(Downloaded("left", case), Downloaded("right", case), case.crossEnvironment)
      = IF \A e \in Sides : "body" \in holds[e]
        THEN CompareEvalRuns(EvalRun("left", case), EvalRun("right", case),
                             case.crossEnvironment)
        ELSE Refused

\* reporters/base.py:373: in an exported body a reference to stored output still
\* names it, and a record of output that could not be stored is still recognised;
\* whatever else the target put there, under output_ref too, is swept.
IdentifiersSurvive ==
  \A e \in Sides : "body" \in holds[e] => \A case \in Cases :
    LET run == EvalRun(e, case)
        sent == Redacted(e, case)
    IN \A slot \in DOMAIN run.rows :
         LET before == run.documents[slot].execution.artifacts
             after == sent.documents[slot].execution.artifacts
         IN /\ \A key \in DOMAIN before \ {"spill"} :
                 IF IsReference(before, key) THEN after[key] = before[key]
                 ELSE after[key] \notin case[e].policy.matches \ {Marker}
            /\ IsSpillRecord(before) <=> IsSpillRecord(after)

\* What is on the server of two runs says of them what they say themselves, to a
\* comparison and to whoever looks for their outputs.
ExportSaysTheSame == HostCompareAgrees /\ IdentifiersSurvive
=============================================================================
