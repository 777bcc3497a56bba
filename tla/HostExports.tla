----------------------------- MODULE HostExports -----------------------------
(***************************************************************************)
(* log_eval_run (integrations/mlflow.py): a finished run is written to a   *)
(* tracking server call by call.  A call may fail before or after the      *)
(* server did it, the process may be killed between two calls, and several *)
(* exports to one experiment may be under way at once.                     *)
(***************************************************************************)
CONSTANTS
  Exports,   \* calls of log_eval_run
  Calibrated \* those that are given the calibration of the run's judge

VARIABLES
  experiment, \* the named experiment is on the server
  pc,         \* where log_eval_run is
  status,     \* of the MLflow run it created: "absent" before that
  holds       \* what that MLflow run holds

exportVars == <<experiment, pc, status, holds>>

Parts == {"tags", "batch", "body", "calibration"}

Working == {"resolve", "create_experiment", "create", "batch", "body", "calibration",
            "finish", "fail"}

ExportInit ==
  /\ experiment = FALSE
  /\ pc = [e \in Exports |-> "resolve"]
  /\ status = [e \in Exports |-> "absent"]
  /\ holds = [e \in Exports |-> {}]

Goto(e, next) == pc' = [pc EXCEPT ![e] = next]

\* _resolve_experiment_id looks the experiment up and creates it when it is not there.
Resolve(e) ==
  /\ pc[e] = "resolve"
  /\ Goto(e, IF experiment THEN "create" ELSE "create_experiment")
  /\ UNCHANGED <<experiment, status, holds>>

\* The server refuses a name it has; nothing is on the server of this export yet.
CreateExperiment(e) ==
  /\ pc[e] = "create_experiment"
  /\ experiment' = TRUE
  /\ Goto(e, IF experiment THEN "raised" ELSE "create")
  /\ UNCHANGED <<status, holds>>

\* create_run writes the tags with the run.
CreateRun(e) ==
  /\ pc[e] = "create"
  /\ status' = [status EXCEPT ![e] = "RUNNING"]
  /\ holds' = [holds EXCEPT ![e] = {"tags"}]
  /\ Goto(e, "batch")
  /\ UNCHANGED experiment

Write(e, part) ==
  /\ holds' = [holds EXCEPT ![e] = @ \union {part}]
  /\ UNCHANGED <<experiment, status>>

\* log_batch: metrics and params.
LogBatch(e) == pc[e] = "batch" /\ Write(e, "batch") /\ Goto(e, "body")

\* log_dict of run.json and of calibration.json.
LogBody(e) ==
  /\ pc[e] = "body" /\ Write(e, "body")
  /\ Goto(e, IF e \in Calibrated THEN "calibration" ELSE "finish")

LogCalibration(e) == pc[e] = "calibration" /\ Write(e, "calibration") /\ Goto(e, "finish")

Terminate(e, final) ==
  /\ status' = [status EXCEPT ![e] = final]
  /\ UNCHANGED <<experiment, holds>>

Finish(e) == pc[e] = "finish" /\ Terminate(e, "FINISHED") /\ Goto(e, "returned")

\* Mutant: the run is terminated in a finally clause.
FailInFinally(e) == pc[e] = "fail" /\ Terminate(e, "FINISHED") /\ Goto(e, "raised")

\* except Exception: the run is marked and the exception goes on.
Fail(e) == pc[e] = "fail" /\ Terminate(e, "FAILED") /\ Goto(e, "raised")

\* A call raises: set_terminated is outside the try, and so is what precedes it.
Raise(e) ==
  /\ Goto(e, IF pc[e] \in {"batch", "body", "calibration"} THEN "fail" ELSE "raised")

\* The server did nothing of the call that raised ...
CallFails(e) ==
  /\ pc[e] \in Working /\ Raise(e)
  /\ UNCHANGED <<experiment, status, holds>>

\* ... or did it, and only the answer was lost.
AnswerLost(e) ==
  /\ Raise(e)
  /\ \/ pc[e] = "create_experiment" /\ experiment' = TRUE /\ UNCHANGED <<status, holds>>
     \/ /\ pc[e] = "create"
        /\ status' = [status EXCEPT ![e] = "RUNNING"]
        /\ holds' = [holds EXCEPT ![e] = {"tags"}]
        /\ UNCHANGED experiment
     \/ pc[e] \in {"batch", "body", "calibration"} /\ Write(e, pc[e])
     \/ pc[e] = "finish" /\ Terminate(e, "FINISHED")
     \/ pc[e] = "fail" /\ Terminate(e, "FAILED")

Kill(e) ==
  /\ pc[e] \in Working
  /\ Goto(e, "killed")
  /\ UNCHANGED <<experiment, status, holds>>

ExportStep(e) ==
  \/ Resolve(e) \/ CreateExperiment(e) \/ CreateRun(e)
  \/ LogBatch(e) \/ LogBody(e) \/ LogCalibration(e)
  \/ Finish(e) \/ Fail(e)
  \/ CallFails(e) \/ AnswerLost(e) \/ Kill(e)

ExportNext == \E e \in Exports : ExportStep(e)

ExportSpec == ExportInit /\ [][ExportNext]_exportVars
-----------------------------------------------------------------------------
ExportTypeOK ==
  /\ experiment \in BOOLEAN
  /\ pc \in [Exports -> Working \union {"returned", "raised", "killed"}]
  /\ status \in [Exports -> {"absent", "RUNNING", "FINISHED", "FAILED"}]
  /\ holds \in [Exports -> SUBSET Parts]

Whole(e) ==
  {"tags", "batch", "body"} \union (IF e \in Calibrated THEN {"calibration"} ELSE {})

\* mlflow.py:433-446: on the server a finished export is a complete one, whichever
\* call failed, was lost or never came; a run the caller got an id of is finished,
\* and one that is marked failed is of a call that raised or was killed raising.
FinishedExportsAreWhole ==
  \A e \in Exports :
    /\ status[e] = "FINISHED" => holds[e] = Whole(e)
    /\ pc[e] = "returned" => status[e] = "FINISHED"
    /\ status[e] = "FAILED" => pc[e] = "raised"
=============================================================================
