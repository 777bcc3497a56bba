------------------------------ MODULE HostGate ------------------------------
(***************************************************************************)
(* A judge wrapped for a host platform (calibration_gate of                *)
(* integrations/mlflow.py, score_with_calibration_gate of langfuse.py):    *)
(* it holds the calibration it was wrapped with, and its authority is      *)
(* asked again for every row.  The host aggregates values by their name,   *)
(* so a verdict that must not count is published under another one.        *)
(***************************************************************************)
EXTENDS CalibrationHistory

CONSTANT Fingerprints \* what a caller may say of the live judge; None: nothing

VARIABLES
  gate,     \* the wrapped judge: its calibration, and the fingerprint it was given
  asked,    \* the row whose judge is at work: its authority and the day it was read
  published \* what the last row wrote

gateVars == <<gate, asked, published>>

Evidence == gate.artifact

GateInit == gate = None /\ asked = None /\ published = {}

\* A scorer is wrapped once, with a calibration or without one.
Wrap(calibration, fingerprint) ==
  /\ gate = None
  /\ gate' = [artifact |-> calibration, fingerprint |-> fingerprint]
  /\ UNCHANGED <<asked, published>>

Written(host, name, suffix, valued, day) ==
  [host |-> host, name |-> name, suffix |-> suffix, valued |-> valued, day |-> day]

Suffix(level) == IF level = "gating" THEN "" ELSE "advisory"

\* Mutant: a Feedback the judge built keeps the name it came with.
AttachToACopy(answer, suffix, day) ==
  IF answer = "several"
  THEN {Written("mlflow", name, suffix, TRUE, day) : name \in {"one", "another"}}
  ELSE {Written("mlflow", "judge", IF answer = "feedback" THEN "" ELSE suffix, TRUE, day)}

\* _attach_authority: the metrics of a list keep their names before the suffix.
AttachAuthority(answer, suffix, day) ==
  IF answer = "several"
  THEN {Written("mlflow", name, suffix, TRUE, day) : name \in {"one", "another"}}
  ELSE {Written("mlflow", "judge", suffix, TRUE, day)}

\* gated: the authority is read before the judge is called ...
Ask ==
  /\ gate # None /\ asked = None
  /\ LET level == Authority(Evidence, gate.fingerprint, now)
     IN IF level = "unavailable"
        THEN asked' = None /\ published' = {Written("mlflow", "judge", "", FALSE, now)}
        ELSE asked' = [level |-> level, day |-> now] /\ published' = {}
  /\ UNCHANGED gate

\* ... and used when it has answered, with a value, a Feedback or several.
Answer(answer) ==
  /\ asked # None
  /\ published' = AttachAuthority(answer, Suffix(asked.level), asked.day)
  /\ asked' = None
  /\ UNCHANGED gate

\* score_with_calibration_gate is called with the judge's value.
Score ==
  /\ gate # None /\ asked = None
  /\ LET level == Authority(Evidence, gate.fingerprint, now)
     IN published' =
          {IF level = "unavailable" THEN Written("langfuse", "judge", "unavailable", FALSE, now)
           ELSE Written("langfuse", "judge", Suffix(level), TRUE, now)}
  /\ UNCHANGED <<gate, asked>>

GateStep ==
  \/ \E calibration \in {artifact, None}, f \in Fingerprints : Wrap(calibration, f)
  \/ Ask
  \/ \E answer \in {"bare", "feedback", "several"} : Answer(answer)
  \/ Score

HostGateInit == Init /\ GateInit
HostGateNext == (Next /\ UNCHANGED gateVars) \/ (GateStep /\ UNCHANGED vars)
HostGateSpec == HostGateInit /\ [][HostGateNext]_<<vars, gateVars>>
-----------------------------------------------------------------------------
\* mlflow.py:714-723, langfuse.py:376-385: a value that counts on a host, whichever
\* way the judge answered and however long it took, was asked for on a day when the
\* calibration in hand was of this judge, neither expired nor too old, and had been
\* measured on enough negatives; labels added since it was wrapped do not help it.
GatingNameNeedsLiveEvidence ==
  \A entry \in published : entry.suffix = "" /\ entry.valued =>
    /\ Evidence # None
    /\ gate.fingerprint \in {None, Evidence.fingerprint}
    /\ Evidence.calibratedAt # None
    /\ entry.day \in Evidence.calibratedAt..(Evidence.calibratedAt + MaxAge)
    /\ entry.day < Evidence.expiresAt
    /\ Negatives(Evidence.counts) >= 73
=============================================================================
