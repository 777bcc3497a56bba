------------------------ MODULE CalibrationEvidence ------------------------
(***************************************************************************)
(* What a calibration artifact entitles a judge to (graders/calibration.py *)
(* and the Wilson bound of stats/aggregate.py), and how one labeled sample *)
(* changes its counts (graders/measure.py).  Rates are compared as         *)
(* fractions: a rate constant r stands for r / Scale.                      *)
(***************************************************************************)
EXTENDS PythonNone, Naturals

CONSTANTS
  Scale,              \* the denominator of the rates below
  MinTNR, MinTPR,     \* PROJECT_MIN_TNR, PROJECT_MIN_TPR
  MaxNonVerdictRate,  \* PROJECT_MAX_NON_VERDICT_RATE
  MinimumClass,       \* _MINIMUM_CLASS_SAMPLE_COUNT
  MaxAge,             \* PROJECT_MAX_CALIBRATION_AGE_DAYS
  ZSquared            \* the square of _Z_95, in ten-thousandths

ASSUME RatesAssumption ==
  /\ Scale \in Nat \ {0}
  /\ {MinTNR, MinTPR, MaxNonVerdictRate} \subseteq 0..Scale
  /\ {MinimumClass, MaxAge, ZSquared} \subseteq Nat
  /\ None \notin Nat

Labels == {"good", "bad"}
Outcomes == {"good", "bad", "abstained", "errored"}
Counters == {"tp", "tn", "fp", "fn", "abstained", "errored"}

\* total is None in records older than the coverage fields.
Artifacts(Fingerprints) ==
  [fingerprint : Fingerprints, calibratedAt : Nat \union {None}, expiresAt : Nat,
   threshold : 0..Scale, total : Nat \union {None}, counts : [Counters -> Nat]]

NoCounts == [c \in Counters |-> 0]

\* Where an answer about a sample of this label lands.
CounterOf(label, outcome) ==
  IF outcome \in {"abstained", "errored"} THEN outcome
  ELSE IF label = "good" THEN (IF outcome = "good" THEN "tp" ELSE "fn")
  ELSE (IF outcome = "bad" THEN "tn" ELSE "fp")

Count(counts, label, outcome) ==
  [counts EXCEPT ![CounterOf(label, outcome)] = @ + 1]

Positives(counts) == counts["tp"] + counts["fn"]
Negatives(counts) == counts["tn"] + counts["fp"]
NonVerdicts(counts) == counts["abstained"] + counts["errored"]

Below(successes, total, rate) == successes * Scale < rate * total

\* The lower end of the 95% Wilson interval of successes/total is under rate:
\* the proportion p is, or (p - rate)^2 < z^2 rate (1 - rate) / total.
WilsonBelow(successes, total, rate) ==
  LET excess == successes * Scale - rate * total IN
  /\ total > 0
  /\ \/ Below(successes, total, rate)
     \/ excess * excess * 10000 < ZSquared * rate * (Scale - rate) * total

Expired(a, now) == a.expiresAt <= now

Thin(counts) == Positives(counts) < MinimumClass \/ Negatives(counts) < MinimumClass

BelowFloor(a) ==
  /\ ~Thin(a.counts)
  /\ \/ Below(a.counts["tn"], Negatives(a.counts), MinTNR)
     \/ Below(a.counts["tp"], Positives(a.counts), MinTPR)

BadAge(a, now) ==
  \/ a.calibratedAt = None
  \/ a.calibratedAt > now
  \/ now - a.calibratedAt > MaxAge

LowCoverage(a) ==
  /\ a.total # None
  /\ a.total > 0
  /\ NonVerdicts(a.counts) * Scale > MaxNonVerdictRate * a.total

BelowThreshold(a) ==
  \/ Positives(a.counts) = 0 \/ Below(a.counts["tp"], Positives(a.counts), a.threshold)
  \/ Negatives(a.counts) = 0 \/ Below(a.counts["tn"], Negatives(a.counts), a.threshold)

\* Mutant: the point estimate is all that is looked at (before ADR-0020).
UnluckyByPointEstimate(counts) ==
  \/ Below(counts["tn"], Negatives(counts), MinTNR)
  \/ Below(counts["tp"], Positives(counts), MinTPR)

Unlucky(counts) ==
  \/ WilsonBelow(counts["tn"], Negatives(counts), MinTNR)
  \/ WilsonBelow(counts["tp"], Positives(counts), MinTPR)

\* usability_failure_reason: it cannot gate.
Unusable(a, now) ==
  \/ Expired(a, now)
  \/ Thin(a.counts)
  \/ BelowThreshold(a)
  \/ BadAge(a, now)
  \/ LowCoverage(a)
  \/ Unlucky(a.counts)

\* Mutant: an expired calibration only fails to gate.
ProvenBadIfMeasured(a, now) == BelowFloor(a) /\ ~Expired(a, now)

\* There is proof that it is bad.
ProvenBad(a, now) == Expired(a, now) \/ BelowFloor(a)

\* judge_authority; fingerprint is None when the caller has none to compare.
Authority(a, fingerprint, now) ==
  IF a = None THEN "advisory"
  ELSE IF ProvenBad(a, now) THEN "unavailable"
  ELSE IF fingerprint # None /\ a.fingerprint # fingerprint THEN "advisory"
  ELSE IF Unusable(a, now) THEN "advisory"
  ELSE "gating"

Levels == {"unavailable", "advisory", "gating"}
Rank(level) == IF level = "gating" THEN 2 ELSE IF level = "advisory" THEN 1 ELSE 0
=============================================================================
