------------------------ MODULE CalibrationHistory ------------------------
(***************************************************************************)
(* One calibration over time: the labeled set it is measured on grows by a *)
(* sample, or a day passes.  Authority is read off it in every state.      *)
(***************************************************************************)
EXTENDS CalibrationEvidence

CONSTANTS
  Baselines,  \* the counts a measurement may stand at when it is looked at
  Terms,      \* [calibratedAt, expiresAt, threshold, covered] to start from
  MaxSamples, \* bound on the samples added to a baseline
  LastDay     \* bound on the clock

ASSUME HistoryAssumption ==
  /\ Baselines \subseteq [Counters -> Nat]
  /\ Terms \subseteq [calibratedAt : Nat \union {None}, expiresAt : Nat,
                     threshold : 0..Scale, covered : BOOLEAN]
  /\ {MaxSamples, LastDay} \subseteq Nat

VARIABLES artifact, now, added

vars == <<artifact, now, added>>

Total(counts) == Positives(counts) + Negatives(counts) + NonVerdicts(counts)

Init ==
  /\ \E counts \in Baselines, t \in Terms :
       artifact = [fingerprint |-> "judge", calibratedAt |-> t.calibratedAt,
                   expiresAt |-> t.expiresAt, threshold |-> t.threshold,
                   total |-> IF t.covered THEN Total(counts) ELSE None,
                   counts |-> counts]
  /\ now = 0
  /\ added = 0

\* measure_calibration: one more row of the labeled set.
MeasureSample(label, outcome) ==
  /\ added < MaxSamples
  /\ added' = added + 1
  /\ LET counts == Count(artifact.counts, label, outcome) IN
     artifact' = [artifact EXCEPT
       !.counts = counts, !.total = IF @ = None THEN None ELSE Total(counts)]
  /\ UNCHANGED now

Day ==
  /\ now < LastDay
  /\ now' = now + 1
  /\ UNCHANGED <<artifact, added>>

Next ==
  \/ \E label \in Labels, outcome \in Outcomes : MeasureSample(label, outcome)
  \/ Day

Spec == Init /\ [][Next]_vars

Level == Authority(artifact, "judge", now)

\* Once a calibration's date has come, time only takes authority away: no
\* order of the expiry, age and floor checks lets it come back
\* (calibration.py 185-223, 318-359).
AuthorityDecays ==
  [][now' > now /\ artifact.calibratedAt # None /\ artifact.calibratedAt <= now
       => Rank(Level') <= Rank(Level)]_vars

\* "at a perfect true-negative rate the 95% Wilson lower bound reaches the 0.95
\* floor only at 73 negative samples" (docs/adr/0024 167-168): nothing less
\* gates, and a judge never wrong on 73 of each class is not held back by it.
SeventyThreeNegatives ==
  /\ Level = "gating" => Negatives(artifact.counts) >= 73
  /\ artifact.counts["fp"] + artifact.counts["fn"] = 0
       /\ Negatives(artifact.counts) >= 73 /\ Positives(artifact.counts) >= 73
       => ~Unlucky(artifact.counts)

(***************************************************************************)
(* What the documents say and this model refutes (README, section 6).      *)
(***************************************************************************)
\* "A judge therefore cannot improve its measured accuracy by declining the
\* questions it would have got wrong" (docs/adr/0024 50-51): declining the next
\* question leaves no class with a better rate than answering it wrongly.
DecliningDoesNotHelp ==
  \A label \in Labels :
    LET wrong == Count(artifact.counts, label, IF label = "good" THEN "bad" ELSE "good")
        declined == Count(artifact.counts, label, "abstained")
    IN /\ declined["tp"] * Positives(wrong) <= wrong["tp"] * Positives(declined)
       /\ declined["tn"] * Negatives(wrong) <= wrong["tn"] * Negatives(declined)
===========================================================================
