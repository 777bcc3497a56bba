---------------------------- MODULE RunComparison ----------------------------
(***************************************************************************)
(* The three comparisons of two runs: compare_runs (stats/compare.py), the *)
(* arms of an experiment (stats/experiment.py) and the arms of a study     *)
(* (stats/study_compare.py).  They pair the attempts of the two runs and   *)
(* differ in what they do with an attempt that has no counterpart or no    *)
(* verdict.                                                                *)
(***************************************************************************)
EXTENDS RunStatistics

SumOf(deltas) == SumFunction(deltas)

Delta(left, right) ==
  (IF IsPass(right) THEN 1 ELSE 0) - (IF IsPass(left) THEN 1 ELSE 0)

(***************************************************************************)
(* compare_runs: attempts are paired, samples are resampled.               *)
(***************************************************************************)
\* Mutant: an attempt one run lacks counts as not passed.
DeltasZeroFilled(left, right) ==
  [key \in DOMAIN left \union DOMAIN right |->
     (IF key \in DOMAIN right /\ IsPass(right[key]) THEN 1 ELSE 0)
     - (IF key \in DOMAIN left /\ IsPass(left[key]) THEN 1 ELSE 0)]

Deltas(left, right) ==
  [key \in DOMAIN left \intersect DOMAIN right |-> Delta(left[key], right[key])]

\* _clusters: the deltas of one sample, as their sum and their number.
Clusters(deltas) ==
  [sample \in SamplesOf(deltas) |->
     LET keys == AttemptsOf(deltas, sample)
     IN <<SumFunctionOnSet(deltas, keys), Cardinality(keys)>>]

\* One resample takes as many units as there are, with replacement.
Draws(units) == [DOMAIN units -> DOMAIN units]

\* Every mean a seeded _bootstrap_percentiles can sort: the percentiles it
\* returns lie between the least and the greatest of them.
AttemptResamples(deltas) ==
  {<<SumOf([i \in DOMAIN deltas |-> deltas[draw[i]]]), Cardinality(DOMAIN deltas)>> :
     draw \in Draws(deltas)}

\* _cluster_bootstrap_percentiles: drawn deltas over drawn attempts.
ClusterResamples(clusters) ==
  {<<SumOf([i \in DOMAIN clusters |-> clusters[draw[i]][1]]),
     SumOf([i \in DOMAIN clusters |-> clusters[draw[i]][2]])>> : draw \in Draws(clusters)}

CompareRuns(left, right) ==
  LET deltas == Deltas(left, right)
      clusters == Clusters(deltas)
      paired == Cardinality(DOMAIN deltas)
      samples == Cardinality(DOMAIN clusters)
  IN IF paired = 0 THEN Refused
     ELSE [refused |-> FALSE,
           estimate |-> <<SumOf(deltas), paired>>,
           paired |-> paired,
           samples |-> samples,
           resamples |-> IF samples = paired \/ samples < 2 THEN AttemptResamples(deltas)
                         ELSE ClusterResamples(clusters)]

(***************************************************************************)
(* compare_experiment_arms and compare_study_runs: instances are paired,   *)
(* an instance succeeds when all of its attempts do.                       *)
(***************************************************************************)
AllOf(sample) == {<<sample, attempt>> : attempt \in 1..Attempts}

\* The exact two-sided p-value of the discordant pairs.
McNemar(leftOnly, rightOnly) ==
  LET discordant == leftOnly + rightOnly
      fewer == Min({leftOnly, rightOnly})
      tail == MapThenSumSet(LAMBDA k : choose(discordant, k), 0..fewer)
  IN <<Min({2 * tail, 2 ^ discordant}), 2 ^ discordant>>

\* outcomes: for every instance that counts, whether each arm succeeded.
Paired(outcomes, excluded) ==
  LET only(i) == Quantify(DOMAIN outcomes, LAMBDA s : outcomes[s][i] /\ ~outcomes[s][3 - i])
  IN [refused |-> FALSE,
      outcomes |-> outcomes,
      excluded |-> excluded,
      delta |-> <<only(2) - only(1), Cardinality(DOMAIN outcomes)>>,
      p |-> McNemar(only(1), only(2))]

\* The instances all of whose attempts count in both arms.
Pairable(instances, left, right) ==
  {sample \in instances : AllOf(sample) \subseteq left /\ AllOf(sample) \subseteq right}

\* counts: the attempts of each arm that count; won: those that succeeded.
PairInstances(left, right, counts, won) ==
  LET pairable == Pairable(SamplesOf(left), counts[1], counts[2])
  IN IF DOMAIN left # DOMAIN right \/ pairable = {} THEN Refused
     ELSE Paired([sample \in pairable |->
                    <<AllOf(sample) \subseteq won[1], AllOf(sample) \subseteq won[2]>>],
                 Cardinality(SamplesOf(left) \ pairable))

DefinitiveAttempts(rows) == {slot \in DOMAIN rows : Definitive(rows[slot])}
PassedAttempts(rows) == {slot \in DOMAIN rows : IsPass(rows[slot])}

CompareArms(left, right) ==
  PairInstances(left, right, <<DefinitiveAttempts(left), DefinitiveAttempts(right)>>,
                             <<PassedAttempts(left), PassedAttempts(right)>>)

\* Mutant: an accepted answer is legitimate whenever acceptance was expected.
LegitimateWhenExpected(label) ==
  IF label.actual = "accepted" THEN label.expected = "accept" ELSE label.expected = "reject"

\* study_compare.py _legitimate.
Legitimate(label) ==
  IF label.actual = "accepted" THEN label.expected = "accept" /\ label.correct
  ELSE label.expected = "reject"

\* _pairable_attempt: a labelled row counts when it is definitive.
LegitimateAttempts(rows) == {slot \in Labelled(rows) : Legitimate(rows[slot].label)}

\* _compare_pair: the identities are compared before any label is read.
CompareStudies(left, right) ==
  IF DOMAIN left = DOMAIN right /\ (Malformed(left) \/ Malformed(right)) THEN Refused
  ELSE PairInstances(left, right, <<Labelled(left), Labelled(right)>>,
                                  <<LegitimateAttempts(left), LegitimateAttempts(right)>>)
=============================================================================
