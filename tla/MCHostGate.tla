----------------------------- MODULE MCHostGate -----------------------------
EXTENDS HostGate

\* At and around the class minimum, the floors and the Wilson boundary.
MCBaselines ==
  { [tp |-> right.p, fn |-> wrong.p, tn |-> right.n, fp |-> wrong.n,
     abstained |-> declined, errored |-> 0] :
      right \in [p : {30, 73}, n : {29, 72}], wrong \in [p : {0, 5}, n : {0, 1}],
      declined \in {0, 4} }

MCTerms ==
  [calibratedAt : {None, 1}, expiresAt : {2, 4}, threshold : {17, 20}, covered : BOOLEAN]

MCFingerprints == {None, "judge", "other"}
=============================================================================
