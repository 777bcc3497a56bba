-------------------------- MODULE MCDatasetCatalog -------------------------
EXTENDS DatasetCatalog, TLC

CONSTANTS c1, c2, c3, o1, o2

\* Two threads of one process, and a process of its own.
TwoAndOne == c1 :> o1 @@ c2 :> o1 @@ c3 :> o2
=============================================================================
