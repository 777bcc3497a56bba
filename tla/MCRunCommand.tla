---------------------------- MODULE MCRunCommand ----------------------------
EXTENDS RunCommand, TLC

Symmetry == Permutations(Attempts) \union Permutations(Commands)
=============================================================================
