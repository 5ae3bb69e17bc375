----------------------------- MODULE MCIdentity -----------------------------
EXTENDS Identity, TLC

MCSymmetry == Permutations(Names) \cup Permutations(Calls)
=============================================================================
