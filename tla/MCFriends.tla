----------------------------- MODULE MCFriends -----------------------------
(* Instances of Friends for TLC.                                             *)
EXTENDS Friends, TLC

Symmetry == Permutations(Reqs) \cup Permutations(Calls)

=============================================================================
