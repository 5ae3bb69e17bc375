---------------------------- MODULE MCAdmission ----------------------------
(* Instances of Admission for TLC.                                           *)
EXTENDS Admission, TLC

Symmetry == Permutations(Items) \cup Permutations(Calls) \cup Permutations(Guests)

=============================================================================
