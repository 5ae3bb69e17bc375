----------------------------- MODULE MCAssets ------------------------------
(* One skin slot and one cape slot, one build with a poster and screenshots. *)
EXTENDS Assets, TLC

MCSymmetry ==
  Permutations(Slots) \cup Permutations(TCalls) \cup Permutations(MCalls)
=============================================================================
