----------------------------- MODULE MCPresence -----------------------------
(* Instances of Presence for TLC: one user, who hosts every world and owns   *)
(* every socket; users share no state of this module.                        *)
EXTENDS Presence, TLC

CONSTANT U

SocketOwner == [c \in Conns |-> U]
WorldHost == [w \in Worlds |-> U]

Symmetry == UNION {Permutations(S) : S \in {Conns, Worlds, Posts}}

=============================================================================
