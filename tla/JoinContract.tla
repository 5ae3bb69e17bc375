---------------------------- MODULE JoinContract ----------------------------
(***************************************************************************)
(* What the session server promises a game server, without the users       *)
(* table, the map and its clock: an announcement is open until a newer one *)
(* for the same server replaces it, it lapses, or one hasJoined claims it; *)
(* a claimed announcement is answered at most once, and only what was      *)
(* announced is answered (join_sessions.rs, "Contract section 5").         *)
(***************************************************************************)

VARIABLES
  open, claimed, answered  \* sets of announcements [n, server, user]

Init == open = {} /\ claimed = {} /\ answered = {}

\* A number never used before; at most one announcement per server is open.
Announce(a) ==
  /\ \A b \in open \cup claimed \cup answered : b.n # a.n
  /\ a \in open'
  /\ open' \subseteq {b \in open : b.server # a.server} \cup {a}
  /\ UNCHANGED <<claimed, answered>>

\* Claiming also sweeps announcements that lapsed.
Claim(a) ==
  /\ a \in open
  /\ open' \subseteq open \ {a}
  /\ claimed' = claimed \cup {a}
  /\ UNCHANGED answered

Answer(a) ==
  /\ a \in claimed
  /\ claimed' = claimed \ {a}
  /\ answered' = answered \cup {a}
  /\ UNCHANGED open

\* Lapsed, refused, or lost with the process.
Lose ==
  /\ open' \subseteq open /\ claimed' \subseteq claimed
  /\ UNCHANGED answered

Next ==
  \/ \E a \in open' : Announce(a)
  \/ \E a \in open : Claim(a)
  \/ \E a \in claimed : Answer(a)
  \/ Lose

Spec == Init /\ [][Next]_<<open, claimed, answered>>
=============================================================================
