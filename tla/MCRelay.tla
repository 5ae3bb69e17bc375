------------------------------ MODULE MCRelay ------------------------------
(* Instances of Relay for TLC: one host, and host and guest connections to   *)
(* one or to two relay sessions.                                             *)
EXTENDS Relay, TLC

CONSTANTS
    H,            \* the host of every world of the instance
    HostConns,    \* the connections with role=host
    SecondRelay,  \* the connections to relay session R2; the others go to R1
    R1, R2

OneHost == [w \in Worlds |-> H]
RoleByConn == [c \in Conns |-> IF c \in HostConns THEN "host" ELSE "guest"]
RelayByConn == [c \in Conns |-> IF c \in SecondRelay THEN R2 ELSE R1]

\* Connections of the same role and relay session are interchangeable, and so
\* are requests in flight.
Symmetry ==
    UNION {Permutations(S) : S \in {HostConns \ SecondRelay, HostConns \cap SecondRelay,
        (Conns \ HostConns) \ SecondRelay, (Conns \ HostConns) \cap SecondRelay, Patches}}

=============================================================================
