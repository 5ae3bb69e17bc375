------------------------------ MODULE Presence ------------------------------
(***************************************************************************)
(* Presence: the presence table (crates/network/src/presence.rs), the      *)
(* signaling sockets that switch a user online and offline (signaling.rs   *)
(* over SignalingHub in crates/core/src/realtime.rs), and the other        *)
(* writers of the table: set_status, heartbeat, bootstrap and the closing  *)
(* of a world.                                                             *)
(*                                                                         *)
(* A signaling handler is a task that runs one statement or one mutex      *)
(* section at a time.  The pushes to friends (broadcast_presence) are      *)
(* steps of their own and change nothing that is modelled here.            *)
(***************************************************************************)
EXTENDS Naturals, FiniteSets

CONSTANTS
    Players,    \* users
    Conns,      \* signaling WebSockets, each used once
    UserOf,     \* the user each socket authenticated as
    Worlds,     \* world_sessions rows
    HostOf,     \* host_user_id of each row
    Posts,      \* POST /presence/status calls in flight at once
    None,       \* no world
    MaxFaults   \* bound on database errors and crashes

ASSUME PresenceAssumption ==
    /\ UserOf \in [Conns -> Players]
    /\ HostOf \in [Worlds -> Players]
    /\ None \notin Worlds
    /\ MaxFaults \in Nat

VARIABLES
    presence,  \* the presence table
    hub,       \* SignalingHub.connections: the sockets registered per user
    handler,   \* where each socket's handle_signaling is
    post,      \* set_status calls past their check
    open,      \* worlds whose status is 'open'
    faults,    \* faults so far
    touched    \* history: users whose row was written by something other than
               \* a socket, or missed a socket's write, since it went offline

presence_vars == <<presence, hub, handler, post, open, faults, touched>>

-----------------------------------------------------------------------------
InWorld == {"inWorld", "joinable"}
Row == [status: {"none", "offline", "online"} \cup InWorld, world: Worlds \cup {None}]

\* "added" .. "open" are registered in the hub; "removed" .. "announcing" are not.
Registered == {"added", "online", "open"}
PC == Registered \cup {"idle", "removed", "leaving", "announcing", "done"}

StatusCall == [pc: {"write", "announce"}, user: Players,
               status: {"online"} \cup InWorld, world: Worlds \cup {None}]
NoCall == [pc |-> "idle"]

PresenceTypes ==
    /\ presence \in [Players -> Row]
    /\ hub \in [Players -> SUBSET Conns]
    /\ handler \in [Conns -> PC]
    /\ post \in [Posts -> StatusCall \cup {NoCall}]
    /\ open \subseteq Worlds
    /\ faults \in 0 .. MaxFaults
    /\ touched \subseteq Players

PresenceInit ==
    /\ presence = [u \in Players |-> [status |-> "none", world |-> None]]
    /\ hub = [u \in Players |-> {}]
    /\ handler = [c \in Conns |-> "idle"]
    /\ post = [p \in Posts |-> NoCall]
    /\ open = {}
    /\ faults = 0
    /\ touched = {}

Fault == faults < MaxFaults /\ faults' = faults + 1

Goto(c, pc) == handler' = [handler EXCEPT ![c] = pc]

-----------------------------------------------------------------------------
(* What the writers of the table do to a row.                                *)

(* mark_online and heartbeat: an offline row goes online, an in-world one    *)
(* stays; a missing row is inserted.                                         *)
Live(row) == IF row.status \in {"none", "offline"} THEN [row EXCEPT !.status = "online"] ELSE row

(* UPDATE: no row, no effect.                                                *)
Updated(row, status) ==
    IF row.status = "none" THEN row ELSE [status |-> status, world |-> None]

Write(u, row) == presence' = [presence EXCEPT ![u] = row]

-----------------------------------------------------------------------------
(* SignalingHub.  send_to prunes senders whose receiver is gone; a receiver  *)
(* lives as long as its handler, which removes itself first.                 *)
add(u, c) == hub' = [hub EXCEPT ![u] = @ \cup {c}]
remove(u, c) == hub' = [hub EXCEPT ![u] = @ \ {c}]
is_online(u) == hub[u] # {}

-----------------------------------------------------------------------------
(* handle_signaling.                                                         *)

(* The upgraded socket registers.                                            *)
Connect(c) ==
    /\ handler[c] = "idle"
    /\ add(UserOf[c], c)
    /\ Goto(c, "added")
    /\ UNCHANGED <<presence, post, open, faults, touched>>

(* presence::mark_online; an error is only logged.                           *)
MarkOnline(c) ==
    LET u == UserOf[c]
    IN  /\ handler[c] = "added"
        /\ \/ Write(u, Live(presence[u])) /\ UNCHANGED <<faults, touched>>
           \/ Fault /\ touched' = touched \cup {u} /\ UNCHANGED presence
        /\ Goto(c, "online")
        /\ UNCHANGED <<hub, post, open>>

(* broadcast_presence, after connecting and after disconnecting.             *)
Announce(c) ==
    /\ \/ handler[c] = "online" /\ Goto(c, "open")
       \/ handler[c] = "announcing" /\ Goto(c, "done")
    /\ UNCHANGED <<presence, hub, post, open, faults, touched>>

(* The socket ends, the loop breaks, the handler removes itself.             *)
Disconnect(c) ==
    /\ handler[c] = "open"
    /\ remove(UserOf[c], c)
    /\ Goto(c, "removed")
    /\ UNCHANGED <<presence, post, open, faults, touched>>

\* Mutant of CheckLast: counts the socket that was just removed.
CheckLastCountsItself(c) ==
    /\ handler[c] = "removed"
    /\ Goto(c, IF Cardinality(hub[UserOf[c]]) = 1 THEN "leaving" ELSE "done")
    /\ UNCHANGED <<presence, hub, post, open, faults, touched>>

(* Another socket of the user keeps it online.                               *)
CheckLast(c) ==
    /\ handler[c] = "removed"
    /\ Goto(c, IF is_online(UserOf[c]) THEN "done" ELSE "leaving")
    /\ UNCHANGED <<presence, hub, post, open, faults, touched>>

(* presence::mark_offline; an error is only logged.                          *)
MarkOffline(c) ==
    LET u == UserOf[c]
    IN  /\ handler[c] = "leaving"
        /\ \/ /\ Write(u, Updated(presence[u], "offline"))
              /\ touched' = touched \ {u}
              /\ UNCHANGED faults
           \/ Fault /\ touched' = touched \cup {u} /\ UNCHANGED presence
        /\ Goto(c, "announcing")
        /\ UNCHANGED <<hub, post, open>>

-----------------------------------------------------------------------------
(* The REST writers.                                                         *)

(* POST /presence/heartbeat.                                                 *)
Heartbeat(u) ==
    /\ Write(u, Live(presence[u]))
    /\ touched' = touched \cup {u}
    /\ UNCHANGED <<hub, handler, post, open, faults>>

(* POST /users/bootstrap: online, whatever it was; the world is left.        *)
Bootstrap(u) ==
    /\ Write(u, [presence[u] EXCEPT !.status = "online"])
    /\ touched' = touched \cup {u}
    /\ UNCHANGED <<hub, handler, post, open, faults>>

(* set_status, the check: a world that is named must be the caller's own and *)
(* open.  Plain online stores no world.                                      *)
CheckStatus(p, u, status, w) ==
    /\ post[p] = NoCall
    /\ status \notin InWorld => w = None
    /\ w # None => HostOf[w] = u /\ w \in open
    /\ post' = [post EXCEPT ![p] =
          [pc |-> "write", user |-> u, status |-> status, world |-> w]]
    /\ UNCHANGED <<presence, hub, handler, open, faults, touched>>

(* set_status, the upsert, made from the checked request.                    *)
WriteStatus(p) ==
    LET q == post[p]
    IN  /\ q.pc = "write"
        /\ Write(q.user, [status |-> q.status, world |-> q.world])
        /\ post' = [post EXCEPT ![p].pc = "announce"]
        /\ touched' = touched \cup {q.user}
        /\ UNCHANGED <<hub, handler, open, faults>>

(* set_status ends: the broadcast is done, or an error or a lost client ended *)
(* the call before its write.                                                *)
EndStatus(p) ==
    /\ post[p] # NoCall
    /\ post' = [post EXCEPT ![p] = NoCall]
    /\ UNCHANGED <<presence, hub, handler, open, faults, touched>>

(* POST (or a PATCH to open): the host has one open world at most.           *)
OpenWorld(w) ==
    /\ \A v \in open : HostOf[v] # HostOf[w]
    /\ open' = open \cup {w}
    /\ UNCHANGED <<presence, hub, handler, post, faults, touched>>

(* close and close_world_cleanup, one transaction: the host's row goes back  *)
(* to plain online.  DELETE also runs on a world that is closed already.     *)
CloseWorld(w) ==
    /\ open' = open \ {w}
    /\ Write(HostOf[w], Updated(presence[HostOf[w]], "online"))
    /\ touched' = touched \cup {HostOf[w]}
    /\ UNCHANGED <<hub, handler, post, faults>>

(* The process dies: sockets and hub are gone, the table stays.              *)
Crash ==
    /\ Fault
    /\ hub' = [u \in Players |-> {}]
    /\ handler' = [c \in Conns |-> IF handler[c] = "idle" THEN "idle" ELSE "done"]
    /\ post' = [p \in Posts |-> NoCall]
    /\ touched' = Players
    /\ UNCHANGED <<presence, open>>

Signaling(c) ==
    \/ Connect(c) \/ MarkOnline(c) \/ Announce(c)
    \/ Disconnect(c) \/ CheckLast(c) \/ MarkOffline(c)

PresenceNext ==
    \/ \E c \in Conns : Signaling(c)
    \/ \E u \in Players : Heartbeat(u) \/ Bootstrap(u)
    \/ \E p \in Posts :
        \/ \E u \in Players, status \in {"online"} \cup InWorld, w \in Worlds \cup {None} :
              CheckStatus(p, u, status, w)
        \/ WriteStatus(p) \/ EndStatus(p)
    \/ \E w \in Worlds : OpenWorld(w) \/ CloseWorld(w)
    \/ Crash

PresenceSpec == PresenceInit /\ [][PresenceNext]_presence_vars

-----------------------------------------------------------------------------
Settled(u) == \A c \in Conns : UserOf[c] = u => handler[c] \in {"idle", "open", "done"}

(* "Closing the last connection takes the user offline again": once every    *)
(* socket of a user is gone and no handler is left, the row is offline,      *)
(* however connects and disconnects overlapped, unless something other than  *)
(* a socket wrote the row since.                                             *)
GoneIsOffline ==
    /\ PresenceTypes
    /\ \A u \in Players : Settled(u) /\ ~ is_online(u) /\ u \notin touched =>
        presence[u].status \in {"none", "offline"}

=============================================================================
