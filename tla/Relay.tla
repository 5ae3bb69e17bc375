------------------------------- MODULE Relay -------------------------------
(***************************************************************************)
(* The relay tunnel: the handlers of crates/network/src/relay.rs over the  *)
(* rendezvous hub (RelayHub in crates/core/src/realtime.rs) and the        *)
(* database rows of module WorldSessions.                                  *)
(*                                                                         *)
(* Every WebSocket request is a member of Conns and runs its handler one   *)
(* awaited statement or one mutex section at a time, interleaved with all  *)
(* others (the server runs them as tasks of a multi-threaded runtime).     *)
(* Database errors and process crashes may happen, at most MaxFaults of    *)
(* them.                                                                   *)
(***************************************************************************)
EXTENDS WorldSessions

CONSTANTS
    Conns,       \* relay WebSocket requests, each used once
    RoleOf,      \* the role= of each request
    RelayIdOf,   \* the relay session id in each request's path
    None,        \* no connection
    MaxFaults    \* bound on database errors and crashes

Role == {"host", "guest"}

ASSUME RelayAssumption ==
    /\ None \notin Conns
    /\ RoleOf \in [Conns -> Role]
    /\ RelayIdOf \in [Conns -> Relays]
    /\ IsFiniteSet(Conns)
    /\ MaxFaults \in Nat

VARIABLES
    conn,     \* per request: where its handler is and the peer it took
    waiting,  \* RelayHub.waiting: the parked connection of each relay id
    active,   \* RelayHub.active: the gauge of running tunnels
    faults,   \* faults so far
    wiped,    \* history: worlds zeroed while tunnels still held their slots
    leaked    \* history: worlds with a slot counted that no tunnel holds

vars == <<worlds, relays, patch, conn, waiting, active, faults, wiped, leaked>>
hubVars == <<waiting, active>>
ghosts == <<wiped, leaked>>

-----------------------------------------------------------------------------
(* RelayHub pairs opposite roles only.                                       *)
roles_pair(a, b) == a # b

\* Handler positions.  A slot of the world is held from a successful
\* try_admit_player until release_player.
Holding == {"admitted", "piping", "ended"}
BeforeUpgrade == {"idle", "loaded", "validated", "refused"}
PC == BeforeUpgrade \cup Holding \cup
      {"upgraded", "parking", "parked", "paired", "refusing", "released", "done"}

Connection == [pc: PC, peer: Conns \cup {None}]

TypeOK ==
    /\ DbTypeOK
    /\ conn \in [Conns -> Connection]
    /\ waiting \in [Relays -> Conns \cup {None}]
    /\ active \in Nat
    /\ faults \in 0 .. MaxFaults
    /\ wiped \subseteq Worlds
    /\ leaked \subseteq Worlds

Init ==
    /\ DbInit
    /\ conn = [c \in Conns |-> [pc |-> "idle", peer |-> None]]
    /\ waiting = [r \in Relays |-> None]
    /\ active = 0
    /\ faults = 0
    /\ wiped = {}
    /\ leaked = {}

RelayOf(c) == relays[RelayIdOf[c]]
WorldOf(c) == RelayOf(c).world

\* The tunnels that hold a player slot of w.
Holders(w) == {c \in Conns : conn[c].pc \in Holding /\ WorldOf(c) = w}

\* At most MaxFaults statements fail with a database error.
Fault == faults < MaxFaults /\ faults' = faults + 1
NoFault == UNCHANGED faults

Goto(c, pc) == conn' = [conn EXCEPT ![c].pc = pc]

-----------------------------------------------------------------------------
(* relay_ws, before the upgrade.                                             *)

(* The SELECT of the relay row; a missing or closed row refuses the request. *)
LoadRelay(c) ==
    /\ conn[c].pc = "idle"
    /\ RelayOf(c).status \notin {"none", "checked"}
    /\ Goto(c, IF RelayOf(c).status = "closed" THEN "refused" ELSE "loaded")
    /\ UNCHANGED <<dbVars, hubVars, faults, ghosts>>

(* role=host: user_from_token gives the relay's host.                        *)
AuthenticateHost(c) ==
    /\ conn[c].pc = "loaded"
    /\ RoleOf[c] = "host"
    /\ Goto(c, "upgraded")
    /\ UNCHANGED <<dbVars, hubVars, faults, ghosts>>

(* validate_guest_ticket, SELECT EXISTS: unconsumed and unexpired.           *)
CheckTicket(c) ==
    /\ conn[c].pc = "loaded"
    /\ RoleOf[c] = "guest"
    /\ Goto(c, IF RelayOf(c).ticket = "valid" THEN "validated" ELSE "refused")
    /\ UNCHANGED <<dbVars, hubVars, faults, ghosts>>

(* validate_guest_ticket, UPDATE ... SET consumed_at WHERE consumed_at IS    *)
(* NULL.  The number of rows it changed is not looked at; a client that is   *)
(* gone by now has spent the ticket without an upgrade.                      *)
ConsumeTicket(c) ==
    /\ conn[c].pc = "validated"
    /\ relays' = [relays EXCEPT ![RelayIdOf[c]].ticket = "consumed"]
    /\ \E pc \in {"upgraded", "refused"} : Goto(c, pc)
    /\ UNCHANGED <<worlds, patch, hubVars, faults, ghosts>>

(* The request ends without an upgrade: wrong user or token, a database      *)
(* error, or the client gone (the handler's future is dropped).              *)
AbortRequest(c) ==
    /\ conn[c].pc \in {"loaded", "validated"}
    /\ Goto(c, "refused")
    /\ UNCHANGED <<dbVars, hubVars, faults, ghosts>>

-----------------------------------------------------------------------------
(* handle_relay, the second party.                                           *)

\* Mutants of Take: whatever its role; without removing the entry.
TakeAnyRole(c) ==
    LET r == RelayIdOf[c]
    IN  /\ conn[c].pc = "upgraded"
        /\ IF waiting[r] # None
           THEN /\ conn' = [conn EXCEPT ![c].pc = "paired", ![c].peer = waiting[r]]
                /\ waiting' = [waiting EXCEPT ![r] = None]
           ELSE Goto(c, "parking") /\ UNCHANGED waiting
        /\ UNCHANGED <<dbVars, active, faults, ghosts>>

TakeKeepsEntry(c) ==
    LET r == RelayIdOf[c]
    IN  /\ conn[c].pc = "upgraded"
        /\ IF waiting[r] # None /\ roles_pair(RoleOf[waiting[r]], RoleOf[c])
           THEN conn' = [conn EXCEPT ![c].pc = "paired", ![c].peer = waiting[r]]
           ELSE Goto(c, "parking")
        /\ UNCHANGED <<dbVars, hubVars, faults, ghosts>>

(* RelayHub::take: the parked party, only when its role is the opposite one. *)
Take(c) ==
    LET r == RelayIdOf[c]
    IN  /\ conn[c].pc = "upgraded"
        /\ IF waiting[r] # None /\ roles_pair(RoleOf[waiting[r]], RoleOf[c])
           THEN /\ conn' = [conn EXCEPT ![c].pc = "paired", ![c].peer = waiting[r]]
                /\ waiting' = [waiting EXCEPT ![r] = None]
           ELSE /\ Goto(c, "parking")
                /\ UNCHANGED waiting
        /\ UNCHANGED <<dbVars, active, faults, ghosts>>

\* Mutant of HasFreeSlot: off by one.
HasFreeSlotOffByOne(w) == worlds[w].status = "open" /\ worlds[w].cur <= worlds[w].max

(* The WHERE clause of try_admit_player.                                     *)
HasFreeSlot(w) == worlds[w].status = "open" /\ worlds[w].cur < worlds[w].max

(* try_admit_player succeeds; incr_active follows at once.                   *)
Admit(c) ==
    /\ conn[c].pc = "paired"
    /\ HasFreeSlot(WorldOf(c))
    /\ worlds' = [worlds EXCEPT ![WorldOf(c)].cur = @ + 1]
    /\ active' = active + 1
    /\ Goto(c, "admitted")
    /\ UNCHANGED <<relays, patch, waiting, faults, ghosts>>

(* try_admit_player answers false: no row matched.                           *)
AdmitRefused(c) ==
    /\ conn[c].pc = "paired"
    /\ ~ HasFreeSlot(WorldOf(c))
    /\ Goto(c, "refusing")
    /\ UNCHANGED <<dbVars, hubVars, faults, ghosts>>

(* try_admit_player answers false after a database error.  The connection    *)
(* may be lost after the statement committed: the slot then stays counted.   *)
AdmitFailed(c) ==
    /\ conn[c].pc = "paired"
    /\ Fault
    /\ Goto(c, "refusing")
    /\ \/ UNCHANGED <<worlds, leaked>>
       \/ /\ HasFreeSlot(WorldOf(c))
          /\ worlds' = [worlds EXCEPT ![WorldOf(c)].cur = @ + 1]
          /\ leaked' = leaked \cup {WorldOf(c)}
    /\ UNCHANGED <<relays, patch, hubVars, wiped>>

(* mark_relay_closed, an unconditional UPDATE; an error is only logged.      *)
MarkRelayClosed(c) ==
    \/ /\ relays' = [relays EXCEPT ![RelayIdOf[c]].status = "closed"]
       /\ NoFault
    \/ /\ UNCHANGED relays
       /\ Fault

\* Mutant of RefusePair: releases the slot it never got.
RefusePairReleases(c) ==
    /\ conn[c].pc = "refusing"
    /\ MarkRelayClosed(c)
    /\ conn' = [conn EXCEPT ![c].pc = "done", ![c].peer = None]
    /\ worlds' = [worlds EXCEPT ![WorldOf(c)].cur = IF @ > 0 THEN @ - 1 ELSE 0]
    /\ UNCHANGED <<patch, hubVars, ghosts>>

(* The refused pair: mark_relay_closed, signal the peer, drop both sockets.  *)
RefusePair(c) ==
    /\ conn[c].pc = "refusing"
    /\ MarkRelayClosed(c)
    /\ conn' = [conn EXCEPT ![c].pc = "done", ![c].peer = None]
    /\ UNCHANGED <<worlds, patch, hubVars, ghosts>>

\* Mutant of MarkRelayActive: no condition on the status.
MarkRelayActiveAlways(c) ==
    /\ conn[c].pc = "admitted"
    /\ relays' = [relays EXCEPT ![RelayIdOf[c]].status = "active"]
    /\ Goto(c, "piping")
    /\ UNCHANGED <<worlds, patch, hubVars, faults, ghosts>>

(* mark_relay_active, UPDATE ... WHERE status <> 'closed'; the pipe starts.  *)
MarkRelayActive(c) ==
    LET r == RelayIdOf[c]
    IN  /\ conn[c].pc = "admitted"
        /\ \/ /\ relays' = [relays EXCEPT ![r].status =
                               IF @ # "closed" THEN "active" ELSE @]
              /\ NoFault
           \/ /\ UNCHANGED relays
              /\ Fault
        /\ Goto(c, "piping")
        /\ UNCHANGED <<worlds, patch, hubVars, ghosts>>

\* Mutant of EndPipe: decr_active forgotten.
EndPipeKeepsGauge(c) ==
    /\ conn[c].pc = "piping"
    /\ conn' = [conn EXCEPT ![c].pc = "ended", ![c].peer = None]
    /\ UNCHANGED <<dbVars, hubVars, faults, ghosts>>

(* pipe returns: one side closed.  The peer is signalled, decr_active runs.  *)
EndPipe(c) ==
    /\ conn[c].pc = "piping"
    /\ conn' = [conn EXCEPT ![c].pc = "ended", ![c].peer = None]
    /\ active' = active - 1
    /\ UNCHANGED <<dbVars, waiting, faults, ghosts>>

\* Mutant of Decremented: GREATEST(..., 0) forgotten.
DecrementedBelowZero(n) == n - 1

(* GREATEST(current_players - 1, 0).                                         *)
Decremented(n) == IF n > 0 THEN n - 1 ELSE 0

(* release_player: GREATEST(current_players - 1, 0); an error is only logged *)
(* and leaves the slot counted.  A zeroed world is exact again once its last *)
(* tunnel is gone.                                                           *)
ReleasePlayer(c) ==
    LET w == WorldOf(c)
    IN  /\ conn[c].pc = "ended"
        /\ \/ /\ worlds' = [worlds EXCEPT ![w].cur = Decremented(@)]
              /\ NoFault
              /\ UNCHANGED leaked
           \/ /\ UNCHANGED worlds
              /\ Fault
              /\ leaked' = leaked \cup {w}
        /\ wiped' = IF Holders(w) = {c} THEN wiped \ {w} ELSE wiped
        /\ Goto(c, "released")
        /\ UNCHANGED <<relays, patch, hubVars>>

(* mark_relay_closed after a tunnel.                                         *)
FinishTunnel(c) ==
    /\ conn[c].pc = "released"
    /\ MarkRelayClosed(c)
    /\ Goto(c, "done")
    /\ UNCHANGED <<worlds, patch, hubVars, ghosts>>

-----------------------------------------------------------------------------
(* handle_relay, the first party.                                            *)

(* RelayHub::park: an occupied slot refuses the newcomer, whatever its role. *)
Park(c) ==
    LET r == RelayIdOf[c]
    IN  /\ conn[c].pc = "parking"
        /\ IF waiting[r] = None
           THEN /\ waiting' = [waiting EXCEPT ![r] = c]
                /\ Goto(c, "parked")
           ELSE /\ UNCHANGED waiting
                /\ Goto(c, "done")
        /\ UNCHANGED <<dbVars, active, faults, ghosts>>

\* Mutant of RemoveWaiting: no timeout, the wait ends with the peer only.
RemoveWaitingNoTimeout(c) ==
    /\ conn[c].pc = "parked"
    /\ waiting[RelayIdOf[c]] # c
    /\ waiting' = [waiting EXCEPT ![RelayIdOf[c]] = None]
    /\ Goto(c, "done")
    /\ UNCHANGED <<dbVars, active, faults, ghosts>>

(* The wait ends (the peer signalled, its sender was dropped, or the         *)
(* rendezvous timeout elapsed, which it also does under a running tunnel)    *)
(* and remove_waiting drops whatever is parked under the relay id.           *)
RemoveWaiting(c) ==
    /\ conn[c].pc = "parked"
    /\ waiting' = [waiting EXCEPT ![RelayIdOf[c]] = None]
    /\ Goto(c, "done")
    /\ UNCHANGED <<dbVars, active, faults, ghosts>>

-----------------------------------------------------------------------------
(* reconcile_after_restart, before the first request is served: every relay  *)
(* row is closed and the open worlds count no players.                       *)
ReconciledRelays ==
    [r \in Relays |-> [relays[r] EXCEPT !.status =
        IF @ \in {"none", "checked"} THEN "none" ELSE "closed"]]

ReconciledWorlds ==
    [w \in Worlds |-> [worlds[w] EXCEPT !.cur = IF worlds[w].status = "open" THEN 0 ELSE @]]

(* The process dies and starts again: handlers and hub are gone, the tables  *)
(* stay and are reconciled.                                                  *)
Crash ==
    /\ Fault
    /\ conn' = [c \in Conns |->
          IF conn[c].pc \in {"idle", "refused", "done"} THEN conn[c]
          ELSE [conn[c] EXCEPT !.pc = IF @ \in BeforeUpgrade THEN "refused" ELSE "done",
                               !.peer = None]]
    /\ waiting' = [r \in Relays |-> None]
    /\ active' = 0
    /\ relays' = ReconciledRelays
    /\ worlds' = ReconciledWorlds
    /\ patch' = [p \in Patches |-> NoPatch]
    /\ leaked' = {w \in Worlds : worlds[w].status # "open" /\ (w \in leaked \/ Holders(w) # {})}
    /\ wiped' = {}

-----------------------------------------------------------------------------
(* The host's REST calls.  Zeroing current_players under live tunnels makes  *)
(* the count too low from then on.                                           *)
Zeroed(w) ==
    /\ wiped' = IF Holders(w) # {} THEN wiped \cup {w} ELSE wiped
    /\ leaked' = leaked \ {w}

Rest(A) == A /\ UNCHANGED <<conn, hubVars, faults>>

HostCreates ==
    \E h \in Hosts, w \in Worlds, m \in Capacity :
        Rest(CreateWorld(h, w, m)) /\ Zeroed(w)

HostCloses ==
    \E w \in Worlds : Rest(CloseWorld(w)) /\ Zeroed(w)

HostPatches ==
    \E p \in Patches :
        \/ \E w \in Worlds, m \in Capacity, asked \in {"keep", "open", "closed"} :
              Rest(PatchReadWorld(p, w, m, asked)) /\ UNCHANGED ghosts
        \/ Rest(PatchAbort(p)) /\ UNCHANGED ghosts
        \/ /\ Rest(PatchWriteWorld(p))
           /\ IF patch[p].closing THEN Zeroed(patch[p].world) ELSE UNCHANGED ghosts

Tickets ==
    \E r \in Relays :
        /\ \/ \E w \in Worlds : Rest(PreCheckTicket(r, w))
           \/ Rest(IssueTicketAndRelay(r))
           \/ Rest(ExpireTicket(r))
        /\ UNCHANGED ghosts

Handler(c) ==
    \/ LoadRelay(c) \/ AuthenticateHost(c) \/ CheckTicket(c) \/ ConsumeTicket(c)
    \/ AbortRequest(c)
    \/ Take(c) \/ Admit(c) \/ AdmitRefused(c) \/ AdmitFailed(c) \/ RefusePair(c)
    \/ MarkRelayActive(c) \/ EndPipe(c) \/ ReleasePlayer(c) \/ FinishTunnel(c)
    \/ Park(c) \/ RemoveWaiting(c)

Next ==
    \/ \E c \in Conns : Handler(c)
    \/ HostCreates \/ HostCloses \/ HostPatches \/ Tickets
    \/ Crash

Spec == Init /\ [][Next]_vars

-----------------------------------------------------------------------------
(* Fairness: an upgraded request is a spawned task, which the runtime keeps  *)
(* polling, and the rendezvous wait has a timer.  Nothing makes a client     *)
(* close its socket, so EndPipe is not fair; nothing before the upgrade is.  *)
Progress(c) ==
    \/ Take(c) \/ Admit(c) \/ AdmitRefused(c) \/ RefusePair(c) \/ MarkRelayActive(c)
    \/ ReleasePlayer(c) \/ FinishTunnel(c) \/ Park(c) \/ RemoveWaiting(c)

FairSpec == Spec /\ \A c \in Conns : WF_vars(Progress(c))

-----------------------------------------------------------------------------
(* Safety.                                                                   *)

(* RelayHub pairs one host with one guest of the same relay session: a       *)
(* connection that took a parked peer took one of the opposite role.         *)
PairsAreHostAndGuest ==
    \A c \in Conns : conn[c].peer # None =>
        LET d == conn[c].peer
        IN  RoleOf[c] # RoleOf[d] /\ RelayIdOf[c] = RelayIdOf[d]

(* A parked socket has one owner: it is in the hub or piped by one handler,  *)
(* never both and never by two (take removes the entry it returns).          *)
SocketHasOneOwner ==
    \A c \in Conns : conn[c].peer # None =>
        /\ \A d \in Conns : conn[d].peer = conn[c].peer => d = c
        /\ \A r \in Relays : waiting[r] # conn[c].peer

(* current_players against the tunnels that hold a slot: equal, unless a     *)
(* failed statement left a slot counted (then never below), or POST/close    *)
(* zeroed the count under live tunnels (then never above).  A restart makes  *)
(* it exact again for every open world, and no path through handle_relay     *)
(* reserves or releases a slot twice.                                        *)
CountTracksTunnels ==
    \A w \in Worlds :
        LET h == Cardinality(Holders(w))
        IN  /\ w \notin wiped => worlds[w].cur >= h
            /\ w \notin leaked => worlds[w].cur <= h

(* try_admit_player is the capacity gate: a step that starts a tunnel leaves *)
(* no more tunnels than max_players, in every world whose count was not      *)
(* zeroed under live tunnels.                                                *)
TunnelsWithinCap(w) ==
    Cardinality(Holders(w)') > Cardinality(Holders(w))
        => Cardinality(Holders(w)') <= worlds[w].max

CapAtAdmission == [][\A w \in Worlds \ wiped : TunnelsWithinCap(w)]_vars

(* A closed relay session stays closed.  close_world_cleanup closes the rows *)
(* of a tunnel that is still being set up, and the mark_relay_active that    *)
(* follows must not revive one: presence and the friend-of-friends gate take *)
(* an 'active' row for a guest in the world.                                 *)
ClosedRelayStaysClosed ==
    [][\A r \in Relays : relays[r].status = "closed" => relays'[r].status = "closed"]_vars

(* The gauge behind the metrics counts the running tunnels; fetch_sub would  *)
(* wrap below zero.                                                          *)
GaugeCountsTunnels ==
    active = Cardinality({c \in Conns : conn[c].pc \in {"admitted", "piping"}})

-----------------------------------------------------------------------------
(* Liveness.                                                                 *)

(* No upgraded connection waits for ever, whatever fails and however the     *)
(* others race it: again and again everyone who was upgraded runs a tunnel   *)
(* or is done (each connection is upgraded once).                            *)
UpgradedSettles ==
    []<>(\A c \in Conns : conn[c].pc \in BeforeUpgrade \cup {"piping", "done"})

=============================================================================
