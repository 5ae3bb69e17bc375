--------------------------- MODULE WorldSessions ---------------------------
(***************************************************************************)
(* The world_sessions and relay_sessions tables and the REST handlers of   *)
(* crates/network/src/worlds.rs that write them: POST (create), PATCH      *)
(* (update), DELETE (close), together with the issuing of a join ticket    *)
(* and its relay row (issue_ticket_and_relay in join.rs).                  *)
(*                                                                         *)
(* One action is one committed statement or transaction.  PATCH is two     *)
(* actions because it reads the row on the pool and writes it back later;  *)
(* issuing a ticket is two because the capacity pre-check reads the world  *)
(* before the transaction that inserts the rows.                           *)
(*                                                                         *)
(* This module has no Next of its own: Relay composes these operations     *)
(* with the relay handlers, the other writers of the two tables.           *)
(***************************************************************************)
EXTENDS Naturals, FiniteSets

CONSTANTS
    Worlds,              \* ids of world_sessions rows, used or not yet used
    Hosts,               \* users that host worlds
    HostOf,              \* host_user_id of each row
    Relays,              \* ids of relay_sessions rows (each with its ticket)
    Patches,             \* PATCH requests that may be in flight at once
    MaxPlayersPerWorld   \* config.max_players_per_world

ASSUME HostOfAssumption == HostOf \in [Worlds -> Hosts]
ASSUME CapAssumption == MaxPlayersPerWorld \in Nat \ {0}

VARIABLES
    worlds,   \* world_sessions: status, max_players, current_players
    relays,   \* relay_sessions joined with their join_tickets row
    patch     \* what each in-flight PATCH has decided to write

dbVars == <<worlds, relays, patch>>

-----------------------------------------------------------------------------
(* Rows.  "none" is a row not inserted yet; "checked" is a ticket request   *)
(* past its pre-check whose rows are not inserted yet.                      *)

Capacity == 1 .. MaxPlayersPerWorld

WorldRow == [status: {"none", "open", "closed"}, max: Capacity, cur: Nat]

RelayRow == [world: Worlds,
             status: {"none", "checked", "pending", "active", "closed"},
             ticket: {"valid", "consumed", "expired"}]

\* What update computed from the row it read.
PatchWrite == [world: Worlds, max: Capacity, status: {"open", "closed"}, closing: BOOLEAN]

NoPatch == [idle |-> TRUE]

DbTypeOK ==
    /\ worlds \in [Worlds -> WorldRow]
    /\ relays \in [Relays -> RelayRow]
    /\ patch \in [Patches -> PatchWrite \cup {NoPatch}]

DbInit ==
    /\ worlds = [w \in Worlds |-> [status |-> "none", max |-> MaxPlayersPerWorld, cur |-> 0]]
    /\ relays \in [Relays -> [world: Worlds, status: {"none"}, ticket: {"valid"}]]
    /\ patch = [p \in Patches |-> NoPatch]

OpenWorlds(h) == {w \in Worlds : HostOf[w] = h /\ worlds[w].status = "open"}

-----------------------------------------------------------------------------
(* POST /world-sessions: INSERT ... ON CONFLICT (host) WHERE open DO UPDATE  *)
(* SET max_players, current_players = 0.  `m' is the clamped request.        *)

CreateWorld(h, w, m) ==
    /\ HostOf[w] = h
    /\ IF OpenWorlds(h) = {} THEN worlds[w].status = "none" ELSE w \in OpenWorlds(h)
    /\ worlds' = [worlds EXCEPT ![w] = [status |-> "open", max |-> m, cur |-> 0]]
    /\ UNCHANGED <<relays, patch>>

(* close_world_cleanup, the part both close paths share: every relay row     *)
(* that is not closed is closed and current_players is zeroed.               *)
CleanedRelays(w) ==
    [r \in Relays |->
        IF relays[r].world = w /\ relays[r].status \in {"pending", "active"}
        THEN [relays[r] EXCEPT !.status = "closed"] ELSE relays[r]]

(* DELETE /world-sessions/:id, one transaction.  The UPDATE of the status    *)
(* applies to an open world only; the cleanup runs in every case.            *)
CloseWorld(w) ==
    /\ worlds[w].status # "none"
    /\ worlds' = [worlds EXCEPT ![w].status = "closed", ![w].cur = 0]
    /\ relays' = CleanedRelays(w)
    /\ UNCHANGED patch

(* PATCH /world-sessions/:id, first half: the row is read on the pool and    *)
(* what will be written is computed from that copy.  `asked' is the status   *)
(* field of the body; "keep", no field, writes the status of the copy back.  *)
PatchReadWorld(p, w, m, asked) ==
    /\ patch[p] = NoPatch
    /\ worlds[w].status # "none"
    /\ LET status == IF asked = "keep" THEN worlds[w].status ELSE asked
       IN  patch' = [patch EXCEPT ![p] =
             [world |-> w, max |-> m, status |-> status,
              closing |-> status = "closed" /\ worlds[w].status = "open"]]
    /\ UNCHANGED <<worlds, relays>>

(* Reopening a world while its host has another open one breaks the index    *)
(* world_sessions_one_open_per_host: the transaction fails.                  *)
BreaksOneOpenPerHost(q) ==
    q.status = "open" /\ OpenWorlds(HostOf[q.world]) \ {q.world} # {}

(* PATCH, second half: one transaction writes max_players and status, and    *)
(* runs the cleanup when the copy read earlier was open and is now closed.   *)
PatchWriteWorld(p) ==
    LET q == patch[p]
    IN  /\ q # NoPatch
        /\ ~ BreaksOneOpenPerHost(q)
        /\ worlds' = [worlds EXCEPT ![q.world].status = q.status,
                                    ![q.world].max = q.max,
                                    ![q.world].cur = IF q.closing THEN 0 ELSE @]
        /\ relays' = IF q.closing THEN CleanedRelays(q.world) ELSE relays
        /\ patch' = [patch EXCEPT ![p] = NoPatch]

(* A PATCH that fails: unique violation, database error, or a client gone.   *)
PatchAbort(p) ==
    /\ patch[p] # NoPatch
    /\ patch' = [patch EXCEPT ![p] = NoPatch]
    /\ UNCHANGED <<worlds, relays>>

-----------------------------------------------------------------------------
(* A ticket request.  create_join_ticket, the accept of a join request and   *)
(* the accept of an invite all read the world first (open, and               *)
(* current_players < max_players) and insert ticket and relay afterwards.    *)

PreCheckTicket(r, w) ==
    /\ relays[r].status = "none"
    /\ worlds[w].status = "open"
    /\ worlds[w].cur < worlds[w].max
    /\ relays' = [relays EXCEPT ![r].world = w, ![r].status = "checked"]
    /\ UNCHANGED <<worlds, patch>>

IssueTicketAndRelay(r) ==
    /\ relays[r].status = "checked"
    /\ relays' = [relays EXCEPT ![r].status = "pending"]
    /\ UNCHANGED <<worlds, patch>>

(* expires_at passes.                                                        *)
ExpireTicket(r) ==
    /\ relays[r].status \notin {"none", "checked"}
    /\ relays[r].ticket = "valid"
    /\ relays' = [relays EXCEPT ![r].ticket = "expired"]
    /\ UNCHANGED <<worlds, patch>>

=============================================================================
