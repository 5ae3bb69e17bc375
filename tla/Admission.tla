----------------------------- MODULE Admission -----------------------------
(***************************************************************************)
(* Who gets a join ticket for a world: join requests                       *)
(* (crates/network/src/join.rs) and invites (invites.rs), from creation to *)
(* the ticket, with the hourly cleanup (cleanup.rs).                       *)
(*                                                                         *)
(* One world and its host.  A row of join_requests or world_invites is an  *)
(* item; an HTTP call in flight runs one statement at a time.  accept      *)
(* holds the row lock (SELECT ... FOR UPDATE) from its first read to its   *)
(* commit; decline, approve and revoke read the row without a lock and     *)
(* write it with a conditional UPDATE, which waits for the lock.           *)
(*                                                                         *)
(* The rest of the service is the environment: friendships come and go,    *)
(* the host flips the policy or closes the world, the world fills up and   *)
(* empties, guests come and leave, rows pass their expiry time.  Tickets   *)
(* that need no row (create_join_ticket) are issued in WorldSessions; here *)
(* a guest the host has befriended may simply arrive.                      *)
(***************************************************************************)
EXTENDS Naturals, FiniteSets

CONSTANTS
    Host,
    Guests,     \* the other users
    Items,      \* ids of join_requests and world_invites rows
    Calls,      \* HTTP calls that may be in flight at once
    None,
    MaxEvents   \* bound on the environment's changes

Users == Guests \cup {Host}

ASSUME AdmissionAssumption ==
    /\ Host \notin Guests
    /\ None \notin Calls
    /\ MaxEvents \in Nat

VARIABLES
    item,     \* join_requests and world_invites rows
    lock,     \* the call that holds each row's lock
    call,     \* calls in flight
    tickets,  \* join tickets minted per item
    friends,  \* friendships, as unordered pairs
    world,    \* open, friends-of-friends policy, free slot, host in a world
    members,  \* guests with an active relay row and a live heartbeat
    events,   \* environment changes so far
    seen,     \* history: admission conditions that held during each accept
    approved, \* history: items whose guest the host let in himself
    known     \* history: guests that have been friends of the host

rows == <<item, lock, tickets>>
env == <<friends, world, members, events, known>>
vars == <<item, lock, call, tickets, friends, world, members, events,
          seen, approved, known>>

-----------------------------------------------------------------------------
Active == {"pending", "pending_approval"}
TERMINAL == {"accepted", "declined", "revoked", "expired"}
Status == Active \cup TERMINAL \cup {"none", "deleted"}

\* A join request has its requester as guest; its inviter field is not used.
ItemRow == [kind: {"request", "invite"}, guest: Guests, inviter: Users,
            status: Status, lapsed: BOOLEAN]

World == [open: BOOLEAN, fof: BOOLEAN, slot: BOOLEAN, hostIn: BOOLEAN]

Pairs == {{a, b} : a, b \in Users}

Conditions == {"open", "slot", "policy", "trusted", "link"}

\* Calls: create (of a row; `fof' is the policy it read), accept, and the
\* three read-then-update calls.
Call == [pc: {"eligible", "expire", "insert"}, row: ItemRow, fof: BOOLEAN]
        \cup [pc: {"world", "trust", "link", "commit"}, item: Items, fof: BOOLEAN]
        \cup [pc: {"decline", "approve", "revoke"}, item: Items]
Idle == [pc |-> "idle"]

TypeOK ==
    /\ item \in [Items -> ItemRow]
    /\ lock \in [Items -> Calls \cup {None}]
    /\ call \in [Calls -> Call \cup {Idle}]
    /\ tickets \in [Items -> Nat]
    /\ friends \subseteq Pairs
    /\ world \in World
    /\ members \subseteq Guests
    /\ events \in 0 .. MaxEvents
    /\ seen \in [Calls -> SUBSET Conditions]
    /\ approved \subseteq Items
    /\ known \subseteq Guests

are_friends(a, b) == {a, b} \in friends

(* is_friend_of_active_member                                                *)
FriendOfActiveMember(u) == \E m \in members : m # u /\ are_friends(m, u)

HostsFriends(fs) == {g \in Guests : {g, Host} \in fs}

Init ==
    /\ \E g \in Guests :
          item = [x \in Items |-> [kind |-> "request", guest |-> g, inviter |-> Host,
                                  status |-> "none", lapsed |-> FALSE]]
    /\ lock = [x \in Items |-> None]
    /\ call = [c \in Calls |-> Idle]
    /\ tickets = [x \in Items |-> 0]
    /\ friends \in SUBSET Pairs /\ \A p \in friends : Cardinality(p) = 2
    /\ world \in [open: {TRUE}, fof: BOOLEAN, slot: {TRUE}, hostIn: {TRUE}]
    /\ members \in SUBSET HostsFriends(friends)
    /\ events = 0
    /\ seen = [c \in Calls |-> {}]
    /\ approved = {}
    /\ known = HostsFriends(friends)

-----------------------------------------------------------------------------
(* What accept requires besides an open world with a free slot, by kind of   *)
(* row.  A request needs a link to the host or, under the policy, to an      *)
(* active member; an invite the host did not send needs the policy, a        *)
(* trusted inviter and a link from the inviter.                              *)
Direct(row) ==
    IF row.kind = "request" THEN are_friends(row.guest, Host) ELSE row.inviter = Host

Trusted(row) == row.kind = "invite" => are_friends(Host, row.inviter)

Linked(row) ==
    IF row.kind = "request" THEN FriendOfActiveMember(row.guest)
                            ELSE are_friends(row.inviter, row.guest)

\* The conditions that hold now for this item.
Holds(row) ==
    {k \in Conditions : \/ k = "open" /\ world.open
                        \/ k = "slot" /\ world.slot
                        \/ k = "policy" /\ (world.fof \/ Direct(row))
                        \/ k = "trusted" /\ (Trusted(row) \/ Direct(row))
                        \/ k = "link" /\ (Linked(row) \/ Direct(row))}

Accepting(c) == call[c].pc \in {"world", "trust", "link", "commit"}

\* History: what held at some moment of the accept call so far.
Observed(c) == IF Accepting(c) THEN seen[c] \cup Holds(item[call[c].item]) ELSE {}

Now(c, q) == call' = [call EXCEPT ![c] = q]

\* A statement that writes a row waits until nobody holds the row's lock.
Unlocked(x) == lock[x] = None

-----------------------------------------------------------------------------
(* Creating a row.                                                           *)

NewRow(kind, g, inviter) ==
    [kind |-> kind, guest |-> g, inviter |-> inviter, status |-> "pending", lapsed |-> FALSE]

(* create_join_request and invites::create: the world must be open; its      *)
(* policy is kept from this read.                                            *)
BeginCreate(c, row) ==
    /\ call[c] = Idle
    /\ world.open
    /\ Now(c, [pc |-> "eligible", row |-> row, fof |-> world.fof])
    /\ UNCHANGED <<rows, approved>>

BeginRequest(c, g) == BeginCreate(c, NewRow("request", g, Host))

BeginInvite(c, caller, g) == caller # g /\ BeginCreate(c, NewRow("invite", g, caller))

(* May the request be made?  A friend of the host, or a friend of an active  *)
(* member of a friends-of-friends world; and the host is in a world.         *)
RequestAllowed(row, fof) ==
    /\ are_friends(row.guest, Host) \/ (fof /\ FriendOfActiveMember(row.guest))
    /\ world.hostIn

(* May the invite be made?                                                   *)
InviteAllowed(row, fof) ==
    IF row.inviter = Host THEN are_friends(Host, row.guest)
    ELSE fof /\ are_friends(Host, row.inviter) /\ are_friends(row.inviter, row.guest)

\* Mutant of InitialStatus: nothing waits for the host.
InitialStatusPending(row) == "pending"

(* The status a new row gets: a friend-of-friend invite waits for the host's *)
(* approval unless the invitee is the host's own friend.                     *)
InitialStatus(row) ==
    IF row.kind = "invite" /\ row.inviter # Host /\ ~ are_friends(Host, row.guest)
    THEN "pending_approval" ELSE "pending"

CheckEligible(c) ==
    LET q == call[c]
    IN  /\ q.pc = "eligible"
        /\ IF q.row.kind = "request" THEN RequestAllowed(q.row, q.fof)
                                     ELSE InviteAllowed(q.row, q.fof)
        /\ Now(c, [pc |-> "expire", row |-> [q.row EXCEPT !.status = InitialStatus(q.row)],
                   fof |-> q.fof])
        /\ UNCHANGED <<rows, approved>>

\* The rows that occupy the unique slot of (world, guest).
Occupying(row) ==
    {x \in Items : item[x].kind = row.kind /\ item[x].guest = row.guest
                   /\ item[x].status \in Active}

Expired(S) ==
    [x \in Items |-> IF x \in S THEN [item[x] EXCEPT !.status = "expired"] ELSE item[x]]

(* Free the slot from lapsed rows.                                           *)
ExpireLapsed(c) ==
    LET q == call[c]
        lapsed == {x \in Occupying(q.row) : item[x].lapsed}
    IN  /\ q.pc = "expire"
        /\ \A x \in lapsed : Unlocked(x)
        /\ item' = Expired(lapsed)
        /\ Now(c, [q EXCEPT !.pc = "insert"])
        /\ UNCHANGED <<lock, tickets, approved>>

(* INSERT; the partial unique index lets it through only into a free slot.   *)
InsertItem(c, x) ==
    LET q == call[c]
    IN  /\ q.pc = "insert"
        /\ Occupying(q.row) = {}
        /\ item[x].status = "none"
        /\ item' = [item EXCEPT ![x] = q.row]
        /\ approved' = IF q.row.kind = "invite" /\ q.row.inviter = Host
                       THEN approved \cup {x} ELSE approved
        /\ Now(c, Idle)
        /\ UNCHANGED <<lock, tickets>>

-----------------------------------------------------------------------------
(* accept, of a request by the host or of an invite by the invitee.          *)

(* The row is locked FOR UPDATE; it must be pending and not lapsed.          *)
LockItem(c, x) ==
    /\ call[c] = Idle
    /\ Unlocked(x)
    /\ item[x].status = "pending"
    /\ ~ item[x].lapsed
    /\ lock' = [lock EXCEPT ![x] = c]
    /\ Now(c, [pc |-> "world", item |-> x, fof |-> FALSE])
    /\ UNCHANGED <<item, tickets, approved>>

(* load_open_world_session, read in the transaction: open, its policy, and   *)
(* (compared after the link check, on this copy) a free slot.                *)
ReadWorld(c) ==
    /\ call[c].pc = "world"
    /\ world.open
    /\ world.slot
    /\ Now(c, [pc |-> "trust", item |-> call[c].item, fof |-> world.fof])
    /\ UNCHANGED <<rows, approved>>

(* Re-validation at admission, first statement: a direct link ends it; or    *)
(* the policy read above allows friends of friends and the inviter is still  *)
(* the host's friend.                                                        *)
CheckTrust(c) ==
    LET q == call[c]
        row == item[q.item]
    IN  /\ q.pc = "trust"
        /\ \/ Direct(row) /\ Now(c, [q EXCEPT !.pc = "commit"])
           \/ /\ ~ Direct(row) /\ q.fof /\ Trusted(row)
              /\ Now(c, [q EXCEPT !.pc = "link"])
        /\ UNCHANGED <<rows, approved>>

\* Mutant of CheckLink: the link is taken for granted.
CheckLinkSkipped(c) ==
    /\ call[c].pc = "link"
    /\ Now(c, [call[c] EXCEPT !.pc = "commit"])
    /\ UNCHANGED <<rows, approved>>

(* Second statement: the link to a member, or from the inviter.              *)
CheckLink(c) ==
    LET q == call[c]
    IN  /\ q.pc = "link"
        /\ Linked(item[q.item])
        /\ Now(c, [q EXCEPT !.pc = "commit"])
        /\ UNCHANGED <<rows, approved>>

(* The conditional transition, the ticket and the relay row commit together; *)
(* a row that is not pending any more rolls everything back.                 *)
CommitAccept(c) ==
    LET x == call[c].item
    IN  /\ call[c].pc = "commit"
        /\ IF item[x].status = "pending"
           THEN /\ item' = [item EXCEPT ![x].status = "accepted"]
                /\ tickets' = [tickets EXCEPT ![x] = @ + 1]
                /\ approved' = IF item[x].kind = "request" THEN approved \cup {x} ELSE approved
           ELSE UNCHANGED <<item, tickets, approved>>
        /\ lock' = [lock EXCEPT ![x] = None]
        /\ Now(c, Idle)

-----------------------------------------------------------------------------
(* decline, approve and revoke: a read, then a conditional UPDATE.           *)

\* Mutant of Expects: no status in the WHERE clause.
ExpectsAny(op) == Status

(* The rows the UPDATE's WHERE clause lets through, and their new status.    *)
Expects(op) ==
    CASE op = "decline" -> {"pending"}
      [] op = "approve" -> {"pending_approval"}
      [] op = "revoke"  -> Active

Becomes(op) ==
    CASE op = "decline" -> "declined"
      [] op = "approve" -> "pending"
      [] op = "revoke"  -> "revoked"

(* The unlocked read.  Decline refuses a row that is not pending, approve    *)
(* one that is not awaiting approval or has lapsed; revoke looks at the      *)
(* caller only.  Requests know decline alone.                                *)
ReadItem(c, x, op) ==
    /\ call[c] = Idle
    /\ item[x].status \notin {"none", "deleted"}
    /\ item[x].kind = "request" => op = "decline"
    /\ op # "revoke" => item[x].status \in Expects(op)
    /\ op = "approve" => ~ item[x].lapsed
    /\ Now(c, [pc |-> op, item |-> x])
    /\ UNCHANGED <<rows, approved>>

WriteItem(c) ==
    LET x == call[c].item
        op == call[c].pc
    IN  /\ op \in {"decline", "approve", "revoke"}
        /\ Unlocked(x)
        /\ IF item[x].status \in Expects(op)
           THEN /\ item' = [item EXCEPT ![x].status = Becomes(op)]
                /\ approved' = IF op = "approve" THEN approved \cup {x} ELSE approved
           ELSE UNCHANGED <<item, approved>>
        /\ Now(c, Idle)
        /\ UNCHANGED <<lock, tickets>>

-----------------------------------------------------------------------------
(* A call that fails a check, meets an error or loses its client: its        *)
(* transaction rolls back and lets go of the lock.                           *)
Abandon(c) ==
    /\ call[c] # Idle
    /\ lock' = [x \in Items |-> IF lock[x] = c THEN None ELSE lock[x]]
    /\ Now(c, Idle)
    /\ UNCHANGED <<item, tickets, approved>>

-----------------------------------------------------------------------------
\* Mutant of CleanupExpire: whatever the status.
CleanupExpireAny(x) ==
    /\ Unlocked(x)
    /\ item[x].lapsed
    /\ item' = Expired({x})
    /\ UNCHANGED <<lock, call, tickets, approved>>

(* cleanup_stale_join_state: lapsed rows expire, aged terminal rows go.      *)
CleanupExpire(x) ==
    /\ Unlocked(x)
    /\ item[x].status \in Active
    /\ item[x].lapsed
    /\ item' = Expired({x})
    /\ UNCHANGED <<lock, call, tickets, approved>>

CleanupDelete(x) ==
    /\ Unlocked(x)
    /\ item[x].status \in TERMINAL
    /\ item' = [item EXCEPT ![x].status = "deleted"]
    /\ UNCHANGED <<lock, call, tickets, approved>>

-----------------------------------------------------------------------------
(* The environment.                                                          *)
Event == events < MaxEvents /\ events' = events + 1

Befriend(a, b) ==
    /\ a # b
    /\ friends' = IF are_friends(a, b) THEN friends \ {{a, b}} ELSE friends \cup {{a, b}}
    /\ known' = known \cup HostsFriends(friends')
    /\ UNCHANGED <<world, members>>

(* The host's PATCH of the policy, tunnels that fill and leave the world,    *)
(* the host's presence.                                                      *)
ChangeWorld(field) ==
    /\ world.open
    /\ world' = [world EXCEPT ![field] = ~ @]
    /\ UNCHANGED <<friends, members, known>>

(* Closing the world closes its relay rows and takes the host out of it.     *)
CloseWorld ==
    /\ world.open
    /\ world' = [world EXCEPT !.open = FALSE, !.hostIn = FALSE]
    /\ members' = {}
    /\ UNCHANGED <<friends, known>>

(* A guest with a ticket connects; a member leaves or goes silent.           *)
Arrive(g) ==
    /\ g \in known \/ \E x \in Items : tickets[x] > 0 /\ item[x].guest = g
    /\ world.open /\ world.slot
    /\ members' = members \cup {g}
    /\ UNCHANGED <<friends, world, known>>

Leave(g) ==
    /\ members' = members \ {g}
    /\ UNCHANGED <<friends, world, known>>

(* expires_at of a row passes.                                               *)
Lapse(x) ==
    /\ item[x].status \in Active
    /\ ~ item[x].lapsed
    /\ item' = [item EXCEPT ![x].lapsed = TRUE]
    /\ UNCHANGED <<lock, call, tickets, approved>>

Ops ==
    \/ \E c \in Calls :
        \/ \E g \in Guests : \/ BeginRequest(c, g)
                             \/ \E u \in Users : BeginInvite(c, u, g)
        \/ \E x \in Items : \/ InsertItem(c, x) \/ LockItem(c, x)
                            \/ \E op \in {"decline", "approve", "revoke"} : ReadItem(c, x, op)
        \/ CheckEligible(c) \/ ExpireLapsed(c)
        \/ ReadWorld(c) \/ CheckTrust(c) \/ CheckLink(c) \/ CommitAccept(c)
        \/ WriteItem(c) \/ Abandon(c)
    \/ \E x \in Items : CleanupExpire(x) \/ CleanupDelete(x) \/ Lapse(x)

Environment ==
    /\ Event
    /\ \/ \E a, b \in Users : Befriend(a, b)
       \/ \E field \in {"fof", "slot", "hostIn"} : ChangeWorld(field)
       \/ CloseWorld
       \/ \E g \in Guests : Arrive(g)
       \/ \E g \in members : Leave(g)
    /\ UNCHANGED <<rows, call, approved>>

Observe == seen' = [c \in Calls |-> Observed(c)]

Next ==
    \/ Ops /\ UNCHANGED env /\ Observe
    \/ Environment /\ Observe

Spec == Init /\ [][Next]_vars

-----------------------------------------------------------------------------
(* An accepted row has exactly one ticket and no other row has any, however  *)
(* accepts, declines, approvals, revocations and the cleanup overlap.        *)
OneTicketPerAccepted ==
    /\ TypeOK
    /\ \A x \in Items :
        /\ tickets[x] <= 1
        /\ item[x].status = "accepted" => tickets[x] = 1
        /\ item[x].status \notin {"accepted", "deleted"} => tickets[x] = 0

(* "A row in one of these can never transition again": a terminal row is     *)
(* only ever deleted.                                                        *)
TerminalIsFinal ==
    [][\A x \in Items : item[x].status \in TERMINAL =>
          item'[x].status \in {item[x].status, "deleted"}]_vars

(* Admission is re-validated: a ticket is minted only if an open world, a    *)
(* free slot, the policy and the friendship chain each held at some moment   *)
(* of the accept call itself, not merely when the row was made.              *)
RevalidatedAtAccept ==
    [][\A x \in Items : tickets'[x] > tickets[x] =>
          \E c \in Calls : Accepting(c) /\ call[c].item = x /\ Observed(c) = Conditions]_vars

(* The host has the last word: a guest who was never the host's friend has a *)
(* ticket from a request or an invite only if the host accepted, sent or     *)
(* approved it.                                                              *)
HostLetsStrangersIn ==
    \A x \in Items : tickets[x] > 0 /\ item[x].guest \notin known => x \in approved

=============================================================================
