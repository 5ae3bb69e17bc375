------------------------------ MODULE Friends ------------------------------
(***************************************************************************)
(* Friend requests and friendships: the handlers of                        *)
(* crates/network/src/friends.rs over the tables friend_requests and       *)
(* friendships.                                                            *)
(*                                                                         *)
(* Every HTTP call in flight is a member of Calls and runs one statement   *)
(* (or one transaction) at a time.  create_request reads twice before it   *)
(* inserts, decline reads before it updates; accept_internal locks the     *)
(* request row FOR UPDATE and is one transaction.                          *)
(***************************************************************************)
EXTENDS Naturals, Sequences, FiniteSets

CONSTANTS
    Users,
    Reqs,    \* ids of friend_requests rows
    Calls    \* HTTP calls that may be in flight at once

VARIABLES
    request,     \* friend_requests
    friendship,  \* friendships: the set of unordered pairs
    call,        \* what each call in flight has read so far
    decisions    \* history: the decisions written to each request, in order; each
                 \* one is also pushed to the requester

vars == <<request, friendship, call, decisions>>

-----------------------------------------------------------------------------
Status == {"none", "pending", "accepted", "declined"}
RequestRow == [from: Users, to: Users, status: Status]
Pairs == {{a, b} : a, b \in Users}

\* pc: "friends"  create_request, about to read the reverse request
\*     "insert"   create_request, about to insert
\*     "accept"   accept_internal, about to run its transaction
\*     "decline"  decline, the row was pending when it was read
Call == [pc: {"friends", "insert"}, me: Users, other: Users]
        \cup [pc: {"accept", "decline"}, me: Users, req: Reqs]
Idle == [pc |-> "idle"]

TypeOK ==
    /\ request \in [Reqs -> RequestRow]
    /\ friendship \subseteq Pairs
    /\ call \in [Calls -> Call \cup {Idle}]
    /\ decisions \in [Reqs -> Seq({"accepted", "declined"})]

Init ==
    /\ request \in [Reqs -> {[from |-> u, to |-> u, status |-> "none"] : u \in Users}]
    /\ \A r, s \in Reqs : request[r] = request[s]
    /\ friendship = {}
    /\ call = [c \in Calls |-> Idle]
    /\ decisions = [r \in Reqs |-> << >>]

Pending(a, b) ==
    {r \in Reqs : request[r].from = a /\ request[r].to = b /\ request[r].status = "pending"}

Now(c, q) == call' = [call EXCEPT ![c] = q]

-----------------------------------------------------------------------------
(* create_request: not myself, not yet friends.                              *)
BeginCreate(c, me, target) ==
    /\ call[c] = Idle
    /\ me # target
    /\ {me, target} \notin friendship
    /\ Now(c, [pc |-> "friends", me |-> me, other |-> target])
    /\ UNCHANGED <<request, friendship, decisions>>

(* The SELECT of a pending request the other way: accept that one instead.   *)
FindReverse(c) ==
    LET q == call[c]
    IN  /\ q.pc = "friends"
        /\ IF Pending(q.other, q.me) = {}
           THEN Now(c, [pc |-> "insert", me |-> q.me, other |-> q.other])
           ELSE \E r \in Pending(q.other, q.me) :
                    Now(c, [pc |-> "accept", me |-> q.me, req |-> r])
        /\ UNCHANGED <<request, friendship, decisions>>

(* The INSERT.                                                               *)
InsertRequest(c, r) ==
    LET q == call[c]
    IN  /\ q.pc = "insert"
        /\ Pending(q.me, q.other) = {}
        /\ request[r].status = "none"
        /\ request' = [request EXCEPT ![r] =
               [from |-> q.me, to |-> q.other, status |-> "pending"]]
        /\ Now(c, Idle)
        /\ UNCHANGED <<friendship, decisions>>

(* friend_requests_pending_unique refuses a second pending row of the same   *)
(* ordered pair: 409.                                                        *)
InsertConflict(c) ==
    LET q == call[c]
    IN  /\ q.pc = "insert"
        /\ Pending(q.me, q.other) # {}
        /\ Now(c, Idle)
        /\ UNCHANGED <<request, friendship, decisions>>

(* POST /friends/requests/:id/accept, up to the transaction.                 *)
BeginAccept(c, me, r) ==
    /\ call[c] = Idle
    /\ request[r].status # "none"
    /\ Now(c, [pc |-> "accept", me |-> me, req |-> r])
    /\ UNCHANGED <<request, friendship, decisions>>

\* Mutants of MayAccept: the status, or the addressee, is not checked.
MayAcceptDecided(me, r) == request[r].to = me
MayAcceptAnyone(me, r) == request[r].status = "pending"

\* What the locked row must be for the transaction to go on.
MayAccept(me, r) == request[r].to = me /\ request[r].status = "pending"

(* accept_internal: the locked row must be mine and pending; it becomes      *)
(* accepted and the friendship is inserted (ON CONFLICT DO NOTHING).         *)
AcceptInternal(c) ==
    LET q == call[c]
    IN  /\ q.pc = "accept"
        /\ IF MayAccept(q.me, q.req)
           THEN /\ request' = [request EXCEPT ![q.req].status = "accepted"]
                /\ friendship' = friendship \cup {{request[q.req].from, request[q.req].to}}
                /\ decisions' = [decisions EXCEPT ![q.req] = Append(@, "accepted")]
           ELSE UNCHANGED <<request, friendship, decisions>>
        /\ Now(c, Idle)

(* decline: the row is read without a lock; it must be mine and pending.     *)
BeginDecline(c, me, r) ==
    /\ call[c] = Idle
    /\ request[r].to = me
    /\ request[r].status = "pending"
    /\ Now(c, [pc |-> "decline", me |-> me, req |-> r])
    /\ UNCHANGED <<request, friendship, decisions>>

(* decline: UPDATE ... SET status = 'declined' WHERE id, whatever the row is *)
(* by now.                                                                   *)
DeclineRequest(c) ==
    LET q == call[c]
    IN  /\ q.pc = "decline"
        /\ request' = [request EXCEPT ![q.req].status = "declined"]
        /\ decisions' = [decisions EXCEPT ![q.req] = Append(@, "declined")]
        /\ Now(c, Idle)
        /\ UNCHANGED friendship

(* DELETE /friends/:userId, one statement.                                   *)
RemoveFriend(a, b) ==
    /\ {a, b} \in friendship
    /\ friendship' = friendship \ {{a, b}}
    /\ UNCHANGED <<request, call, decisions>>

(* A call fails or its client is gone before its next statement.             *)
Abandon(c) ==
    /\ call[c] # Idle
    /\ Now(c, Idle)
    /\ UNCHANGED <<request, friendship, decisions>>

Next ==
    \/ \E c \in Calls, me, other \in Users : BeginCreate(c, me, other)
    \/ \E c \in Calls : \/ FindReverse(c) \/ InsertConflict(c) \/ AcceptInternal(c)
                      \/ DeclineRequest(c) \/ Abandon(c)
    \/ \E c \in Calls, r \in Reqs : InsertRequest(c, r)
    \/ \E c \in Calls, me \in Users, r \in Reqs : BeginAccept(c, me, r) \/ BeginDecline(c, me, r)
    \/ \E a, b \in Users : RemoveFriend(a, b)

Spec == Init /\ [][Next]_vars

-----------------------------------------------------------------------------
(* Two users become friends only when the addressee of a pending request     *)
(* between them accepts it, whichever of accept or create_request runs, and  *)
(* however calls overlap.                                                    *)
FriendsOnlyByConsent ==
    [][\A p \in friendship' \ friendship :
         \E c \in Calls, r \in Reqs :
            /\ call[c].pc = "accept" /\ call[c].req = r /\ call[c].me = request[r].to
            /\ p = {request[r].from, request[r].to}
            /\ request[r].status = "pending" /\ request'[r].status = "accepted"]_vars

(* A request is accepted at most once and never after it was declined: of    *)
(* two overlapping accepts one gets the row and the other a conflict.        *)
AcceptedAtMostOnce ==
    /\ TypeOK
    /\ \A r \in Reqs : \A i \in 1 .. Len(decisions[r]) :
          decisions[r][i] = "accepted" => i = 1

=============================================================================
