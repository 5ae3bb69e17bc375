--------------------------- MODULE SocialProofs ----------------------------
(***************************************************************************)
(* Friend requests are accepted at most once, and friendships come from an *)
(* accept by the addressee, for any number of users, requests and calls in *)
(* flight; and a user whose sockets are all gone is offline, for any       *)
(* number of users, sockets, worlds and calls.                             *)
(***************************************************************************)
EXTENDS Friends, Presence, TLAPS

(* What AcceptedAtMostOnce needs to be inductive: a request that is still    *)
(* open was not decided before.  The lock of accept_internal is worth what   *)
(* it is because of this: the status it re-reads tells whether any decision  *)
(* was written.  A declined row may have been accepted first.                *)
OpenIsUndecided ==
    \A r \in Reqs : request[r].status \in {"none", "pending"} => decisions[r] = << >>

FriendsInv == AcceptedAtMostOnce /\ OpenIsUndecided

-----------------------------------------------------------------------------
(* A call at a given pc carries the fields that pc uses.                     *)
LEMMA CallFields ==
    ASSUME TypeOK, NEW c \in Calls
    PROVE  /\ call[c].pc \in {"friends", "insert"} =>
                call[c].me \in Users /\ call[c].other \in Users
           /\ call[c].pc \in {"accept", "decline"} => call[c].me \in Users /\ call[c].req \in Reqs
<1>1. call[c] \in Call \cup {Idle}
  BY DEF TypeOK
<1>2. CASE call[c] \in [pc: {"friends", "insert"}, me: Users, other: Users]
  BY <1>2 DEF Call
<1>3. CASE call[c] \in [pc: {"accept", "decline"}, me: Users, req: Reqs]
  BY <1>3
<1>4. CASE call[c] = Idle
  BY <1>4 DEF Idle
<1> QED
  BY <1>1, <1>2, <1>3, <1>4 DEF Call

(* Writing a call's next position keeps the type of the calls.               *)
LEMMA NowTyped ==
    ASSUME TypeOK, NEW c \in Calls, NEW q \in Call \cup {Idle}, Now(c, q)
    PROVE  call' \in [Calls -> Call \cup {Idle}]
BY DEF TypeOK, Now

(* Appending a decision to a history.                                        *)
LEMMA Appended ==
    ASSUME NEW s \in Seq({"accepted", "declined"}), NEW d \in {"accepted", "declined"},
           \A i \in 1 .. Len(s) : s[i] = "accepted" => i = 1,
           d = "accepted" => s = << >>
    PROVE  /\ Append(s, d) \in Seq({"accepted", "declined"})
           /\ \A i \in 1 .. Len(Append(s, d)) : Append(s, d)[i] = "accepted" => i = 1
<1>1. Append(s, d) \in Seq({"accepted", "declined"}) /\ Len(Append(s, d)) = Len(s) + 1
  OBVIOUS
<1>2. ASSUME NEW i \in 1 .. Len(Append(s, d)), Append(s, d)[i] = "accepted"
      PROVE  i = 1
  <2>1. CASE i = Len(s) + 1
    <3>1. Append(s, d)[i] = d
      BY <2>1
    <3>2. s = << >>
      BY <3>1, <1>2
    <3> QED BY <3>2, <2>1
  <2>2. CASE i # Len(s) + 1
    <3>1. i \in 1 .. Len(s) /\ Append(s, d)[i] = s[i]
      BY <2>2, <1>1
    <3> QED BY <3>1, <1>2
  <2> QED BY <2>1, <2>2
<1> QED BY <1>1, <1>2

-----------------------------------------------------------------------------
LEMMA InitInv == Init => FriendsInv
<1> SUFFICES ASSUME Init PROVE FriendsInv
  OBVIOUS
<1>1. request \in [Reqs -> RequestRow]
  BY DEF Init, RequestRow, Status
<1>2. friendship \subseteq Pairs /\ call \in [Calls -> Call \cup {Idle}]
  BY DEF Init
<1>3. decisions \in [Reqs -> Seq({"accepted", "declined"})]
  BY DEF Init
<1>4. \A r \in Reqs : decisions[r] = << >> /\ Len(decisions[r]) = 0
  BY DEF Init
<1> QED BY <1>1, <1>2, <1>3, <1>4 DEF FriendsInv, AcceptedAtMostOnce, TypeOK, OpenIsUndecided

(* The steps that only read: they move a call and leave the tables alone.    *)
LEMMA ReadersKeepInv ==
    ASSUME FriendsInv, NEW c \in Calls, NEW q \in Call \cup {Idle}, Now(c, q),
           UNCHANGED <<request, decisions>>, friendship' \subseteq Pairs
    PROVE  FriendsInv'
<1>1. TypeOK
  BY DEF FriendsInv, AcceptedAtMostOnce
<1>2. call' \in [Calls -> Call \cup {Idle}]
  BY <1>1, NowTyped
<1> QED BY <1>1, <1>2 DEF FriendsInv, AcceptedAtMostOnce, TypeOK, OpenIsUndecided

LEMMA NextInv == FriendsInv /\ [Next]_vars => FriendsInv'
<1> SUFFICES ASSUME FriendsInv, [Next]_vars PROVE FriendsInv'
  OBVIOUS
<1>t. TypeOK
  BY DEF FriendsInv, AcceptedAtMostOnce
<1>f. friendship \subseteq Pairs
  BY <1>t DEF TypeOK
<1>i. Idle \in Call \cup {Idle}
  OBVIOUS
<1>1. ASSUME NEW c \in Calls, NEW me \in Users, NEW other \in Users, BeginCreate(c, me, other)
      PROVE  FriendsInv'
  <2>1. [pc |-> "friends", me |-> me, other |-> other] \in Call
    BY DEF Call
  <2> QED BY <1>1, <2>1, <1>f, ReadersKeepInv DEF BeginCreate
<1>2. ASSUME NEW c \in Calls, FindReverse(c) PROVE FriendsInv'
  <2> DEFINE q == call[c]
  <2>1. q.me \in Users /\ q.other \in Users
    BY <1>2, <1>t, CallFields DEF FindReverse
  <2>2. CASE Pending(q.other, q.me) = {}
    <3>1. Now(c, [pc |-> "insert", me |-> q.me, other |-> q.other]) /\ UNCHANGED <<request, friendship, decisions>>
      BY <1>2, <2>2 DEF FindReverse
    <3>2. [pc |-> "insert", me |-> q.me, other |-> q.other] \in Call
      BY <2>1 DEF Call
    <3> QED BY <3>1, <3>2, <1>f, ReadersKeepInv
  <2>3. CASE Pending(q.other, q.me) # {}
    <3>1. PICK r \in Pending(q.other, q.me) : Now(c, [pc |-> "accept", me |-> q.me, req |-> r])
      BY <1>2, <2>3 DEF FindReverse
    <3>2. [pc |-> "accept", me |-> q.me, req |-> r] \in Call
      BY <2>1 DEF Call, Pending
    <3>3. UNCHANGED <<request, friendship, decisions>>
      BY <1>2 DEF FindReverse
    <3> QED BY <3>1, <3>2, <3>3, <1>f, ReadersKeepInv
  <2> QED BY <2>2, <2>3
<1>3. ASSUME NEW c \in Calls, InsertConflict(c) PROVE FriendsInv'
  BY <1>3, <1>f, <1>i, ReadersKeepInv DEF InsertConflict
<1>4. ASSUME NEW c \in Calls, AcceptInternal(c) PROVE FriendsInv'
  <2> DEFINE q == call[c]
  <2>1. q.me \in Users /\ q.req \in Reqs /\ Now(c, Idle)
    BY <1>4, <1>t, CallFields DEF AcceptInternal
  <2>2. CASE ~ MayAccept(q.me, q.req)
    <3>1. UNCHANGED <<request, friendship, decisions>>
      BY <1>4, <2>2 DEF AcceptInternal
    <3> QED BY <3>1, <2>1, <1>f, <1>i, ReadersKeepInv
  <2>3. CASE MayAccept(q.me, q.req)
    <3>1. /\ request' = [request EXCEPT ![q.req].status = "accepted"]
          /\ friendship' = friendship \cup {{request[q.req].from, request[q.req].to}}
          /\ decisions' = [decisions EXCEPT ![q.req] = Append(@, "accepted")]
      BY <1>4, <2>3 DEF AcceptInternal
    <3>2. decisions[q.req] = << >>
      BY <2>1, <2>3 DEF MayAccept, FriendsInv, OpenIsUndecided
    <3>3. /\ Append(decisions[q.req], "accepted") \in Seq({"accepted", "declined"})
          /\ \A i \in 1 .. Len(Append(decisions[q.req], "accepted")) :
               Append(decisions[q.req], "accepted")[i] = "accepted" => i = 1
      BY <3>2, <2>1, <1>t, Appended DEF FriendsInv, AcceptedAtMostOnce, TypeOK
    <3>4. request' \in [Reqs -> RequestRow]
      BY <3>1, <1>t DEF TypeOK, RequestRow, Status
    <3>5. friendship' \subseteq Pairs
      BY <3>1, <1>t, <2>1 DEF TypeOK, RequestRow, Pairs
    <3>6. decisions' \in [Reqs -> Seq({"accepted", "declined"})]
      BY <3>1, <3>3, <1>t DEF TypeOK
    <3>7. call' \in [Calls -> Call \cup {Idle}]
      BY <2>1, <1>t, <1>i, NowTyped
    <3>8. ASSUME NEW r \in Reqs, NEW i \in 1 .. Len(decisions'[r]), decisions'[r][i] = "accepted"
          PROVE  i = 1
      <4>1. CASE r = q.req
        BY <4>1, <3>1, <3>3, <3>8, <1>t DEF TypeOK
      <4>2. CASE r # q.req
        <5>1. decisions'[r] = decisions[r]
          BY <4>2, <3>1, <1>t DEF TypeOK
        <5> QED BY <5>1, <3>8 DEF FriendsInv, AcceptedAtMostOnce
      <4> QED BY <4>1, <4>2
    <3>9. OpenIsUndecided'
      <4> SUFFICES ASSUME NEW r \in Reqs, request'[r].status \in {"none", "pending"}
                   PROVE  decisions'[r] = << >>
        BY DEF OpenIsUndecided
      <4>1. r # q.req
        BY <3>1, <1>t DEF TypeOK, RequestRow
      <4>2. request'[r] = request[r] /\ decisions'[r] = decisions[r]
        BY <4>1, <3>1, <1>t DEF TypeOK
      <4> QED BY <4>2 DEF FriendsInv, OpenIsUndecided
    <3> QED BY <3>4, <3>5, <3>6, <3>7, <3>8, <3>9 DEF FriendsInv, AcceptedAtMostOnce, TypeOK
  <2> QED BY <2>2, <2>3
<1>5. ASSUME NEW c \in Calls, DeclineRequest(c) PROVE FriendsInv'
  <2> DEFINE q == call[c]
  <2>1. q.req \in Reqs /\ Now(c, Idle)
    BY <1>5, <1>t, CallFields DEF DeclineRequest
  <2>2. /\ request' = [request EXCEPT ![q.req].status = "declined"]
        /\ decisions' = [decisions EXCEPT ![q.req] = Append(@, "declined")]
        /\ UNCHANGED friendship
    BY <1>5 DEF DeclineRequest
  <2>3. /\ Append(decisions[q.req], "declined") \in Seq({"accepted", "declined"})
        /\ \A i \in 1 .. Len(Append(decisions[q.req], "declined")) :
             Append(decisions[q.req], "declined")[i] = "accepted" => i = 1
    <3>1. \A i \in 1 .. Len(decisions[q.req]) : decisions[q.req][i] = "accepted" => i = 1
      BY <2>1 DEF FriendsInv, AcceptedAtMostOnce
    <3>2. decisions[q.req] \in Seq({"accepted", "declined"})
      BY <2>1, <1>t DEF TypeOK
    <3> QED BY <3>1, <3>2, Appended
  <2>4. request' \in [Reqs -> RequestRow]
    BY <2>2, <1>t DEF TypeOK, RequestRow, Status
  <2>5. decisions' \in [Reqs -> Seq({"accepted", "declined"})]
    BY <2>2, <2>3, <1>t DEF TypeOK
  <2>6. call' \in [Calls -> Call \cup {Idle}]
    BY <2>1, <1>t, <1>i, NowTyped
  <2>7. ASSUME NEW r \in Reqs, NEW i \in 1 .. Len(decisions'[r]), decisions'[r][i] = "accepted"
        PROVE  i = 1
    <3>1. CASE r = q.req
      BY <3>1, <2>2, <2>3, <2>7, <1>t DEF TypeOK
    <3>2. CASE r # q.req
      <4>1. decisions'[r] = decisions[r]
        BY <3>2, <2>2, <1>t DEF TypeOK
      <4> QED BY <4>1, <2>7 DEF FriendsInv, AcceptedAtMostOnce
    <3> QED BY <3>1, <3>2
  <2>8. OpenIsUndecided'
    <3> SUFFICES ASSUME NEW r \in Reqs, request'[r].status \in {"none", "pending"}
                 PROVE  decisions'[r] = << >>
      BY DEF OpenIsUndecided
    <3>1. r # q.req
      BY <2>2, <1>t DEF TypeOK, RequestRow
    <3>2. request'[r] = request[r] /\ decisions'[r] = decisions[r]
      BY <3>1, <2>2, <1>t DEF TypeOK
    <3> QED BY <3>2 DEF FriendsInv, OpenIsUndecided
  <2> QED BY <2>2, <2>4, <2>5, <2>6, <2>7, <2>8, <1>f DEF FriendsInv, AcceptedAtMostOnce, TypeOK
<1>6. ASSUME NEW c \in Calls, Abandon(c) PROVE FriendsInv'
  BY <1>6, <1>f, <1>i, ReadersKeepInv DEF Abandon
<1>7. ASSUME NEW c \in Calls, NEW r \in Reqs, InsertRequest(c, r) PROVE FriendsInv'
  <2> DEFINE q == call[c]
  <2>1. q.me \in Users /\ q.other \in Users
    BY <1>7, <1>t, CallFields DEF InsertRequest
  <2>2. /\ request' = [request EXCEPT ![r] =
               [from |-> q.me, to |-> q.other, status |-> "pending"]]
        /\ Now(c, Idle) /\ UNCHANGED <<friendship, decisions>>
        /\ request[r].status = "none"
    BY <1>7 DEF InsertRequest
  <2>3. request' \in [Reqs -> RequestRow]
    BY <2>1, <2>2, <1>t DEF TypeOK, RequestRow, Status
  <2>4. call' \in [Calls -> Call \cup {Idle}]
    BY <2>2, <1>t, <1>i, NowTyped
  <2>5. OpenIsUndecided'
    <3> SUFFICES ASSUME NEW p \in Reqs, request'[p].status \in {"none", "pending"}
                 PROVE  decisions'[p] = << >>
      BY DEF OpenIsUndecided
    <3>1. request[p].status \in {"none", "pending"}
      BY <2>2, <1>t DEF TypeOK
    <3> QED BY <3>1, <2>2 DEF FriendsInv, OpenIsUndecided
  <2> QED BY <2>2, <2>3, <2>4, <2>5, <1>t DEF FriendsInv, AcceptedAtMostOnce, TypeOK
<1>8. ASSUME NEW c \in Calls, NEW me \in Users, NEW r \in Reqs,
             BeginAccept(c, me, r) \/ BeginDecline(c, me, r)
      PROVE  FriendsInv'
  <2>1. [pc |-> "accept", me |-> me, req |-> r] \in Call
        /\ [pc |-> "decline", me |-> me, req |-> r] \in Call
    BY DEF Call
  <2> QED BY <1>8, <2>1, <1>f, ReadersKeepInv DEF BeginAccept, BeginDecline
<1>9. ASSUME NEW a \in Users, NEW b \in Users, RemoveFriend(a, b) PROVE FriendsInv'
  <2>1. friendship' \subseteq Pairs /\ UNCHANGED <<request, call, decisions>>
    BY <1>9, <1>f DEF RemoveFriend
  <2> QED BY <2>1 DEF FriendsInv, AcceptedAtMostOnce, TypeOK, OpenIsUndecided
<1>10. CASE UNCHANGED vars
  BY <1>10 DEF vars, FriendsInv, AcceptedAtMostOnce, TypeOK, OpenIsUndecided
<1> QED BY <1>1, <1>2, <1>3, <1>4, <1>5, <1>6, <1>7, <1>8, <1>9, <1>10 DEF Next

-----------------------------------------------------------------------------
(* Under every interleaving of create_request, accept and decline, a request *)
(* is accepted at most once and only as its first decision.                  *)
THEOREM AcceptedOnce == Spec => []AcceptedAtMostOnce
<1>1. FriendsInv => AcceptedAtMostOnce
  BY DEF FriendsInv
<1> QED BY <1>1, InitInv, NextInv, PTL DEF Spec

(* A step that adds a friendship is an accept of a pending request by its    *)
(* addressee, whichever handler ran it and whatever else was in flight.      *)
LEMMA ConsentStep ==
    ASSUME TypeOK, Next, NEW p \in friendship' \ friendship
    PROVE  \E c \in Calls, r \in Reqs :
              /\ call[c].pc = "accept" /\ call[c].req = r /\ call[c].me = request[r].to
              /\ p = {request[r].from, request[r].to}
              /\ request[r].status = "pending" /\ request'[r].status = "accepted"
<1>1. PICK c \in Calls : AcceptInternal(c)
  BY DEF Next, BeginCreate, FindReverse, InsertConflict, DeclineRequest, Abandon,
         InsertRequest, BeginAccept, BeginDecline, RemoveFriend
<1> DEFINE q == call[c]
<1>2. q.pc = "accept" /\ q.req \in Reqs
  BY <1>1, CallFields DEF AcceptInternal
<1>3. MayAccept(q.me, q.req)
  BY <1>1 DEF AcceptInternal
<1>4. /\ request' = [request EXCEPT ![q.req].status = "accepted"]
      /\ friendship' = friendship \cup {{request[q.req].from, request[q.req].to}}
  BY <1>1, <1>3 DEF AcceptInternal
<1>5. request'[q.req].status = "accepted"
  BY <1>2, <1>4 DEF TypeOK, RequestRow
<1>6. p = {request[q.req].from, request[q.req].to}
  BY <1>4
<1> QED BY <1>2, <1>3, <1>5, <1>6 DEF MayAccept

(* Nobody becomes a friend without the accept of the addressee of a pending  *)
(* request, for any number of users and calls.                               *)
THEOREM ConsentHolds == Spec => FriendsOnlyByConsent
<1> DEFINE Consent ==
      \A p \in friendship' \ friendship :
         \E c \in Calls, r \in Reqs :
            /\ call[c].pc = "accept" /\ call[c].req = r /\ call[c].me = request[r].to
            /\ p = {request[r].from, request[r].to}
            /\ request[r].status = "pending" /\ request'[r].status = "accepted"
<1>1. TypeOK /\ [Next]_vars => [Consent]_vars
  <2> SUFFICES ASSUME TypeOK, Next PROVE Consent
    OBVIOUS
  <2> QED BY ConsentStep
<1>2. FriendsInv => TypeOK
  BY DEF FriendsInv, AcceptedAtMostOnce
<1>3. Spec => []FriendsInv
  BY InitInv, NextInv, PTL DEF Spec
<1> QED BY <1>1, <1>2, <1>3, PTL DEF Spec, FriendsOnlyByConsent

-----------------------------------------------------------------------------
(* Presence.  GoneIsOffline looks at users without a handler in progress; to *)
(* be inductive it must say who will take a user offline before that: a row  *)
(* that is not offline has a handler that is still to run mark_offline, or   *)
(* to find another socket in the hub.                                        *)

Sockets(u) == {c \in Conns : UserOf[c] = u}

HubIsHandlers == \A u \in Players : hub[u] = {c \in Sockets(u) : handler[c] \in Registered}

SomeoneWillLeave ==
    \A u \in Players \ touched : presence[u].status \notin {"none", "offline"} =>
        \E c \in Sockets(u) : handler[c] \in Registered \cup {"removed", "leaving"}

PresenceInv == PresenceTypes /\ HubIsHandlers /\ SomeoneWillLeave

LEMMA HandlerSet ==
    ASSUME PresenceTypes, NEW c \in Conns, NEW pc \in PC, Goto(c, pc)
    PROVE  /\ handler' \in [Conns -> PC] /\ handler'[c] = pc
           /\ \A d \in Conns \ {c} : handler'[d] = handler[d]
BY DEF PresenceTypes, Goto

LEMMA RowSet ==
    ASSUME PresenceTypes, NEW u \in Players, NEW row \in Row, Write(u, row)
    PROVE  /\ presence' \in [Players -> Row] /\ presence'[u] = row
           /\ \A v \in Players \ {u} : presence'[v] = presence[v]
BY DEF PresenceTypes, Write

LEMMA RowsTyped ==
    ASSUME PresenceTypes, NEW u \in Players
    PROVE  /\ presence[u] \in Row
           /\ Live(presence[u]) \in Row
           /\ [presence[u] EXCEPT !.status = "online"] \in Row
           /\ Updated(presence[u], "offline") \in Row
           /\ Updated(presence[u], "offline").status \in {"none", "offline"}
           /\ Updated(presence[u], "online") \in Row
<1>1. presence[u] \in Row
  BY DEF PresenceTypes
<1> QED BY <1>1 DEF Row, InWorld, Live, Updated

(* Some other writer: the users it writes for are touched.                   *)
LEMMA RestWriteKeeps ==
    ASSUME PresenceInv, NEW u \in Players, NEW row \in Row, Write(u, row),
           touched' = touched \cup {u}, UNCHANGED <<hub, handler, faults>>,
           post' \in [Posts -> StatusCall \cup {NoCall}], open' \in SUBSET Worlds
    PROVE  PresenceInv'
<1>1. PresenceTypes
  BY DEF PresenceInv
<1>2. presence' \in [Players -> Row] /\ \A v \in Players \ {u} : presence'[v] = presence[v]
  BY <1>1, RowSet
<1>3. PresenceTypes'
  BY <1>1, <1>2 DEF PresenceTypes
<1>4. HubIsHandlers'
  BY DEF PresenceInv, HubIsHandlers, Sockets
<1>5. SomeoneWillLeave'
  BY <1>2 DEF PresenceInv, SomeoneWillLeave, Sockets
<1> QED BY <1>3, <1>4, <1>5 DEF PresenceInv

(* A socket's handler moves and writes nothing; the hub follows it.          *)
LEMMA HandlerMoves ==
    ASSUME PresenceInv, NEW c \in Conns, NEW u \in Players, u = UserOf[c], NEW pc \in PC, Goto(c, pc),
           hub' \in [Players -> SUBSET Conns], \A v \in Players \ {u} : hub'[v] = hub[v],
           hub'[u] = {d \in Sockets(u) : handler'[d] \in Registered}, UNCHANGED <<post, open>>,
           presence' \in [Players -> Row], faults' \in 0 .. MaxFaults, touched' \in SUBSET Players,
           \A v \in Players \ {u} : presence'[v] = presence[v] /\ (v \in touched <=> v \in touched'),
           \/ u \in touched' \/ presence'[u].status \in {"none", "offline"}
           \/ \E d \in Sockets(u) : handler'[d] \in Registered \cup {"removed", "leaving"}
    PROVE  PresenceInv'
<1>1. PresenceTypes /\ HubIsHandlers /\ SomeoneWillLeave /\ c \in Sockets(u)
  BY DEF PresenceInv, Sockets
<1>2. /\ handler' \in [Conns -> PC] /\ handler'[c] = pc
      /\ \A d \in Conns \ {c} : handler'[d] = handler[d]
  BY <1>1, HandlerSet
<1>3. PresenceTypes'
  BY <1>1, <1>2 DEF PresenceTypes
<1>4. \A v \in Players \ {u} : \A d \in Sockets(v) : handler'[d] = handler[d]
  BY <1>2 DEF Sockets
<1>5. HubIsHandlers'
  <2>1. ASSUME NEW v \in Players \ {u}
        PROVE  hub'[v] = {d \in Sockets(v) : handler'[d] \in Registered}
    BY <1>1, <1>4 DEF HubIsHandlers
  <2>2. \A v \in Players : hub'[v] = {d \in Sockets(v) : handler'[d] \in Registered}
    BY <2>1
  <2> QED BY <2>2 DEF HubIsHandlers, Sockets
<1>6. ASSUME NEW v \in Players \ touched', presence'[v].status \notin {"none", "offline"}
      PROVE  \E d \in Sockets(v) : handler'[d] \in Registered \cup {"removed", "leaving"}
  <2>1. CASE v = u
    BY <1>1, <1>2, <1>6, <2>1
  <2>2. CASE v # u
    BY <1>1, <1>4, <1>6, <2>2 DEF SomeoneWillLeave
  <2> QED BY <2>1, <2>2
<1>7. SomeoneWillLeave'
  BY <1>6 DEF SomeoneWillLeave, Sockets
<1> QED BY <1>3, <1>5, <1>7 DEF PresenceInv

LEMMA SignalingKeeps ==
    ASSUME PresenceInv, NEW c \in Conns, UserOf \in [Conns -> Players], MaxFaults \in Nat, Signaling(c)
    PROVE  PresenceInv'
<1>a. PICK u : u = UserOf[c]
  OBVIOUS
<1>1. PresenceTypes /\ HubIsHandlers /\ SomeoneWillLeave /\ u \in Players /\ c \in Sockets(u)
  BY <1>a DEF PresenceInv, Sockets
<1>2. hub[u] = {d \in Sockets(u) : handler[d] \in Registered} /\ hub \in [Players -> SUBSET Conns]
  BY <1>1 DEF HubIsHandlers, PresenceTypes
<1>3. /\ presence \in [Players -> Row] /\ faults \in 0 .. MaxFaults /\ touched \in SUBSET Players
      /\ Fault => faults' \in 0 .. MaxFaults
  BY <1>1 DEF PresenceTypes, Fault
<1>4. {"added", "online", "open", "removed", "leaving", "announcing", "done"} \subseteq PC
  BY DEF PC, Registered
<1>5. CASE Connect(c)
  <2>1. /\ handler[c] = "idle" /\ Goto(c, "added") /\ hub' = [hub EXCEPT ![u] = @ \cup {c}]
        /\ UNCHANGED <<presence, post, open, faults, touched>>
    BY <1>5, <1>a DEF Connect, add
  <2>2. handler'[c] = "added" /\ \A d \in Conns \ {c} : handler'[d] = handler[d]
    BY <2>1, <1>1, <1>4, HandlerSet
  <2>3. hub'[u] = {d \in Sockets(u) : handler'[d] \in Registered}
    BY <2>1, <2>2, <1>1, <1>2 DEF Sockets, Registered
  <2>4. hub' \in [Players -> SUBSET Conns] /\ \A v \in Players \ {u} : hub'[v] = hub[v]
    BY <2>1, <1>2
  <2>5. \E d \in Sockets(u) : handler'[d] \in Registered \cup {"removed", "leaving"}
    BY <2>2, <1>1 DEF Registered
  <2> QED BY <2>1, <2>3, <2>4, <2>5, <1>1, <1>3, <1>4, <1>a, HandlerMoves
<1>6. CASE MarkOnline(c)
  <2>1. /\ handler[c] = "added" /\ Goto(c, "online") /\ UNCHANGED <<hub, post, open>>
        /\ \/ Write(u, Live(presence[u])) /\ UNCHANGED <<faults, touched>>
           \/ Fault /\ touched' = touched \cup {u} /\ UNCHANGED presence
    BY <1>6, <1>a DEF MarkOnline
  <2>2. handler'[c] = "online" /\ \A d \in Conns \ {c} : handler'[d] = handler[d]
    BY <2>1, <1>1, <1>4, HandlerSet
  <2>3. hub'[u] = {d \in Sockets(u) : handler'[d] \in Registered}
    BY <2>1, <2>2, <1>1, <1>2 DEF Sockets, Registered
  <2>4. presence' \in [Players -> Row] /\ \A v \in Players \ {u} : presence'[v] = presence[v]
    <3>1. Live(presence[u]) \in Row
      BY <1>1, RowsTyped
    <3> QED BY <3>1, <2>1, <1>1, <1>3, RowSet
  <2>5. /\ faults' \in 0 .. MaxFaults /\ touched' \in SUBSET Players
        /\ \A v \in Players \ {u} : v \in touched <=> v \in touched'
    BY <2>1, <1>1, <1>3
  <2>6. \E d \in Sockets(u) : handler'[d] \in Registered \cup {"removed", "leaving"}
    BY <2>2, <1>1 DEF Registered
  <2>7. hub' \in [Players -> SUBSET Conns] /\ \A v \in Players \ {u} : hub'[v] = hub[v]
    BY <2>1, <1>2
  <2> QED BY <2>1, <2>3, <2>4, <2>5, <2>6, <2>7, <1>1, <1>4, <1>a, HandlerMoves
<1>7. CASE Announce(c)
  <2>1. /\ UNCHANGED <<presence, hub, post, open, faults, touched>>
        /\ \/ handler[c] = "online" /\ Goto(c, "open")
           \/ handler[c] = "announcing" /\ Goto(c, "done")
    BY <1>7 DEF Announce
  <2>2. CASE handler[c] = "online" /\ Goto(c, "open")
    <3>1. handler'[c] = "open" /\ \A d \in Conns \ {c} : handler'[d] = handler[d]
      BY <2>2, <1>1, <1>4, HandlerSet
    <3>2. hub'[u] = {d \in Sockets(u) : handler'[d] \in Registered}
      BY <2>1, <2>2, <3>1, <1>2 DEF Sockets, Registered
    <3>3. \E d \in Sockets(u) : handler'[d] \in Registered \cup {"removed", "leaving"}
      BY <3>1, <1>1 DEF Registered
    <3> QED BY <2>1, <2>2, <3>2, <3>3, <1>1, <1>2, <1>3, <1>4, <1>a, HandlerMoves
  <2>3. CASE handler[c] = "announcing" /\ Goto(c, "done")
    <3>1. handler'[c] = "done" /\ \A d \in Conns \ {c} : handler'[d] = handler[d]
      BY <2>3, <1>1, <1>4, HandlerSet
    <3>2. hub'[u] = {d \in Sockets(u) : handler'[d] \in Registered}
      BY <2>1, <2>3, <3>1, <1>2 DEF Sockets, Registered
    <3>3. \/ u \in touched \/ presence[u].status \in {"none", "offline"}
          \/ \E d \in Sockets(u) : handler'[d] \in Registered \cup {"removed", "leaving"}
      BY <2>3, <3>1, <1>1 DEF SomeoneWillLeave, Sockets, Registered
    <3> QED BY <2>1, <2>3, <3>2, <3>3, <1>1, <1>2, <1>3, <1>4, <1>a, HandlerMoves
  <2> QED BY <2>1, <2>2, <2>3
<1>8. CASE Disconnect(c)
  <2>1. /\ handler[c] = "open" /\ Goto(c, "removed") /\ hub' = [hub EXCEPT ![u] = @ \ {c}]
        /\ UNCHANGED <<presence, post, open, faults, touched>>
    BY <1>8, <1>a DEF Disconnect, remove
  <2>2. handler'[c] = "removed" /\ \A d \in Conns \ {c} : handler'[d] = handler[d]
    BY <2>1, <1>1, <1>4, HandlerSet
  <2>3. hub'[u] = {d \in Sockets(u) : handler'[d] \in Registered}
    BY <2>1, <2>2, <1>1, <1>2 DEF Sockets, Registered
  <2>4. hub' \in [Players -> SUBSET Conns] /\ \A v \in Players \ {u} : hub'[v] = hub[v]
    BY <2>1, <1>2
  <2>5. \E d \in Sockets(u) : handler'[d] \in Registered \cup {"removed", "leaving"}
    BY <2>2, <1>1
  <2> QED BY <2>1, <2>3, <2>4, <2>5, <1>1, <1>3, <1>4, <1>a, HandlerMoves
<1>9. CASE CheckLast(c)
  <2>a. PICK pc : pc = IF is_online(u) THEN "done" ELSE "leaving"
    OBVIOUS
  <2>1. /\ handler[c] = "removed" /\ Goto(c, pc)
        /\ UNCHANGED <<presence, hub, post, open, faults, touched>>
    BY <1>9, <1>a, <2>a DEF CheckLast
  <2>2. pc \in {"done", "leaving"} /\ (pc = "done" => hub[u] # {})
    BY <2>a DEF is_online
  <2>3. pc \in PC /\ pc \notin Registered
    BY <2>2, <1>4 DEF Registered
  <2>4. handler'[c] = pc /\ \A d \in Conns \ {c} : handler'[d] = handler[d]
    BY <2>1, <2>3, <1>1, HandlerSet
  <2>5. hub'[u] = {d \in Sockets(u) : handler'[d] \in Registered}
    BY <2>1, <2>3, <2>4, <1>2 DEF Sockets, Registered
  <2>6. \E d \in Sockets(u) : handler'[d] \in Registered \cup {"removed", "leaving"}
    BY <2>1, <2>2, <2>4, <2>5, <1>1
  <2> QED BY <2>1, <2>3, <2>5, <2>6, <1>1, <1>2, <1>3, <1>a, HandlerMoves
<1>10. CASE MarkOffline(c)
  <2>a. PICK row : row = Updated(presence[u], "offline")
    OBVIOUS
  <2>1. /\ handler[c] = "leaving" /\ Goto(c, "announcing") /\ UNCHANGED <<hub, post, open>>
        /\ \/ Write(u, row) /\ touched' = touched \ {u} /\ UNCHANGED faults
           \/ Fault /\ touched' = touched \cup {u} /\ UNCHANGED presence
    BY <1>10, <1>a, <2>a DEF MarkOffline
  <2>2. handler'[c] = "announcing" /\ \A d \in Conns \ {c} : handler'[d] = handler[d]
    BY <2>1, <1>1, <1>4, HandlerSet
  <2>3. hub'[u] = {d \in Sockets(u) : handler'[d] \in Registered}
    BY <2>1, <2>2, <1>2 DEF Sockets, Registered
  <2>4. row \in Row /\ row.status \in {"none", "offline"}
    BY <2>a, <1>1, RowsTyped
  <2>5. /\ presence' \in [Players -> Row] /\ \A v \in Players \ {u} : presence'[v] = presence[v]
        /\ u \in touched' \/ presence'[u].status \in {"none", "offline"}
    BY <2>1, <2>4, <1>1, <1>3, RowSet
  <2>6. /\ faults' \in 0 .. MaxFaults /\ touched' \in SUBSET Players
        /\ \A v \in Players \ {u} : v \in touched <=> v \in touched'
    BY <2>1, <1>1, <1>3
  <2> QED BY <2>1, <2>3, <2>5, <2>6, <1>1, <1>2, <1>4, <1>a, HandlerMoves
<1> QED BY <1>5, <1>6, <1>7, <1>8, <1>9, <1>10 DEF Signaling

(* Steps that leave the table, the hub and the handlers alone.               *)
LEMMA QuietPresence ==
    ASSUME PresenceInv, UNCHANGED <<presence, hub, handler, faults, touched>>,
           post' \in [Posts -> StatusCall \cup {NoCall}], open' \in SUBSET Worlds
    PROVE  PresenceInv'
<1>1. PresenceTypes'
  BY DEF PresenceInv, PresenceTypes
<1>2. HubIsHandlers' /\ SomeoneWillLeave'
  BY DEF PresenceInv, HubIsHandlers, SomeoneWillLeave, Sockets
<1> QED BY <1>1, <1>2 DEF PresenceInv

LEMMA RestKeeps ==
    ASSUME PresenceInv, HostOf \in [Worlds -> Players],
           \/ \E u \in Players : Heartbeat(u) \/ Bootstrap(u)
           \/ \E p \in Posts :
                \/ \E u \in Players, status \in {"online"} \cup InWorld, w \in Worlds \cup {None} :
                      CheckStatus(p, u, status, w)
                \/ WriteStatus(p) \/ EndStatus(p)
           \/ \E w \in Worlds : OpenWorld(w) \/ CloseWorld(w)
    PROVE  PresenceInv'
<1>1. /\ PresenceTypes /\ post \in [Posts -> StatusCall \cup {NoCall}] /\ open \in SUBSET Worlds
  BY DEF PresenceInv, PresenceTypes
<1>2. ASSUME NEW u \in Players, Heartbeat(u) \/ Bootstrap(u) PROVE PresenceInv'
  <2>1. PICK row \in Row : Write(u, row)
    BY <1>1, <1>2, RowsTyped DEF Heartbeat, Bootstrap
  <2>2. touched' = touched \cup {u} /\ UNCHANGED <<hub, handler, post, open, faults>>
    BY <1>2 DEF Heartbeat, Bootstrap
  <2> QED BY <2>1, <2>2, <1>1, RestWriteKeeps
<1>3. ASSUME NEW p \in Posts, NEW u \in Players, NEW status \in {"online"} \cup InWorld,
             NEW w \in Worlds \cup {None}, CheckStatus(p, u, status, w)
      PROVE  PresenceInv'
  <2>1. /\ post' = [post EXCEPT ![p] = [pc |-> "write", user |-> u, status |-> status, world |-> w]]
        /\ UNCHANGED <<presence, hub, handler, open, faults, touched>>
    BY <1>3 DEF CheckStatus
  <2>2. [pc |-> "write", user |-> u, status |-> status, world |-> w] \in StatusCall
    BY DEF StatusCall
  <2>3. post' \in [Posts -> StatusCall \cup {NoCall}]
    BY <2>1, <2>2, <1>1
  <2> QED BY <2>1, <2>3, <1>1, QuietPresence
<1>4. ASSUME NEW p \in Posts, WriteStatus(p) PROVE PresenceInv'
  <2>1. /\ post[p].pc = "write" /\ Write(post[p].user, [status |-> post[p].status, world |-> post[p].world])
        /\ post' = [post EXCEPT ![p].pc = "announce"] /\ touched' = touched \cup {post[p].user}
        /\ UNCHANGED <<hub, handler, open, faults>>
    BY <1>4 DEF WriteStatus
  <2>2. post[p] \in StatusCall
    BY <2>1, <1>1 DEF NoCall
  <2>3. post[p].user \in Players /\ [status |-> post[p].status, world |-> post[p].world] \in Row
    BY <2>2 DEF StatusCall, Row
  <2>4. [post[p] EXCEPT !.pc = "announce"] \in StatusCall
    BY <2>2 DEF StatusCall
  <2>5. post' \in [Posts -> StatusCall \cup {NoCall}]
    BY <2>1, <2>4, <1>1
  <2> QED BY <2>1, <2>3, <2>5, <1>1, RestWriteKeeps
<1>5. ASSUME NEW p \in Posts, EndStatus(p) PROVE PresenceInv'
  BY <1>1, <1>5, QuietPresence DEF EndStatus
<1>6. ASSUME NEW w \in Worlds, OpenWorld(w) PROVE PresenceInv'
  BY <1>1, <1>6, QuietPresence DEF OpenWorld
<1>7. ASSUME NEW w \in Worlds, CloseWorld(w) PROVE PresenceInv'
  <2>a. PICK u : u = HostOf[w]
    OBVIOUS
  <2>1. /\ u \in Players /\ Write(u, Updated(presence[u], "online"))
        /\ open' = open \ {w} /\ touched' = touched \cup {u}
        /\ UNCHANGED <<hub, handler, post, faults>>
    BY <1>7, <2>a DEF CloseWorld
  <2>2. Updated(presence[u], "online") \in Row
    BY <2>1, <1>1, RowsTyped
  <2> QED BY <2>1, <2>2, <1>1, RestWriteKeeps
<1> QED BY <1>2, <1>3, <1>4, <1>5, <1>6, <1>7

LEMMA CrashKeeps ==
    ASSUME PresenceInv, MaxFaults \in Nat, Crash
    PROVE  PresenceInv'
<1>1. /\ faults' \in 0 .. MaxFaults /\ hub' = [u \in Players |-> {}] /\ touched' = Players
      /\ handler' = [c \in Conns |-> IF handler[c] = "idle" THEN "idle" ELSE "done"]
      /\ post' = [p \in Posts |-> NoCall] /\ UNCHANGED <<presence, open>>
  BY DEF PresenceInv, PresenceTypes, Crash, Fault
<1>2. PresenceTypes'
  BY <1>1 DEF PresenceInv, PresenceTypes, PC
<1>3. HubIsHandlers'
  BY <1>1 DEF HubIsHandlers, Sockets, Registered
<1>4. SomeoneWillLeave'
  BY <1>1 DEF SomeoneWillLeave
<1> QED BY <1>2, <1>3, <1>4 DEF PresenceInv

LEMMA InitPresence ==
    ASSUME MaxFaults \in Nat, PresenceInit
    PROVE  PresenceInv
<1>1. PresenceTypes
  <2>1. presence \in [Players -> Row] /\ hub \in [Players -> SUBSET Conns] /\ handler \in [Conns -> PC]
    BY DEF PresenceInit, Row, PC
  <2>2. post \in [Posts -> StatusCall \cup {NoCall}] /\ open \subseteq Worlds /\ touched \subseteq Players
    BY DEF PresenceInit
  <2>3. faults \in 0 .. MaxFaults
    BY DEF PresenceInit
  <2> QED BY <2>1, <2>2, <2>3 DEF PresenceTypes
<1>2. HubIsHandlers
  BY DEF PresenceInit, HubIsHandlers, Sockets, Registered
<1>3. SomeoneWillLeave
  BY DEF PresenceInit, SomeoneWillLeave
<1> QED BY <1>1, <1>2, <1>3 DEF PresenceInv

(* "Closing the last connection takes the user offline again", however many  *)
(* sockets of however many users connect, disconnect and fail in whatever    *)
(* order: a user without a socket and without a handler in progress is       *)
(* offline, unless something other than a socket wrote the row since.        *)
THEOREM LastSocketTakesOffline == PresenceSpec => []GoneIsOffline
<1>0. UserOf \in [Conns -> Players] /\ HostOf \in [Worlds -> Players] /\ MaxFaults \in Nat
  BY PresenceAssumption
<1>1. PresenceInit => PresenceInv
  BY <1>0, InitPresence
<1>2. PresenceInv /\ [PresenceNext]_presence_vars => PresenceInv'
  <2> SUFFICES ASSUME PresenceInv, [PresenceNext]_presence_vars PROVE PresenceInv'
    OBVIOUS
  <2>1. CASE PresenceNext
    BY <1>0, <2>1, SignalingKeeps, RestKeeps, CrashKeeps DEF PresenceNext
  <2>2. CASE UNCHANGED presence_vars
    <3>1. UNCHANGED <<presence, hub, handler, post, open, faults, touched>>
      BY <2>2 DEF presence_vars
    <3>2. post \in [Posts -> StatusCall \cup {NoCall}] /\ open \in SUBSET Worlds
      BY DEF PresenceInv, PresenceTypes
    <3> QED BY <3>1, <3>2, QuietPresence
  <2> QED BY <2>1, <2>2
<1>3. PresenceInv => GoneIsOffline
  <2> SUFFICES ASSUME PresenceInv PROVE GoneIsOffline
    OBVIOUS
  <2>1. PresenceTypes
    BY DEF PresenceInv
  <2>2. ASSUME NEW u \in Players \ touched, Settled(u), ~ is_online(u)
        PROVE  presence[u].status \in {"none", "offline"}
    <3>1. hub[u] = {} /\ hub[u] = {c \in Sockets(u) : handler[c] \in Registered}
      BY <2>2 DEF is_online, PresenceInv, HubIsHandlers
    <3>2. \A c \in Sockets(u) : handler[c] \in {"idle", "open", "done"} /\ handler[c] \notin Registered
      BY <3>1, <2>2 DEF Settled, Sockets
    <3>3. \A c \in Sockets(u) : handler[c] \notin Registered \cup {"removed", "leaving"}
      BY <3>2
    <3> QED BY <3>3, <2>2 DEF PresenceInv, SomeoneWillLeave
  <2> QED BY <2>1, <2>2 DEF GoneIsOffline
<1> QED BY <1>1, <1>2, <1>3, PTL DEF PresenceSpec

=============================================================================
