-------------------------- MODULE AdmissionProofs --------------------------
(***************************************************************************)
(* Who gets a ticket, for any number of guests, rows and calls in flight:  *)
(* one ticket per accepted row, terminal rows stay terminal, the host has  *)
(* the last word on strangers, and every accept validates admission anew.  *)
(***************************************************************************)
EXTENDS Admission, TLAPS

(* A row, its tickets and what the host said of it.  The last conjunct is    *)
(* what makes the others inductive: an invite that can be accepted without   *)
(* the host is one he sent or approved, or its guest has been his friend.    *)
RowGood(x) ==
    /\ tickets[x] <= 1
    /\ item[x].status = "accepted" => tickets[x] = 1
    /\ item[x].status \notin {"accepted", "deleted"} => tickets[x] = 0
    /\ tickets[x] > 0 /\ item[x].guest \notin known => x \in approved
    /\ item[x].kind = "invite" /\ item[x].status = "pending" /\ item[x].guest \notin known =>
         x \in approved

RowsOK ==
    /\ item \in [Items -> ItemRow] /\ tickets \in [Items -> Nat] /\ approved \subseteq Items
    /\ \A x \in Items : RowGood(x)

(* A call that is about to insert an active row: an invite that nobody has   *)
(* to approve has a guest the host knows.                                    *)
RowIsReady(q) ==
    q.pc \in {"expire", "insert"} =>
      /\ q.row.status \in Active
      /\ q.row.kind = "invite" /\ q.row.status = "pending" /\ q.row.inviter # Host =>
           q.row.guest \in known

(* How far an accept has validated, against what it has seen hold.           *)
SeenBy(q, s) ==
    /\ q.pc = "trust" => {"open", "slot"} \subseteq s /\ (q.fof => "policy" \in s)
    /\ q.pc = "link" => {"open", "slot", "policy", "trusted"} \subseteq s
    /\ q.pc = "commit" => Conditions \subseteq s

CallsOK ==
    /\ call \in [Calls -> Call \cup {Idle}] /\ seen \in [Calls -> SUBSET Conditions]
    /\ \A c \in Calls : RowIsReady(call[c]) /\ SeenBy(call[c], seen[c])

EnvOK ==
    /\ friends \subseteq Pairs
    /\ world \in World /\ members \subseteq Guests /\ events \in 0 .. MaxEvents
    /\ known \subseteq Guests /\ HostsFriends(friends) \subseteq known

LockOK == lock \in [Items -> Calls \cup {None}]

AdmissionInv == RowsOK /\ CallsOK /\ EnvOK /\ LockOK

-----------------------------------------------------------------------------
(* A call at a given pc carries the fields that pc uses.                     *)
Creates == [pc: {"eligible", "expire", "insert"}, row: ItemRow, fof: BOOLEAN]
Accepts == [pc: {"world", "trust", "link", "commit"}, item: Items, fof: BOOLEAN]
Decides == [pc: {"decline", "approve", "revoke"}, item: Items]

LEMMA CallFields ==
    ASSUME CallsOK, NEW c \in Calls
    PROVE  /\ call[c].pc \in {"eligible", "expire", "insert"} => call[c] \in Creates
           /\ call[c].pc \in {"world", "trust", "link", "commit"} => call[c] \in Accepts
           /\ call[c].pc \in {"decline", "approve", "revoke"} => call[c] \in Decides
<1>1. call[c] \in Creates \cup Accepts \cup Decides \cup {Idle}
  BY DEF CallsOK, Call, Creates, Accepts, Decides
<1>2. CASE call[c] \in Creates
  BY <1>2 DEF Creates
<1>3. CASE call[c] \in Accepts
  BY <1>3 DEF Accepts
<1>4. CASE call[c] \in Decides
  BY <1>4 DEF Decides
<1>5. CASE call[c] = Idle
  BY <1>5 DEF Idle
<1> QED BY <1>1, <1>2, <1>3, <1>4, <1>5

LEMMA CallSets == Call = Creates \cup Accepts \cup Decides
BY DEF Call, Creates, Accepts, Decides

(* What has been seen grows during an accept.                                *)
LEMMA ObservedGrows ==
    ASSUME CallsOK, NEW c \in Calls
    PROVE  Observed(c) \subseteq Conditions /\ SeenBy(call[c], Observed(c))
<1>1. Observed(c) \subseteq Conditions
  BY DEF Observed, Holds, CallsOK
<1>2. Accepting(c) => seen[c] \subseteq Observed(c)
  BY DEF Observed
<1>3. SeenBy(call[c], seen[c])
  BY DEF CallsOK
<1>4. call[c].pc \in {"trust", "link", "commit"} => Accepting(c)
  BY DEF Accepting
<1> QED BY <1>1, <1>2, <1>3, <1>4 DEF SeenBy

(* One call moves on.                                                        *)
LEMMA CallMoves ==
    ASSUME CallsOK, NEW c \in Calls, NEW q \in Call \cup {Idle}, Now(c, q), Observe,
           known \subseteq known', RowIsReady(q), SeenBy(q, Observed(c))
    PROVE  CallsOK'
<1>1. /\ call' \in [Calls -> Call \cup {Idle}] /\ call'[c] = q
      /\ \A d \in Calls : d # c => call'[d] = call[d]
  BY DEF CallsOK, Now
<1>2. /\ seen' \in [Calls -> SUBSET Conditions]
      /\ \A d \in Calls : seen'[d] = Observed(d)
  BY ObservedGrows DEF Observe
<1>3. ASSUME NEW d \in Calls PROVE RowIsReady(call[d])' /\ SeenBy(call'[d], seen'[d])
  <2>1. CASE d = c
    BY <2>1, <1>1, <1>2 DEF RowIsReady
  <2>2. CASE d # c
    <3>1. RowIsReady(call[d]) /\ SeenBy(call[d], Observed(d))
      BY ObservedGrows DEF CallsOK
    <3>2. call'[d] = call[d] /\ seen'[d] = Observed(d)
      BY <2>2, <1>1, <1>2
    <3> QED BY <3>1, <3>2 DEF RowIsReady
  <2> QED BY <2>1, <2>2
<1> QED BY <1>1, <1>2, <1>3 DEF CallsOK

(* No call moves.                                                            *)
LEMMA CallsStay ==
    ASSUME CallsOK, UNCHANGED call, Observe, known \subseteq known'
    PROVE  CallsOK'
<1>1. /\ seen' \in [Calls -> SUBSET Conditions]
      /\ \A d \in Calls : seen'[d] = Observed(d)
  BY ObservedGrows DEF Observe
<1>2. ASSUME NEW d \in Calls PROVE RowIsReady(call[d])' /\ SeenBy(call'[d], seen'[d])
  <2>1. RowIsReady(call[d]) /\ SeenBy(call[d], Observed(d))
    BY ObservedGrows DEF CallsOK
  <2> QED BY <2>1, <1>1 DEF RowIsReady
<1> QED BY <1>1, <1>2 DEF CallsOK

(* The rows that change are good again.                                      *)
LEMMA RowsMove ==
    ASSUME RowsOK, item' \in [Items -> ItemRow], tickets' \in [Items -> Nat],
           approved \subseteq approved', approved' \subseteq Items, known \subseteq known',
           \A x \in Items : (item'[x] = item[x] /\ tickets'[x] = tickets[x]) \/ RowGood(x)'
    PROVE  RowsOK'
<1>1. ASSUME NEW x \in Items, item'[x] = item[x], tickets'[x] = tickets[x] PROVE RowGood(x)'
  BY <1>1 DEF RowsOK, RowGood
<1> QED BY <1>1 DEF RowsOK

-----------------------------------------------------------------------------
LEMMA InitAdmission == Init => AdmissionInv
<1> SUFFICES ASSUME Init PROVE AdmissionInv
  OBVIOUS
<1>0. /\ \E g \in Guests :
            item = [x \in Items |-> [kind |-> "request", guest |-> g, inviter |-> Host,
                                    status |-> "none", lapsed |-> FALSE]]
      /\ lock = [x \in Items |-> None]
      /\ call = [c \in Calls |-> Idle]
      /\ tickets = [x \in Items |-> 0]
      /\ friends \in SUBSET Pairs
      /\ world \in [open: {TRUE}, fof: BOOLEAN, slot: {TRUE}, hostIn: {TRUE}]
      /\ members \in SUBSET HostsFriends(friends)
      /\ events = 0 /\ seen = [c \in Calls |-> {}] /\ approved = {}
      /\ known = HostsFriends(friends)
  BY Zenon DEF Init
<1>1. PICK g \in Guests :
         item = [x \in Items |-> [kind |-> "request", guest |-> g, inviter |-> Host,
                                  status |-> "none", lapsed |-> FALSE]]
  BY <1>0
<1>2. item \in [Items -> ItemRow]
  BY <1>1 DEF ItemRow, Status, Users
<1>3. \A x \in Items : item[x].status = "none" /\ tickets[x] = 0
  BY <1>0, <1>1
<1>a. tickets \in [Items -> Nat]
  <2>1. tickets = [x \in Items |-> 0]
    BY <1>0
  <2> QED BY <2>1
<1>b. approved = {}
  BY <1>0
<1>4. RowsOK
  BY <1>a, <1>b, <1>2, <1>3 DEF RowsOK, RowGood
<1>5. \A c \in Calls : call[c].pc = "idle"
  BY <1>0 DEF Idle
<1>6. CallsOK
  BY <1>0, <1>5 DEF CallsOK, RowIsReady, SeenBy
<1>7. world \in World
  BY <1>0 DEF World
<1>c. friends \in SUBSET Pairs /\ members \in SUBSET HostsFriends(friends)
  BY <1>0
<1>d. known = HostsFriends(friends) /\ events = 0
  BY <1>0
<1>e. HostsFriends(friends) \subseteq Guests
  BY DEF HostsFriends
<1>8. EnvOK
  BY <1>7, <1>c, <1>d, <1>e, AdmissionAssumption DEF EnvOK
<1>9. LockOK
  BY <1>0 DEF LockOK
<1> QED BY <1>4, <1>6, <1>8, <1>9 DEF AdmissionInv

(* The steps that only move a call.                                          *)
LEMMA ReadersKeepInv ==
    ASSUME AdmissionInv, NEW c \in Calls, NEW q \in Call \cup {Idle}, Now(c, q), Observe,
           RowIsReady(q), SeenBy(q, Observed(c)), UNCHANGED <<item, tickets, approved, env>>,
           LockOK'
    PROVE  AdmissionInv'
<1>1. UNCHANGED <<friends, world, members, events, known>>
  BY DEF env
<1>2. CallsOK'
  BY <1>1, CallMoves DEF AdmissionInv
<1>3. RowsOK' /\ EnvOK'
  BY <1>1 DEF AdmissionInv, RowsOK, RowGood, EnvOK, HostsFriends
<1> QED BY <1>2, <1>3 DEF AdmissionInv

(* The steps after which a call is over, or that move none.                  *)
LEMMA WritersKeepInv ==
    ASSUME AdmissionInv, Observe, UNCHANGED env, LockOK', RowsOK',
           UNCHANGED call \/ \E c \in Calls : Now(c, Idle)
    PROVE  AdmissionInv'
<1>1. UNCHANGED <<friends, world, members, events, known>>
  BY DEF env
<1>2. CallsOK'
  <2>1. RowIsReady(Idle) /\ \A s : SeenBy(Idle, s)
    BY DEF RowIsReady, SeenBy, Idle
  <2>2. CASE UNCHANGED call
    BY <2>2, <1>1, CallsStay DEF AdmissionInv
  <2>3. ASSUME NEW c \in Calls, Now(c, Idle) PROVE CallsOK'
    BY <2>1, <2>3, <1>1, CallMoves DEF AdmissionInv
  <2> QED BY <2>2, <2>3
<1>3. EnvOK'
  BY <1>1 DEF AdmissionInv, EnvOK, HostsFriends
<1> QED BY <1>2, <1>3 DEF AdmissionInv

-----------------------------------------------------------------------------
(* Creating a row.                                                           *)
LEMMA BeginCreateKeepsInv ==
    ASSUME AdmissionInv, NEW c \in Calls, NEW row \in ItemRow, BeginCreate(c, row),
           UNCHANGED env, Observe
    PROVE  AdmissionInv'
<1> DEFINE q == [pc |-> "eligible", row |-> row, fof |-> world.fof]
<1>1. world.fof \in BOOLEAN
  BY DEF AdmissionInv, EnvOK, World
<1>2. q \in Call /\ RowIsReady(q) /\ \A s : SeenBy(q, s)
  BY <1>1 DEF Call, RowIsReady, SeenBy
<1>3. Now(c, q) /\ UNCHANGED <<item, tickets, approved, lock>>
  BY DEF BeginCreate, rows
<1>4. LockOK'
  BY <1>3 DEF AdmissionInv, LockOK
<1> HIDE DEF q
<1> QED BY <1>2, <1>3, <1>4, ReadersKeepInv

LEMMA NewRowType ==
    ASSUME NEW kind \in {"request", "invite"}, NEW g \in Guests, NEW u \in Users
    PROVE  NewRow(kind, g, u) \in ItemRow
BY DEF NewRow, ItemRow, Status, Active

(* An invite that starts out pending has a guest the host knows.             *)
LEMMA CheckEligibleKeepsInv ==
    ASSUME AdmissionInv, NEW c \in Calls, CheckEligible(c), UNCHANGED env, Observe
    PROVE  AdmissionInv'
<1> DEFINE row == [call[c].row EXCEPT !.status = InitialStatus(call[c].row)]
           q == [pc |-> "expire", row |-> row, fof |-> call[c].fof]
<1>1. call[c] \in Creates /\ call[c].row \in ItemRow
  BY CallFields DEF CheckEligible, AdmissionInv, Creates
<1>2. InitialStatus(call[c].row) \in {"pending", "pending_approval"}
  BY DEF InitialStatus
<1>3. /\ row \in ItemRow /\ row.kind = call[c].row.kind /\ row.guest = call[c].row.guest
      /\ row.inviter = call[c].row.inviter /\ row.status = InitialStatus(call[c].row)
  BY <1>1, <1>2 DEF ItemRow, Status, Active
<1>5. Now(c, q) /\ UNCHANGED <<item, tickets, approved, lock>>
  BY DEF CheckEligible, rows
<1>6. q \in Call /\ \A s : SeenBy(q, s)
  BY <1>1, <1>3 DEF Call, Creates, SeenBy
<1>7. RowIsReady(q)
  <2>1. SUFFICES ASSUME row.kind = "invite", row.status = "pending", row.inviter # Host
                 PROVE  row.guest \in known
    BY <1>2, <1>3 DEF RowIsReady, Active
  <2>2. are_friends(Host, row.guest)
    BY <2>1, <1>3 DEF InitialStatus
  <2>3. {row.guest, Host} \in friends /\ row.guest \in Guests
    BY <2>2, <1>3 DEF are_friends, ItemRow
  <2> QED BY <2>3 DEF AdmissionInv, EnvOK, HostsFriends
<1>8. LockOK'
  BY <1>5 DEF AdmissionInv, LockOK
<1> HIDE DEF q
<1> QED BY <1>5, <1>6, <1>7, <1>8, ReadersKeepInv

(* Rows that leave the active statuses without a ticket stay good.           *)
LEMMA ExpiredIsGood ==
    ASSUME RowsOK, NEW S \in SUBSET Items, \A x \in S : item[x].status \in Active,
           item' = Expired(S), UNCHANGED <<tickets, approved, known>>
    PROVE  RowsOK'
<1>1. item' \in [Items -> ItemRow]
  BY DEF RowsOK, Expired, ItemRow, Status, TERMINAL
<1>2. ASSUME NEW x \in Items
      PROVE  (item'[x] = item[x] /\ tickets'[x] = tickets[x]) \/ RowGood(x)'
  <2>1. CASE x \notin S
    BY <2>1 DEF Expired
  <2>2. CASE x \in S
    <3>1. item'[x].status = "expired" /\ tickets[x] = 0
      BY <2>2 DEF Expired, RowsOK, RowGood, ItemRow, Active
    <3> QED BY <3>1 DEF RowGood
  <2> QED BY <2>1, <2>2
<1> QED BY <1>1, <1>2, RowsMove DEF RowsOK

LEMMA ExpireLapsedKeepsInv ==
    ASSUME AdmissionInv, NEW c \in Calls, ExpireLapsed(c), UNCHANGED env, Observe
    PROVE  AdmissionInv'
<1> DEFINE q == [pc |-> "insert", row |-> call[c].row, fof |-> call[c].fof]
           S == {x \in Occupying(call[c].row) : item[x].lapsed}
<1>1. call[c] \in Creates /\ call[c].row \in ItemRow /\ call[c].pc = "expire"
  BY CallFields DEF ExpireLapsed, AdmissionInv, Creates
<1>2. Now(c, q) /\ item' = Expired(S) /\ UNCHANGED <<tickets, approved, lock>>
  BY <1>1 DEF ExpireLapsed, Creates
<1>3. S \subseteq Items /\ \A x \in S : item[x].status \in Active
  BY DEF Occupying
<1>4. q \in Call /\ RowIsReady(q) /\ \A s : SeenBy(q, s)
  BY <1>1 DEF Call, Creates, SeenBy, RowIsReady, AdmissionInv, CallsOK
<1> HIDE DEF q, S
<1>5. UNCHANGED <<friends, world, members, events, known>>
  BY DEF env
<1>6. RowsOK'
  BY <1>2, <1>3, <1>5, ExpiredIsGood DEF AdmissionInv
<1>7. CallsOK'
  BY <1>2, <1>4, <1>5, CallMoves DEF AdmissionInv
<1>8. EnvOK' /\ LockOK'
  BY <1>2, <1>5 DEF AdmissionInv, EnvOK, HostsFriends, LockOK
<1> QED BY <1>6, <1>7, <1>8 DEF AdmissionInv

LEMMA InsertItemKeepsInv ==
    ASSUME AdmissionInv, NEW c \in Calls, NEW x \in Items, InsertItem(c, x), UNCHANGED env, Observe
    PROVE  AdmissionInv'
<1> DEFINE row == call[c].row
<1>1. row \in ItemRow /\ call[c].pc = "insert" /\ RowIsReady(call[c])
  BY CallFields DEF InsertItem, AdmissionInv, Creates, CallsOK
<1>2. /\ item' = [item EXCEPT ![x] = row] /\ item[x].status = "none"
      /\ approved' = IF row.kind = "invite" /\ row.inviter = Host
                     THEN approved \cup {x} ELSE approved
      /\ Now(c, Idle) /\ UNCHANGED <<lock, tickets>>
  BY DEF InsertItem
<1>3. known' = known
  BY DEF env
<1>4. tickets[x] = 0 /\ tickets \in [Items -> Nat] /\ item \in [Items -> ItemRow]
  BY <1>2 DEF AdmissionInv, RowsOK, RowGood
<1>5. approved \subseteq approved' /\ approved' \subseteq Items
  BY <1>2 DEF AdmissionInv, RowsOK
<1>6. item' \in [Items -> ItemRow] /\ item'[x] = row
  BY <1>1, <1>2, <1>4
<1>7. RowGood(x)'
  <2>1. tickets'[x] = 0 /\ row.status \in Active
    BY <1>1, <1>2, <1>4 DEF RowIsReady
  <2>2. row.kind = "invite" /\ row.status = "pending" /\ row.guest \notin known => x \in approved'
    BY <1>1, <1>2 DEF RowIsReady
  <2> QED BY <2>1, <2>2, <1>3, <1>6 DEF RowGood, Active
<1>8. RowsOK'
  BY <1>2, <1>3, <1>4, <1>5, <1>6, <1>7, RowsMove DEF AdmissionInv
<1> QED BY <1>2, <1>8, WritersKeepInv DEF AdmissionInv, LockOK

-----------------------------------------------------------------------------
(* accept.                                                                   *)
LEMMA LockItemKeepsInv ==
    ASSUME AdmissionInv, NEW c \in Calls, NEW x \in Items, LockItem(c, x), UNCHANGED env, Observe
    PROVE  AdmissionInv'
<1> DEFINE q == [pc |-> "world", item |-> x, fof |-> FALSE]
<1>1. q \in Call /\ RowIsReady(q) /\ \A s : SeenBy(q, s)
  BY DEF Call, RowIsReady, SeenBy
<1>2. Now(c, q) /\ lock' = [lock EXCEPT ![x] = c] /\ UNCHANGED <<item, tickets, approved>>
  BY DEF LockItem
<1>3. LockOK'
  BY <1>2 DEF AdmissionInv, LockOK
<1> HIDE DEF q
<1> QED BY <1>1, <1>2, <1>3, ReadersKeepInv

(* What an accept observes at a step counts what holds at that step.         *)
LEMMA ObservesNow ==
    ASSUME NEW c \in Calls, Accepting(c)
    PROVE  seen[c] \subseteq Observed(c) /\ Holds(item[call[c].item]) \subseteq Observed(c)
BY DEF Observed

(* An accept moves on to a pc that its observations justify.                 *)
LEMMA AcceptMoves ==
    ASSUME AdmissionInv, NEW c \in Calls, call[c] \in Accepts, NEW q \in Accepts,
           Now(c, q), SeenBy(q, Observed(c)), UNCHANGED <<rows, approved, env>>, Observe
    PROVE  AdmissionInv'
<1>1. UNCHANGED <<item, tickets, approved, lock, env>>
  BY DEF rows
<1>2. q \in Call /\ RowIsReady(q)
  BY CallSets DEF Accepts, RowIsReady
<1>3. LockOK'
  BY <1>1 DEF AdmissionInv, LockOK
<1> QED BY <1>1, <1>2, <1>3, ReadersKeepInv

LEMMA ReadWorldKeepsInv ==
    ASSUME AdmissionInv, NEW c \in Calls, ReadWorld(c), UNCHANGED env, Observe
    PROVE  AdmissionInv'
<1> DEFINE q == [pc |-> "trust", item |-> call[c].item, fof |-> world.fof]
<1>1. call[c] \in Accepts /\ Accepting(c)
  BY CallFields DEF ReadWorld, AdmissionInv, Accepting
<1>2. world.fof \in BOOLEAN
  BY DEF AdmissionInv, EnvOK, World
<1>3. Now(c, q) /\ UNCHANGED <<rows, approved>> /\ q \in Accepts
  BY <1>1, <1>2 DEF ReadWorld, Accepts
<1>4. SeenBy(q, Observed(c))
  <2>1. /\ {"open", "slot"} \subseteq Holds(item[call[c].item])
        /\ world.fof => "policy" \in Holds(item[call[c].item])
    BY DEF ReadWorld, Holds, Conditions
  <2> QED BY <2>1, <1>1, ObservesNow DEF SeenBy
<1> HIDE DEF q
<1> QED BY <1>1, <1>3, <1>4, AcceptMoves

LEMMA CheckTrustKeepsInv ==
    ASSUME AdmissionInv, NEW c \in Calls, CheckTrust(c), UNCHANGED env, Observe
    PROVE  AdmissionInv'
<1> DEFINE row == item[call[c].item]
           q(pc) == [pc |-> pc, item |-> call[c].item, fof |-> call[c].fof]
<1>1. call[c] \in Accepts /\ Accepting(c) /\ call[c].pc = "trust"
  BY CallFields DEF CheckTrust, AdmissionInv, Accepting
<1>2. /\ {"open", "slot"} \subseteq Observed(c)
      /\ call[c].fof => "policy" \in Observed(c)
  BY <1>1, ObservedGrows DEF AdmissionInv, SeenBy
<1>3. UNCHANGED <<rows, approved>>
  BY DEF CheckTrust
<1>4. q("commit") \in Accepts /\ q("link") \in Accepts
  BY <1>1 DEF Accepts
<1>5. CASE Direct(row) /\ Now(c, q("commit"))
  <2>1. {"policy", "trusted", "link"} \subseteq Holds(row)
    BY <1>5 DEF Holds, Conditions
  <2>2. Conditions \subseteq Observed(c)
    BY <2>1, <1>1, <1>2, ObservesNow DEF Conditions
  <2>3. SeenBy(q("commit"), Observed(c))
    BY <2>2 DEF SeenBy
  <2> QED BY <1>1, <1>3, <1>4, <1>5, <2>3, AcceptMoves
<1>6. CASE call[c].fof /\ Trusted(row) /\ Now(c, q("link"))
  <2>1. "trusted" \in Holds(row)
    BY <1>6 DEF Holds, Conditions
  <2>2. {"open", "slot", "policy", "trusted"} \subseteq Observed(c)
    BY <2>1, <1>1, <1>2, <1>6, ObservesNow
  <2>3. SeenBy(q("link"), Observed(c))
    BY <2>2 DEF SeenBy
  <2> QED BY <1>1, <1>3, <1>4, <1>6, <2>3, AcceptMoves
<1>7. \A pc : [call[c] EXCEPT !.pc = pc] = q(pc)
  BY <1>1 DEF Accepts
<1> QED BY <1>5, <1>6, <1>7 DEF CheckTrust

LEMMA CheckLinkKeepsInv ==
    ASSUME AdmissionInv, NEW c \in Calls, CheckLink(c), UNCHANGED env, Observe
    PROVE  AdmissionInv'
<1> DEFINE q == [pc |-> "commit", item |-> call[c].item, fof |-> call[c].fof]
<1>1. call[c] \in Accepts /\ Accepting(c) /\ call[c].pc = "link"
  BY CallFields DEF CheckLink, AdmissionInv, Accepting
<1>2. Now(c, q) /\ UNCHANGED <<rows, approved>> /\ q \in Accepts
  BY <1>1 DEF CheckLink, Accepts
<1>3. "link" \in Holds(item[call[c].item])
  BY DEF CheckLink, Holds, Conditions
<1>4. {"open", "slot", "policy", "trusted"} \subseteq Observed(c)
  BY <1>1, ObservedGrows DEF AdmissionInv, SeenBy
<1>5. SeenBy(q, Observed(c))
  BY <1>1, <1>3, <1>4, ObservesNow DEF SeenBy, Conditions
<1> HIDE DEF q
<1> QED BY <1>1, <1>2, <1>5, AcceptMoves

(* The ticket goes to a row that was pending, so it had none.                *)
LEMMA CommitAcceptKeepsInv ==
    ASSUME AdmissionInv, NEW c \in Calls, CommitAccept(c), UNCHANGED env, Observe
    PROVE  AdmissionInv'
<1>1. PICK x \in Items : x = call[c].item
  BY CallFields DEF CommitAccept, AdmissionInv, Accepts
<1>2. Now(c, Idle) /\ lock' = [lock EXCEPT ![x] = None] /\ known' = known
  BY <1>1 DEF CommitAccept, env
<1>3. LockOK'
  BY <1>2 DEF AdmissionInv, LockOK
<1>4. CASE item[x].status = "pending"
  <2>1. /\ item' = [item EXCEPT ![x].status = "accepted"]
        /\ tickets' = [tickets EXCEPT ![x] = @ + 1]
        /\ approved' = IF item[x].kind = "request" THEN approved \cup {x} ELSE approved
    BY <1>1, <1>4 DEF CommitAccept
  <2>2. item \in [Items -> ItemRow] /\ tickets \in [Items -> Nat] /\ tickets[x] = 0
    BY <1>1, <1>4 DEF AdmissionInv, RowsOK, RowGood
  <2>3. /\ item' \in [Items -> ItemRow] /\ tickets' \in [Items -> Nat] /\ tickets'[x] = 1
        /\ item'[x].status = "accepted" /\ item'[x].guest = item[x].guest
    BY <1>1, <2>1, <2>2 DEF ItemRow, Status, TERMINAL
  <2>4. approved \subseteq approved' /\ approved' \subseteq Items
    BY <1>1, <2>1 DEF AdmissionInv, RowsOK
  <2>5. item[x].guest \notin known => x \in approved'
    BY <1>1, <1>4, <2>1, <2>2 DEF AdmissionInv, RowsOK, RowGood, ItemRow
  <2>6. RowGood(x)'
    BY <1>2, <2>3, <2>5 DEF RowGood
  <2>7. \A y \in Items : y # x => item'[y] = item[y] /\ tickets'[y] = tickets[y]
    BY <2>1, <2>2
  <2>8. RowsOK'
    BY <1>2, <2>3, <2>4, <2>6, <2>7, RowsMove DEF AdmissionInv
  <2> QED BY <1>2, <1>3, <2>8, WritersKeepInv
<1>5. CASE item[x].status # "pending"
  <2>1. UNCHANGED <<item, tickets, approved>>
    BY <1>1, <1>5 DEF CommitAccept
  <2>2. RowsOK'
    BY <1>2, <2>1 DEF AdmissionInv, RowsOK, RowGood
  <2> QED BY <1>2, <1>3, <2>2, WritersKeepInv
<1> QED BY <1>4, <1>5

-----------------------------------------------------------------------------
(* decline, approve, revoke; the cleanup; expiry.                            *)
LEMMA ReadItemKeepsInv ==
    ASSUME AdmissionInv, NEW c \in Calls, NEW x \in Items, NEW op \in {"decline", "approve", "revoke"},
           ReadItem(c, x, op), UNCHANGED env, Observe
    PROVE  AdmissionInv'
<1> DEFINE q == [pc |-> op, item |-> x]
<1>1. q \in Call /\ RowIsReady(q) /\ \A s : SeenBy(q, s)
  BY DEF Call, RowIsReady, SeenBy
<1>2. Now(c, q) /\ UNCHANGED <<item, tickets, approved, lock>>
  BY DEF ReadItem, rows
<1>3. LockOK'
  BY <1>2 DEF AdmissionInv, LockOK
<1> HIDE DEF q
<1> QED BY <1>1, <1>2, <1>3, ReadersKeepInv

(* An active row gets a status that needs no ticket.                         *)
LEMMA RowLeaves ==
    ASSUME RowsOK, NEW x \in Items, item[x].status # "accepted", NEW s \in Status \ {"accepted"},
           s = "pending" => x \in approved', s = "deleted" \/ item[x].status # "deleted",
           item' = [item EXCEPT ![x].status = s], UNCHANGED <<tickets, known>>,
           approved \subseteq approved', approved' \subseteq Items
    PROVE  RowsOK'
<1>1. item' \in [Items -> ItemRow] /\ \A y \in Items : y # x => item'[y] = item[y]
  BY DEF RowsOK, ItemRow
<1>2. item'[x].status = s
  BY DEF RowsOK, ItemRow
<1>3. tickets[x] = 0 \/ s = "deleted"
  BY DEF RowsOK, RowGood
<1>4. item'[x].guest = item[x].guest
  BY DEF RowsOK, ItemRow
<1>5. RowGood(x)'
  BY <1>2, <1>3, <1>4 DEF RowsOK, RowGood
<1> QED BY <1>1, <1>5, RowsMove DEF RowsOK

LEMMA WriteItemKeepsInv ==
    ASSUME AdmissionInv, NEW c \in Calls, WriteItem(c), UNCHANGED env, Observe
    PROVE  AdmissionInv'
<1>1. PICK x \in Items : x = call[c].item
  BY CallFields DEF WriteItem, AdmissionInv, Decides
<1>2. PICK op \in {"decline", "approve", "revoke"} : op = call[c].pc
  BY DEF WriteItem
<1>3. Now(c, Idle) /\ UNCHANGED <<lock, tickets>> /\ known' = known
  BY DEF WriteItem, env
<1>4. RowsOK'
  <2>1. CASE item[x].status \in Expects(op)
    <3>1. /\ item' = [item EXCEPT ![x].status = Becomes(op)]
          /\ approved' = IF op = "approve" THEN approved \cup {x} ELSE approved
      BY <1>1, <1>2, <2>1 DEF WriteItem
    <3>2. item[x].status \in Active /\ Becomes(op) \in {"declined", "pending", "revoked"}
      BY <2>1 DEF Expects, Becomes, Active
    <3>3. Becomes(op) = "pending" => op = "approve"
      BY DEF Becomes
    <3>4. approved \subseteq approved' /\ approved' \subseteq Items
      BY <3>1 DEF AdmissionInv, RowsOK
    <3>5. Becomes(op) = "pending" => x \in approved'
      BY <3>1, <3>3
    <3> QED BY <1>3, <3>1, <3>2, <3>4, <3>5, RowLeaves DEF AdmissionInv, Active, Status, TERMINAL
  <2>2. CASE item[x].status \notin Expects(op)
    <3>1. UNCHANGED <<item, approved>>
      BY <1>1, <1>2, <2>2 DEF WriteItem
    <3> QED BY <1>3, <3>1 DEF AdmissionInv, RowsOK, RowGood
  <2> QED BY <2>1, <2>2
<1> QED BY <1>3, <1>4, WritersKeepInv DEF AdmissionInv, LockOK

LEMMA AbandonKeepsInv ==
    ASSUME AdmissionInv, NEW c \in Calls, Abandon(c), UNCHANGED env, Observe
    PROVE  AdmissionInv'
<1>1. Now(c, Idle) /\ UNCHANGED <<item, tickets, approved>> /\ known' = known
  BY DEF Abandon, env
<1>2. LockOK'
  BY DEF Abandon, AdmissionInv, LockOK
<1>3. RowsOK'
  BY <1>1 DEF AdmissionInv, RowsOK, RowGood
<1> QED BY <1>1, <1>2, <1>3, WritersKeepInv

LEMMA CleanupKeepsInv ==
    ASSUME AdmissionInv, NEW x \in Items, CleanupExpire(x) \/ CleanupDelete(x) \/ Lapse(x),
           UNCHANGED env, Observe
    PROVE  AdmissionInv'
<1>1. UNCHANGED <<lock, call, tickets, approved>> /\ known' = known
  BY DEF CleanupExpire, CleanupDelete, Lapse, env
<1>2. RowsOK'
  <2>1. CASE CleanupExpire(x)
    BY <1>1, <2>1, ExpiredIsGood DEF CleanupExpire, AdmissionInv
  <2>2. CASE CleanupDelete(x)
    <3>1. item' \in [Items -> ItemRow] /\ \A y \in Items : y # x => item'[y] = item[y]
      BY <2>2 DEF CleanupDelete, AdmissionInv, RowsOK, ItemRow, Status
    <3>2. item'[x].status = "deleted" /\ item'[x].guest = item[x].guest
      BY <2>2 DEF CleanupDelete, AdmissionInv, RowsOK, ItemRow
    <3>3. RowGood(x)'
      BY <1>1, <3>2 DEF AdmissionInv, RowsOK, RowGood
    <3> QED BY <1>1, <3>1, <3>3, RowsMove DEF AdmissionInv, RowsOK
  <2>3. CASE Lapse(x)
    <3>1. item' \in [Items -> ItemRow] /\ \A y \in Items : y # x => item'[y] = item[y]
      BY <2>3 DEF Lapse, AdmissionInv, RowsOK, ItemRow
    <3>2. /\ item'[x].status = item[x].status /\ item'[x].guest = item[x].guest
          /\ item'[x].kind = item[x].kind
      BY <2>3 DEF Lapse, AdmissionInv, RowsOK, ItemRow
    <3>3. RowGood(x)'
      BY <1>1, <3>2 DEF AdmissionInv, RowsOK, RowGood
    <3> QED BY <1>1, <3>1, <3>3, RowsMove DEF AdmissionInv, RowsOK
  <2> QED BY <2>1, <2>2, <2>3
<1> QED BY <1>1, <1>2, WritersKeepInv DEF AdmissionInv, LockOK

-----------------------------------------------------------------------------
(* The environment touches no row and no call, and forgets no acquaintance.  *)
LEMMA EnvironmentKeepsInv ==
    ASSUME AdmissionInv, Environment, Observe
    PROVE  AdmissionInv'
<1>1. UNCHANGED <<item, lock, tickets, call, approved>>
  BY DEF Environment, rows
<1>2. events' \in 0 .. MaxEvents
  BY AdmissionAssumption DEF Environment, Event, AdmissionInv, EnvOK
<1>3. \/ \E a, b \in Users : Befriend(a, b)
      \/ \E field \in {"fof", "slot", "hostIn"} : ChangeWorld(field)
      \/ CloseWorld
      \/ \E g \in Guests : Arrive(g)
      \/ \E g \in members : Leave(g)
  BY DEF Environment
<1> DEFINE EnvMoves ==
             /\ friends' \subseteq Pairs /\ world' \in World /\ members' \subseteq Guests
             /\ known' \subseteq Guests /\ known \subseteq known'
             /\ HostsFriends(friends') \subseteq known'
<1>4. EnvMoves
  <2>1. ASSUME NEW a \in Users, NEW b \in Users, Befriend(a, b) PROVE EnvMoves
    <3>1. friends' \subseteq friends \cup {{a, b}} /\ {a, b} \in Pairs
      BY <2>1 DEF Befriend, Pairs
    <3>2. known' = known \cup HostsFriends(friends') /\ HostsFriends(friends') \subseteq Guests
      BY <2>1 DEF Befriend, HostsFriends
    <3> QED BY <2>1, <3>1, <3>2 DEF Befriend, AdmissionInv, EnvOK
  <2>2. ASSUME NEW field \in {"fof", "slot", "hostIn"}, ChangeWorld(field) PROVE EnvMoves
    <3>1. world \in World /\ world' = [world EXCEPT ![field] = ~ @]
      BY <2>2 DEF ChangeWorld, AdmissionInv, EnvOK
    <3>2. world' \in World
      BY <3>1 DEF World
    <3> QED BY <2>2, <3>2 DEF ChangeWorld, AdmissionInv, EnvOK
  <2>3. CASE CloseWorld
    <3>1. world' \in World
      BY <2>3 DEF CloseWorld, AdmissionInv, EnvOK, World
    <3> QED BY <2>3, <3>1 DEF CloseWorld, AdmissionInv, EnvOK
  <2>4. ASSUME NEW g \in Guests, Arrive(g) PROVE EnvMoves
    BY <2>4 DEF Arrive, AdmissionInv, EnvOK
  <2>5. ASSUME NEW g \in members, Leave(g) PROVE EnvMoves
    BY <2>5 DEF Leave, AdmissionInv, EnvOK
  <2> QED BY <1>3, <2>1, <2>2, <2>3, <2>4, <2>5
<1>5. CallsOK'
  BY <1>1, <1>4, CallsStay DEF AdmissionInv
<1>6. RowsOK'
  BY <1>1, <1>4, RowsMove DEF AdmissionInv, RowsOK
<1>7. EnvOK' /\ LockOK'
  BY <1>1, <1>2, <1>4 DEF AdmissionInv, EnvOK, LockOK
<1> QED BY <1>5, <1>6, <1>7 DEF AdmissionInv

-----------------------------------------------------------------------------
LEMMA NextAdmission == AdmissionInv /\ [Next]_vars => AdmissionInv'
<1> SUFFICES ASSUME AdmissionInv, [Next]_vars PROVE AdmissionInv'
  OBVIOUS
<1>1. CASE UNCHANGED vars
  BY <1>1 DEF vars, AdmissionInv, RowsOK, RowGood, CallsOK, RowIsReady, EnvOK, HostsFriends, LockOK
<1>2. CASE Environment /\ Observe
  BY <1>2, EnvironmentKeepsInv
<1>3. CASE Ops /\ UNCHANGED env /\ Observe
  <2> UNCHANGED env /\ Observe
    BY <1>3
  <2>1. ASSUME NEW c \in Calls, NEW g \in Guests, BeginRequest(c, g) PROVE AdmissionInv'
    <3>1. NewRow("request", g, Host) \in ItemRow
      BY NewRowType DEF Users
    <3> QED BY <2>1, <3>1, BeginCreateKeepsInv DEF BeginRequest
  <2>2. ASSUME NEW c \in Calls, NEW g \in Guests, NEW u \in Users, BeginInvite(c, u, g)
        PROVE  AdmissionInv'
    BY <2>2, NewRowType, BeginCreateKeepsInv DEF BeginInvite
  <2>3. ASSUME NEW c \in Calls, NEW x \in Items, InsertItem(c, x) PROVE AdmissionInv'
    BY <2>3, InsertItemKeepsInv
  <2>4. ASSUME NEW c \in Calls, NEW x \in Items, LockItem(c, x) PROVE AdmissionInv'
    BY <2>4, LockItemKeepsInv
  <2>5. ASSUME NEW c \in Calls, NEW x \in Items, NEW op \in {"decline", "approve", "revoke"},
               ReadItem(c, x, op)
        PROVE  AdmissionInv'
    BY <2>5, ReadItemKeepsInv
  <2>6. ASSUME NEW c \in Calls, CheckEligible(c) PROVE AdmissionInv'
    BY <2>6, CheckEligibleKeepsInv
  <2>7. ASSUME NEW c \in Calls, ExpireLapsed(c) PROVE AdmissionInv'
    BY <2>7, ExpireLapsedKeepsInv
  <2>8. ASSUME NEW c \in Calls, ReadWorld(c) PROVE AdmissionInv'
    BY <2>8, ReadWorldKeepsInv
  <2>9. ASSUME NEW c \in Calls, CheckTrust(c) PROVE AdmissionInv'
    BY <2>9, CheckTrustKeepsInv
  <2>10. ASSUME NEW c \in Calls, CheckLink(c) PROVE AdmissionInv'
    BY <2>10, CheckLinkKeepsInv
  <2>11. ASSUME NEW c \in Calls, CommitAccept(c) PROVE AdmissionInv'
    BY <2>11, CommitAcceptKeepsInv
  <2>12. ASSUME NEW c \in Calls, WriteItem(c) PROVE AdmissionInv'
    BY <2>12, WriteItemKeepsInv
  <2>13. ASSUME NEW c \in Calls, Abandon(c) PROVE AdmissionInv'
    BY <2>13, AbandonKeepsInv
  <2>14. ASSUME NEW x \in Items, CleanupExpire(x) \/ CleanupDelete(x) \/ Lapse(x)
         PROVE  AdmissionInv'
    BY <2>14, CleanupKeepsInv
  <2> QED BY <1>3, <2>1, <2>2, <2>3, <2>4, <2>5, <2>6, <2>7, <2>8, <2>9, <2>10, <2>11, <2>12,
             <2>13, <2>14 DEF Ops
<1> QED BY <1>1, <1>2, <1>3 DEF Next

(* The inductive invariant holds in every state of the specification.        *)
THEOREM AdmissionInvariant == Spec => []AdmissionInv
BY InitAdmission, NextAdmission, PTL DEF Spec

(* However accepts, declines, approvals, revocations and the cleanup overlap *)
(* on a row: an accepted row has exactly one join ticket, no other row any   *)
(* (join.rs and invites.rs accept, cleanup.rs).                              *)
THEOREM TicketsMatchRows == Spec => []OneTicketPerAccepted
<1>1. AdmissionInv => OneTicketPerAccepted
  BY DEF AdmissionInv, RowsOK, RowGood, CallsOK, EnvOK, LockOK, OneTicketPerAccepted, TypeOK
<1> QED BY <1>1, AdmissionInvariant, PTL

(* No stranger gets in without the host: a row with a ticket whose guest was *)
(* never the host's friend is one he accepted, sent or approved himself      *)
(* (invites.rs approve and the initial status of create).                    *)
THEOREM StrangersNeedTheHost == Spec => []HostLetsStrangersIn
<1>1. AdmissionInv => HostLetsStrangersIn
  BY DEF AdmissionInv, RowsOK, RowGood, HostLetsStrangersIn
<1> QED BY <1>1, AdmissionInvariant, PTL

(* A terminal row only ever leaves its status by being deleted: a decline,   *)
(* approve or revoke that read the row before it became terminal finds no    *)
(* row to update.                                                            *)
THEOREM TerminalRowsStay == Spec => TerminalIsFinal
<1> DEFINE Final == \A x \in Items : item[x].status \in TERMINAL =>
                       item'[x].status \in {item[x].status, "deleted"}
<1>1. ASSUME AdmissionInv, [Next]_vars PROVE [Final]_vars
  <2>1. CASE UNCHANGED item
    BY <2>1
  <2>2. CASE Ops
    <3>1. ASSUME NEW c \in Calls, NEW x \in Items, InsertItem(c, x) PROVE Final
      BY <1>1, <3>1 DEF InsertItem, AdmissionInv, RowsOK, TERMINAL
    <3>2. ASSUME NEW c \in Calls, ExpireLapsed(c) PROVE Final
      BY <3>2 DEF ExpireLapsed, Expired, Occupying, TERMINAL, Active
    <3>3. ASSUME NEW c \in Calls, CommitAccept(c) PROVE Final
      BY <1>1, <3>3 DEF CommitAccept, AdmissionInv, RowsOK, ItemRow, TERMINAL
    <3>4. ASSUME NEW c \in Calls, WriteItem(c) PROVE Final
      BY <1>1, <3>4 DEF WriteItem, AdmissionInv, RowsOK, ItemRow, TERMINAL, Active, Expects
    <3>5. ASSUME NEW x \in Items, CleanupExpire(x) PROVE Final
      BY <3>5 DEF CleanupExpire, Expired, TERMINAL, Active
    <3>6. ASSUME NEW x \in Items, CleanupDelete(x) PROVE Final
      BY <1>1, <3>6 DEF CleanupDelete, AdmissionInv, RowsOK, ItemRow
    <3>7. ASSUME NEW x \in Items, Lapse(x) PROVE Final
      BY <1>1, <3>7 DEF Lapse, AdmissionInv, RowsOK, ItemRow, TERMINAL, Active
    <3>8. ASSUME NEW c \in Calls,
                 \/ \E g \in Guests : \/ BeginRequest(c, g)
                                      \/ \E u \in Users : BeginInvite(c, u, g)
                 \/ \E x \in Items : \/ LockItem(c, x)
                                     \/ \E op \in {"decline", "approve", "revoke"} : ReadItem(c, x, op)
                 \/ CheckEligible(c) \/ ReadWorld(c) \/ CheckTrust(c) \/ CheckLink(c) \/ Abandon(c)
          PROVE  UNCHANGED item
      BY <3>8 DEF BeginRequest, BeginInvite, BeginCreate, LockItem, ReadItem, CheckEligible, ReadWorld,
                  CheckTrust, CheckLink, Abandon, rows
    <3> QED BY <2>1, <2>2, <3>1, <3>2, <3>3, <3>4, <3>5, <3>6, <3>7, <3>8 DEF Ops
  <2> QED BY <1>1, <2>1, <2>2 DEF Next, Environment, rows, vars
<1> QED BY <1>1, AdmissionInvariant, PTL DEF Spec, TerminalIsFinal

(* A ticket is minted only by an accept during which the world was open with *)
(* a free slot and the policy and the friendship chain held (the             *)
(* re-validation inside the accept transaction).                             *)
THEOREM AcceptRevalidates == Spec => RevalidatedAtAccept
<1> DEFINE Valid == \A x \in Items : tickets'[x] > tickets[x] =>
                       \E c \in Calls : Accepting(c) /\ call[c].item = x /\ Observed(c) = Conditions
<1>1. ASSUME AdmissionInv, [Next]_vars PROVE [Valid]_vars
  <2>0. tickets \in [Items -> Nat]
    BY <1>1 DEF AdmissionInv, RowsOK
  <2>1. CASE UNCHANGED tickets
    BY <2>0, <2>1
  <2>2. ASSUME NEW c \in Calls, CommitAccept(c) PROVE Valid
    <3>1. call[c].pc = "commit" /\ \A x \in Items : x # call[c].item => tickets'[x] = tickets[x]
      BY <2>0, <2>2 DEF CommitAccept
    <3>2. Accepting(c) /\ Observed(c) = Conditions
      BY <1>1, <3>1, ObservedGrows DEF Accepting, SeenBy, AdmissionInv
    <3> QED BY <2>0, <3>1, <3>2
  <2>3. CASE Ops
    BY <2>1, <2>2, <2>3 DEF Ops, BeginRequest, BeginInvite, BeginCreate, LockItem, ReadItem, CheckEligible,
          ReadWorld, CheckTrust, CheckLink, Abandon, rows, InsertItem, ExpireLapsed, WriteItem,
          CleanupExpire, CleanupDelete, Lapse
  <2> QED BY <1>1, <2>1, <2>3 DEF Next, Environment, rows, vars
<1> QED BY <1>1, AdmissionInvariant, PTL DEF Spec, RevalidatedAtAccept
=============================================================================
