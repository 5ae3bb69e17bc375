--------------------------- MODULE AccountsProofs ---------------------------
(***************************************************************************)
(* Accounts for any number of users and overlapping calls and any cap:     *)
(* resets and demotions end the credentials that existed, the token cap    *)
(* holds wherever its eviction ran, and the last-admin guard errs only on  *)
(* a stale count.                                                          *)
(***************************************************************************)
EXTENDS Accounts, FiniteSetTheorems, TLAPS

(* What is left to run of a call, at every moment of it.                     *)
Logins == {<<"issue_session">>, <<"issue_session", "insert_pair", "evict">>,
           <<"insert_pair", "evict">>, <<"evict">>,
           <<"revoke_one", "issue_session", "insert_pair", "evict">>,
           <<"check_owner", "delete_pair", "insert_pair", "evict">>,
           <<"delete_pair", "insert_pair", "evict">>}
Guarded == {<<"guard_exists", "guard_count", "demote", "revoke_all">>,
            <<"guard_count", "demote", "revoke_all">>, <<"demote", "revoke_all">>,
            <<"load_user", "guard_exists", "guard_count", "delete">>,
            <<"guard_exists", "guard_count", "delete">>,
            <<"guard_count", "delete">>, <<"delete">>,
            <<"guard_exists", "guard_count", "block">>,
            <<"guard_count", "block">>, <<"block">>}
Revokes == {<<"set_password", "revoke_all", "invalidate_all">>,
            <<"load_user", "revoke_all", "invalidate_all">>,
            <<"revoke_all", "invalidate_all">>, <<"invalidate_all">>, <<"revoke_all">>}
Updates == {<<"promote">>, <<"confirm">>, <<"unconfirm">>, <<"unblock">>}
Todos == Logins \cup Guarded \cup Revokes \cup Updates

UserRow == [life : {"absent", "live", "deleted"}, blocked : BOOLEAN, confirmed : BOOLEAN,
            admin : BOOLEAN, pw : Nat, rank : Nat]

RowsOK == user \in [Users -> UserRow]

CredentialsOK ==
  /\ minted \in Nat
  /\ sessions \subseteq Credential /\ pairs \subseteq Credential
  /\ \A r \in sessions \cup pairs : Exists(r.user) /\ r.id <= minted

(* A call that has passed guard_last_admin saw another usable admin, or      *)
(* found its target to be none.                                              *)
Spares(k) == k.user \in k.seen => Cardinality(k.seen) > 1

(* A call past its guard is at the write that the guard protects.            *)
Writes == {<<"demote", "revoke_all">>, <<"delete">>, <<"block">>}

Call == [todo : Todos \cup {<<>>}, user : Users, pw : Nat, rank : Nat, of : Nat,
         seen : SUBSET Users, cut : BOOLEAN]

CallsOK ==
  /\ call \in [Calls -> Call]
  /\ \A c \in Calls : call[c].todo \in Writes => Spares(call[c])

(* The statements still to come that end the user's sessions, or pairs.      *)
EndsSessions(k) == k.cut /\ k.todo \in {<<"revoke_all">>, <<"revoke_all", "invalidate_all">>}
EndsPairs(k) == k.cut /\ k.todo \in {<<"invalidate_all">>, <<"revoke_all", "invalidate_all">>}

SessionsEnd(u) == u \in uncut \/ \E c \in Calls : call[c].user = u /\ EndsSessions(call[c])
PairsEnd(u) == u \in uncut \/ \E c \in Calls : call[c].user = u /\ EndsPairs(call[c])

RevocationsOK ==
  /\ \A s \in sessions : s.pw < user[s.user].pw \/ s.rank < user[s.user].rank =>
                           s.late \/ SessionsEnd(s.user)
  /\ \A y \in pairs : y.pw < user[y.user].pw => y.late \/ PairsEnd(y.user)

Evicting(u) == u \in leaked \/ \E c \in Calls : call[c].user = u /\ call[c].todo = <<"evict">>

(* Ids tell pairs apart, so the eviction's order is total.                   *)
CapOK ==
  /\ IsFiniteSet(pairs)
  /\ \A y, z \in pairs : y.id = z.id => y = z
  /\ \A u \in Users : Cardinality(PairsOf(u)) <= MaxPerUser \/ Evicting(u)

BoundsOK ==
  /\ leaked \subseteq Users /\ uncut \subseteq Users
  /\ requests \in 0 .. MaxRequests /\ faults \in 0 .. MaxFaults

AccountsInv == RowsOK /\ CredentialsOK /\ CallsOK /\ RevocationsOK /\ CapOK /\ BoundsOK

-----------------------------------------------------------------------------
(* Lists of statements.                                                      *)
LEMMA TodoTypes ==
  ASSUME NEW t \in Todos
  PROVE  t # <<>> /\ t \in Seq(Steps) /\ Len(t) \in Nat
<1>1. t # <<>>
  BY DEF Todos, Logins, Guarded, Revokes, Updates
<1>2. /\ <<"issue_session">> \in Seq(Steps)
      /\ <<"issue_session", "insert_pair", "evict">> \in Seq(Steps)
      /\ <<"insert_pair", "evict">> \in Seq(Steps)
      /\ <<"evict">> \in Seq(Steps)
      /\ <<"revoke_one", "issue_session", "insert_pair", "evict">> \in Seq(Steps)
      /\ <<"check_owner", "delete_pair", "insert_pair", "evict">> \in Seq(Steps)
      /\ <<"delete_pair", "insert_pair", "evict">> \in Seq(Steps)
  BY DEF Steps
<1>3. /\ <<"guard_exists", "guard_count", "demote", "revoke_all">> \in Seq(Steps)
      /\ <<"guard_count", "demote", "revoke_all">> \in Seq(Steps)
      /\ <<"demote", "revoke_all">> \in Seq(Steps)
      /\ <<"load_user", "guard_exists", "guard_count", "delete">> \in Seq(Steps)
      /\ <<"guard_exists", "guard_count", "delete">> \in Seq(Steps)
      /\ <<"guard_count", "delete">> \in Seq(Steps)
      /\ <<"delete">> \in Seq(Steps)
      /\ <<"guard_exists", "guard_count", "block">> \in Seq(Steps)
      /\ <<"guard_count", "block">> \in Seq(Steps)
      /\ <<"block">> \in Seq(Steps)
  BY DEF Steps
<1>4. /\ <<"set_password", "revoke_all", "invalidate_all">> \in Seq(Steps)
      /\ <<"load_user", "revoke_all", "invalidate_all">> \in Seq(Steps)
      /\ <<"revoke_all", "invalidate_all">> \in Seq(Steps)
      /\ <<"invalidate_all">> \in Seq(Steps)
      /\ <<"revoke_all">> \in Seq(Steps)
  BY DEF Steps
<1>5. /\ <<"promote">> \in Seq(Steps)
      /\ <<"confirm">> \in Seq(Steps)
      /\ <<"unconfirm">> \in Seq(Steps)
      /\ <<"unblock">> \in Seq(Steps)
  BY DEF Steps
<1>6. t \in Seq(Steps)
  BY <1>2, <1>3, <1>4, <1>5, Zenon DEF Todos, Logins, Guarded, Revokes, Updates
<1> QED BY <1>1, <1>6

(* What is left after the first statement.                                   *)
LEMMA TodoRest ==
  ASSUME NEW t \in Todos, Len(t) # 1
  PROVE  Tail(t) \in Todos /\ (Tail(t) \in Writes => Head(t) = "guard_count")
<1>1. CASE t = <<"issue_session", "insert_pair", "evict">>
  <2>1. Tail(t) = <<"insert_pair", "evict">>
    BY <1>1
  <2> QED BY <1>1, <2>1 DEF Todos, Logins, Guarded, Revokes, Updates, Writes
<1>2. CASE t = <<"insert_pair", "evict">>
  <2>1. Tail(t) = <<"evict">>
    BY <1>2
  <2> QED BY <1>2, <2>1 DEF Todos, Logins, Guarded, Revokes, Updates, Writes
<1>3. CASE t = <<"revoke_one", "issue_session", "insert_pair", "evict">>
  <2>1. Tail(t) = <<"issue_session", "insert_pair", "evict">>
    BY <1>3
  <2> QED BY <1>3, <2>1 DEF Todos, Logins, Guarded, Revokes, Updates, Writes
<1>4. CASE t = <<"check_owner", "delete_pair", "insert_pair", "evict">>
  <2>1. Tail(t) = <<"delete_pair", "insert_pair", "evict">>
    BY <1>4
  <2> QED BY <1>4, <2>1 DEF Todos, Logins, Guarded, Revokes, Updates, Writes
<1>5. CASE t = <<"delete_pair", "insert_pair", "evict">>
  <2>1. Tail(t) = <<"insert_pair", "evict">>
    BY <1>5
  <2> QED BY <1>5, <2>1 DEF Todos, Logins, Guarded, Revokes, Updates, Writes
<1>6. CASE t = <<"guard_exists", "guard_count", "demote", "revoke_all">>
  <2>1. Tail(t) = <<"guard_count", "demote", "revoke_all">>
    BY <1>6
  <2> QED BY <1>6, <2>1 DEF Todos, Logins, Guarded, Revokes, Updates, Writes
<1>7. CASE t = <<"guard_count", "demote", "revoke_all">>
  <2>1. Tail(t) = <<"demote", "revoke_all">>
    BY <1>7
  <2> QED BY <1>7, <2>1 DEF Todos, Logins, Guarded, Revokes, Updates, Writes
<1>8. CASE t = <<"demote", "revoke_all">>
  <2>1. Tail(t) = <<"revoke_all">>
    BY <1>8
  <2> QED BY <1>8, <2>1 DEF Todos, Logins, Guarded, Revokes, Updates, Writes
<1>9. CASE t = <<"load_user", "guard_exists", "guard_count", "delete">>
  <2>1. Tail(t) = <<"guard_exists", "guard_count", "delete">>
    BY <1>9
  <2> QED BY <1>9, <2>1 DEF Todos, Logins, Guarded, Revokes, Updates, Writes
<1>10. CASE t = <<"guard_exists", "guard_count", "delete">>
  <2>1. Tail(t) = <<"guard_count", "delete">>
    BY <1>10
  <2> QED BY <1>10, <2>1 DEF Todos, Logins, Guarded, Revokes, Updates, Writes
<1>11. CASE t = <<"guard_count", "delete">>
  <2>1. Tail(t) = <<"delete">>
    BY <1>11
  <2> QED BY <1>11, <2>1 DEF Todos, Logins, Guarded, Revokes, Updates, Writes
<1>12. CASE t = <<"guard_exists", "guard_count", "block">>
  <2>1. Tail(t) = <<"guard_count", "block">>
    BY <1>12
  <2> QED BY <1>12, <2>1 DEF Todos, Logins, Guarded, Revokes, Updates, Writes
<1>13. CASE t = <<"guard_count", "block">>
  <2>1. Tail(t) = <<"block">>
    BY <1>13
  <2> QED BY <1>13, <2>1 DEF Todos, Logins, Guarded, Revokes, Updates, Writes
<1>14. CASE t = <<"set_password", "revoke_all", "invalidate_all">>
  <2>1. Tail(t) = <<"revoke_all", "invalidate_all">>
    BY <1>14
  <2> QED BY <1>14, <2>1 DEF Todos, Logins, Guarded, Revokes, Updates, Writes
<1>15. CASE t = <<"load_user", "revoke_all", "invalidate_all">>
  <2>1. Tail(t) = <<"revoke_all", "invalidate_all">>
    BY <1>15
  <2> QED BY <1>15, <2>1 DEF Todos, Logins, Guarded, Revokes, Updates, Writes
<1>16. CASE t = <<"revoke_all", "invalidate_all">>
  <2>1. Tail(t) = <<"invalidate_all">>
    BY <1>16
  <2> QED BY <1>16, <2>1 DEF Todos, Logins, Guarded, Revokes, Updates, Writes
<1> QED BY <1>1, <1>2, <1>3, <1>4, <1>5, <1>6, <1>7, <1>8, <1>9, <1>10, <1>11, <1>12, <1>13, <1>14, <1>15, <1>16 DEF Todos, Logins, Guarded, Revokes, Updates

(* Where the head decides the list.                                          *)
LEMMA TodoHeads ==
  ASSUME NEW t \in Todos
  PROVE  /\ Head(t) = "evict" => t = <<"evict">>
         /\ Head(t) = "insert_pair" => t = <<"insert_pair", "evict">>
         /\ Head(t) = "invalidate_all" => t = <<"invalidate_all">>
         /\ Head(t) = "revoke_all" => t \in {<<"revoke_all">>, <<"revoke_all", "invalidate_all">>}
         /\ Head(t) = "set_password" => t = <<"set_password", "revoke_all", "invalidate_all">>
         /\ Head(t) = "demote" => t = <<"demote", "revoke_all">>
         /\ Head(t) = "delete" => t = <<"delete">>
         /\ Head(t) = "block" => t = <<"block">>
         /\ Head(t) = "guard_exists" =>
              t \in {<<"guard_exists", "guard_count", "demote", "revoke_all">>,
                     <<"guard_exists", "guard_count", "delete">>,
                     <<"guard_exists", "guard_count", "block">>}
         /\ Head(t) = "guard_count" =>
              t \in {<<"guard_count", "demote", "revoke_all">>,
                     <<"guard_count", "delete">>, <<"guard_count", "block">>}
BY DEF Todos, Logins, Guarded, Revokes, Updates

LEMMA GuardRest ==
  ASSUME NEW t \in Todos
  PROVE  /\ Head(t) = "guard_exists" =>
              Tail(t) \in Todos \ Writes /\ Tail(Tail(t)) \in Writes
         /\ Head(t) = "guard_count" => Tail(t) \in Writes
<1>1. ASSUME t = <<"guard_exists", "guard_count", "demote", "revoke_all">>
      PROVE  /\ Tail(t) = <<"guard_count", "demote", "revoke_all">>
             /\ Tail(Tail(t)) = <<"demote", "revoke_all">>
  BY <1>1
<1>2. ASSUME t = <<"guard_exists", "guard_count", "delete">>
      PROVE  Tail(t) = <<"guard_count", "delete">> /\ Tail(Tail(t)) = <<"delete">>
  BY <1>2
<1>3. ASSUME t = <<"guard_exists", "guard_count", "block">>
      PROVE  Tail(t) = <<"guard_count", "block">> /\ Tail(Tail(t)) = <<"block">>
  BY <1>3
<1>4. ASSUME Head(t) = "guard_exists"
      PROVE  Tail(t) \in Todos \ Writes /\ Tail(Tail(t)) \in Writes
  <2>1. \/ Tail(t) = <<"guard_count", "demote", "revoke_all">> /\ Tail(Tail(t)) = <<"demote", "revoke_all">>
        \/ Tail(t) = <<"guard_count", "delete">> /\ Tail(Tail(t)) = <<"delete">>
        \/ Tail(t) = <<"guard_count", "block">> /\ Tail(Tail(t)) = <<"block">>
    BY <1>1, <1>2, <1>3, <1>4, TodoHeads
  <2> QED BY <2>1 DEF Todos, Guarded, Writes
<1>5. ASSUME t = <<"guard_count", "demote", "revoke_all">> PROVE Tail(t) = <<"demote", "revoke_all">>
  BY <1>5
<1>6. ASSUME t = <<"guard_count", "delete">> PROVE Tail(t) = <<"delete">>
  BY <1>6
<1>7. ASSUME t = <<"guard_count", "block">> PROVE Tail(t) = <<"block">>
  BY <1>7
<1>8. ASSUME Head(t) = "guard_count" PROVE Tail(t) \in Writes
  BY <1>5, <1>6, <1>7, <1>8, TodoHeads DEF Writes
<1> QED BY <1>4, <1>8

(* The calls' lists.                                                         *)
LEMMA StartTodos ==
  /\ auth_response \in Todos \ Writes /\ issue_yggdrasil_tokens \in Todos \ Writes
  /\ refresh_session \in Todos \ Writes /\ refresh_yggdrasil \in Todos \ Writes
  /\ demote_user \in Todos \ Writes /\ block_user \in Todos \ Writes
  /\ delete_user \in Todos \ Writes
  /\ reset_password \in Todos \ Writes /\ revoke_tokens \in Todos \ Writes
  /\ \A x \in {"issue_session", "promote", "confirm", "unconfirm", "unblock"} :
       <<x>> \in Todos \ Writes
BY DEF Todos, Logins, Guarded, Revokes, Updates, Writes, auth_response, issue_yggdrasil_tokens,
       refresh_session, refresh_yggdrasil, demote_user, block_user, delete_user,
       reset_password, revoke_tokens

-----------------------------------------------------------------------------
(* Sets of rows.                                                             *)
LEMMA LeastNat ==
  ASSUME NEW T \in SUBSET Nat, T # {}
  PROVE  \E x \in T : \A y \in T : x <= y
<1>1. \E x \in T : \A y \in T : ~ (<<y, x>> \in OpToRel(<, Nat))
  BY WFMin, NatLessThanWellFounded
<1>2. PICK x \in T : \A y \in T : ~ (<<y, x>> \in {ss \in Nat \X Nat : ss[1] < ss[2]})
  BY <1>1 DEF OpToRel
<1>3. ASSUME NEW y \in T PROVE x <= y
  <2>1. <<y, x>> \in Nat \X Nat
    OBVIOUS
  <2>2. ~ (y < x)
    BY <1>2, <2>1
  <2> QED BY <2>2
<1> QED BY <1>3

(* The eviction keeps at most MaxPerUser rows.                               *)
LEMMA KeptBounded ==
  ASSUME NEW rows, IsFiniteSet(rows), \A y \in rows : y.id \in Nat,
         \A y, z \in rows : y.id = z.id => y = z
  PROVE  Kept(rows) \subseteq rows /\ Cardinality(Kept(rows)) <= MaxPerUser
<1> DEFINE K == Kept(rows)
<1>1. K \subseteq rows /\ IsFiniteSet(K) /\ Cardinality(K) \in Nat
  BY FS_Subset, FS_CardinalityType DEF Kept
<1>2. CASE K = {}
  BY <1>2, FS_EmptySet, CapAssumption DEF K
<1>3. CASE K # {}
  <2> DEFINE ids == {y.id : y \in K}
  <2>1. ids \in SUBSET Nat /\ ids # {}
    BY <1>1, <1>3
  <2>2. PICK x \in ids : \A i \in ids : x <= i
    BY <2>1, LeastNat
  <2>3. PICK y \in K : y.id = x
    BY <2>2
  <2> DEFINE above == {z \in rows : z.id > y.id}
  <2>4. \A z \in K \ {y} : z \in above
    BY <1>1, <2>2, <2>3
  <2>5. IsFiniteSet(above) /\ Cardinality(above) \in Nat
    BY FS_Subset, FS_CardinalityType
  <2>6. Cardinality(above) < MaxPerUser
    BY <2>3 DEF Kept
  <2>7. Cardinality(K \ {y}) <= Cardinality(above)
    <3> HIDE DEF above, K
    <3> QED BY <2>4, <2>5, FS_Subset
  <2>8. Cardinality(K \ {y}) = Cardinality(K) - 1
    <3> HIDE DEF K
    <3> QED BY <1>1, <2>3, FS_RemoveElement
  <2> HIDE DEF above, K
  <2> QED BY <1>1, <2>5, <2>6, <2>7, <2>8, CapAssumption DEF K
<1> QED BY <1>1, <1>2, <1>3 DEF K

LEMMA Swap ==
  ASSUME NEW S, IsFiniteSet(S), NEW y \in S, NEW x
  PROVE  /\ IsFiniteSet((S \ {y}) \cup {x})
         /\ Cardinality((S \ {y}) \cup {x}) \in Nat
         /\ Cardinality((S \ {y}) \cup {x}) <= Cardinality(S)
<1> PICK T : T = S \ {y}
  OBVIOUS
<1>1. IsFiniteSet(T) /\ Cardinality(T) = Cardinality(S) - 1 /\ Cardinality(S) \in Nat
  BY FS_RemoveElement, FS_CardinalityType
<1>2. /\ IsFiniteSet(T \cup {x})
      /\ Cardinality(T \cup {x}) = IF x \in T THEN Cardinality(T) ELSE Cardinality(T) + 1
  BY <1>1, FS_AddElement
<1>3. Cardinality(T \cup {x}) \in Nat
  BY <1>2, FS_CardinalityType
<1> QED BY <1>1, <1>2, <1>3

(* Accounts can be numbered.                                                 *)
LEMMA Numbering ==
  ASSUME NEW S, IsFiniteSet(S)
  PROVE  /\ Cardinality(S) \in Nat
         /\ \E f \in [S -> 1 .. Cardinality(S)] : \A u, v \in S : u # v => f[u] # f[v]
<1>1. Cardinality(S) \in Nat /\ ExistsBijection(1 .. Cardinality(S), S)
  BY FS_CardinalityType
<1>2. PICK g \in [1 .. Cardinality(S) -> S] : \A u \in S : \E i \in 1 .. Cardinality(S) : g[i] = u
  BY <1>1 DEF ExistsBijection, Bijection, Surjection, Injection, IsInjective
<1> DEFINE f == [u \in S |-> CHOOSE i \in 1 .. Cardinality(S) : g[i] = u]
<1>3. \A u \in S : f[u] \in 1 .. Cardinality(S) /\ g[f[u]] = u
  BY <1>2
<1>4. f \in [S -> 1 .. Cardinality(S)]
  BY <1>3
<1> HIDE DEF f
<1>5. \A u, v \in S : u # v => f[u] # f[v]
  BY <1>3
<1> QED BY <1>1, <1>4, <1>5

-----------------------------------------------------------------------------
(* How a step changes the calls.                                             *)
LEMMA CallSet ==
  ASSUME CallsOK, NEW c \in Calls, NEW q \in Call, q.todo \in Writes => Spares(q),
         call' = [call EXCEPT ![c] = q]
  PROVE  CallsOK' /\ call'[c] = q /\ \A d \in Calls \ {c} : call'[d] = call[d]
BY DEF CallsOK, Spares

LEMMA IdleCall == Idle \in Call /\ Idle.todo = <<>> /\ Idle.todo \notin Writes /\ ~ Idle.cut
<1>1. <<>> \notin Writes
  BY DEF Writes
<1> QED BY <1>1, UsersAssumption DEF Idle, Call

LEMMA StartStep ==
  ASSUME CallsOK, BoundsOK, NEW c \in Calls, NEW todo \in Todos \ Writes, NEW u \in Users,
         NEW pw \in Nat, NEW rank \in Nat, NEW of \in Nat, Start(c, todo, u, pw, rank, of)
  PROVE  /\ CallsOK' /\ call[c].todo = <<>> /\ \A d \in Calls \ {c} : call'[d] = call[d]
         /\ requests' \in 0 .. MaxRequests
<1> DEFINE q == [todo |-> todo, user |-> u, pw |-> pw, rank |-> rank, of |-> of,
                 seen |-> {}, cut |-> FALSE]
<1>1. q \in Call /\ q.todo \notin Writes
  BY DEF Call
<1>2. call' = [call EXCEPT ![c] = q] /\ call[c].todo = <<>>
  BY DEF Start
<1>3. requests' \in 0 .. MaxRequests
  BY BoundsAssumption DEF Start, BoundsOK
<1> HIDE DEF q
<1> QED BY <1>1, <1>2, <1>3, CallSet

LEMMA FinishStep ==
  ASSUME CallsOK, NEW c \in Calls, Finish(c)
  PROVE  CallsOK' /\ call'[c] = Idle /\ \A d \in Calls \ {c} : call'[d] = call[d]
BY IdleCall, CallSet DEF Finish

LEMMA AtStep ==
  ASSUME CallsOK, NEW c \in Calls, NEW step, At(c, step)
  PROVE  call[c].todo \in Todos /\ Head(call[c].todo) = step /\ call[c].user \in Users
BY DEF At, CallsOK, Call

LEMMA AdvanceStep ==
  ASSUME CallsOK, NEW c \in Calls, call[c].todo \in Todos, Len(call[c].todo) # 1,
         Head(call[c].todo) # "guard_count", Advance(c)
  PROVE  /\ CallsOK' /\ \A d \in Calls \ {c} : call'[d] = call[d]
         /\ call'[c].todo = Tail(call[c].todo) /\ call'[c].user = call[c].user
         /\ call'[c].cut = call[c].cut
<1> PICK t : t = Tail(call[c].todo)
  OBVIOUS
<1>1. t \in Todos /\ t \notin Writes
  BY TodoRest
<1> DEFINE q == [call[c] EXCEPT !.todo = t]
<1>2. call[c] \in Call /\ call' = [call EXCEPT ![c] = q]
  BY DEF CallsOK, Advance
<1>3. /\ q \in Call /\ q.todo = t /\ q.user = call[c].user /\ q.cut = call[c].cut
  BY <1>1, <1>2 DEF Call
<1> HIDE DEF q
<1> QED BY <1>1, <1>2, <1>3, CallSet

LEMMA GoStep ==
  ASSUME CallsOK, NEW c \in Calls, NEW step, At(c, step), step # "guard_count", Go(c)
  PROVE  /\ CallsOK' /\ \A d \in Calls \ {c} : call'[d] = call[d]
         /\ Len(call[c].todo) = 1 => call'[c] = Idle
         /\ Len(call[c].todo) # 1 =>
              /\ call'[c].todo = Tail(call[c].todo) /\ call'[c].user = call[c].user
              /\ call'[c].cut = call[c].cut
<1>1. call[c].todo \in Todos /\ Head(call[c].todo) = step
  BY AtStep
<1>2. CASE Len(call[c].todo) = 1
  BY <1>2, FinishStep DEF Go
<1>3. CASE Len(call[c].todo) # 1
  BY <1>1, <1>3, AdvanceStep DEF Go
<1> QED BY <1>2, <1>3

(* Only the statements that end credentials change what is still to be ended. *)
LEMMA OthersLast ==
  ASSUME NEW c \in Calls, \A d \in Calls \ {c} : call'[d] = call[d],
         leaked' = leaked, uncut' = uncut,
         \/ call[c].todo = <<>>
         \/ Head(call[c].todo) \notin {"revoke_all", "invalidate_all", "evict"}
  PROVE  \A u : /\ SessionsEnd(u) => SessionsEnd(u)'
                /\ PairsEnd(u) => PairsEnd(u)'
                /\ Evicting(u) => Evicting(u)'
<1>1. ~ EndsSessions(call[c]) /\ ~ EndsPairs(call[c]) /\ call[c].todo # <<"evict">>
  <2> PICK t : t = call[c].todo
    OBVIOUS
  <2>1. t # <<"evict">> /\ t # <<"revoke_all">> /\ t # <<"invalidate_all">>
    OBVIOUS
  <2>2. t # <<"revoke_all", "invalidate_all">>
    OBVIOUS
  <2> QED BY <2>1, <2>2 DEF EndsSessions, EndsPairs
<1>2. \A d \in Calls : EndsSessions(call[d]) => EndsSessions(call[d])' /\ call'[d].user = call[d].user
  BY <1>1 DEF EndsSessions
<1>3. \A d \in Calls : EndsPairs(call[d]) => EndsPairs(call[d])' /\ call'[d].user = call[d].user
  BY <1>1 DEF EndsPairs
<1>4. \A d \in Calls : call[d].todo = <<"evict">> => call'[d] = call[d]
  BY <1>1
<1> QED BY <1>2, <1>3, <1>4 DEF SessionsEnd, PairsEnd, Evicting

-----------------------------------------------------------------------------
(* Steps that add no credential and make none obsolete.                      *)
LEMMA QuietStep ==
  ASSUME RowsOK, CredentialsOK, RevocationsOK, CapOK,
         sessions' \subseteq sessions, pairs' \subseteq pairs, minted' = minted,
         \A r \in sessions' \cup pairs' :
           /\ Exists(r.user)'
           /\ user'[r.user].pw = user[r.user].pw /\ user'[r.user].rank = user[r.user].rank,
         \A s \in sessions' : SessionsEnd(s.user) => SessionsEnd(s.user)',
         \A y \in pairs' : PairsEnd(y.user) => PairsEnd(y.user)',
         \A u \in Users : Evicting(u) =>
           Evicting(u)' \/ Cardinality(PairsOf(u)') <= MaxPerUser
  PROVE  CredentialsOK' /\ RevocationsOK' /\ CapOK'
<1>1. CredentialsOK'
  BY DEF CredentialsOK
<1>2. RevocationsOK'
  BY DEF RevocationsOK
<1>3. IsFiniteSet(pairs') /\ \A y, z \in pairs' : y.id = z.id => y = z
  BY FS_Subset DEF CapOK
<1>4. ASSUME NEW u \in Users PROVE Cardinality(PairsOf(u)') <= MaxPerUser \/ Evicting(u)'
  <2>1. CASE Evicting(u)
    BY <2>1
  <2>2. CASE Cardinality(PairsOf(u)) <= MaxPerUser
    <3>1. PairsOf(u) \subseteq pairs /\ PairsOf(u)' \subseteq PairsOf(u)
      BY DEF PairsOf
    <3>2. IsFiniteSet(PairsOf(u))
      BY <3>1, FS_Subset DEF CapOK
    <3>3. IsFiniteSet(PairsOf(u)') /\ Cardinality(PairsOf(u)') <= Cardinality(PairsOf(u))
      BY <3>1, <3>2, FS_Subset
    <3> QED BY <2>2, <3>2, <3>3, FS_CardinalityType, CapAssumption
  <2> QED BY <2>1, <2>2 DEF CapOK
<1>5. CapOK'
  BY <1>3, <1>4 DEF CapOK
<1> QED BY <1>1, <1>2, <1>5

-----------------------------------------------------------------------------
(* The requests.                                                             *)
Rest == <<sessions, pairs, leaked, uncut, minted, faults>>

LEMMA RequestStep ==
  ASSUME AccountsInv, NEW c \in Calls, call[c].todo = <<>>,
         \A d \in Calls \ {c} : call'[d] = call[d], UNCHANGED Rest,
         requests' \in 0 .. MaxRequests, CallsOK', RowsOK',
         \A u \in Users : Exists(u) => /\ Exists(u)' /\ user'[u].pw = user[u].pw
                                      /\ user'[u].rank = user[u].rank
  PROVE  AccountsInv'
<1>1. \A u : /\ SessionsEnd(u) => SessionsEnd(u)'
             /\ PairsEnd(u) => PairsEnd(u)'
             /\ Evicting(u) => Evicting(u)'
  BY OthersLast DEF Rest
<1>2. \A r \in sessions \cup pairs : r.user \in Users /\ Exists(r.user)
  BY DEF AccountsInv, CredentialsOK, Credential
<1>3. CredentialsOK' /\ RevocationsOK' /\ CapOK'
  <2>1. sessions' = sessions /\ pairs' = pairs /\ minted' = minted
    BY DEF Rest
  <2> QED BY <1>1, <1>2, <2>1, QuietStep DEF AccountsInv
<1>4. BoundsOK'
  BY DEF AccountsInv, BoundsOK, Rest
<1> QED BY <1>3, <1>4 DEF AccountsInv

LEMMA LoginStep ==
  ASSUME AccountsInv, NEW c \in Calls, NEW u \in Users, Login(c, u)
  PROVE  AccountsInv'
<1>1. user[u].pw \in Nat /\ user[u].rank \in Nat /\ 0 \in Nat
  BY DEF AccountsInv, RowsOK, UserRow
<1>2. PICK todo \in Todos \ Writes : Start(c, todo, u, user[u].pw, user[u].rank, 0)
  BY StartTodos DEF Login
<1>3. /\ CallsOK' /\ call[c].todo = <<>> /\ \A d \in Calls \ {c} : call'[d] = call[d]
      /\ requests' \in 0 .. MaxRequests
  BY <1>1, <1>2, StartStep DEF AccountsInv
<1>4. user' = user /\ UNCHANGED Rest
  BY DEF Login, Rest
<1>5. RowsOK'
  BY <1>4 DEF AccountsInv, RowsOK
<1> QED BY <1>3, <1>4, <1>5, RequestStep DEF Exists

LEMMA FreshRow ==
  ASSUME RowsOK, NEW u \in Users, NEW admin \in BOOLEAN,
         user[u].life # "live", user' = [user EXCEPT ![u] = Row("live", admin)]
  PROVE  /\ RowsOK'
         /\ \A v \in Users : Exists(v) => Exists(v)' /\ user'[v] = user[v]
BY DEF RowsOK, UserRow, Row, Exists

LEMMA RegisterStep ==
  ASSUME AccountsInv, NEW c \in Calls, NEW u \in Users, Register(c, u)
  PROVE  AccountsInv'
<1>1. /\ RowsOK'
      /\ \A v \in Users : Exists(v) => Exists(v)' /\ user'[v] = user[v]
  BY FreshRow DEF AccountsInv, Register
<1>2. /\ CallsOK' /\ call[c].todo = <<>> /\ \A d \in Calls \ {c} : call'[d] = call[d]
      /\ requests' \in 0 .. MaxRequests
  BY StartTodos, StartStep DEF AccountsInv, Register
<1>3. UNCHANGED Rest
  BY DEF Register, Rest
<1> QED BY <1>1, <1>2, <1>3, RequestStep

LEMMA RefreshStep ==
  ASSUME AccountsInv, NEW c \in Calls, NEW r \in sessions \cup pairs,
         RefreshSession(c, r) \/ RefreshPair(c, r)
  PROVE  AccountsInv'
<1>1. r.user \in Users /\ r.pw \in Nat /\ r.rank \in Nat /\ r.id \in Nat
  BY DEF AccountsInv, CredentialsOK, Credential
<1>2. PICK todo \in Todos \ Writes : Start(c, todo, r.user, r.pw, r.rank, r.id)
  BY StartTodos DEF RefreshSession, RefreshPair
<1>3. /\ CallsOK' /\ call[c].todo = <<>> /\ \A d \in Calls \ {c} : call'[d] = call[d]
      /\ requests' \in 0 .. MaxRequests
  BY <1>1, <1>2, StartStep DEF AccountsInv
<1>4. user' = user /\ UNCHANGED Rest
  BY DEF RefreshSession, RefreshPair, Rest
<1>5. RowsOK'
  BY <1>4 DEF AccountsInv, RowsOK
<1> QED BY <1>3, <1>4, <1>5, RequestStep DEF Exists

LEMMA AdminOperationStep ==
  ASSUME AccountsInv, NEW c \in Calls, NEW u \in Users, AdminOperation(c, u)
  PROVE  AccountsInv'
<1>1. PICK todo \in Todos \ Writes : Start(c, todo, u, 0, 0, 0)
  BY StartTodos DEF AdminOperation
<1>2. /\ CallsOK' /\ call[c].todo = <<>> /\ \A d \in Calls \ {c} : call'[d] = call[d]
      /\ requests' \in 0 .. MaxRequests
  BY <1>1, StartStep DEF AccountsInv
<1>3. user' = user /\ UNCHANGED Rest
  BY DEF AdminOperation, Rest
<1>4. RowsOK'
  BY <1>3 DEF AccountsInv, RowsOK
<1> QED BY <1>2, <1>3, <1>4, RequestStep DEF Exists

-----------------------------------------------------------------------------
(* Single statements outside the calls.                                      *)
LEMMA OutsideStep ==
  ASSUME AccountsInv, UNCHANGED <<call, leaked, uncut, minted>>,
         sessions' \subseteq sessions, pairs' \subseteq pairs,
         requests' \in 0 .. MaxRequests, faults' \in 0 .. MaxFaults, RowsOK',
         \A u \in Users : Exists(u) => Exists(u)' /\ user'[u] = user[u]
  PROVE  AccountsInv'
<1>1. \A u : /\ SessionsEnd(u) => SessionsEnd(u)'
             /\ PairsEnd(u) => PairsEnd(u)'
             /\ Evicting(u) => Evicting(u)'
  BY DEF SessionsEnd, PairsEnd, Evicting, EndsSessions, EndsPairs
<1>2. \A r \in sessions' \cup pairs' : r.user \in Users /\ Exists(r.user)
  BY DEF AccountsInv, CredentialsOK, Credential
<1>3. CredentialsOK' /\ RevocationsOK' /\ CapOK'
  BY <1>1, <1>2, QuietStep DEF AccountsInv
<1>4. CallsOK' /\ BoundsOK'
  BY DEF AccountsInv, BoundsOK, CallsOK, Spares
<1> QED BY <1>3, <1>4 DEF AccountsInv

LEMMA AdminCreateUserStep ==
  ASSUME AccountsInv, NEW u \in Users, NEW admin \in BOOLEAN, AdminCreateUser(u, admin)
  PROVE  AccountsInv'
<1>1. RowsOK' /\ \A v \in Users : Exists(v) => Exists(v)' /\ user'[v] = user[v]
  BY FreshRow DEF AccountsInv, AdminCreateUser
<1>2. requests' \in 0 .. MaxRequests /\ faults' \in 0 .. MaxFaults
  BY BoundsAssumption DEF AccountsInv, BoundsOK, AdminCreateUser
<1> QED BY <1>1, <1>2, OutsideStep DEF AdminCreateUser

LEMMA RemoveStep ==
  ASSUME AccountsInv,
         \/ \E s \in sessions : Logout(s)
         \/ \E y \in pairs : InvalidatePair(y)
         \/ Cleanup
  PROVE  AccountsInv'
<1>1. requests' \in 0 .. MaxRequests /\ faults' \in 0 .. MaxFaults
  BY BoundsAssumption DEF AccountsInv, BoundsOK, Logout, InvalidatePair, Cleanup
<1>2. UNCHANGED <<user, call, leaked, uncut, minted>>
  BY DEF Logout, InvalidatePair, Cleanup
<1>3. sessions' \subseteq sessions /\ pairs' \subseteq pairs
  BY DEF Logout, InvalidatePair, Cleanup
<1>4. RowsOK' /\ \A v \in Users : Exists(v) => Exists(v)' /\ user'[v] = user[v]
  BY <1>2 DEF AccountsInv, RowsOK, Exists
<1> QED BY <1>1, <1>2, <1>3, <1>4, OutsideStep

(* An expired pair stays in the table, under its id.                         *)
LEMMA ExpirePair ==
  ASSUME AccountsInv, NEW y \in pairs, ~ y.expired,
         pairs' = (pairs \ {y}) \cup {[y EXCEPT !.expired = TRUE]},
         UNCHANGED <<user, sessions, call, leaked, uncut, minted>>
  PROVE  CredentialsOK' /\ RevocationsOK' /\ CapOK'
<1> DEFINE x == [y EXCEPT !.expired = TRUE]
<1>1. y \in Credential
  BY DEF AccountsInv, CredentialsOK
<1>2. /\ x \in Credential /\ x.id = y.id /\ x.user = y.user /\ x.pw = y.pw
      /\ x.rank = y.rank /\ x.late = y.late
  BY <1>1 DEF Credential
<1> HIDE DEF x
<1>3. pairs' = (pairs \ {y}) \cup {x}
  BY DEF x
<1>4. \A u : /\ SessionsEnd(u) => SessionsEnd(u)'
             /\ PairsEnd(u) => PairsEnd(u)'
             /\ Evicting(u) => Evicting(u)'
  BY DEF SessionsEnd, PairsEnd, Evicting, EndsSessions, EndsPairs
<1>5. CredentialsOK'
  BY <1>2, <1>3 DEF AccountsInv, CredentialsOK, Exists
<1>6. RevocationsOK'
  BY <1>2, <1>3, <1>4 DEF AccountsInv, RevocationsOK
<1>7. IsFiniteSet(pairs')
  BY <1>3, Swap DEF AccountsInv, CapOK
<1>8. \A z, w \in pairs' : z.id = w.id => z = w
  BY <1>2, <1>3 DEF AccountsInv, CapOK
<1>9. ASSUME NEW u \in Users PROVE Cardinality(PairsOf(u)') <= MaxPerUser \/ Evicting(u)'
  <2>1. PairsOf(u) \subseteq pairs
    BY DEF PairsOf
  <2>2. IsFiniteSet(PairsOf(u))
    BY <2>1, FS_Subset DEF AccountsInv, CapOK
  <2>3. CASE u # y.user
    <3>1. PairsOf(u)' = PairsOf(u)
      BY <1>2, <1>3, <2>3 DEF PairsOf
    <3> QED BY <1>4, <3>1 DEF AccountsInv, CapOK
  <2>4. CASE u = y.user
    <3>1. PairsOf(u)' = (PairsOf(u) \ {y}) \cup {x} /\ y \in PairsOf(u)
      BY <1>2, <1>3, <2>4 DEF PairsOf
    <3>2. /\ Cardinality(PairsOf(u)') \in Nat
          /\ Cardinality(PairsOf(u)') <= Cardinality(PairsOf(u))
      BY <2>2, <3>1, Swap
    <3> QED BY <1>4, <2>2, <3>2, FS_CardinalityType, CapAssumption DEF AccountsInv, CapOK
  <2> QED BY <2>3, <2>4
<1> QED BY <1>5, <1>6, <1>7, <1>8, <1>9 DEF CapOK

LEMMA ExpireStep ==
  ASSUME AccountsInv, Expire
  PROVE  AccountsInv'
<1>1. requests' \in 0 .. MaxRequests /\ faults' \in 0 .. MaxFaults
  BY BoundsAssumption DEF AccountsInv, BoundsOK, Expire
<1>2. UNCHANGED <<user, call, leaked, uncut, minted>>
  BY DEF Expire
<1>3. RowsOK' /\ \A v \in Users : Exists(v) => Exists(v)' /\ user'[v] = user[v]
  BY <1>2 DEF AccountsInv, RowsOK, Exists
<1>4. CASE \E s \in sessions : sessions' = sessions \ {s} /\ pairs' = pairs
  BY <1>1, <1>2, <1>3, <1>4, OutsideStep
<1>5. CASE \E y \in pairs : /\ ~ y.expired /\ sessions' = sessions
                            /\ pairs' = (pairs \ {y}) \cup {[y EXCEPT !.expired = TRUE]}
  <2>1. CredentialsOK' /\ RevocationsOK' /\ CapOK'
    BY <1>2, <1>5, ExpirePair
  <2>2. CallsOK' /\ BoundsOK'
    BY <1>1, <1>2 DEF AccountsInv, BoundsOK, CallsOK, Spares
  <2> QED BY <1>3, <2>1, <2>2 DEF AccountsInv
<1> QED BY <1>4, <1>5 DEF Expire

-----------------------------------------------------------------------------
(* Statements that end no credential of others and add none.                 *)
LEMMA QuietStatement ==
  ASSUME AccountsInv, NEW c \in Calls, call[c].todo \in Todos,
         Head(call[c].todo) \notin {"revoke_all", "invalidate_all", "evict"},
         CallsOK', \A d \in Calls \ {c} : call'[d] = call[d],
         UNCHANGED <<leaked, uncut, minted, requests, faults>>,
         sessions' \subseteq sessions, pairs' \subseteq pairs, RowsOK',
         \A r \in sessions' \cup pairs' :
           /\ Exists(r.user)'
           /\ user'[r.user].pw = user[r.user].pw /\ user'[r.user].rank = user[r.user].rank
  PROVE  AccountsInv'
<1>1. \A u : /\ SessionsEnd(u) => SessionsEnd(u)'
             /\ PairsEnd(u) => PairsEnd(u)'
             /\ Evicting(u) => Evicting(u)'
  BY OthersLast
<1>2. CredentialsOK' /\ RevocationsOK' /\ CapOK'
  BY <1>1, QuietStep DEF AccountsInv
<1>3. BoundsOK'
  BY DEF AccountsInv, BoundsOK
<1> QED BY <1>2, <1>3 DEF AccountsInv

LEMMA SameRows ==
  ASSUME RowsOK, CredentialsOK, user' = user
  PROVE  RowsOK' /\ \A r \in sessions \cup pairs :
           /\ r.user \in Users /\ Exists(r.user)'
           /\ user'[r.user].pw = user[r.user].pw /\ user'[r.user].rank = user[r.user].rank
BY DEF RowsOK, CredentialsOK, Credential, Exists

LEMMA DeleteOneStep ==
  ASSUME AccountsInv, NEW c \in Calls, RevokeOne(c) \/ DeletePair(c)
  PROVE  AccountsInv'
<1>1. PICK step \in {"revoke_one", "delete_pair"} : At(c, step)
  BY DEF RevokeOne, DeletePair
<1>2. call[c].todo \in Todos /\ Head(call[c].todo) = step
  BY <1>1, AtStep DEF AccountsInv
<1>3. CallsOK' /\ \A d \in Calls \ {c} : call'[d] = call[d]
  BY <1>1, GoStep DEF AccountsInv, RevokeOne, DeletePair
<1>4. /\ UNCHANGED <<user, leaked, uncut, minted, requests, faults>>
      /\ sessions' \subseteq sessions /\ pairs' \subseteq pairs
  BY DEF RevokeOne, DeletePair
<1> QED BY <1>2, <1>3, <1>4, SameRows, QuietStatement DEF AccountsInv

LEMMA CheckStep ==
  ASSUME AccountsInv, NEW c \in Calls, CheckOwner(c) \/ LoadUser(c)
  PROVE  AccountsInv'
<1>1. PICK step \in {"check_owner", "load_user"} : At(c, step)
  BY DEF CheckOwner, LoadUser
<1>2. call[c].todo \in Todos /\ Head(call[c].todo) = step
  BY <1>1, AtStep DEF AccountsInv
<1>3. CallsOK' /\ \A d \in Calls \ {c} : call'[d] = call[d]
  BY <1>1, GoStep, FinishStep DEF AccountsInv, CheckOwner, LoadUser
<1>4. UNCHANGED <<user, sessions, pairs, leaked, uncut, minted, requests, faults>>
  BY DEF CheckOwner, LoadUser
<1> QED BY <1>2, <1>3, <1>4, SameRows, QuietStatement DEF AccountsInv

(* The guard leaves the call with what it saw.                               *)
LEMMA GuardMoves ==
  ASSUME CallsOK, NEW c \in Calls, NEW t \in Todos, NEW U \in SUBSET Users,
         t \in Writes => (call[c].user \in U => Cardinality(U) > 1),
         call' = [call EXCEPT ![c].seen = U, ![c].todo = t]
  PROVE  CallsOK' /\ \A d \in Calls \ {c} : call'[d] = call[d]
<1> DEFINE q == [call[c] EXCEPT !.seen = U, !.todo = t]
<1>1. call[c] \in Call
  BY DEF CallsOK
<1>2. call' = [call EXCEPT ![c] = q]
  BY DEF CallsOK
<1>3. q \in Call /\ q.todo = t /\ q.user = call[c].user /\ q.seen = U
  BY <1>1 DEF Call
<1> HIDE DEF q
<1>4. q.todo \in Writes => Spares(q)
  BY <1>3 DEF Spares
<1> QED BY <1>2, <1>3, <1>4, CallSet

LEMMA GuardExistsStep ==
  ASSUME AccountsInv, NEW c \in Calls, GuardExists(c)
  PROVE  AccountsInv'
<1>1. call[c].todo \in Todos /\ Head(call[c].todo) = "guard_exists"
  BY AtStep DEF AccountsInv, GuardExists
<1>2. UsableAdmins \in SUBSET Users
  BY DEF UsableAdmins
<1>3. PICK t : t = IF call[c].user \in UsableAdmins THEN Tail(call[c].todo)
                   ELSE Tail(Tail(call[c].todo))
  OBVIOUS
<1>4. t \in Todos /\ (t \in Writes => call[c].user \notin UsableAdmins)
  <2>1. /\ Tail(call[c].todo) \in Todos \ Writes
        /\ Tail(Tail(call[c].todo)) \in Writes
    BY <1>1, GuardRest
  <2>2. Writes \subseteq Todos
    BY DEF Writes, Todos, Guarded
  <2> QED BY <1>3, <2>1, <2>2
<1>5. call' = [call EXCEPT ![c].seen = UsableAdmins, ![c].todo = t]
  BY <1>3 DEF GuardExists
<1>6. CallsOK' /\ \A d \in Calls \ {c} : call'[d] = call[d]
  BY <1>2, <1>4, <1>5, GuardMoves DEF AccountsInv
<1>7. UNCHANGED <<user, sessions, pairs, leaked, uncut, minted, requests, faults>>
  BY DEF GuardExists
<1> QED BY <1>1, <1>6, <1>7, SameRows, QuietStatement DEF AccountsInv

LEMMA GuardCountStep ==
  ASSUME AccountsInv, NEW c \in Calls, GuardCount(c)
  PROVE  AccountsInv'
<1>1. call[c].todo \in Todos /\ Head(call[c].todo) = "guard_count"
  BY AtStep DEF AccountsInv, GuardCount
<1>2. UsableAdmins \in SUBSET Users /\ Cardinality(UsableAdmins) \in Nat
  BY UsersAssumption, FS_Subset, FS_CardinalityType DEF UsableAdmins
<1>3. CallsOK' /\ \A d \in Calls \ {c} : call'[d] = call[d]
  <2>1. CASE LastAdmin(Cardinality(UsableAdmins))
    BY <2>1, FinishStep DEF AccountsInv, GuardCount
  <2>2. CASE ~ LastAdmin(Cardinality(UsableAdmins))
    <3> PICK t : t = Tail(call[c].todo)
      OBVIOUS
    <3>1. t \in Todos
      <4>1. t \in Writes
        BY <1>1, GuardRest
      <4> QED BY <4>1 DEF Writes, Todos, Guarded
    <3>2. Cardinality(UsableAdmins) > 1
      BY <1>2, <2>2 DEF LastAdmin
    <3>3. call' = [call EXCEPT ![c].seen = UsableAdmins, ![c].todo = t]
      BY <2>2 DEF GuardCount
    <3> QED BY <1>2, <3>1, <3>2, <3>3, GuardMoves DEF AccountsInv
  <2> QED BY <2>1, <2>2
<1>4. UNCHANGED <<user, sessions, pairs, leaked, uncut, minted, requests, faults>>
  BY DEF GuardCount
<1> QED BY <1>1, <1>3, <1>4, SameRows, QuietStatement DEF AccountsInv

LEMMA UpdatedRow ==
  ASSUME NEW row \in UserRow,
         NEW step \in {"promote", "confirm", "unconfirm", "block", "unblock"}
  PROVE  /\ Updated(step, row) \in UserRow /\ Updated(step, row).life = row.life
         /\ Updated(step, row).pw = row.pw /\ Updated(step, row).rank = row.rank
<1>1. CASE step = "promote"
  BY <1>1 DEF Updated, UserRow
<1>2. CASE step = "confirm"
  BY <1>2 DEF Updated, UserRow
<1>3. CASE step = "unconfirm"
  BY <1>3 DEF Updated, UserRow
<1>4. CASE step = "block"
  BY <1>4 DEF Updated, UserRow
<1>5. CASE step = "unblock"
  BY <1>5 DEF Updated, UserRow
<1> QED BY <1>1, <1>2, <1>3, <1>4, <1>5

LEMMA UpdateUserStep ==
  ASSUME AccountsInv, NEW c \in Calls, UpdateUser(c)
  PROVE  AccountsInv'
<1> PICK step, u : step = Head(call[c].todo) /\ u = call[c].user
  OBVIOUS
<1>1. /\ call[c].todo \in Todos /\ u \in Users
      /\ step \in {"promote", "confirm", "unconfirm", "block", "unblock"}
  BY DEF AccountsInv, CallsOK, Call, UpdateUser
<1>2. CallsOK' /\ \A d \in Calls \ {c} : call'[d] = call[d]
  BY FinishStep DEF AccountsInv, UpdateUser
<1>3. user' = IF Exists(u) THEN [user EXCEPT ![u] = Updated(step, user[u])] ELSE user
  BY DEF UpdateUser
<1>4. user[u] \in UserRow
  BY <1>1 DEF AccountsInv, RowsOK
<1>5. PICK row \in UserRow : /\ row = Updated(step, user[u]) /\ row.life = user[u].life
                             /\ row.pw = user[u].pw /\ row.rank = user[u].rank
  BY <1>1, <1>4, UpdatedRow
<1>6. /\ RowsOK'
      /\ \A v \in Users : /\ user'[v].life = user[v].life /\ user'[v].pw = user[v].pw
                           /\ user'[v].rank = user[v].rank
  BY <1>1, <1>3, <1>5 DEF AccountsInv, RowsOK
<1>7. \A r \in sessions \cup pairs :
           /\ Exists(r.user)'
           /\ user'[r.user].pw = user[r.user].pw /\ user'[r.user].rank = user[r.user].rank
  BY <1>6 DEF AccountsInv, CredentialsOK, Credential, Exists
<1>8. UNCHANGED <<sessions, pairs, leaked, uncut, minted, requests, faults>>
  BY DEF UpdateUser
<1> QED BY <1>1, <1>2, <1>6, <1>7, <1>8, QuietStatement

LEMMA DeleteUserStep ==
  ASSUME AccountsInv, NEW c \in Calls, DeleteUser(c)
  PROVE  AccountsInv'
<1> PICK u : u = call[c].user
  OBVIOUS
<1>1. call[c].todo \in Todos /\ Head(call[c].todo) = "delete" /\ u \in Users
  BY AtStep DEF AccountsInv, DeleteUser
<1>2. CallsOK' /\ \A d \in Calls \ {c} : call'[d] = call[d]
  BY FinishStep DEF AccountsInv, DeleteUser
<1>3. /\ user' = [user EXCEPT ![u].life = "deleted"]
      /\ sessions' = {r \in sessions : r.user # u} /\ pairs' = {r \in pairs : r.user # u}
  BY DEF DeleteUser, Cascaded
<1>4. RowsOK' /\ \A v \in Users : v # u => user'[v] = user[v]
  BY <1>1, <1>3 DEF AccountsInv, RowsOK, UserRow
<1>5. \A r \in sessions' \cup pairs' :
           /\ Exists(r.user)'
           /\ user'[r.user].pw = user[r.user].pw /\ user'[r.user].rank = user[r.user].rank
  BY <1>3, <1>4 DEF AccountsInv, CredentialsOK, Credential, Exists
<1>6. UNCHANGED <<leaked, uncut, minted, requests, faults>>
  BY DEF DeleteUser
<1> QED BY <1>1, <1>2, <1>3, <1>4, <1>5, <1>6, QuietStatement

-----------------------------------------------------------------------------
(* Statements that add a credential.                                         *)
LEMMA MintedCredential ==
  ASSUME AccountsInv, NEW c \in Calls, Exists(call[c].user)
  PROVE  /\ Minted(c) \in Credential /\ Minted(c).id = minted + 1
         /\ Minted(c).user = call[c].user /\ call[c].user \in Users
         /\ (\/ Minted(c).pw < user[call[c].user].pw
             \/ Minted(c).rank < user[call[c].user].rank) => Minted(c).late
<1> PICK k : k = call[c]
  OBVIOUS
<1>1. k \in Call /\ k.user \in Users /\ k.pw \in Nat /\ k.rank \in Nat
  BY DEF AccountsInv, CallsOK, Call
<1>2. user[k.user].pw \in Nat /\ user[k.user].rank \in Nat /\ minted \in Nat
  BY <1>1 DEF AccountsInv, RowsOK, UserRow, CredentialsOK
<1> DEFINE late == user[k.user].pw > k.pw \/ user[k.user].rank > k.rank
<1>3. late \in BOOLEAN
  OBVIOUS
<1>4. Minted(c) = [id |-> minted + 1, user |-> k.user, pw |-> k.pw, rank |-> k.rank,
                   late |-> late, expired |-> FALSE]
  BY DEF Minted
<1>5. k.pw < user[k.user].pw \/ k.rank < user[k.user].rank => late
  BY <1>1, <1>2
<1> HIDE DEF late
<1> QED BY <1>1, <1>2, <1>3, <1>4, <1>5 DEF Credential

LEMMA IssueSessionStep ==
  ASSUME AccountsInv, NEW c \in Calls, IssueSession(c)
  PROVE  AccountsInv'
<1>1. At(c, "issue_session") /\ call[c].todo \in Todos /\ Head(call[c].todo) = "issue_session"
  BY AtStep DEF AccountsInv, IssueSession
<1>2. UNCHANGED <<user, pairs, leaked, uncut, requests, faults>>
  BY DEF IssueSession
<1>3. CallsOK' /\ \A d \in Calls \ {c} : call'[d] = call[d]
  BY <1>1, GoStep, FinishStep DEF AccountsInv, IssueSession
<1>4. CASE ~ Exists(call[c].user)
  <2>1. UNCHANGED <<sessions, minted>>
    BY <1>4 DEF IssueSession
  <2> QED BY <1>1, <1>2, <1>3, <2>1, SameRows, QuietStatement DEF AccountsInv
<1>5. CASE Exists(call[c].user)
  <2> PICK m : m = Minted(c)
    OBVIOUS
  <2>1. sessions' = sessions \cup {m} /\ minted' = minted + 1
    BY <1>5 DEF IssueSession
  <2>2. /\ m \in Credential /\ m.id = minted + 1 /\ m.user \in Users /\ Exists(m.user)
        /\ m.pw < user[m.user].pw \/ m.rank < user[m.user].rank => m.late
    BY <1>5, MintedCredential
  <2>3. \A u : /\ SessionsEnd(u) => SessionsEnd(u)'
               /\ PairsEnd(u) => PairsEnd(u)'
               /\ Evicting(u) => Evicting(u)'
    BY <1>1, <1>2, <1>3, OthersLast
  <2>4. CredentialsOK'
    BY <1>2, <2>1, <2>2 DEF AccountsInv, CredentialsOK, Credential, Exists
  <2>5. RevocationsOK'
    BY <1>2, <2>1, <2>2, <2>3 DEF AccountsInv, RevocationsOK
  <2>6. CapOK'
    BY <1>2, <2>3 DEF AccountsInv, CapOK, PairsOf
  <2>7. RowsOK' /\ BoundsOK'
    BY <1>2 DEF AccountsInv, RowsOK, BoundsOK
  <2> QED BY <1>3, <2>4, <2>5, <2>6, <2>7 DEF AccountsInv
<1> QED BY <1>4, <1>5

LEMMA InsertPairStep ==
  ASSUME AccountsInv, NEW c \in Calls, InsertPair(c)
  PROVE  AccountsInv'
<1>1. At(c, "insert_pair") /\ call[c].todo \in Todos /\ Head(call[c].todo) = "insert_pair"
  BY AtStep DEF AccountsInv, InsertPair
<1>2. UNCHANGED <<user, sessions, leaked, uncut, requests, faults>>
  BY DEF InsertPair
<1>3. CallsOK' /\ \A d \in Calls \ {c} : call'[d] = call[d]
  BY <1>1, GoStep, FinishStep DEF AccountsInv, InsertPair
<1>4. CASE ~ Exists(call[c].user)
  <2>1. UNCHANGED <<pairs, minted>>
    BY <1>4 DEF InsertPair
  <2> QED BY <1>1, <1>2, <1>3, <2>1, SameRows, QuietStatement DEF AccountsInv
<1>5. CASE Exists(call[c].user)
  <2> PICK m : m = Minted(c)
    OBVIOUS
  <2>1. pairs' = pairs \cup {m} /\ minted' = minted + 1 /\ Go(c)
    BY <1>5 DEF InsertPair
  <2>2. /\ m \in Credential /\ m.id = minted + 1 /\ m.user \in Users /\ Exists(m.user)
        /\ m.user = call[c].user
        /\ m.pw < user[m.user].pw \/ m.rank < user[m.user].rank => m.late
    BY <1>5, MintedCredential
  <2>3. \A u : /\ SessionsEnd(u) => SessionsEnd(u)'
               /\ PairsEnd(u) => PairsEnd(u)'
               /\ Evicting(u) => Evicting(u)'
    BY <1>1, <1>2, <1>3, OthersLast
  <2>4. CredentialsOK'
    BY <1>2, <2>1, <2>2 DEF AccountsInv, CredentialsOK, Credential, Exists
  <2>5. RevocationsOK'
    BY <1>2, <2>1, <2>2, <2>3 DEF AccountsInv, RevocationsOK
  <2>6. Evicting(m.user)'
    <3>1. call[c].todo = <<"insert_pair", "evict">>
      BY <1>1, TodoHeads
    <3>2. Len(call[c].todo) # 1 /\ Tail(call[c].todo) = <<"evict">>
      BY <3>1
    <3>3. call'[c].todo = <<"evict">> /\ call'[c].user = m.user
      BY <1>1, <2>1, <2>2, <3>2, GoStep DEF AccountsInv
    <3> QED BY <3>3 DEF Evicting
  <2>7. \A u \in Users : u # m.user => PairsOf(u)' = PairsOf(u)
    BY <2>1 DEF PairsOf
  <2>8. IsFiniteSet(pairs')
    BY <2>1, FS_AddElement DEF AccountsInv, CapOK
  <2>9. \A y, z \in pairs' : y.id = z.id => y = z
    <3>1. \A y \in pairs : y.id \in Nat /\ y.id <= minted /\ minted \in Nat
      BY DEF AccountsInv, CredentialsOK, Credential
    <3> QED BY <2>1, <2>2, <3>1 DEF AccountsInv, CapOK
  <2>10. CapOK'
    BY <2>3, <2>6, <2>7, <2>8, <2>9 DEF AccountsInv, CapOK
  <2>11. RowsOK' /\ BoundsOK'
    BY <1>2 DEF AccountsInv, RowsOK, BoundsOK
  <2> QED BY <1>3, <2>4, <2>5, <2>10, <2>11 DEF AccountsInv
<1> QED BY <1>4, <1>5

-----------------------------------------------------------------------------
(* Statements that end credentials.                                          *)
LEMMA EvictStep ==
  ASSUME AccountsInv, NEW c \in Calls, Evict(c)
  PROVE  AccountsInv'
<1> PICK u : u = call[c].user
  OBVIOUS
<1>1. At(c, "evict") /\ call[c].todo = <<"evict">> /\ u \in Users
  BY AtStep, TodoHeads DEF AccountsInv, Evict
<1>2. UNCHANGED <<user, sessions, uncut, minted, requests, faults>> /\ leaked' = leaked \ {u}
  BY DEF Evict
<1>3. CallsOK' /\ \A d \in Calls \ {c} : call'[d] = call[d]
  BY <1>1, GoStep DEF AccountsInv, Evict
<1>4. pairs' = (pairs \ PairsOf(u)) \cup Kept(PairsOf(u))
  BY DEF Evict
<1>5. /\ IsFiniteSet(PairsOf(u)) /\ PairsOf(u) \subseteq pairs
      /\ \A y \in PairsOf(u) : y.id \in Nat
      /\ \A y, z \in PairsOf(u) : y.id = z.id => y = z
  BY FS_Subset DEF AccountsInv, CapOK, CredentialsOK, Credential, PairsOf
<1>6. Kept(PairsOf(u)) \subseteq PairsOf(u) /\ Cardinality(Kept(PairsOf(u))) <= MaxPerUser
  BY <1>5, KeptBounded
<1>7. pairs' \subseteq pairs /\ PairsOf(u)' = Kept(PairsOf(u))
  BY <1>4, <1>5, <1>6 DEF PairsOf
<1>8. \A v : SessionsEnd(v) => SessionsEnd(v)'
  <2>1. ~ EndsSessions(call[c])
    BY <1>1 DEF EndsSessions
  <2> QED BY <1>2, <1>3, <2>1 DEF SessionsEnd, EndsSessions
<1>9. \A v : PairsEnd(v) => PairsEnd(v)'
  <2>1. ~ EndsPairs(call[c])
    BY <1>1 DEF EndsPairs
  <2> QED BY <1>2, <1>3, <2>1 DEF PairsEnd, EndsPairs
<1>10. \A v : v # u /\ Evicting(v) => Evicting(v)'
  BY <1>2, <1>3 DEF Evicting
<1>11. CredentialsOK' /\ RevocationsOK' /\ CapOK'
  <2>1. /\ RowsOK'
        /\ \A r \in sessions' \cup pairs' :
             /\ Exists(r.user)'
             /\ user'[r.user].pw = user[r.user].pw /\ user'[r.user].rank = user[r.user].rank
    BY <1>2, <1>7, SameRows DEF AccountsInv
  <2>2. \A v \in Users : Evicting(v) => Evicting(v)' \/ Cardinality(PairsOf(v)') <= MaxPerUser
    BY <1>6, <1>7, <1>10
  <2> QED BY <1>2, <1>7, <1>8, <1>9, <2>1, <2>2, QuietStep DEF AccountsInv
<1>12. RowsOK' /\ BoundsOK'
  BY <1>2 DEF AccountsInv, RowsOK, BoundsOK
<1> QED BY <1>3, <1>11, <1>12 DEF AccountsInv

LEMMA RevokeAllStep ==
  ASSUME AccountsInv, NEW c \in Calls, RevokeAll(c)
  PROVE  AccountsInv'
<1> PICK u : u = call[c].user
  OBVIOUS
<1>1. /\ At(c, "revoke_all") /\ u \in Users
      /\ call[c].todo \in {<<"revoke_all">>, <<"revoke_all", "invalidate_all">>}
  BY AtStep, TodoHeads DEF AccountsInv, RevokeAll
<1>2. UNCHANGED <<user, pairs, leaked, uncut, minted, requests, faults>>
  BY DEF RevokeAll
<1>3. /\ CallsOK' /\ \A d \in Calls \ {c} : call'[d] = call[d]
      /\ Len(call[c].todo) # 1 =>
              /\ call'[c].todo = Tail(call[c].todo) /\ call'[c].user = call[c].user
              /\ call'[c].cut = call[c].cut
  BY <1>1, GoStep DEF AccountsInv, RevokeAll
<1>4. sessions' = {s \in sessions : s.user # u}
  BY DEF RevokeAll
<1>5. \A v : v # u /\ SessionsEnd(v) => SessionsEnd(v)'
  BY <1>2, <1>3 DEF SessionsEnd, EndsSessions
<1>6. EndsPairs(call[c]) => EndsPairs(call'[c]) /\ call'[c].user = u
  <2>1. ASSUME call[c].todo = <<"revoke_all", "invalidate_all">>
        PROVE  Len(call[c].todo) # 1 /\ Tail(call[c].todo) = <<"invalidate_all">>
    BY <2>1
  <2>2. call[c].todo = <<"revoke_all">> => ~ EndsPairs(call[c])
    BY DEF EndsPairs
  <2> QED BY <1>1, <1>3, <2>1, <2>2 DEF EndsPairs
<1>7. \A v : PairsEnd(v) => PairsEnd(v)'
  <2>1. \A d \in Calls : EndsPairs(call[d]) => EndsPairs(call'[d]) /\ call'[d].user = call[d].user
    BY <1>3, <1>6
  <2> QED BY <1>2, <2>1 DEF PairsEnd, EndsPairs
<1>8. \A v : Evicting(v) => Evicting(v)'
  <2>1. call[c].todo # <<"evict">>
    BY <1>1
  <2> QED BY <1>2, <1>3, <2>1 DEF Evicting
<1>9. CredentialsOK' /\ RevocationsOK' /\ CapOK'
  <2>1. \A r \in sessions' \cup pairs' :
             /\ Exists(r.user)'
             /\ user'[r.user].pw = user[r.user].pw /\ user'[r.user].rank = user[r.user].rank
    BY <1>2, <1>4, SameRows DEF AccountsInv
  <2> QED BY <1>2, <1>4, <1>5, <1>7, <1>8, <2>1, QuietStep DEF AccountsInv
<1>10. RowsOK' /\ BoundsOK'
  BY <1>2 DEF AccountsInv, RowsOK, BoundsOK
<1> QED BY <1>3, <1>9, <1>10 DEF AccountsInv

LEMMA InvalidateAllStep ==
  ASSUME AccountsInv, NEW c \in Calls, InvalidateAll(c)
  PROVE  AccountsInv'
<1> PICK u : u = call[c].user
  OBVIOUS
<1>1. At(c, "invalidate_all") /\ u \in Users /\ call[c].todo = <<"invalidate_all">>
  BY AtStep, TodoHeads DEF AccountsInv, InvalidateAll
<1>2. UNCHANGED <<user, sessions, uncut, minted, requests, faults>> /\ leaked' = leaked \ {u}
  BY DEF InvalidateAll
<1>3. CallsOK' /\ \A d \in Calls \ {c} : call'[d] = call[d]
  BY <1>1, GoStep DEF AccountsInv, InvalidateAll
<1>4. pairs' = pairs \ PairsOf(u)
  BY DEF InvalidateAll
<1>5. PairsOf(u)' = {} /\ \A y \in pairs' : y.user # u
  BY <1>4 DEF PairsOf
<1>6. \A v : SessionsEnd(v) => SessionsEnd(v)'
  <2>1. ~ EndsSessions(call[c])
    BY <1>1 DEF EndsSessions
  <2> QED BY <1>2, <1>3, <2>1 DEF SessionsEnd, EndsSessions
<1>7. \A v : v # u /\ PairsEnd(v) => PairsEnd(v)'
  BY <1>2, <1>3 DEF PairsEnd, EndsPairs
<1>8. \A v : v # u /\ Evicting(v) => Evicting(v)'
  BY <1>2, <1>3 DEF Evicting
<1>9. CredentialsOK' /\ RevocationsOK' /\ CapOK'
  <2>1. \A r \in sessions' \cup pairs' :
             /\ Exists(r.user)'
             /\ user'[r.user].pw = user[r.user].pw /\ user'[r.user].rank = user[r.user].rank
    BY <1>2, <1>4, SameRows DEF AccountsInv
  <2>2. Cardinality(PairsOf(u)') <= MaxPerUser
    BY <1>5, FS_EmptySet, CapAssumption
  <2>3. \A v \in Users : Evicting(v) => Evicting(v)' \/ Cardinality(PairsOf(v)') <= MaxPerUser
    BY <1>8, <2>2
  <2> QED BY <1>2, <1>4, <1>5, <1>6, <1>7, <2>1, <2>3, QuietStep DEF AccountsInv
<1>10. RowsOK' /\ BoundsOK'
  BY <1>2 DEF AccountsInv, RowsOK, BoundsOK
<1> QED BY <1>3, <1>9, <1>10 DEF AccountsInv

-----------------------------------------------------------------------------
(* Statements that make credentials obsolete: the call that runs one has the *)
(* revocations as its next statements.                                       *)
LEMMA CutMoves ==
  ASSUME CallsOK, NEW c \in Calls, call[c].todo \in Todos, Len(call[c].todo) # 1,
         Head(call[c].todo) # "guard_count",
         call' = [call EXCEPT ![c].todo = Tail(@), ![c].cut = TRUE]
  PROVE  /\ CallsOK' /\ \A d \in Calls \ {c} : call'[d] = call[d]
         /\ call'[c].todo = Tail(call[c].todo) /\ call'[c].user = call[c].user
         /\ call'[c].cut = TRUE
<1> PICK t : t = Tail(call[c].todo)
  OBVIOUS
<1>1. t \in Todos /\ t \notin Writes
  BY TodoRest
<1> DEFINE q == [call[c] EXCEPT !.todo = t, !.cut = TRUE]
<1>2. call[c] \in Call
  BY DEF CallsOK
<1>3. call' = [call EXCEPT ![c] = q]
  BY DEF CallsOK
<1>4. q \in Call /\ q.todo = t /\ q.user = call[c].user /\ q.cut = TRUE
  BY <1>1, <1>2 DEF Call
<1> HIDE DEF q
<1>5. CallsOK' /\ call'[c] = q /\ \A d \in Calls \ {c} : call'[d] = call[d]
  BY <1>1, <1>3, <1>4, CallSet
<1> QED BY <1>4, <1>5

LEMMA CutStep ==
  ASSUME AccountsInv, NEW c \in Calls, NEW step \in {"demote", "set_password"}, At(c, step),
         NEW row \in UserRow, row.life = user[call[c].user].life,
         step = "demote" => row.pw = user[call[c].user].pw,
         Cut(c, row),
         UNCHANGED <<sessions, pairs, leaked, uncut, minted, requests, faults>>
  PROVE  AccountsInv'
<1> PICK u : u = call[c].user
  OBVIOUS
<1>1. /\ call[c].todo \in Todos /\ Head(call[c].todo) = step /\ u \in Users
      /\ \/ step = "demote" /\ call[c].todo = <<"demote", "revoke_all">>
         \/ step = "set_password" /\ call[c].todo = <<"set_password", "revoke_all", "invalidate_all">>
  BY AtStep, TodoHeads DEF AccountsInv
<1>2. CASE ~ Exists(u)
  <2>1. UNCHANGED user /\ CallsOK' /\ \A d \in Calls \ {c} : call'[d] = call[d]
    BY <1>2, FinishStep DEF Cut, AccountsInv
  <2> QED BY <1>1, <2>1, SameRows, QuietStatement DEF AccountsInv
<1>3. CASE Exists(u)
  <2>1. /\ step = "demote" => Len(call[c].todo) # 1 /\ Tail(call[c].todo) = <<"revoke_all">>
        /\ step = "set_password" =>
             Len(call[c].todo) # 1 /\ Tail(call[c].todo) = <<"revoke_all", "invalidate_all">>
    <3>1. ASSUME call[c].todo = <<"demote", "revoke_all">>
          PROVE  Len(call[c].todo) # 1 /\ Tail(call[c].todo) = <<"revoke_all">>
      BY <3>1
    <3>2. ASSUME call[c].todo = <<"set_password", "revoke_all", "invalidate_all">>
          PROVE  Len(call[c].todo) # 1 /\ Tail(call[c].todo) = <<"revoke_all", "invalidate_all">>
      BY <3>2
    <3> QED BY <1>1, <3>1, <3>2
  <2>2. /\ user' = [user EXCEPT ![u] = row]
        /\ call' = [call EXCEPT ![c].todo = Tail(@), ![c].cut = TRUE]
    BY <1>3, <2>1 DEF Cut
  <2>3. /\ CallsOK' /\ \A d \in Calls \ {c} : call'[d] = call[d]
        /\ call'[c].todo = Tail(call[c].todo) /\ call'[c].user = u /\ call'[c].cut = TRUE
    BY <1>1, <2>1, <2>2, CutMoves DEF AccountsInv
  <2>4. \A v : /\ SessionsEnd(v) => SessionsEnd(v)'
               /\ PairsEnd(v) => PairsEnd(v)'
               /\ Evicting(v) => Evicting(v)'
    BY <1>1, <2>3, OthersLast
  <2>5. SessionsEnd(u)' /\ (step = "set_password" => PairsEnd(u)')
    BY <2>1, <2>3 DEF SessionsEnd, PairsEnd, EndsSessions, EndsPairs
  <2>6. RowsOK' /\ user'[u] = row /\ \A v \in Users : v # u => user'[v] = user[v]
    BY <1>1, <2>2 DEF AccountsInv, RowsOK
  <2>7. \A r \in sessions \cup pairs : r.user \in Users /\ Exists(r.user)
    BY DEF AccountsInv, CredentialsOK, Credential
  <2>8. CredentialsOK'
    BY <2>6, <2>7 DEF AccountsInv, CredentialsOK, Exists
  <2>9. RevocationsOK'
    <3>1. \A s \in sessions' : s.pw < user'[s.user].pw \/ s.rank < user'[s.user].rank =>
                               s.late \/ SessionsEnd(s.user)'
      BY <2>4, <2>5, <2>6, <2>7 DEF AccountsInv, RevocationsOK
    <3>2. \A y \in pairs' : y.pw < user'[y.user].pw => y.late \/ PairsEnd(y.user)'
      BY <2>4, <2>5, <2>6, <2>7 DEF AccountsInv, RevocationsOK
    <3> QED BY <3>1, <3>2 DEF RevocationsOK
  <2>10. CapOK' /\ BoundsOK'
    BY <2>4 DEF AccountsInv, CapOK, BoundsOK, PairsOf
  <2> QED BY <2>3, <2>6, <2>8, <2>9, <2>10 DEF AccountsInv
<1> QED BY <1>2, <1>3

LEMMA DemoteStep ==
  ASSUME AccountsInv, NEW c \in Calls, Demote(c)
  PROVE  AccountsInv'
<1> PICK row : row = user[call[c].user]
  OBVIOUS
<1>1. At(c, "demote") /\ call[c].user \in Users
  BY AtStep DEF AccountsInv, Demote
<1>2. row \in UserRow
  BY <1>1 DEF AccountsInv, RowsOK
<1> DEFINE r == [row EXCEPT !.admin = FALSE, !.rank = @ + 1]
<1>3. r \in UserRow /\ r.life = row.life /\ r.pw = row.pw
  <2> DEFINE low == [row EXCEPT !.admin = FALSE]
  <2>1. /\ low \in UserRow /\ low.life = row.life /\ low.pw = row.pw
        /\ low.rank = row.rank /\ row.rank \in Nat
    BY <1>2 DEF UserRow
  <2>2. r = [low EXCEPT !.rank = row.rank + 1]
    OBVIOUS
  <2> HIDE DEF low, r
  <2> QED BY <2>1, <2>2 DEF UserRow
<1>4. Cut(c, r)
  BY DEF Demote
<1> HIDE DEF r
<1>5. UNCHANGED <<sessions, pairs, leaked, uncut, minted, requests, faults>>
  BY DEF Demote
<1> QED BY <1>1, <1>3, <1>4, <1>5, CutStep

LEMMA SetPasswordStep ==
  ASSUME AccountsInv, NEW c \in Calls, SetPassword(c)
  PROVE  AccountsInv'
<1> PICK row : row = user[call[c].user]
  OBVIOUS
<1>1. At(c, "set_password") /\ call[c].user \in Users
  BY AtStep DEF AccountsInv, SetPassword
<1>2. row \in UserRow
  BY <1>1 DEF AccountsInv, RowsOK
<1> DEFINE r == [row EXCEPT !.pw = @ + 1]
<1>3. r \in UserRow /\ r.life = row.life
  BY <1>2 DEF UserRow
<1>4. Cut(c, r)
  BY DEF SetPassword
<1> HIDE DEF r
<1>5. UNCHANGED <<sessions, pairs, leaked, uncut, minted, requests, faults>>
  BY DEF SetPassword
<1> QED BY <1>1, <1>3, <1>4, <1>5, CutStep

-----------------------------------------------------------------------------
(* Dropped requests and restarts: what they leave undone is on record.       *)
LEMMA AbandonStep ==
  ASSUME CallsOK, BoundsOK, NEW cs \in SUBSET Calls, Abandon(cs),
         \A d \in Calls \ cs : call'[d] = call[d]
  PROVE  /\ leaked' \subseteq Users /\ uncut' \subseteq Users
         /\ \A u : /\ SessionsEnd(u) => SessionsEnd(u)'
                   /\ PairsEnd(u) => PairsEnd(u)'
                   /\ Evicting(u) => Evicting(u)'
<1>1. \A d \in Calls : call[d].user \in Users
  BY DEF CallsOK, Call
<1>2. leaked' \subseteq Users /\ uncut' \subseteq Users
  BY <1>1 DEF Abandon, BoundsOK
<1>3. leaked \subseteq leaked' /\ uncut \subseteq uncut'
  BY DEF Abandon
<1>4. \A d \in cs : call[d].cut => call[d].user \in uncut'
  BY DEF Abandon
<1>5. \A d \in cs : call[d].todo = <<"evict">> => call[d].user \in leaked'
  BY DEF Abandon, At
<1>6. \A d \in Calls : EndsSessions(call[d]) =>
        call[d].user \in uncut' \/ (EndsSessions(call'[d]) /\ call'[d].user = call[d].user)
  BY <1>4 DEF EndsSessions
<1>7. \A d \in Calls : EndsPairs(call[d]) =>
        call[d].user \in uncut' \/ (EndsPairs(call'[d]) /\ call'[d].user = call[d].user)
  BY <1>4 DEF EndsPairs
<1>8. ASSUME NEW u PROVE SessionsEnd(u) => SessionsEnd(u)'
  BY <1>3, <1>6 DEF SessionsEnd, EndsSessions
<1>9. ASSUME NEW u PROVE PairsEnd(u) => PairsEnd(u)'
  BY <1>3, <1>7 DEF PairsEnd, EndsPairs
<1>10. ASSUME NEW u PROVE Evicting(u) => Evicting(u)'
  BY <1>3, <1>5 DEF Evicting
<1> QED BY <1>2, <1>8, <1>9, <1>10

LEMMA DropStep ==
  ASSUME AccountsInv, NEW c \in Calls, Drop(c)
  PROVE  AccountsInv'
<1>1. CallsOK' /\ \A d \in Calls \ {c} : call'[d] = call[d]
  BY FinishStep DEF AccountsInv, Drop
<1>2. UNCHANGED <<user, sessions, pairs, minted, requests>>
  BY DEF Drop
<1>3. /\ leaked' \subseteq Users /\ uncut' \subseteq Users
      /\ \A u : /\ SessionsEnd(u) => SessionsEnd(u)'
                /\ PairsEnd(u) => PairsEnd(u)'
                /\ Evicting(u) => Evicting(u)'
  <2>1. Abandon({c})
    BY DEF Drop
  <2> QED BY <1>1, <2>1, AbandonStep DEF AccountsInv
<1>4. BoundsOK'
  BY <1>2, <1>3, BoundsAssumption DEF AccountsInv, BoundsOK, Drop
<1>5. CredentialsOK' /\ RevocationsOK' /\ CapOK'
  BY <1>2, <1>3, SameRows, QuietStep DEF AccountsInv
<1>6. RowsOK'
  BY <1>2, SameRows DEF AccountsInv
<1> QED BY <1>1, <1>4, <1>5, <1>6 DEF AccountsInv

LEMMA BootstrapRows ==
  ASSUME RowsOK, user' \in {user, ensure_bootstrap_admin(user)}
  PROVE  /\ RowsOK'
         /\ \A u \in Users : Exists(u) =>
              /\ Exists(u)' /\ user'[u].pw = user[u].pw /\ user'[u].rank = user[u].rank
              /\ user'[u].blocked = user[u].blocked /\ (user[u].admin => user'[u].admin)
<1>1. CASE user' = user
  BY <1>1 DEF RowsOK, Exists
<1>2. CASE user' # user
  <2> PICK row : row = user[BootstrapUser]
    OBVIOUS
  <2> DEFINE next == IF row.life = "live" THEN [row EXCEPT !.admin = TRUE, !.confirmed = TRUE]
                     ELSE Row("live", TRUE)
  <2>1. row \in UserRow
    BY UsersAssumption DEF RowsOK
  <2>2. user' = [user EXCEPT ![BootstrapUser] = next]
    BY <1>2 DEF ensure_bootstrap_admin
  <2>3. /\ next \in UserRow /\ next.admin
        /\ row.life = "live" => /\ next.life = "live" /\ next.pw = row.pw
                                /\ next.rank = row.rank /\ next.blocked = row.blocked
    <3>1. CASE row.life = "live"
      BY <2>1, <3>1 DEF UserRow
    <3>2. CASE row.life # "live"
      BY <2>1, <3>2 DEF UserRow, Row
    <3> QED BY <3>1, <3>2
  <2> HIDE DEF next
  <2> QED BY <2>2, <2>3, UsersAssumption DEF RowsOK, Exists
<1> QED BY <1>1, <1>2

LEMMA RestartStep ==
  ASSUME AccountsInv, Restart
  PROVE  AccountsInv'
<1>1. CallsOK'
  BY IdleCall DEF Restart, CallsOK
<1>2. UNCHANGED <<sessions, pairs, minted, requests>>
  BY DEF Restart
<1>3. /\ leaked' \subseteq Users /\ uncut' \subseteq Users
      /\ \A u : /\ SessionsEnd(u) => SessionsEnd(u)'
                /\ PairsEnd(u) => PairsEnd(u)'
                /\ Evicting(u) => Evicting(u)'
  <2>1. Abandon(Calls)
    BY DEF Restart
  <2> QED BY <2>1, AbandonStep DEF AccountsInv
<1>4. BoundsOK'
  BY <1>2, <1>3, BoundsAssumption DEF AccountsInv, BoundsOK, Restart
<1>5. /\ RowsOK'
      /\ \A u \in Users : Exists(u) =>
           Exists(u)' /\ user'[u].pw = user[u].pw /\ user'[u].rank = user[u].rank
  BY BootstrapRows DEF AccountsInv, Restart
<1>6. \A r \in sessions \cup pairs : r.user \in Users /\ Exists(r.user)
  BY DEF AccountsInv, CredentialsOK, Credential
<1>7. CredentialsOK' /\ RevocationsOK' /\ CapOK'
  BY <1>2, <1>3, <1>5, <1>6, QuietStep DEF AccountsInv
<1> QED BY <1>1, <1>4, <1>5, <1>7 DEF AccountsInv

-----------------------------------------------------------------------------
LEMMA InitInv == Init => AccountsInv
<1> SUFFICES ASSUME Init PROVE AccountsInv
  OBVIOUS
<1> DEFINE old == {u \in Users : Exists(u)}
           n == CHOOSE f \in [old -> 1 .. Cardinality(old)] :
                  \A u, v \in old : u # v => f[u] # f[v]
<1>1. /\ sessions = {[id |-> n[u], user |-> u, pw |-> 0, rank |-> 0, late |-> FALSE,
                      expired |-> FALSE] : u \in old}
      /\ pairs = {} /\ minted = Cardinality(old)
  BY DEF Init
<1>2. old \subseteq Users /\ \A u \in old : Exists(u)
  OBVIOUS
<1> HIDE DEF old
<1>3. IsFiniteSet(old)
  BY <1>2, UsersAssumption, FS_Subset
<1>4. Cardinality(old) \in Nat /\ n \in [old -> 1 .. Cardinality(old)]
  BY <1>3, Numbering
<1> HIDE DEF n
<1>5. RowsOK /\ \A u \in Users : user[u].pw = 0 /\ user[u].rank = 0
  <2>1. \A l \in {"absent", "live"}, a \in BOOLEAN :
          Row(l, a) \in UserRow /\ Row(l, a).pw = 0 /\ Row(l, a).rank = 0
    BY DEF UserRow, Row
  <2>2. user \in [Users -> {Row("absent", FALSE), Row("live", FALSE), Row("live", TRUE)}]
    BY DEF Init
  <2> QED BY <2>1, <2>2 DEF RowsOK
<1>6. \A s \in sessions : /\ s \in Credential /\ s.user \in old /\ s.pw = 0 /\ s.rank = 0
                           /\ s.id <= minted
  <2> SUFFICES ASSUME NEW s \in sessions
               PROVE  /\ s \in Credential /\ s.user \in old /\ s.pw = 0 /\ s.rank = 0
                      /\ s.id <= minted
    OBVIOUS
  <2>1. PICK u \in old : s = [id |-> n[u], user |-> u, pw |-> 0, rank |-> 0, late |-> FALSE,
                              expired |-> FALSE]
    BY <1>1
  <2>2. n[u] \in Nat /\ n[u] <= minted
    BY <1>1, <1>4
  <2> QED BY <1>2, <2>1, <2>2 DEF Credential
<1>7. CredentialsOK
  BY <1>1, <1>2, <1>4, <1>6 DEF CredentialsOK
<1>8. CallsOK
  BY IdleCall DEF Init, CallsOK
<1>9. RevocationsOK
  BY <1>1, <1>2, <1>5, <1>6 DEF RevocationsOK
<1>10. CapOK
  <2>1. \A u \in Users : PairsOf(u) = {}
    BY <1>1 DEF PairsOf
  <2> QED BY <1>1, <2>1, FS_EmptySet, CapAssumption DEF CapOK
<1>11. BoundsOK
  BY BoundsAssumption DEF Init, BoundsOK
<1> QED BY <1>5, <1>7, <1>8, <1>9, <1>10, <1>11 DEF AccountsInv

LEMMA NextInv == AccountsInv /\ [Next]_vars => AccountsInv'
<1> SUFFICES ASSUME AccountsInv, [Next]_vars PROVE AccountsInv'
  OBVIOUS
<1>1. CASE UNCHANGED vars
  <2>1. RowsOK' /\ \A u \in Users : Exists(u) => Exists(u)' /\ user'[u] = user[u]
    BY <1>1 DEF vars, AccountsInv, RowsOK, Exists
  <2>2. requests' \in 0 .. MaxRequests /\ faults' \in 0 .. MaxFaults
    BY <1>1 DEF vars, AccountsInv, BoundsOK
  <2>3. UNCHANGED <<sessions, pairs, call, leaked, uncut, minted>>
    BY <1>1 DEF vars
  <2> QED BY <2>1, <2>2, <2>3, OutsideStep
<1>2. ASSUME NEW c \in Calls, Request(c) PROVE AccountsInv'
  <2>1. ASSUME NEW u \in Users, Login(c, u) \/ Register(c, u) \/ AdminOperation(c, u)
        PROVE  AccountsInv'
    BY <2>1, LoginStep, RegisterStep, AdminOperationStep
  <2>2. ASSUME NEW s \in sessions, RefreshSession(c, s) PROVE AccountsInv'
    BY <2>2, RefreshStep
  <2>3. ASSUME NEW y \in pairs, RefreshPair(c, y) PROVE AccountsInv'
    BY <2>3, RefreshStep
  <2> QED BY <1>2, <2>1, <2>2, <2>3 DEF Request
<1>3. ASSUME NEW c \in Calls, Statement(c) PROVE AccountsInv'
  <2>1. CASE IssueSession(c) \/ InsertPair(c)
    BY <2>1, IssueSessionStep, InsertPairStep
  <2>2. CASE Evict(c) \/ RevokeAll(c) \/ InvalidateAll(c)
    BY <2>2, EvictStep, RevokeAllStep, InvalidateAllStep
  <2>3. CASE RevokeOne(c) \/ DeletePair(c) \/ CheckOwner(c) \/ LoadUser(c)
    BY <2>3, DeleteOneStep, CheckStep
  <2>4. CASE GuardExists(c) \/ GuardCount(c)
    BY <2>4, GuardExistsStep, GuardCountStep
  <2>5. CASE UpdateUser(c) \/ DeleteUser(c)
    BY <2>5, UpdateUserStep, DeleteUserStep
  <2>6. CASE Demote(c) \/ SetPassword(c)
    BY <2>6, DemoteStep, SetPasswordStep
  <2> QED BY <1>3, <2>1, <2>2, <2>3, <2>4, <2>5, <2>6 DEF Statement
<1>4. ASSUME NEW c \in Calls, Drop(c) PROVE AccountsInv'
  BY <1>4, DropStep
<1>5. ASSUME NEW u \in Users, NEW admin \in BOOLEAN, AdminCreateUser(u, admin) PROVE AccountsInv'
  BY <1>5, AdminCreateUserStep
<1>6. CASE (\E s \in sessions : Logout(s)) \/ (\E y \in pairs : InvalidatePair(y)) \/ Cleanup
  BY <1>6, RemoveStep
<1>7. CASE Expire \/ Restart
  BY <1>7, ExpireStep, RestartStep
<1> QED BY <1>1, <1>2, <1>3, <1>4, <1>5, <1>6, <1>7 DEF Next

(* Tables, calls and history stay in step whatever overlaps: the invariant   *)
(* the theorems below rest on.                                               *)
THEOREM AccountsInvariant == Spec => []AccountsInv
<1> QED BY InitInv, NextInv, PTL DEF Spec

LEMMA InvTypes == AccountsInv => TypeOK
<1> SUFFICES ASSUME AccountsInv PROVE TypeOK
  OBVIOUS
<1>1. \A t \in Todos \cup {<<>>} : t \in Seq(Steps)
  <2>1. <<>> \in Seq(Steps)
    OBVIOUS
  <2> QED BY <2>1, TodoTypes
<1>2. call \in [Calls -> [todo : Seq(Steps), user : Users, pw : Nat, rank : Nat,
                          of : Nat, seen : SUBSET Users, cut : BOOLEAN]]
  BY <1>1 DEF AccountsInv, CallsOK, Call
<1>3. /\ user \in [Users -> [life : {"absent", "live", "deleted"}, blocked : BOOLEAN,
                             confirmed : BOOLEAN, admin : BOOLEAN, pw : Nat, rank : Nat]]
      /\ sessions \subseteq Credential /\ pairs \subseteq Credential
      /\ \A r \in sessions \cup pairs : Exists(r.user) /\ r.id <= minted
  BY DEF AccountsInv, RowsOK, UserRow, CredentialsOK
<1>4. leaked \cup uncut \subseteq Users /\ requests \in 0 .. MaxRequests /\ faults \in 0 .. MaxFaults
  BY DEF AccountsInv, BoundsOK
<1> QED BY <1>2, <1>3, <1>4 DEF TypeOK

(* A password reset (reset_password of admin/src/users.rs) locks the old     *)
(* password out: whatever logins and refreshes overlap it, no session and no *)
(* pair that was in the tables when the password changed outlives its        *)
(* revocations.                                                              *)
THEOREM OldPasswordsAreOut == Spec => []ResetLocksOut
<1>1. AccountsInv => ResetLocksOut
  BY DEF AccountsInv, RevocationsOK, ResetLocksOut, Cutting, SessionsEnd, PairsEnd,
         EndsSessions, EndsPairs
<1> QED BY <1>1, AccountsInvariant, PTL

(* A demotion (patch with is_admin = false) ends the sessions the user had   *)
(* when is_admin was lowered.                                                *)
THEOREM DemotedSessionsEnd == Spec => []DemotionEndsSessions
<1>1. AccountsInv => DemotionEndsSessions
  BY DEF AccountsInv, RevocationsOK, DemotionEndsSessions, Cutting, SessionsEnd, EndsSessions
<1> QED BY <1>1, AccountsInvariant, PTL

(* The cap of issue_yggdrasil_tokens for any cap and any overlap: beyond it  *)
(* only while an eviction is still to run or was dropped.                    *)
THEOREM PairsAreCapped == Spec => []CapHolds
<1>1. ASSUME AccountsInv PROVE CapHolds
  <2>1. \A c \in Calls : call[c].todo = <<"evict">> => At(c, "evict")
    BY DEF At
  <2> QED BY <1>1, <2>1, InvTypes DEF AccountsInv, CapOK, CapHolds, Evicting
<1> QED BY <1>1, AccountsInvariant, PTL

-----------------------------------------------------------------------------
(* The last admin.                                                           *)

(* A guarded write that empties the set of usable admins acted on a stale    *)
(* count.                                                                    *)
LEMMA StaleGuard ==
  ASSUME AccountsInv, NEW c \in Calls, call[c].todo \in Writes,
         \A v \in Users \ {call[c].user} : user'[v] = user[v],
         UsableAdmins # {}, UsableAdmins' = {}
  PROVE  call[c].seen # UsableAdmins
<1> SUFFICES ASSUME call[c].seen = UsableAdmins PROVE FALSE
  OBVIOUS
<1> PICK u : u = call[c].user
  OBVIOUS
<1>1. \A v \in UsableAdmins : v = u
  BY DEF UsableAdmins, Exists
<1>2. u \in UsableAdmins /\ UsableAdmins = {u}
  BY <1>1
<1>3. Cardinality(UsableAdmins) > 1
  BY <1>2 DEF AccountsInv, CallsOK, Spares
<1>4. Cardinality(UsableAdmins) = 1
  BY <1>2, FS_Singleton
<1> QED BY <1>3, <1>4

Stale(c) == call[c].todo # <<>> /\ call'[c] # call[c] /\ call[c].seen # UsableAdmins

LEMMA AdminsKept ==
  ASSUME \A u \in Users : Exists(u) =>
           /\ Exists(u)' /\ user'[u].blocked = user[u].blocked
           /\ user[u].admin => user'[u].admin,
         UsableAdmins # {}
  PROVE  UsableAdmins' # {}
<1> PICK u \in Users : Exists(u) /\ user[u].admin /\ ~ user[u].blocked
  BY DEF UsableAdmins
<1>1. u \in UsableAdmins'
  BY DEF UsableAdmins
<1> QED BY <1>1

LEMMA StatementTakes ==
  ASSUME AccountsInv, NEW c \in Calls, Statement(c), UsableAdmins # {}, UsableAdmins' = {}
  PROVE  Stale(c)
<1> PICK u : u = call[c].user
  OBVIOUS
<1>1. u \in Users /\ RowsOK
  BY DEF AccountsInv, CallsOK, Call
<1>2. CASE user' = user
  BY <1>2, AdminsKept DEF Exists
<1>3. CASE UpdateUser(c)
  <2> PICK step : step = Head(call[c].todo)
    OBVIOUS
  <2>1. /\ call[c].todo \in Todos
        /\ step \in {"promote", "confirm", "unconfirm", "block", "unblock"}
        /\ user' = IF Exists(u) THEN [user EXCEPT ![u] = Updated(step, user[u])] ELSE user
    BY <1>3 DEF AccountsInv, CallsOK, Call, UpdateUser
  <2>2. user[u] \in UserRow
    BY <1>1 DEF RowsOK
  <2>3. CASE step = "block"
    <3>1. call[c].todo = <<"block">>
      BY <2>1, <2>3, TodoHeads
    <3>2. call[c].todo \in Writes /\ call[c].todo # <<>>
      BY <3>1 DEF Writes
    <3>3. \A v \in Users \ {u} : user'[v] = user[v]
      BY <1>1, <2>1 DEF RowsOK
    <3>4. call'[c].todo = <<>>
      BY <1>3, FinishStep, IdleCall DEF AccountsInv, UpdateUser
    <3> QED BY <3>2, <3>3, <3>4, StaleGuard DEF Stale
  <2>4. CASE step \in {"confirm", "unconfirm", "promote"}
    <3>1. /\ Updated(step, user[u]).life = user[u].life
          /\ Updated(step, user[u]).blocked = user[u].blocked
          /\ user[u].admin => Updated(step, user[u]).admin
      BY <2>2, <2>4 DEF Updated, UserRow
    <3> QED BY <1>1, <2>1, <3>1, AdminsKept DEF Exists, RowsOK
  <2>5. CASE step = "unblock"
    <3>1. /\ Updated(step, user[u]).life = user[u].life
          /\ ~ Updated(step, user[u]).blocked
          /\ user[u].admin => Updated(step, user[u]).admin
      BY <2>2, <2>5 DEF Updated, UserRow
    <3>2. PICK v \in Users : Exists(v) /\ user[v].admin /\ ~ user[v].blocked
      BY DEF UsableAdmins
    <3>3. v \in UsableAdmins'
      BY <1>1, <2>1, <3>1, <3>2 DEF UsableAdmins, Exists, RowsOK
    <3> QED BY <3>3
  <2> QED BY <2>1, <2>3, <2>4, <2>5
<1>4. CASE DeleteUser(c)
  <2>1. call[c].todo = <<"delete">>
    BY <1>4, AtStep, TodoHeads DEF AccountsInv, DeleteUser
  <2>2. call[c].todo \in Writes /\ call[c].todo # <<>>
    BY <2>1 DEF Writes
  <2>3. \A v \in Users \ {u} : user'[v] = user[v]
    BY <1>1, <1>4 DEF RowsOK, DeleteUser
  <2>4. call'[c].todo = <<>>
    BY <1>4, FinishStep, IdleCall DEF AccountsInv, DeleteUser
  <2> QED BY <2>2, <2>3, <2>4, StaleGuard DEF Stale
<1>5. CASE Demote(c)
  <2>1. call[c].todo = <<"demote", "revoke_all">>
    BY <1>5, AtStep, TodoHeads DEF AccountsInv, Demote
  <2>2. /\ call[c].todo \in Writes /\ call[c].todo # <<>> /\ call[c].todo \in Todos
        /\ Len(call[c].todo) # 1 /\ Head(call[c].todo) # "guard_count"
    BY <2>1 DEF Writes, Todos, Guarded
  <2>3. \A v \in Users \ {u} : user'[v] = user[v]
    BY <1>1, <1>5 DEF RowsOK, Demote, Cut
  <2>4. call'[c].todo # call[c].todo
    <3>1. Tail(call[c].todo) = <<"revoke_all">>
      BY <2>1
    <3>2. call'[c].todo = <<>> \/ call'[c].todo = <<"revoke_all">>
      BY <1>5, <2>2, <3>1, FinishStep, IdleCall, CutMoves DEF AccountsInv, Demote, Cut
    <3> QED BY <2>1, <3>2
  <2> QED BY <2>2, <2>3, <2>4, StaleGuard DEF Stale
<1>6. CASE SetPassword(c)
  <2>1. \A v \in Users : /\ user'[v].life = user[v].life /\ user'[v].admin = user[v].admin
                         /\ user'[v].blocked = user[v].blocked
    BY <1>1, <1>6 DEF RowsOK, UserRow, SetPassword, Cut
  <2> QED BY <2>1, AdminsKept DEF Exists
<1>7. ASSUME ~ UpdateUser(c), ~ DeleteUser(c), ~ Demote(c), ~ SetPassword(c) PROVE user' = user
  BY <1>7 DEF Statement, IssueSession, InsertPair, Evict, RevokeOne, CheckOwner, DeletePair,
              LoadUser, GuardExists, GuardCount, RevokeAll, InvalidateAll
<1> QED BY <1>2, <1>3, <1>4, <1>5, <1>6, <1>7

LEMMA OthersKeepAdmins ==
  ASSUME AccountsInv, Next, \A c \in Calls : ~ Statement(c), UsableAdmins # {}
  PROVE  UsableAdmins' # {}
<1>1. CASE user' = user
  BY <1>1, AdminsKept DEF Exists
<1>2. CASE Restart
  BY <1>2, BootstrapRows, AdminsKept DEF AccountsInv, Restart
<1>3. CASE \E u \in Users, admin \in BOOLEAN :
             user[u].life = "absent" /\ user' = [user EXCEPT ![u] = Row("live", admin)]
  BY <1>3, FreshRow, AdminsKept DEF AccountsInv
<1>4. ASSUME ~ Restart PROVE <1>1!1 \/ <1>3!1
  BY <1>4 DEF Next, Request, Login, Register, RefreshSession, RefreshPair, AdminOperation, Drop,
              AdminCreateUser, Logout, InvalidatePair, Expire, Cleanup
<1> QED BY <1>1, <1>2, <1>3, <1>4

(* guard_last_admin errs only on a stale count: the step that takes the last *)
(* usable admin away is a statement of a call whose guard saw other admins   *)
(* than the ones there are now.                                              *)
THEOREM LastAdminGoesOnlyStale == Spec => LastAdminKept
<1>1. ASSUME AccountsInv, [Next]_vars, UsableAdmins # {}, UsableAdmins' = {}
      PROVE  \E c \in Calls : Stale(c)
  <2>1. CASE Next
    BY <1>1, <2>1, StatementTakes, OthersKeepAdmins
  <2>2. CASE UNCHANGED vars
    BY <1>1, <2>2 DEF vars, UsableAdmins, Exists
  <2> QED BY <1>1, <2>1, <2>2
<1>2. AccountsInv /\ [Next]_vars =>
        [UsableAdmins # {} /\ UsableAdmins' = {} =>
           \E c \in Calls : call[c].todo # <<>> /\ call'[c] # call[c]
                            /\ call[c].seen # UsableAdmins]_vars
  BY <1>1 DEF Stale
<1> QED BY <1>2, AccountsInvariant, PTL DEF Spec, LastAdminKept

=============================================================================
