------------------------------ MODULE Accounts ------------------------------
(***************************************************************************)
(* Accounts, API sessions, Yggdrasil token pairs and the admin operations  *)
(* on them (core/src/auth, core/src/identity.rs, yggdrasil/src/account.rs, *)
(* the authserver half of yggdrasil/src/lib.rs, admin/src/users.rs,        *)
(* admin/src/auth.rs, admin/src/startup.rs).                               *)
(*                                                                         *)
(* No handler of these files opens a transaction: each is a sequence of    *)
(* single statements.  A call is therefore the list of statements it still *)
(* has to run, todo, and one action runs the statement at its head; every  *)
(* two calls interleave between statements.  A dropped connection drops    *)
(* the handler's future between two statements (Drop).                     *)
(*                                                                         *)
(* Every query on sessions asks for revoked_at IS NULL or, to resolve one, *)
(* also for expires_at > now(): a revoked or expired row is never seen     *)
(* again, and sessions holds the others.  The eviction does count expired  *)
(* pairs, so those stay in pairs until the hourly cleanup.                 *)
(*                                                                         *)
(* Credentials remember, as history, the password version pw and the       *)
(* number of demotions rank that were in force when the credential they    *)
(* descend from was verified, and whether a newer one was already in force *)
(* when they were inserted (late).                                         *)
(***************************************************************************)
EXTENDS Integers, Sequences, FiniteSets

CONSTANTS Users,         \* account ids
          BootstrapUser, \* the holder of ADMIN_BOOTSTRAP_USERNAME
          Calls,         \* requests that may be in progress at once
          MaxPerUser,    \* config.yggdrasil.max_tokens_per_user
          MaxRequests,   \* bound: requests started
          MaxFaults      \* bound: dropped requests, restarts and expiries

ASSUME UsersAssumption == BootstrapUser \in Users /\ IsFiniteSet(Users)
ASSUME CapAssumption == MaxPerUser \in Nat \ {0}
ASSUME BoundsAssumption == MaxRequests \in Nat /\ MaxFaults \in Nat

VARIABLES
  user,      \* the users table: user[u]
  sessions,  \* the rows of the sessions table that are neither revoked nor expired
  pairs,     \* the yggdrasil_tokens table, a set of rows
  call,      \* call[c]: a request in progress
  leaked,    \* history: users with a pair whose eviction was dropped
  uncut,     \* history: users whose reset or demotion was dropped half way
  minted,    \* number of rows ever inserted, gives ids in issue order
  requests, faults

vars == <<user, sessions, pairs, call, leaked, uncut, minted, requests, faults>>

Steps == {"issue_session", "insert_pair", "evict", "revoke_one", "check_owner",
          "delete_pair", "load_user", "guard_exists", "guard_count", "demote",
          "promote", "confirm", "unconfirm", "block", "unblock", "delete",
          "set_password", "revoke_all", "invalidate_all"}

Idle == [todo |-> <<>>, user |-> BootstrapUser, pw |-> 0, rank |-> 0,
         of |-> 0, seen |-> {}, cut |-> FALSE]

Row(life, admin) == [life |-> life, blocked |-> FALSE, confirmed |-> TRUE,
                     admin |-> admin, pw |-> 0, rank |-> 0]

Exists(u) == user[u].life = "live"

UsableAdmins == {u \in Users : Exists(u) /\ user[u].admin /\ ~user[u].blocked}

Eligible(u) == Exists(u) /\ ~user[u].blocked /\ user[u].confirmed

\* user_from_token: the join re-checks the owner on every request.
Resolves(s) == ~user[s.user].blocked

PairsOf(u) == {y \in pairs : y.user = u}

-----------------------------------------------------------------------------
(* The calls.                                                              *)

\* auth_response: a session, then a pair, then the eviction beyond the cap.
issue_yggdrasil_tokens == <<"insert_pair", "evict">>
auth_response == <<"issue_session", "insert_pair", "evict">>
refresh_session == <<"revoke_one", "issue_session", "insert_pair", "evict">>
refresh_yggdrasil == <<"check_owner", "delete_pair", "insert_pair", "evict">>

\* guard_last_admin, "guard_exists" and "guard_count", comes before the write.
block_user == <<"guard_exists", "guard_count", "block">>
delete_user == <<"load_user", "guard_exists", "guard_count", "delete">>

\* reset_password: the new password first, then the revocations.
reset_revokes_first == <<"revoke_all", "invalidate_all", "set_password">>
reset_password == <<"set_password", "revoke_all", "invalidate_all">>

revoke_tokens == <<"load_user", "revoke_all", "invalidate_all">>

\* patch with is_admin = false.
demote_keeps_sessions == <<"guard_exists", "guard_count", "demote">>
demote_user == <<"guard_exists", "guard_count", "demote", "revoke_all">>

Start(c, todo, u, pw, rank, of) ==
  /\ requests < MaxRequests
  /\ requests' = requests + 1
  /\ call[c].todo = <<>>
  /\ call' = [call EXCEPT ![c] = [todo |-> todo, user |-> u, pw |-> pw,
                                  rank |-> rank, of |-> of, seen |-> {}, cut |-> FALSE]]

\* authenticate_password read the row, verified the hash and refused a blocked
\* or unconfirmed account; what follows works on that copy.  The launcher's
\* login, authserver/authenticate and the admin panel's login.
Login(c, u) ==
  /\ Eligible(u)
  /\ \E todo \in {auth_response, issue_yggdrasil_tokens}
                 \cup (IF user[u].admin THEN {<<"issue_session">>} ELSE {}) :
       Start(c, todo, u, user[u].pw, user[u].rank, 0)
  /\ UNCHANGED <<user, sessions, pairs, leaked, uncut, minted, faults>>

\* register: the row, not an admin, confirmed at once; then auth_response.
Register(c, u) ==
  /\ user[u].life = "absent"
  /\ user' = [user EXCEPT ![u] = Row("live", FALSE)]
  /\ Start(c, auth_response, u, 0, 0, 0)
  /\ UNCHANGED <<sessions, pairs, leaked, uncut, minted, faults>>

\* POST /api/auth/refresh: the AuthUser extractor resolves the session, the
\* handler revokes it and answers like a login.
RefreshSession(c, s) ==
  /\ Resolves(s)
  /\ Start(c, refresh_session, s.user, s.pw, s.rank, s.id)
  /\ UNCHANGED <<user, sessions, pairs, leaked, uncut, minted, faults>>

\* POST /authserver/refresh: the pair is read, the rest follows.
RefreshPair(c, y) ==
  /\ ~y.expired
  /\ Start(c, refresh_yggdrasil, y.user, y.pw, y.rank, y.id)
  /\ UNCHANGED <<user, sessions, pairs, leaked, uncut, minted, faults>>

\* The AdminUser extractor: some live session of an unblocked admin.
AdminUser == \E s \in sessions : Resolves(s) /\ user[s.user].admin

\* An unknown id is answered 404 by the first statement.
AdminOperation(c, u) ==
  /\ AdminUser /\ Exists(u)
  /\ \E todo \in {demote_user, <<"promote">>, <<"confirm">>, <<"unconfirm">>,
                  delete_user, block_user, <<"unblock">>,
                  reset_password, revoke_tokens} :
       Start(c, todo, u, 0, 0, 0)
  /\ UNCHANGED <<user, sessions, pairs, leaked, uncut, minted, faults>>

\* POST /admin/users: one insert, confirmed, admin or not.
AdminCreateUser(u, admin) ==
  /\ AdminUser /\ user[u].life = "absent" /\ requests < MaxRequests
  /\ requests' = requests + 1
  /\ user' = [user EXCEPT ![u] = Row("live", admin)]
  /\ UNCHANGED <<sessions, pairs, call, leaked, uncut, minted, faults>>

\* Logout: one statement, no authentication.
Logout(s) ==
  /\ requests < MaxRequests
  /\ requests' = requests + 1
  /\ sessions' = sessions \ {s}
  /\ UNCHANGED <<user, pairs, call, leaked, uncut, minted, faults>>

\* invalidate_yggdrasil: one statement.
InvalidatePair(y) ==
  /\ requests < MaxRequests
  /\ requests' = requests + 1
  /\ pairs' = pairs \ {y}
  /\ UNCHANGED <<user, sessions, call, leaked, uncut, minted, faults>>

-----------------------------------------------------------------------------
(* The statements.  At(c, step) takes the step off the call's list.         *)

At(c, step) == call[c].todo # <<>> /\ Head(call[c].todo) = step

Advance(c) == call' = [call EXCEPT ![c].todo = Tail(@)]

\* An error answer, or the answer of a call that is done.
Finish(c) == call' = [call EXCEPT ![c] = Idle]

Go(c) == IF Len(call[c].todo) = 1 THEN Finish(c) ELSE Advance(c)

Minted(c) ==
  LET k == call[c]
  IN [id |-> minted + 1, user |-> k.user, pw |-> k.pw, rank |-> k.rank,
      late |-> user[k.user].pw > k.pw \/ user[k.user].rank > k.rank,
      expired |-> FALSE]

\* A foreign key refuses a credential whose account is gone.
IssueSession(c) ==
  /\ At(c, "issue_session")
  /\ IF Exists(call[c].user)
       THEN sessions' = sessions \cup {Minted(c)} /\ minted' = minted + 1 /\ Go(c)
       ELSE Finish(c) /\ UNCHANGED <<sessions, minted>>
  /\ UNCHANGED <<user, pairs, leaked, uncut, requests, faults>>

InsertPair(c) ==
  /\ At(c, "insert_pair")
  /\ IF Exists(call[c].user)
       THEN pairs' = pairs \cup {Minted(c)} /\ minted' = minted + 1 /\ Go(c)
       ELSE Finish(c) /\ UNCHANGED <<pairs, minted>>
  /\ UNCHANGED <<user, sessions, leaked, uncut, requests, faults>>

\* The rows ORDER BY issued_at DESC LIMIT max_per_user keeps; expired ones count.
KeptOneMore(rows) ==
  {y \in rows : Cardinality({z \in rows : z.id > y.id}) <= MaxPerUser}
Kept(rows) == {y \in rows : Cardinality({z \in rows : z.id > y.id}) < MaxPerUser}

Evict(c) ==
  /\ At(c, "evict")
  /\ LET mine == PairsOf(call[c].user)
     IN pairs' = (pairs \ mine) \cup Kept(mine)
  /\ leaked' = leaked \ {call[c].user}
  /\ Go(c)
  /\ UNCHANGED <<user, sessions, uncut, minted, requests, faults>>

RevokeOne(c) ==
  /\ At(c, "revoke_one")
  /\ sessions' = {s \in sessions : s.id # call[c].of}
  /\ Go(c)
  /\ UNCHANGED <<user, pairs, leaked, uncut, minted, requests, faults>>

CheckOwner(c) ==
  /\ At(c, "check_owner")
  /\ IF Eligible(call[c].user) THEN Go(c) ELSE Finish(c)
  /\ UNCHANGED <<user, sessions, pairs, leaked, uncut, minted, requests, faults>>

\* How many rows the DELETE removed is not looked at.
DeletePair(c) ==
  /\ At(c, "delete_pair")
  /\ pairs' = {y \in pairs : y.id # call[c].of}
  /\ Go(c)
  /\ UNCHANGED <<user, sessions, leaked, uncut, minted, requests, faults>>

LoadUser(c) ==
  /\ At(c, "load_user")
  /\ IF Exists(call[c].user) THEN Go(c) ELSE Finish(c)
  /\ UNCHANGED <<user, sessions, pairs, leaked, uncut, minted, requests, faults>>

\* guard_last_admin, first query: a target that is no usable admin passes.
\* seen: the usable admins as this query, or the next, found them.
GuardExists(c) ==
  /\ At(c, "guard_exists")
  /\ call' = [call EXCEPT
       ![c].seen = UsableAdmins,
       ![c].todo = IF call[c].user \in UsableAdmins THEN Tail(@) ELSE Tail(Tail(@))]
  /\ UNCHANGED <<user, sessions, pairs, leaked, uncut, minted, requests, faults>>

NoAdmin(n) == n < 1
LastAdmin(n) == n <= 1

GuardCount(c) ==
  /\ At(c, "guard_count")
  /\ IF LastAdmin(Cardinality(UsableAdmins))
       THEN Finish(c)
       ELSE call' = [call EXCEPT ![c].seen = UsableAdmins, ![c].todo = Tail(@)]
  /\ UNCHANGED <<user, sessions, pairs, leaked, uncut, minted, requests, faults>>

\* update_user and set_blocked on a row that exists; the others answer 404.
Updated(step, row) ==
  CASE step = "promote"   -> [row EXCEPT !.admin = TRUE]
    [] step = "confirm"   -> [row EXCEPT !.confirmed = TRUE]
    [] step = "unconfirm" -> [row EXCEPT !.confirmed = FALSE]
    [] step = "block"     -> [row EXCEPT !.blocked = TRUE]
    [] step = "unblock"   -> [row EXCEPT !.blocked = FALSE]

UpdateUser(c) ==
  LET step == Head(call[c].todo)
      u == call[c].user
  IN /\ call[c].todo # <<>>
     /\ step \in {"promote", "confirm", "unconfirm", "block", "unblock"}
     /\ user' = IF Exists(u) THEN [user EXCEPT ![u] = Updated(step, @)] ELSE user
     /\ Finish(c)
     /\ UNCHANGED <<sessions, pairs, leaked, uncut, minted, requests, faults>>

\* The statement that makes the user's older credentials obsolete; the rest of
\* the call, if any, revokes them.
Cut(c, row) ==
  IF Exists(call[c].user)
    THEN /\ user' = [user EXCEPT ![call[c].user] = row]
         /\ IF Len(call[c].todo) = 1 THEN Finish(c)
            ELSE call' = [call EXCEPT ![c].todo = Tail(@), ![c].cut = TRUE]
    ELSE Finish(c) /\ UNCHANGED user

Demote(c) ==
  /\ At(c, "demote")
  /\ LET row == user[call[c].user]
     IN Cut(c, [row EXCEPT !.admin = FALSE, !.rank = @ + 1])
  /\ UNCHANGED <<sessions, pairs, leaked, uncut, minted, requests, faults>>

SetPassword(c) ==
  /\ At(c, "set_password")
  /\ LET row == user[call[c].user]
     IN Cut(c, [row EXCEPT !.pw = @ + 1])
  /\ UNCHANGED <<sessions, pairs, leaked, uncut, minted, requests, faults>>

\* revoke_all_sessions_for_user
RevokeAll(c) ==
  /\ At(c, "revoke_all")
  /\ sessions' = {s \in sessions : s.user # call[c].user}
  /\ Go(c)
  /\ UNCHANGED <<user, pairs, leaked, uncut, minted, requests, faults>>

\* invalidate_all_yggdrasil_for_user
InvalidateAll(c) ==
  /\ At(c, "invalidate_all")
  /\ pairs' = pairs \ PairsOf(call[c].user)
  /\ leaked' = leaked \ {call[c].user}
  /\ Go(c)
  /\ UNCHANGED <<user, sessions, uncut, minted, requests, faults>>

\* ON DELETE CASCADE of the sessions and the pairs.
Cascaded(rows, u) == {r \in rows : r.user # u}

DeleteUser(c) ==
  LET u == call[c].user
  IN /\ At(c, "delete")
     /\ user' = [user EXCEPT ![u].life = "deleted"]
     /\ sessions' = Cascaded(sessions, u)
     /\ pairs' = Cascaded(pairs, u)
     /\ Finish(c)
     /\ UNCHANGED <<leaked, uncut, minted, requests, faults>>

-----------------------------------------------------------------------------
(* Time, faults and the process.                                            *)

Expire ==
  /\ faults < MaxFaults
  /\ faults' = faults + 1
  /\ \/ \E s \in sessions : sessions' = sessions \ {s} /\ pairs' = pairs
     \/ \E y \in pairs : /\ ~y.expired
                         /\ pairs' = (pairs \ {y}) \cup {[y EXCEPT !.expired = TRUE]}
                         /\ sessions' = sessions
  /\ UNCHANGED <<user, call, leaked, uncut, minted, requests>>

\* cleanup_expired_yggdrasil, hourly.
Cleanup ==
  /\ pairs' = {y \in pairs : ~y.expired}
  /\ pairs' # pairs
  /\ UNCHANGED <<user, sessions, call, leaked, uncut, minted, requests, faults>>

Abandon(cs) ==
  /\ leaked' = leaked \cup {call[c].user : c \in {d \in cs : At(d, "evict")}}
  /\ uncut' = uncut \cup {call[c].user : c \in {d \in cs : call[d].cut}}

\* The client went away: the handler's future is dropped at an await.
Drop(c) ==
  /\ faults < MaxFaults /\ call[c].todo # <<>>
  /\ faults' = faults + 1
  /\ Abandon({c})
  /\ Finish(c)
  /\ UNCHANGED <<user, sessions, pairs, minted, requests>>

\* ensure_bootstrap_admin: when no row is an admin, create the bootstrap user or
\* promote the holder of its name; a blocked admin counts, and stays blocked.
ensure_bootstrap_admin(users) ==
  IF \E u \in Users : users[u].life = "live" /\ users[u].admin
    THEN users
    ELSE [users EXCEPT ![BootstrapUser] =
            IF @.life = "live" THEN [@ EXCEPT !.admin = TRUE, !.confirmed = TRUE]
                               ELSE Row("live", TRUE)]

\* The process stops and starts again; BootstrapPassword is configured or not.
Restart ==
  /\ faults < MaxFaults
  /\ faults' = faults + 1
  /\ Abandon(Calls)
  /\ call' = [c \in Calls |-> Idle]
  /\ user' \in {user, ensure_bootstrap_admin(user)}
  /\ UNCHANGED <<sessions, pairs, minted, requests>>

-----------------------------------------------------------------------------
\* A start with an empty or an older database: the bootstrap admin, signed in
\* to the panel, and the other accounts as previous runs of the service left
\* them, each with a session.
Init ==
  /\ user \in [Users -> {Row("absent", FALSE), Row("live", FALSE), Row("live", TRUE)}]
  /\ user[BootstrapUser] = Row("live", TRUE)
  /\ LET old == {u \in Users : Exists(u)}
         n == CHOOSE f \in [old -> 1..Cardinality(old)] :
                \A u, v \in old : u # v => f[u] # f[v]
     IN /\ sessions = {[id |-> n[u], user |-> u, pw |-> 0, rank |-> 0, late |-> FALSE,
                        expired |-> FALSE] : u \in old}
        /\ pairs = {}
        /\ minted = Cardinality(old)
  /\ call = [c \in Calls |-> Idle]
  /\ leaked = {} /\ uncut = {} /\ requests = 0 /\ faults = 0

Statement(c) ==
  \/ IssueSession(c) \/ InsertPair(c) \/ Evict(c) \/ RevokeOne(c) \/ CheckOwner(c)
  \/ DeletePair(c) \/ LoadUser(c) \/ GuardExists(c) \/ GuardCount(c) \/ UpdateUser(c)
  \/ Demote(c) \/ SetPassword(c) \/ RevokeAll(c) \/ InvalidateAll(c) \/ DeleteUser(c)

Request(c) ==
  \/ \E u \in Users : Login(c, u) \/ Register(c, u) \/ AdminOperation(c, u)
  \/ \E s \in sessions : RefreshSession(c, s)
  \/ \E y \in pairs : RefreshPair(c, y)

Next ==
  \/ \E c \in Calls : Request(c) \/ Statement(c) \/ Drop(c)
  \/ \E u \in Users, admin \in BOOLEAN : AdminCreateUser(u, admin)
  \/ \E s \in sessions : Logout(s)
  \/ \E y \in pairs : InvalidatePair(y)
  \/ Expire \/ Cleanup \/ Restart

Spec == Init /\ [][Next]_vars

-----------------------------------------------------------------------------
(* Properties.                                                              *)

Credential == [id : Nat, user : Users, pw : Nat, rank : Nat, late : BOOLEAN,
               expired : BOOLEAN]

\* The tables and the calls stay well formed, credentials belong to accounts
\* that exist (the cascade and the foreign keys), and ids are unique.
TypeOK ==
  /\ user \in [Users -> [life : {"absent", "live", "deleted"}, blocked : BOOLEAN,
                         confirmed : BOOLEAN, admin : BOOLEAN, pw : Nat, rank : Nat]]
  /\ sessions \subseteq Credential /\ pairs \subseteq Credential
  /\ \A r \in sessions \cup pairs : Exists(r.user) /\ r.id <= minted
  /\ call \in [Calls -> [todo : Seq(Steps), user : Users, pw : Nat, rank : Nat,
                         of : Nat, seen : SUBSET Users, cut : BOOLEAN]]
  /\ leaked \cup uncut \subseteq Users /\ requests \in 0..MaxRequests /\ faults \in 0..MaxFaults

\* A revocation of u's credentials is under way, or was dropped half way.
Cutting(u) == u \in uncut \/ \E c \in Calls : call[c].user = u /\ call[c].cut

\* A password reset locks the old password out: once its revocations have run,
\* no session and no pair that was in the tables when the password changed is
\* still good, whatever logins and refreshes overlapped it.
ResetLocksOut ==
  \A r \in sessions \cup pairs : r.pw < user[r.user].pw => r.late \/ Cutting(r.user)

\* A demotion ends the sessions the user had: none that was in the table when
\* is_admin was lowered outlives the patch, so a later promotion revives none.
DemotionEndsSessions ==
  \A s \in sessions :
    s.rank < user[s.user].rank => s.late \/ Cutting(s.user)

\* The per-user cap: an account holds more than MaxPerUser pairs only while a
\* call that inserted one has its eviction to run, or was dropped before it.
CapHolds ==
  /\ TypeOK
  /\ \A u \in Users :
    \/ Cardinality(PairsOf(u)) <= MaxPerUser
    \/ u \in leaked
    \/ \E c \in Calls : At(c, "evict") /\ call[c].user = u

\* guard_last_admin: a request takes the last usable admin away only if the
\* admins changed between its guard and its write.
LastAdminKept ==
  [][UsableAdmins # {} /\ UsableAdmins' = {} =>
       \E c \in Calls : call[c].todo # <<>> /\ call'[c] # call[c]
                        /\ call[c].seen # UsableAdmins]_vars

\* "Reject (409) an operation that would strip the LAST usable admin": there is
\* always one.
AlwaysAnAdmin == UsableAdmins # {}

=============================================================================
