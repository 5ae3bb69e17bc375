------------------------------ MODULE Identity ------------------------------
(***************************************************************************)
(* Which Minecraft identity an account plays as, and the session server    *)
(* that vouches for it (core/src/identity.rs, the bootstrap of             *)
(* network/src/users.rs, yggdrasil-protocol/src/uuid.rs, the sessionserver *)
(* half of yggdrasil/src/lib.rs and yggdrasil/src/join_sessions.rs).       *)
(*                                                                         *)
(* A minecraft_uuid is a text: an id written dashed or bare, or no uuid at *)
(* all; a profile_uuid is an id.  The id minted for account u is u itself  *)
(* (a fresh random uuid), the others belong to Minecraft accounts.         *)
(* A join session is found valid by the token checks of module Accounts.   *)
(* Conflicts on the e-mail index refuse a request and change nothing.      *)
(***************************************************************************)
EXTENDS Integers, FiniteSets

CONSTANTS Users, Names, McIds, Servers, Calls,
          MaxRequests,  \* bound: requests started
          MaxFaults     \* bound: restarts and lapsed join sessions

ASSUME IdentityAssumption ==
  Users \cap McIds = {} /\ MaxRequests \in Nat /\ MaxFaults \in Nat

VARIABLES
  user,      \* the users table
  joins,     \* joins[s]: the join session map of the process
  call,      \* call[c]: a request between two statements
  unbound,   \* history: accounts whose minecraft_uuid was set since they last
             \* reconciled, or by a bootstrap that decided on a stale row
  answered,  \* history: announcements hasJoined answered, as it answered them
  requests, faults

vars == <<user, joins, call, unbound, answered, requests, faults>>

Ids == Users \cup McIds
NoText == [id |-> "null", form |-> "none"]
Bad == [id |-> "bad", form |-> "none"]
Texts == [id : Ids, form : {"dashed", "bare"}]

NoJoin == [n |-> 0]
NoCall == [pc |-> "idle"]

Live(u) == user[u].life = "live"

\* The texts a client may send: a Minecraft account's or an account's own id.
Sent == {t \in Texts : t.id \in McIds \/ user[t.id].life # "absent"}

\* undash_uuid: every spelling of an id gives the id; anything else is refused.
undash_uuid(text) == text.id
Valid(text) == text \in Texts

\* reconcile_profile_uuid: the Minecraft uuid decides, else the profile the row
\* has, else a minted one.
reconcile_keeps_current(text, current, minted) ==
  IF current # "none" THEN current ELSE IF text # NoText THEN text.id ELSE minted
reconcile_profile_uuid(text, current, minted) ==
  IF text # NoText THEN undash_uuid(text)
  ELSE IF current # "none" THEN current ELSE minted

\* The three unique indexes.  minecraft_uuid is compared as text.
FitsRow(u, row) ==
  \A v \in Users \ {u} :
    Live(v) => /\ user[v].name # row.name
               /\ user[v].mc # row.mc \/ row.mc = NoText
               /\ user[v].profile # row.profile \/ row.profile = "none"

Write(u, row) == user' = [user EXCEPT ![u] = row]

New(name, mc, profile) == [life |-> "live", name |-> name, mc |-> mc, profile |-> profile]

\* An id was written on the strength of an earlier read of the row.
Rebound(u, read) ==
  IF user[u].mc = read.mc /\ user[u].profile = read.profile
    THEN unbound \ {u} ELSE unbound \cup {u}

Ask == requests < MaxRequests /\ requests' = requests + 1

-----------------------------------------------------------------------------
(* Accounts are created, renamed and removed by one statement each.        *)

\* register_user: no minecraft_uuid, a minted profile.
Register(u, name) ==
  /\ Ask /\ user[u].life = "absent"
  /\ FitsRow(u, New(name, NoText, u))
  /\ Write(u, New(name, NoText, u))
  /\ UNCHANGED <<joins, call, unbound, answered, faults>>

\* admin_create_user: an optional minecraft_uuid fixes the profile at once.
AdminCreate(u, name, text) ==
  LET row == New(name, text, reconcile_profile_uuid(text, "none", u))
  IN /\ Ask /\ user[u].life = "absent"
     /\ Valid(text) \/ text = NoText
     /\ FitsRow(u, row)
     /\ Write(u, row)
     /\ UNCHANGED <<joins, call, unbound, answered, faults>>

\* PATCH /admin/users/{id} with a username.
Rename(u, name) ==
  LET row == [user[u] EXCEPT !.name = name]
  IN /\ Ask /\ Live(u) /\ row # user[u] /\ FitsRow(u, row)
     /\ Write(u, row)
     /\ UNCHANGED <<joins, call, unbound, answered, faults>>

DeleteUser(u) ==
  /\ Ask /\ Live(u)
  /\ Write(u, [user[u] EXCEPT !.life = "deleted"])
  /\ UNCHANGED <<joins, call, unbound, answered, faults>>

\* POST /users/bootstrap: minecraft_uuid = COALESCE(minecraft_uuid, the text as
\* sent); the text is neither checked nor put in a canonical form, and the
\* profile stays as it is.
bootstrap_rebinds(old, text) == text
bootstrap_fills(old, text) == IF old = NoText THEN text ELSE old

Bootstrap(u, text) ==
  LET row == [user[u] EXCEPT !.mc = bootstrap_fills(@, text)]
  IN /\ Ask /\ Live(u) /\ row # user[u] /\ FitsRow(u, row)
     /\ Write(u, row)
     /\ unbound' = unbound \cup {u}
     /\ UNCHANGED <<joins, call, answered, faults>>

-----------------------------------------------------------------------------
(* authenticate_password and assign_or_reconcile_profile_uuid.             *)

\* The SELECT; the hash matched.
Login(c, u) ==
  /\ Ask /\ call[c] = NoCall /\ Live(u)
  /\ call' = [call EXCEPT ![c] = [pc |-> "reconcile", user |-> u, row |-> user[u]]]
  /\ UNCHANGED <<user, joins, unbound, answered, faults>>

\* A stored value that matches is left alone and the login succeeds; an invalid
\* minecraft_uuid, a taken profile or a removed row is an error.
Reconcile(c) ==
  LET u == call[c].user
      copy == call[c].row
      desired == reconcile_profile_uuid(copy.mc, copy.profile, u)
      row == [user[u] EXCEPT !.profile = desired]
      updates == Live(u) /\ FitsRow(u, row)
  IN /\ call[c].pc = "reconcile"
     /\ call' = [call EXCEPT ![c] = NoCall]
     /\ \/ /\ copy.mc # Bad /\ copy.profile # desired /\ updates
           /\ Write(u, row)
           /\ unbound' = Rebound(u, copy)
        \/ /\ copy.mc # Bad /\ copy.profile = desired
           /\ unbound' = Rebound(u, copy)
           /\ UNCHANGED user
        \/ /\ copy.mc = Bad \/ (copy.profile # desired /\ ~updates)
           /\ UNCHANGED <<user, unbound>>
     /\ UNCHANGED <<joins, answered, requests, faults>>

-----------------------------------------------------------------------------
(* find_or_create_from_bootstrap: two lookups, then a write decided on them. *)

find_by_minecraft_uuid(text) == {u \in Users : Live(u) /\ user[u].mc = text}
find_by_profile_uuid(id) == {u \in Users : Live(u) /\ user[u].profile = id}

Refresh(u, name, text, binds) ==
  [pc |-> "refresh", name |-> name, text |-> text, binds |-> binds,
   user |-> u, row |-> user[u]]

ModBootstrap(c, text, name) ==
  LET found == find_by_minecraft_uuid(text)
  IN /\ Ask /\ call[c] = NoCall /\ Valid(text)
     /\ call' = [call EXCEPT ![c] =
          IF found # {}
            THEN Refresh(CHOOSE u \in found : TRUE, name, text, "profile")
            ELSE [pc |-> "find", name |-> name, text |-> text]]
     /\ UNCHANGED <<user, joins, unbound, answered, faults>>

FindByProfile(c) ==
  LET found == find_by_profile_uuid(undash_uuid(call[c].text))
  IN /\ call[c].pc = "find"
     /\ call' = [call EXCEPT ![c] =
          IF found # {}
            THEN Refresh(CHOOSE u \in found : TRUE, @.name, @.text, "mc")
            ELSE [pc |-> "insert", name |-> @.name, text |-> @.text]]
     /\ UNCHANGED <<user, joins, unbound, answered, requests, faults>>

\* refresh_bootstrap_row: the username and one of the two ids; a profile the
\* row no longer has when the minecraft_uuid is bound leaves the two apart.
RefreshBootstrapRow(c) ==
  LET k == call[c]
      row == IF k.binds = "mc"
               THEN [user[k.user] EXCEPT !.name = k.name, !.mc = k.text]
               ELSE [user[k.user] EXCEPT !.name = k.name, !.profile = undash_uuid(k.text)]
  IN /\ k.pc = "refresh"
     /\ call' = [call EXCEPT ![c] = NoCall]
     /\ \/ /\ Live(k.user) /\ FitsRow(k.user, row)
           /\ Write(k.user, row)
           /\ unbound' = Rebound(k.user, k.row)
        \/ /\ ~(Live(k.user) /\ FitsRow(k.user, row))
           /\ UNCHANGED <<user, unbound>>
     /\ UNCHANGED <<joins, answered, requests, faults>>

InsertBootstrapRow(c) ==
  LET row == New(call[c].name, call[c].text, undash_uuid(call[c].text))
  IN /\ call[c].pc = "insert"
     /\ call' = [call EXCEPT ![c] = NoCall]
     /\ \/ \E u \in Users : /\ user[u].life = "absent" /\ FitsRow(u, row)
                            /\ Write(u, row)
        \/ /\ \A u \in Users : user[u].life = "absent" => ~FitsRow(u, row)
           /\ UNCHANGED user
     /\ UNCHANGED <<joins, unbound, answered, requests, faults>>

-----------------------------------------------------------------------------
(* The session server.                                                      *)

\* join: the token's owner is read and the claimed profile is theirs.  The
\* announcement is known by the number of the request that makes it.
Join(c, s, u, claimed) ==
  /\ Ask /\ call[c] = NoCall
  /\ Live(u) /\ user[u].profile = undash_uuid(claimed)
  /\ call' = [call EXCEPT ![c] = [pc |-> "record", n |-> requests + 1,
                                    user |-> u, server |-> s]]
  /\ UNCHANGED <<user, joins, unbound, answered, faults>>

\* retain: entries past their 30 s leave the map.
Swept == [s \in Servers |-> IF joins[s] # NoJoin /\ joins[s].lapsed THEN NoJoin ELSE joins[s]]

Record(c) ==
  LET k == call[c]
  IN /\ k.pc = "record"
     /\ joins' = [Swept EXCEPT ![k.server] = [n |-> k.n, user |-> k.user, lapsed |-> FALSE]]
     /\ call' = [call EXCEPT ![c] = NoCall]
     /\ UNCHANGED <<user, unbound, answered, requests, faults>>

\* take removes what it returns.
taken_stays(s) == Swept
taken(s) == [Swept EXCEPT ![s] = NoJoin]

\* hasJoined: the take, under the lock; a miss is answered 204.
HasJoined(c, s, name) ==
  /\ Ask /\ call[c] = NoCall
  /\ joins' = taken(s)
  /\ call' = IF Swept[s] = NoJoin THEN call
             ELSE [call EXCEPT ![c] = [pc |-> "load", server |-> s, name |-> name,
                                       join |-> Swept[s]]]
  /\ UNCHANGED <<user, unbound, answered, faults>>

\* load_user, the name the server asks about, and the signed profile.
AnswerHasJoined(c) ==
  LET k == call[c]
      row == user[k.join.user]
  IN /\ k.pc = "load"
     /\ call' = [call EXCEPT ![c] = NoCall]
     /\ answered' =
          IF Live(k.join.user) /\ row.name = k.name /\ row.profile # "none"
            THEN answered \cup {[n |-> k.join.n, server |-> k.server, user |-> k.join.user]}
            ELSE answered
     /\ UNCHANGED <<user, joins, unbound, requests, faults>>

\* Thirty seconds pass.
Lapse(s) ==
  /\ faults < MaxFaults /\ joins[s] # NoJoin /\ ~joins[s].lapsed
  /\ joins' = [joins EXCEPT ![s].lapsed = TRUE]
  /\ faults' = faults + 1
  /\ UNCHANGED <<user, call, unbound, answered, requests>>

\* The map is process memory.
Restart ==
  /\ faults < MaxFaults
  /\ joins' = [s \in Servers |-> NoJoin]
  /\ call' = [c \in Calls |-> NoCall]
  /\ faults' = faults + 1
  /\ UNCHANGED <<user, unbound, answered, requests>>

-----------------------------------------------------------------------------
\* No accounts yet, or one the first release created: it knew the Minecraft
\* uuid of every account and no profile.
Legacy(u, name, text) == New(name, text, "none")
NoUser == [life |-> "absent", name |-> "none", mc |-> NoText, profile |-> "none"]

Init ==
  /\ \/ user = [u \in Users |-> NoUser]
     \/ \E u \in Users, name \in Names, text \in [id : McIds, form : {"dashed"}] :
          user = [v \in Users |-> IF v = u THEN Legacy(u, name, text) ELSE NoUser]
  /\ joins = [s \in Servers |-> NoJoin]
  /\ call = [c \in Calls |-> NoCall]
  /\ unbound = {u \in Users : user[u].life = "live"}
  /\ answered = {} /\ requests = 0 /\ faults = 0

Next ==
  \/ \E u \in Users, name \in Names :
       \/ Register(u, name) \/ Rename(u, name)
       \/ \E text \in Sent \cup {NoText} : AdminCreate(u, name, text)
  \/ \E u \in Users : DeleteUser(u) \/ \E text \in Sent \cup {Bad} : Bootstrap(u, text)
  \/ \E c \in Calls :
       \/ \E u \in Users : Login(c, u)
       \/ Reconcile(c)
       \/ \E text \in Sent, name \in Names : ModBootstrap(c, text, name)
       \/ FindByProfile(c) \/ RefreshBootstrapRow(c) \/ InsertBootstrapRow(c)
       \/ \E s \in Servers, u \in Users, claimed \in Sent : Join(c, s, u, claimed)
       \/ Record(c)
       \/ \E s \in Servers, name \in Names : HasJoined(c, s, name)
       \/ AnswerHasJoined(c)
  \/ \E s \in Servers : Lapse(s)
  \/ Restart

Spec == Init /\ [][Next]_vars

-----------------------------------------------------------------------------
(* Properties.                                                              *)

\* The rows and the join sessions stay well formed and the names, the uuid
\* texts and the profiles of the accounts stay distinct.
TypeOK ==
  /\ user \in [Users -> [life : {"absent", "live", "deleted"}, name : Names \cup {"none"},
                         mc : Texts \cup {NoText, Bad}, profile : Ids \cup {"none"}]]
  /\ \A u, v \in Users :
       Live(u) /\ Live(v) /\ u # v =>
         /\ user[u].name # user[v].name
         /\ user[u].profile # user[v].profile \/ user[u].profile = "none"
  /\ \A s \in Servers : joins[s] # NoJoin => joins[s].user \in Users
  /\ unbound \subseteq Users /\ requests \in 0..MaxRequests /\ faults \in 0..MaxFaults

\* The reconciliation rule: an account with a Minecraft uuid has that uuid as
\* its profile, unless the uuid was set after the account last reconciled.
Reconciled ==
  /\ TypeOK
  /\ \A u \in Users :
    Live(u) /\ user[u].mc # NoText =>
      user[u].profile = user[u].mc.id \/ u \in unbound

\* An account keeps one stable identity (find_or_create_from_bootstrap): once its
\* profile is its Minecraft id, neither the agent's bootstrap, the mod's, a login
\* nor a rename moves it to another id, in whatever order they come, however the
\* id is spelled and whatever else is in flight.  The one exception is a call
\* that writes on the strength of a row it read before somebody changed its ids.
Settled(u) == Live(u) /\ user[u].mc \in Texts /\ user[u].profile = user[u].mc.id
Stale(c) ==
  LET now == user[call[c].user]
  IN call[c].row.mc # now.mc \/ call[c].row.profile # now.profile

SettledIdentityStays ==
  [][\A u \in Users :
       Settled(u) =>
         \/ user'[u].profile = user[u].profile /\ user'[u].mc.id = user[u].mc.id
         \/ \E c \in Calls : /\ call'[c] # call[c]
                            /\ call[c].pc \in {"reconcile", "refresh"}
                            /\ call[c].user = u /\ Stale(c)]_vars

\* The session server implements its contract: what the map holds is open,
\* what a hasJoined took and has not answered yet is claimed.
OpenJoins == {[n |-> joins[s].n, server |-> s, user |-> joins[s].user] :
                s \in {t \in Servers : joins[t] # NoJoin}}
ClaimedJoins == {[n |-> call[c].join.n, server |-> call[c].server, user |-> call[c].join.user] :
                   c \in {d \in Calls : call[d].pc = "load"}}

Joins == INSTANCE JoinContract WITH open <- OpenJoins, claimed <- ClaimedJoins

ImplementsJoinContract == Joins!Spec

=============================================================================
