--------------------------- MODULE IdentityProofs ---------------------------
(***************************************************************************)
(* Which identity an account plays as, for any number of accounts, game    *)
(* servers and requests in flight: profiles follow the Minecraft uuid, a   *)
(* settled identity stays, and the session server keeps its contract.      *)
(***************************************************************************)
EXTENDS Identity, TLAPS

UserRow == [life : {"absent", "live", "deleted"}, name : Names \cup {"none"},
            mc : Texts \cup {NoText, Bad}, profile : Ids \cup {"none"}]

(* Two live accounts share neither a name nor a profile.                     *)
Apart(u, v) ==
  Live(u) /\ Live(v) /\ u # v =>
    /\ user[u].name # user[v].name
    /\ user[u].profile # user[v].profile \/ user[u].profile = "none"

Bound(u) == Live(u) /\ user[u].mc # NoText => user[u].profile = user[u].mc.id \/ u \in unbound

UsersOK ==
  /\ user \in [Users -> UserRow] /\ unbound \subseteq Users
  /\ \A u, v \in Users : Apart(u, v)
  /\ \A u \in Users : Bound(u)

(* What a request between two statements carries.  A bootstrap about to      *)
(* refresh a row found it by the id that it will not write: this is why the  *)
(* two ids agree if the row is still the one it read.                        *)
CallGood(k) ==
  /\ k.pc = "reconcile" => k.user \in Users /\ k.row \in UserRow
  /\ k.pc \in {"find", "insert"} => k.name \in Names /\ k.text \in Texts
  /\ k.pc = "refresh" =>
       /\ k.user \in Users /\ k.name \in Names /\ k.text \in Texts /\ k.binds \in {"mc", "profile"}
       /\ k.binds = "mc" => k.row.profile = k.text.id
       /\ k.binds = "profile" => k.row.mc = k.text
  /\ k.pc = "record" => k.user \in Users /\ k.server \in Servers
  /\ k.pc = "load" => k.join.user \in Users /\ k.server \in Servers

CallsOK == DOMAIN call = Calls /\ \A c \in Calls : CallGood(call[c])

(* An announcement's number is in one place at a time: a join about to       *)
(* record it, the map, a hasJoined that took it, or the answers.             *)
InUse(k) == k.pc \in {"record", "load"}
NumberOf(k) == IF k.pc = "record" THEN k.n ELSE k.join.n

NumbersOK ==
  /\ \A c \in Calls : InUse(call[c]) => NumberOf(call[c]) \in 1..requests
  /\ \A c, d \in Calls : InUse(call[c]) /\ InUse(call[d]) /\ c # d => NumberOf(call[c]) # NumberOf(call[d])
  /\ \A s \in Servers : joins[s] # NoJoin => joins[s].n \in 1..requests
  /\ \A s, t \in Servers : joins[s] # NoJoin /\ joins[t] # NoJoin /\ s # t => joins[s].n # joins[t].n
  /\ \A c \in Calls, s \in Servers :
       InUse(call[c]) /\ joins[s] # NoJoin => NumberOf(call[c]) # joins[s].n
  /\ \A a \in answered : a.n \in 1..requests
  /\ \A c \in Calls, a \in answered : call[c].pc = "record" => call[c].n # a.n

JoinsOK ==
  /\ DOMAIN joins = Servers
  /\ \A s \in Servers : joins[s] # NoJoin => joins[s].user \in Users

BoundsOK == requests \in 0..MaxRequests /\ faults \in 0..MaxFaults

IdentityInv == UsersOK /\ CallsOK /\ NumbersOK /\ JoinsOK /\ BoundsOK

-----------------------------------------------------------------------------
(* The table.                                                                *)
LEMMA RowWritten ==
  ASSUME UsersOK, NEW u \in Users, NEW row \in UserRow, Write(u, row), FitsRow(u, row),
         unbound' \subseteq Users, \A v \in Users : v # u /\ v \in unbound => v \in unbound',
         row.mc # NoText => row.profile = row.mc.id \/ u \in unbound'
  PROVE  UsersOK'
<1>1. /\ user' \in [Users -> UserRow] /\ user'[u] = row
      /\ \A v \in Users : v # u => user'[v] = user[v]
  BY DEF UsersOK, Write
<1>2. ASSUME NEW v \in Users, v # u
      PROVE  Live(v) => user[v].name # row.name /\ (user[v].profile # row.profile \/ row.profile = "none")
  BY <1>2 DEF FitsRow
<1>3. ASSUME NEW v \in Users, NEW w \in Users PROVE Apart(v, w)'
  <2>1. CASE v # u /\ w # u
    BY <1>1, <2>1 DEF UsersOK, Apart, Live
  <2>2. CASE v = u /\ w # u
    BY <1>1, <1>2, <2>2 DEF Apart, Live
  <2>3. CASE v # u /\ w = u
    BY <1>1, <1>2, <2>3 DEF Apart, Live
  <2> QED BY <2>1, <2>2, <2>3 DEF Apart
<1>4. ASSUME NEW v \in Users PROVE Bound(v)'
  <2>1. CASE v = u
    BY <1>1, <2>1 DEF Bound
  <2>2. CASE v # u
    BY <1>1, <2>2 DEF UsersOK, Bound, Live
  <2> QED BY <2>1, <2>2
<1> QED BY <1>1, <1>3, <1>4 DEF UsersOK

LEMMA NewRow ==
  ASSUME NEW name \in Names, NEW mc \in Texts \cup {NoText}, NEW profile \in Ids
  PROVE  /\ New(name, mc, profile) \in UserRow
         /\ New(name, mc, profile).mc = mc /\ New(name, mc, profile).profile = profile
BY DEF New, UserRow

(* A text of an id is none of the two other values.                          *)
LEMMA TextIds == ASSUME NEW t \in Texts PROVE t # NoText /\ t # Bad /\ t.id \in Ids
BY DEF Texts, NoText, Bad

LEMMA RegisterKeeps ==
  ASSUME UsersOK, NEW u \in Users, NEW name \in Names, Register(u, name)
  PROVE  UsersOK'
<1>1. u \in Ids
  BY DEF Ids
<1> DEFINE row == New(name, NoText, u)
<1>2. row \in UserRow /\ row.mc = NoText
  BY <1>1, NewRow
<1>3. Write(u, row) /\ FitsRow(u, row) /\ unbound' = unbound
  BY DEF Register
<1> HIDE DEF row
<1> QED BY <1>2, <1>3, RowWritten DEF UsersOK

LEMMA AdminCreateKeeps ==
  ASSUME UsersOK, NEW u \in Users, NEW name \in Names, NEW text \in Texts \cup {NoText},
         AdminCreate(u, name, text)
  PROVE  UsersOK'
<1> DEFINE p == reconcile_profile_uuid(text, "none", u)
           row == New(name, text, p)
<1>1. p \in Ids /\ (text # NoText => p = text.id)
  BY TextIds DEF reconcile_profile_uuid, undash_uuid, Ids
<1>2. Write(u, row) /\ FitsRow(u, row) /\ unbound' = unbound
  BY DEF AdminCreate
<1> HIDE DEF p
<1>3. row \in UserRow /\ row.mc = text /\ row.profile = p
  BY <1>1, NewRow
<1> HIDE DEF row
<1> QED BY <1>1, <1>2, <1>3, RowWritten DEF UsersOK

LEMMA RenameKeeps ==
  ASSUME UsersOK, NEW u \in Users, NEW name \in Names, Rename(u, name)
  PROVE  UsersOK'
<1> DEFINE row == [user[u] EXCEPT !.name = name]
<1>1. row \in UserRow /\ row.mc = user[u].mc /\ row.profile = user[u].profile
  BY DEF UsersOK, UserRow
<1>2. Write(u, row) /\ FitsRow(u, row) /\ unbound' = unbound /\ Live(u)
  BY DEF Rename
<1>3. Bound(u)
  BY DEF UsersOK
<1> HIDE DEF row
<1> QED BY <1>1, <1>2, <1>3, RowWritten DEF UsersOK, Bound

LEMMA DeleteUserKeeps ==
  ASSUME UsersOK, NEW u \in Users, DeleteUser(u)
  PROVE  UsersOK'
<1>1. /\ user' \in [Users -> UserRow] /\ user'[u].life = "deleted" /\ unbound' = unbound
      /\ \A v \in Users : v # u => user'[v] = user[v]
  BY DEF UsersOK, UserRow, DeleteUser, Write
<1>2. \A v \in Users : Live(v)' => user'[v] = user[v] /\ Live(v)
  BY <1>1 DEF Live
<1>3. \A v, w \in Users : Apart(v, w)'
  BY <1>2 DEF UsersOK, Apart
<1>4. \A v \in Users : Bound(v)'
  BY <1>1, <1>2 DEF UsersOK, Bound
<1> QED BY <1>1, <1>3, <1>4 DEF UsersOK

LEMMA BootstrapKeeps ==
  ASSUME UsersOK, NEW u \in Users, NEW text \in Texts \cup {Bad}, Bootstrap(u, text)
  PROVE  UsersOK'
<1> DEFINE row == [user[u] EXCEPT !.mc = bootstrap_fills(@, text)]
<1>1. row \in UserRow
  BY DEF UsersOK, UserRow, bootstrap_fills
<1>2. Write(u, row) /\ FitsRow(u, row) /\ unbound' = unbound \cup {u}
  BY DEF Bootstrap
<1> HIDE DEF row
<1> QED BY <1>1, <1>2, RowWritten DEF UsersOK

(* The login's decision holds for the row it read; if the row has changed    *)
(* since, the account counts as unbound.                                     *)
LEMMA ReconcileKeeps ==
  ASSUME UsersOK, CallsOK, NEW c \in Calls, Reconcile(c)
  PROVE  UsersOK'
<1>1. PICK u \in Users : u = call[c].user
  BY DEF Reconcile, CallsOK, CallGood
<1>2. PICK copy \in UserRow : copy = call[c].row
  BY DEF Reconcile, CallsOK, CallGood
<1>3. PICK desired : desired = reconcile_profile_uuid(copy.mc, copy.profile, u)
  OBVIOUS
<1>4. copy.mc # Bad /\ copy.mc # NoText => copy.mc \in Texts /\ desired = copy.mc.id
  BY <1>3 DEF UserRow, reconcile_profile_uuid, undash_uuid
<1>5. copy.mc # Bad => desired \in Ids
  BY <1>3, <1>4, TextIds DEF UserRow, reconcile_profile_uuid, Ids
<1>6. CASE /\ copy.mc # Bad /\ copy.profile # desired
           /\ FitsRow(u, [user[u] EXCEPT !.profile = desired])
           /\ Write(u, [user[u] EXCEPT !.profile = desired]) /\ unbound' = Rebound(u, copy)
  <2> DEFINE row == [user[u] EXCEPT !.profile = desired]
  <2>1. row \in UserRow /\ row.mc = user[u].mc /\ row.profile = desired
    BY <1>5, <1>6 DEF UsersOK, UserRow
  <2>2. /\ unbound' \subseteq Users /\ \A v \in Users : v # u /\ v \in unbound => v \in unbound'
        /\ u \in unbound' \/ user[u].mc = copy.mc
    BY <1>6 DEF UsersOK, Rebound
  <2>3. Write(u, row) /\ FitsRow(u, row)
    BY <1>6
  <2> HIDE DEF row
  <2> QED BY <1>4, <1>6, <2>1, <2>2, <2>3, RowWritten
<1>7. CASE copy.mc # Bad /\ copy.profile = desired /\ unbound' = Rebound(u, copy) /\ UNCHANGED user
  <2>1. /\ unbound' \subseteq Users /\ \A v \in Users : v # u /\ v \in unbound => v \in unbound'
        /\ u \in unbound' \/ (user[u].mc = copy.mc /\ user[u].profile = copy.profile)
    BY <1>7 DEF UsersOK, Rebound
  <2>2. Bound(u)'
    BY <1>4, <1>7, <2>1 DEF Bound
  <2>3. \A v \in Users : v # u => Bound(v)'
    BY <1>7, <2>1 DEF UsersOK, Bound, Live
  <2> QED BY <1>7, <2>1, <2>2, <2>3 DEF UsersOK, Apart, Live
<1>8. CASE UNCHANGED <<user, unbound>>
  BY <1>8 DEF UsersOK, Apart, Bound, Live
<1> QED BY <1>1, <1>2, <1>3, <1>6, <1>7, <1>8 DEF Reconcile

(* The id the refresh writes and the id it found the row by are the same.    *)
LEMMA RefreshKeeps ==
  ASSUME UsersOK, CallsOK, NEW c \in Calls, RefreshBootstrapRow(c)
  PROVE  UsersOK'
<1>1. PICK k : k = call[c]
  OBVIOUS
<1>2. /\ k.pc = "refresh" /\ k.user \in Users /\ k.name \in Names /\ k.text \in Texts
      /\ k.binds \in {"mc", "profile"}
      /\ k.binds = "mc" => k.row.profile = k.text.id
      /\ k.binds = "profile" => k.row.mc = k.text
  BY <1>1 DEF RefreshBootstrapRow, CallsOK, CallGood
<1>3. PICK u \in Users : u = k.user
  BY <1>2
<1> DEFINE byMc == [user[u] EXCEPT !.name = k.name, !.mc = k.text]
           byProfile == [user[u] EXCEPT !.name = k.name, !.profile = undash_uuid(k.text)]
<1>4. /\ byMc \in UserRow /\ byMc.mc = k.text /\ byMc.profile = user[u].profile
      /\ byProfile \in UserRow /\ byProfile.mc = user[u].mc /\ byProfile.profile = k.text.id
  BY <1>2, TextIds DEF UsersOK, UserRow, undash_uuid
<1> HIDE DEF byMc, byProfile
<1>5. ASSUME unbound' = Rebound(u, k.row)
      PROVE  /\ unbound' \subseteq Users /\ \A v \in Users : v # u /\ v \in unbound => v \in unbound'
             /\ u \in unbound' \/ (user[u].mc = k.row.mc /\ user[u].profile = k.row.profile)
  BY <1>5 DEF UsersOK, Rebound
<1>6. CASE k.binds = "mc" /\ FitsRow(u, byMc) /\ Write(u, byMc) /\ unbound' = Rebound(u, k.row)
  BY <1>2, <1>4, <1>5, <1>6, RowWritten
<1>7. CASE k.binds = "profile" /\ FitsRow(u, byProfile) /\ Write(u, byProfile)
           /\ unbound' = Rebound(u, k.row)
  BY <1>2, <1>4, <1>5, <1>7, RowWritten
<1>8. CASE UNCHANGED <<user, unbound>>
  BY <1>8 DEF UsersOK, Apart, Bound, Live
<1> QED BY <1>1, <1>2, <1>3, <1>6, <1>7, <1>8 DEF RefreshBootstrapRow, byMc, byProfile

LEMMA InsertKeeps ==
  ASSUME UsersOK, CallsOK, NEW c \in Calls, InsertBootstrapRow(c)
  PROVE  UsersOK'
<1>1. call[c].name \in Names /\ call[c].text \in Texts
  BY DEF InsertBootstrapRow, CallsOK, CallGood
<1> DEFINE row == New(call[c].name, call[c].text, undash_uuid(call[c].text))
<1>2. row \in UserRow /\ row.profile = row.mc.id
  BY <1>1, TextIds, NewRow DEF undash_uuid
<1>3. unbound' = unbound
  BY DEF InsertBootstrapRow
<1>4. ASSUME NEW u \in Users, FitsRow(u, row), Write(u, row) PROVE UsersOK'
  <2> HIDE DEF row
  <2> QED BY <1>2, <1>3, <1>4, RowWritten DEF UsersOK
<1>5. CASE UNCHANGED user
  BY <1>3, <1>5 DEF UsersOK, Apart, Bound, Live
<1> QED BY <1>4, <1>5 DEF InsertBootstrapRow

-----------------------------------------------------------------------------
(* The requests and the announcements.                                       *)
LEMMA CallMoves ==
  ASSUME CallsOK, NEW c \in Calls, NEW q, CallGood(q), call' = [call EXCEPT ![c] = q]
  PROVE  CallsOK' /\ call'[c] = q /\ \A d \in Calls : d # c => call'[d] = call[d]
<1>1. DOMAIN call' = Calls /\ call'[c] = q /\ \A d \in Calls : d # c => call'[d] = call[d]
  BY DEF CallsOK
<1> QED BY <1>1 DEF CallsOK

LEMMA Ended == CallGood(NoCall) /\ ~InUse(NoCall)
BY DEF CallGood, InUse, NoCall

(* Announcements that only disappear leave the rest as they were.            *)
LEMMA NumbersShrink ==
  ASSUME NumbersOK, requests \in Nat, requests' \in Nat, requests' >= requests, UNCHANGED answered,
         \A c \in Calls : call'[c] = call[c] \/ ~InUse(call'[c]),
         \A s \in Servers : joins'[s] # NoJoin => joins[s] # NoJoin /\ joins'[s].n = joins[s].n
  PROVE  NumbersOK'
<1>1. \A c \in Calls : InUse(call'[c]) => InUse(call[c]) /\ NumberOf(call'[c]) = NumberOf(call[c])
  OBVIOUS
<1>2. \A c \in Calls : InUse(call'[c]) => NumberOf(call'[c]) \in 1..requests'
  BY <1>1 DEF NumbersOK
<1>3. \A c, d \in Calls :
        InUse(call'[c]) /\ InUse(call'[d]) /\ c # d => NumberOf(call'[c]) # NumberOf(call'[d])
  BY <1>1 DEF NumbersOK
<1>4. \A s \in Servers : joins'[s] # NoJoin => joins'[s].n \in 1..requests'
  BY DEF NumbersOK
<1>5. \A s, t \in Servers :
        joins'[s] # NoJoin /\ joins'[t] # NoJoin /\ s # t => joins'[s].n # joins'[t].n
  BY DEF NumbersOK
<1>6. \A c \in Calls, s \in Servers :
        InUse(call'[c]) /\ joins'[s] # NoJoin => NumberOf(call'[c]) # joins'[s].n
  BY <1>1 DEF NumbersOK
<1>7. \A a \in answered' : a.n \in 1..requests'
  BY DEF NumbersOK
<1>8. \A c \in Calls, a \in answered' : call'[c].pc = "record" => call'[c].n # a.n
  <2>1. \A c \in Calls : call'[c].pc = "record" => call'[c] = call[c]
    BY DEF InUse
  <2> QED BY <2>1 DEF NumbersOK
<1> QED BY <1>2, <1>3, <1>4, <1>5, <1>6, <1>7, <1>8 DEF NumbersOK, InUse, NumberOf

LEMMA Asked ==
  ASSUME BoundsOK, Ask, UNCHANGED faults
  PROVE  BoundsOK' /\ requests \in Nat /\ requests' = requests + 1
BY IdentityAssumption DEF BoundsOK, Ask

LEMMA NotAsked ==
  ASSUME BoundsOK, UNCHANGED <<requests, faults>>
  PROVE  BoundsOK' /\ requests \in Nat /\ requests' = requests
BY IdentityAssumption DEF BoundsOK

(* The steps that write accounts and at most end a call.                     *)
LEMMA AccountSteps ==
  ASSUME IdentityInv, UsersOK', UNCHANGED <<joins, answered>>, BoundsOK', requests' >= requests,
         call' = call \/ \E c \in Calls : \E q : call' = [call EXCEPT ![c] = q] /\ CallGood(q) /\ ~InUse(q)
  PROVE  IdentityInv'
<1> DEFINE Moves == CallsOK' /\ \A c \in Calls : call'[c] = call[c] \/ ~InUse(call'[c])
<1>1. Moves
  <2>1. CASE call' = call
    BY <2>1 DEF IdentityInv, CallsOK
  <2>2. ASSUME NEW c \in Calls, NEW q, call' = [call EXCEPT ![c] = q],
               CallGood(q), ~InUse(q)
        PROVE  Moves
    BY <2>2, CallMoves DEF IdentityInv
  <2> QED BY <2>1, <2>2
<1>2. JoinsOK'
  BY DEF IdentityInv, JoinsOK
<1>3. requests \in Nat /\ requests' \in Nat
  BY IdentityAssumption DEF IdentityInv, BoundsOK
<1>4. NumbersOK'
  BY <1>1, <1>3, NumbersShrink DEF IdentityInv
<1> QED BY <1>1, <1>2, <1>4 DEF IdentityInv

LEMMA LookupKeepsInv ==
  ASSUME IdentityInv, NEW c \in Calls,
         \/ \E u \in Users : Login(c, u)
         \/ \E text \in Texts, name \in Names : ModBootstrap(c, text, name)
         \/ FindByProfile(c)
  PROVE  IdentityInv'
<1>1. UsersOK' /\ UNCHANGED <<joins, answered, user>>
  BY DEF Login, ModBootstrap, FindByProfile, IdentityInv, UsersOK, Apart, Bound, Live
<1>2. BoundsOK' /\ requests' >= requests
  BY Asked, NotAsked DEF Login, ModBootstrap, FindByProfile, IdentityInv
<1> DEFINE Moves == \E q : call' = [call EXCEPT ![c] = q] /\ CallGood(q) /\ ~InUse(q)
<1>3. Moves
  <2>1. ASSUME NEW u \in Users, Login(c, u) PROVE Moves
    <3> DEFINE q == [pc |-> "reconcile", user |-> u, row |-> user[u]]
    <3>1. CallGood(q) /\ ~InUse(q)
      BY DEF CallGood, InUse, IdentityInv, UsersOK
    <3>2. call' = [call EXCEPT ![c] = q]
      BY <2>1 DEF Login
    <3> QED BY <3>1, <3>2
  <2>2. ASSUME NEW u \in Users, NEW name \in Names, NEW text \in Texts, NEW binds \in {"mc", "profile"},
               binds = "mc" => user[u].profile = text.id, binds = "profile" => user[u].mc = text
        PROVE  CallGood(Refresh(u, name, text, binds)) /\ ~InUse(Refresh(u, name, text, binds))
    BY <2>2 DEF CallGood, InUse, Refresh
  <2>3. ASSUME NEW pc \in {"find", "insert"}, NEW name \in Names, NEW text \in Texts
        PROVE  /\ CallGood([pc |-> pc, name |-> name, text |-> text])
               /\ ~InUse([pc |-> pc, name |-> name, text |-> text])
    BY DEF CallGood, InUse
  <2>4. ASSUME NEW text \in Texts, NEW name \in Names, ModBootstrap(c, text, name) PROVE Moves
    <3>1. CASE find_by_minecraft_uuid(text) # {}
      <4>1. PICK u \in Users : u = CHOOSE v \in find_by_minecraft_uuid(text) : TRUE
        BY <3>1 DEF find_by_minecraft_uuid
      <4>2. user[u].mc = text
        BY <3>1, <4>1 DEF find_by_minecraft_uuid
      <4>3. call' = [call EXCEPT ![c] = Refresh(u, name, text, "profile")]
        BY <2>4, <3>1, <4>1 DEF ModBootstrap
      <4> QED BY <2>2, <4>2, <4>3
    <3>2. CASE find_by_minecraft_uuid(text) = {}
      <4>1. call' = [call EXCEPT ![c] = [pc |-> "find", name |-> name, text |-> text]]
        BY <2>4, <3>2 DEF ModBootstrap
      <4> QED BY <2>3, <4>1
    <3> QED BY <3>1, <3>2
  <2>5. CASE FindByProfile(c)
    <3>1. PICK name \in Names, text \in Texts : name = call[c].name /\ text = call[c].text
      BY <2>5 DEF FindByProfile, IdentityInv, CallsOK, CallGood
    <3> DEFINE found == find_by_profile_uuid(undash_uuid(text))
    <3>2. call' = [call EXCEPT ![c] =
                     IF found # {}
                       THEN Refresh(CHOOSE u \in found : TRUE, name, text, "mc")
                       ELSE [pc |-> "insert", name |-> name, text |-> text]]
      BY <2>5, <3>1 DEF FindByProfile, IdentityInv, CallsOK
    <3>3. CASE found # {}
      <4>1. PICK u \in Users : u = CHOOSE v \in found : TRUE
        BY <3>3 DEF find_by_profile_uuid
      <4>2. user[u].profile = text.id
        BY <3>3, <4>1 DEF find_by_profile_uuid, undash_uuid
      <4>3. call' = [call EXCEPT ![c] = Refresh(u, name, text, "mc")]
        BY <3>2, <3>3, <4>1
      <4> QED BY <2>2, <4>2, <4>3
    <3>4. CASE found = {}
      <4>1. call' = [call EXCEPT ![c] = [pc |-> "insert", name |-> name, text |-> text]]
        BY <3>2, <3>4
      <4> QED BY <2>3, <4>1
    <3> QED BY <3>3, <3>4
  <2> QED BY <2>1, <2>4, <2>5
<1> QED BY <1>1, <1>2, <1>3, AccountSteps

LEMMA WritesKeepInv ==
  ASSUME IdentityInv,
         \/ \E u \in Users, name \in Names :
              \/ Register(u, name) \/ Rename(u, name)
              \/ \E text \in Texts \cup {NoText} : AdminCreate(u, name, text)
         \/ \E u \in Users : DeleteUser(u) \/ \E text \in Texts \cup {Bad} : Bootstrap(u, text)
         \/ \E c \in Calls : Reconcile(c) \/ RefreshBootstrapRow(c) \/ InsertBootstrapRow(c)
  PROVE  IdentityInv'
<1>1. UsersOK'
  BY RegisterKeeps, RenameKeeps, AdminCreateKeeps, DeleteUserKeeps, BootstrapKeeps, ReconcileKeeps,
     RefreshKeeps, InsertKeeps DEF IdentityInv
<1>2. UNCHANGED <<joins, answered>>
  BY DEF Register, Rename, AdminCreate, DeleteUser, Bootstrap, Reconcile, RefreshBootstrapRow,
         InsertBootstrapRow
<1>3. BoundsOK' /\ requests' >= requests
  <2>1. (Ask /\ UNCHANGED faults) \/ UNCHANGED <<requests, faults>>
    BY DEF Register, Rename, AdminCreate, DeleteUser, Bootstrap, Reconcile, RefreshBootstrapRow,
           InsertBootstrapRow
  <2> QED BY <2>1, Asked, NotAsked DEF IdentityInv
<1>4. call' = call \/ \E c \in Calls : call' = [call EXCEPT ![c] = NoCall]
  BY DEF Register, Rename, AdminCreate, DeleteUser, Bootstrap, Reconcile, RefreshBootstrapRow,
         InsertBootstrapRow
<1> QED BY <1>1, <1>2, <1>3, <1>4, Ended, AccountSteps

-----------------------------------------------------------------------------
(* The session server.                                                       *)
LEMMA JoinKeepsInv ==
  ASSUME IdentityInv, NEW c \in Calls, NEW s \in Servers, NEW u \in Users, NEW claimed,
         Join(c, s, u, claimed)
  PROVE  IdentityInv'
<1> DEFINE q == [pc |-> "record", n |-> requests + 1, user |-> u, server |-> s]
<1>1. /\ BoundsOK' /\ requests \in Nat /\ requests' = requests + 1
      /\ UNCHANGED <<user, joins, unbound, answered>> /\ call' = [call EXCEPT ![c] = q]
  BY Asked DEF Join, IdentityInv
<1>2. CallGood(q) /\ q.pc = "record" /\ InUse(q) /\ NumberOf(q) = requests + 1 /\ q.n = requests + 1
  BY DEF CallGood, InUse, NumberOf
<1> HIDE DEF q
<1>3. CallsOK' /\ call'[c] = q /\ \A d \in Calls : d # c => call'[d] = call[d]
  BY <1>1, <1>2, CallMoves DEF IdentityInv
<1>4. UsersOK' /\ JoinsOK'
  BY <1>1 DEF IdentityInv, UsersOK, Apart, Bound, Live, JoinsOK
<1>5. NumbersOK'
  <2>1. \A d \in Calls : InUse(call'[d]) => NumberOf(call'[d]) \in 1..(requests + 1)
    BY <1>1, <1>2, <1>3 DEF IdentityInv, NumbersOK
  <2>2. \A d, e \in Calls :
          InUse(call'[d]) /\ InUse(call'[e]) /\ d # e => NumberOf(call'[d]) # NumberOf(call'[e])
    BY <1>1, <1>2, <1>3 DEF IdentityInv, NumbersOK
  <2>3. \A d \in Calls, t \in Servers :
          InUse(call'[d]) /\ joins[t] # NoJoin => NumberOf(call'[d]) # joins[t].n
    BY <1>1, <1>2, <1>3 DEF IdentityInv, NumbersOK
  <2>4. \A d \in Calls, a \in answered : call'[d].pc = "record" => call'[d].n # a.n
    BY <1>1, <1>2, <1>3 DEF IdentityInv, NumbersOK
  <2>5. /\ \A t \in Servers : joins[t] # NoJoin => joins[t].n \in 1..(requests + 1)
        /\ \A a \in answered : a.n \in 1..(requests + 1)
    BY <1>1 DEF IdentityInv, NumbersOK
  <2> QED BY <1>1, <2>1, <2>2, <2>3, <2>4, <2>5 DEF IdentityInv, NumbersOK, InUse, NumberOf
<1> QED BY <1>1, <1>3, <1>4, <1>5 DEF IdentityInv

(* What the sweep leaves of the map.                                         *)
LEMMA SweptShrinks ==
  \A s \in Servers : Swept[s] # NoJoin => Swept[s] = joins[s]
BY DEF Swept

LEMMA RecordKeepsInv ==
  ASSUME IdentityInv, NEW c \in Calls, Record(c)
  PROVE  IdentityInv'
<1>1. PICK k : k = call[c]
  OBVIOUS
<1> DEFINE j == [n |-> k.n, user |-> k.user, lapsed |-> FALSE]
<1>2. /\ k.pc = "record" /\ k.server \in Servers /\ k.user \in Users
      /\ k.n \in 1..requests /\ NumberOf(k) = k.n /\ InUse(k)
  BY <1>1 DEF Record, IdentityInv, CallsOK, CallGood, NumbersOK, InUse, NumberOf
<1>3. /\ joins' = [Swept EXCEPT ![k.server] = j] /\ call' = [call EXCEPT ![c] = NoCall]
      /\ UNCHANGED <<user, unbound, answered, requests, faults>>
  BY <1>1 DEF Record
<1>4. j.n = k.n /\ j.user = k.user
  OBVIOUS
<1> HIDE DEF j
<1>5. CallsOK' /\ call'[c] = NoCall /\ \A d \in Calls : d # c => call'[d] = call[d]
  BY <1>3, Ended, CallMoves DEF IdentityInv
<1>6. /\ DOMAIN joins' = Servers /\ joins'[k.server] = j
      /\ \A t \in Servers : t # k.server /\ joins'[t] # NoJoin => joins[t] # NoJoin /\ joins'[t] = joins[t]
  BY <1>2, <1>3, SweptShrinks DEF Swept
<1>7. UsersOK' /\ JoinsOK' /\ BoundsOK'
  BY <1>2, <1>3, <1>4, <1>6 DEF IdentityInv, UsersOK, Apart, Bound, Live, JoinsOK, BoundsOK
<1>8. NumbersOK'
  <2>1. \A d \in Calls : InUse(call'[d]) => d # c /\ call'[d] = call[d]
    BY <1>5, Ended
  <2>2. \A d \in Calls : InUse(call'[d]) => NumberOf(call'[d]) \in 1..requests /\ NumberOf(call'[d]) # k.n
    BY <1>1, <1>2, <2>1 DEF IdentityInv, NumbersOK
  <2>3. \A d, e \in Calls :
          InUse(call'[d]) /\ InUse(call'[e]) /\ d # e => NumberOf(call'[d]) # NumberOf(call'[e])
    BY <2>1 DEF IdentityInv, NumbersOK
  <2>4. \A t \in Servers : joins'[t] # NoJoin => joins'[t].n \in 1..requests
    BY <1>2, <1>4, <1>6 DEF IdentityInv, NumbersOK
  <2>5. \A t \in Servers : joins[t] # NoJoin => joins[t].n # k.n
    BY <1>1, <1>2 DEF IdentityInv, NumbersOK
  <2>6. \A t, v \in Servers :
          joins'[t] # NoJoin /\ joins'[v] # NoJoin /\ t # v => joins'[t].n # joins'[v].n
    BY <1>4, <1>6, <2>5 DEF IdentityInv, NumbersOK
  <2>7. \A d \in Calls, t \in Servers :
          InUse(call'[d]) /\ joins'[t] # NoJoin => NumberOf(call'[d]) # joins'[t].n
    BY <1>4, <1>6, <2>1, <2>2 DEF IdentityInv, NumbersOK
  <2>8. \A d \in Calls, a \in answered : call'[d].pc = "record" => call'[d].n # a.n
    BY <2>1 DEF IdentityInv, NumbersOK, InUse
  <2> QED BY <1>3, <2>2, <2>3, <2>4, <2>6, <2>7, <2>8 DEF IdentityInv, NumbersOK, InUse, NumberOf
<1> QED BY <1>5, <1>7, <1>8 DEF IdentityInv

LEMMA HasJoinedKeepsInv ==
  ASSUME IdentityInv, NEW c \in Calls, NEW s \in Servers, NEW name, HasJoined(c, s, name)
  PROVE  IdentityInv'
<1>1. /\ BoundsOK' /\ requests \in Nat /\ requests' = requests + 1
      /\ UNCHANGED <<user, unbound, answered>> /\ joins' = [Swept EXCEPT ![s] = NoJoin]
  BY Asked DEF HasJoined, taken, IdentityInv
<1>2. /\ DOMAIN joins' = Servers /\ joins'[s] = NoJoin
      /\ \A t \in Servers : joins'[t] # NoJoin => t # s /\ joins[t] # NoJoin /\ joins'[t] = joins[t]
  BY <1>1, SweptShrinks DEF Swept
<1>3. UsersOK' /\ JoinsOK'
  BY <1>1, <1>2 DEF IdentityInv, UsersOK, Apart, Bound, Live, JoinsOK
<1>4. CASE Swept[s] = NoJoin
  <2>1. call' = call
    BY <1>4 DEF HasJoined
  <2>2. CallsOK' /\ NumbersOK'
    BY <1>1, <1>2, <2>1, NumbersShrink DEF IdentityInv, CallsOK
  <2> QED BY <1>1, <1>3, <2>2 DEF IdentityInv
<1>5. CASE Swept[s] # NoJoin
  <2> DEFINE q == [pc |-> "load", server |-> s, name |-> name, join |-> joins[s]]
  <2>1. call' = [call EXCEPT ![c] = q] /\ joins[s] # NoJoin
    BY <1>5, SweptShrinks DEF HasJoined
  <2>2. /\ CallGood(q) /\ InUse(q) /\ NumberOf(q) = joins[s].n /\ q.pc = "load"
        /\ joins[s].n \in 1..requests
    BY <2>1 DEF CallGood, InUse, NumberOf, IdentityInv, JoinsOK, NumbersOK
  <2> HIDE DEF q
  <2>3. CallsOK' /\ call'[c] = q /\ \A d \in Calls : d # c => call'[d] = call[d]
    BY <2>1, <2>2, CallMoves DEF IdentityInv
  <2>4. \A d \in Calls : d # c /\ InUse(call[d]) => NumberOf(call[d]) # joins[s].n
    BY <2>1 DEF IdentityInv, NumbersOK
  <2>5. \A d \in Calls : InUse(call'[d]) => NumberOf(call'[d]) \in 1..(requests + 1)
    BY <1>1, <2>2, <2>3 DEF IdentityInv, NumbersOK
  <2>6. \A d, e \in Calls :
          InUse(call'[d]) /\ InUse(call'[e]) /\ d # e => NumberOf(call'[d]) # NumberOf(call'[e])
    BY <2>2, <2>3, <2>4 DEF IdentityInv, NumbersOK
  <2>7. \A t \in Servers : joins'[t] # NoJoin => joins'[t].n \in 1..(requests + 1)
    BY <1>1, <1>2 DEF IdentityInv, NumbersOK
  <2>8. \A t, v \in Servers :
          joins'[t] # NoJoin /\ joins'[v] # NoJoin /\ t # v => joins'[t].n # joins'[v].n
    BY <1>2 DEF IdentityInv, NumbersOK
  <2>9. \A d \in Calls, t \in Servers :
          InUse(call'[d]) /\ joins'[t] # NoJoin => NumberOf(call'[d]) # joins'[t].n
    <3>1. ASSUME NEW d \in Calls, NEW t \in Servers, InUse(call'[d]), joins'[t] # NoJoin
          PROVE  NumberOf(call'[d]) # joins'[t].n
      <4>1. t # s /\ joins[t] # NoJoin /\ joins'[t] = joins[t] /\ joins[t].n # joins[s].n
        BY <1>2, <2>1, <3>1 DEF IdentityInv, NumbersOK
      <4>2. CASE d = c
        BY <2>2, <2>3, <4>1, <4>2
      <4>3. CASE d # c
        BY <2>3, <3>1, <4>1, <4>3 DEF IdentityInv, NumbersOK
      <4> QED BY <4>2, <4>3
    <3> QED BY <3>1
  <2>10. /\ \A d \in Calls, a \in answered : call'[d].pc = "record" => call'[d].n # a.n
         /\ \A a \in answered : a.n \in 1..(requests + 1)
    BY <1>1, <2>2, <2>3 DEF IdentityInv, NumbersOK
  <2>11. NumbersOK'
    BY <1>1, <2>5, <2>6, <2>7, <2>8, <2>9, <2>10 DEF NumbersOK, InUse, NumberOf
  <2> QED BY <1>1, <1>3, <2>3, <2>11 DEF IdentityInv
<1> QED BY <1>4, <1>5

LEMMA AnswerKeepsInv ==
  ASSUME IdentityInv, NEW c \in Calls, AnswerHasJoined(c)
  PROVE  IdentityInv'
<1>1. PICK n : n = call[c].join.n
  OBVIOUS
<1>2. /\ call' = [call EXCEPT ![c] = NoCall] /\ UNCHANGED <<user, joins, unbound, requests, faults>>
      /\ call[c].pc = "load" /\ \A a \in answered' : a \in answered \/ a.n = n
  BY <1>1 DEF AnswerHasJoined
<1>3. InUse(call[c]) /\ NumberOf(call[c]) = n /\ n \in 1..requests
  BY <1>1, <1>2 DEF IdentityInv, NumbersOK, InUse, NumberOf
<1>4. CallsOK' /\ call'[c] = NoCall /\ \A d \in Calls : d # c => call'[d] = call[d]
  BY <1>2, Ended, CallMoves DEF IdentityInv
<1>5. UsersOK' /\ JoinsOK' /\ BoundsOK'
  BY <1>2 DEF IdentityInv, UsersOK, Apart, Bound, Live, JoinsOK, BoundsOK
<1>6. NumbersOK'
  <2>1. \A d \in Calls : InUse(call'[d]) => d # c /\ call'[d] = call[d] /\ InUse(call[d])
    BY <1>4, Ended
  <2>2. \A a \in answered' : a.n \in 1..requests
    BY <1>2, <1>3 DEF IdentityInv, NumbersOK
  <2>3. \A d \in Calls : call'[d].pc = "record" => call'[d].n # n
    <3>1. ASSUME NEW d \in Calls, call'[d].pc = "record" PROVE call'[d].n # n
      <4>1. InUse(call'[d]) /\ NumberOf(call'[d]) = call'[d].n
        BY <3>1 DEF InUse, NumberOf
      <4>2. NumberOf(call[d]) # NumberOf(call[c])
        BY <1>3, <2>1, <4>1 DEF IdentityInv, NumbersOK
      <4> QED BY <1>3, <2>1, <4>1, <4>2
    <3> QED BY <3>1
  <2>4. \A d \in Calls, a \in answered' : call'[d].pc = "record" => call'[d].n # a.n
    BY <1>2, <2>1, <2>3 DEF IdentityInv, NumbersOK, InUse
  <2>5. /\ \A d \in Calls : InUse(call'[d]) => NumberOf(call'[d]) \in 1..requests
        /\ \A d, e \in Calls :
             InUse(call'[d]) /\ InUse(call'[e]) /\ d # e => NumberOf(call'[d]) # NumberOf(call'[e])
        /\ \A d \in Calls, t \in Servers :
             InUse(call'[d]) /\ joins[t] # NoJoin => NumberOf(call'[d]) # joins[t].n
    BY <2>1 DEF IdentityInv, NumbersOK
  <2> QED BY <1>2, <2>2, <2>4, <2>5 DEF IdentityInv, NumbersOK, InUse, NumberOf
<1> QED BY <1>4, <1>5, <1>6 DEF IdentityInv

LEMMA FaultsKeepInv ==
  ASSUME IdentityInv, Restart \/ \E s \in Servers : Lapse(s)
  PROVE  IdentityInv'
<1>1. UNCHANGED <<user, unbound, answered, requests>> /\ BoundsOK' /\ requests \in Nat
  BY IdentityAssumption DEF Restart, Lapse, IdentityInv, BoundsOK
<1>2. UsersOK'
  BY <1>1 DEF IdentityInv, UsersOK, Apart, Bound, Live
<1>3. CASE Restart
  <2>1. CallsOK' /\ JoinsOK' /\ \A c \in Calls : ~InUse(call'[c])
    BY <1>3, Ended DEF Restart, CallsOK, JoinsOK
  <2>2. NumbersOK'
    BY <1>1, <1>3, <2>1, NumbersShrink DEF Restart, IdentityInv
  <2> QED BY <1>1, <1>2, <2>1, <2>2 DEF IdentityInv
<1>4. ASSUME NEW s \in Servers, Lapse(s) PROVE IdentityInv'
  <2>1. call' = call /\ joins' = [joins EXCEPT ![s].lapsed = TRUE] /\ joins[s] # NoJoin
    BY <1>4 DEF Lapse
  <2>2. /\ DOMAIN joins' = Servers /\ joins'[s].n = joins[s].n /\ joins'[s].user = joins[s].user
        /\ \A t \in Servers : t # s => joins'[t] = joins[t]
    BY <2>1 DEF IdentityInv, JoinsOK
  <2>3. CallsOK' /\ JoinsOK'
    BY <2>1, <2>2 DEF IdentityInv, CallsOK, JoinsOK
  <2>4. NumbersOK'
    BY <1>1, <2>1, <2>2, NumbersShrink DEF IdentityInv
  <2> QED BY <1>1, <1>2, <2>3, <2>4 DEF IdentityInv
<1> QED BY <1>3, <1>4

-----------------------------------------------------------------------------
LEMMA InitIdentity == Init => IdentityInv
<1> SUFFICES ASSUME Init PROVE IdentityInv
  OBVIOUS
<1> DEFINE Rows == user \in [Users -> UserRow] /\ \A u, v \in Users : Live(u) /\ Live(v) => u = v
<1>1. Rows
  <2>1. NoUser \in UserRow /\ NoUser.life = "absent"
    BY DEF NoUser, UserRow
  <2>2. CASE user = [u \in Users |-> NoUser]
    BY <2>1, <2>2 DEF Live
  <2>3. ASSUME NEW u \in Users, NEW name \in Names, NEW text \in [id : McIds, form : {"dashed"}],
               user = [v \in Users |-> IF v = u THEN Legacy(u, name, text) ELSE NoUser]
        PROVE  Rows
    <3>1. text \in Texts
      BY DEF Texts, Ids
    <3>2. Legacy(u, name, text) \in UserRow
      BY <3>1 DEF Legacy, New, UserRow
    <3> QED BY <2>1, <2>3, <3>2 DEF Live
  <2> QED BY <2>2, <2>3 DEF Init
<1>2. /\ joins = [s \in Servers |-> NoJoin] /\ call = [c \in Calls |-> NoCall]
      /\ unbound = {u \in Users : user[u].life = "live"}
      /\ answered = {} /\ requests = 0 /\ faults = 0
  BY DEF Init
<1>3. UsersOK
  BY <1>1, <1>2 DEF UsersOK, Apart, Bound, Live
<1>4. CallsOK /\ \A c \in Calls : ~InUse(call[c])
  BY <1>2, Ended DEF CallsOK
<1>5. NumbersOK /\ JoinsOK
  BY <1>2, <1>4 DEF NumbersOK, JoinsOK, InUse
<1>6. BoundsOK
  BY <1>2, IdentityAssumption DEF BoundsOK
<1> QED BY <1>3, <1>4, <1>5, <1>6 DEF IdentityInv

LEMMA NextIdentity == IdentityInv /\ [Next]_vars => IdentityInv'
<1> SUFFICES ASSUME IdentityInv, [Next]_vars PROVE IdentityInv'
  OBVIOUS
<1>1. Sent \subseteq Texts
  BY DEF Sent
<1>2. CASE UNCHANGED vars
  BY <1>2 DEF vars, IdentityInv, UsersOK, Apart, Bound, Live, CallsOK, NumbersOK, JoinsOK, BoundsOK
<1>3. CASE Next
  <2>1. ASSUME \/ \E u \in Users, name \in Names :
                    \/ Register(u, name) \/ Rename(u, name)
                    \/ \E text \in Sent \cup {NoText} : AdminCreate(u, name, text)
               \/ \E u \in Users : DeleteUser(u) \/ \E text \in Sent \cup {Bad} : Bootstrap(u, text)
               \/ \E c \in Calls : Reconcile(c) \/ RefreshBootstrapRow(c) \/ InsertBootstrapRow(c)
        PROVE  IdentityInv'
    BY <1>1, <2>1, WritesKeepInv
  <2>2. ASSUME NEW c \in Calls,
               \/ \E u \in Users : Login(c, u)
               \/ \E text \in Sent, name \in Names : ModBootstrap(c, text, name)
               \/ FindByProfile(c)
        PROVE  IdentityInv'
    BY <1>1, <2>2, LookupKeepsInv
  <2>3. ASSUME NEW c \in Calls, NEW s \in Servers, NEW u \in Users, NEW claimed \in Sent,
               Join(c, s, u, claimed)
        PROVE  IdentityInv'
    BY <2>3, JoinKeepsInv
  <2>4. ASSUME NEW c \in Calls, Record(c) PROVE IdentityInv'
    BY <2>4, RecordKeepsInv
  <2>5. ASSUME NEW c \in Calls, NEW s \in Servers, NEW name \in Names, HasJoined(c, s, name)
        PROVE  IdentityInv'
    BY <2>5, HasJoinedKeepsInv
  <2>6. ASSUME NEW c \in Calls, AnswerHasJoined(c) PROVE IdentityInv'
    BY <2>6, AnswerKeepsInv
  <2>7. ASSUME Restart \/ \E s \in Servers : Lapse(s) PROVE IdentityInv'
    BY <2>7, FaultsKeepInv
  <2> QED BY <1>3, <2>1, <2>2, <2>3, <2>4, <2>5, <2>6, <2>7 DEF Next
<1> QED BY <1>2, <1>3

(* The inductive invariant holds in every state of the specification.        *)
THEOREM IdentityInvariant == Spec => []IdentityInv
BY InitIdentity, NextIdentity, PTL DEF Spec

(* Profiles follow the Minecraft uuid (assign_or_reconcile_profile_uuid and  *)
(* the bootstraps) whatever requests overlap: an account whose profile is    *)
(* not its Minecraft uuid had the uuid set after it last reconciled.         *)
THEOREM ProfilesAreReconciled == Spec => []Reconciled
<1>1. IdentityInv => Reconciled
  BY DEF IdentityInv, UsersOK, UserRow, Apart, Bound, JoinsOK, BoundsOK, Reconciled, TypeOK
<1> QED BY <1>1, IdentityInvariant, PTL

(* A settled account, one row at a time: what a step may do to it.           *)
Moved(u) == ~(user'[u].profile = user[u].profile /\ user'[u].mc.id = user[u].mc.id)
StaleStep(u) ==
  \E c \in Calls : /\ call'[c] # call[c] /\ call[c].pc \in {"reconcile", "refresh"}
                   /\ call[c].user = u /\ Stale(c)
StaysSettled == \A u \in Users : Settled(u) /\ Moved(u) => StaleStep(u)

LEMMA OneRowMoves ==
  ASSUME user \in [Users -> UserRow], NEW u \in Users, NEW row, Write(u, row),
         Settled(u) => row.profile = user[u].profile /\ row.mc.id = user[u].mc.id
  PROVE  StaysSettled
<1>1. user'[u] = row /\ \A v \in Users : v # u => user'[v] = user[v]
  BY DEF Write
<1>2. ASSUME NEW v \in Users, Settled(v) PROVE ~Moved(v)
  BY <1>1, <1>2 DEF Moved
<1> QED BY <1>2 DEF StaysSettled

(* A login that read the row as it is wants the profile that the account     *)
(* has: its Minecraft id.                                                    *)
LEMMA ReconcileStays ==
  ASSUME IdentityInv, NEW c \in Calls, Reconcile(c)
  PROVE  StaysSettled
<1> DEFINE u == call[c].user
           copy == call[c].row
           desired == reconcile_profile_uuid(copy.mc, copy.profile, u)
           row == [user[u] EXCEPT !.profile = desired]
<1>1. /\ user \in [Users -> UserRow] /\ u \in Users /\ call[c].pc = "reconcile"
      /\ call'[c] = NoCall /\ (Write(u, row) \/ user' = user)
  BY DEF IdentityInv, UsersOK, CallsOK, CallGood, Reconcile
<1>2. call'[c] # call[c]
  BY <1>1 DEF NoCall
<1>3. CASE user' = user
  BY <1>3 DEF StaysSettled, Moved
<1>4. CASE Write(u, row) /\ Stale(c)
  <2>1. \A v \in Users : v # u => user'[v] = user[v]
    BY <1>1, <1>4 DEF Write
  <2>2. StaleStep(u)
    BY <1>1, <1>2, <1>4 DEF StaleStep
  <2> QED BY <2>1, <2>2 DEF StaysSettled, Moved
<1>5. CASE Write(u, row) /\ ~Stale(c)
  <2>1. copy.mc = user[u].mc
    BY <1>5 DEF Stale
  <2>2. Settled(u) => desired = user[u].mc.id
    BY <2>1, TextIds DEF Settled, reconcile_profile_uuid, undash_uuid
  <2>3. row.profile = desired /\ row.mc = user[u].mc
    BY <1>1 DEF UserRow
  <2>4. Settled(u) => row.profile = user[u].profile /\ row.mc.id = user[u].mc.id
    BY <2>2, <2>3 DEF Settled
  <2> HIDE DEF row, u
  <2> QED BY <1>1, <1>5, <2>4, OneRowMoves
<1> QED BY <1>1, <1>3, <1>4, <1>5

(* A mod bootstrap found the row by the id it does not write, and both ids   *)
(* of a settled account are that id, in some spelling.                       *)
LEMMA RefreshStays ==
  ASSUME IdentityInv, NEW c \in Calls, RefreshBootstrapRow(c)
  PROVE  StaysSettled
<1> DEFINE u == call[c].user
           text == call[c].text
           row == IF call[c].binds = "mc"
                    THEN [user[u] EXCEPT !.name = call[c].name, !.mc = text]
                    ELSE [user[u] EXCEPT !.name = call[c].name, !.profile = undash_uuid(text)]
<1>1. /\ user \in [Users -> UserRow] /\ u \in Users /\ call[c].pc = "refresh"
      /\ call'[c] = NoCall /\ (Write(u, row) \/ user' = user)
      /\ call[c].binds \in {"mc", "profile"}
      /\ call[c].binds = "mc" => call[c].row.profile = text.id
      /\ call[c].binds = "profile" => call[c].row.mc = text
  BY DEF IdentityInv, UsersOK, CallsOK, CallGood, RefreshBootstrapRow
<1>2. call'[c] # call[c]
  BY <1>1 DEF NoCall
<1>3. CASE user' = user
  BY <1>3 DEF StaysSettled, Moved
<1>4. CASE Write(u, row) /\ Stale(c)
  <2>1. \A v \in Users : v # u => user'[v] = user[v]
    BY <1>1, <1>4 DEF Write
  <2>2. StaleStep(u)
    BY <1>1, <1>2, <1>4 DEF StaleStep
  <2> QED BY <2>1, <2>2 DEF StaysSettled, Moved
<1>5. CASE Write(u, row) /\ ~Stale(c)
  <2>1. call[c].row.mc = user[u].mc /\ call[c].row.profile = user[u].profile
    BY <1>5 DEF Stale
  <2>2. CASE call[c].binds = "mc"
    <3>1. row.profile = user[u].profile /\ row.mc = text
      BY <1>1, <2>2 DEF UserRow
    <3>2. text.id = user[u].profile
      BY <1>1, <2>1, <2>2
    <3>3. Settled(u) => row.profile = user[u].profile /\ row.mc.id = user[u].mc.id
      BY <3>1, <3>2 DEF Settled
    <3> HIDE DEF row, u
    <3> QED BY <1>1, <1>5, <3>3, OneRowMoves
  <2>3. CASE call[c].binds = "profile"
    <3>1. row.profile = text.id /\ row.mc = user[u].mc
      BY <1>1, <2>3 DEF UserRow, undash_uuid
    <3>2. text = user[u].mc
      BY <1>1, <2>1, <2>3
    <3>3. Settled(u) => row.profile = user[u].profile /\ row.mc.id = user[u].mc.id
      BY <3>1, <3>2 DEF Settled
    <3> HIDE DEF row, u
    <3> QED BY <1>1, <1>5, <3>3, OneRowMoves
  <2> QED BY <1>1, <2>2, <2>3
<1> QED BY <1>1, <1>3, <1>4, <1>5

(* No request moves an account whose profile is its Minecraft id to another  *)
(* id, in any order and with any overlap (the bootstraps of network/users.rs *)
(* and assign_or_reconcile_profile_uuid), except the very call that writes   *)
(* on the strength of a copy of the row that is out of date.                 *)
THEOREM SettledIdentitiesStay == Spec => SettledIdentityStays
<1> DEFINE Stays == \A u \in Users :
       Settled(u) =>
         \/ user'[u].profile = user[u].profile /\ user'[u].mc.id = user[u].mc.id
         \/ \E c \in Calls : /\ call'[c] # call[c]
                            /\ call[c].pc \in {"reconcile", "refresh"}
                            /\ call[c].user = u /\ Stale(c)
<1>1. ASSUME IdentityInv, [Next]_vars PROVE StaysSettled
  <2>0. user \in [Users -> UserRow]
    BY <1>1 DEF IdentityInv, UsersOK
  <2>1. CASE UNCHANGED user
    BY <2>1 DEF StaysSettled, Moved
  <2>2. ASSUME NEW u \in Users, NEW row, user[u].life = "absent", Write(u, row) PROVE StaysSettled
    BY <2>0, <2>2, OneRowMoves DEF Settled, Live
  <2>3. ASSUME NEW u \in Users, NEW name, Register(u, name) \/ \E text : AdminCreate(u, name, text)
        PROVE  StaysSettled
    BY <2>2, <2>3 DEF Register, AdminCreate
  <2>4. ASSUME NEW u \in Users, NEW name, Rename(u, name) \/ DeleteUser(u) PROVE StaysSettled
    <3>1. \A x : /\ [user[u] EXCEPT !.name = x].mc = user[u].mc
                 /\ [user[u] EXCEPT !.life = x].mc = user[u].mc
                 /\ [user[u] EXCEPT !.name = x].profile = user[u].profile
                 /\ [user[u] EXCEPT !.life = x].profile = user[u].profile
      BY <2>0 DEF UserRow
    <3>2. PICK row : Write(u, row) /\ row.mc = user[u].mc /\ row.profile = user[u].profile
      BY <2>4, <3>1 DEF Rename, DeleteUser
    <3> QED BY <2>0, <3>2, OneRowMoves
  <2>5. ASSUME NEW u \in Users, NEW text, Bootstrap(u, text) PROVE StaysSettled
    <3> DEFINE row == [user[u] EXCEPT !.mc = bootstrap_fills(@, text)]
    <3>1. row.profile = user[u].profile /\ (row.mc = user[u].mc \/ user[u].mc = NoText)
      BY <2>0 DEF UserRow, bootstrap_fills
    <3>2. Settled(u) => row.mc = user[u].mc
      BY <3>1, TextIds DEF Settled
    <3>3. Write(u, row)
      BY <2>5 DEF Bootstrap
    <3> HIDE DEF row
    <3> QED BY <2>0, <3>1, <3>2, <3>3, OneRowMoves
  <2>6. ASSUME NEW c \in Calls, Reconcile(c) \/ RefreshBootstrapRow(c) PROVE StaysSettled
    BY <1>1, <2>6, ReconcileStays, RefreshStays
  <2>7. ASSUME NEW c \in Calls, InsertBootstrapRow(c) PROVE StaysSettled
    BY <2>1, <2>2, <2>7 DEF InsertBootstrapRow
  <2>8. ASSUME NEW c \in Calls,
                \/ \E u \in Users : Login(c, u)
                \/ \E text \in Sent, name \in Names : ModBootstrap(c, text, name)
                \/ FindByProfile(c)
                \/ \E s \in Servers, u \in Users, claimed \in Sent : Join(c, s, u, claimed)
                \/ Record(c)
                \/ \E s \in Servers, name \in Names : HasJoined(c, s, name)
                \/ AnswerHasJoined(c)
         PROVE  UNCHANGED user
    BY <2>8 DEF Login, ModBootstrap, FindByProfile, Join, Record, HasJoined, AnswerHasJoined
  <2>9. ASSUME Restart \/ \E s \in Servers : Lapse(s) PROVE UNCHANGED user
    BY <2>9 DEF Restart, Lapse
  <2>10. CASE Next
    BY <2>10, <2>1, <2>3, <2>4, <2>5, <2>6, <2>7, <2>8, <2>9 DEF Next
  <2> QED BY <1>1, <2>1, <2>10 DEF vars
<1>2. ASSUME IdentityInv, [Next]_vars PROVE [Stays]_vars
  BY <1>1, <1>2 DEF StaysSettled, Moved, StaleStep
<1> QED BY <1>2, IdentityInvariant, PTL DEF Spec, SettledIdentityStays

-----------------------------------------------------------------------------
(* The session server implements JoinContract.                               *)

(* A step that neither takes an announcement nor answers one.                *)
LEMMA SameClaims ==
  ASSUME \A c \in Calls : \/ call'[c] = call[c]
                          \/ call[c].pc # "load" /\ call'[c].pc # "load"
  PROVE  ClaimedJoins' = ClaimedJoins
BY DEF ClaimedJoins

LEMMA InitRefines == Init => Joins!Init
BY Ended DEF Init, Joins!Init, OpenJoins, ClaimedJoins, InUse

(* A recorded announcement has a number never used before.                   *)
LEMMA RecordRefines ==
  ASSUME IdentityInv, NEW c \in Calls, Record(c)
  PROVE  Joins!Next
<1>1. PICK k : k = call[c]
  OBVIOUS
<1> DEFINE j == [n |-> k.n, user |-> k.user, lapsed |-> FALSE]
<1>2. k.pc = "record" /\ k.server \in Servers /\ k.n \in 1..requests /\ InUse(k) /\ NumberOf(k) = k.n
  BY <1>1 DEF Record, IdentityInv, CallsOK, CallGood, NumbersOK, InUse, NumberOf
<1>3. joins' = [Swept EXCEPT ![k.server] = j] /\ answered' = answered
  BY <1>1 DEF Record
<1>4. j.n = k.n /\ j.user = k.user /\ j # NoJoin
  BY <1>2 DEF NoJoin
<1> HIDE DEF j
<1>5. PICK a : a = [n |-> k.n, server |-> k.server, user |-> k.user]
  OBVIOUS
<1>6. /\ joins'[k.server] = j
      /\ \A t \in Servers : t # k.server /\ joins'[t] # NoJoin => joins[t] # NoJoin /\ joins'[t] = joins[t]
  BY <1>2, <1>3, SweptShrinks DEF Swept
<1>7. a \in OpenJoins' /\ OpenJoins' \subseteq {b \in OpenJoins : b.server # a.server} \cup {a}
  BY <1>2, <1>4, <1>5, <1>6 DEF OpenJoins
<1>8. \A b \in OpenJoins \cup ClaimedJoins \cup answered : b.n # a.n
  <2>1. \A b \in OpenJoins : b.n # a.n
    BY <1>1, <1>2, <1>5 DEF OpenJoins, IdentityInv, NumbersOK
  <2>2. \A d \in Calls : call[d].pc = "load" => call[d].join.n # k.n
    BY <1>1, <1>2 DEF IdentityInv, NumbersOK, InUse, NumberOf
  <2>3. \A b \in ClaimedJoins : b.n # a.n
    BY <1>5, <2>2 DEF ClaimedJoins
  <2>4. \A b \in answered : b.n # a.n
    BY <1>1, <1>2, <1>5 DEF IdentityInv, NumbersOK
  <2> QED BY <2>1, <2>3, <2>4
<1>9. ClaimedJoins' = ClaimedJoins
  <2>1. call'[c] = NoCall /\ \A d \in Calls : d # c => call'[d] = call[d]
    BY DEF Record, IdentityInv, CallsOK
  <2> QED BY <1>1, <1>2, <2>1, SameClaims DEF NoCall
<1> QED BY <1>3, <1>7, <1>8, <1>9 DEF Joins!Next, Joins!Announce

(* The take claims what it finds and opens nothing.                          *)
LEMMA HasJoinedRefines ==
  ASSUME IdentityInv, NEW c \in Calls, NEW s \in Servers, NEW name, HasJoined(c, s, name)
  PROVE  Joins!Next
<1>1. joins' = [Swept EXCEPT ![s] = NoJoin] /\ answered' = answered /\ call[c].pc # "load"
  BY DEF HasJoined, taken, NoCall
<1>2. /\ joins'[s] = NoJoin
      /\ \A t \in Servers : joins'[t] # NoJoin => t # s /\ joins[t] # NoJoin /\ joins'[t] = joins[t]
  BY <1>1, SweptShrinks DEF Swept
<1>3. OpenJoins' \subseteq OpenJoins /\ \A b \in OpenJoins' : b.server # s
  BY <1>2 DEF OpenJoins
<1>4. CASE Swept[s] = NoJoin
  <2>1. ClaimedJoins' = ClaimedJoins
    BY <1>4, SameClaims DEF HasJoined
  <2> QED BY <1>1, <1>3, <2>1 DEF Joins!Next, Joins!Lose
<1>5. CASE Swept[s] # NoJoin
  <2>1. PICK a : a = [n |-> joins[s].n, server |-> s, user |-> joins[s].user]
    OBVIOUS
  <2> DEFINE q == [pc |-> "load", server |-> s, name |-> name, join |-> joins[s]]
  <2>2. call' = [call EXCEPT ![c] = q] /\ joins[s] # NoJoin
    BY <1>5, SweptShrinks DEF HasJoined
  <2>3. call'[c] = q /\ \A d \in Calls : d # c => call'[d] = call[d]
    BY <2>2 DEF IdentityInv, CallsOK
  <2>4. q.pc = "load" /\ a = [n |-> q.join.n, server |-> q.server, user |-> q.join.user]
    BY <2>1
  <2> HIDE DEF q
  <2>5. a \in OpenJoins /\ OpenJoins' \subseteq OpenJoins \ {a}
    BY <1>3, <2>1, <2>2 DEF OpenJoins
  <2>6. ClaimedJoins' = ClaimedJoins \cup {a}
    BY <1>1, <2>3, <2>4 DEF ClaimedJoins
  <2> QED BY <1>1, <2>5, <2>6 DEF Joins!Next, Joins!Claim
<1> QED BY <1>4, <1>5

(* Nobody else holds the claim that is answered or refused.                  *)
LEMMA AnswerRefines ==
  ASSUME IdentityInv, NEW c \in Calls, AnswerHasJoined(c)
  PROVE  Joins!Next
<1>1. PICK k : k = call[c]
  OBVIOUS
<1>2. PICK a : a = [n |-> k.join.n, server |-> k.server, user |-> k.join.user]
  OBVIOUS
<1>3. /\ k.pc = "load" /\ joins' = joins /\ call' = [call EXCEPT ![c] = NoCall]
      /\ answered' = answered \cup {a} \/ answered' = answered
  BY <1>1, <1>2 DEF AnswerHasJoined
<1>4. call'[c] = NoCall /\ NoCall.pc # "load" /\ \A d \in Calls : d # c => call'[d] = call[d]
  BY <1>3 DEF IdentityInv, CallsOK, NoCall
<1>5. \A d \in Calls : d # c /\ call[d].pc = "load" => call[d].join.n # a.n
  BY <1>1, <1>2, <1>3 DEF IdentityInv, NumbersOK, InUse, NumberOf
<1>6. a \in ClaimedJoins
  BY <1>1, <1>2, <1>3 DEF ClaimedJoins
<1>7. ASSUME NEW d \in Calls, call'[d].pc = "load"
      PROVE  d # c /\ [n |-> call'[d].join.n, server |-> call'[d].server, user |-> call'[d].join.user] # a
  BY <1>2, <1>4, <1>5, <1>7
<1>8. ClaimedJoins' = ClaimedJoins \ {a}
  <2>1. \A b \in ClaimedJoins' : b \in ClaimedJoins /\ b # a
    BY <1>4, <1>7 DEF ClaimedJoins
  <2>2. \A b \in ClaimedJoins : b # a => b \in ClaimedJoins'
    BY <1>1, <1>2, <1>4 DEF ClaimedJoins
  <2> QED BY <2>1, <2>2
<1>9. OpenJoins' = OpenJoins
  BY <1>3 DEF OpenJoins
<1> QED BY <1>3, <1>6, <1>8, <1>9 DEF Joins!Next, Joins!Answer, Joins!Lose

LEMMA FaultsRefine ==
  ASSUME IdentityInv, Restart \/ \E s \in Servers : Lapse(s)
  PROVE  Joins!Next
<1>1. CASE Restart
  <2>1. OpenJoins' = {} /\ ClaimedJoins' = {} /\ answered' = answered
    BY <1>1 DEF Restart, OpenJoins, ClaimedJoins, NoCall
  <2> QED BY <2>1 DEF Joins!Next, Joins!Lose
<1>2. ASSUME NEW s \in Servers, Lapse(s) PROVE Joins!Next
  <2>1. /\ call' = call /\ answered' = answered /\ joins' = [joins EXCEPT ![s].lapsed = TRUE]
        /\ joins[s] # NoJoin
    BY <1>2 DEF Lapse
  <2>2. /\ joins'[s].n = joins[s].n /\ joins'[s].user = joins[s].user
        /\ \A t \in Servers : t # s => joins'[t] = joins[t]
    BY <2>1 DEF IdentityInv, JoinsOK
  <2>3. OpenJoins' \subseteq OpenJoins
    BY <2>1, <2>2 DEF OpenJoins
  <2>4. ClaimedJoins' = ClaimedJoins
    BY <2>1, SameClaims
  <2> QED BY <2>1, <2>3, <2>4 DEF Joins!Next, Joins!Lose
<1> QED BY <1>1, <1>2

(* The steps of the table are no steps of the contract.                      *)
LEMMA AccountsRefine ==
  ASSUME IdentityInv, UNCHANGED <<joins, answered>>,
         call' = call \/ \E c \in Calls : \E q :
                           call' = [call EXCEPT ![c] = q] /\ call[c].pc # "load" /\ q.pc # "load"
  PROVE  UNCHANGED <<OpenJoins, ClaimedJoins, answered>>
<1>1. OpenJoins' = OpenJoins
  BY DEF OpenJoins
<1>2. ASSUME NEW c \in Calls, NEW q, call' = [call EXCEPT ![c] = q], call[c].pc # "load", q.pc # "load"
      PROVE  ClaimedJoins' = ClaimedJoins
  <2>1. call'[c] = q /\ \A d \in Calls : d # c => call'[d] = call[d]
    BY <1>2 DEF IdentityInv, CallsOK
  <2> QED BY <1>2, <2>1, SameClaims
<1>3. CASE call' = call
  BY <1>1, <1>3, SameClaims
<1> QED BY <1>1, <1>2, <1>3

LEMMA NextRefines ==
  IdentityInv /\ [Next]_vars => [Joins!Next]_<<OpenJoins, ClaimedJoins, answered>>
<1> SUFFICES ASSUME IdentityInv, [Next]_vars
             PROVE  Joins!Next \/ UNCHANGED <<OpenJoins, ClaimedJoins, answered>>
  OBVIOUS
<1>1. NoCall.pc # "load"
  BY DEF NoCall
<1>2. CASE UNCHANGED vars
  BY <1>2, AccountsRefine DEF vars
<1>3. ASSUME \/ \E u \in Users, name \in Names :
                  \/ Register(u, name) \/ Rename(u, name)
                  \/ \E text \in Sent \cup {NoText} : AdminCreate(u, name, text)
             \/ \E u \in Users : DeleteUser(u) \/ \E text \in Sent \cup {Bad} : Bootstrap(u, text)
      PROVE  UNCHANGED <<OpenJoins, ClaimedJoins, answered>>
  BY <1>3, AccountsRefine DEF Register, Rename, AdminCreate, DeleteUser, Bootstrap
<1>4. ASSUME NEW c \in Calls, Reconcile(c) \/ RefreshBootstrapRow(c) \/ InsertBootstrapRow(c)
      PROVE  UNCHANGED <<OpenJoins, ClaimedJoins, answered>>
  <2>1. /\ call' = [call EXCEPT ![c] = NoCall] /\ call[c].pc # "load"
        /\ UNCHANGED <<joins, answered>>
    BY <1>4 DEF Reconcile, RefreshBootstrapRow, InsertBootstrapRow
  <2> QED BY <1>1, <2>1, AccountsRefine
<1>5. ASSUME NEW c \in Calls, NEW u \in Users, Login(c, u)
      PROVE  UNCHANGED <<OpenJoins, ClaimedJoins, answered>>
  <2> DEFINE q == [pc |-> "reconcile", user |-> u, row |-> user[u]]
  <2>1. /\ call' = [call EXCEPT ![c] = q] /\ q.pc # "load" /\ call[c].pc # "load"
        /\ UNCHANGED <<joins, answered>>
    BY <1>1, <1>5 DEF Login
  <2> HIDE DEF q
  <2> QED BY <2>1, AccountsRefine
<1>6. ASSUME NEW c \in Calls, NEW q, call' = [call EXCEPT ![c] = q], call[c].pc # "load",
             UNCHANGED <<joins, answered>>, q.pc # "load"
      PROVE  UNCHANGED <<OpenJoins, ClaimedJoins, answered>>
  BY <1>6, AccountsRefine
<1>7. \A u, name, text, binds, pc :
        /\ Refresh(u, name, text, binds).pc # "load"
        /\ pc # "load" => [pc |-> pc, name |-> name, text |-> text].pc # "load"
  BY DEF Refresh
<1>8. ASSUME NEW c \in Calls, NEW text \in Sent, NEW name \in Names, ModBootstrap(c, text, name)
      PROVE  UNCHANGED <<OpenJoins, ClaimedJoins, answered>>
  <2>1. PICK q : /\ call' = [call EXCEPT ![c] = q]
                 /\ \/ \E u : q = Refresh(u, name, text, "profile")
                    \/ q = [pc |-> "find", name |-> name, text |-> text]
    BY <1>8 DEF ModBootstrap
  <2>2. q.pc # "load"
    BY <1>7, <2>1
  <2>3. call[c].pc # "load" /\ UNCHANGED <<joins, answered>>
    BY <1>1, <1>8 DEF ModBootstrap
  <2> QED BY <1>6, <2>1, <2>2, <2>3
<1>9. ASSUME NEW c \in Calls, FindByProfile(c)
      PROVE  UNCHANGED <<OpenJoins, ClaimedJoins, answered>>
  <2>1. PICK q : /\ call' = [call EXCEPT ![c] = q]
                 /\ \/ \E u : q = Refresh(u, call[c].name, call[c].text, "mc")
                    \/ q = [pc |-> "insert", name |-> call[c].name, text |-> call[c].text]
    BY <1>9 DEF FindByProfile, IdentityInv, CallsOK
  <2>2. q.pc # "load"
    BY <1>7, <2>1
  <2>3. call[c].pc # "load" /\ UNCHANGED <<joins, answered>>
    BY <1>9 DEF FindByProfile
  <2> QED BY <1>6, <2>1, <2>2, <2>3
<1>10. ASSUME NEW c \in Calls, NEW s \in Servers, NEW u \in Users, NEW claimed \in Sent,
              Join(c, s, u, claimed)
       PROVE  UNCHANGED <<OpenJoins, ClaimedJoins, answered>>
  <2> DEFINE q == [pc |-> "record", n |-> requests + 1, user |-> u, server |-> s]
  <2>1. /\ call' = [call EXCEPT ![c] = q] /\ q.pc # "load" /\ call[c].pc # "load"
        /\ UNCHANGED <<joins, answered>>
    BY <1>1, <1>10 DEF Join
  <2> HIDE DEF q
  <2> QED BY <1>6, <2>1
<1>11. ASSUME NEW c \in Calls,
              Record(c) \/ AnswerHasJoined(c)
              \/ \E s \in Servers, name \in Names : HasJoined(c, s, name)
       PROVE  Joins!Next
  BY <1>11, RecordRefines, AnswerRefines, HasJoinedRefines
<1>12. ASSUME Restart \/ \E s \in Servers : Lapse(s) PROVE Joins!Next
  BY <1>12, FaultsRefine
<1> QED BY <1>2, <1>3, <1>4, <1>5, <1>8, <1>9, <1>10, <1>11, <1>12 DEF Next

(* Whatever join and hasJoined requests overlap, and across restarts and     *)
(* expiry, the map of join sessions (join_sessions.rs record and take) keeps *)
(* the session server's contract: an announcement is answered at most once,  *)
(* as it was announced, and a newer one for the same server replaces it.     *)
THEOREM SessionServerKeepsContract == Spec => ImplementsJoinContract
<1>1. Spec => Joins!Spec
  BY InitRefines, NextRefines, IdentityInvariant, PTL DEF Spec, Joins!Spec
<1> QED BY <1>1 DEF ImplementsJoinContract
=============================================================================
