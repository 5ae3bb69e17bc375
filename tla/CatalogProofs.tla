--------------------------- MODULE CatalogProofs ---------------------------
(***************************************************************************)
(* The catalog's tables, directories and answers, for any number of        *)
(* builds, bundles, slugs, tags, calls in flight, requests and faults.     *)
(*                                                                         *)
(* The properties are about several calls at once and not inductive: what  *)
(* an update decided in one statement must still hold when it commits.     *)
(* The parts below say what its row locks preserve in between, what a call *)
(* that overlaps nothing may rely on, and what the directories will be     *)
(* once a call is through.                                                 *)
(***************************************************************************)
EXTENDS Catalog, FiniteSetTheorems, TLAPS

(* A slug names one live build and one live bundle; a link leads somewhere.  *)
ClientsOK ==
    /\ client \in [Clients -> Client \cup {Unused, Gone}]
    /\ \A k, j \in Live(client) : client[k].slug = client[j].slug => k = j

BundlesOK ==
    /\ bundle \in [Bundles -> Bundle \cup {Unused, Gone}]
    /\ \A b, i \in Live(bundle) : bundle[b].slug = bundle[i].slug => b = i

LinksOK == \A k \in Live(client) : client[k].link \in Live(bundle) \cup {None}

TagsOK ==
    /\ tag \in [Tags -> {"unused", "gone", "draft", "published"}]
    /\ attached \subseteq Live(client) \X LiveTags

CallsOK ==
    /\ call \in [Calls -> Handler]
    /\ dir \in [Slugs -> {None, "empty", "filled"}]
    /\ overlapped \in BOOLEAN /\ requests \in 0 .. MaxRequests /\ faults \in 0 .. MaxFaults

SeenOK == visible \in [Calls -> SUBSET (Clients \cup Bundles \cup Tags)]

(* A build and a bundle that were read have been there.                      *)
FoundOK ==
    \A c \in Calls : call[c].pc = "found" =>
        /\ client[call[c].client] # Unused
        /\ call[c].old # None => bundle[call[c].old] # Unused

(* What the row locks of an update in progress keep true until it commits.   *)
Lock(c) ==
    /\ client[call[c].client] # Unused
    /\ call[c].client \in Live(client) =>
          /\ \A k \in Live(client) : client[k].slug = call[c].slug => k = call[c].client
          /\ \A d \in Holding \ {c} : call[d].client # call[c].client /\ call[d].slug # call[c].slug
    /\ call[c].keep =>
          /\ call[c].client \in Live(client) /\ client[call[c].client].link = call[c].old
          /\ call[c].old # None /\ bundle[call[c].old].slug = call[c].target
    /\ call[c].drop =>
          /\ call[c].old # None /\ bundle[call[c].old] # Unused
          /\ call[c].old \in Live(bundle) => bundle[call[c].old].slug # call[c].target

LocksOK == \A c \in Updating : Lock(c)

(* A call that overlaps no other: it is alone, and what it decided holds.    *)
Busy(c) == call[c].pc \in {"found", "commit", "dirs"}
Alone ==
    ~ overlapped =>
        /\ \A c, d \in Calls : Busy(c) /\ Busy(d) => c = d
        /\ \A c \in Updating : call[c].drop =>
              strand_old_bundle(call[c].client, call[c].old, call[c].optin)

(* The directories, as they are or as the call in progress will leave them.  *)
DirOf(t, s) ==
    LET at == {b \in Live(t) : t[b].slug = s}
    IN  IF at = {} THEN None ELSE IF \E b \in at : t[b].filled THEN "filled" ELSE "empty"
DirAfter(q, s) == IF s \in q.remove THEN None
                  ELSE IF s \in q.make /\ dir[s] = None THEN "empty" ELSE dir[s]
DirsOK ==
    ~ overlapped /\ faults = 0 =>
        /\ (\A c \in Calls : call[c].pc # "dirs") => \A s \in Slugs : dir[s] = DirOf(bundle, s)
        /\ \A c \in Calls : call[c].pc = "dirs" =>
              \A s \in Slugs : DirAfter(call[c], s) = DirOf(bundle, s)

Core ==
    /\ ClientsOK /\ BundlesOK /\ LinksOK /\ TagsOK /\ CallsOK
    /\ FoundOK /\ LocksOK /\ Alone /\ DirsOK

CatalogInv == Core /\ SeenOK /\ AnswerHidesDrafts

-----------------------------------------------------------------------------
LEMMA RowsDiffer ==
    /\ Unused \notin Client /\ Gone \notin Client /\ Unused # Gone
    /\ Unused \notin Bundle /\ Gone \notin Bundle
BY DEF Unused, Gone, Client, Bundle

LEMMA LiveClients ==
    ASSUME NEW t \in [Clients -> Client \cup {Unused, Gone}]
    PROVE  Live(t) \subseteq Clients /\ \A k \in Clients : k \in Live(t) <=> t[k] \in Client
BY RowsDiffer DEF Live

LEMMA LiveBundles ==
    ASSUME NEW t \in [Bundles -> Bundle \cup {Unused, Gone}]
    PROVE  Live(t) \subseteq Bundles /\ \A b \in Bundles : b \in Live(t) <=> t[b] \in Bundle
BY RowsDiffer DEF Live

(* ON DELETE SET NULL takes links and nothing else.                          *)
LEMMA UnlinkedRows ==
    ASSUME NEW t \in [Clients -> Client \cup {Unused, Gone}], NEW gone
    PROVE  /\ Unlinked(t, gone) \in [Clients -> Client \cup {Unused, Gone}]
           /\ Live(Unlinked(t, gone)) = Live(t)
           /\ \A k \in Live(t) :
                /\ Unlinked(t, gone)[k].slug = t[k].slug
                /\ Unlinked(t, gone)[k].published = t[k].published
                /\ Unlinked(t, gone)[k].link = IF t[k].link \in gone THEN None ELSE t[k].link
           /\ \A k \in Clients \ Live(t) : Unlinked(t, gone)[k] = t[k]
<1>a. PICK u : u = Unlinked(t, gone)
  OBVIOUS
<1>1. Live(t) \subseteq Clients /\ \A k \in Clients : k \in Live(t) <=> t[k] \in Client
  BY LiveClients
<1>2. ASSUME NEW k \in Live(t)
      PROVE  /\ u[k] \in Client /\ u[k].slug = t[k].slug /\ u[k].published = t[k].published
             /\ u[k].link = IF t[k].link \in gone THEN None ELSE t[k].link
  <2>1. t[k] \in Client /\ k \in Clients
    BY <1>1
  <2>2. u[k] = IF t[k].link \in gone THEN [t[k] EXCEPT !.link = None] ELSE t[k]
    BY <1>a, <2>1, <1>2 DEF Unlinked
  <2> QED BY <2>1, <2>2 DEF Client
<1>3. \A k \in Clients \ Live(t) : u[k] = t[k]
  BY <1>a DEF Unlinked
<1>4. u \in [Clients -> Client \cup {Unused, Gone}]
  BY <1>a, <1>1, <1>2, <1>3 DEF Unlinked
<1>5. Live(u) = Live(t)
  <2>1. Live(u) \subseteq Clients /\ \A k \in Clients : k \in Live(u) <=> u[k] \in Client
    BY <1>4, LiveClients
  <2> QED BY <1>1, <1>2, <1>3, <2>1
<1> QED BY <1>a, <1>2, <1>3, <1>4, <1>5

LEMMA CallFields ==
    ASSUME CallsOK, NEW c \in Calls
    PROVE  /\ call[c].pc = "found" => call[c] \in Found
           /\ call[c].pc = "commit" => call[c] \in Update
           /\ call[c].pc = "dirs" => call[c] \in Dirs
           /\ Reading(c) => call[c] \in Read
<1>1. call[c] \in Handler
  BY DEF CallsOK
<1> QED BY <1>1 DEF Handler, Idle, Found, Update, Dirs, Read, Reading

LEMMA CallSet ==
    ASSUME CallsOK, NEW c \in Calls, NEW q, Now(c, q)
    PROVE  call'[c] = q /\ \A d \in Calls \ {c} : call'[d] = call[d]
BY DEF CallsOK, Now

LEMMA CallTyped ==
    ASSUME CallsOK, NEW c \in Calls, NEW q, Now(c, q), q \in Handler
    PROVE  call' \in [Calls -> Handler]
BY DEF CallsOK, Now

(* What a handler does after its commit.                                     *)
Finishes(c, make, remove) ==
    /\ \A d \in Calls \ {c} : call'[d] = call[d]
    /\ \/ call'[c] = Idle /\ make = {} /\ remove = {}
       \/ call'[c].pc = "dirs" /\ call'[c].make = make /\ call'[c].remove = remove

LEMMA Finished ==
    ASSUME CallsOK, NEW c \in Calls, NEW make \in SUBSET Slugs, NEW remove \in SUBSET Slugs,
           Finish(c, make, remove)
    PROVE  /\ call' \in [Calls -> Handler]
           /\ Finishes(c, make, remove)
<1>a. PICK q : q = IF make \cup remove = {} THEN Idle
                   ELSE [pc |-> "dirs", make |-> make, remove |-> remove]
  OBVIOUS
<1>1. Now(c, q)
  BY <1>a DEF Finish
<1>2. q \in Handler
  BY <1>a DEF Handler, Dirs
<1>3. \/ q = Idle /\ make = {} /\ remove = {}
      \/ q.pc = "dirs" /\ q.make = make /\ q.remove = remove
  BY <1>a
<1> QED BY <1>1, <1>2, <1>3, CallSet, CallTyped DEF Finishes

-----------------------------------------------------------------------------
(* What a step does to the two tables: the bundles of gone go, and the links *)
(* to them; the bundles of new appear at one slug; the builds of ks change.  *)
ClientStep(gone, ks) ==
    /\ client' \in [Clients -> Client \cup {Unused, Gone}]
    /\ Live(client') \subseteq Live(client) \cup ks
    /\ \A j \in Live(client) \ ks :
          /\ j \in Live(client')
          /\ client'[j].slug = client[j].slug
          /\ client'[j].link = IF client[j].link \in gone THEN None ELSE client[j].link
    /\ \A j \in Clients : /\ client[j] = Gone => client'[j] = Gone
                          /\ client'[j] = Unused => client[j] = Unused

BundleStep(gone, new, target) ==
    /\ bundle' \in [Bundles -> Bundle \cup {Unused, Gone}]
    /\ Live(bundle') = (Live(bundle) \ gone) \cup new
    /\ \A i \in Live(bundle) \ gone : bundle'[i].slug = bundle[i].slug
    /\ \A i \in new : bundle'[i].slug = target /\ bundle[i] = Unused
    /\ \A i, j \in new : i = j
    /\ new # {} => \A i \in Live(bundle) : bundle[i].slug # target
    /\ \A i \in Bundles : bundle'[i] = Unused => bundle[i] = Unused

(* The locks of the other updates hold through a step that leaves their      *)
(* builds, slugs and links alone.                                            *)
LEMMA LocksKept ==
    ASSUME ClientsOK, BundlesOK, CallsOK, LocksOK, LinksOK,
           NEW gone, NEW ks, NEW new, NEW target,
           ClientStep(gone, ks), BundleStep(gone, new, target),
           Updating' \subseteq Updating, \A d \in Updating' : call'[d] = call[d],
           \A d \in Updating' : call[d].client \in Live(client) =>
              /\ call[d].client \notin ks /\ client[call[d].client].link \notin gone
              /\ \A j \in ks : j \in Live(client') => client'[j].slug # call[d].slug
    PROVE  LocksOK'
<1> SUFFICES ASSUME NEW c \in Updating' PROVE Lock(c)'
  BY DEF LocksOK
<1>1. c \in Updating /\ call'[c] = call[c] /\ Lock(c)
  BY DEF LocksOK
<1>2. call[c] \in Update /\ call[c].client \in Clients /\ call[c].old \in Bundles \cup {None}
  <2>1. call[c] \in Update
    BY <1>1, CallFields DEF Updating
  <2> QED BY <2>1 DEF Update
<1>3. client'[call'[c].client] # Unused
  BY <1>1, <1>2 DEF Lock, ClientStep
<1>4. ASSUME NEW d \in Updating'
      PROVE  call[d].client \in Live(client') <=> call[d].client \in Live(client)
  <2>1. d \in Updating /\ Lock(d)
    BY <1>4 DEF LocksOK
  <2>2. call[d] \in Update /\ call[d].client \in Clients
    <3>1. call[d] \in Update
      BY <2>1, CallFields DEF Updating
    <3> QED BY <3>1 DEF Update
  <2>3. CASE call[d].client \in Live(client)
    BY <2>3, <1>4 DEF ClientStep
  <2>4. CASE call[d].client \notin Live(client)
    <3>1. client[call[d].client] = Gone
      BY <2>1, <2>2, <2>4 DEF Lock, Live, ClientsOK
    <3>2. client'[call[d].client] = Gone
      BY <3>1, <2>2 DEF ClientStep
    <3> QED BY <3>2, <2>4 DEF Live
  <2> QED BY <2>3, <2>4
<1>5. ASSUME call'[c].client \in Live(client)'
      PROVE  /\ \A k \in Live(client)' : client'[k].slug = call'[c].slug => k = call'[c].client
             /\ \A d \in Holding' \ {c} : call'[d].client # call'[c].client /\ call'[d].slug # call'[c].slug
  <2>1. call[c].client \in Live(client)
    BY <1>1, <1>4, <1>5
  <2>2. ASSUME NEW k \in Live(client'), client'[k].slug = call[c].slug PROVE k = call[c].client
    <3>1. k \notin ks
      BY <2>1, <2>2
    <3>2. k \in Live(client) /\ client[k].slug = call[c].slug
      BY <3>1, <2>2 DEF ClientStep
    <3> QED BY <3>2, <2>1, <1>1 DEF Lock
  <2>3. \A d \in Holding' : d \in Holding /\ call'[d] = call[d]
    BY <1>4 DEF Holding
  <2> QED BY <2>1, <2>2, <2>3, <1>1 DEF Lock
<1>6. ASSUME call'[c].keep
      PROVE  /\ call'[c].client \in Live(client)' /\ client'[call'[c].client].link = call'[c].old
             /\ call'[c].old # None /\ bundle'[call'[c].old].slug = call'[c].target
  <2>1. /\ call[c].client \in Live(client) /\ client[call[c].client].link = call[c].old
        /\ call[c].old # None /\ bundle[call[c].old].slug = call[c].target
    BY <1>1, <1>6 DEF Lock
  <2>2. call[c].client \notin ks /\ call[c].old \notin gone
    BY <2>1
  <2>3. call[c].old \in Live(bundle)
    BY <2>1 DEF LinksOK
  <2>4. client'[call[c].client].link = call[c].old /\ call[c].client \in Live(client')
    BY <2>1, <2>2 DEF ClientStep
  <2>5. bundle'[call[c].old].slug = call[c].target
    BY <2>1, <2>2, <2>3 DEF BundleStep
  <2> QED BY <2>1, <2>4, <2>5, <1>1
<1>7. ASSUME call'[c].drop
      PROVE  /\ call'[c].old # None /\ bundle'[call'[c].old] # Unused
             /\ call'[c].old \in Live(bundle)' => bundle'[call'[c].old].slug # call'[c].target
  <2>1. /\ call[c].old # None /\ bundle[call[c].old] # Unused
        /\ call[c].old \in Live(bundle) => bundle[call[c].old].slug # call[c].target
    BY <1>1, <1>7 DEF Lock
  <2>2. bundle'[call[c].old] # Unused
    BY <2>1, <1>2 DEF BundleStep
  <2>3. ASSUME call[c].old \in Live(bundle') PROVE bundle'[call[c].old].slug # call[c].target
    <3>1. call[c].old \notin new
      BY <2>1 DEF BundleStep
    <3>2. call[c].old \in Live(bundle) \ gone
      BY <3>1, <2>3 DEF BundleStep
    <3> QED BY <3>2, <2>1 DEF BundleStep
  <2> QED BY <2>1, <2>2, <2>3, <1>1
<1> QED BY <1>3, <1>5, <1>6, <1>7 DEF Lock

LEMMA FoundKept ==
    ASSUME CallsOK, FoundOK, \A d \in Calls : call'[d].pc = "found" => call'[d] = call[d],
           NEW gone, NEW ks, NEW new, NEW target,
           ClientStep(gone, ks), BundleStep(gone, new, target)
    PROVE  FoundOK'
<1> SUFFICES ASSUME NEW c \in Calls, call'[c].pc = "found"
             PROVE  /\ client'[call'[c].client] # Unused
                    /\ call'[c].old # None => bundle'[call'[c].old] # Unused
  BY DEF FoundOK
<1>1. call'[c] = call[c] /\ call[c] \in Found
  BY CallFields
<1>2. /\ call[c].client \in Clients /\ call[c].old \in Bundles \cup {None}
      /\ client[call[c].client] # Unused
      /\ call[c].old # None => bundle[call[c].old] # Unused
  BY <1>1 DEF Found, FoundOK
<1> QED BY <1>1, <1>2 DEF ClientStep, BundleStep

LEMMA TablesKept ==
    ASSUME ClientsOK, BundlesOK, LinksOK, LocksOK, FoundOK, CallsOK,
           NEW gone \in SUBSET Live(bundle), NEW ks \in SUBSET Clients, \A x, y \in ks : x = y,
           NEW new, NEW target, ClientStep(gone, ks), BundleStep(gone, new, target),
           \A j \in ks : j \in Live(client') =>
              /\ client'[j].link \in Live(bundle') \cup {None}
              /\ \A i \in Live(client) \ {j} : client[i].slug # client'[j].slug,
           Updating' \subseteq Updating, \A d \in Updating' : call'[d] = call[d],
           \A d \in Calls : call'[d].pc = "found" => call'[d] = call[d],
           \A d \in Updating' : call[d].client \in Live(client) =>
              /\ call[d].client \notin ks /\ client[call[d].client].link \notin gone
              /\ \A j \in ks : j \in Live(client') => client'[j].slug # call[d].slug
    PROVE  ClientsOK' /\ BundlesOK' /\ LinksOK' /\ LocksOK' /\ FoundOK'
<1>1. ClientsOK'
  <2>1. ASSUME NEW k \in Live(client'), NEW j \in Live(client'), client'[k].slug = client'[j].slug
        PROVE  k = j
    <3>1. CASE k \in ks /\ j \notin ks
      BY <2>1, <3>1 DEF ClientStep
    <3>2. CASE j \in ks /\ k \notin ks
      BY <2>1, <3>2 DEF ClientStep
    <3>3. CASE k \notin ks /\ j \notin ks
      BY <2>1, <3>3 DEF ClientStep, ClientsOK
    <3> QED BY <3>1, <3>2, <3>3
  <2> QED BY <2>1 DEF ClientsOK, ClientStep
<1>2. BundlesOK'
  BY DEF BundlesOK, BundleStep
<1>3. LinksOK'
  <2> SUFFICES ASSUME NEW k \in Live(client') PROVE client'[k].link \in Live(bundle') \cup {None}
    BY DEF LinksOK
  <2>1. CASE k \in ks
    BY <2>1
  <2>2. CASE k \notin ks
    <3>1. k \in Live(client) /\ client'[k].link = IF client[k].link \in gone THEN None ELSE client[k].link
      BY <2>2 DEF ClientStep
    <3>2. client[k].link \in Live(bundle) \cup {None}
      BY <3>1 DEF LinksOK
    <3> QED BY <3>1, <3>2 DEF BundleStep
  <2> QED BY <2>1, <2>2
<1>4. LocksOK'
  BY LocksKept
<1>5. FoundOK'
  BY FoundKept
<1> QED BY <1>1, <1>2, <1>3, <1>4, <1>5

-----------------------------------------------------------------------------
(* What the directory of a slug should be.                                   *)
LEMMA DirOfNone ==
    ASSUME NEW t, NEW s, \A b \in Live(t) : t[b].slug # s
    PROVE  DirOf(t, s) = None
BY DEF DirOf

LEMMA DirOfSole ==
    ASSUME NEW t, NEW b \in Live(t), \A i \in Live(t) : t[i].slug = t[b].slug => i = b
    PROVE  DirOf(t, t[b].slug) = IF t[b].filled THEN "filled" ELSE "empty"
<1>1. {i \in Live(t) : t[i].slug = t[b].slug} = {b}
  OBVIOUS
<1> QED BY <1>1 DEF DirOf

LEMMA DirOfSame ==
    ASSUME NEW t, NEW u, NEW s,
           \A b \in Live(t) : t[b].slug = s => b \in Live(u) /\ u[b].slug = s /\ u[b].filled = t[b].filled,
           \A b \in Live(u) : u[b].slug = s => b \in Live(t) /\ t[b].slug = s
    PROVE  DirOf(t, s) = DirOf(u, s)
<1>1. {b \in Live(t) : t[b].slug = s} = {b \in Live(u) : u[b].slug = s}
  OBVIOUS
<1>2. \A b \in {i \in Live(t) : t[i].slug = s} : u[b].filled = t[b].filled
  OBVIOUS
<1> QED BY <1>1, <1>2 DEF DirOf

(* A step on the bundles and what it leaves to the directories.              *)
LEMMA DirsFollow ==
    ASSUME BundlesOK, CallsOK, NEW c \in Calls, NEW gone \in SUBSET Live(bundle), NEW new,
           NEW target, BundleStep(gone, new, target),
           \A i \in Live(bundle) \ gone : bundle'[i].filled = bundle[i].filled,
           \A i \in new : bundle'[i].filled = FALSE,
           \A i \in gone : bundle[i].slug # target \/ new = {},
           NEW make, make = IF new = {} THEN {} ELSE {target},
           NEW remove, remove = {bundle[i].slug : i \in gone},
           Finishes(c, make, remove), dir' = dir,
           ~ overlapped' /\ faults' = 0 =>
              /\ \A d \in Calls \ {c} : call[d].pc # "dirs"
              /\ \A s \in Slugs : dir[s] = DirOf(bundle, s)
    PROVE  DirsOK'
<1>2. /\ \A d \in Calls \ {c} : call'[d] = call[d]
      /\ \/ call'[c] = Idle /\ make = {} /\ remove = {}
         \/ call'[c].pc = "dirs" /\ call'[c].make = make /\ call'[c].remove = remove
  BY DEF Finishes
<1> SUFFICES ASSUME ~ overlapped', faults' = 0
             PROVE  /\ (\A d \in Calls : call'[d].pc # "dirs") =>
                          \A s \in Slugs : dir'[s] = DirOf(bundle', s)
                    /\ \A d \in Calls : call'[d].pc = "dirs" =>
                          \A s \in Slugs : DirAfter(call[d], s)' = DirOf(bundle', s)
  BY DEF DirsOK
<1>3. ASSUME NEW s \in Slugs
      PROVE  DirOf(bundle', s) = IF s \in remove THEN None
                                 ELSE IF s \in make /\ dir[s] = None THEN "empty" ELSE dir[s]
  <2>1. CASE s \in remove
    <3>1. \A b \in Live(bundle') : bundle'[b].slug # s
      BY <2>1 DEF BundleStep, BundlesOK
    <3> QED BY <3>1, <2>1, DirOfNone
  <2>2. CASE s \in make
    <3>1. new # {} /\ s = target
      BY <2>2
    <3>2. PICK b \in new : TRUE
      BY <3>1
    <3>3. b \in Live(bundle') /\ bundle'[b].slug = s /\ bundle'[b].filled = FALSE
      BY <3>1, <3>2 DEF BundleStep
    <3>4. \A i \in Live(bundle') : bundle'[i].slug = s => i = b
      BY <3>1, <3>2 DEF BundleStep
    <3>5. DirOf(bundle', s) = "empty"
      BY <3>3, <3>4, DirOfSole
    <3>6. dir[s] = None
      <4>1. \A i \in Live(bundle) : bundle[i].slug # s
        BY <3>1 DEF BundleStep
      <4> QED BY <4>1, DirOfNone
    <3>7. s \notin remove
      BY <3>1
    <3> QED BY <3>5, <3>6, <3>7, <2>2
  <2>3. CASE s \notin remove /\ s \notin make
    <3>1. DirOf(bundle, s) = DirOf(bundle', s)
      <4>1. \A b \in Live(bundle) : bundle[b].slug = s => b \notin gone
        BY <2>3
      <4>2. \A b \in Live(bundle') : bundle'[b].slug = s => b \in Live(bundle) /\ bundle[b].slug = s
        BY <2>3 DEF BundleStep
      <4>3. \A b \in Live(bundle) : bundle[b].slug = s =>
               b \in Live(bundle') /\ bundle'[b].slug = s /\ bundle'[b].filled = bundle[b].filled
        BY <4>1 DEF BundleStep
      <4> QED BY <4>2, <4>3, DirOfSame
    <3> QED BY <3>1, <2>3
  <2> QED BY <2>1, <2>2, <2>3
<1>4. CASE call'[c] = Idle
  <2>1. \A s \in Slugs : dir'[s] = DirOf(bundle', s)
    BY <1>2, <1>3, <1>4 DEF Idle
  <2>2. \A d \in Calls : call'[d].pc # "dirs"
    BY <1>2, <1>4 DEF Idle
  <2> QED BY <2>1, <2>2
<1>5. CASE call'[c] # Idle
  <2>1. call'[c].pc = "dirs" /\ call'[c].make = make /\ call'[c].remove = remove
    BY <1>2, <1>5
  <2>2. \A s \in Slugs : DirAfter(call[c], s)' = DirOf(bundle', s)
    BY <2>1, <1>3 DEF DirAfter
  <2>3. \A d \in Calls : call'[d].pc = "dirs" => d = c
    BY <1>2
  <2> QED BY <2>1, <2>2, <2>3
<1> QED BY <1>4, <1>5

(* A step that leaves bundles and directories alone.                         *)
LEMMA DirsKept ==
    ASSUME DirsOK, UNCHANGED <<bundle, dir>>, overlapped => overlapped', faults' = 0 => faults = 0,
           \A d \in Calls : /\ call'[d].pc = "dirs" <=> call[d].pc = "dirs"
                            /\ call[d].pc = "dirs" => call'[d] = call[d]
    PROVE  DirsOK'
BY DEF DirsOK, DirAfter

LEMMA AdminAlone ==
    ASSUME CallsOK, NEW c \in Calls, Admin(c), ~ overlapped'
    PROVE  ~ overlapped /\ \A d \in Calls : ~ Busy(d)
BY DEF Admin, Busy

LEMMA AdminKeepsAlone ==
    ASSUME CallsOK, NEW c \in Calls, Admin(c), \A d \in Calls \ {c} : call'[d] = call[d],
           call'[c].pc # "commit"
    PROVE  Alone'
<1> SUFFICES ASSUME ~ overlapped'
             PROVE  /\ \A b, d \in Calls : Busy(b)' /\ Busy(d)' => b = d
                    /\ \A b \in Updating' : FALSE
  BY DEF Alone
<1>1. \A d \in Calls : ~ Busy(d)
  BY AdminAlone
<1>2. \A d \in Calls \ {c} : call'[d].pc \notin {"found", "commit", "dirs"}
  BY <1>1 DEF Busy
<1> QED BY <1>2 DEF Busy, Updating

(* A call on its own goes on, past its decisions.                            *)
LEMMA OwnStepAlone ==
    ASSUME Alone, NEW c \in Calls, Busy(c), overlapped' = overlapped,
           \A d \in Calls \ {c} : call'[d] = call[d], call'[c].pc # "commit"
    PROVE  Alone'
<1> SUFFICES ASSUME ~ overlapped'
             PROVE  /\ \A b, d \in Calls : Busy(b)' /\ Busy(d)' => b = d
                    /\ \A b \in Updating' : FALSE
  BY DEF Alone
<1>1. \A d \in Calls \ {c} : ~ Busy(d)
  BY DEF Alone
<1>2. \A d \in Calls \ {c} : call'[d].pc \notin {"found", "commit", "dirs"}
  BY <1>1 DEF Busy
<1> QED BY <1>2 DEF Busy, Updating

LEMMA UpdatingKept ==
    ASSUME NEW c \in Calls, \A d \in Calls \ {c} : call'[d] = call[d],
           call'[c].pc # "commit" /\ call'[c].pc # "found"
    PROVE  /\ Updating' \subseteq Updating /\ \A d \in Updating' : d # c /\ call'[d] = call[d]
           /\ \A d \in Calls : call'[d].pc = "found" => call'[d] = call[d]
BY DEF Updating

LEMMA AdminCounts ==
    ASSUME CallsOK, NEW c \in Calls, Admin(c)
    PROVE  overlapped' \in BOOLEAN /\ requests' \in 0 .. MaxRequests
<1>1. requests' \in 0 .. MaxRequests
  BY CatalogAssumption DEF CallsOK, Admin
<1>2. overlapped' \in BOOLEAN
  BY Zenon DEF Admin
<1> QED BY <1>1, <1>2

LEMMA AdminDirs ==
    ASSUME CallsOK, DirsOK, NEW c \in Calls, Admin(c), ~ overlapped', faults = 0
    PROVE  /\ \A d \in Calls : call[d].pc # "dirs"
           /\ \A s \in Slugs : dir[s] = DirOf(bundle, s)
<1>1. ~ overlapped /\ \A d \in Calls : call[d].pc # "dirs"
  BY AdminAlone DEF Busy
<1> QED BY <1>1 DEF DirsOK

LEMMA FinishNotCommit ==
    ASSUME NEW c \in Calls, NEW make, NEW remove, Finishes(c, make, remove)
    PROVE  /\ call'[c].pc # "commit" /\ call'[c].pc # "found"
           /\ \A d \in Calls \ {c} : call'[d] = call[d]
BY DEF Finishes, Idle

LEMMA CreateClientKeeps ==
    ASSUME Core, NEW c \in Calls, CreateClient(c)
    PROVE  Core'
<1>1. PICK k \in Clients, s \in Slugs \ HeldSlugs, target \in Slugs \ Provisioning, publish \in BOOLEAN :
        /\ Admin(c)
        /\ client[k] = Unused /\ ClientAt(s) = {}
        /\ link_owned_bundle(k, [slug |-> s, link |-> None, published |-> publish], target, bundle)
        /\ Finish(c, {target} \ {bundle[b].slug : b \in Live(bundle)}, {})
        /\ UNCHANGED <<dir, tag, attached, faults>>
  BY DEF CreateClient
<1>a. PICK at : at = {b \in Live(bundle) : bundle[b].slug = target}
  OBVIOUS
<1>b. PICK row : row = [slug |-> s, link |-> None, published |-> publish]
  OBVIOUS
<1>2. PICK b \in IF at # {} THEN at ELSE {i \in Bundles : bundle[i] = Unused} :
        /\ client' = [client EXCEPT ![k] = [row EXCEPT !.link = b]]
        /\ bundle' = IF at # {} THEN bundle
                     ELSE [bundle EXCEPT ![b] = [slug |-> target, filled |-> FALSE]]
  BY <1>1, <1>a, <1>b DEF link_owned_bundle
<1>c. PICK new : new = IF at = {} THEN {b} ELSE {}
  OBVIOUS
<1>d. PICK make : make = {target} \ {bundle[i].slug : i \in Live(bundle)}
  OBVIOUS
<1>3. Core /\ CallsOK /\ ClientsOK /\ BundlesOK /\ LinksOK /\ LocksOK /\ FoundOK /\ DirsOK /\ TagsOK
  BY DEF Core
<1>4. /\ Live(client) \subseteq Clients /\ \A j \in Clients : j \in Live(client) <=> client[j] \in Client
      /\ Live(bundle) \subseteq Bundles /\ \A j \in Bundles : j \in Live(bundle) <=> bundle[j] \in Bundle
  BY <1>3, LiveClients, LiveBundles DEF ClientsOK, BundlesOK
<1>5. b \in Bundles /\ (at = {} => bundle[b] = Unused) /\ (at # {} => b \in Live(bundle))
  BY <1>2, <1>4, <1>a
<1>6. BundleStep({}, new, target) /\ b \in Live(bundle')
      /\ (\A i \in Live(bundle) : bundle'[i].filled = bundle[i].filled)
      /\ \A i \in new : bundle'[i].filled = FALSE
  <2>1. CASE at # {}
    BY <2>1, <1>2, <1>3, <1>5, <1>c DEF BundleStep, BundlesOK
  <2>2. CASE at = {}
    <3>1. bundle' = [bundle EXCEPT ![b] = [slug |-> target, filled |-> FALSE]] /\ new = {b}
      BY <2>2, <1>2, <1>c
    <3>2. bundle' \in [Bundles -> Bundle \cup {Unused, Gone}]
      BY <3>1, <1>3 DEF Bundle, BundlesOK
    <3>3. \A j \in Bundles : j \in Live(bundle') <=> bundle'[j] \in Bundle
      BY <3>2, LiveBundles
    <3>4. Live(bundle') \subseteq Bundles
      BY <3>2, LiveBundles
    <3>5. /\ bundle'[b] \in Bundle /\ bundle'[b].slug = target /\ bundle'[b].filled = FALSE
          /\ \A j \in Bundles \ {b} : bundle'[j] = bundle[j]
      BY <3>1, <1>3, <1>5 DEF Bundle, BundlesOK
    <3>6. b \notin Live(bundle)
      BY <2>2, <1>5 DEF Live
    <3>7. Live(bundle') = (Live(bundle) \ {}) \cup new
      BY <3>1, <3>3, <3>4, <3>5, <3>6, <1>4, <1>5
    <3>8. \A i \in Live(bundle) : bundle'[i] = bundle[i]
      BY <3>5, <3>6, <1>4
    <3>9. \A i \in Live(bundle) : bundle[i].slug # target
      BY <2>2, <1>a
    <3> QED BY <3>1, <3>2, <3>5, <3>7, <3>8, <3>9, <1>5, <2>2, RowsDiffer DEF BundleStep
  <2> QED BY <2>1, <2>2
<1>7. /\ client'[k] \in Client /\ client'[k].slug = s /\ client'[k].link = b
      /\ \A j \in Clients \ {k} : client'[j] = client[j]
      /\ client' \in [Clients -> Client \cup {Unused, Gone}]
  BY <1>1, <1>2, <1>3, <1>5, <1>b DEF ClientsOK, Client
<1>8. Live(client') = Live(client) \cup {k} /\ k \notin Live(client)
  <2>1. Live(client') \subseteq Clients /\ \A j \in Clients : j \in Live(client') <=> client'[j] \in Client
    BY <1>7, LiveClients
  <2>2. k \notin Live(client)
    BY <1>1 DEF Live
  <2> QED BY <2>1, <2>2, <1>4, <1>7
<1>9. ClientStep({}, {k})
  BY <1>1, <1>4, <1>7, <1>8, RowsDiffer DEF ClientStep
<1>10. make = IF new = {} THEN {} ELSE {target}
  BY <1>a, <1>c, <1>d
<1>11. Finishes(c, make, {}) /\ call' \in [Calls -> Handler]
  BY <1>1, <1>3, <1>d, Finished
<1>12. call'[c].pc # "commit" /\ call'[c].pc # "found" /\ \A d \in Calls \ {c} : call'[d] = call[d]
  BY <1>11, FinishNotCommit
<1>13. /\ Updating' \subseteq Updating /\ \A d \in Updating' : d # c /\ call'[d] = call[d]
       /\ \A d \in Calls : call'[d].pc = "found" => call'[d] = call[d]
  BY <1>12, UpdatingKept
<1>14. \A d \in Updating' : call[d].client \in Live(client) => call[d].client # k /\ s # call[d].slug
  BY <1>8, <1>13 DEF HeldSlugs, Holding
<1>15. \A i \in Live(client) : client[i].slug # s
  BY <1>1 DEF ClientAt
<1>16. ClientsOK' /\ BundlesOK' /\ LinksOK' /\ LocksOK' /\ FoundOK'
  <2>1. {} \in SUBSET Live(bundle) /\ {k} \in SUBSET Clients
    OBVIOUS
  <2>2. \A j \in {k} : j \in Live(client') =>
          /\ client'[j].link \in Live(bundle') \cup {None}
          /\ \A i \in Live(client) \ {j} : client[i].slug # client'[j].slug
    BY <1>6, <1>7, <1>15
  <2>3. \A d \in Updating' : call[d].client \in Live(client) =>
           /\ call[d].client \notin {k} /\ client[call[d].client].link \notin {}
           /\ \A j \in {k} : j \in Live(client') => client'[j].slug # call[d].slug
    BY <1>7, <1>14
  <2> QED BY <2>1, <2>2, <2>3, <1>3, <1>6, <1>9, <1>13, TablesKept
<1>17. TagsOK'
  BY <1>1, <1>3, <1>8 DEF TagsOK, LiveTags
<1>18. CallsOK'
  BY <1>1, <1>3, <1>11, AdminCounts DEF CallsOK
<1>19. Alone'
  BY <1>1, <1>3, <1>12, AdminKeepsAlone
<1>20. DirsOK'
  <2>1. ~ overlapped' /\ faults' = 0 =>
              /\ \A d \in Calls \ {c} : call[d].pc # "dirs"
              /\ \A t \in Slugs : dir[t] = DirOf(bundle, t)
    BY <1>1, <1>3, AdminDirs
  <2>2. {} = {bundle[i].slug : i \in {}}
    OBVIOUS
  <2>3. {} \in SUBSET Live(bundle) /\ dir' = dir /\ \A i \in Live(bundle) \ {} : bundle'[i].filled = bundle[i].filled
    BY <1>1, <1>6
  <2> QED BY <2>1, <2>2, <2>3, <1>3, <1>6, <1>10, <1>11, DirsFollow
<1> QED BY <1>16, <1>17, <1>18, <1>19, <1>20 DEF Core

(* The bundles of gone are deleted, those of new provisioned.                *)
LEMMA BundlesChange ==
    ASSUME BundlesOK, NEW gone \in SUBSET Live(bundle), NEW target,
           NEW new \in SUBSET Bundles, new # {} => target \in Slugs, \A i \in new : bundle[i] = Unused, \A i, j \in new : i = j,
           new # {} => \A i \in Live(bundle) : bundle[i].slug # target,
           bundle' = [i \in Bundles |-> IF i \in gone THEN Gone
                                        ELSE IF i \in new THEN [slug |-> target, filled |-> FALSE]
                                        ELSE bundle[i]]
    PROVE  /\ BundleStep(gone, new, target)
           /\ \A i \in Live(bundle) \ gone : bundle'[i].filled = bundle[i].filled
           /\ \A i \in new : bundle'[i].filled = FALSE
<1>1. Live(bundle) \subseteq Bundles /\ \A j \in Bundles : j \in Live(bundle) <=> bundle[j] \in Bundle
  BY LiveBundles DEF BundlesOK
<1>2. \A i \in new : i \notin Live(bundle) /\ i \notin gone
  BY DEF Live
<1>a. PICK fresh : fresh = [slug |-> target, filled |-> FALSE]
  OBVIOUS
<1>3. (new # {} => fresh \in Bundle) /\ fresh.slug = target /\ fresh.filled = FALSE
  BY <1>a DEF Bundle
<1>4. /\ \A i \in gone : bundle'[i] = Gone /\ i \in Bundles
      /\ \A i \in new : bundle'[i] = fresh
      /\ \A i \in Bundles : i \notin gone /\ i \notin new => bundle'[i] = bundle[i]
  BY <1>1, <1>2, <1>a
<1>5. bundle' \in [Bundles -> Bundle \cup {Unused, Gone}]
  <2>1. \A i \in Bundles : bundle'[i] \in Bundle \cup {Unused, Gone}
    BY <1>3, <1>4 DEF BundlesOK
  <2> QED BY <2>1
<1>6. Live(bundle') \subseteq Bundles /\ \A j \in Bundles : j \in Live(bundle') <=> bundle'[j] \in Bundle
  BY <1>5, LiveBundles
<1>7. Live(bundle') = (Live(bundle) \ gone) \cup new
  BY <1>1, <1>2, <1>3, <1>4, <1>6, RowsDiffer
<1>8. \A i \in Live(bundle) \ gone : bundle'[i] = bundle[i]
  BY <1>1, <1>2, <1>4
<1>9. \A i \in Bundles : bundle'[i] = Unused => bundle[i] = Unused
  BY <1>3, <1>4, RowsDiffer
<1> QED BY <1>3, <1>4, <1>5, <1>7, <1>8, <1>9 DEF BundleStep

(* Links to the bundles of gone are set to NULL, the builds of ks get a row. *)
LEMMA ClientsChange ==
    ASSUME ClientsOK, NEW gone, NEW ks \in SUBSET Clients, NEW row \in Client \cup {Gone},
           row = Gone \/ ks \subseteq Live(client), \A k \in ks : client[k] # Unused,
           client' = [j \in Clients |-> IF j \in ks THEN row ELSE Unlinked(client, gone)[j]]
    PROVE  /\ ClientStep(gone, ks)
           /\ \A k \in ks : client'[k] = row /\ (k \in Live(client') <=> row \in Client)
<1>a. PICK u : u = Unlinked(client, gone)
  OBVIOUS
<1>1. /\ u \in [Clients -> Client \cup {Unused, Gone}] /\ Live(u) = Live(client)
      /\ \A j \in Live(client) :
           /\ u[j].slug = client[j].slug
           /\ u[j].link = IF client[j].link \in gone THEN None ELSE client[j].link
      /\ \A j \in Clients \ Live(client) : u[j] = client[j]
  BY <1>a, UnlinkedRows DEF ClientsOK
<1>2. /\ client' \in [Clients -> Client \cup {Unused, Gone}] /\ \A k \in ks : client'[k] = row
      /\ \A j \in Clients \ ks : client'[j] = u[j]
  BY <1>1, <1>a
<1>3. Live(client') \subseteq Clients /\ \A j \in Clients : j \in Live(client') <=> client'[j] \in Client
  BY <1>2, LiveClients
<1>4. Live(client) \subseteq Clients /\ \A j \in Clients : j \in Live(client) <=> u[j] \in Client
  BY <1>1, LiveClients
<1>5. Live(client') \subseteq Live(client) \cup ks /\ \A j \in Live(client) \ ks : j \in Live(client')
  BY <1>2, <1>3, <1>4
<1>6. \A j \in Clients : /\ client[j] = Gone => client'[j] = Gone
                         /\ client'[j] = Unused => client[j] = Unused
  <2> TAKE j \in Clients
  <2>1. CASE j \in ks
    BY <2>1, <1>2, RowsDiffer DEF Live
  <2>2. CASE j \notin ks /\ j \in Live(client)
    BY <2>2, <1>2, <1>4, RowsDiffer DEF Live
  <2>3. CASE j \notin ks /\ j \notin Live(client)
    BY <2>3, <1>1, <1>2
  <2> QED BY <2>1, <2>2, <2>3
<1>7. ClientStep(gone, ks)
  BY <1>1, <1>2, <1>4, <1>5, <1>6 DEF ClientStep
<1> QED BY <1>2, <1>3, <1>7

(* Only deletions.                                                           *)
LEMMA DeletedBundles ==
    ASSUME BundlesOK, NEW gone \in SUBSET Live(bundle), NEW target,
           bundle' = [i \in Bundles |-> IF i \in gone THEN Gone ELSE bundle[i]]
    PROVE  /\ BundleStep(gone, {}, target)
           /\ \A i \in Live(bundle) \ gone : bundle'[i].filled = bundle[i].filled
<1>a. PICK new : new = {}
  OBVIOUS
<1>1. bundle' = [i \in Bundles |-> IF i \in gone THEN Gone
                                   ELSE IF i \in new THEN [slug |-> target, filled |-> FALSE]
                                   ELSE bundle[i]]
  BY <1>a
<1>2. /\ new \in SUBSET Bundles /\ (new # {} => target \in Slugs)
      /\ \A i \in new : bundle[i] = Unused
      /\ \A i, j \in new : i = j
      /\ new # {} => \A i \in Live(bundle) : bundle[i].slug # target
  BY <1>a
<1>3. /\ BundleStep(gone, new, target)
      /\ \A i \in Live(bundle) \ gone : bundle'[i].filled = bundle[i].filled
  BY <1>1, <1>2, BundlesChange
<1> QED BY <1>3, <1>a

(* A bundle that a DELETE need not wait for is in no other update's hands.   *)
LEMMA LinksHeld ==
    ASSUME NEW c \in Calls, NEW gone, \A i \in gone : ~ Waits(c, i),
           Updating' \subseteq Updating, \A d \in Updating' : d # c
    PROVE  \A d \in Updating' : call[d].client \in Live(client) =>
              client[call[d].client].link \notin gone
<1>1. \A i \in gone, d \in Holding \ {c} : client[call[d].client].link # i
  BY DEF Waits
<1> QED BY <1>1 DEF Holding

LEMMA CommitUpdateKeeps ==
    ASSUME Core, NEW c \in Calls, CommitUpdate(c)
    PROVE  Core'
<1> DEFINE u == call[c]
           gone == IF u.drop /\ u.old \in Live(bundle) THEN {u.old} ELSE {}
           at == BundleAt(u.target)
<1>1. PICK b \in IF at # {} THEN at ELSE {i \in Bundles : bundle[i] = Unused} :
        /\ client' = [k \in Clients |->
                        IF k = u.client /\ k \in Live(client)
                        THEN [slug |-> u.slug, link |-> b, published |-> client[k].published]
                        ELSE Unlinked(client, gone)[k]]
        /\ bundle' = [i \in Bundles |->
                        IF i \in gone THEN Gone
                        ELSE IF i = b /\ at = {} THEN [slug |-> u.target, filled |-> FALSE]
                        ELSE bundle[i]]
  BY DEF CommitUpdate
<1>2. /\ call[c].pc = "commit" /\ \A i \in gone : ~ Waits(c, i)
      /\ Finish(c, IF at = {} THEN {u.target} ELSE {}, {bundle[i].slug : i \in gone})
      /\ UNCHANGED <<dir, tag, attached, overlapped, requests, faults>>
  BY DEF CommitUpdate
<1>a. u = call[c]
  OBVIOUS
<1>b. gone = IF u.drop /\ u.old \in Live(bundle) THEN {u.old} ELSE {}
  OBVIOUS
<1>c. at = BundleAt(u.target)
  OBVIOUS
<1> HIDE DEF u, gone, at
<1>d. PICK new : new = IF at = {} THEN {b} ELSE {}
  OBVIOUS
<1>h. PICK ks : ks = {u.client} \cap Live(client)
  OBVIOUS
<1>e. PICK row : row = [slug |-> u.slug, link |-> b, published |-> client[u.client].published]
  OBVIOUS
<1>3. Core /\ CallsOK /\ ClientsOK /\ BundlesOK /\ LinksOK /\ LocksOK /\ FoundOK /\ DirsOK /\ TagsOK /\ Alone
  BY DEF Core
<1>4. /\ Live(client) \subseteq Clients /\ \A j \in Clients : j \in Live(client) <=> client[j] \in Client
      /\ Live(bundle) \subseteq Bundles /\ \A j \in Bundles : j \in Live(bundle) <=> bundle[j] \in Bundle
  BY <1>3, LiveClients, LiveBundles DEF ClientsOK, BundlesOK
<1>5. c \in Updating /\ Lock(c) /\ u \in Update
  BY <1>2, <1>3, <1>a, CallFields DEF Updating, LocksOK
<1>6. u.client \in Clients /\ u.slug \in Slugs /\ u.target \in Slugs /\ u.drop \in BOOLEAN
  BY <1>5 DEF Update
<1>7. /\ client[u.client] # Unused
      /\ u.drop => (u.old \in Live(bundle) => bundle[u.old].slug # u.target)
      /\ ks # {} => \A k \in Live(client) : client[k].slug = u.slug => k = u.client
      /\ ks # {} => \A d \in Holding \ {c} : call[d].client # u.client /\ call[d].slug # u.slug
  BY <1>5, <1>a, <1>h DEF Lock
<1>8. b \in Bundles /\ (at = {} => bundle[b] = Unused) /\ (at # {} => b \in Live(bundle) /\ bundle[b].slug = u.target)
  BY <1>1, <1>4, <1>c DEF BundleAt
<1>9. gone \subseteq Live(bundle) /\ \A i \in gone : bundle[i].slug # u.target
  BY <1>7, <1>b
<1>10. /\ BundleStep(gone, new, u.target)
       /\ \A i \in Live(bundle) \ gone : bundle'[i].filled = bundle[i].filled
       /\ \A i \in new : bundle'[i].filled = FALSE
  <2>1. bundle' = [i \in Bundles |-> IF i \in gone THEN Gone
                                     ELSE IF i \in new THEN [slug |-> u.target, filled |-> FALSE]
                                     ELSE bundle[i]]
    BY <1>1, <1>d
  <2>2. /\ new \in SUBSET Bundles /\ gone \in SUBSET Live(bundle)
        /\ \A i \in new : bundle[i] = Unused
        /\ \A i, j \in new : i = j
        /\ new # {} => \A i \in Live(bundle) : bundle[i].slug # u.target
    BY <1>8, <1>9, <1>c, <1>d DEF BundleAt
  <2> QED BY <2>1, <2>2, <1>3, <1>6, BundlesChange
<1>11. b \in Live(bundle')
  BY <1>8, <1>9, <1>10, <1>d DEF BundleStep
<1>12. ks # {} => row \in Client /\ row.slug = u.slug /\ row.link = b
  <2> SUFFICES ASSUME ks # {} PROVE row \in Client /\ row.slug = u.slug /\ row.link = b
    OBVIOUS
  <2>1. client[u.client].published \in BOOLEAN
    BY <1>4, <1>h DEF Client
  <2> QED BY <2>1, <1>6, <1>8, <1>e DEF Client
<1>13. ClientStep(gone, ks) /\ \A k \in ks : client'[k] = row /\ k \in Live(client')
  <2>1. client' = [j \in Clients |-> IF j \in ks THEN row ELSE Unlinked(client, gone)[j]]
    BY <1>1, <1>e, <1>h
  <2>2. ks \in SUBSET Clients /\ ks \subseteq Live(client) /\ \A k \in ks : client[k] # Unused
    BY <1>4, <1>7, <1>h
  <2>3. CASE ks # {}
    <3>1. row \in Client \cup {Gone} /\ row \in Client
      BY <2>3, <1>12
    <3> QED BY <3>1, <2>1, <2>2, <1>3, ClientsChange
  <2>4. CASE ks = {}
    <3>1. client' = [j \in Clients |-> IF j \in ks THEN Gone ELSE Unlinked(client, gone)[j]]
      BY <2>1, <2>4
    <3>2. Gone \in Client \cup {Gone}
      OBVIOUS
    <3>3. ClientStep(gone, ks)
      BY <3>1, <3>2, <2>2, <1>3, ClientsChange
    <3> QED BY <3>3, <2>4
  <2> QED BY <2>3, <2>4
<1>f. PICK make : make = IF new = {} THEN {} ELSE {u.target}
  OBVIOUS
<1>g. PICK remove : remove = {bundle[i].slug : i \in gone}
  OBVIOUS
<1>14. Finishes(c, make, remove) /\ call' \in [Calls -> Handler]
  <2>1. make = IF at = {} THEN {u.target} ELSE {}
    BY <1>d, <1>f
  <2>2. Finish(c, make, remove)
    BY <2>1, <1>2, <1>g
  <2>3. make \in SUBSET Slugs /\ remove \in SUBSET Slugs
    <3>1. \A i \in gone : bundle[i].slug \in Slugs
      BY <1>4, <1>9 DEF Bundle
    <3> QED BY <3>1, <1>6, <1>f, <1>g
  <2> QED BY <2>2, <2>3, <1>3, Finished
<1>15. call'[c].pc # "commit" /\ call'[c].pc # "found" /\ \A d \in Calls \ {c} : call'[d] = call[d]
  BY <1>14, FinishNotCommit
<1>16. /\ Updating' \subseteq Updating /\ \A d \in Updating' : d # c /\ call'[d] = call[d]
       /\ \A d \in Calls : call'[d].pc = "found" => call'[d] = call[d]
  BY <1>15, UpdatingKept
<1>17. \A d \in Updating' : call[d].client \in Live(client) => client[call[d].client].link \notin gone
  BY <1>2, <1>16, LinksHeld
<1>18. ClientsOK' /\ BundlesOK' /\ LinksOK' /\ LocksOK' /\ FoundOK'
  <2>1. gone \in SUBSET Live(bundle) /\ ks \in SUBSET Clients /\ \A i, j \in ks : i = j
    BY <1>6, <1>9, <1>h
  <2>2. \A j \in ks : j \in Live(client') =>
          /\ client'[j].link \in Live(bundle') \cup {None}
          /\ \A i \in Live(client) \ {j} : client[i].slug # client'[j].slug
    BY <1>7, <1>11, <1>12, <1>13, <1>h
  <2>3. \A d \in Updating' : call[d].client \in Live(client) =>
           /\ call[d].client \notin ks /\ client[call[d].client].link \notin gone
           /\ \A j \in ks : j \in Live(client') => client'[j].slug # call[d].slug
    <3> SUFFICES ASSUME NEW d \in Updating', call[d].client \in Live(client)
                 PROVE  /\ call[d].client \notin ks /\ client[call[d].client].link \notin gone
                        /\ \A j \in ks : client'[j].slug # call[d].slug
      OBVIOUS
    <3>1. d \in Holding \ {c}
      BY <1>16 DEF Holding
    <3> QED BY <3>1, <1>7, <1>12, <1>13, <1>17, <1>h
  <2> QED BY <2>1, <2>2, <2>3, <1>3, <1>10, <1>13, <1>16, TablesKept
<1>19. TagsOK'
  <2>1. Live(client) \subseteq Live(client')
    BY <1>13 DEF ClientStep
  <2> QED BY <2>1, <1>2, <1>3 DEF TagsOK, LiveTags
<1>20. CallsOK'
  BY <1>2, <1>3, <1>14 DEF CallsOK
<1>21. ~ overlapped => \A d \in Calls \ {c} : ~ Busy(d)
  BY <1>2, <1>3 DEF Alone, Busy
<1>22. Alone'
  <2>1. Busy(c) /\ overlapped' = overlapped
    BY <1>2 DEF Busy
  <2> QED BY <2>1, <1>3, <1>15, OwnStepAlone
<1>23. DirsOK'
  <2>1. ~ overlapped' /\ faults' = 0 =>
              /\ \A d \in Calls \ {c} : call[d].pc # "dirs"
              /\ \A t \in Slugs : dir[t] = DirOf(bundle, t)
    <3>1. ~ overlapped => \A d \in Calls : call[d].pc # "dirs"
      BY <1>2, <1>21 DEF Busy
    <3> QED BY <3>1, <1>2, <1>3 DEF DirsOK
  <2>2. gone \in SUBSET Live(bundle) /\ dir' = dir /\ \A i \in gone : bundle[i].slug # u.target \/ new = {}
    BY <1>2, <1>9
  <2> QED BY <2>1, <2>2, <1>3, <1>6, <1>10, <1>14, <1>f, <1>g, DirsFollow
<1> QED BY <1>18, <1>19, <1>20, <1>22, <1>23 DEF Core

(* A row of the bundles is deleted with its links, a build with its bundle.  *)
LEMMA DeleteClientKeeps ==
    ASSUME Core, NEW c \in Calls, DeleteClient(c)
    PROVE  Core'
<1>k. PICK k : k = call[c].client
  OBVIOUS
<1>a. PICK gone : gone = {call[c].old} \cap Live(bundle)
  OBVIOUS
<1>1. /\ call[c].pc = "found" /\ k \notin HeldClients
      /\ attached' = {a \in attached : a[1] # k}
      /\ UNCHANGED <<dir, tag, overlapped, requests, faults>>
  BY <1>k DEF DeleteClient
<1>2. /\ \A i \in gone : ~ Waits(c, i)
      /\ client' = [Unlinked(client, gone) EXCEPT ![k] = Gone]
      /\ bundle' = [i \in Bundles |-> IF i \in gone THEN Gone ELSE bundle[i]]
      /\ Finish(c, {}, {bundle[i].slug : i \in gone})
  BY <1>a, <1>k DEF DeleteClient
<1>3. Core /\ CallsOK /\ ClientsOK /\ BundlesOK /\ LinksOK /\ LocksOK /\ FoundOK /\ DirsOK /\ TagsOK /\ Alone
  BY DEF Core
<1>4. /\ Live(client) \subseteq Clients /\ \A j \in Clients : j \in Live(client) <=> client[j] \in Client
      /\ Live(bundle) \subseteq Bundles /\ \A j \in Bundles : j \in Live(bundle) <=> bundle[j] \in Bundle
  BY <1>3, LiveClients, LiveBundles DEF ClientsOK, BundlesOK
<1>5. gone \in SUBSET Live(bundle) /\ k \in Clients /\ client[k] # Unused
  <2>1. call[c] \in Found
    BY <1>1, <1>3, CallFields
  <2> QED BY <2>1, <1>1, <1>3, <1>a, <1>k DEF Found, FoundOK
<1>7. BundleStep(gone, {}, None) /\ \A i \in Live(bundle) \ gone : bundle'[i].filled = bundle[i].filled
  BY <1>2, <1>3, <1>5, DeletedBundles
<1>8. ClientStep(gone, {k}) /\ k \notin Live(client')
  <2>1. Unlinked(client, gone) \in [Clients -> Client \cup {Unused, Gone}]
    BY <1>3, UnlinkedRows DEF ClientsOK
  <2>2. client' = [j \in Clients |-> IF j \in {k} THEN Gone ELSE Unlinked(client, gone)[j]]
    BY <2>1, <1>2
  <2>3. /\ {k} \in SUBSET Clients /\ Gone \in Client \cup {Gone}
        /\ \A j \in {k} : client[j] # Unused
    BY <1>5
  <2>4. ClientStep(gone, {k}) /\ \A j \in {k} : j \in Live(client') <=> Gone \in Client
    BY <2>2, <2>3, <1>3, ClientsChange
  <2> QED BY <2>4, RowsDiffer
<1>b. PICK remove : remove = {bundle[i].slug : i \in gone}
  OBVIOUS
<1>9. Finishes(c, {}, remove) /\ call' \in [Calls -> Handler]
  <2>1. \A i \in gone : bundle[i].slug \in Slugs
    BY <1>4, <1>5 DEF Bundle
  <2>2. Finish(c, {}, remove) /\ remove \in SUBSET Slugs
    BY <2>1, <1>2, <1>b
  <2> QED BY <2>2, <1>3, Finished
<1>10. call'[c].pc # "commit" /\ call'[c].pc # "found" /\ \A d \in Calls \ {c} : call'[d] = call[d]
  BY <1>9, FinishNotCommit
<1>11. /\ Updating' \subseteq Updating /\ \A d \in Updating' : d # c /\ call'[d] = call[d]
       /\ \A d \in Calls : call'[d].pc = "found" => call'[d] = call[d]
  BY <1>10, UpdatingKept
<1>12. \A d \in Updating' : call[d].client \in Live(client) =>
          client[call[d].client].link \notin gone /\ call[d].client # k
  <2>1. \A d \in Updating' : call[d].client \in Live(client) => client[call[d].client].link \notin gone
    BY <1>2, <1>11, LinksHeld
  <2> QED BY <2>1, <1>1, <1>11 DEF HeldClients, Holding
<1>13. ClientsOK' /\ BundlesOK' /\ LinksOK' /\ LocksOK' /\ FoundOK'
  <2>1. {k} \in SUBSET Clients /\ \A x, y \in {k} : x = y
    BY <1>5
  <2>2. \A j \in {k} : j \notin Live(client')
    BY <1>8
  <2> QED BY <2>1, <2>2, <1>3, <1>5, <1>7, <1>8, <1>11, <1>12, TablesKept
<1>14. TagsOK'
  <2>1. \A j \in Live(client) : j = k \/ j \in Live(client')
    BY <1>8 DEF ClientStep
  <2> QED BY <2>1, <1>1, <1>3 DEF TagsOK, LiveTags
<1>15. CallsOK'
  BY <1>1, <1>3, <1>9 DEF CallsOK
<1>16. Alone'
  <2>1. Busy(c) /\ overlapped' = overlapped
    BY <1>1 DEF Busy
  <2> QED BY <2>1, <1>3, <1>10, OwnStepAlone
<1>17. DirsOK'
  <2>1. ~ overlapped' /\ faults' = 0 =>
              /\ \A d \in Calls \ {c} : call[d].pc # "dirs"
              /\ \A t \in Slugs : dir[t] = DirOf(bundle, t)
    BY <1>1, <1>3 DEF Alone, Busy, DirsOK
  <2> QED BY <2>1, <1>1, <1>3, <1>5, <1>7, <1>9, <1>b, DirsFollow
<1> QED BY <1>13, <1>14, <1>15, <1>16, <1>17 DEF Core

LEMMA DeleteBundleKeeps ==
    ASSUME Core, NEW c \in Calls, DeleteBundle(c)
    PROVE  Core'
<1>1. PICK b \in Live(bundle) :
        /\ Admin(c)
        /\ ~ Waits(c, b)
        /\ bundle' = [bundle EXCEPT ![b] = Gone]
        /\ client' = Unlinked(client, {b})
        /\ Finish(c, {}, {bundle[b].slug})
        /\ UNCHANGED <<dir, tag, attached, faults>>
  BY DEF DeleteBundle
<1>3. Core /\ CallsOK /\ ClientsOK /\ BundlesOK /\ LinksOK /\ LocksOK /\ FoundOK /\ DirsOK /\ TagsOK /\ Alone
  BY DEF Core
<1>4. Live(bundle) \subseteq Bundles /\ \A j \in Bundles : j \in Live(bundle) <=> bundle[j] \in Bundle
  BY <1>3, LiveBundles DEF BundlesOK
<1>a. PICK gone : gone = {b}
  OBVIOUS
<1>b. PICK target : target = bundle[b].slug
  OBVIOUS
<1>5. gone \in SUBSET Live(bundle) /\ target \in Slugs
  BY <1>4, <1>a, <1>b DEF Bundle
<1>6. BundleStep(gone, {}, target) /\ \A i \in Live(bundle) \ gone : bundle'[i].filled = bundle[i].filled
  <2>1. bundle' = [i \in Bundles |-> IF i \in gone THEN Gone ELSE bundle[i]]
    BY <1>1, <1>3, <1>a DEF BundlesOK
  <2> QED BY <2>1, <1>3, <1>5, DeletedBundles
<1>7. ClientStep(gone, {}) /\ Live(client') = Live(client)
  <2>1. client' = Unlinked(client, gone)
    BY <1>1, <1>a
  <2>2. /\ client' \in [Clients -> Client \cup {Unused, Gone}] /\ Live(client') = Live(client)
        /\ \A k \in Live(client) :
             /\ client'[k].slug = client[k].slug
             /\ client'[k].link = IF client[k].link \in gone THEN None ELSE client[k].link
        /\ \A k \in Clients \ Live(client) : client'[k] = client[k]
    BY <2>1, <1>3, UnlinkedRows DEF ClientsOK
  <2>3. \A k \in Clients : /\ client[k] = Gone => client'[k] = Gone
                           /\ client'[k] = Unused => client[k] = Unused
    <3> TAKE k \in Clients
    <3>1. CASE k \in Live(client)
      BY <3>1, <2>2 DEF Live
    <3> QED BY <3>1, <2>2
  <2> QED BY <2>2, <2>3 DEF ClientStep
<1>c. PICK remove : remove = {bundle[i].slug : i \in gone}
  OBVIOUS
<1>8. Finishes(c, {}, remove) /\ call' \in [Calls -> Handler]
  <2>1. remove = {bundle[b].slug}
    BY <1>a, <1>c
  <2>2. Finish(c, {}, remove) /\ remove \in SUBSET Slugs
    BY <2>1, <1>1, <1>5, <1>b
  <2> QED BY <2>2, <1>3, Finished
<1>9. call'[c].pc # "commit" /\ call'[c].pc # "found" /\ \A d \in Calls \ {c} : call'[d] = call[d]
  BY <1>8, FinishNotCommit
<1>10. /\ Updating' \subseteq Updating /\ \A d \in Updating' : d # c /\ call'[d] = call[d]
       /\ \A d \in Calls : call'[d].pc = "found" => call'[d] = call[d]
  BY <1>9, UpdatingKept
<1>11. \A d \in Updating' : call[d].client \in Live(client) => client[call[d].client].link \notin gone
  BY <1>1, <1>10, <1>a, LinksHeld
<1>12. ClientsOK' /\ BundlesOK' /\ LinksOK' /\ LocksOK' /\ FoundOK'
  BY <1>3, <1>5, <1>6, <1>7, <1>10, <1>11, TablesKept
<1>13. TagsOK'
  BY <1>1, <1>3, <1>7 DEF TagsOK, LiveTags
<1>14. CallsOK'
  BY <1>1, <1>3, <1>8, AdminCounts DEF CallsOK
<1>15. Alone'
  BY <1>1, <1>3, <1>9, AdminKeepsAlone
<1>16. DirsOK'
  <2>1. ~ overlapped' /\ faults' = 0 =>
              /\ \A d \in Calls \ {c} : call[d].pc # "dirs"
              /\ \A t \in Slugs : dir[t] = DirOf(bundle, t)
    BY <1>1, <1>3, AdminDirs
  <2> QED BY <2>1, <1>1, <1>3, <1>5, <1>6, <1>8, <1>c, DirsFollow
<1> QED BY <1>12, <1>13, <1>14, <1>15, <1>16 DEF Core

-----------------------------------------------------------------------------
(* Steps that write neither slugs nor links nor decisions.                   *)

(* Every open update is as it was, and so are the rows it locked.            *)
LEMMA SameTables ==
    ASSUME ClientsOK, BundlesOK, UNCHANGED <<client, bundle>>
    PROVE  ClientStep({}, {}) /\ BundleStep({}, {}, None)
BY DEF ClientsOK, BundlesOK, ClientStep, BundleStep

LEMMA QuietTables ==
    ASSUME Core, UNCHANGED <<client, bundle>>,
           Updating' \subseteq Updating, \A d \in Updating' : call'[d] = call[d],
           \A d \in Calls : call'[d].pc = "found" => call'[d] = call[d]
    PROVE  ClientsOK' /\ BundlesOK' /\ LinksOK' /\ LocksOK' /\ FoundOK'
<1>1. ClientsOK /\ BundlesOK /\ LinksOK /\ LocksOK /\ FoundOK /\ CallsOK
  BY DEF Core
<1>2. ClientStep({}, {}) /\ BundleStep({}, {}, None)
  BY <1>1, SameTables
<1> QED BY <1>1, <1>2, TablesKept

(* Nobody gets busy by the step.                                             *)
LEMMA QuietAlone ==
    ASSUME Alone, UNCHANGED <<client, bundle>>, overlapped => overlapped',
           \A d \in Calls : Busy(d)' => Busy(d) /\ call'[d] = call[d]
    PROVE  Alone'
<1> SUFFICES ASSUME ~ overlapped'
             PROVE  /\ \A c, d \in Calls : Busy(c)' /\ Busy(d)' => c = d
                    /\ \A c \in Updating' : call'[c].drop =>
                         strand_old_bundle(call[c].client, call[c].old, call[c].optin)'
  BY DEF Alone
<1>1. \A c, d \in Calls : Busy(c)' /\ Busy(d)' => c = d
  BY DEF Alone
<1>2. \A c \in Updating' : c \in Updating /\ call'[c] = call[c]
  BY DEF Busy, Updating
<1>3. \A c \in Updating' : call'[c].drop => strand_old_bundle(call[c].client, call[c].old, call[c].optin)
  BY <1>2 DEF Alone
<1>4. \A c \in Updating' : strand_old_bundle(call[c].client, call[c].old, call[c].optin)' =
                           strand_old_bundle(call[c].client, call[c].old, call[c].optin)
  BY <1>2 DEF strand_old_bundle, Live
<1> QED BY <1>1, <1>3, <1>4

LEMMA QuietKeeps ==
    ASSUME Core, CallsOK', TagsOK', DirsOK', UNCHANGED <<client, bundle>>, overlapped => overlapped',
           \A d \in Calls : Busy(d)' => Busy(d) /\ call'[d] = call[d]
    PROVE  Core'
<1>1. /\ Updating' \subseteq Updating /\ \A d \in Updating' : call'[d] = call[d]
      /\ \A d \in Calls : call'[d].pc = "found" => call'[d] = call[d]
  BY DEF Updating, Busy
<1>2. ClientsOK' /\ BundlesOK' /\ LinksOK' /\ LocksOK' /\ FoundOK'
  BY <1>1, QuietTables
<1>3. Alone'
  BY QuietAlone DEF Core
<1> QED BY <1>2, <1>3 DEF Core

(* Keywords and servers: the calls stay as they are.                         *)
LEMMA TagStepKeeps ==
    ASSUME Core, NEW c \in Calls, Admin(c), TagsOK', UNCHANGED <<client, bundle, dir, call, faults>>
    PROVE  Core'
<1>1. CallsOK /\ DirsOK
  BY DEF Core
<1>2. overlapped => overlapped'
  BY DEF Admin
<1>3. CallsOK'
  BY <1>1, AdminCounts DEF CallsOK
<1>4. DirsOK'
  BY <1>1, <1>2, DirsKept
<1>5. \A d \in Calls : Busy(d)' => Busy(d) /\ call'[d] = call[d]
  BY DEF Busy
<1> QED BY <1>2, <1>3, <1>4, <1>5, QuietKeeps

LEMMA TagsKeep ==
    ASSUME Core, NEW c \in Calls, CreateTag(c) \/ DeleteTag(c) \/ PublishTag(c) \/ AttachTag(c)
    PROVE  Core'
<1>1. TagsOK
  BY DEF Core
<1>2. CASE CreateTag(c)
  <2>1. PICK t \in Tags : /\ Admin(c) /\ tag[t] = "unused"
                          /\ tag' = [tag EXCEPT ![t] = "published"]
                          /\ UNCHANGED <<client, bundle, dir, attached, call, faults>>
    BY <1>2 DEF CreateTag
  <2>2. TagsOK'
    <3>1. LiveTags \subseteq LiveTags'
      BY <2>1, <1>1 DEF TagsOK, LiveTags
    <3> QED BY <3>1, <2>1, <1>1 DEF TagsOK
  <2> QED BY <2>1, <2>2, TagStepKeeps
<1>3. CASE DeleteTag(c)
  <2>1. PICK t \in LiveTags : /\ Admin(c)
                              /\ tag' = [tag EXCEPT ![t] = "gone"]
                              /\ attached' = {a \in attached : a[2] # t}
                              /\ UNCHANGED <<client, bundle, dir, call, faults>>
    BY <1>3 DEF DeleteTag
  <2>2. TagsOK'
    <3>1. LiveTags \ {t} \subseteq LiveTags'
      BY <2>1, <1>1 DEF TagsOK, LiveTags
    <3> QED BY <3>1, <2>1, <1>1 DEF TagsOK, LiveTags
  <2> QED BY <2>1, <2>2, TagStepKeeps
<1>4. CASE PublishTag(c)
  <2>1. PICK t \in LiveTags : /\ Admin(c)
                              /\ tag' = [tag EXCEPT ![t] = IF @ = "draft" THEN "published" ELSE "draft"]
                              /\ UNCHANGED <<client, bundle, dir, attached, call, faults>>
    BY <1>4 DEF PublishTag
  <2>2. TagsOK'
    <3>1. LiveTags \subseteq LiveTags'
      BY <2>1, <1>1 DEF TagsOK, LiveTags
    <3> QED BY <3>1, <2>1, <1>1 DEF TagsOK, LiveTags
  <2> QED BY <2>1, <2>2, TagStepKeeps
<1>5. CASE AttachTag(c)
  <2>1. PICK k \in Live(client), t \in LiveTags :
           /\ Admin(c)
           /\ \/ attached' = attached \cup {<<k, t>>}
              \/ attached' = attached \ {<<k, t>>}
           /\ UNCHANGED <<client, bundle, dir, tag, call, faults>>
    BY <1>5 DEF AttachTag
  <2>2. TagsOK'
    BY <2>1, <1>1 DEF TagsOK, LiveTags
  <2> QED BY <2>1, <2>2, TagStepKeeps
<1> QED BY <1>2, <1>3, <1>4, <1>5

(* A read goes on, or an update or a read ends without a trace.              *)
LEMMA CallStepKeeps ==
    ASSUME Core, NEW c \in Calls, NEW q, Now(c, q), q \in {Idle} \cup Read,
           call[c].pc # "dirs", UNCHANGED <<client, bundle, dir, tag, attached, overlapped, requests>>,
           faults' \in 0 .. MaxFaults, faults' = 0 => faults = 0
    PROVE  Core'
<1>1. CallsOK /\ DirsOK /\ TagsOK
  BY DEF Core
<1>2. call'[c] = q /\ \A d \in Calls \ {c} : call'[d] = call[d]
  BY <1>1, CallSet
<1>3. q.pc # "dirs" /\ q.pc # "commit" /\ q.pc # "found" /\ q \in Handler
  BY DEF Handler, Idle, Read
<1>4. CallsOK'
  BY <1>1, <1>3, CallTyped DEF CallsOK
<1>5. TagsOK'
  BY <1>1 DEF TagsOK, LiveTags
<1>6. DirsOK'
  BY <1>1, <1>2, <1>3, DirsKept
<1>7. \A d \in Calls : Busy(d)' => Busy(d) /\ call'[d] = call[d]
  BY <1>2, <1>3 DEF Busy
<1> QED BY <1>4, <1>5, <1>6, <1>7, QuietKeeps

LEMMA DirsFinishedKeeps ==
    ASSUME Core, NEW c \in Calls, FinishDirs(c)
    PROVE  Core'
<1>1. /\ CallsOK /\ DirsOK /\ TagsOK /\ Alone
      /\ call[c].pc = "dirs" /\ Now(c, Idle)
      /\ dir' = [s \in Slugs |-> DirAfter(call[c], s)]
      /\ UNCHANGED <<client, bundle, tag, attached, overlapped, requests, faults>>
  BY DEF Core, FinishDirs, DirAfter
<1>2. call'[c] = Idle /\ \A d \in Calls \ {c} : call'[d] = call[d]
  BY <1>1, CallSet
<1>3. CallsOK'
  <2>1. call' \in [Calls -> Handler]
    BY <1>1, CallTyped DEF Handler
  <2>2. \A s \in Slugs : DirAfter(call[c], s) \in {None, "empty", "filled"}
    BY <1>1 DEF CallsOK, DirAfter
  <2>3. dir' \in [Slugs -> {None, "empty", "filled"}]
    BY <2>2, <1>1
  <2> QED BY <2>1, <2>3, <1>1 DEF CallsOK
<1>4. TagsOK'
  BY <1>1 DEF TagsOK, LiveTags
<1>5. \A d \in Calls : Busy(d)' => Busy(d) /\ call'[d] = call[d]
  BY <1>2 DEF Busy, Idle
<1>6. DirsOK'
  <2> SUFFICES ASSUME ~ overlapped', faults' = 0
               PROVE  /\ \A s \in Slugs : dir'[s] = DirOf(bundle', s)
                      /\ \A d \in Calls : call'[d].pc # "dirs"
    BY DEF DirsOK
  <2>1. \A s \in Slugs : dir'[s] = DirOf(bundle', s)
    BY <1>1 DEF DirsOK
  <2>2. \A d \in Calls : call'[d].pc # "dirs"
    BY <1>1, <1>2 DEF Alone, Busy, Idle
  <2> QED BY <2>1, <2>2
<1> QED BY <1>1, <1>3, <1>4, <1>5, <1>6, QuietKeeps

LEMMA AbortKeeps ==
    ASSUME Core, NEW c \in Calls, Abort(c)
    PROVE  Core'
<1>1. /\ CallsOK /\ TagsOK /\ call[c].pc \in {"commit", "dirs"} /\ Now(c, Idle)
      /\ faults < MaxFaults /\ faults' = faults + 1
      /\ UNCHANGED <<client, bundle, dir, tag, attached, overlapped, requests>>
  BY DEF Core, Abort
<1>2. faults' \in 0 .. MaxFaults /\ faults' # 0
  BY <1>1, CatalogAssumption DEF CallsOK
<1>3. call'[c] = Idle /\ \A d \in Calls \ {c} : call'[d] = call[d]
  BY <1>1, CallSet
<1>4. CallsOK'
  BY <1>1, <1>2, CallTyped DEF CallsOK, Handler
<1>5. TagsOK'
  BY <1>1 DEF TagsOK, LiveTags
<1>6. DirsOK'
  BY <1>2 DEF DirsOK
<1>7. \A d \in Calls : Busy(d)' => Busy(d) /\ call'[d] = call[d]
  BY <1>3 DEF Busy, Idle
<1> QED BY <1>1, <1>4, <1>5, <1>6, <1>7, QuietKeeps

(* set_published of a build: its slug and link stay.                         *)
LEMMA PublishClientKeeps ==
    ASSUME Core, NEW c \in Calls, PublishClient(c)
    PROVE  Core'
<1>1. PICK k \in Live(client) \ HeldClients :
        /\ Admin(c)
        /\ client' = [client EXCEPT ![k].published = ~ @]
        /\ UNCHANGED <<bundle, dir, tag, attached, call, faults>>
  BY DEF PublishClient
<1>2. CallsOK /\ ClientsOK /\ BundlesOK /\ LinksOK /\ LocksOK /\ FoundOK /\ DirsOK /\ TagsOK
  BY DEF Core
<1>3. Live(client) \subseteq Clients /\ \A j \in Clients : j \in Live(client) <=> client[j] \in Client
  BY <1>2, LiveClients DEF ClientsOK
<1>4. /\ client'[k] \in Client /\ client'[k].slug = client[k].slug /\ client'[k].link = client[k].link
      /\ \A j \in Clients \ {k} : client'[j] = client[j]
      /\ client' \in [Clients -> Client \cup {Unused, Gone}]
  <2>1. k \in Clients /\ client[k] \in Client
    BY <1>3
  <2>a. PICK row : row = [client[k] EXCEPT !.published = ~ @]
    OBVIOUS
  <2>2. row \in Client /\ row.slug = client[k].slug /\ row.link = client[k].link
    BY <2>1, <2>a DEF Client
  <2>3. client' = [client EXCEPT ![k] = row]
    BY <1>1, <2>a
  <2> QED BY <2>1, <2>2, <2>3, <1>2 DEF ClientsOK
<1>5. Live(client') = Live(client)
  <2>1. Live(client') \subseteq Clients /\ \A j \in Clients : j \in Live(client') <=> client'[j] \in Client
    BY <1>4, LiveClients
  <2> QED BY <2>1, <1>3, <1>4
<1>6. ClientStep({}, {})
  BY <1>3, <1>4, <1>5, RowsDiffer DEF ClientStep, Live
<1>7. PICK target \in Slugs : TRUE
  BY <1>3 DEF Client
<1>8. BundleStep({}, {}, target)
  BY <1>1, <1>2 DEF BundleStep, BundlesOK
<1>9. ClientsOK' /\ BundlesOK' /\ LinksOK' /\ LocksOK' /\ FoundOK'
  <2>1. Updating' = Updating /\ call' = call
    BY <1>1 DEF Updating
  <2> QED BY <2>1, <1>2, <1>6, <1>8, TablesKept
<1>10. TagsOK'
  BY <1>1, <1>2, <1>5 DEF TagsOK, LiveTags
<1>11. CallsOK'
  BY <1>1, <1>2, AdminCounts DEF CallsOK
<1>12. Alone'
  <2>1. call'[c].pc # "commit"
    BY <1>1 DEF Admin, Idle
  <2> QED BY <2>1, <1>1, <1>2, AdminKeepsAlone
<1>13. DirsOK'
  <2>1. overlapped => overlapped'
    BY <1>1 DEF Admin
  <2> QED BY <2>1, <1>1, <1>2, DirsKept
<1> QED BY <1>9, <1>10, <1>11, <1>12, <1>13 DEF Core

LEMMA UploadFilesKeeps ==
    ASSUME Core, NEW c \in Calls, UploadFiles(c)
    PROVE  Core'
<1>1. PICK b \in Live(bundle) :
        /\ Admin(c)
        /\ bundle' = [bundle EXCEPT ![b].filled = TRUE]
        /\ dir' = [dir EXCEPT ![bundle[b].slug] = "filled"]
        /\ UNCHANGED <<client, tag, attached, call, faults>>
  BY DEF UploadFiles
<1>2. CallsOK /\ ClientsOK /\ BundlesOK /\ LinksOK /\ LocksOK /\ FoundOK /\ DirsOK /\ TagsOK
  BY DEF Core
<1>3. Live(bundle) \subseteq Bundles /\ \A j \in Bundles : j \in Live(bundle) <=> bundle[j] \in Bundle
  BY <1>2, LiveBundles DEF BundlesOK
<1>4. /\ bundle'[b] \in Bundle /\ bundle'[b].slug = bundle[b].slug /\ bundle'[b].filled = TRUE
      /\ \A j \in Bundles \ {b} : bundle'[j] = bundle[j]
      /\ bundle' \in [Bundles -> Bundle \cup {Unused, Gone}]
  <2>1. b \in Bundles /\ bundle[b] \in Bundle
    BY <1>3
  <2>a. PICK row : row = [bundle[b] EXCEPT !.filled = TRUE]
    OBVIOUS
  <2>2. row \in Bundle /\ row.slug = bundle[b].slug /\ row.filled = TRUE
    BY <2>1, <2>a DEF Bundle
  <2>3. bundle' = [bundle EXCEPT ![b] = row]
    BY <1>1, <2>a
  <2> QED BY <2>1, <2>2, <2>3, <1>2 DEF BundlesOK
<1>5. Live(bundle') = Live(bundle) /\ bundle[b].slug \in Slugs
  <2>1. Live(bundle') \subseteq Bundles /\ \A j \in Bundles : j \in Live(bundle') <=> bundle'[j] \in Bundle
    BY <1>4, LiveBundles
  <2>2. bundle[b].slug \in Slugs
    BY <1>3 DEF Bundle
  <2> QED BY <2>1, <2>2, <1>3, <1>4
<1>6. ClientStep({}, {})
  BY <1>1, <1>2 DEF ClientStep, ClientsOK
<1>7. BundleStep({}, {}, bundle[b].slug)
  BY <1>3, <1>4, <1>5, RowsDiffer DEF BundleStep
<1>8. ClientsOK' /\ BundlesOK' /\ LinksOK' /\ LocksOK' /\ FoundOK'
  <2>1. Updating' = Updating /\ call' = call
    BY <1>1 DEF Updating
  <2> QED BY <2>1, <1>2, <1>6, <1>7, TablesKept
<1>9. TagsOK'
  BY <1>1, <1>2 DEF TagsOK, LiveTags
<1>10. CallsOK'
  <2>1. dir' \in [Slugs -> {None, "empty", "filled"}]
    BY <1>1, <1>2 DEF CallsOK
  <2> QED BY <2>1, <1>1, <1>2, AdminCounts DEF CallsOK
<1>11. Alone'
  <2>1. call'[c].pc # "commit"
    BY <1>1 DEF Admin, Idle
  <2> QED BY <2>1, <1>1, <1>2, AdminKeepsAlone
<1>12. DirsOK'
  <2> SUFFICES ASSUME ~ overlapped', faults' = 0
               PROVE  /\ \A s \in Slugs : dir'[s] = DirOf(bundle', s)
                      /\ \A d \in Calls : call'[d].pc # "dirs"
    BY DEF DirsOK
  <2>1. /\ \A d \in Calls : call[d].pc # "dirs"
        /\ \A s \in Slugs : dir[s] = DirOf(bundle, s)
    BY <1>1, <1>2, AdminDirs
  <2>2. ASSUME NEW s \in Slugs PROVE dir'[s] = DirOf(bundle', s)
    <3>1. CASE s = bundle[b].slug
      <4>1. \A i \in Live(bundle') : bundle'[i].slug = bundle'[b].slug => i = b
        BY <1>4, <1>5, <1>8 DEF BundlesOK
      <4>2. DirOf(bundle', bundle'[b].slug) = "filled"
        BY <4>1, <1>4, <1>5, DirOfSole
      <4>3. dir'[s] = "filled"
        BY <3>1, <1>1, <1>2, <1>5 DEF CallsOK
      <4> QED BY <4>2, <4>3, <3>1, <1>4
    <3>2. CASE s # bundle[b].slug
      <4>1. DirOf(bundle, s) = DirOf(bundle', s)
        <5>1. \A i \in Live(bundle) : bundle[i].slug = s =>
                 i \in Live(bundle') /\ bundle'[i].slug = s /\ bundle'[i].filled = bundle[i].filled
          BY <3>2, <1>3, <1>4, <1>5
        <5>2. \A i \in Live(bundle') : bundle'[i].slug = s => i \in Live(bundle) /\ bundle[i].slug = s
          BY <3>2, <1>3, <1>4, <1>5
        <5> QED BY <5>1, <5>2, DirOfSame
      <4>2. dir'[s] = dir[s]
        BY <3>2, <1>1, <1>2 DEF CallsOK
      <4> QED BY <4>1, <4>2, <2>1
    <3> QED BY <3>1, <3>2
  <2> QED BY <2>1, <2>2, <1>1
<1> QED BY <1>8, <1>9, <1>10, <1>11, <1>12 DEF Core

(* Where update_client will link the build: an absent bundleSlug means the   *)
(* bundle that was read, if it is still there.                               *)
LEMMA Resolved ==
    ASSUME BundlesOK, NEW old, NEW s \in Slugs, NEW asked \in Slugs \cup {"null", "absent"}
    PROVE  /\ resolve_owned_bundle_slug(old, s, asked) \in Slugs
           /\ asked = "absent" /\ old \in Live(bundle) =>
                bundle[old].slug = resolve_owned_bundle_slug(old, s, asked)
<1>1. "absent" \notin Slugs /\ "null" \notin Slugs
  BY CatalogAssumption
<1>2. old \in Live(bundle) => bundle[old].slug \in Slugs
  BY LiveBundles DEF BundlesOK, Bundle
<1>3. CASE asked \in Slugs
  BY <1>1, <1>3 DEF resolve_owned_bundle_slug
<1>4. CASE asked = "null"
  BY <1>1, <1>4 DEF resolve_owned_bundle_slug
<1>5. CASE asked = "absent"
  <2>1. resolve_owned_bundle_slug(old, s, asked) = IF old \in Live(bundle) THEN bundle[old].slug ELSE s
    BY <1>1, <1>5 DEF resolve_owned_bundle_slug
  <2> QED BY <2>1, <1>2
<1> QED BY <1>3, <1>4, <1>5

LEMMA DecideUpdateKeeps ==
    ASSUME Core, NEW c \in Calls, DecideUpdate(c)
    PROVE  Core'
<1>k. PICK k : k = call[c].client
  OBVIOUS
<1>b. PICK old : old = call[c].old
  OBVIOUS
<1>0. /\ call[c].pc = "found"
      /\ UNCHANGED <<client, bundle, dir, tag, attached, overlapped, requests, faults>>
  BY DEF DecideUpdate
<1>1. PICK s \in Slugs, asked \in Slugs \cup {"null", "absent"}, optin \in BOOLEAN :
        /\ k \notin HeldClients
        /\ k \in Live(client) => s \notin HeldSlugs /\ ClientAt(s) \subseteq {k}
        /\ Now(c, [pc |-> "commit", client |-> k, slug |-> s,
                   target |-> resolve_owned_bundle_slug(old, s, asked),
                   old |-> old, optin |-> optin,
                   keep |-> asked = "absent" /\ old # None
                                /\ k \in Live(client) /\ client[k].link = old,
                   drop |-> strand_old_bundle(k, old, optin)
                                /\ bundle[old].slug # resolve_owned_bundle_slug(old, s, asked)])
  BY <1>k, <1>b DEF DecideUpdate
<1>a. PICK target : target = resolve_owned_bundle_slug(old, s, asked)
  OBVIOUS
<1>c. PICK keep : keep = (asked = "absent" /\ old # None /\ k \in Live(client) /\ client[k].link = old)
  OBVIOUS
<1>d. PICK drop : drop = (strand_old_bundle(k, old, optin) /\ bundle[old].slug # target)
  OBVIOUS
<1>e. PICK q : q = [pc |-> "commit", client |-> k, slug |-> s, target |-> target,
                    old |-> old, optin |-> optin, keep |-> keep, drop |-> drop]
  OBVIOUS
<1>2. CallsOK /\ ClientsOK /\ BundlesOK /\ LinksOK /\ FoundOK /\ LocksOK /\ DirsOK /\ TagsOK /\ Alone
  BY DEF Core
<1>3. /\ k \in Clients /\ old \in Bundles \cup {None}
      /\ client[k] # Unused /\ (old # None => bundle[old] # Unused)
  <2>1. call[c] \in Found
    BY <1>0, <1>2, CallFields
  <2> QED BY <2>1, <1>0, <1>2, <1>k, <1>b DEF Found, FoundOK
<1>4. target \in Slugs /\ (asked = "absent" /\ old \in Live(bundle) => bundle[old].slug = target)
  BY <1>2, <1>a, Resolved
<1>5. keep \in BOOLEAN /\ drop \in BOOLEAN
  BY <1>c, <1>d, Zenon
<1>6. q \in Update /\ q \in Handler /\ q.pc = "commit"
  BY <1>3, <1>4, <1>5, <1>e DEF Update, Handler
<1>7. /\ q.client = k /\ q.slug = s /\ q.target = target /\ q.keep = keep /\ q.old = old
      /\ q.optin = optin /\ q.drop = drop
  BY <1>e
<1>8. Now(c, q)
  BY <1>1, <1>a, <1>c, <1>d, <1>e
<1>9. call'[c] = q /\ \A d \in Calls \ {c} : call'[d] = call[d]
  BY <1>2, <1>8, CallSet
<1>10. c \notin Updating /\ Updating' = Updating \cup {c}
  BY <1>0, <1>6, <1>9 DEF Updating
<1>11. CallsOK'
  <2>1. call' \in [Calls -> Handler]
    BY <1>2, <1>6, <1>8, CallTyped
  <2> QED BY <2>1, <1>0, <1>2 DEF CallsOK
<1>12. ClientsOK' /\ BundlesOK' /\ LinksOK' /\ TagsOK'
  BY <1>0, <1>2 DEF ClientsOK, BundlesOK, LinksOK, TagsOK, LiveTags
<1>13. FoundOK'
  BY <1>0, <1>2, <1>6, <1>9 DEF FoundOK
<1>14. k \in Live(client) => \A d \in Holding : call[d].client # k /\ call[d].slug # s
  BY <1>1 DEF HeldClients, HeldSlugs
<1>15. \A d \in Holding' \ {c} : d \in Holding /\ call'[d] = call[d]
  BY <1>0, <1>9, <1>10 DEF Holding, Updating
<1>16. Lock(c)'
  <2>1. client'[call'[c].client] # Unused
    BY <1>0, <1>3, <1>7, <1>9
  <2>2. ASSUME call'[c].client \in Live(client)'
        PROVE  /\ \A j \in Live(client)' : client'[j].slug = call'[c].slug => j = call'[c].client
               /\ \A d \in Holding' \ {c} : call'[d].client # call'[c].client /\ call'[d].slug # call'[c].slug
    <3>1. k \in Live(client)
      BY <2>2, <1>0, <1>7, <1>9
    <3>2. \A j \in Live(client) : client[j].slug = s => j = k
      BY <3>1, <1>1 DEF ClientAt
    <3> QED BY <3>1, <3>2, <1>0, <1>7, <1>9, <1>14, <1>15
  <2>3. ASSUME call'[c].keep
        PROVE  /\ call'[c].client \in Live(client)' /\ client'[call'[c].client].link = call'[c].old
               /\ call'[c].old # None /\ bundle'[call'[c].old].slug = call'[c].target
    <3>1. asked = "absent" /\ old # None /\ k \in Live(client) /\ client[k].link = old
      BY <2>3, <1>7, <1>9, <1>c
    <3>2. bundle[old].slug = target
      BY <3>1, <1>2, <1>4 DEF LinksOK
    <3> QED BY <3>1, <3>2, <1>0, <1>7, <1>9
  <2>4. ASSUME call'[c].drop
        PROVE  /\ call'[c].old # None /\ bundle'[call'[c].old] # Unused
               /\ call'[c].old \in Live(bundle)' => bundle'[call'[c].old].slug # call'[c].target
    <3>1. old \in Live(bundle) /\ bundle[old].slug # target
      BY <2>4, <1>7, <1>9, <1>d DEF strand_old_bundle
    <3>2. old # None
      BY <3>1, <1>2, LiveBundles, CatalogAssumption DEF BundlesOK
    <3> QED BY <3>1, <3>2, <1>0, <1>3, <1>7, <1>9
  <2> QED BY <2>1, <2>2, <2>3, <2>4 DEF Lock
<1>17. ASSUME NEW d \in Updating PROVE Lock(d)'
  <2>1. Lock(d) /\ call'[d] = call[d] /\ d \in Calls \ {c}
    BY <1>2, <1>9, <1>10, <1>17 DEF LocksOK, Updating
  <2>2. client' = client /\ bundle' = bundle /\ Live(client)' = Live(client) /\ Live(bundle)' = Live(bundle)
    BY <1>0
  <2>3. ASSUME call[d].client \in Live(client), NEW e \in Holding' \ {d}
        PROVE  call'[e].client # call[d].client /\ call'[e].slug # call[d].slug
    <3>1. d \in Holding
      BY <2>3, <1>17 DEF Holding
    <3>2. CASE e = c
      <4>1. k \in Live(client)
        BY <3>2, <2>3, <2>2, <1>7, <1>9 DEF Holding
      <4> QED BY <4>1, <3>1, <3>2, <1>7, <1>9, <1>14
    <3>3. CASE e # c
      BY <3>3, <2>1, <2>3, <1>15 DEF Lock
    <3> QED BY <3>2, <3>3
  <2> QED BY <2>1, <2>2, <2>3 DEF Lock
<1>18. LocksOK'
  BY <1>10, <1>16, <1>17 DEF LocksOK
<1>19. Alone'
  <2> SUFFICES ASSUME ~ overlapped'
               PROVE  /\ \A b, d \in Calls : Busy(b)' /\ Busy(d)' => b = d
                      /\ \A b \in Updating' : call'[b].drop =>
                           strand_old_bundle(call[b].client, call[b].old, call[b].optin)'
    BY DEF Alone
  <2>1. \A d \in Calls \ {c} : ~ Busy(d)
    BY <1>0, <1>2 DEF Alone, Busy
  <2>2. \A d \in Calls : Busy(d)' => d = c
    BY <2>1, <1>9 DEF Busy
  <2>3. \A b \in Updating' : b = c
    BY <2>2 DEF Updating, Busy
  <2>4. call'[c].drop => strand_old_bundle(k, old, optin)
    BY <1>7, <1>9, <1>d
  <2>5. strand_old_bundle(call[c].client, call[c].old, call[c].optin)' = strand_old_bundle(k, old, optin)
    BY <1>0, <1>7, <1>9 DEF strand_old_bundle
  <2> QED BY <2>2, <2>3, <2>4, <2>5
<1>20. DirsOK'
  BY <1>0, <1>2, <1>6, <1>9, DirsKept
<1> QED BY <1>11, <1>12, <1>13, <1>18, <1>19, <1>20 DEF Core

(* The SELECT that update_client and delete_client begin with.               *)
LEMMA ReadLinkKeeps ==
    ASSUME Core, NEW c \in Calls, ReadLink(c)
    PROVE  Core'
<1>1. PICK k \in Live(client) :
        /\ Admin(c) /\ Now(c, [pc |-> "found", client |-> k, old |-> client[k].link])
        /\ UNCHANGED <<client, bundle, dir, tag, attached, faults>>
  BY DEF ReadLink
<1>a. PICK q : q = [pc |-> "found", client |-> k, old |-> client[k].link]
  OBVIOUS
<1>2. CallsOK /\ ClientsOK /\ BundlesOK /\ LinksOK /\ FoundOK /\ LocksOK /\ DirsOK /\ TagsOK
  BY DEF Core
<1>3. /\ k \in Clients /\ client[k] # Unused /\ client[k].link \in Bundles \cup {None}
      /\ client[k].link # None => bundle[client[k].link] # Unused
  <2>1. Live(bundle) \subseteq Bundles /\ k \in Clients
    BY <1>2, LiveBundles, LiveClients DEF BundlesOK, ClientsOK
  <2> QED BY <2>1, <1>2 DEF LinksOK, Live
<1>4. q \in Handler /\ q.pc = "found" /\ q.client = k /\ q.old = client[k].link
  BY <1>3, <1>a DEF Handler, Found
<1>5. call'[c] = q /\ \A d \in Calls \ {c} : call'[d] = call[d]
  BY <1>1, <1>2, <1>a, CallSet
<1>6. CallsOK'
  <2>1. call' \in [Calls -> Handler]
    BY <1>1, <1>2, <1>4, <1>a, CallTyped
  <2> QED BY <2>1, <1>1, <1>2, AdminCounts DEF CallsOK
<1>7. ClientsOK' /\ BundlesOK' /\ LinksOK' /\ TagsOK'
  BY <1>1, <1>2 DEF ClientsOK, BundlesOK, LinksOK, TagsOK, LiveTags
<1>8. FoundOK'
  BY <1>1, <1>2, <1>3, <1>4, <1>5 DEF FoundOK
<1>9. LocksOK'
  <2>1. Updating' \subseteq Updating /\ \A d \in Updating' : call'[d] = call[d]
    BY <1>4, <1>5 DEF Updating
  <2>2. ClientStep({}, {}) /\ BundleStep({}, {}, None)
    BY <1>1, <1>2, SameTables
  <2> QED BY <2>1, <2>2, <1>2, LocksKept
<1>10. Alone'
  BY <1>1, <1>2, <1>4, <1>5, AdminKeepsAlone
<1>11. DirsOK'
  <2>1. overlapped => overlapped'
    BY <1>1 DEF Admin
  <2>2. call[c].pc # "dirs"
    BY <1>1 DEF Admin, Idle
  <2> QED BY <2>1, <2>2, <1>1, <1>2, <1>4, <1>5, DirsKept
<1> QED BY <1>6, <1>7, <1>8, <1>9, <1>10, <1>11 DEF Core

(* The reads, a refused request and the victim of a deadlock.                *)
LEMMA ReadsKeep ==
    ASSUME Core, NEW c \in Calls,
           ListClients(c) \/ LoadTags(c) \/ LoadBundles(c) \/ Answer(c) \/ Refuse(c)
             \/ DeadlockVictim(c)
    PROVE  Core'
<1>1. CallsOK /\ ClientsOK /\ LinksOK /\ BundlesOK
  BY DEF Core
<1>2. faults \in 0 .. MaxFaults
  BY <1>1 DEF CallsOK
<1>3. Idle \in {Idle} \cup Read
  OBVIOUS
<1>4. CASE ListClients(c)
  <2>a. PICK ks : ks = {k \in Live(client) : client[k].published}
    OBVIOUS
  <2>b. PICK q : q = [pc |-> "keywords", clients |-> ks, shown |-> {},
                      links |-> {client[k].link : k \in ks} \ {None}]
    OBVIOUS
  <2>1. /\ call[c] = Idle /\ Now(c, q)
        /\ UNCHANGED <<client, bundle, dir, tag, attached, overlapped, requests, faults>>
    BY <1>4, <2>a, <2>b DEF ListClients
  <2>2. ks \subseteq Clients /\ \A k \in ks : client[k].link \in Bundles \cup {None}
    <3>1. Live(client) \subseteq Clients /\ \A j \in Clients : j \in Live(client) => client[j] \in Client
      BY <1>1, LiveClients DEF ClientsOK
    <3> QED BY <3>1, <2>a DEF Client
  <2>3. q \in Read
    BY <2>2, <2>b DEF Read
  <2>4. call[c].pc # "dirs"
    BY <2>1 DEF Idle
  <2> QED BY <2>1, <2>3, <2>4, <1>2, CallStepKeeps
<1>5. CASE LoadTags(c)
  <2>a. PICK q : q = [call[c] EXCEPT !.pc = "bundles",
                  !.shown = {t \in Tags : tag[t] = "published"
                                 /\ \E k \in call[c].clients : <<k, t>> \in attached}]
    OBVIOUS
  <2>1. /\ call[c].pc = "keywords" /\ Now(c, q)
        /\ UNCHANGED <<client, bundle, dir, tag, attached, overlapped, requests, faults>>
    BY <1>5, <2>a DEF LoadTags
  <2>2. call[c] \in Read
    BY <2>1, <1>1, CallFields DEF Reading
  <2>3. q \in Read
    BY <2>2, <2>a DEF Read
  <2> QED BY <2>1, <2>3, <1>2, CallStepKeeps
<1>6. CASE LoadBundles(c)
  <2>a. PICK q : q = [call[c] EXCEPT !.pc = "done", !.shown = @ \cup (call[c].links \cap Live(bundle))]
    OBVIOUS
  <2>1. /\ call[c].pc = "bundles" /\ Now(c, q)
        /\ UNCHANGED <<client, bundle, dir, tag, attached, overlapped, requests, faults>>
    BY <1>6, <2>a DEF LoadBundles
  <2>2. call[c] \in Read
    BY <2>1, <1>1, CallFields DEF Reading
  <2>3. q \in Read
    BY <2>2, <2>a DEF Read
  <2> QED BY <2>1, <2>3, <1>2, CallStepKeeps
<1>7. CASE Answer(c)
  <2>1. /\ call[c].pc = "done" /\ Now(c, Idle)
        /\ UNCHANGED <<client, bundle, dir, tag, attached, overlapped, requests, faults>>
    BY <1>7 DEF Answer
  <2> QED BY <2>1, <1>2, <1>3, CallStepKeeps
<1>8. CASE DeadlockVictim(c)
  <2>1. /\ call[c].pc = "commit" /\ Now(c, Idle)
        /\ UNCHANGED <<client, bundle, dir, tag, attached, overlapped, requests, faults>>
    BY <1>8 DEF DeadlockVictim, Updating
  <2> QED BY <2>1, <1>2, <1>3, CallStepKeeps
<1>9. CASE Refuse(c)
  <2>1. /\ call[c].pc = "found" /\ Now(c, Idle)
        /\ UNCHANGED <<client, bundle, dir, tag, attached, overlapped, requests, faults>>
    BY <1>9 DEF Refuse
  <2> QED BY <2>1, <1>2, <1>3, CallStepKeeps
<1> QED BY <1>4, <1>5, <1>6, <1>7, <1>8, <1>9

LEMMA StepKeeps ==
    ASSUME Core, NEW c \in Calls, Step(c)
    PROVE  Core'
BY CreateClientKeeps, ReadLinkKeeps, DecideUpdateKeeps, CommitUpdateKeeps, DeleteClientKeeps, DirsFinishedKeeps,
   PublishClientKeeps, UploadFilesKeeps, DeleteBundleKeeps, TagsKeep, ReadsKeep, AbortKeeps DEF Step

-----------------------------------------------------------------------------
(* One call moves at a time; an update in progress commits or vanishes.      *)
LEMMA OthersStay ==
    ASSUME Core, NEW c \in Calls, Step(c)
    PROVE  \A d \in Calls \ {c} : call'[d] = call[d]
<1>1. CallsOK
  BY DEF Core
<1>2. CASE call' = call
  BY <1>2
<1>3. CASE \E q : Now(c, q)
  BY <1>1, <1>3, CallSet
<1>4. call' = call \/ \E q : Now(c, q)
  <2>1. CASE CreateClient(c) \/ DeleteClient(c) \/ DeleteBundle(c) \/ CommitUpdate(c)
    <3>1. \E make, remove : Finish(c, make, remove)
      BY <2>1, Zenon DEF CreateClient, DeleteClient, DeleteBundle, CommitUpdate
    <3> QED BY <3>1 DEF Finish
  <2>2. CASE DecideUpdate(c) \/ ReadLink(c)
    BY <2>2, Zenon DEF DecideUpdate, ReadLink
  <2>3. CASE DeadlockVictim(c) \/ FinishDirs(c) \/ Answer(c) \/ Abort(c) \/ Refuse(c)
    BY <2>3 DEF DeadlockVictim, Refuse, FinishDirs, Answer, Abort
  <2>4. CASE ListClients(c) \/ LoadTags(c) \/ LoadBundles(c)
    BY <2>4, Zenon DEF ListClients, LoadTags, LoadBundles
  <2>5. CASE PublishClient(c) \/ UploadFiles(c) \/ CreateTag(c) \/ DeleteTag(c) \/ PublishTag(c) \/ AttachTag(c)
    BY <2>5 DEF PublishClient, UploadFiles, CreateTag, DeleteTag, PublishTag, AttachTag
  <2> QED BY <2>1, <2>2, <2>3, <2>4, <2>5 DEF Step
<1> QED BY <1>2, <1>3, <1>4

LEMMA UpdateSteps ==
    ASSUME Core, NEW e \in Calls, Step(e), NEW c \in Updating, call'[c] # call[c]
    PROVE  CommitUpdate(c) \/ UNCHANGED <<client, bundle>>
<1>1. e = c /\ call[c].pc = "commit"
  BY OthersStay DEF Updating
<1>2. call[c] # Idle /\ ~ Admin(c)
  BY <1>1 DEF Admin, Idle
<1>3. /\ ~ CreateClient(c) /\ ~ ReadLink(c) /\ ~ PublishClient(c)
      /\ ~ UploadFiles(c) /\ ~ DeleteBundle(c) /\ ~ CreateTag(c) /\ ~ DeleteTag(c)
      /\ ~ PublishTag(c) /\ ~ AttachTag(c)
  BY <1>2, Zenon DEF CreateClient, ReadLink, PublishClient, UploadFiles, DeleteBundle,
     CreateTag, DeleteTag, PublishTag, AttachTag
<1>6. ~ DecideUpdate(c) /\ ~ DeleteClient(c) /\ ~ Refuse(c)
  BY <1>1 DEF DecideUpdate, DeleteClient, Refuse
<1>4. ~ ListClients(c) /\ ~ LoadTags(c) /\ ~ LoadBundles(c) /\ ~ Answer(c) /\ ~ FinishDirs(c)
  BY <1>1, <1>2 DEF ListClients, LoadTags, LoadBundles, Answer, FinishDirs
<1>5. DeadlockVictim(c) \/ Abort(c) => UNCHANGED <<client, bundle>>
  BY DEF DeadlockVictim, Abort
<1> QED BY <1>1, <1>3, <1>4, <1>5, <1>6 DEF Step

(* What a commit deletes, and where it links the build.                      *)
LEMMA Committed ==
    ASSUME Core, NEW c \in Updating, CommitUpdate(c)
    PROVE  /\ \A b \in Live(bundle) : bundle'[b] = Gone => call[c].drop /\ b = call[c].old
           /\ call[c].keep => client'[call[c].client].link = call[c].old
<1> DEFINE u == call[c]
           gone == IF u.drop /\ u.old \in Live(bundle) THEN {u.old} ELSE {}
           at == BundleAt(u.target)
<1>1. PICK b \in IF at # {} THEN at ELSE {i \in Bundles : bundle[i] = Unused} :
        /\ client' = [k \in Clients |->
                        IF k = u.client /\ k \in Live(client)
                        THEN [slug |-> u.slug, link |-> b, published |-> client[k].published]
                        ELSE Unlinked(client, gone)[k]]
        /\ bundle' = [i \in Bundles |->
                        IF i \in gone THEN Gone
                        ELSE IF i = b /\ at = {} THEN [slug |-> u.target, filled |-> FALSE]
                        ELSE bundle[i]]
  BY DEF CommitUpdate
<1>a. u = call[c]
  OBVIOUS
<1>b. gone = IF u.drop /\ u.old \in Live(bundle) THEN {u.old} ELSE {}
  OBVIOUS
<1>c. at = BundleAt(u.target)
  OBVIOUS
<1> HIDE DEF u, gone, at
<1>2. ClientsOK /\ BundlesOK /\ LinksOK /\ Lock(c)
  BY DEF Core, LocksOK
<1>3. Live(bundle) \subseteq Bundles /\ \A i \in Live(bundle) : bundle[i] # Gone
  BY <1>2, LiveBundles DEF BundlesOK, Live
<1>4. ASSUME NEW i \in Live(bundle), bundle'[i] = Gone PROVE u.drop /\ i = u.old
  <2>1. i \in gone
    <3>1. [slug |-> u.target, filled |-> FALSE] # Gone
      BY DEF Gone
    <3> QED BY <3>1, <1>1, <1>3, <1>4
  <2> QED BY <2>1, <1>b
<1>5. ASSUME u.keep PROVE client'[u.client].link = u.old
  <2>1. /\ u.client \in Live(client) /\ client[u.client].link = u.old
        /\ u.old # None /\ bundle[u.old].slug = u.target
    BY <1>2, <1>5, <1>a DEF Lock
  <2>2. u.old \in Live(bundle) /\ u.client \in Clients
    BY <2>1, <1>2, LiveClients DEF LinksOK, ClientsOK
  <2>3. u.old \in at /\ \A i \in at : i = u.old
    BY <2>1, <2>2, <1>2, <1>c DEF BundleAt, BundlesOK
  <2>4. b = u.old
    BY <2>3
  <2> QED BY <2>1, <2>2, <2>4, <1>1
<1> QED BY <1>4, <1>5, <1>a

-----------------------------------------------------------------------------
(* A read takes into its answer what is public at that moment.               *)
LEMMA Shown ==
    ASSUME Core, NEW c \in Calls, Step(c), NEW d \in Calls, Reading(d)'
    PROVE  \/ Reading(d) /\ call'[d] = call[d]
           \/ /\ Public' = Public
              /\ call'[d].clients \cup call'[d].shown \subseteq
                    (IF Reading(d) THEN call[d].clients \cup call[d].shown ELSE {}) \cup Public
<1>1. CallsOK /\ \A e \in Calls \ {c} : call'[e] = call[e]
  BY OthersStay DEF Core
<1>2. CASE call'[d] = call[d]
  BY <1>2 DEF Reading
<1> SUFFICES ASSUME d = c
             PROVE  \/ Reading(c) /\ call'[c] = call[c]
                    \/ /\ Public' = Public
                       /\ call'[c].clients \cup call'[c].shown \subseteq
                            (IF Reading(c) THEN call[c].clients \cup call[c].shown ELSE {}) \cup Public
  BY <1>1, <1>2
<1>3. CASE call'[c] = call[c]
  BY <1>3 DEF Reading
<1>4. ASSUME UNCHANGED <<client, bundle, tag>> PROVE Public' = Public
  BY <1>4 DEF Public
<1>5. CASE ListClients(c)
  <2>a. PICK ks : ks = {k \in Live(client) : client[k].published}
    OBVIOUS
  <2>b. PICK q : q = [pc |-> "keywords", clients |-> ks, shown |-> {},
                      links |-> {client[k].link : k \in ks} \ {None}]
    OBVIOUS
  <2>1. Now(c, q) /\ UNCHANGED <<client, bundle, tag>>
    BY <1>5, <2>a, <2>b DEF ListClients
  <2>2. call'[c].clients = ks /\ call'[c].shown = {}
    BY <2>1, <2>b, <1>1, CallSet
  <2>3. ks \subseteq Public
    BY <2>a DEF Public
  <2> QED BY <2>1, <2>2, <2>3, <1>4
<1>6. CASE LoadTags(c)
  <2>a. PICK tags : tags = {t \in Tags : tag[t] = "published" /\ \E k \in call[c].clients : <<k, t>> \in attached}
    OBVIOUS
  <2>b. PICK q : q = [call[c] EXCEPT !.pc = "bundles", !.shown = tags]
    OBVIOUS
  <2>1. Reading(c) /\ Now(c, q) /\ UNCHANGED <<client, bundle, tag>>
    BY <1>6, <2>a, <2>b DEF LoadTags, Reading
  <2>2. call[c] \in Read
    BY <2>1, <1>1, CallFields
  <2>3. q.clients = call[c].clients /\ q.shown = tags
    BY <2>2, <2>b DEF Read
  <2>5. call'[c] = q
    BY <2>1, <1>1, CallSet
  <2>4. tags \subseteq Public
    BY <2>a DEF Public
  <2> QED BY <2>1, <2>3, <2>4, <2>5, <1>4
<1>7. CASE LoadBundles(c)
  <2>b. PICK q : q = [call[c] EXCEPT !.pc = "done", !.shown = @ \cup (call[c].links \cap Live(bundle))]
    OBVIOUS
  <2>1. Reading(c) /\ Now(c, q) /\ UNCHANGED <<client, bundle, tag>>
    BY <1>7, <2>b DEF LoadBundles, Reading
  <2>2. call[c] \in Read
    BY <2>1, <1>1, CallFields
  <2>3. q.clients = call[c].clients /\ q.shown = call[c].shown \cup (call[c].links \cap Live(bundle))
    BY <2>2, <2>b DEF Read
  <2>5. call'[c] = q
    BY <2>1, <1>1, CallSet
  <2>4. Live(bundle) \subseteq Public
    BY DEF Public
  <2> QED BY <2>1, <2>3, <2>4, <2>5, <1>4
<1>8. CASE call' = call
  BY <1>3, <1>8
<1>9. CASE Now(c, Idle)
  BY <1>1, <1>9, CallSet DEF Reading, Idle
<1>10. CASE CreateClient(c) \/ DeleteClient(c) \/ DeleteBundle(c) \/ CommitUpdate(c)
  <2>1. PICK make, remove : Finish(c, make, remove)
    BY <1>10, Zenon DEF CreateClient, DeleteClient, DeleteBundle, CommitUpdate
  <2>a. PICK q : q = IF make \cup remove = {} THEN Idle
                     ELSE [pc |-> "dirs", make |-> make, remove |-> remove]
    OBVIOUS
  <2>2. Now(c, q) /\ q.pc \in {"idle", "dirs"}
    BY <2>1, <2>a DEF Finish, Idle
  <2> QED BY <2>2, <1>1, CallSet DEF Reading
<1>11. CASE DecideUpdate(c) \/ ReadLink(c)
  <2>1. CASE ReadLink(c)
    <3>1. PICK k : Now(c, [pc |-> "found", client |-> k, old |-> client[k].link])
      BY <2>1 DEF ReadLink
    <3> QED BY <3>1, <1>1, CallSet DEF Reading
  <2>2. CASE DecideUpdate(c)
    <3>1. PICK k, s, t, o, n, e, r :
            Now(c, [pc |-> "commit", client |-> k, slug |-> s, target |-> t, old |-> o,
                    optin |-> n, keep |-> e, drop |-> r])
      BY <2>2, Zenon DEF DecideUpdate
    <3> QED BY <3>1, <1>1, CallSet DEF Reading
  <2> QED BY <1>11, <2>1, <2>2
<1>12. CASE DeadlockVictim(c) \/ FinishDirs(c) \/ Answer(c) \/ Abort(c) \/ Refuse(c)
  BY <1>9, <1>12 DEF DeadlockVictim, Refuse, FinishDirs, Answer, Abort
<1>13. CASE PublishClient(c) \/ UploadFiles(c) \/ CreateTag(c) \/ DeleteTag(c) \/ PublishTag(c) \/ AttachTag(c)
  BY <1>8, <1>13 DEF PublishClient, UploadFiles, CreateTag, DeleteTag, PublishTag, AttachTag
<1> QED BY <1>5, <1>6, <1>7, <1>10, <1>11, <1>12, <1>13 DEF Step

LEMMA PublicRows ==
    ASSUME ClientsOK, BundlesOK
    PROVE  Public \subseteq Clients \cup Bundles \cup Tags
<1>1. Live(client) \subseteq Clients /\ Live(bundle) \subseteq Bundles
  BY LiveClients, LiveBundles DEF ClientsOK, BundlesOK
<1> QED BY <1>1 DEF Public

LEMMA WatchKeeps ==
    ASSUME Core, SeenOK, AnswerHidesDrafts, Core', NEW c \in Calls, Step(c), Watch
    PROVE  SeenOK' /\ AnswerHidesDrafts'
<1>1. ClientsOK' /\ BundlesOK' /\ ClientsOK /\ BundlesOK
  BY DEF Core
<1>2. /\ Public \subseteq Clients \cup Bundles \cup Tags
      /\ Public' \subseteq Clients \cup Bundles \cup Tags
  <2>1. Public \subseteq Clients \cup Bundles \cup Tags
    BY <1>1, PublicRows
  <2>2. Live(client') \subseteq Clients /\ Live(bundle') \subseteq Bundles
    BY <1>1, LiveClients, LiveBundles DEF ClientsOK, BundlesOK
  <2>3. Public' \subseteq Clients \cup Bundles \cup Tags
    BY <2>2 DEF Public
  <2> QED BY <2>1, <2>3
<1>3. visible' = [d \in Calls |->
            IF ~ Reading(d)' THEN {}
            ELSE (IF Reading(d) THEN visible[d] ELSE Public) \cup Public']
  BY DEF Watch
<1>4. SeenOK'
  <2>1. \A d \in Calls : visible'[d] \in SUBSET (Clients \cup Bundles \cup Tags)
    BY <1>2, <1>3 DEF SeenOK
  <2>2. visible' \in [Calls -> SUBSET (Clients \cup Bundles \cup Tags)]
    BY <2>1, <1>3
  <2> QED BY <2>2 DEF SeenOK
<1>5. ASSUME NEW d \in Calls, Reading(d)'
      PROVE  call'[d].clients \cup call'[d].shown \subseteq visible'[d]
  <2>1. visible'[d] = (IF Reading(d) THEN visible[d] ELSE Public) \cup Public'
    BY <1>3, <1>5
  <2>2. Reading(d) => call[d].clients \cup call[d].shown \subseteq visible[d]
    BY DEF AnswerHidesDrafts
  <2>3. \/ Reading(d) /\ call'[d] = call[d]
        \/ /\ Public' = Public
           /\ call'[d].clients \cup call'[d].shown \subseteq
                 (IF Reading(d) THEN call[d].clients \cup call[d].shown ELSE {}) \cup Public
    BY <1>5, Shown
  <2>4. CASE Reading(d) /\ call'[d] = call[d]
    BY <2>1, <2>2, <2>4
  <2>5. CASE /\ Public' = Public
             /\ call'[d].clients \cup call'[d].shown \subseteq
                   (IF Reading(d) THEN call[d].clients \cup call[d].shown ELSE {}) \cup Public
    BY <2>1, <2>2, <2>5
  <2> QED BY <2>3, <2>4, <2>5
<1> QED BY <1>4, <1>5 DEF AnswerHidesDrafts

-----------------------------------------------------------------------------
LEMMA InitCatalog == Init => CatalogInv
<1> SUFFICES ASSUME Init PROVE CatalogInv
  OBVIOUS
<1>1. Live(client) = {} /\ Live(bundle) = {}
  BY DEF Init, Live
<1>2. \A c \in Calls : call[c] = Idle /\ call[c].pc = "idle"
  BY DEF Init, Idle
<1>3. Updating = {} /\ \A c \in Calls : ~ Busy(c) /\ ~ Reading(c) /\ call[c].pc \notin {"dirs", "found"}
  BY <1>2 DEF Updating, Busy, Reading
<1>4. ClientsOK /\ BundlesOK /\ LinksOK
  BY <1>1 DEF Init, ClientsOK, BundlesOK, LinksOK
<1>5. TagsOK /\ CallsOK /\ SeenOK
  <2>1. TagsOK /\ SeenOK
    BY DEF Init, TagsOK, SeenOK
  <2>2. requests \in 0 .. MaxRequests /\ faults \in 0 .. MaxFaults
    BY CatalogAssumption DEF Init
  <2>3. call \in [Calls -> Handler] /\ dir \in [Slugs -> {None, "empty", "filled"}]
    BY DEF Init, Handler
  <2>4. overlapped \in BOOLEAN
    BY DEF Init
  <2> QED BY <2>1, <2>2, <2>3, <2>4 DEF CallsOK
<1>6. FoundOK /\ LocksOK /\ Alone /\ AnswerHidesDrafts
  BY <1>3 DEF FoundOK, LocksOK, Alone, AnswerHidesDrafts
<1>7. DirsOK
  <2>1. \A s \in Slugs : DirOf(bundle, s) = None
    BY <1>1, DirOfNone
  <2> QED BY <2>1, <1>3 DEF Init, DirsOK
<1> QED BY <1>4, <1>5, <1>6, <1>7 DEF CatalogInv, Core

LEMMA NextCatalog == CatalogInv /\ [Next]_vars => CatalogInv'
<1> SUFFICES ASSUME CatalogInv, [Next]_vars PROVE CatalogInv'
  OBVIOUS
<1>1. CASE UNCHANGED vars
  <2>1. UNCHANGED <<client, bundle, dir, tag, attached, call, visible, overlapped, requests, faults>>
    BY <1>1 DEF vars
  <2>2. CallsOK' /\ TagsOK' /\ DirsOK' /\ SeenOK' /\ AnswerHidesDrafts'
    <3>1. CallsOK' /\ TagsOK' /\ SeenOK'
      BY <2>1 DEF CatalogInv, Core, CallsOK, TagsOK, LiveTags, SeenOK
    <3>2. DirsOK'
      BY <2>1, DirsKept DEF CatalogInv, Core
    <3>3. AnswerHidesDrafts'
      BY <2>1 DEF CatalogInv, AnswerHidesDrafts, Reading
    <3> QED BY <3>1, <3>2, <3>3
  <2>3. \A d \in Calls : Busy(d)' => Busy(d) /\ call'[d] = call[d]
    BY <2>1 DEF Busy
  <2>4. Core'
    BY <2>1, <2>2, <2>3, QuietKeeps DEF CatalogInv
  <2> QED BY <2>2, <2>4 DEF CatalogInv
<1>2. CASE Next
  <2>1. PICK c \in Calls : Step(c) /\ Watch
    BY <1>2 DEF Next
  <2>2. Core'
    BY <2>1, StepKeeps DEF CatalogInv
  <2>3. SeenOK' /\ AnswerHidesDrafts'
    BY <2>1, <2>2, WatchKeeps DEF CatalogInv
  <2> QED BY <2>2, <2>3 DEF CatalogInv
<1> QED BY <1>1, <1>2

(* The inductive invariant.                                                  *)
LEMMA CatalogInvariant == Spec => []CatalogInv
BY InitCatalog, NextCatalog, PTL DEF Spec

-----------------------------------------------------------------------------
LEMMA AtMostOne ==
    ASSUME NEW S, \A x, y \in S : x = y
    PROVE  Cardinality(S) <= 1
<1>1. CASE S = {}
  BY <1>1, FS_EmptySet
<1>2. CASE S # {}
  <2>1. PICK x : S = {x}
    BY <1>2
  <2>2. Cardinality(S) = 1
    BY <2>1, FS_Singleton
  <2> QED BY <2>2
<1> QED BY <1>1, <1>2

LEMMA CatalogTypes == CatalogInv => TypeOK
<1> SUFFICES ASSUME CatalogInv PROVE TypeOK
  OBVIOUS
<1>1. ClientsOK /\ BundlesOK /\ LinksOK /\ TagsOK /\ CallsOK /\ SeenOK
  BY DEF CatalogInv, Core
<1>2. ASSUME NEW s \in Slugs PROVE Cardinality(ClientAt(s)) <= 1 /\ Cardinality(BundleAt(s)) <= 1
  <2>1. \A x, y \in ClientAt(s) : x = y
    BY <1>1 DEF ClientAt, ClientsOK
  <2>2. \A x, y \in BundleAt(s) : x = y
    BY <1>1 DEF BundleAt, BundlesOK
  <2> QED BY <2>1, <2>2, AtMostOne
<1>3. client \in [Clients -> Client \cup {Unused, Gone}] /\ bundle \in [Bundles -> Bundle \cup {Unused, Gone}]
  BY <1>1 DEF ClientsOK, BundlesOK
<1>4. \A k \in Live(client) : client[k].link \in Live(bundle) \cup {None}
  BY <1>1 DEF LinksOK
<1> QED BY <1>1, <1>2, <1>3, <1>4 DEF TypeOK, TagsOK, CallsOK, SeenOK

(* As long as admin calls do not overlap and none is cut short, bundle rows  *)
(* and directories agree, slug by slug and down to whether files are there,  *)
(* after any sequence of create, update, delete and upload, for any number   *)
(* of builds and bundles.                                                    *)
THEOREM DirectoriesFollowRows == Spec => []RowsAndDirsAgree
<1>1. CatalogInv => RowsAndDirsAgree
  <2> SUFFICES ASSUME CatalogInv PROVE RowsAndDirsAgree
    OBVIOUS
  <2>1. TypeOK
    BY CatalogTypes
  <2>2. ASSUME ~ overlapped, faults = 0, \A c \in Calls : call[c].pc \notin {"commit", "dirs"},
               NEW s \in Slugs
        PROVE  dir[s] = IF BundleAt(s) = {} THEN None
                        ELSE IF \E b \in BundleAt(s) : bundle[b].filled THEN "filled" ELSE "empty"
    <3>1. dir[s] = DirOf(bundle, s)
      BY <2>2 DEF CatalogInv, Core, DirsOK
    <3> QED BY <3>1 DEF DirOf, BundleAt
  <2> QED BY <2>1, <2>2 DEF RowsAndDirsAgree
<1> QED BY <1>1, CatalogInvariant, PTL

(* An answer put together from several snapshots shows nothing that was not  *)
(* public at some moment since the request began, whatever is published,     *)
(* withdrawn, attached or deleted meanwhile.                                 *)
THEOREM AnswersAreCurrent == Spec => []AnswerHidesDrafts
<1>1. CatalogInv => AnswerHidesDrafts
  BY DEF CatalogInv
<1> QED BY <1>1, CatalogInvariant, PTL

(* update_client deletes the bundle it moves away from only if no other      *)
(* build links it, and one that holds files only on request: the decision it *)
(* took still holds at the DELETE, unless another call overlapped.           *)
THEOREM MovesSpareBundles == Spec => UpdateSparesBundles
<1>1. CatalogInv /\ [Next]_vars =>
        [\A c \in Updating, b \in Live(bundle) :
          bundle'[b] = Gone /\ call'[c] # call[c] /\ ~ overlapped' =>
              /\ \A k \in Live(client) \ {call[c].client} : client[k].link # b
              /\ bundle[b].filled => call[c].optin]_vars
  <2> SUFFICES ASSUME CatalogInv, Next, NEW c \in Updating, NEW b \in Live(bundle),
                      bundle'[b] = Gone, call'[c] # call[c], ~ overlapped'
               PROVE  /\ \A k \in Live(client) \ {call[c].client} : client[k].link # b
                      /\ bundle[b].filled => call[c].optin
    OBVIOUS
  <2>1. PICK e \in Calls : Step(e)
    BY DEF Next
  <2>2. Core
    BY DEF CatalogInv
  <2>3. CommitUpdate(c)
    <3>1. bundle[b] # Gone
      BY DEF Live
    <3> QED BY <3>1, <2>1, <2>2, UpdateSteps
  <2>4. call[c].drop /\ b = call[c].old
    BY <2>2, <2>3, Committed
  <2>5. ~ overlapped
    BY <2>3 DEF CommitUpdate
  <2>6. strand_old_bundle(call[c].client, call[c].old, call[c].optin)
    BY <2>2, <2>4, <2>5 DEF Core, Alone
  <2> QED BY <2>4, <2>6 DEF strand_old_bundle
<1> QED BY <1>1, CatalogInvariant, PTL DEF Spec, UpdateSparesBundles

(* With any number of other calls in flight: once the UPDATE of an update    *)
(* without bundleSlug has locked a build whose link is the one that was      *)
(* read, no step of any call moves the build away from that bundle, the      *)
(* commit of the update included.                                            *)
THEOREM RenamesKeepBundles == Spec => RenameKeepsBundle
<1>1. CatalogInv /\ [Next]_vars =>
        [\A c \in Updating : call[c].keep => client'[call[c].client].link = call[c].old]_vars
  <2> SUFFICES ASSUME CatalogInv, CatalogInv', Next, NEW c \in Updating, call[c].keep
               PROVE  client'[call[c].client].link = call[c].old
    BY NextCatalog
  <2>1. PICK e \in Calls : Step(e)
    BY DEF Next
  <2>2. Core /\ LocksOK /\ LocksOK'
    BY DEF CatalogInv, Core
  <2>3. client[call[c].client].link = call[c].old
    BY <2>2 DEF LocksOK, Lock
  <2>4. CASE call'[c] = call[c]
    <3>1. c \in Updating'
      BY <2>4 DEF Updating
    <3> QED BY <3>1, <2>2, <2>4 DEF LocksOK, Lock
  <2>5. CASE call'[c] # call[c]
    BY <2>1, <2>2, <2>3, <2>5, UpdateSteps, Committed
  <2> QED BY <2>4, <2>5
<1> QED BY <1>1, CatalogInvariant, PTL DEF Spec, RenameKeepsBundle

=============================================================================
