------------------------------ MODULE Catalog ------------------------------
(***************************************************************************)
(* The launcher catalog (crates/catalog): builds ("clients"), the bundle   *)
(* each of them owns, the keywords and servers attached to them (tags),    *)
(* and the reads that assemble one answer from several statements.         *)
(*                                                                         *)
(* A transaction is one step, except that update_client and delete_client  *)
(* first read the build's link in a SELECT that locks nothing, and that    *)
(* update_client decides what happens to the old bundle in one step and    *)
(* deletes it in another.  Other transactions commit in between; from its  *)
(* first UPDATE on, row locks make those wait that touch the same build,   *)
(* slug or bundle.  Directories are made and removed after the commit,     *)
(* unless a fault comes first.  Texts, versions and sort order are data    *)
(* and left out; of what a bundle holds, see Bundles, only whether it      *)
(* holds files is kept.                                                    *)
(***************************************************************************)
EXTENDS Naturals, FiniteSets

CONSTANTS
    Clients,    \* ids of catalog_clients, each used once
    Bundles,    \* ids of bundles, each used once
    Slugs,      \* slugs of clients and of bundles
    Tags,       \* ids of catalog_keywords and catalog_servers
    Calls,      \* handlers in flight at once
    MaxRequests,\* bound on the admin calls made
    MaxFaults   \* bound on crashes and disconnects

VARIABLES
    client,      \* catalog_clients
    bundle,      \* bundles, and whether there are bundle_artifacts
    dir,         \* {storage_root}/builds/{slug}
    tag,         \* published_at of the keywords and servers
    attached,    \* catalog_client_keywords, catalog_client_servers
    call,        \* handlers in flight
    visible,     \* history: what was public at some moment of each read
    overlapped,  \* history: two admin calls overlapped
    requests,    \* admin calls so far
    faults

vars == <<client, bundle, dir, tag, attached, call, visible, overlapped, requests, faults>>

None == "none"

ASSUME CatalogAssumption ==
    /\ IsFiniteSet(Calls) /\ MaxRequests \in Nat /\ MaxFaults \in Nat
    /\ Clients \cap Bundles = {} /\ Clients \cap Tags = {} /\ Bundles \cap Tags = {}
    /\ None \notin Bundles /\ {"null", "absent"} \cap Slugs = {}

Unused == [id |-> "unused"]
Gone == [id |-> "gone"]

Client == [slug: Slugs, link: Bundles \cup {None}, published: BOOLEAN]
Bundle == [slug: Slugs, filled: BOOLEAN]

Found == [pc: {"found"}, client: Clients, old: Bundles \cup {None}]
Update == [pc: {"commit"}, client: Clients, slug: Slugs, target: Slugs,
           keep: BOOLEAN, old: Bundles \cup {None}, drop: BOOLEAN, optin: BOOLEAN]
Dirs == [pc: {"dirs"}, make: SUBSET Slugs, remove: SUBSET Slugs]
Read == [pc: {"keywords", "bundles", "done"}, clients: SUBSET Clients,
         links: SUBSET Bundles, shown: SUBSET (Tags \cup Bundles)]
Idle == [pc |-> "idle"]
Handler == {Idle} \cup Found \cup Update \cup Dirs \cup Read

Live(t) == {i \in DOMAIN t : t[i] \notin {Unused, Gone}}
LiveTags == {t \in Tags : tag[t] \in {"draft", "published"}}
ClientAt(s) == {k \in Live(client) : client[k].slug = s}
BundleAt(s) == {b \in Live(bundle) : bundle[b].slug = s}

TypeOK ==
    /\ client \in [Clients -> Client \cup {Unused, Gone}]
    /\ bundle \in [Bundles -> Bundle \cup {Unused, Gone}]
    /\ dir \in [Slugs -> {None, "empty", "filled"}]
    /\ tag \in [Tags -> {"unused", "gone", "draft", "published"}]
    /\ attached \subseteq Live(client) \X LiveTags
    /\ call \in [Calls -> Handler]
    /\ visible \in [Calls -> SUBSET (Clients \cup Bundles \cup Tags)]
    /\ overlapped \in BOOLEAN /\ requests \in 0 .. MaxRequests /\ faults \in 0 .. MaxFaults
    /\ \A s \in Slugs : Cardinality(ClientAt(s)) <= 1 /\ Cardinality(BundleAt(s)) <= 1
    /\ \A k \in Live(client) : client[k].link \in Live(bundle) \cup {None}

Init ==
    /\ client = [k \in Clients |-> Unused]
    /\ bundle = [b \in Bundles |-> Unused]
    /\ dir = [s \in Slugs |-> None]
    /\ tag = [t \in Tags |-> "unused"]
    /\ attached = {}
    /\ call = [c \in Calls |-> Idle]
    /\ visible = [c \in Calls |-> {}]
    /\ overlapped = FALSE /\ requests = 0 /\ faults = 0

-----------------------------------------------------------------------------
Updating == {c \in Calls : call[c].pc = "commit"}

\* What the open transactions hold locks on; others wait for it.  An UPDATE
\* of a build that is gone changes no row and locks none.
Holding == {c \in Updating : call[c].client \in Live(client)}
HeldClients == {call[c].client : c \in Holding}
HeldSlugs == {call[c].slug : c \in Holding}
Provisioning == {call[c].target : c \in Updating} \ {bundle[b].slug : b \in Live(bundle)}

\* A DELETE of bundle b waits for those who link it, and for the builds whose
\* link it sets to NULL.
Waits(c, b) ==
    \E d \in Holding \ {c} :
        bundle[b].slug = call[d].target \/ client[call[d].client].link = b

Now(c, q) == call' = [call EXCEPT ![c] = q]
Admin(c) ==
    /\ call[c] = Idle
    /\ requests < MaxRequests /\ requests' = requests + 1
    /\ overlapped' = (overlapped \/ \E d \in Calls : call[d].pc \in {"found", "commit", "dirs"})
Finish(c, make, remove) ==
    Now(c, IF make \cup remove = {} THEN Idle
           ELSE [pc |-> "dirs", make |-> make, remove |-> remove])

\* The row of k, linked to the bundle at slug target, which is provisioned if
\* there is none: link_owned_bundle with the bundles crate's
\* provision_bundle_row.  bs is the table of bundles before it.
link_owned_bundle(k, row, target, bs) ==
    LET at == {b \in Live(bs) : bs[b].slug = target}
    IN  \E b \in IF at # {} THEN at ELSE {i \in Bundles : bs[i] = Unused} :
            /\ client' = [client EXCEPT ![k] = [row EXCEPT !.link = b]]
            /\ bundle' = IF at # {} THEN bs
                         ELSE [bs EXCEPT ![b] = [slug |-> target, filled |-> FALSE]]

(* create_client: the slug is unique, the bundle is at bundleSlug or else at *)
(* the build's own slug.                                                     *)
CreateClient(c) ==
    \E k \in Clients, s \in Slugs \ HeldSlugs, target \in Slugs \ Provisioning, publish \in BOOLEAN :
        /\ Admin(c)
        /\ client[k] = Unused /\ ClientAt(s) = {}
        /\ link_owned_bundle(k, [slug |-> s, link |-> None, published |-> publish], target, bundle)
        /\ Finish(c, {target} \ {bundle[b].slug : b \in Live(bundle)}, {})
        /\ UNCHANGED <<dir, tag, attached, faults>>

(* The SELECT of bundle_id that update_client and delete_client begin with;  *)
(* it locks nothing.  The rest of the request is not looked at before.       *)
ReadLink(c) ==
    \E k \in Live(client) :
        /\ Admin(c)
        /\ Now(c, [pc |-> "found", client |-> k, old |-> client[k].link])
        /\ UNCHANGED <<client, bundle, dir, tag, attached, faults>>

(* A slug that is taken, locales of a build that is gone, a disconnect: the  *)
(* transaction ends before it wrote anything.                                *)
Refuse(c) ==
    /\ call[c].pc = "found"
    /\ Now(c, Idle)
    /\ UNCHANGED <<client, bundle, dir, tag, attached, overlapped, requests, faults>>

\* Mutant of resolve_owned_bundle_slug: an absent bundleSlug is an explicit null.
resolve_owned_bundle_slug_null(old, slug, asked) == IF asked \in Slugs THEN asked ELSE slug

(* resolve_owned_bundle_slug: a slug, null or absent is asked for.  old is   *)
(* the link as it was read; if that bundle is gone by now, the build's slug. *)
resolve_owned_bundle_slug(old, slug, asked) ==
    CASE asked \in Slugs -> asked
      [] asked = "null" -> slug
      [] OTHER -> IF old \in Live(bundle) THEN bundle[old].slug ELSE slug

\* Mutant of strand_old_bundle: references from other builds are not counted.
strand_unreferenced(k, old, optin) == old \in Live(bundle) /\ (optin \/ ~ bundle[old].filled)

(* strand_old_bundle: is the bundle that k moves away from deleted?          *)
strand_old_bundle(k, old, optin) ==
    /\ old \in Live(bundle)
    /\ \A j \in Live(client) \ {k} : client[j].link # old
    /\ optin \/ ~ bundle[old].filled

(* update_client from its first UPDATE, which waits for the row and for the  *)
(* slug, to the decision on the bundle that was read; whether it keeps the   *)
(* link is noted if the UPDATE found the link that was read.                 *)
DecideUpdate(c) ==
    /\ call[c].pc = "found"
    /\ \E s \in Slugs, asked \in Slugs \cup {"null", "absent"}, optin \in BOOLEAN :
        LET k == call[c].client
            old == call[c].old
            target == resolve_owned_bundle_slug(old, s, asked)
        IN  /\ k \notin HeldClients
            /\ k \in Live(client) => s \notin HeldSlugs /\ ClientAt(s) \subseteq {k}
            /\ target \notin Provisioning
            /\ Now(c, [pc |-> "commit", client |-> k, slug |-> s, target |-> target,
                       old |-> old, optin |-> optin,
                       keep |-> asked = "absent" /\ old # None
                                    /\ k \in Live(client) /\ client[k].link = old,
                       drop |-> strand_old_bundle(k, old, optin) /\ bundle[old].slug # target])
    /\ UNCHANGED <<client, bundle, dir, tag, attached, overlapped, requests, faults>>

\* ON DELETE SET NULL of catalog_clients.bundle_id.
Unlinked(cs, gone) ==
    [k \in Clients |-> IF k \in Live(cs) /\ cs[k].link \in gone
                       THEN [cs[k] EXCEPT !.link = None] ELSE cs[k]]

(* The rest of update_client: link, DELETE of the old bundle, commit.  If    *)
(* the build is gone, its bundle is provisioned all the same.                *)
CommitUpdate(c) ==
    /\ call[c].pc = "commit"
    /\ LET u == call[c]
           gone == IF u.drop /\ u.old \in Live(bundle) THEN {u.old} ELSE {}
           at == BundleAt(u.target)
       IN  /\ \A i \in gone : ~ Waits(c, i)
           /\ \E b \in IF at # {} THEN at ELSE {i \in Bundles : bundle[i] = Unused} :
                 /\ client' = [k \in Clients |->
                        IF k = u.client /\ k \in Live(client)
                        THEN [slug |-> u.slug, link |-> b, published |-> client[k].published]
                        ELSE Unlinked(client, gone)[k]]
                 /\ bundle' = [i \in Bundles |->
                        IF i \in gone THEN Gone
                        ELSE IF i = b /\ at = {} THEN [slug |-> u.target, filled |-> FALSE]
                        ELSE bundle[i]]
           /\ Finish(c, IF at = {} THEN {u.target} ELSE {}, {bundle[i].slug : i \in gone})
    /\ UNCHANGED <<dir, tag, attached, overlapped, requests, faults>>

(* Two updates that wait for each other: PostgreSQL rolls one of them back.  *)
DeadlockVictim(c) ==
    /\ Cardinality(Updating) > 1
    /\ \A d \in Updating : call[d].drop /\ call[d].old \in Live(bundle) /\ Waits(d, call[d].old)
    /\ c \in Updating
    /\ Now(c, Idle)
    /\ UNCHANGED <<client, bundle, dir, tag, attached, overlapped, requests, faults>>

(* delete_client: the build, then the bundle that was read, whoever else     *)
(* links it by now.                                                          *)
DeleteClient(c) ==
    /\ call[c].pc = "found"
    /\ LET k == call[c].client
           gone == {call[c].old} \cap Live(bundle)
       IN  /\ k \notin HeldClients
           /\ \A i \in gone : ~ Waits(c, i)
           /\ client' = [Unlinked(client, gone) EXCEPT ![k] = Gone]
           /\ bundle' = [i \in Bundles |-> IF i \in gone THEN Gone ELSE bundle[i]]
           /\ attached' = {a \in attached : a[1] # k}
           /\ Finish(c, {}, {bundle[i].slug : i \in gone})
    /\ UNCHANGED <<dir, tag, overlapped, requests, faults>>

\* Mutant of FinishDirs: the directory of a deleted bundle is left behind.
FinishDirsKeeps(c) ==
    /\ call[c].pc = "dirs"
    /\ dir' = [s \in Slugs |-> IF s \in call[c].make /\ dir[s] = None THEN "empty" ELSE dir[s]]
    /\ Now(c, Idle)
    /\ UNCHANGED <<client, bundle, tag, attached, overlapped, requests, faults>>

(* ensure_bundle_dir and remove_bundle_dir, after the commit.                *)
FinishDirs(c) ==
    /\ call[c].pc = "dirs"
    /\ dir' = [s \in Slugs |->
          IF s \in call[c].remove THEN None
          ELSE IF s \in call[c].make /\ dir[s] = None THEN "empty" ELSE dir[s]]
    /\ Now(c, Idle)
    /\ UNCHANGED <<client, bundle, tag, attached, overlapped, requests, faults>>

(* set_published of a build.                                                 *)
PublishClient(c) ==
    \E k \in Live(client) \ HeldClients :
        /\ Admin(c)
        /\ client' = [client EXCEPT ![k].published = ~ @]
        /\ UNCHANGED <<bundle, dir, tag, attached, call, faults>>

-----------------------------------------------------------------------------
(* The bundles admin, as far as the catalog is concerned.                    *)

(* upload_archive: files on disk and their rows.                             *)
UploadFiles(c) ==
    \E b \in Live(bundle) :
        /\ Admin(c)
        /\ bundle' = [bundle EXCEPT ![b].filled = TRUE]
        /\ dir' = [dir EXCEPT ![bundle[b].slug] = "filled"]
        /\ UNCHANGED <<client, tag, attached, call, faults>>

(* delete: the row, which unlinks its builds, then the directory.            *)
DeleteBundle(c) ==
    \E b \in Live(bundle) :
        /\ Admin(c)
        /\ ~ Waits(c, b)
        /\ bundle' = [bundle EXCEPT ![b] = Gone]
        /\ client' = Unlinked(client, {b})
        /\ Finish(c, {}, {bundle[b].slug})
        /\ UNCHANGED <<dir, tag, attached, faults>>

-----------------------------------------------------------------------------
(* Keywords and servers.                                                     *)

CreateTag(c) ==
    \E t \in Tags :
        /\ Admin(c)
        /\ tag[t] = "unused"
        /\ tag' = [tag EXCEPT ![t] = "published"]
        /\ UNCHANGED <<client, bundle, dir, attached, call, faults>>

DeleteTag(c) ==
    \E t \in LiveTags :
        /\ Admin(c)
        /\ tag' = [tag EXCEPT ![t] = "gone"]
        /\ attached' = {a \in attached : a[2] # t}
        /\ UNCHANGED <<client, bundle, dir, call, faults>>

PublishTag(c) ==
    \E t \in LiveTags :
        /\ Admin(c)
        /\ tag' = [tag EXCEPT ![t] = IF @ = "draft" THEN "published" ELSE "draft"]
        /\ UNCHANGED <<client, bundle, dir, attached, call, faults>>

(* attach_ and detach_keyword, attach_ and detach_server.                    *)
AttachTag(c) ==
    \E k \in Live(client), t \in LiveTags :
        /\ Admin(c)
        /\ \/ attached' = attached \cup {<<k, t>>}
           \/ attached' = attached \ {<<k, t>>}
        /\ UNCHANGED <<client, bundle, dir, tag, call, faults>>

-----------------------------------------------------------------------------
(* list_clients and load_client: the published builds, then one statement    *)
(* per relation, each of its own snapshot.                                   *)

ListClients(c) ==
    LET ks == {k \in Live(client) : client[k].published}
    IN  /\ call[c] = Idle
        /\ ks # {}
        /\ Now(c, [pc |-> "keywords", clients |-> ks, shown |-> {},
                   links |-> {client[k].link : k \in ks} \ {None}])
        /\ UNCHANGED <<client, bundle, dir, tag, attached, overlapped, requests, faults>>

\* Mutant of LoadTags: without the filter on published_at.
LoadAllTags(c) ==
    /\ call[c].pc = "keywords"
    /\ Now(c, [call[c] EXCEPT !.pc = "bundles",
                  !.shown = {t \in Tags : \E k \in call[c].clients : <<k, t>> \in attached}])
    /\ UNCHANGED <<client, bundle, dir, tag, attached, overlapped, requests, faults>>

(* load_client_relations: the published tags of those builds.                *)
LoadTags(c) ==
    /\ call[c].pc = "keywords"
    /\ Now(c, [call[c] EXCEPT !.pc = "bundles",
                  !.shown = {t \in Tags : tag[t] = "published"
                                 /\ \E k \in call[c].clients : <<k, t>> \in attached}])
    /\ UNCHANGED <<client, bundle, dir, tag, attached, overlapped, requests, faults>>

(* load_bundles: a link read earlier whose bundle is gone shows nothing.     *)
LoadBundles(c) ==
    /\ call[c].pc = "bundles"
    /\ Now(c, [call[c] EXCEPT !.pc = "done", !.shown = @ \cup (call[c].links \cap Live(bundle))])
    /\ UNCHANGED <<client, bundle, dir, tag, attached, overlapped, requests, faults>>

Answer(c) ==
    /\ call[c].pc = "done"
    /\ Now(c, Idle)
    /\ UNCHANGED <<client, bundle, dir, tag, attached, overlapped, requests, faults>>

-----------------------------------------------------------------------------
(* A disconnect, an error or a crash: an open transaction rolls back, the    *)
(* directories stay as they are.                                             *)
Abort(c) ==
    /\ call[c].pc \in {"commit", "dirs"}
    /\ faults < MaxFaults /\ faults' = faults + 1
    /\ Now(c, Idle)
    /\ UNCHANGED <<client, bundle, dir, tag, attached, overlapped, requests>>

Step(c) ==
    \/ CreateClient(c) \/ ReadLink(c) \/ Refuse(c) \/ DecideUpdate(c) \/ CommitUpdate(c) \/ DeadlockVictim(c)
    \/ DeleteClient(c) \/ FinishDirs(c) \/ PublishClient(c) \/ UploadFiles(c) \/ DeleteBundle(c)
    \/ CreateTag(c) \/ DeleteTag(c) \/ PublishTag(c) \/ AttachTag(c)
    \/ ListClients(c) \/ LoadTags(c) \/ LoadBundles(c) \/ Answer(c) \/ Abort(c)

\* What the public API may show.
Public == {k \in Live(client) : client[k].published}
          \cup {t \in Tags : tag[t] = "published"} \cup Live(bundle)
Reading(c) == call[c].pc \in {"keywords", "bundles", "done"}
Watch == visible' = [c \in Calls |->
            IF ~ Reading(c)' THEN {}
            ELSE (IF Reading(c) THEN visible[c] ELSE Public) \cup Public']

Next == (\E c \in Calls : Step(c)) /\ Watch

Spec == Init /\ [][Next]_vars

-----------------------------------------------------------------------------
(* As long as admin calls do not overlap and none is cut short, a bundle row *)
(* and a directory exist for the same slugs, and files are on disk exactly   *)
(* where the rows say so, whichever of create, update, delete of builds and  *)
(* bundles came before.                                                      *)
RowsAndDirsAgree ==
    /\ TypeOK
    /\ ~ overlapped /\ faults = 0 /\ (\A c \in Calls : call[c].pc \notin {"commit", "dirs"}) =>
        \A s \in Slugs :
            dir[s] = IF BundleAt(s) = {} THEN None
                     ELSE IF \E b \in BundleAt(s) : bundle[b].filled THEN "filled" ELSE "empty"

(* update_client deletes the bundle it moves away from only if no other      *)
(* build links it, and one that holds files only on request, unless another  *)
(* call overlaps it between its SELECT and the DELETE.                       *)
UpdateSparesBundles ==
    [][\A c \in Updating, b \in Live(bundle) :
          bundle'[b] = Gone /\ call'[c] # call[c] /\ ~ overlapped' =>
              /\ \A k \in Live(client) \ {call[c].client} : client[k].link # b
              /\ bundle[b].filled => call[c].optin]_vars

(* If the link that update_client read is still there when its UPDATE locks  *)
(* the row, an update without bundleSlug keeps it: from then on neither its  *)
(* own commit nor any other call moves the build to another bundle or takes  *)
(* that bundle away, so that a rename strands no files.  A link that changed *)
(* between the SELECT and the UPDATE is not covered: it is overwritten.      *)
RenameKeepsBundle ==
    [][\A c \in Updating :
          call[c].keep => client'[call[c].client].link = call[c].old]_vars

(* Although an answer is put together from several snapshots, it shows no    *)
(* build, keyword, server or bundle that was not public at some moment since *)
(* the request began.                                                        *)
AnswerHidesDrafts ==
    \A c \in Calls : Reading(c) => call[c].clients \cup call[c].shown \subseteq visible[c]

=============================================================================
