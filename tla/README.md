# TLA+ models of the Loontail network service

The repository is a Rust web service (axum, tokio, PostgreSQL) for Minecraft
launchers: accounts and Yggdrasil authentication, friends and presence, worlds
that friends join through a relay, a catalog of game builds with their files,
skins and capes, and an admin interface. This directory models the parts in
which several clients, tasks and statements meet in an order nobody wrote down,
or in which a request that ends half way leaves tables, disk and memory to
agree again.

Contents: [inventory](#inventory), [modules](#modules-and-the-code),
[runs](#runs), [bounds](#why-the-bounds-are-enough), [fairness](#fairness),
[refinement](#refinement), [proofs](#proofs), [finding](#finding),
[observations](#observations), [not modelled](#not-modelled), [plan](#plan).

## Inventory

How the parts run: every HTTP request is a tokio task on a multi-threaded
runtime. It reads and writes PostgreSQL (read committed), one pooled connection
per statement unless the handler opens a transaction, and it can be dropped at
any `await` when its client disconnects. A task spawned by a WebSocket upgrade
is not dropped, and what runs on a blocking thread runs to its end. In memory,
behind mutexes that are never held over an `await`: `SignalingHub` (who is
connected), `RelayHub` (who waits for a tunnel), the session server's join map,
the rate limiter's buckets, the request log's ring. A restart loses all of them
and keeps tables and disk; at start-up `reconcile_after_restart` closes the
relay rows and zeroes the player counts, and `ensure_bootstrap_admin` looks for
an admin.

| Component | State | Operations | Talks to | Hard behaviour | What makes it correct |
|---|---|---|---|---|---|
| World sessions (`network/worlds.rs`) | `world_sessions`: status, `max_players`, `current_players` | POST (upsert, zeroes the count), PATCH, DELETE, shared cleanup | relay rows, presence | PATCH decides from a copy; POST and close under live tunnels | closing closes what hangs on the world |
| Relay (`network/relay.rs`, `RelayHub`) | waiting map, gauge, relay rows, tickets | upgrade, take, park, admit, pipe, release, close | world rows | two lock sections, an awaited statement between every two steps, the 90 s timer, restarts | one host with one guest; the cap; count and gauge agree with the tunnels; nobody waits for ever |
| Friends (`network/friends.rs`) | `friend_requests`, `friendships` | request (with auto-accept), accept, decline, remove | pushes | read-then-write without a lock | friendship by consent, accepted once |
| Join requests, invites, tickets (`network/join.rs`, `invites.rs`) | `join_requests`, `world_invites`, `join_tickets` | create, accept, decline, approve, revoke, ticket | friends, presence, worlds | conditions are stale at accept; row locks against conditional updates | one ticket per accepted row; terminal is terminal; re-validated; the host admits strangers |
| Join-state cleanup (`network/cleanup.rs`) | the same tables | hourly expire and delete | – | runs against calls in flight | expires active rows only |
| Presence, signaling (`network/presence.rs`, `signaling.rs`, `SignalingHub`) | `presence`, sockets per user | connect, disconnect, heartbeat, set status | world close, friends' sockets | the last socket closes while a new one opens | gone is offline |
| Sessions, tokens, account handlers (`core/auth`, `yggdrasil/account.rs`, `yggdrasil/lib.rs`) | `sessions`, `yggdrasil_tokens` | login, register, refresh, logout, invalidate, the per-user cap | every handler | sequences of single statements without a transaction, dropped half way | a reset or demotion ends what existed; the cap holds |
| Admin user operations (`admin/users.rs`, `admin/startup.rs`) | `users` | create, patch, block, delete, reset, revoke; bootstrap admin | sessions, tokens | check-then-act of `guard_last_admin` | an admin is left |
| Identity (`core/identity.rs`, `network/users.rs`) | `users`: names, `minecraft_uuid`, `profile_uuid` | register, create, rename, bootstrap, login reconciliation | session server | two spellings of an id; read-then-write | the profile follows the Minecraft id, and once it does the identity stays |
| Session server (`yggdrasil/join_sessions.rs`) | announced joins with 30 s expiry | join, hasJoined | game servers | announced twice, claimed twice, claimed late | at most one answer per announcement |
| Rate limiter (`server/ratelimit.rs`, `ip.rs`) | hits per key, shared bucket | check, sweep, evict | credential routes | window edge, full table, forged headers | the budget per window, for its own hits only, in bounded memory |
| Request log (`core/request_log.rs`, `server/request_log_capture.rs`) | ring, bounded channel, batch, `request_logs` | capture, record, write, retention | extractors | session ends under the request, full channel, failed insert | right principal; ring and table differ only by what was given up |
| Bundles (`bundles`) | `bundles`, `bundle_artifacts`, `files/`, `artifacts.json` | archive and file upload, folders, move, rename, delete, rehash, regenerate | catalog, disk | rows, tree and manifest written by separate steps that fail | they agree after every completed call |
| Catalog (`catalog`) | builds, links to bundles, keywords, servers | create, update, delete, publish, attach; assembled reads | bundles, disk | shared bundles, directories after the commit, several snapshots per answer | no draft is shown; no bundle in use is deleted |
| Catalog media, textures (`catalog/admin.rs`, `textures`) | rows that name files | upload, delete, purge | disk | file, row and unlink are separate steps | a row names a file that exists |
| Yggdrasil protocol, keys, profiles; analytics; configuration; admin UI | – | conversions, reports, wiring, browser client | – | – | – |

`PROJECT.json` lists the components with their status, and the hazards with
the line at which each one bites.

## Modules and the code

Conventions. One action is one awaited statement, one transaction, one mutex
section or one file operation; handlers in flight are members of a finite set
and have a program counter. A row not inserted yet has status `"none"`. Ids,
users and payloads are model values. History variables are named as such where
they are declared and no guard of the code reads one (the environment of
`Admission` does: a guest who has ever been the host's friend may hold an
earlier ticket and arrive). An operator that has a wrong twin defined just
before it (`Kept` and `KeptOneMore`, `Take` and `TakeAnyRole`) is the subject of
a mutant: replacing it by the twin must break a property, which shows that the
property is sensitive to that line of code.

**`WorldSessions`** — the tables `world_sessions`, `relay_sessions` and
`join_tickets` (a relay row and its ticket are inserted together and are one
record here) and the writers in `worlds.rs` and `join.rs`. POST (`CreateWorld`)
is the upsert. DELETE (`CloseWorld`) is one transaction. PATCH is
`PatchReadWorld` (the read on the pool, and what the handler computes from it)
and `PatchWriteWorld` (the transaction), with `PatchAbort` for the error
paths, among them the unique index "one open world per host". A ticket is
`PreCheckTicket`, then `IssueTicketAndRelay`. The module has no Next; it is
the database half of `Relay`.

**`Relay`** — `relay_ws`, `validate_guest_ticket`, `handle_relay` and
`RelayHub`. `conn[c].pc` is the position in the handler:
`idle → loaded → (validated) → upgraded`, then `Take`; the second party goes
`paired → admitted → piping → ended → released → done`, or
`paired → refusing → done`; the first party `parking → parked → done`.
`waiting` is `RelayHub.waiting`, `active` its gauge. A failed statement is a
choice of its action and costs one of `MaxFaults`; `AdmitFailed` includes the
statement that committed and whose answer was lost. `Crash` empties the
process, keeps the tables, and applies the reconciliation of `db.rs`
(`ReconciledRelays`, `ReconciledWorlds`), which runs before the server listens
again. Two history variables say when `current_players` may be wrong: `wiped`
(zeroed while tunnels hold slots: too low) and `leaked` (a release was lost:
too high).

**`Friends`** — `create_request` is `BeginCreate`, `FindReverse`,
`InsertRequest` (or `InsertConflict`, the unique index), and continues as an
accept when the reverse request exists. `accept_internal` locks the row and is
one action, `decline` is a read and an unconditional update. `decisions`
records the decisions that were written, in order.

**`Admission`** — one world, its host and its guests. A row of `join_requests`
or `world_invites` is an item. `accept` holds the row lock over its steps:
`LockItem`, `ReadWorld`, `CheckTrust` and `CheckLink` (two statements),
`CommitAccept`. `decline`, `approve` and `revoke` are `ReadItem` and
`WriteItem`: their conditional updates wait for the lock and look at the
status again. Creation is `BeginRequest`/`BeginInvite`, `CheckEligible`,
`ExpireLapsed`, `InsertItem`. The rest of the service (friendships, policy,
capacity, membership, closing) is an environment that changes at any step, at
most `MaxEvents` times. `seen` records which conditions held at some moment of
each accept.

**`Presence`** — the row of a user (`offline`, `online`, or in a world), the
set of sockets in `SignalingHub`, and every writer: `MarkOnline`,
`MarkOffline`, `Heartbeat`, `Bootstrap`, `set_status` (`CheckStatus`,
`WriteStatus`), and the closing of a world. `handle_signaling` is `Connect`,
`MarkOnline`, `Announce`, then `Disconnect`, `CheckLast`, `MarkOffline`,
`Announce`. `touched` records that a row was last written by something other
than a socket, or that a socket's write failed.

**`Accounts`** — users, API sessions and Yggdrasil pairs. No handler of these
files opens a transaction, so a call is the list of statements it still has to
run (`todo`), written as the code writes it: `auth_response` is a session, a
pair, the eviction; `reset_password` is the new password and then the two
revocations; `demote_user` the two queries of `guard_last_admin`, the UPDATE,
the revocation. One action per statement (`IssueSession`, `InsertPair`,
`Evict`, `GuardCount`, ...). `Drop` cuts a call between two statements;
`Restart` runs `ensure_bootstrap_admin`. Credentials carry, as history, the
password version and the number of demotions in force when the credential they
descend from was verified, and whether they were inserted after a newer one
(`late`).

**`Identity`** — which Minecraft identity an account plays as. A
`minecraft_uuid` is a text (dashed, bare, or no uuid at all) and a
`profile_uuid` an id; `undash_uuid` and `reconcile_profile_uuid` are the code's
conversions. Actions: `Register`, `AdminCreate`, `Rename`, `DeleteUser`, the
agent's `Bootstrap` (one UPDATE with COALESCE), `Login` followed by
`Reconcile`, the mod's bootstrap (`ModBootstrap`, `FindByProfile`,
`InsertBootstrapRow` or `RefreshBootstrapRow`), and the session server: `Join`
(with the sweep of `record`), `HasJoined` (the atomic take) and
`AnswerHasJoined` (the load of the user after it).

**`JoinContract`** — the abstract session server: announcements that are open,
claimed or answered. See [refinement](#refinement).

**`Bundles`** — one build. A path is the sequence of its segments; a tree says
what is at every path; a SHA-256 stands for the content it was computed from.
A call is a member of `Calls` with the work it has left: an archive upload is
`SetProcessing`, `WipeFiles`, `ExtractAndScan` (which stops at a bad entry with
what was extracted before it), `UpsertScan`, then the manifest
(`ListArtifacts`, `BeginWrite`, `EndWrite`, `PublishManifest`, `MarkReady`), or
`SetFailed`. A move, single or of a batch, is one transaction taken entry by
entry: `MoveSubtree` checks the destination, rewrites the rows of the subtree as
the transaction sees them (`source`, `Staged`) and renames on disk
(`RenameOnDisk`); `CommitMoves` makes the rows visible, `RefuseMove` rolls them
back and leaves the tree as it is. Other calls wait for the rows it has touched
(`Unlocked`). Deletes remove rows and then bytes (`DeleteRows`,
`UnlinkEntries`). A manifest is written through one temporary file per build;
`out` says where the file a call holds open has gone when another call renamed
or removed it. A disconnect drops a call at its next await, an error ends it, a
crash ends everything. `drift` says that a call was cut short, failed half-way
or overlapped another and no complete archive upload on its own has followed;
`apart` that rows may name files that are not there: between the wipe of
`files/` and the end of an upload, after a rename whose transaction did not
commit, and when calls overlapped. `alone` says of a call that no other has run
beside it.

**`Catalog`** — builds, the bundle each one links, directories, tags (keywords
and servers) with their publication, and `list_clients` as the separate reads
it is made of (`ListClients`, `LoadTags`, `LoadBundles`, `Answer`).
`update_client` and `delete_client` begin with the same SELECT of the build's
`bundle_id`, which locks nothing (`ReadLink`). Then `DeleteClient` deletes the
build and the bundle that was read; an update goes on with `DecideUpdate` (from
its first UPDATE, which takes the row lock, through `strand_old_bundle`) and
`CommitUpdate`. `Refuse` is a transaction that ends before it wrote anything.
`FinishDirs` follows the commit; every other transaction is one step. Row locks
make calls on the same rows wait; an UPDATE of a build that is gone locks
nothing and the update goes on. `DeadlockVictim` is PostgreSQL's answer to two
calls that wait for each other. The field `keep` of an update notes that it
sends no `bundleSlug` and that the link it read was still there when its UPDATE
locked the build.

**`Storage`, `Textures`, `Media`, `Assets`** — files with a fresh name per
upload on one disk (`Storage`), the registry of skins and capes (`Textures`:
`UploadWrite`, `UploadReadOld`, `UploadUpsert`, `UnlinkOld`, `DeleteTexture`,
the purge `PurgeFetch`, `PurgeStat`, `PurgeDelete`), the images of the catalog
(`Media`: `MediaWrite`, `MediaDelete`, `MediaUnlink`, `MediaCommit`,
`DeleteMedia`, `DeleteClientRows`, `RemoveMediaDir`), and their composition
over that one disk (`Assets`). `LoseFile` removes a file from outside, which is
what the purge exists for.

**`RateLimit`** — `Arrive` reads the clock and resolves the address
(`client_ip`: peer or the rightmost forwarded value, by configuration);
`Check` is everything under the lock: `SweepDue`/`Swept`, the cap with
`Stalest`, `Pruned`, `Full`. `limiter_key` truncates IPv6 to /64. Ghosts keep
who was admitted when, whether a stamp entered late (`skewed`) and which keys
lost their bucket at the cap.

**`RequestLog`** — per request `Capture`, `Extract` (or `ExtractFails`),
`ResolvePrincipal` (or `ResolveFails`), `Record`, `PushRing`, `TrySend`; the
writer's `Receive`, `InsertBatch`, `InsertFails`; `EndSession`, `DeleteAged`,
disconnects and crashes.

**`MC...`** — instances for TLC: the functions and sets a .cfg cannot write,
and the symmetry sets. Symmetry is not used where a liveness property is
checked.

## Runs

`tlc -config <run>.cfg <module>`.

| Run | Instance | Shows |
|---|---|---|
| `relay` | 1 world of 1 slot, 1 relay session, 2 host and 2 guest connections, 1 PATCH, 1 fault | `TypeOK`; `PairsAreHostAndGuest`; `SocketHasOneOwner`; `CountTracksTunnels`, `GaugeCountsTunnels`: count and gauge follow the tunnels, with the exact direction in which faults and zeroing make the count err; `CapAtAdmission`; `ClosedRelayStaysClosed`; `UpgradedSettles`: nobody waits for ever |
| `friends` | 2 users, 2 requests, 2 calls | `AcceptedAtMostOnce`: no accept after another decision; `FriendsOnlyByConsent`: a new friendship answers a pending request to the accepting side |
| `admission` | host, 2 guests, 1 row, 2 calls, 1 change of the environment | `RevalidatedAtAccept`: every condition held during the accept itself; `HostLetsStrangersIn`; `OneTicketPerAccepted`; `TerminalIsFinal` |
| `presence` | 1 user, 4 sockets, 1 world, 1 status call, 1 fault | `GoneIsOffline`: once all sockets are gone the row is offline |
| `accounts` | 2 users, 2 calls, cap 1, 3 requests, 1 fault | `ResetLocksOut`, `DemotionEndsSessions`: no credential that existed outlives the reset or demotion; `CapHolds`; `LastAdminKept`: the guard errs only on a stale count |
| `identity` | 2 users, 2 names, 1 Minecraft id in 2 spellings, 1 server, 2 calls, 5 requests, 1 fault | `Reconciled`; `SettledIdentityStays`: once an account's profile is its Minecraft id, no request moves it, but for the step of a call whose own copy of the row is outdated; `ImplementsJoinContract` |
| `bundles` | 5 paths in 2 folders, 2 contents, 3 archives (one bad), 1 batch, 4 calls one after the other, 1 fault | `SettledConsistent`: rows, files and manifest agree, and one complete upload repairs any failure; `FreshBuildIsEmpty`; `RowsHaveFiles` in every state outside the two windows it names |
| `catalog` | 2 builds, 2 bundles, 2 slugs, 1 tag, 2 calls, 5 requests, 1 fault | `RowsAndDirsAgree`; `AnswerHidesDrafts`; `UpdateSparesBundles`; `RenameKeepsBundle`: from its UPDATE on, a rename keeps the bundle it read, whatever other calls do |
| `assets` | 4 files, skin and cape of a user, 1 build with a singular and a plural role, 2+2 calls, 4 requests, 2 faults | `TextureRowsHaveFiles`, `MediaRowsHaveFiles`: no row names a file the service removed (but for a rolled-back image upload); `SingularSlot`; `PurgeTakesStaleRows` |
| `rate_limit` | 2 tasks, 2 IPv4 and 2 IPv6 addresses, forged headers, 2 hits per 2 ticks, table of 2 keys | `WindowCap`, `MemoryBounded`, `RefusedForOwnHits` |
| `request_log` | 2 callers, 1 user, ring 2, channel 1, batch 2, 3 requests, 1 fault, fair | `Attributed`, `Accounted`, `LiveTail`, `EventuallyStored` |
| `accounts_last_admin` | as `accounts` | a violation, see [finding](#finding) |

Where a property has an exception (`late`, `leaked`, `drift`, `crowded`,
`skewed`, ...), the exception is a history variable set by exactly the step that
makes the guarantee unattainable in the code, and the outcome behind it is
listed under [observations](#observations). The type invariants of `Accounts`,
`Identity`, `Bundles`, `Catalog`, `Textures` and `Media` are checked as the first
conjunct of a property of their run.

## Why the bounds are enough

- Relay: pairing needs a second party of each role to go wrong in every way the
  two lock sections allow; the capacity race needs two tunnels and one slot, and
  a second guest can tunnel under the same session once a second host waits.
  One fault reaches every error path from every state.
- Friends: a pair of users and a request in each direction is the whole state
  of a pair; other pairs share nothing with it.
- Admission: a row sees three parties (host, inviter, guest), hence two guests.
- Presence: users share no state; the fourth socket allows a reconnect during
  the reconnect.
- Accounts: statements of two calls interleave; with a cap of one, the second
  login already evicts. Three requests give a credential, the operation on it,
  and one that overlaps. Identity: two accounts compete for a name and an id;
  one server id is enough, since the map's entries do not interact except by
  the sweep.
- Bundles: two folders with a file of the same name, an archive that puts a
  file where the other has a folder, and one entry that escapes are the
  conflicts the path code distinguishes; four calls give an upload, an
  operation, another one on what it left and the upload that repairs. Calls come
  one at a time because the code gives no guarantee while calls on one build
  overlap; what it gives afterwards (an upload on its own repairs everything) is
  proved for any number of calls.
- Catalog: two builds can share one bundle or one slug; a third adds nothing
  the strand decision counts.
- Assets: an upload needs the file before it, a purge one that is lost, a
  re-upload the fourth.
- Rate limiter: a budget of two makes off-by-ones visible, a table of two keys
  is full with the third client, three ticks cover a window and its edge.
- Request log: three records overflow a ring of two, a channel of one and a
  batch of two.

Deadlock is checked in `relay` and `friends`. In the others an instance ends
when its requests, sockets or records are used up.

## Fairness

`Relay.FairSpec` is weak fairness for each connection of the steps of a spawned
task: the runtime polls it until it ends, its statements return, and the
rendezvous wait has a timer. Not fair: `EndPipe` (nothing makes a player
leave), everything before the upgrade (the request may be dropped), the REST
calls, faults. `UpgradedSettles` holds with the fault and the crash included.

`RequestLog.Spec` is weak fairness of each captured request's own steps and of
the writer's `Receive` and `InsertBatch`: the writer is a spawned task whose
linger has a timer. Nothing is assumed of clients, retention or faults.

## Refinement

`Identity` with its users table, join map, expiry and restart implements
`JoinContract` (`ImplementsJoinContract`, a PROPERTY of run `identity`). The
mapping: an announcement is open while it is in the join map, claimed while a
`hasJoined` call holds what `take` returned, answered when the answer named it.
The number `n` of an announcement is the number of the request that made it, a
history value of the map's entries. So a join that is announced again, claimed
by two servers' requests at once, swept, lapsed or lost with the process is
answered at most once, and nothing is answered that was not announced. TLC
checks the refinement on the instance; `SessionServerKeepsContract` proves it,
step by step, for every number of accounts, servers and requests
([IdentityProofs](#identityproofs)).

## Proofs

Eight modules hold the proofs of 38 theorems about twelve components; a module
that proves about two components extends both, which is why the specifications
of `Presence`, `RateLimit` and `Bundles` have names of their own (`PresenceSpec`,
`LimiterSpec`, `BundleSpec`). Each states
properties that a run checks on its small instance, for every value of the
constants: any number of users, rows, files, calls in flight, requests and
faults. Every inductive invariant below was checked with TLC before it was
proved.

The proofs have one shape. The inductive invariant is a conjunction of named
parts, one per table or kind of call. Each action has a lemma (`...Keeps`) that
says it preserves the parts, each resting on lemmas about what a write does to a
row or a call; `Init...` and `Next...` collect them, and the theorems follow from
the invariant.

### RelayProofs

`RelayProofs` proves, for every number of worlds, relay sessions, connections
and PATCH calls, every capacity and every number of faults:

| Theorem | States |
|---|---|
| `TypeCorrect` | `Spec => []TypeOK`; with it, that the count and the gauge stay in Nat |
| `GaugeCorrect` | `Spec => []GaugeCountsTunnels` |
| `CountCorrect` | `Spec => []CountTracksTunnels` |
| `CapCorrect` | `Spec => CapAtAdmission` |
| `RelayFinality` | `Spec => ClosedRelayStaysClosed` |
| `PairingCorrect` | `Spec => []PairsAreHostAndGuest` |
| `OwnerCorrect` | `Spec => []SocketHasOneOwner` |

Assumptions: every world has a host, the capacity is positive, the set of
connections is finite (for the cardinalities), roles and relay ids are
functions on the connections, and `None` is not a connection.

The argument has two inductive invariants.

`CountInv` = `TypeOK` ∧ `LoadedHasRow` ∧ `GaugeCountsTunnels` ∧
`CountTracksTunnels`. Type correctness is not inductive alone: `EndPipe`
subtracts from the gauge, which stays in Nat because the gauge is the number
of tunnels and the ending one is among them. The count is a number of
connections per world, so a step of another actor must not move a tunnel to
another world: `LoadedHasRow` says that a request past its first SELECT has an
issued relay row, and the lemmas `HandlerRows` and `RestRows` that an issued
row keeps its world and, once closed, stays closed. With that, every action
either leaves the set of holders alone, adds one element or removes one, and
the counting lemmas `OneMore` and `OneLess` finish the step; a restart has no
holders and the reconciled counts of the open worlds are zero. `CapCorrect`
follows because the conditional UPDATE compares the count with the cap and the
count is never below the holders outside `wiped`.

`HubInv` = `ParkedIsWaiting` ∧ `TakenIsSettled` ∧ `PairsAreHostAndGuest` ∧
`SocketHasOneOwner`. A socket has one owner because whatever is parked belongs
to a handler at its wait, whatever was taken belongs to a handler at its wait
or past it, and no handler parks twice.

### SocialProofs

`Friends` and `Presence`. For every set of users, friend requests, calls in
flight, sockets and worlds:

| Theorem | States |
|---|---|
| `AcceptedOnce` | `Spec => []AcceptedAtMostOnce` |
| `ConsentHolds` | `Spec => FriendsOnlyByConsent` |
| `LastSocketTakesOffline` | `PresenceSpec => []GoneIsOffline` |

For friends, the inductive invariant is `FriendsInv` = `AcceptedAtMostOnce` ∧
`OpenIsUndecided`. That a request was accepted at most once says nothing yet of
the next accept: it is harmless because the status read under the row lock is
still `pending`, and a pending row was never decided, which is
`OpenIsUndecided`. A decline checks the status on the pool and not under the
lock, so it may follow an accept; it adds a decision but never a second accept.
`ConsentHolds` needs the types only: of all actions one alone adds a friendship.

For presence, `PresenceInv` = `PresenceTypes` ∧ `HubIsHandlers` ∧ `SomeoneWillLeave`.
`GoneIsOffline` speaks of users whose handlers are through and says nothing of
the steps before. `SomeoneWillLeave` does: as long as a row is not offline, and
only sockets wrote it, some handler of the user is registered, or has removed
itself and not yet looked for others, or is about to run `mark_offline`. A
handler that finds another socket in the hub and ends leaves the duty to that
one, because the hub holds exactly the handlers between `add` and `remove`
(`HubIsHandlers`). Assumptions: every socket has a user, every world a
host.

### AssetsProofs

For every set of slots, builds, roles, revisions and requests in flight of both
asset stores, and every number of faults:

| Theorem | States |
|---|---|
| `TexturesSafe` | `Spec => []TextureRowsHaveFiles` |
| `MediaSafe` | `Spec => []MediaRowsHaveFiles` |
| `SingularImages` | `Spec => []SingularSlot` |
| `PurgeIsStaleAtWorst` | `Spec => PurgeTakesStaleRows` |

Assumptions: `NoFile` is not a file, the singular roles are roles. Revisions are drawn once (`WriteFile`),
which in the code are 6 random bytes (`core/src/storage.rs:16`): that no two of
them are equal is assumed.

The inductive invariant `AssetsInv` adds four parts to the property.
`MediaFilesStored`: what a media request may still unlink was written for media
(so the shared disk does not matter). `TextureFilesOwn`: what a texture row or a
texture request names was not. `UploadIsPrivate`: the file of an upload between
its write and its upsert is on disk and nobody else knows it. `OneRowPerFile`:
no file is in two rows; the previous path an upload noted is at most in the row
it is about to replace, and a path about to be unlinked is in no row. The last
part is what the order read, upsert, unlink gives: two uploads of one slot may
both note the same previous path, the second upsert then replaces the first
upload's file without unlinking it, and the file left behind is on disk without
a row, never the other way round.

`MediaInv` does the same for the images, whose uploads replace several rows in a
transaction and unlink inside it. `RowsOwnFiles` and `CallsOwnFiles`: a file
belongs to one row or one request. `RowsHeld`: the rows a transaction has
deleted and not yet committed are locked, so no two transactions hold one row.
`FilesKept`: a row without its file is one that an open transaction is
replacing. `SlotsCovered`: the DELETE of a singular upload covers all rows of
its slot, except those of uploads that committed after its snapshot, which is
what `crowded` records. `Orphans`: a purge's list names only files that are
gone, and a revision that is gone does not come back; so the row a purge wrongly
deletes is one that was replaced since the scan.

The second half of the module is about `Bundles`, for every set of paths closed
under parents, all contents, archives, batches and calls in flight, and every
number of calls, disconnects, errors and crashes:

| Theorem | States |
|---|---|
| `BundlesSettled` | `BundleSpec => []SettledConsistent` |
| `BundlesFresh` | `BundleSpec => []FreshBuildIsEmpty` |
| `BundlesRowsHaveFiles` | `BundleSpec => []RowsHaveFiles` |

Assumptions (`BundleAssumption`): paths are non-empty sequences of names whose
parents are paths too; a path a client sends is refused or normalizes to one; an
archive is a tree; batches are sequences of paths.

The properties speak of the build between calls, so the inductive invariant
`BundlesInv` has to say what each step of a call has established. `TypeInv` is
the type invariant with what the step says of its call (which operations pass
through it, the one path a file operation works on, that the rows it addresses
by id exist). `IsTree(files)`: what is on disk is in folders, which the renames,
extractions and unlinks need to be what they say. `LoneOK(c)`, for a call no
other has run beside: after the wipe `files/` is empty, after the scan it is
what was scanned, a row about to be inserted has its file, the rows of entries
about to be unlinked are gone, and a transaction of moves has a file for every
row it will commit. `CleanOK(c)`, for such a call as long as nothing has gone
wrong (for an upload: whatever went wrong before it): rows and files agree but
for the one entry in work, and the manifest being built, written and renamed is
that of the rows. Once calls overlap, `drift` and `apart` hold and nothing but
types and tree is claimed (`CrowdedStep`); when an upload runs alone to its end
everything is (`LoneStep`).

The proof goes through five layers: lemmas on paths and trees (`MoveAgrees`,
`MoveBacked`: a move of the rows and a rename of the tree keep them in
agreement); types, one lemma per action (`...Type`); the tree (`...Tree`); what a
step leaves of the other calls (`...Aside`); and one lemma per action that a lone
call keeps the invariant (`...Kept`). A batch needs no induction: its
transaction is a step per entry, and the invariant holds between them.

### AdmissionProofs

For every set of guests, rows, calls in flight, and changes of the environment:

| Theorem | States |
|---|---|
| `TicketsMatchRows` | `Spec => []OneTicketPerAccepted` |
| `StrangersNeedTheHost` | `Spec => []HostLetsStrangersIn` |
| `TerminalRowsStay` | `Spec => TerminalIsFinal` |
| `AcceptRevalidates` | `Spec => RevalidatedAtAccept` |

Assumptions: the host is no guest, `None` is no call.

`AdmissionInv` = `RowsOK` ∧ `CallsOK` ∧ `EnvOK` ∧ `LockOK`. A row has a ticket
exactly when it was accepted, which is inductive only together with who may
accept: a pending invite was sent or approved by the host, or its guest has been
the host's friend (`RowGood`), and so will be the row that a creation between
its check and its insert is about to write (`RowIsReady`). `SeenBy` ties how far
an accept has validated to the conditions that held at some moment of it;
`AcceptRevalidates` is its last line at the commit. Terminal rows need the
invariant only for the types: every write looks at the status again, under the
lock or in its WHERE.

### AccountsProofs

For every set of users, calls and requests, and every cap:

| Theorem | States |
|---|---|
| `OldPasswordsAreOut` | `Spec => []ResetLocksOut` |
| `DemotedSessionsEnd` | `Spec => []DemotionEndsSessions` |
| `PairsAreCapped` | `Spec => []CapHolds` |
| `LastAdminGoesOnlyStale` | `Spec => LastAdminKept` |

Assumptions: finitely many users, the bootstrap admin among them, a positive
cap.

`AccountsInv` = `RowsOK` ∧ `CredentialsOK` ∧ `CallsOK` ∧ `RevocationsOK` ∧
`CapOK` ∧ `BoundsOK`. Since a call is the list of statements it has left, the
invariant enumerates these lists (`Todos`) and says what each promises:
`RevocationsOK` that a credential older than the password or the demotion is
`late`, or some call still has the statement that ends it (or was dropped before
it); `CapOK` that a user over the cap has a call whose next statement is the
eviction. The eviction leaves exactly `MaxPerUser` pairs because ids tell pairs
apart and the order by them is total (`CapOK` again, and the lemmas on `Kept`).
`Spares` says that a call past `guard_last_admin` counted another usable admin;
if the set it counted is still the current one at the write, one is left.

### IdentityProofs

For every set of accounts, names, ids, servers and requests in flight:

| Theorem | States |
|---|---|
| `ProfilesAreReconciled` | `Spec => []Reconciled` |
| `SettledIdentitiesStay` | `Spec => SettledIdentityStays` |
| `SessionServerKeepsContract` | `Spec => ImplementsJoinContract` |

Assumption: the generated profile ids (one per account) are no Minecraft ids.

`IdentityInv` = `UsersOK` ∧ `CallsOK` ∧ `NumbersOK` ∧ `JoinsOK` ∧ `BoundsOK`.
`UsersOK` has the unique indexes and the binding of profile and Minecraft id;
`CallGood` keeps what a bootstrap read when it decided which id to write: it
found the row by the id that it does not write. So if its copy is current and
the account is settled (its profile is its Minecraft id, in either spelling),
what it writes is the id that is there (`RefreshStays`); a login with a current
copy wants the profile the account has (`ReconcileStays`).
`NumbersOK` is what the refinement needs: the number of an announcement is in
one place at a time, a join about to record it, the map, a `hasJoined` that took
it, or the answers. With it every step of `Identity` is a step of `JoinContract`
or leaves its variables alone: `Join`'s record is `Announce`, a successful take
is `Claim`, an answer is `Answer`, and sweeps, expiry, refusals and restarts are
`Lose`.

### ServerProofs

`RequestLog` and `RateLimit`. For every number of callers and records, and all positive capacities of ring,
channel and batch:

| Theorem | States |
|---|---|
| `RecordsNameTheirUser` | `Spec => []Attributed` |
| `RingIsTheTail` | `Spec => []LiveTail` |
| `RecordsAreAccounted` | `Spec => []Accounted` |

Assumptions: `Anon` and `Empty` are no users.

`LogInv` = `CapturesOK` ∧ `SeqsOK` ∧ `LogsOK` ∧ `RingOK` ∧ `PlacesOK`.
`CaptureGood` follows a request from its capture to its record: a handler that
ran has published its principal in the slot, and a token called viable is still
live. `RingOK` says which records the ring holds, index by index. `PlacesOK`
splits the ids given out into the five places a record can be in (`Split`), and
keeps ids in the channel apart; a send, a batch, an insert, a drop or a crash
moves ids between two of them.

For every number of clients and requests waiting for the lock, every budget,
window, table size and eviction batch, and every header a client may send:

| Theorem | States |
|---|---|
| `WindowHolds` | `LimiterSpec => []WindowCap` |
| `TableStaysBounded` | `LimiterSpec => []MemoryBounded` |
| `RefusalIsOwnDoing` | `LimiterSpec => RefusedForOwnHits` |

Assumptions: budget, window and table size are positive, an eviction batch is at
least one key and at most the table; IPv4 and IPv6 addresses differ in their
family, and `NoIp` is no address.

`LimiterInv` = `LimiterTypes` ∧ `MemoryBounded` ∧ `BucketsBacked` ∧ `WindowCap`.
The limiter compares the length of a bucket with the budget, `WindowCap` the
admitted requests: `BucketsBacked` relates them. The entries of a bucket are in
order and stand, one for one, for admitted hits of its clients (the witness is
an injection), and a hit no entry stands for has `Expired` or went with an
evicted bucket. So at an admission every hit inside the window is in the pruned
bucket, which has room for one more; and at a refusal each of the
`max_attempts` entries is a hit of the client's own. Two facts carry it: a
refusal prunes nothing, since a full bucket that lost an entry would not be full
(without this a refused request could drop hits on the strength of a stamp that
nothing records); and a sweep drops only buckets whose newest, hence every, hit
is out of the window. `HeadersDoNotCount` is the lemma on `client_ip`: whatever
`X-Forwarded-For` a client sends, it is counted for the address it has;
`OneBucketPerClient` is the one on `limiter_key`.

### CatalogProofs

For every set of builds, bundles, slugs, tags and calls in flight, and every
number of requests and faults:

| Theorem | States |
|---|---|
| `DirectoriesFollowRows` | `Spec => []RowsAndDirsAgree` |
| `AnswersAreCurrent` | `Spec => []AnswerHidesDrafts` |
| `MovesSpareBundles` | `Spec => UpdateSparesBundles` |
| `RenamesKeepBundles` | `Spec => RenameKeepsBundle` |

Assumptions: ids of builds, bundles and tags differ (`visible` mixes them);
`None` is no bundle; an absent or null `bundleSlug` is no slug.

`CatalogInv` joins eleven parts. `ClientsOK`, `BundlesOK`, `LinksOK`, `TagsOK`: one
build and one bundle per slug, links and attachments lead to rows. `LocksOK` is
what the row locks of an update in progress are worth: nobody took the slug, no
other update has its build or its slug, and if its UPDATE found the link that it
had read (`keep`), the build is still linked to that bundle, which still has the
slug it resolved. It is the reason a rename keeps its bundle although other
calls run between its UPDATE and its commit: a DELETE of a linked bundle waits
(`Waits`, lemma `LinksHeld`). `FoundOK` is all that holds before, between the
SELECT and the UPDATE: what was read has existed. A link that changes in that
window is outside `RenamesKeepBundles`; see [observations](#observations). What
no lock protects is the decision to drop the old bundle; `Alone` has it for a
call that overlaps no other. `DirsOK` says of the directories that they are what
the rows ask for, or will be once the call at its `dirs` step has run
(`DirAfter`). Deletions, creations and moves are all seen as one step on the two
tables (`ClientStep`, `BundleStep`), for which `TablesKept` and `DirsFollow`
prove the parts once.

### What is only model-checked

- `UpgradedSettles` and `EventuallyStored`: liveness under fairness is out of
  the prover's reach.
- `AlwaysAnAdmin`, which is violated.

## Finding

`accounts_last_admin` checks what the comment on `guard_last_admin` says
(`admin/src/users.rs:20-21`), and TLC finds a behaviour of the modelled code
against it: two overlapping operations on the two remaining admins both count
two usable admins, both pass the guard, and both write. The guard and the write
are separate statements without a transaction. `LastAdminKept`, in the passing
run, shows that this is the only way to lose the last one.

## Observations

Outcomes the models reach, stated here and not as runs of their own.

Relay and worlds:
- A host and a guest that arrive together both find the hub empty; `park`
  refuses the second although its peer is the one waiting (`realtime.rs:193`).
- The first party of a relay session drops, at the end of its wait, a newer
  party that has parked under the same id (`relay.rs:213-215`).
- Two guests with one ticket both pass the SELECT; the UPDATE's row count is
  not looked at, and both are upgraded (`relay.rs:135`).
- POST on an open world zeroes `current_players` under live tunnels; the world
  then admits more guests than `max_players` (`worlds.rs:74`).
- A PATCH of the capacity that was read before a DELETE opens the world again;
  a PATCH that closes from an already closed copy, after another PATCH reopened
  the world, skips the cleanup (`worlds.rs:133`).

Friends and presence:
- A decline that read the request as pending overwrites an accept
  (`friends.rs:286`).
- Two users who send each other a request at once end with two pending ones.
- A reconnect between `is_online` and `mark_offline` leaves a connected user
  offline (`signaling.rs:83`).
- A status "in world" that was checked before the world closed is written
  after it (`presence.rs:198`).

Accounts and identity:
- A login or refresh that verified the old password before a reset may insert
  its credential after the reset's revocations.
- Two refreshes of one pair both succeed. A refresh with a wrong
  `selectedProfile` is rejected after the pair was rotated.
- A call dropped between the insert of a pair and the eviction leaves the user
  over the cap until the next issue.
- `ensure_bootstrap_admin` counts blocked admins, and an unconfirmed last admin
  is a usable admin to the guard, though it cannot log in.
- `minecraft_uuid` is compared as text: two accounts may hold one id in two
  spellings. `POST /users/bootstrap` stores unchecked text, which a later login
  answers with an error.
- A login's reconciliation may write the profile of the Minecraft id it read
  although a bootstrap has set another, and a mod bootstrap may bind the id it
  found the row by although the profile has moved; either takes a settled
  account apart until its next login.
- `find_or_create_from_bootstrap` is called by tests only. `hasJoined` does not
  look at `blocked` again.

Bundles, catalog, assets:
- Overlapping calls on one build may leave a stale manifest, a stale hash or
  rows without files.
- Two calls that regenerate one manifest share `artifacts.json.tmp`: the second
  truncates it between the write and the rename of the first, and what is
  published is partial until the second has written, although the comment on
  `write_manifest_atomic` says a reader never sees that (`storage.rs:65-72`).
- A dropped upload leaves the status `processing`; a failed re-upload leaves the
  old manifest advertising files that were wiped.
- A batch move rolls its rows back as a whole, but not the renames done before
  the failing one: two files of one name moved to the same folder, a 409 by
  `check_destination_free`, leave the first one's row without its file
  (`admin.rs:658`), where the comments promise all or nothing (`admin.rs:635`)
  and a disk and database that stay consistent (`repo.rs:466`).
- `upload_file` leaves its temporary file behind when the rename fails.
- Creating a build again while the removal of its directory is pending loses
  the new directory.
- A rename may undo a retarget: `update_client` reads the link at `admin.rs:231`
  without a lock and locks the build with the UPDATE at 239. A retarget of the
  build that commits in between is overwritten: the rename, sending no
  `bundleSlug`, links the bundle it read (317). If that bundle was deleted
  in between, with the retarget or by the bundles admin, it provisions an empty
  one under the build's slug (`unwrap_or`, 319) and the files of the bundle the
  build was moved to have no build. The comments say that an absent `bundleSlug`
  "keeps the current bundle link", "so renaming a build never strands its
  uploaded files" (211-212), and "cannot retarget and strand" them (302-303). `Catalog` reaches
  these states; `RenameKeepsBundle` excludes exactly this window.
- An update whose build is deleted in the same window updates no row, provisions
  a bundle all the same and answers with success, unless it sends locales, which
  the foreign key refuses. `delete_client` deletes the bundle it read at
  `admin.rs:404`, also when the build was moved off it before its DELETE at 412.
- "1:1" of build and bundle is not enforced: `delete_client` takes a shared
  bundle with it, and `update_client`'s strand decision races with a call that
  links the bundle in between.
- The purge of missing textures deletes a row that was re-uploaded since its
  scan; the new file stays behind.
- Overlapping uploads of a singular image leave two rows; a rollback after the
  unlink leaves a row without its file.

Limiter and log:
- Stamps are taken before the lock (`ratelimit.rs:140`), so hits may enter a
  bucket out of order and a client may exceed its budget by as many.
- A database error in the session extractor records a request with a viable
  credential as anonymous, against the comment on `reject`
  (`core/src/auth/mod.rs:250-254`).
- Requests refused by the limiter are not logged: the limiter is outside the
  capture.

## Not modelled

- The bytes in the pipe, frame sizes and back-pressure; the event queues of
  signaling and whether a push arrives. No state of the tables depends on them.
- Durations: a timer may fire at any moment after it is set, a ticket, a row, a
  session may expire at any moment; only the rate limiter has a clock. The
  heartbeat's freshness is folded into membership (`members` of `Admission`).
- The reads of one creation in `Admission` are one step, and DELETE's check of
  the host is part of its transaction; what follows re-validates in both cases.
- The friendship and presence conditions of `create_join_ticket`; the retention
  of tickets and user events; the hourly deletion of dead sessions, which no
  query sees.
- The connection pool. The accepts read on their own transaction, as the
  comment at `join.rs:442` asks, so that no accept waits for a second
  connection.
- Password hashing, e-mail rules, cookies and the CSRF comparison; signatures,
  profile documents, image headers (`yggdrasil-protocol`, `crypto.rs`): pure
  conversions.
- Texts: locales, descriptions, versions, sort orders; `update_server` and the
  bundle's `update` change nothing else.
- ZIP and upload size limits; the `X-Real-IP` fallback, a restart of the
  limiter and `checked_sub` right after boot.
- Reads: lists, searches, reports, `validate`, `diff_tree`, disk space, the
  public file routes, analytics. Configuration, routing and the admin user
  interface.

## Plan

Done, in this order: `WorldSessions`, `Relay`, `RelayProofs`; `Friends`;
`Admission`; `Presence`; `Bundles`; `Catalog`; `Accounts`; `Identity` with
`JoinContract`; `Storage`, `Textures`, `Media`, `Assets`; `RateLimit`;
`RequestLog`; then the proofs: `SocialProofs` (friends), `AssetsProofs`
(textures, then media), `AdmissionProofs`, `IdentityProofs` with the refinement,
`ServerProofs` (request log), `AccountsProofs`, `CatalogProofs`, `SocialProofs`
(presence), `ServerProofs` (rate limiter), `AssetsProofs` (bundles).

Every invariant a passing run checks is proved. What is left: the parts listed
under [not modelled](#not-modelled) as reads and conversions, should a property
come to depend on them.
