------------------------------ MODULE Bundles ------------------------------
(***************************************************************************)
(* One build of the bundle registry (crates/bundles): its row in bundles,  *)
(* its bundle_artifacts rows, the files/ tree on disk and the manifest     *)
(* artifacts.json that launchers fetch.                                    *)
(*                                                                         *)
(* An admin call is a member of Calls and runs one statement, transaction  *)
(* or file system operation at a time.  A client that disconnects drops    *)
(* the call at its next await; what runs on a blocking thread (ingest,     *)
(* manifest write, removal of the tree) still runs to its end.  Statements *)
(* and file operations fail, and the process crashes, at most MaxBreaks    *)
(* times.                                                                  *)
(*                                                                         *)
(* A path is the sequence of its segments.  A tree says of every path      *)
(* whether nothing, a folder or a file is there, and which content the     *)
(* file has; a SHA-256 stands for the content it was computed from.        *)
(***************************************************************************)
EXTENDS Naturals, Sequences, FiniteSets, SequencesExt

CONSTANTS
    Paths,      \* the paths files and folders may have
    RawPaths,   \* the paths clients send, before normalization
    Contents,   \* file contents
    Archives,   \* the ZIPs clients send: trees with a flag for a bad entry
    Batches,    \* the id lists of bulk calls, as sequences of paths
    Calls,      \* admin calls in flight at once
    MaxCalls,   \* bound on the calls made
    MaxBreaks   \* bound on disconnects, errors and crashes

Kinds == {"none", "dir"} \cup Contents
Tree == [Paths -> Kinds]
Empty == [p \in Paths |-> "none"]

-----------------------------------------------------------------------------
(* Paths.                                                                    *)

(* normalize_relative_path: "." is dropped; the caller refuses a path that   *)
(* climbs ("..") or is empty.                                                *)
normalize_relative_path(raw) == SelectSeq(raw, LAMBDA s : s # ".")
Refused(raw) == ".." \in Range(raw) \/ normalize_relative_path(raw) = << >>

Under(p) == {q \in Paths : Len(q) > Len(p) /\ SubSeq(q, 1, Len(p)) = p}
Ancestors(p) == {q \in Paths : p \in Under(q)}
Subtree(p) == Under(p) \cup {p}

(* What a statement or an unlink for the entry at p takes with it.           *)
Region(p, is_dir) == IF is_dir THEN Subtree(p) ELSE {p}

(* join_target_dir: the entry's name in the target folder (<< >> the root).  *)
join_target_dir(dir, p) == dir \o <<Last(p)>>

\* Where q, at or below p, goes when p goes to n.
Rebased(p, n, q) == n \o SubSeq(q, Len(p) + 1, Len(q))

\* What is at a path is in a folder, as on any file system.
IsTree(t) == \A q \in Paths : t[q] # "none" => \A a \in Ancestors(q) : t[a] = "dir"

ASSUME BundleAssumption ==
    /\ Paths \subseteq Seq(STRING)
    /\ \A p \in Paths : p # << >> /\ \A n \in 1 .. Len(p) - 1 : SubSeq(p, 1, n) \in Paths
    /\ \A raw \in RawPaths : Refused(raw) \/ normalize_relative_path(raw) \in Paths
    /\ "none" \notin Contents /\ "dir" \notin Contents
    /\ \A a \in Archives : a.tree \in Tree /\ IsTree(a.tree) /\ a.bad \in BOOLEAN
    /\ \A b \in Batches : b \in Seq(Paths)
    /\ MaxCalls \in Nat /\ MaxBreaks \in Nat

VARIABLES
    status,    \* bundles.status; "none" when there is no row
    rows,      \* bundle_artifacts: is_dir and sha256 per relative_path
    once,      \* the rows with download_once
    files,     \* files/
    manifest,  \* artifacts.json
    tmp,       \* artifacts.json.tmp
    call,      \* admin calls in flight
    breaks,    \* disconnects, errors and crashes so far
    made,      \* calls so far
    drift,     \* history: a call was cut short, failed half-way or overlapped another
    apart      \* history: an ingest has wiped files/ and not yet replaced the rows,
               \* a rename happened whose transaction did not commit, or calls overlapped

bundleVars == <<status, rows, once, files, manifest, tmp, call, breaks, made, drift, apart>>
table == <<status, rows, once>>
store == <<files, manifest, tmp>>
bounds == <<breaks, made>>
history == <<drift, apart>>

-----------------------------------------------------------------------------
(* Trees.                                                                    *)

\* create_dir_all of p's parent.
MadeDirs(t, p) == [q \in Paths |-> IF q \in Ancestors(p) THEN "dir" ELSE t[q]]

\* Then the file or folder itself.
Placed(t, p, kind) == [MadeDirs(t, p) EXCEPT ![p] = kind]

CanMakeDirs(t, p) == \A a \in Ancestors(p) : t[a] \notin Contents
CanPlace(t, p, kind) ==
    CanMakeDirs(t, p) /\ IF kind = "dir" THEN t[p] \notin Contents ELSE t[p] # "dir"

\* rename(2): a file replaces a file, a folder an empty folder, nothing goes
\* below itself.
CanRename(t, p, n) ==
    /\ CanPlace(t, n, t[p])
    /\ n \notin Subtree(p)
    /\ t[n] = "dir" => \A q \in Under(n) : t[q] = "none"

\* A rename is tried when the source exists; its folder is made first.
RenameOnDisk(t, p, n) ==
    IF t[p] = "none" THEN t
    ELSE [q \in Paths |->
            IF q \in Subtree(n)
            THEN IF Rebased(n, p, q) \in Paths THEN MadeDirs(t, n)[Rebased(n, p, q)] ELSE "none"
            ELSE IF q \in Subtree(p) THEN "none" ELSE MadeDirs(t, n)[q]]

-----------------------------------------------------------------------------
Absent == [file |-> "absent"]
Partial == [file |-> "partial"]
Manifest == [tree: Tree, once: SUBSET Paths]

Steps == {"processing", "wipe", "extract", "upsert", "failed", "place", "hash", "upsertOne",
          "update", "rows", "unlink", "move", "list", "probe", "write", "fill", "publish",
          "ready", "dropRow", "rmdir"}

\* A move: from, to, and whether the entry was a folder when it was resolved.
Moves == Paths \X Paths \X BOOLEAN

\* What a transaction has done to the rows: at each path is now the row that
\* was at source[path], or none.
Same == [p \in Paths |-> p]
NoRow == << >>

\* `entries' are the paths of the entries a call resolved, `refs' where those
\* rows are now (they are addressed by id later on); `live' that the row of
\* bundles the call resolved still exists; `alone' that no other call has run
\* beside it.  A move keeps the moves to come, the rows as its transaction sees
\* them, whether it has changed files/, and `apart' as it found it.  `out' is
\* what has become of the temporary file a call holds open: the rename of another
\* call made it artifacts.json, or it has no name any more.
Call == [op: {"archive", "file", "folder", "delete", "toggle", "rehash", "move", "batch",
              "regenerate", "drop"},
         pc: Steps, entries: SUBSET Paths, refs: SUBSET Paths,
         tree: Tree, bad: BOOLEAN, built: Manifest \cup {Absent},
         gone: BOOLEAN, live: BOOLEAN, alone: BOOLEAN,
         moves: Seq(Moves), source: [Paths -> Paths \cup {NoRow}],
         renamed: BOOLEAN, found: BOOLEAN, out: {"tmp", "manifest", "lost"}]
Idle == [pc |-> "idle"]

TypeOK ==
    /\ status \in {"none", "draft", "processing", "ready", "failed"}
    /\ rows \in Tree
    /\ once \subseteq {p \in Paths : rows[p] # "none"}
    /\ files \in Tree
    /\ manifest \in Manifest \cup {Absent, Partial}
    /\ tmp \in Manifest \cup {Absent, Partial}
    /\ call \in [Calls -> Call \cup {Idle}]
    /\ breaks \in 0 .. MaxBreaks /\ made \in 0 .. MaxCalls
    /\ drift \in BOOLEAN /\ apart \in BOOLEAN

BundleInit ==
    /\ status = "none" /\ rows = Empty /\ once = {}
    /\ files = Empty /\ manifest = Absent /\ tmp = Absent
    /\ call = [c \in Calls |-> Idle]
    /\ breaks = 0 /\ made = 0 /\ drift = FALSE /\ apart = FALSE

Now(c, q) == call' = [call EXCEPT ![c] = q]
At(c, pc) == call[c].pc = pc
Step(c, pc) == Now(c, [call[c] EXCEPT !.pc = pc])
Others(c) == {d \in Calls \ {c} : call[d] # Idle}

\* Call c becomes q, and the others in flight are changed with it.
NowAll(c, q, Changed(_)) ==
    call' = [d \in Calls |-> IF d = c THEN q
                             ELSE IF call[d] = Idle THEN Idle ELSE Changed(call[d])]

\* The call ends, one way or the other.
End(c) == Now(c, Idle)

\* The end of a blocking task: a call whose client is gone ends with it.
StepOrGone(c, q) == Now(c, IF call[c].gone THEN Idle ELSE q)

-----------------------------------------------------------------------------
(* Resolving the build (ResolvedBundle) and its entries (ResolvedEntry).     *)

Begin(c, op, pc, entries, moves, tree, bad) ==
    /\ call[c] = Idle
    /\ status # "none"
    /\ made < MaxCalls
    /\ made' = made + 1
    /\ NowAll(c, [op |-> op, pc |-> pc, entries |-> entries, refs |-> entries, tree |-> tree,
                  bad |-> bad, built |-> Absent, gone |-> FALSE, live |-> TRUE,
                  alone |-> Others(c) = {}, moves |-> moves, source |-> Same,
                  renamed |-> FALSE, found |-> apart, out |-> "tmp"],
              LAMBDA k : [k EXCEPT !.alone = FALSE])
    /\ drift' = (drift \/ Others(c) # {})
    /\ apart' = (apart \/ Others(c) # {})
    /\ UNCHANGED <<table, store, breaks>>

Entries == {p \in Paths : rows[p] # "none"}

(* upload_archive, the body staged in a temporary file.                      *)
BeginArchive(c) == \E a \in Archives : Begin(c, "archive", "processing", {}, << >>, a.tree, a.bad)

(* upload_file, staged likewise, and create_folder; the path is normalized.  *)
BeginPlace(c) ==
    \E raw \in RawPaths, kind \in Kinds \ {"none"} :
        LET p == normalize_relative_path(raw)
        IN  /\ ~ Refused(raw)
            /\ Begin(c, IF kind = "dir" THEN "folder" ELSE "file", "place", {p}, << >>,
                     [Empty EXCEPT ![p] = kind], FALSE)

(* delete_file is a bulk_delete of one entry; vanished ids are skipped.      *)
BeginDelete(c) ==
    \E ps \in {{p} : p \in Entries} \cup {Range(b) \cap Entries : b \in Batches \ {<< >>}} :
        Begin(c, "delete", "rows", ps, << >>, rows, FALSE)

BeginToggle(c) == \E p \in Entries : Begin(c, "toggle", "update", {p}, << >>, Empty, FALSE)
BeginRehash(c) ==
    \E p \in Entries :
        rows[p] \in Contents /\ Begin(c, "rehash", "hash", {p}, << >>, Empty, FALSE)

(* validate_move: not onto itself, not a folder below itself.  The last      *)
(* conjunct keeps what moves to the paths of the instance.                   *)
validate_move(p, n) ==
    /\ n # p
    /\ rows[p] = "dir" => n \notin Under(p)
    /\ \A q \in Under(p) : rows[q] # "none" \/ files[q] # "none" => Rebased(p, n, q) \in Paths

(* rename_file and move_file, apply_move's probe of the destination.         *)
BeginMove(c) ==
    \E p \in Entries, n \in Paths :
        /\ validate_move(p, n)
        /\ files[n] = "none"
        /\ Begin(c, "move", "move", {}, <<<<p, n, rows[p] = "dir">>>>, Empty, FALSE)

(* move_files: every id is resolved and validated before the transaction.    *)
BeginBatch(c) ==
    \E b \in Batches, dir \in Paths \cup {<< >>} :
        LET target(p) == join_target_dir(dir, p)
        IN  /\ b # << >>
            /\ \A i \in DOMAIN b :
                  b[i] \in Entries /\ target(b[i]) \in Paths /\ validate_move(b[i], target(b[i]))
            /\ Begin(c, "batch", "move", {},
                     [i \in DOMAIN b |-> <<b[i], target(b[i]), rows[b[i]] = "dir">>],
                     Empty, FALSE)

BeginRegenerate(c) == Begin(c, "regenerate", "processing", {}, << >>, Empty, FALSE)

-----------------------------------------------------------------------------
(* The archive: status 'processing', then the ingest on a blocking thread.   *)

SetProcessing(c) ==
    /\ At(c, "processing")
    /\ status' = IF call[c].live THEN "processing" ELSE status
    /\ Step(c, IF call[c].op = "archive" THEN "wipe" ELSE "list")
    /\ UNCHANGED <<rows, once, store, bounds, history>>

(* files/ is cleared: a new upload replaces the build.                       *)
WipeFiles(c) ==
    /\ At(c, "wipe")
    /\ files' = Empty
    /\ apart' = TRUE
    /\ Step(c, "extract")
    /\ UNCHANGED <<table, manifest, tmp, bounds, drift>>

\* The entries of t at ps and their folders, on top of what is there.
Extracted(t, ps) ==
    [p \in Paths |-> IF t[p] # "none" /\ Subtree(p) \cap ps # {} THEN t[p] ELSE files[p]]

(* extract_zip and scan_directory.  A bad entry (a path that escapes, a      *)
(* limit, a broken ZIP) stops it after any of the others, and so does an     *)
(* entry with something in its way.                                          *)
ExtractAndScan(c) ==
    /\ At(c, "extract")
    /\ LET t == call[c].tree
           all == {p \in Paths : t[p] # "none"}
           fit == {p \in all : CanPlace(files, p, t[p])}
       IN  IF call[c].bad \/ fit # all
           THEN /\ \E ps \in SUBSET fit : files' = Extracted(t, ps)
                /\ StepOrGone(c, [call[c] EXCEPT !.pc = "failed"])
           ELSE /\ files' = Extracted(t, all)
                /\ StepOrGone(c, [call[c] EXCEPT !.pc = "upsert", !.tree = files'])
    /\ UNCHANGED <<table, manifest, tmp, bounds, history>>

\* A failed step of an archive or of a regeneration sets the status.
OnError(c) ==
    IF call[c].op \in {"archive", "regenerate"} THEN Step(c, "failed") ELSE End(c)

\* A statement waits for a row that an open transaction has moved.
Unlocked(c, ps) ==
    \A d \in Others(c) : call[d].pc = "move" => \A p \in ps : call[d].source[p] = p

(* upsert_scan: the scan replaces the rows; download_once of a path that     *)
(* stays is kept.  Rows that disappear are no entry of any call any more.    *)
UpsertScan(c) ==
    /\ At(c, "upsert")
    /\ Unlocked(c, Paths)
    /\ IF call[c].live
       THEN /\ rows' = call[c].tree
            /\ once' = {p \in once : call[c].tree[p] # "none"}
            /\ apart' = ~ call[c].alone
            /\ NowAll(c, [call[c] EXCEPT !.pc = "list"],
                      LAMBDA k : [k EXCEPT !.refs = {p \in @ : rows'[p] # "none"}])
       ELSE UNCHANGED <<rows, once, apart>> /\ OnError(c)
    /\ UNCHANGED <<status, store, bounds, drift>>

(* set_status(..., "failed") after an ingest or a regeneration failed.       *)
SetFailed(c) ==
    /\ At(c, "failed")
    /\ status' = IF call[c].live THEN "failed" ELSE status
    /\ drift' = TRUE
    /\ End(c)
    /\ UNCHANGED <<rows, once, store, bounds, apart>>

-----------------------------------------------------------------------------
(* One file or folder.                                                       *)

(* upload_file moves the staged file into place; create_folder makes it.     *)
(* What is in the way refuses the call.                                      *)
PlaceOnDisk(c) ==
    /\ At(c, "place")
    /\ \E p \in call[c].entries :
          IF CanPlace(files, p, call[c].tree[p])
          THEN files' = Placed(files, p, call[c].tree[p])
               /\ Step(c, IF call[c].op = "file" THEN "hash" ELSE "upsertOne")
          ELSE UNCHANGED files /\ End(c)
    /\ UNCHANGED <<table, manifest, tmp, bounds, history>>

(* hash_file, of whatever is at the path now (upload_file, rehash_file).     *)
HashFile(c) ==
    /\ At(c, "hash")
    /\ \E p \in call[c].entries :
          IF files[p] \in Contents
          THEN Now(c, [call[c] EXCEPT !.pc = IF call[c].op = "file" THEN "upsertOne" ELSE "update",
                                      !.tree = [@ EXCEPT ![p] = files[p]]])
          ELSE End(c)
    /\ UNCHANGED <<table, store, bounds, history>>

(* upsert_artifact, for a folder with its ancestors; a file's folder gets no *)
(* row.  The row of a build that is gone violates its foreign key.           *)
UpsertArtifact(c) ==
    /\ At(c, "upsertOne")
    /\ IF call[c].live
       THEN /\ \E p \in call[c].entries :
                  /\ Unlocked(c, IF call[c].op = "file" THEN {p} ELSE Ancestors(p) \cup {p})
                  /\ rows' = IF call[c].op = "file" THEN [rows EXCEPT ![p] = call[c].tree[p]]
                             ELSE Placed(rows, p, "dir")
            /\ Step(c, "list")
       ELSE UNCHANGED rows /\ End(c)
    /\ UNCHANGED <<status, once, store, bounds, history>>

(* set_download_once and update_artifact_sha address the row by its id.      *)
UpdateRow(c) ==
    /\ At(c, "update")
    /\ Unlocked(c, call[c].refs)
    /\ IF call[c].op = "toggle"
       THEN /\ \E set \in BOOLEAN : once' = IF set THEN once \cup call[c].refs
                                                   ELSE once \ call[c].refs
            /\ UNCHANGED rows
       ELSE /\ rows' = [p \in Paths |-> IF p \in call[c].refs
                                        THEN call[c].tree[CHOOSE q \in call[c].entries : TRUE]
                                        ELSE rows[p]]
            /\ UNCHANGED once
    /\ Step(c, "list")
    /\ UNCHANGED <<status, store, bounds, history>>

(* delete_entry_rows: the row by its id, what is below it by its path.       *)
DeletedRows(c) ==
    call[c].refs \cup UNION {Under(p) : p \in {q \in call[c].entries : call[c].tree[q] = "dir"}}

(* unlink_entry: remove_dir_all refuses a file, and remove_file a folder.    *)
Unlinked(c) ==
    UNION {Region(p, call[c].tree[p] = "dir") :
              p \in {q \in call[c].entries : (call[c].tree[q] = "dir") = (files[q] = "dir")}}

\* Mutant of DeleteRows: the bytes go before the rows.
DeleteBytesFirst(c) ==
    /\ At(c, "rows")
    /\ files' = [p \in Paths |-> IF p \in Unlinked(c) THEN "none" ELSE files[p]]
    /\ Step(c, "unlink")
    /\ UNCHANGED <<table, manifest, tmp, bounds, history>>

(* delete_entry_rows of all entries in one transaction.                      *)
DeleteRows(c) ==
    /\ At(c, "rows")
    /\ Unlocked(c, DeletedRows(c))
    /\ rows' = [p \in Paths |-> IF p \in DeletedRows(c) THEN "none" ELSE rows[p]]
    /\ once' = once \ DeletedRows(c)
    /\ NowAll(c, [call[c] EXCEPT !.pc = "unlink"],
              LAMBDA k : [k EXCEPT !.refs = @ \ DeletedRows(c)])
    /\ UNCHANGED <<status, store, bounds, history>>

\* Mutant of UnlinkEntries: a folder's bytes are left behind.
UnlinkFilesOnly(c) ==
    /\ At(c, "unlink")
    /\ files' = [p \in Paths |-> IF p \in call[c].entries /\ call[c].tree[p] # "dir" THEN "none"
                                 ELSE files[p]]
    /\ Step(c, "list")
    /\ UNCHANGED <<table, manifest, tmp, bounds, history>>

(* unlink_entry of each of them, after the commit; an error is only logged.  *)
UnlinkEntries(c) ==
    /\ At(c, "unlink")
    /\ files' = [p \in Paths |-> IF p \in Unlinked(c) THEN "none" ELSE files[p]]
    /\ Step(c, "list")
    /\ UNCHANGED <<table, manifest, tmp, bounds, history>>

-----------------------------------------------------------------------------
(* Moves.  One transaction: for each entry the rows are rewritten, then the  *)
(* tree is renamed; a refusal rolls the rows back, not the tree.             *)

\* The rows as the transaction of c sees them.
Staged(c) == [p \in Paths |-> IF call[c].source[p] = NoRow THEN "none"
                              ELSE rows[call[c].source[p]]]

check_destination_free(t, n, is_dir) == \A q \in Region(n, is_dir) : t[q] = "none"

\* The next move of c has a row to move and no row in its way.
Movable(c) ==
    LET p == Head(call[c].moves)[1]
        n == Head(call[c].moves)[2]
    IN  Staged(c)[p] # "none" /\ check_destination_free(Staged(c), n, Head(call[c].moves)[3])

\* Where the rows come from once those at and, for a folder, below p are at n.
Resourced(c, p, n, is_dir) ==
    [q \in Paths |->
        IF /\ q \in Region(n, is_dir)
           /\ Rebased(n, p, q) \in Paths /\ Staged(c)[Rebased(n, p, q)] # "none"
        THEN call[c].source[Rebased(n, p, q)]
        ELSE IF q \in Region(p, is_dir) /\ Staged(c)[q] # "none" THEN NoRow
        ELSE call[c].source[q]]

(* move_subtree of the next entry.  Its row is looked up again by its path:  *)
(* an earlier move of the batch may have put a folder where a file was       *)
(* resolved, whose files then move without their rows.                       *)
MoveSubtree(c) ==
    /\ At(c, "move") /\ call[c].moves # << >>
    /\ LET p == Head(call[c].moves)[1]
           n == Head(call[c].moves)[2]
           is_dir == Head(call[c].moves)[3]
           split == ~ is_dir /\ Staged(c)[p] = "dir"
       IN  /\ Unlocked(c, Region(p, is_dir) \cup Region(n, is_dir))
           /\ Movable(c)
           /\ files[p] # "none" => CanRename(files, p, n)
           /\ files' = RenameOnDisk(files, p, n)
           /\ Now(c, [call[c] EXCEPT !.moves = Tail(@), !.source = Resourced(c, p, n, is_dir),
                                     !.renamed = @ \/ files' # files, !.found = @ \/ split])
           /\ drift' = (drift \/ split)
           /\ apart' = (apart \/ split \/ files' # files)
    /\ UNCHANGED <<table, manifest, tmp, bounds>>

(* A conflict, a row that is gone or a rename that fails ends the call; the  *)
(* folders made for the rename stay.                                         *)
RefuseMove(c) ==
    /\ At(c, "move") /\ call[c].moves # << >>
    /\ LET p == Head(call[c].moves)[1]
           n == Head(call[c].moves)[2]
       IN  \/ ~ Movable(c) /\ UNCHANGED files
           \/ /\ Movable(c) /\ files[p] # "none" /\ ~ CanRename(files, p, n)
              /\ files' = IF CanMakeDirs(files, n) THEN MadeDirs(files, n) ELSE files
    /\ drift' = (drift \/ call[c].renamed \/ files' # files)
    /\ End(c)
    /\ UNCHANGED <<table, manifest, tmp, bounds, apart>>

(* The commit of rename_file, move_file and move_files.                      *)
CommitMoves(c) ==
    /\ At(c, "move") /\ call[c].moves = << >>
    /\ rows' = Staged(c)
    /\ once' = {p \in Paths : call[c].source[p] \in once}
    /\ apart' = (call[c].found \/ ~ call[c].alone)
    /\ NowAll(c, [call[c] EXCEPT !.pc = "list", !.source = Same, !.renamed = FALSE],
              LAMBDA k : [k EXCEPT !.refs = {p \in Paths : call[c].source[p] \in @}])
    /\ UNCHANGED <<status, store, bounds, drift>>

-----------------------------------------------------------------------------
(* regenerate_manifest: rows, probe, write, rename, status 'ready'.          *)

(* list_artifacts; the rows of a build that is gone went with it.            *)
ListArtifacts(c) ==
    /\ At(c, "list")
    /\ Now(c, [call[c] EXCEPT !.pc = "probe",
                  !.built = [tree |-> IF call[c].live THEN rows ELSE Empty,
                             once |-> IF call[c].live THEN once ELSE {}]])
    /\ UNCHANGED <<table, store, bounds, history>>

(* present_paths and build_manifest: only what exists on disk is listed.     *)
BuildManifest(c) ==
    /\ At(c, "probe")
    /\ LET built == call[c].built
           present == {p \in Paths : built.tree[p] # "none" /\ files[p] # "none"}
       IN  Now(c, [call[c] EXCEPT !.pc = "write",
                      !.built = [tree |-> [p \in Paths |-> IF p \in present THEN built.tree[p]
                                                           ELSE "none"],
                                 once |-> built.once \cap present]])
    /\ UNCHANGED <<table, store, bounds, history>>

(* write_manifest_atomic: the temporary file, one for all calls on a build,  *)
(* is created or truncated,                                                  *)
BeginWrite(c) ==
    /\ At(c, "write")
    /\ tmp' = Partial
    /\ Now(c, [call[c] EXCEPT !.pc = "fill", !.out = "tmp"])
    /\ UNCHANGED <<table, files, manifest, bounds, history>>

\* A file with old in it after new is written over it.  What another call wrote
\* since it was truncated may show behind the end.
Overwritten(old, new) == IF old = Partial THEN {new} ELSE {new, Partial}

(* filled, wherever it is by now,                                            *)
EndWrite(c) ==
    /\ At(c, "fill")
    /\ tmp' \in IF call[c].out = "tmp" THEN Overwritten(tmp, call[c].built) ELSE {tmp}
    /\ manifest' \in IF call[c].out = "manifest" THEN Overwritten(manifest, call[c].built)
                     ELSE {manifest}
    /\ Step(c, "publish")
    /\ UNCHANGED <<table, files, bounds, history>>

(* and renamed to artifacts.json, if it is still there.  Calls that hold it  *)
(* open write on in its new place, those that held the old one nowhere.      *)
PublishManifest(c) ==
    /\ At(c, "publish")
    /\ IF tmp = Absent THEN UNCHANGED <<manifest, tmp>> /\ OnError(c)
       ELSE /\ manifest' = tmp /\ tmp' = Absent
            /\ NowAll(c, IF call[c].gone THEN Idle ELSE [call[c] EXCEPT !.pc = "ready"],
                      LAMBDA k : [k EXCEPT !.out = IF @ = "tmp" THEN "manifest" ELSE "lost"])
    /\ UNCHANGED <<table, files, bounds, history>>

(* The final UPDATE, RETURNING the row: none left is an error.  A re-upload  *)
(* that ran alone has replaced everything an earlier failure left behind.    *)
MarkReady(c) ==
    /\ At(c, "ready")
    /\ IF call[c].live
       THEN /\ status' = "ready"
            /\ drift' = (drift /\ ~ (call[c].op = "archive" /\ call[c].alone))
            /\ End(c)
       ELSE UNCHANGED <<status, drift>> /\ OnError(c)
    /\ UNCHANGED <<rows, once, store, bounds, apart>>

-----------------------------------------------------------------------------
(* The build itself.                                                         *)

(* create, through provision_bundle: a draft row, then its directory.  What  *)
(* an earlier build of this slug left on disk is still there.                *)
CreateBundle ==
    /\ status = "none"
    /\ status' = "draft"
    /\ drift' = (drift \/ \E c \in Calls : call[c] # Idle)
    /\ UNCHANGED <<rows, once, store, call, bounds, apart>>

BeginDeleteBundle(c) == Begin(c, "drop", "dropRow", {}, << >>, Empty, FALSE)

\* Mutant of DeleteBundleRow: the directory is left to somebody else.
DeleteBundleRowOnly(c) ==
    /\ At(c, "dropRow")
    /\ status' = "none" /\ rows' = Empty /\ once' = {} /\ apart' = ~ call[c].alone
    /\ End(c)
    /\ UNCHANGED <<store, bounds, drift>>

(* delete: the row first, its artifacts with it,                             *)
DeleteBundleRow(c) ==
    /\ At(c, "dropRow")
    /\ Unlocked(c, Paths)
    /\ IF call[c].live
       THEN /\ status' = "none" /\ rows' = Empty /\ once' = {} /\ apart' = ~ call[c].alone
            /\ NowAll(c, [call[c] EXCEPT !.pc = "rmdir"],
                      LAMBDA k : [k EXCEPT !.live = FALSE, !.refs = {}])
       ELSE UNCHANGED <<status, rows, once, apart>> /\ Step(c, "rmdir")
    /\ UNCHANGED <<store, bounds, drift>>

(* then the directory, whatever it holds by now.                             *)
RemoveBundleDir(c) ==
    /\ At(c, "rmdir")
    /\ files' = Empty /\ manifest' = Absent /\ tmp' = Absent
    /\ NowAll(c, Idle, LAMBDA k : [k EXCEPT !.out = "lost"])
    /\ UNCHANGED <<table, bounds, history>>

-----------------------------------------------------------------------------
(* Faults.                                                                   *)

Broken ==
    breaks < MaxBreaks /\ breaks' = breaks + 1 /\ drift' = TRUE /\ UNCHANGED made

\* Steps that run on a blocking thread, and those a task has begun with.
Blocking == {"wipe", "extract", "write", "fill", "publish", "rmdir"}
Begun == {"extract", "fill", "publish"}

(* The client disconnects: the handler is dropped; a blocking task goes on.  *)
Disconnect(c) ==
    /\ call[c] # Idle /\ ~ call[c].gone
    /\ Broken
    /\ \/ call[c].pc \notin Begun /\ End(c)
       \/ call[c].pc \in Blocking /\ Now(c, [call[c] EXCEPT !.gone = TRUE])
    /\ UNCHANGED <<table, store, apart>>

(* A statement or a file operation fails before it took effect.  Unlinks are *)
(* best effort, so the handler goes on.                                      *)
FailStep(c) ==
    /\ call[c] # Idle
    /\ Broken
    /\ CASE call[c].gone \/ call[c].pc \in {"processing", "failed"} -> End(c)
         [] call[c].pc = "unlink" -> Step(c, "list")
         [] OTHER -> OnError(c)
    /\ UNCHANGED <<table, store, apart>>

(* create_folder's rows are a statement each.                                *)
FailUpsert(c) ==
    /\ At(c, "upsertOne") /\ call[c].op = "folder" /\ call[c].live
    /\ Broken
    /\ \E p \in call[c].entries : \E q \in Ancestors(p) : rows' = Placed(rows, q, "dir")
    /\ End(c)
    /\ UNCHANGED <<status, once, store, apart>>

(* The process is killed and started again.                                  *)
Crash ==
    /\ Broken
    /\ \E c \in Calls : call[c] # Idle
    /\ call' = [c \in Calls |-> Idle]
    /\ UNCHANGED <<table, store, apart>>

-----------------------------------------------------------------------------
Request(c) ==
    \/ BeginArchive(c) \/ BeginPlace(c) \/ BeginDelete(c) \/ BeginToggle(c) \/ BeginRehash(c)
    \/ BeginMove(c) \/ BeginBatch(c) \/ BeginRegenerate(c) \/ BeginDeleteBundle(c)

Work(c) ==
    \/ SetProcessing(c) \/ WipeFiles(c) \/ ExtractAndScan(c) \/ UpsertScan(c) \/ SetFailed(c)
    \/ PlaceOnDisk(c) \/ HashFile(c) \/ UpsertArtifact(c) \/ UpdateRow(c)
    \/ DeleteRows(c) \/ UnlinkEntries(c)
    \/ MoveSubtree(c) \/ RefuseMove(c) \/ CommitMoves(c)
    \/ ListArtifacts(c) \/ BuildManifest(c) \/ BeginWrite(c) \/ EndWrite(c)
    \/ PublishManifest(c) \/ MarkReady(c) \/ DeleteBundleRow(c) \/ RemoveBundleDir(c)

Break(c) == Disconnect(c) \/ FailStep(c) \/ FailUpsert(c)

BundleNext ==
    \/ \E c \in Calls : Request(c)
    \/ \E c \in Calls : Work(c)
    \/ \E c \in Calls : Break(c)
    \/ CreateBundle
    \/ Crash

BundleSpec == BundleInit /\ [][BundleNext]_bundleVars

-----------------------------------------------------------------------------
Quiet == \A c \in Calls : call[c] = Idle

(* As long as calls come one after the other and none was cut short, every   *)
(* one of them leaves rows, files and manifest in agreement: each file row   *)
(* has its file with the recorded SHA-256, no file is untracked, and the     *)
(* manifest launchers fetch lists exactly the rows.  After any failure one   *)
(* complete upload_archive is enough to get there again.                     *)
SettledConsistent ==
    Quiet /\ ~ drift /\ status \notin {"none", "draft"} =>
        /\ status = "ready"
        /\ \A p \in Paths : rows[p] # "none" => files[p] = rows[p]
        /\ \A p \in Paths : files[p] \in Contents => rows[p] = files[p]
        /\ manifest = [tree |-> rows, once |-> once]

(* A build that was deleted and created again under the same slug starts     *)
(* empty: neither the manifest nor a file of its predecessor is served.      *)
FreshBuildIsEmpty == Quiet /\ ~ drift /\ status \in {"none", "draft"} =>
                        files = Empty /\ manifest = Absent

(* Whatever is dropped, fails or crashes, a file row points at a file that   *)
(* exists, except from the moment a re-upload wipes files/ until one ends,   *)
(* and after a move whose transaction rolled back behind its rename: rows    *)
(* are deleted before the bytes, and inserted after them.                    *)
RowsHaveFiles ==
    /\ TypeOK
    /\ ~ apart => \A p \in Paths : rows[p] \in Contents => files[p] \in Contents

=============================================================================
