------------------------------ MODULE Textures ------------------------------
(***************************************************************************)
(* Skins and capes (textures/src): one registry row per user and kind, a   *)
(* slot, that names a file on disk.  An upload writes a fresh file, reads  *)
(* the path it is about to replace, upserts the row and unlinks the old    *)
(* file, four statements that interleave with other uploads, deletes and   *)
(* the admin's purge of rows whose file is gone.                           *)
(***************************************************************************)
EXTENDS Storage

CONSTANTS Slots,   \* a user's skin or cape
          TCalls,  \* texture requests in progress at once
          NoFile

ASSUME NoFileAssumption == NoFile \notin Files

VARIABLES
  tex,     \* user_textures: tex[s] is the row's file_path
  owned,   \* the slots whose user still exists
  tcall    \* tcall[c]: a request between two statements

texVars == <<tex, owned, tcall, disk, written, torn, requests, faults>>

TIdle == [pc |-> "idle", slot |-> NoFile, file |-> NoFile, old |-> NoFile,
          rows |-> [s \in Slots |-> NoFile]]

TextureInit ==
  /\ tex = [s \in Slots |-> NoFile]
  /\ owned = Slots
  /\ tcall = [c \in TCalls |-> TIdle]

TDone(c) == tcall' = [tcall EXCEPT ![c] = TIdle]

-----------------------------------------------------------------------------
\* PUT: the png is valid; its file is written.
UploadWrite(c, s, f) ==
  /\ Ask /\ tcall[c].pc = "idle" /\ s \in owned
  /\ WriteFile(f)
  /\ tcall' = [tcall EXCEPT ![c] = [TIdle EXCEPT !.pc = "read_old", !.slot = s, !.file = f]]
  /\ UNCHANGED <<tex, owned, torn, faults>>

\* "Capture the previous on-disk path before the upsert overwrites it."
UploadReadOld(c) ==
  /\ tcall[c].pc = "read_old"
  /\ tcall' = [tcall EXCEPT ![c].pc = "upsert", ![c].old = tex[tcall[c].slot]]
  /\ UNCHANGED <<tex, owned, storageVars>>

\* A foreign key refuses the row of a user who is gone.
UploadUpsert(c) ==
  /\ tcall[c].pc = "upsert"
  /\ IF tcall[c].slot \in owned
       THEN /\ tex' = [tex EXCEPT ![tcall[c].slot] = tcall[c].file]
            /\ tcall' = [tcall EXCEPT ![c].pc = "unlink"]
       ELSE TDone(c) /\ UNCHANGED tex
  /\ UNCHANGED <<owned, storageVars>>

\* What the end of an upload, or of a delete, unlinks.
unlinks_current(c) == {tex[tcall[c].slot]}
unlinks(c) == {tcall[c].old} \ {NoFile, tcall[c].file}

UnlinkOld(c) ==
  /\ tcall[c].pc = "unlink"
  /\ UnlinkQuiet(unlinks(c))
  /\ TDone(c)
  /\ UNCHANGED <<tex, owned, written, torn, requests, faults>>

\* DELETE by the user or an admin: delete_by_user returns the path of the row it
\* removed; the file is unlinked next.
DeleteTexture(c, s) ==
  /\ Ask /\ tcall[c].pc = "idle" /\ tex[s] # NoFile
  /\ tex' = [tex EXCEPT ![s] = NoFile]
  /\ tcall' = [tcall EXCEPT ![c] = [TIdle EXCEPT !.pc = "unlink", !.slot = s, !.old = tex[s]]]
  /\ UNCHANGED <<owned, disk, written, torn, faults>>

\* DELETE FROM users: the rows cascade, the files stay.
cascaded(s) == [tex EXCEPT ![s] = NoFile]

DeleteOwner(s) ==
  /\ Ask /\ s \in owned
  /\ owned' = owned \ {s}
  /\ tex' = cascaded(s)
  /\ UNCHANGED <<tcall, disk, written, torn, faults>>

\* purge_missing: admin_fetch_all reads every row of the kind.
PurgeFetch(c) ==
  /\ Ask /\ tcall[c].pc = "idle"
  /\ tcall' = [tcall EXCEPT ![c] = [TIdle EXCEPT !.pc = "stat", !.rows = tex]]
  /\ UNCHANGED <<tex, owned, disk, written, torn, faults>>

\* collect_orphans: a stat per row keeps the ones whose file is missing.
KeepsAll(f) == FALSE
IsPresent(f) == f \in disk

PurgeStat(c, s) ==
  /\ tcall[c].pc = "stat"
  /\ tcall[c].rows[s] # NoFile /\ IsPresent(tcall[c].rows[s])
  /\ tcall' = [tcall EXCEPT ![c].rows[s] = NoFile]
  /\ UNCHANGED <<tex, owned, storageVars>>

PurgeCollected(c) ==
  /\ tcall[c].pc = "stat"
  /\ \A s \in Slots : tcall[c].rows[s] = NoFile \/ ~IsPresent(tcall[c].rows[s])
  /\ tcall' = [tcall EXCEPT ![c].pc = "purge"]
  /\ UNCHANGED <<tex, owned, storageVars>>

\* purge_kind: delete_by_user removes the slot's row, whatever its path is now.
PurgeDelete(c, s) ==
  /\ tcall[c].pc = "purge" /\ tcall[c].rows[s] # NoFile
  /\ tex' = [tex EXCEPT ![s] = NoFile]
  /\ tcall' = [tcall EXCEPT ![c].rows[s] = NoFile]
  /\ UNCHANGED <<owned, storageVars>>

PurgeEnd(c) ==
  /\ tcall[c].pc = "purge" /\ \A s \in Slots : tcall[c].rows[s] = NoFile
  /\ TDone(c)
  /\ UNCHANGED <<tex, owned, storageVars>>

\* The client goes away, or the process stops, between two statements.
DropTexture(c) ==
  /\ Fault /\ tcall[c].pc # "idle"
  /\ TDone(c)
  /\ UNCHANGED <<tex, owned, disk, written, torn, requests>>

TextureNext ==
  \/ \E c \in TCalls :
       \/ \E s \in Slots, f \in Files : UploadWrite(c, s, f)
       \/ UploadReadOld(c) \/ UploadUpsert(c) \/ UnlinkOld(c)
       \/ \E s \in Slots : DeleteTexture(c, s) \/ PurgeStat(c, s) \/ PurgeDelete(c, s)
       \/ PurgeFetch(c) \/ PurgeCollected(c) \/ PurgeEnd(c) \/ DropTexture(c)
  \/ \E s \in Slots : DeleteOwner(s)
  \/ \E f \in Files : LoseFile(f) /\ UNCHANGED <<tex, owned, tcall>>

TextureSpec == TextureInit /\ StorageInit /\ [][TextureNext]_texVars

-----------------------------------------------------------------------------
(* Properties.                                                              *)

TextureCall == [pc : {"idle", "read_old", "upsert", "unlink", "stat", "purge"},
                slot : Slots \cup {NoFile}, file : Files \cup {NoFile},
                old : Files \cup {NoFile}, rows : [Slots -> Files \cup {NoFile}]]

\* The texture registry, its requests and the disk stay well formed; only drawn
\* revisions are on disk, and an account that is gone has no row.
TextureTypeOK ==
  /\ tex \in [Slots -> Files \cup {NoFile}]
  /\ owned \subseteq Slots
  /\ tcall \in [TCalls -> TextureCall]
  /\ disk \subseteq written /\ written \subseteq Files /\ torn \subseteq written
  /\ \A s \in Slots \ owned : tex[s] = NoFile

\* No interleaving of uploads, deletes, purges and dropped requests leaves a
\* registry row that names a file the service itself removed.
TextureRowsHaveFiles ==
  /\ TextureTypeOK
  /\ \A s \in Slots : tex[s] # NoFile => tex[s] \in disk \cup torn

\* purge_missing removes a row whose file is on disk only when the row changed
\* after the purge read it.
PurgeTakesStaleRows ==
  [][\A c \in TCalls, s \in Slots :
       (tcall[c].pc = "purge" /\ tcall[c].rows[s] # NoFile /\ tcall'[c].rows[s] = NoFile
          /\ tcall'[c].pc = "purge" /\ tex[s] \in disk)
         => tex[s] # tcall[c].rows[s]]_texVars
=============================================================================
