------------------------------- MODULE Media -------------------------------
(***************************************************************************)
(* The images of the catalog's builds (catalog/src/admin.rs): an upload    *)
(* writes its file and then, in one transaction, deletes and unlinks what  *)
(* a singular role held and inserts the new row.  The unlink happens       *)
(* before the commit.  DELETE statements read the committed rows when they *)
(* start and wait for the rows another transaction has deleted.            *)
(***************************************************************************)
EXTENDS Storage

CONSTANTS Clients, Roles, SingularRoles, MCalls

ASSUME RolesAssumption == SingularRoles \subseteq Roles

VARIABLES
  media,    \* catalog_media: rows [client, role, file]
  clients,  \* catalog_clients that exist
  mcall,    \* mcall[c]: a request in progress
  stored,   \* <<client, file>>: the directory each media file was written to
  crowded   \* history: singular slots two uploads wrote at once

mediaVars == <<media, clients, mcall, stored, crowded>>

Row == [client : Clients, role : Roles, file : Files]

MIdle == [pc |-> "idle"]

MediaInit ==
  /\ media = {} /\ clients = Clients /\ stored = {} /\ crowded = {}
  /\ mcall = [c \in MCalls |-> MIdle]

MDone(c) == mcall' = [mcall EXCEPT ![c] = MIdle]

\* Rows a transaction in progress has deleted: locked, still seen by the others.
Locked == UNION {mcall[c].gone : c \in {d \in MCalls : mcall[d].pc \in {"unlink", "insert"}}}

InRole(row) == {r \in media : r.client = row.client /\ r.role = row.role}

-----------------------------------------------------------------------------
\* upload_media: require_client, before the body is read.
MediaBegin(c, k, role) ==
  /\ Ask /\ mcall[c] = MIdle /\ k \in clients
  /\ mcall' = [mcall EXCEPT ![c] = [pc |-> "body", client |-> k, role |-> role]]
  /\ UNCHANGED <<media, clients, stored, crowded, disk, written, torn, faults>>

\* The body names a known role and holds an image; the file is written.  A role
\* that is not singular skips the DELETE.
MediaWrite(c, f) ==
  LET row == [client |-> mcall[c].client, role |-> mcall[c].role, file |-> f]
  IN /\ mcall[c].pc = "body"
     /\ WriteFile(f)
     /\ stored' = stored \cup {<<row.client, f>>}
     /\ mcall' = [mcall EXCEPT ![c] =
          IF row.role \in SingularRoles
            THEN [pc |-> "delete", row |-> row]
            ELSE [pc |-> "insert", row |-> row, gone |-> {}]]
     /\ UNCHANGED <<media, clients, crowded, torn, requests, faults>>

\* DELETE ... RETURNING url starts: its snapshot.
MediaDeleteStarts(c) ==
  /\ mcall[c].pc = "delete"
  /\ mcall' = [mcall EXCEPT ![c] = [pc |-> "deleting", row |-> @.row, snap |-> InRole(@.row)]]
  /\ UNCHANGED <<media, clients, stored, crowded, storageVars>>

deletes_nothing(snap) == {}
deletes(snap) == snap \cap media

\* No row of the snapshot is locked any more; those still there are deleted.
MediaDelete(c) ==
  /\ mcall[c].pc = "deleting" /\ mcall[c].snap \cap Locked = {}
  /\ mcall' = [mcall EXCEPT ![c] = [pc |-> "unlink", row |-> @.row, gone |-> deletes(@.snap)]]
  /\ UNCHANGED <<media, clients, stored, crowded, storageVars>>

MediaUnlink(c) ==
  /\ mcall[c].pc = "unlink"
  /\ UnlinkQuiet({r.file : r \in mcall[c].gone})
  /\ mcall' = [mcall EXCEPT ![c] = [pc |-> "insert", row |-> @.row, gone |-> @.gone]]
  /\ UNCHANGED <<media, clients, stored, crowded, written, torn, requests, faults>>

Overlaps(c) ==
  \E d \in MCalls \ {c} : /\ mcall[d].pc \in {"deleting", "unlink", "insert"}
                          /\ mcall[d].row.client = mcall[c].row.client
                          /\ mcall[d].row.role = mcall[c].row.role

\* INSERT and COMMIT; without the client the foreign key fails the transaction.
MediaCommit(c) ==
  LET k == mcall[c]
      slot == <<k.row.client, k.row.role>>
      after == (media \ k.gone) \cup {k.row}
  IN /\ k.pc = "insert"
     /\ MDone(c)
     /\ IF k.row.client \in clients
          THEN /\ media' = after
               /\ crowded' = IF Overlaps(c) THEN crowded \cup {slot}
                             ELSE IF k.gone = InRole(k.row) THEN crowded \ {slot}
                             ELSE crowded
               /\ UNCHANGED torn
          ELSE /\ torn' = torn \cup {r.file : r \in k.gone}
               /\ UNCHANGED <<media, crowded>>
     /\ UNCHANGED <<clients, stored, disk, written, requests, faults>>

\* delete_media: the row, then its file; a row somebody else is deleting is
\* waited for.
deletes_first_of_role(r) == media \ {CHOOSE q \in media : q.role = r.role}
deletes_row(r) == media \ {r}

DeleteMedia(c, r) ==
  /\ Ask /\ mcall[c] = MIdle /\ r \in media \ Locked
  /\ media' = deletes_row(r)
  /\ mcall' = [mcall EXCEPT ![c] = [pc |-> "unlink_one", row |-> r]]
  /\ UNCHANGED <<clients, stored, crowded, disk, written, torn, faults>>

DeleteMediaFile(c) ==
  /\ mcall[c].pc = "unlink_one"
  /\ UnlinkQuiet({mcall[c].row.file})
  /\ MDone(c)
  /\ UNCHANGED <<media, clients, stored, crowded, written, torn, requests, faults>>

rows_cascade(k) == {r \in media : r.client # k}

\* delete_client: the rows cascade when no transaction holds one of them, then
\* the client's directory is removed.
DeleteClientRows(c, k) ==
  /\ Ask /\ mcall[c] = MIdle /\ k \in clients
  /\ \A r \in Locked : r.client # k
  /\ clients' = clients \ {k}
  /\ media' = rows_cascade(k)
  /\ mcall' = [mcall EXCEPT ![c] = [pc |-> "remove_dir", client |-> k]]
  /\ UNCHANGED <<stored, crowded, disk, written, torn, faults>>

\* The files in the client's directory.
FilesOf(k) == {p[2] : p \in {q \in stored : q[1] = k}}

RemoveMediaDir(c) ==
  /\ mcall[c].pc = "remove_dir"
  /\ UnlinkQuiet(FilesOf(mcall[c].client))
  /\ MDone(c)
  /\ UNCHANGED <<media, clients, stored, crowded, written, torn, requests, faults>>

\* The handler is dropped: an open transaction rolls back, unlinked files do not
\* come back.
DropMedia(c) ==
  /\ Fault /\ mcall[c] # MIdle
  /\ torn' = torn \cup (IF mcall[c].pc = "insert" THEN {r.file : r \in mcall[c].gone} ELSE {})
  /\ MDone(c)
  /\ UNCHANGED <<media, clients, stored, crowded, disk, written, requests>>

MediaNext ==
  \/ \E c \in MCalls :
       \/ \E k \in Clients, role \in Roles : MediaBegin(c, k, role)
       \/ \E f \in Files : MediaWrite(c, f)
       \/ MediaDeleteStarts(c) \/ MediaDelete(c) \/ MediaUnlink(c) \/ MediaCommit(c)
       \/ \E r \in media : DeleteMedia(c, r)
       \/ \E k \in Clients : DeleteClientRows(c, k)
       \/ DeleteMediaFile(c) \/ RemoveMediaDir(c) \/ DropMedia(c)

-----------------------------------------------------------------------------
(* Properties.                                                              *)

\* The media rows stay well formed and belong to builds that exist.
MediaTypeOK ==
  /\ media \subseteq Row
  /\ \A r \in media : r.client \in clients
  /\ disk \subseteq written /\ torn \subseteq written
  /\ requests \in 0..MaxRequests /\ faults \in 0..MaxFaults

\* A media row outside a transaction that is replacing it names a file on disk,
\* unless the file was lost from outside or to a rolled-back replacement.
MediaRowsHaveFiles ==
  /\ MediaTypeOK
  /\ \A r \in media \ Locked : r.file \in disk \cup torn

\* "a new upload replaces the existing row": a singular role holds one image
\* unless uploads of it overlapped.
SingularSlot ==
  \A r, q \in media :
    r.client = q.client /\ r.role = q.role /\ r.role \in SingularRoles /\ r # q
      => <<r.client, r.role>> \in crowded
=============================================================================
