------------------------------ MODULE Storage ------------------------------
(***************************************************************************)
(* The disk under the texture and the catalog-media stores                 *)
(* (core/src/storage.rs).  A file is named after a fresh random revision,  *)
(* so a name is written once; unlinking a missing file is no error.        *)
(***************************************************************************)
EXTENDS Naturals, FiniteSets

CONSTANTS Files,        \* revisions that may be drawn
          MaxRequests,  \* bound: requests started
          MaxFaults     \* bound: files lost from outside, dropped requests

ASSUME StorageAssumption == MaxRequests \in Nat /\ MaxFaults \in Nat

VARIABLES
  disk,     \* the files that exist
  written,  \* the revisions drawn so far
  torn,     \* history: files lost from outside, or unlinked by a transaction
            \* that was then rolled back
  requests, faults

storageVars == <<disk, written, torn, requests, faults>>

StorageInit == disk = {} /\ written = {} /\ torn = {} /\ requests = 0 /\ faults = 0

Ask == requests < MaxRequests /\ requests' = requests + 1

Fault == faults < MaxFaults /\ faults' = faults + 1

\* revision_hex and write_file: any revision not drawn before; which one does
\* not matter.
WriteFile(f) ==
  /\ f \in Files \ written
  /\ f = CHOOSE g \in Files \ written : TRUE
  /\ written' = written \cup {f}
  /\ disk' = disk \cup {f}

\* unlink_quiet, for each of fs
UnlinkQuiet(fs) == disk' = disk \ fs

\* Somebody cleans up by hand, or a volume is restored from an older copy.
LoseFile(f) ==
  /\ Fault /\ f \in disk
  /\ disk' = disk \ {f}
  /\ torn' = torn \cup {f}
  /\ UNCHANGED <<written, requests>>
=============================================================================
