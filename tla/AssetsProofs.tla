---------------------------- MODULE AssetsProofs ----------------------------
(***************************************************************************)
(* The stores that keep rows in the database and files on one disk.        *)
(*                                                                         *)
(* Assets: the texture registry never names a file the service removed,    *)
(* for any number of slots, builds, files and requests in flight, although *)
(* both asset stores unlink files from one disk in steps that overlap; nor *)
(* does a catalog image's row, outside the transaction that replaces it.   *)
(* The rows alone are not inductive.  An unlink is harmless because every  *)
(* revision is drawn once, enters the registry once, and is unlinked only  *)
(* after it left: the parts below say so of the calls in flight.           *)
(*                                                                         *)
(* Bundles (second half): rows, files and manifest of a build agree after  *)
(* every call that ran alone to its end, for any paths, archives, batches  *)
(* and number of calls.                                                    *)
(***************************************************************************)
EXTENDS Assets, Bundles, SequenceTheorems, TLAPS

(* The shapes a media request goes through.                                  *)
MediaCall ==
  {MIdle} \cup [pc : {"body"}, client : Clients, role : Roles]
          \cup [pc : {"delete", "unlink_one"}, row : Row]
          \cup [pc : {"deleting"}, row : Row, snap : SUBSET Row]
          \cup [pc : {"unlink", "insert"}, row : Row, gone : SUBSET Row]
          \cup [pc : {"remove_dir"}, client : Clients]

(* The revisions drawn for media: exactly those are ever unlinked by Media.  *)
StoredFiles == {p[2] : p \in stored}

(* What a media request may still unlink or insert is among the files fs.    *)
CallStaysIn(k, fs) ==
  /\ k.pc \in {"delete", "unlink_one", "deleting", "unlink", "insert"} => k.row.file \in fs
  /\ k.pc = "deleting" => \A r \in k.snap : r.file \in fs
  /\ k.pc \in {"unlink", "insert"} => \A r \in k.gone : r.file \in fs

MediaFilesStored ==
  /\ media \subseteq Row /\ mcall \in [MCalls -> MediaCall]
  /\ stored \subseteq Clients \X Files /\ StoredFiles \subseteq written
  /\ \A r \in media : r.file \in StoredFiles
  /\ \A c \in MCalls : CallStaysIn(mcall[c], StoredFiles)

(* An upload between its write and its upsert: its file is in no row yet.    *)
Uploading(c) == tcall[c].pc \in {"read_old", "upsert"}

(* The revisions drawn for textures are drawn for nothing else.              *)
TextureFilesOwn ==
  /\ \A s \in Slots : tex[s] # NoFile => tex[s] \in written \ StoredFiles
  /\ \A c \in TCalls :
       /\ Uploading(c) => tcall[c].slot \in Slots /\ tcall[c].file \in written \ StoredFiles
       /\ tcall[c].old # NoFile => tcall[c].old \in written \ StoredFiles

(* The file of an upload is on disk, and no row and no other call knows it.  *)
UploadIsPrivate ==
  \A c \in TCalls : Uploading(c) =>
    /\ tcall[c].file \in disk \cup torn
    /\ \A s \in Slots : tex[s] # tcall[c].file
    /\ \A d \in TCalls : /\ tcall[d].old # tcall[c].file
                         /\ d # c /\ Uploading(d) => tcall[d].file # tcall[c].file

(* A file is in one row; the previous path an upload is about to replace is  *)
(* at most in its own row, and a path about to be unlinked is in none.       *)
OneRowPerFile ==
  /\ \A s, t \in Slots : tex[s] # NoFile /\ s # t => tex[s] # tex[t]
  /\ \A c \in TCalls : tcall[c].old # NoFile =>
       /\ tcall[c].pc = "upsert" => \A s \in Slots \ {tcall[c].slot} : tex[s] # tcall[c].old
       /\ tcall[c].pc = "unlink" => \A s \in Slots : tex[s] # tcall[c].old
       /\ tcall[c].pc \in {"upsert", "unlink"}

AssetsInv ==
  /\ TextureRowsHaveFiles
  /\ MediaFilesStored
  /\ TextureFilesOwn
  /\ UploadIsPrivate
  /\ OneRowPerFile

-----------------------------------------------------------------------------
(* The catalog's images.  A row or an upload owns its file; the rows that a  *)
(* transaction is replacing are its own.                                     *)
Pending(k) == k.pc \in {"delete", "deleting", "unlink", "insert"}
Holding(k) == k.pc \in {"unlink", "insert"}

RowsOwnFiles ==
  /\ clients \subseteq Clients
  /\ \A p, q \in stored : p[2] = q[2] => p = q
  /\ \A r \in media : r.client \in clients /\ <<r.client, r.file>> \in stored
  /\ \A r, q \in media : r.file = q.file => r = q

(* The file of an upload is in no row, and no other request will unlink it   *)
(* while its build exists; a deleted row's file is in no row either.         *)
CallsOwnFiles ==
  \A c \in MCalls :
    /\ Pending(mcall[c]) =>
         /\ <<mcall[c].row.client, mcall[c].row.file>> \in stored
         /\ mcall[c].row.client \in clients => mcall[c].row.file \in disk \cup torn
         /\ \A d \in MCalls \ {c} : Pending(mcall[d]) \/ mcall[d].pc = "unlink_one" =>
              mcall[d].row.file # mcall[c].row.file
    /\ Pending(mcall[c]) \/ mcall[c].pc = "unlink_one" =>
         \A r \in media : r.file # mcall[c].row.file
    /\ mcall[c].pc = "remove_dir" => mcall[c].client \notin clients

RowsHeld ==
  \A c \in MCalls : Holding(mcall[c]) =>
    /\ mcall[c].gone \subseteq media
    /\ \A r \in mcall[c].gone : r.client = mcall[c].row.client /\ r.role = mcall[c].row.role
    /\ \A d \in MCalls \ {c} : Holding(mcall[d]) => mcall[c].gone \cap mcall[d].gone = {}

(* Only the rows whose replacement has unlinked their files may lack one.    *)
Replaced(r) == \E c \in MCalls : mcall[c].pc = "insert" /\ r \in mcall[c].gone

FilesKept == \A r \in media : r.file \in disk \cup torn \/ Replaced(r)

(* What the DELETE of an upload covers: all of its slot, unless another      *)
(* upload of the slot committed meanwhile.                                   *)
Covers(k, r) == r \in IF k.pc = "deleting" THEN k.snap ELSE k.gone

SlotsCovered ==
  \A c \in MCalls : mcall[c].pc \in {"deleting", "unlink", "insert"} =>
    /\ mcall[c].row.role \in SingularRoles =>
         \A r \in InRole(mcall[c].row) :
           Covers(mcall[c], r) \/ <<mcall[c].row.client, mcall[c].row.role>> \in crowded
    /\ mcall[c].pc = "deleting" =>
         \A r \in mcall[c].snap : r.client = mcall[c].row.client /\ r.role = mcall[c].row.role

(* A purge's list names no file that is on disk, and none can come back: a   *)
(* revision is written once.                                                 *)
Orphans ==
  \A c \in TCalls, s \in Slots :
    /\ tcall[c].pc = "stat" => tcall[c].rows[s] \in written \cup {NoFile}
    /\ tcall[c].pc = "purge" => tcall[c].rows[s] \in (written \ disk) \cup {NoFile}

BoundsOK == requests \in 0..MaxRequests /\ faults \in 0..MaxFaults

MediaInv ==
  /\ RowsOwnFiles /\ CallsOwnFiles /\ RowsHeld /\ FilesKept /\ SlotsCovered /\ SingularSlot

-----------------------------------------------------------------------------
LEMMA InitAssets == Init => AssetsInv
<1> SUFFICES ASSUME Init PROVE AssetsInv
  OBVIOUS
<1> USE DEF Init, StorageInit, TextureInit, MediaInit
<1>1. TIdle \in TextureCall /\ TIdle.pc = "idle" /\ TIdle.old = NoFile
  BY DEF TIdle, TextureCall
<1>2. TextureRowsHaveFiles
  BY <1>1 DEF TextureRowsHaveFiles, TextureTypeOK
<1>3. MIdle \in MediaCall /\ MIdle.pc = "idle"
  BY DEF MIdle, MediaCall
<1>4. StoredFiles = {}
  BY DEF StoredFiles
<1>5. MediaFilesStored
  BY <1>3, <1>4 DEF MediaFilesStored, CallStaysIn
<1>6. TextureFilesOwn /\ UploadIsPrivate /\ OneRowPerFile
  BY <1>1 DEF TextureFilesOwn, UploadIsPrivate, OneRowPerFile, Uploading
<1> QED BY <1>2, <1>5, <1>6 DEF AssetsInv

(* What a media request may do to the disk without touching a texture.       *)
LEMMA MediaSparesTextures ==
    ASSUME AssetsInv, UNCHANGED <<tex, owned, tcall>>,
           written \subseteq written', written' \subseteq Files,
           disk' \subseteq written', disk \ StoredFiles \subseteq disk',
           torn \subseteq torn', torn' \subseteq written',
           StoredFiles' \cap written \subseteq StoredFiles
    PROVE  /\ TextureRowsHaveFiles' /\ TextureFilesOwn' /\ UploadIsPrivate' /\ OneRowPerFile'
<1>1. TextureTypeOK'
  BY DEF AssetsInv, TextureRowsHaveFiles, TextureTypeOK
<1>2. ASSUME NEW f \in written \ StoredFiles
      PROVE  /\ f \in (written \ StoredFiles)'
             /\ f \in disk \cup torn => f \in (disk \cup torn)'
  OBVIOUS
<1>3. TextureRowsHaveFiles'
  <2> SUFFICES ASSUME NEW s \in Slots, tex[s] # NoFile PROVE tex[s] \in (disk \cup torn)'
    BY <1>1 DEF TextureRowsHaveFiles
  <2> QED BY <1>2 DEF AssetsInv, TextureRowsHaveFiles, TextureFilesOwn
<1>4. TextureFilesOwn'
  BY <1>2 DEF AssetsInv, TextureFilesOwn, Uploading
<1>5. UploadIsPrivate'
  <2> SUFFICES ASSUME NEW c \in TCalls, Uploading(c) PROVE tcall[c].file \in (disk \cup torn)'
    BY DEF AssetsInv, UploadIsPrivate, Uploading
  <2> QED BY <1>2 DEF AssetsInv, TextureFilesOwn, UploadIsPrivate
<1>6. OneRowPerFile'
  BY DEF AssetsInv, OneRowPerFile
<1> QED BY <1>3, <1>4, <1>5, <1>6

(* A texture request leaves the media alone.                                 *)
LEMMA TexturesSpareMedia ==
    ASSUME MediaFilesStored, UNCHANGED mediaVars, written \subseteq written'
    PROVE  MediaFilesStored' /\ StoredFiles' = StoredFiles
<1>1. StoredFiles' = StoredFiles
  BY DEF mediaVars, StoredFiles
<1> QED BY <1>1 DEF mediaVars, MediaFilesStored

(* A request leaves: its previous path and its file are forgotten.           *)
LEMMA DoneKeepsInv ==
    ASSUME AssetsInv, NEW c \in TCalls, TDone(c), UNCHANGED <<mediaVars, tex, owned, written, torn>>,
           disk' = disk \/ (tcall[c].pc = "unlink" /\ disk' = disk \ unlinks(c))
    PROVE  AssetsInv'
<1>1. TextureTypeOK /\ MediaFilesStored /\ TextureFilesOwn /\ UploadIsPrivate /\ OneRowPerFile
  BY DEF AssetsInv, TextureRowsHaveFiles
<1>2. /\ TIdle \in TextureCall /\ TIdle.pc = "idle" /\ TIdle.old = NoFile
  BY DEF TIdle, TextureCall
<1>3. /\ tcall' \in [TCalls -> TextureCall] /\ tcall'[c] = TIdle
      /\ \A d \in TCalls : d # c => tcall'[d] = tcall[d]
  BY <1>1, <1>2 DEF TDone, TextureTypeOK
<1>4. MediaFilesStored' /\ StoredFiles' = StoredFiles
  BY <1>1, TexturesSpareMedia
<1>5. ASSUME NEW f \in disk \cup torn, f # NoFile, disk' = disk \/ f # tcall[c].old
      PROVE  f \in (disk \cup torn)'
  BY <1>5 DEF unlinks
<1>6. TextureTypeOK'
  BY <1>1, <1>3 DEF TextureTypeOK
<1>7. TextureRowsHaveFiles'
  <2> SUFFICES ASSUME NEW s \in Slots, tex[s] # NoFile PROVE tex[s] \in (disk \cup torn)'
    BY <1>6 DEF TextureRowsHaveFiles
  <2>1. tex[s] \in disk \cup torn
    BY DEF AssetsInv, TextureRowsHaveFiles
  <2>2. disk' = disk \/ tex[s] # tcall[c].old
    BY <1>1 DEF OneRowPerFile
  <2> QED BY <2>1, <2>2, <1>5
<1>8. TextureFilesOwn'
  BY <1>1, <1>2, <1>3, <1>4 DEF TextureFilesOwn, Uploading
<1>9. UploadIsPrivate'
  <2> SUFFICES ASSUME NEW e \in TCalls, Uploading(e)'
               PROVE  /\ tcall'[e].file \in (disk \cup torn)'
                      /\ \A s \in Slots : tex'[s] # tcall'[e].file
                      /\ \A d \in TCalls : /\ tcall'[d].old # tcall'[e].file
                                           /\ d # e /\ Uploading(d)' => tcall'[d].file # tcall'[e].file
    BY DEF UploadIsPrivate
  <2>1. e # c /\ tcall'[e] = tcall[e] /\ Uploading(e)
    BY <1>2, <1>3 DEF Uploading
  <2>2. tcall[e].file \in written /\ tcall[e].file # NoFile
    BY <2>1, <1>1, NoFileAssumption DEF TextureFilesOwn, TextureTypeOK
  <2>3. tcall'[e].file \in (disk \cup torn)'
    BY <2>1, <2>2, <1>5, <1>1 DEF UploadIsPrivate
  <2>4. ASSUME NEW d \in TCalls
        PROVE  /\ tcall'[d].old # tcall'[e].file
               /\ d # e /\ Uploading(d)' => tcall'[d].file # tcall'[e].file
    <3>1. CASE d = c
      BY <3>1, <1>2, <1>3, <2>1, <2>2 DEF Uploading
    <3>2. CASE d # c
      <4>1. tcall'[d] = tcall[d]
        BY <3>2, <1>3
      <4> QED BY <4>1, <2>1, <1>1 DEF UploadIsPrivate, Uploading
    <3> QED BY <3>1, <3>2
  <2> QED BY <2>1, <2>3, <2>4, <1>1 DEF UploadIsPrivate
<1>10. OneRowPerFile'
  BY <1>1, <1>2, <1>3 DEF OneRowPerFile
<1> QED BY <1>4, <1>7, <1>8, <1>9, <1>10 DEF AssetsInv

(* A row goes: deletes, cascades and purges.                                 *)
LEMMA FewerRowsKeepInv ==
    ASSUME AssetsInv, NEW s \in Slots, tex' = [tex EXCEPT ![s] = NoFile],
           owned' \subseteq owned, \A t \in Slots \ owned' : t \in owned => t = s,
           UNCHANGED <<mediaVars, disk, written, torn, tcall>>
    PROVE  AssetsInv'
<1>1. TextureTypeOK /\ MediaFilesStored /\ TextureFilesOwn /\ UploadIsPrivate /\ OneRowPerFile
  BY DEF AssetsInv, TextureRowsHaveFiles
<1>2. /\ tex' \in [Slots -> Files \cup {NoFile}] /\ tex'[s] = NoFile
      /\ \A t \in Slots : t # s => tex'[t] = tex[t]
  BY <1>1 DEF TextureTypeOK
<1>3. MediaFilesStored' /\ StoredFiles' = StoredFiles
  BY <1>1, TexturesSpareMedia
<1>4. TextureTypeOK'
  BY <1>1, <1>2 DEF TextureTypeOK
<1>5. TextureRowsHaveFiles'
  BY <1>2, <1>4 DEF AssetsInv, TextureRowsHaveFiles
<1>6. TextureFilesOwn'
  BY <1>1, <1>2, <1>3 DEF TextureFilesOwn, Uploading
<1>7. UploadIsPrivate'
  <2>1. \A c \in TCalls : Uploading(c) => tcall[c].file # NoFile
    BY <1>1, NoFileAssumption DEF TextureFilesOwn, TextureTypeOK
  <2> QED BY <2>1, <1>1, <1>2 DEF UploadIsPrivate, Uploading
<1>8. OneRowPerFile'
  BY <1>1, <1>2 DEF OneRowPerFile
<1> QED BY <1>3, <1>5, <1>6, <1>7, <1>8 DEF AssetsInv

(* The purge moves on; its call carries neither a file nor a previous path.  *)
LEMMA PurgeKeepsInv ==
    ASSUME AssetsInv, NEW c \in TCalls, NEW k \in TextureCall,
           tcall' = [tcall EXCEPT ![c] = k], k.pc \in {"stat", "purge"}, k.old = NoFile,
           UNCHANGED <<mediaVars, tex, owned, disk, written, torn>>
    PROVE  AssetsInv'
<1>1. TextureTypeOK /\ MediaFilesStored /\ TextureFilesOwn /\ UploadIsPrivate /\ OneRowPerFile
  BY DEF AssetsInv, TextureRowsHaveFiles
<1>2. /\ tcall' \in [TCalls -> TextureCall] /\ tcall'[c] = k
      /\ \A d \in TCalls : d # c => tcall'[d] = tcall[d]
  BY <1>1 DEF TextureTypeOK
<1>3. MediaFilesStored' /\ StoredFiles' = StoredFiles
  BY <1>1, TexturesSpareMedia
<1>4. TextureRowsHaveFiles'
  BY <1>1, <1>2 DEF AssetsInv, TextureRowsHaveFiles, TextureTypeOK
<1>5. TextureFilesOwn'
  BY <1>1, <1>2, <1>3 DEF TextureFilesOwn, Uploading
<1>6. UploadIsPrivate'
  <2>1. \A e \in TCalls : Uploading(e) => tcall[e].file # NoFile
    BY <1>1, NoFileAssumption DEF TextureFilesOwn, TextureTypeOK
  <2>2. \A e \in TCalls : Uploading(e)' => e # c /\ Uploading(e) /\ tcall'[e] = tcall[e]
    BY <1>2 DEF Uploading
  <2>3. \A d \in TCalls : tcall'[d].old = tcall[d].old \/ tcall'[d].old = NoFile
    BY <1>2
  <2> QED BY <2>1, <2>2, <2>3, <1>1 DEF UploadIsPrivate
<1>7. OneRowPerFile'
  BY <1>1, <1>2 DEF OneRowPerFile
<1> QED BY <1>3, <1>4, <1>5, <1>6, <1>7 DEF AssetsInv

(* A delete or a purge takes a row out; a delete goes on to unlink its path. *)
LEMMA TakenRowKeepsInv ==
    ASSUME AssetsInv, NEW s \in Slots, tex' = [tex EXCEPT ![s] = NoFile],
           NEW c \in TCalls, NEW k \in TextureCall, tcall' = [tcall EXCEPT ![c] = k],
           k.pc \in {"unlink", "purge"},
           k.old = NoFile \/ (k.pc = "unlink" /\ k.old = tex[s]),
           UNCHANGED <<mediaVars, owned, disk, written, torn>>
    PROVE  AssetsInv'
<1>1. TextureTypeOK /\ MediaFilesStored /\ TextureFilesOwn /\ UploadIsPrivate /\ OneRowPerFile
  BY DEF AssetsInv, TextureRowsHaveFiles
<1>2. /\ tex' \in [Slots -> Files \cup {NoFile}] /\ tex'[s] = NoFile
      /\ \A t \in Slots : t # s => tex'[t] = tex[t]
  BY <1>1 DEF TextureTypeOK
<1>3. /\ tcall' \in [TCalls -> TextureCall] /\ tcall'[c] = k
      /\ \A d \in TCalls : d # c => tcall'[d] = tcall[d]
  BY <1>1 DEF TextureTypeOK
<1>4. MediaFilesStored' /\ StoredFiles' = StoredFiles
  BY <1>1, TexturesSpareMedia
<1>5. TextureRowsHaveFiles'
  BY <1>1, <1>2, <1>3 DEF AssetsInv, TextureRowsHaveFiles, TextureTypeOK
<1>6. TextureFilesOwn'
  BY <1>1, <1>2, <1>3, <1>4 DEF TextureFilesOwn, Uploading
<1>7. UploadIsPrivate'
  <2>1. \A e \in TCalls : Uploading(e) => tcall[e].file # NoFile
    BY <1>1, NoFileAssumption DEF TextureFilesOwn, TextureTypeOK
  <2>2. \A e \in TCalls : Uploading(e)' => e # c /\ Uploading(e) /\ tcall'[e] = tcall[e]
    BY <1>3 DEF Uploading
  <2>3. \A d \in TCalls : tcall'[d].old \in {tcall[d].old, NoFile, tex[s]}
    BY <1>3
  <2> QED BY <2>1, <2>2, <2>3, <1>1, <1>2 DEF UploadIsPrivate
<1>8. OneRowPerFile'
  <2>1. \A r, t \in Slots : tex'[r] # NoFile /\ r # t => tex'[r] # tex'[t]
    BY <1>1, <1>2 DEF OneRowPerFile
  <2>2. ASSUME NEW d \in TCalls, tcall'[d].old # NoFile
        PROVE  /\ tcall'[d].pc = "upsert" =>
                    \A t \in Slots \ {tcall'[d].slot} : tex'[t] # tcall'[d].old
               /\ tcall'[d].pc = "unlink" => \A t \in Slots : tex'[t] # tcall'[d].old
               /\ tcall'[d].pc \in {"upsert", "unlink"}
    <3>1. CASE d = c
      BY <3>1, <2>2, <1>1, <1>2, <1>3 DEF OneRowPerFile
    <3>2. CASE d # c
      BY <3>2, <2>2, <1>1, <1>2, <1>3 DEF OneRowPerFile
    <3> QED BY <3>1, <3>2
  <2> QED BY <2>1, <2>2 DEF OneRowPerFile
<1> QED BY <1>4, <1>5, <1>6, <1>7, <1>8 DEF AssetsInv

(* upload writes a revision nobody has drawn.                                *)
LEMMA WriteKeepsInv ==
    ASSUME AssetsInv, UNCHANGED mediaVars, NEW c \in TCalls, NEW s \in Slots, NEW f \in Files,
           UploadWrite(c, s, f)
    PROVE  AssetsInv'
<1>1. TextureTypeOK /\ MediaFilesStored /\ TextureFilesOwn /\ UploadIsPrivate /\ OneRowPerFile
  BY DEF AssetsInv, TextureRowsHaveFiles
<1> DEFINE k == [TIdle EXCEPT !.pc = "read_old", !.slot = s, !.file = f]
<1>2. /\ k \in TextureCall /\ k.pc = "read_old" /\ k.slot = s /\ k.file = f /\ k.old = NoFile
  BY DEF TIdle, TextureCall
<1>3. /\ tcall' = [tcall EXCEPT ![c] = k] /\ f \notin written /\ UNCHANGED <<tex, owned, torn>>
      /\ written' = written \cup {f} /\ disk' = disk \cup {f}
  BY DEF UploadWrite, WriteFile
<1> HIDE DEF k
<1>4. /\ tcall' \in [TCalls -> TextureCall] /\ tcall'[c] = k
      /\ \A d \in TCalls : d # c => tcall'[d] = tcall[d]
  BY <1>1, <1>2, <1>3 DEF TextureTypeOK
<1>5. MediaFilesStored' /\ StoredFiles' = StoredFiles /\ f \notin StoredFiles
  BY <1>1, <1>3, TexturesSpareMedia DEF MediaFilesStored
<1>6. TextureRowsHaveFiles'
  BY <1>1, <1>3, <1>4 DEF AssetsInv, TextureRowsHaveFiles, TextureTypeOK
<1>7. TextureFilesOwn'
  <2>1. \A t \in Slots : tex'[t] # NoFile => tex'[t] \in written' \ StoredFiles'
    BY <1>1, <1>3, <1>5 DEF TextureFilesOwn
  <2>2. ASSUME NEW d \in TCalls
        PROVE  /\ Uploading(d)' => tcall'[d].slot \in Slots /\ tcall'[d].file \in written' \ StoredFiles'
               /\ tcall'[d].old # NoFile => tcall'[d].old \in written' \ StoredFiles'
    <3>1. CASE d = c
      BY <3>1, <1>2, <1>3, <1>4, <1>5
    <3>2. CASE d # c
      BY <3>2, <1>1, <1>3, <1>4, <1>5 DEF TextureFilesOwn, Uploading
    <3> QED BY <3>1, <3>2
  <2> QED BY <2>1, <2>2 DEF TextureFilesOwn
<1>8. UploadIsPrivate'
  <2>1. \A t \in Slots : tex[t] # f
    BY <1>1, <1>3, NoFileAssumption DEF TextureFilesOwn
  <2>2. \A d \in TCalls : tcall[d].old # f /\ (Uploading(d) => tcall[d].file # f)
    BY <1>1, <1>3, NoFileAssumption DEF TextureFilesOwn
  <2>3. ASSUME NEW e \in TCalls, Uploading(e)'
        PROVE  /\ tcall'[e].file \in disk' \cup torn'
               /\ \A t \in Slots : tex'[t] # tcall'[e].file
               /\ \A d \in TCalls : /\ tcall'[d].old # tcall'[e].file
                                    /\ d # e /\ Uploading(d)' => tcall'[d].file # tcall'[e].file
    <3>1. CASE e = c
      <4>1. tcall'[e].file = f
        BY <3>1, <1>2, <1>4
      <4>2. \A d \in TCalls : /\ tcall'[d].old # f
                              /\ d # c /\ Uploading(d)' => tcall'[d].file # f
        BY <1>2, <1>4, <2>2, NoFileAssumption DEF Uploading
      <4> QED BY <3>1, <4>1, <4>2, <2>1, <1>3
    <3>2. CASE e # c
      <4>1. Uploading(e) /\ tcall'[e] = tcall[e]
        BY <3>2, <2>3, <1>4 DEF Uploading
      <4>2. tcall[e].file # f /\ tcall[e].file # NoFile
        BY <4>1, <2>2, <1>1, NoFileAssumption DEF TextureFilesOwn, TextureTypeOK
      <4>3. ASSUME NEW d \in TCalls
            PROVE  /\ tcall'[d].old # tcall[e].file
                   /\ d # e /\ Uploading(d)' => tcall'[d].file # tcall[e].file
        <5>1. CASE d = c
          BY <5>1, <1>2, <1>4, <4>2
        <5>2. CASE d # c
          BY <5>2, <1>4, <4>1, <1>1 DEF UploadIsPrivate, Uploading
        <5> QED BY <5>1, <5>2
      <4> QED BY <4>1, <4>3, <1>1, <1>3 DEF UploadIsPrivate
    <3> QED BY <3>1, <3>2
  <2> QED BY <2>3 DEF UploadIsPrivate
<1>9. OneRowPerFile'
  BY <1>1, <1>2, <1>3, <1>4 DEF OneRowPerFile
<1> QED BY <1>5, <1>6, <1>7, <1>8, <1>9 DEF AssetsInv

(* upload notes the path it is about to replace.                             *)
LEMMA ReadOldKeepsInv ==
    ASSUME AssetsInv, UNCHANGED mediaVars, NEW c \in TCalls, UploadReadOld(c)
    PROVE  AssetsInv'
<1>1. TextureTypeOK /\ MediaFilesStored /\ TextureFilesOwn /\ UploadIsPrivate /\ OneRowPerFile
  BY DEF AssetsInv, TextureRowsHaveFiles
<1>2. /\ tcall' = [tcall EXCEPT ![c].pc = "upsert", ![c].old = tex[tcall[c].slot]]
      /\ UNCHANGED <<tex, owned, disk, written, torn>> /\ tcall[c].pc = "read_old"
  BY DEF UploadReadOld, storageVars
<1>3. Uploading(c) /\ tcall[c].slot \in Slots /\ tcall[c] \in TextureCall
      /\ tex[tcall[c].slot] \in Files \cup {NoFile}
  BY <1>1, <1>2 DEF Uploading, TextureFilesOwn, TextureTypeOK
<1>4. /\ tcall' \in [TCalls -> TextureCall] /\ tcall'[c].pc = "upsert"
      /\ tcall'[c].old = tex[tcall[c].slot] /\ tcall'[c].slot = tcall[c].slot
      /\ tcall'[c].file = tcall[c].file
      /\ \A d \in TCalls : d # c => tcall'[d] = tcall[d]
  BY <1>1, <1>2, <1>3 DEF TextureTypeOK, TextureCall
<1>5. MediaFilesStored' /\ StoredFiles' = StoredFiles
  BY <1>1, <1>2, TexturesSpareMedia
<1>6. \A d \in TCalls : /\ Uploading(d)' <=> Uploading(d)
                        /\ tcall'[d].file = tcall[d].file /\ tcall'[d].slot = tcall[d].slot
                        /\ tcall'[d].old \in {tcall[d].old, tex[tcall[c].slot]}
  BY <1>2, <1>3, <1>4 DEF Uploading
<1>7. TextureRowsHaveFiles'
  BY <1>1, <1>2, <1>4 DEF AssetsInv, TextureRowsHaveFiles, TextureTypeOK
<1>8. TextureFilesOwn'
  BY <1>1, <1>2, <1>3, <1>5, <1>6 DEF TextureFilesOwn
<1>9. UploadIsPrivate'
  <2>1. ASSUME NEW e \in TCalls, Uploading(e)'
        PROVE  /\ tcall'[e].file \in disk' \cup torn'
               /\ \A s \in Slots : tex'[s] # tcall'[e].file
               /\ \A d \in TCalls : /\ tcall'[d].old # tcall'[e].file
                                    /\ d # e /\ Uploading(d)' => tcall'[d].file # tcall'[e].file
    <3>1. Uploading(e) /\ tcall'[e].file = tcall[e].file
      BY <2>1, <1>6
    <3>2. tex[tcall[c].slot] # tcall[e].file
      BY <3>1, <1>1, <1>3 DEF UploadIsPrivate
    <3>3. ASSUME NEW d \in TCalls
          PROVE  /\ tcall'[d].old # tcall[e].file
                 /\ d # e /\ Uploading(d)' => tcall'[d].file # tcall[e].file
      <4>1. /\ tcall[d].old # tcall[e].file
            /\ d # e /\ Uploading(d) => tcall[d].file # tcall[e].file
        BY <3>1, <1>1 DEF UploadIsPrivate
      <4> QED BY <4>1, <3>2, <1>6
    <3> QED BY <3>1, <3>3, <1>1, <1>2 DEF UploadIsPrivate
  <2> QED BY <2>1 DEF UploadIsPrivate
<1>10. OneRowPerFile'
  BY <1>1, <1>2, <1>3, <1>4 DEF OneRowPerFile
<1> QED BY <1>5, <1>7, <1>8, <1>9, <1>10 DEF AssetsInv

(* The upsert publishes the file; what it replaces leaves the registry.      *)
LEMMA UpsertKeepsInv ==
    ASSUME AssetsInv, UNCHANGED mediaVars, NEW c \in TCalls, UploadUpsert(c)
    PROVE  AssetsInv'
<1>1. TextureTypeOK /\ MediaFilesStored /\ TextureFilesOwn /\ UploadIsPrivate /\ OneRowPerFile
  BY DEF AssetsInv, TextureRowsHaveFiles
<1>2. CASE tcall[c].slot \notin owned
  BY <1>2, DoneKeepsInv DEF UploadUpsert, storageVars
<1>3. CASE tcall[c].slot \in owned
  <2> DEFINE s == tcall[c].slot
             f == tcall[c].file
  <2>1. /\ tcall[c].pc = "upsert" /\ tex' = [tex EXCEPT ![s] = f]
        /\ tcall' = [tcall EXCEPT ![c].pc = "unlink"]
        /\ UNCHANGED <<owned, disk, written, torn>>
    BY <1>3 DEF UploadUpsert, storageVars
  <2>2. /\ Uploading(c) /\ s \in Slots /\ f \in written \ StoredFiles /\ f # NoFile
        /\ f \in disk \cup torn /\ tcall[c] \in TextureCall /\ f \in Files
    BY <2>1, <1>1, NoFileAssumption DEF Uploading, TextureFilesOwn, TextureTypeOK, UploadIsPrivate
  <2>3. /\ tcall' \in [TCalls -> TextureCall] /\ tcall'[c].pc = "unlink"
        /\ tcall'[c].old = tcall[c].old
        /\ \A d \in TCalls : d # c => tcall'[d] = tcall[d]
    BY <1>1, <2>1, <2>2 DEF TextureTypeOK, TextureCall
  <2>4. /\ tex' \in [Slots -> Files \cup {NoFile}] /\ tex'[s] = f
        /\ \A t \in Slots : t # s => tex'[t] = tex[t]
    BY <1>1, <2>1, <2>2 DEF TextureTypeOK
  <2> HIDE DEF s, f
  <2>5. MediaFilesStored' /\ StoredFiles' = StoredFiles
    BY <1>1, <2>1, TexturesSpareMedia
  <2>6. TextureTypeOK'
    BY <1>1, <1>3, <2>1, <2>3, <2>4 DEF TextureTypeOK, s
  <2>7. TextureRowsHaveFiles'
    BY <2>1, <2>2, <2>4, <2>6 DEF AssetsInv, TextureRowsHaveFiles
  <2>8. \A d \in TCalls : /\ Uploading(d)' => d # c /\ Uploading(d) /\ tcall'[d] = tcall[d]
                          /\ tcall'[d].old = tcall[d].old
    BY <2>3 DEF Uploading
  <2>9. TextureFilesOwn'
    BY <1>1, <2>1, <2>2, <2>4, <2>5, <2>8 DEF TextureFilesOwn
  <2>10. UploadIsPrivate'
    BY <1>1, <2>1, <2>2, <2>4, <2>8 DEF UploadIsPrivate, f
  <2>11. OneRowPerFile'
    <3>1. \A t \in Slots : tex[t] # f
      BY <1>1, <2>2 DEF UploadIsPrivate, f
    <3>2. \A d \in TCalls : tcall[d].old # f
      BY <1>1, <2>2 DEF UploadIsPrivate, f
    <3>3. \A r, t \in Slots : tex'[r] # NoFile /\ r # t => tex'[r] # tex'[t]
      BY <1>1, <2>4, <3>1 DEF OneRowPerFile
    <3>4. ASSUME NEW d \in TCalls, tcall'[d].old # NoFile
          PROVE  /\ tcall'[d].pc = "upsert" =>
                      \A t \in Slots \ {tcall'[d].slot} : tex'[t] # tcall'[d].old
                 /\ tcall'[d].pc = "unlink" => \A t \in Slots : tex'[t] # tcall'[d].old
                 /\ tcall'[d].pc \in {"upsert", "unlink"}
      <4>1. CASE d = c
        BY <4>1, <3>4, <1>1, <2>1, <2>3, <2>4, <3>2 DEF OneRowPerFile, s
      <4>2. CASE d # c
        BY <4>2, <3>4, <1>1, <2>3, <2>4, <3>2 DEF OneRowPerFile
      <4> QED BY <4>1, <4>2
    <3> QED BY <3>3, <3>4 DEF OneRowPerFile
  <2> QED BY <2>5, <2>7, <2>9, <2>10, <2>11 DEF AssetsInv
<1> QED BY <1>2, <1>3

(* A file lost from outside is on the record as torn.                        *)
LEMMA LossKeepsInv ==
    ASSUME AssetsInv, UNCHANGED mediaVars, NEW f \in Files, LoseFile(f),
           UNCHANGED <<tex, owned, tcall>>
    PROVE  AssetsInv'
<1>1. TextureTypeOK /\ MediaFilesStored /\ TextureFilesOwn /\ UploadIsPrivate /\ OneRowPerFile
  BY DEF AssetsInv, TextureRowsHaveFiles
<1>2. /\ f \in disk /\ disk' = disk \ {f} /\ torn' = torn \cup {f} /\ written' = written
  BY DEF LoseFile
<1>3. (disk \cup torn)' = disk \cup torn
  BY <1>2
<1>4. MediaFilesStored' /\ StoredFiles' = StoredFiles
  BY <1>1, <1>2, TexturesSpareMedia
<1>5. TextureRowsHaveFiles'
  BY <1>1, <1>2, <1>3 DEF AssetsInv, TextureRowsHaveFiles, TextureTypeOK
<1>6. TextureFilesOwn' /\ OneRowPerFile'
  BY <1>1, <1>2, <1>4 DEF TextureFilesOwn, OneRowPerFile, Uploading
<1>7. UploadIsPrivate'
  BY <1>1, <1>3 DEF UploadIsPrivate, Uploading
<1> QED BY <1>4, <1>5, <1>6, <1>7 DEF AssetsInv

LEMMA TextureStepKeepsInv ==
    ASSUME AssetsInv, TextureNext, UNCHANGED mediaVars
    PROVE  AssetsInv'
<1>1. TextureTypeOK /\ OneRowPerFile
  BY DEF AssetsInv, TextureRowsHaveFiles
<1>2. ASSUME NEW c \in TCalls, NEW s \in Slots, NEW f \in Files, UploadWrite(c, s, f)
      PROVE  AssetsInv'
  BY <1>2, WriteKeepsInv
<1>3. ASSUME NEW c \in TCalls, UploadReadOld(c) PROVE AssetsInv'
  BY <1>3, ReadOldKeepsInv
<1>4. ASSUME NEW c \in TCalls, UploadUpsert(c) PROVE AssetsInv'
  BY <1>4, UpsertKeepsInv
<1>5. ASSUME NEW c \in TCalls, UnlinkOld(c) PROVE AssetsInv'
  BY <1>5, DoneKeepsInv DEF UnlinkOld, UnlinkQuiet
<1>6. ASSUME NEW c \in TCalls, NEW s \in Slots, DeleteTexture(c, s) PROVE AssetsInv'
  <2> DEFINE k == [TIdle EXCEPT !.pc = "unlink", !.slot = s, !.old = tex[s]]
  <2>1. k \in TextureCall /\ k.pc = "unlink" /\ k.old = tex[s]
    BY <1>1 DEF TIdle, TextureCall, TextureTypeOK
  <2>2. /\ tex' = [tex EXCEPT ![s] = NoFile] /\ tcall' = [tcall EXCEPT ![c] = k]
        /\ UNCHANGED <<owned, disk, written, torn>>
    BY <1>6 DEF DeleteTexture
  <2> HIDE DEF k
  <2> QED BY <2>1, <2>2, TakenRowKeepsInv
<1>7. ASSUME NEW c \in TCalls, NEW s \in Slots, PurgeStat(c, s) PROVE AssetsInv'
  <2> DEFINE k == [tcall[c] EXCEPT !.rows = [@ EXCEPT ![s] = NoFile]]
  <2>1. k \in TextureCall /\ k.pc = "stat" /\ k.old = NoFile
    <3>1. tcall[c] \in TextureCall /\ tcall[c].pc = "stat" /\ tcall[c].old = NoFile
      BY <1>1, <1>7 DEF TextureTypeOK, OneRowPerFile, PurgeStat
    <3>2. [tcall[c].rows EXCEPT ![s] = NoFile] \in [Slots -> Files \cup {NoFile}]
      BY <3>1 DEF TextureCall
    <3> QED BY <3>1, <3>2 DEF TextureCall
  <2>2. /\ tcall' = [tcall EXCEPT ![c] = k] /\ UNCHANGED <<tex, owned, disk, written, torn>>
    BY <1>7, <1>1 DEF PurgeStat, storageVars, TextureTypeOK
  <2> HIDE DEF k
  <2> QED BY <2>1, <2>2, PurgeKeepsInv
<1>8. ASSUME NEW c \in TCalls, NEW s \in Slots, PurgeDelete(c, s) PROVE AssetsInv'
  <2> DEFINE k == [tcall[c] EXCEPT !.rows = [@ EXCEPT ![s] = NoFile]]
  <2>1. k \in TextureCall /\ k.pc = "purge" /\ k.old = NoFile
    <3>1. tcall[c] \in TextureCall /\ tcall[c].pc = "purge" /\ tcall[c].old = NoFile
      BY <1>1, <1>8 DEF TextureTypeOK, OneRowPerFile, PurgeDelete
    <3>2. [tcall[c].rows EXCEPT ![s] = NoFile] \in [Slots -> Files \cup {NoFile}]
      BY <3>1 DEF TextureCall
    <3> QED BY <3>1, <3>2 DEF TextureCall
  <2>2. /\ tex' = [tex EXCEPT ![s] = NoFile] /\ tcall' = [tcall EXCEPT ![c] = k]
        /\ UNCHANGED <<owned, disk, written, torn>>
    BY <1>8, <1>1 DEF PurgeDelete, storageVars, TextureTypeOK
  <2> HIDE DEF k
  <2> QED BY <2>1, <2>2, TakenRowKeepsInv
<1>9. ASSUME NEW c \in TCalls, PurgeFetch(c) PROVE AssetsInv'
  <2> DEFINE k == [TIdle EXCEPT !.pc = "stat", !.rows = tex]
  <2>1. k \in TextureCall /\ k.pc = "stat" /\ k.old = NoFile
    BY <1>1 DEF TIdle, TextureCall, TextureTypeOK
  <2>2. /\ tcall' = [tcall EXCEPT ![c] = k] /\ UNCHANGED <<tex, owned, disk, written, torn>>
    BY <1>9 DEF PurgeFetch
  <2> HIDE DEF k
  <2> QED BY <2>1, <2>2, PurgeKeepsInv
<1>10. ASSUME NEW c \in TCalls, PurgeCollected(c) PROVE AssetsInv'
  <2> DEFINE k == [tcall[c] EXCEPT !.pc = "purge"]
  <2>1. k \in TextureCall /\ k.pc = "purge" /\ k.old = NoFile
    BY <1>1, <1>10 DEF TextureCall, TextureTypeOK, OneRowPerFile, PurgeCollected
  <2>2. /\ tcall' = [tcall EXCEPT ![c] = k] /\ UNCHANGED <<tex, owned, disk, written, torn>>
    BY <1>10, <1>1 DEF PurgeCollected, storageVars, TextureTypeOK
  <2> HIDE DEF k
  <2> QED BY <2>1, <2>2, PurgeKeepsInv
<1>11. ASSUME NEW c \in TCalls, PurgeEnd(c) PROVE AssetsInv'
  BY <1>11, DoneKeepsInv DEF PurgeEnd, storageVars
<1>12. ASSUME NEW c \in TCalls, DropTexture(c) PROVE AssetsInv'
  BY <1>12, DoneKeepsInv DEF DropTexture
<1>13. ASSUME NEW s \in Slots, DeleteOwner(s) PROVE AssetsInv'
  <2>1. /\ tex' = [tex EXCEPT ![s] = NoFile] /\ owned' = owned \ {s}
        /\ UNCHANGED <<disk, written, torn, tcall>>
    BY <1>13 DEF DeleteOwner, cascaded
  <2>2. owned' \subseteq owned /\ \A t \in Slots \ owned' : t \in owned => t = s
    BY <2>1
  <2> QED BY <2>1, <2>2, FewerRowsKeepInv
<1>14. ASSUME NEW f \in Files, LoseFile(f), UNCHANGED <<tex, owned, tcall>> PROVE AssetsInv'
  BY <1>14, LossKeepsInv
<1> QED BY <1>2, <1>3, <1>4, <1>5, <1>6, <1>7, <1>8, <1>9, <1>10, <1>11, <1>12, <1>13, <1>14
        DEF TextureNext

-----------------------------------------------------------------------------
(* A media step moves one request on; the rows and the directory follow.     *)
LEMMA MediaMoveKeepsInv ==
    ASSUME AssetsInv, NEW c \in MCalls, NEW k \in MediaCall,
           mcall' = [mcall EXCEPT ![c] = k], CallStaysIn(k, StoredFiles'),
           media' \subseteq Row, \A r \in media' : r.file \in StoredFiles',
           stored \subseteq stored', stored' \subseteq Clients \X Files,
           StoredFiles' \subseteq written', StoredFiles' \cap written \subseteq StoredFiles,
           UNCHANGED <<tex, owned, tcall>>, written \subseteq written', written' \subseteq Files,
           disk' \subseteq written', disk \ StoredFiles \subseteq disk',
           torn \subseteq torn', torn' \subseteq written'
    PROVE  AssetsInv'
<1>1. MediaFilesStored
  BY DEF AssetsInv
<1>2. StoredFiles \subseteq StoredFiles'
  BY DEF StoredFiles
<1>3. /\ mcall' \in [MCalls -> MediaCall] /\ mcall'[c] = k
      /\ \A d \in MCalls : d # c => mcall'[d] = mcall[d]
  BY <1>1 DEF MediaFilesStored
<1>4. ASSUME NEW d \in MCalls PROVE CallStaysIn(mcall'[d], StoredFiles')
  <2>1. CASE d = c
    BY <2>1, <1>3
  <2>2. CASE d # c
    <3>1. mcall'[d] = mcall[d] /\ CallStaysIn(mcall[d], StoredFiles)
      BY <2>2, <1>1, <1>3 DEF MediaFilesStored
    <3> QED BY <3>1, <1>2 DEF CallStaysIn
  <2> QED BY <2>1, <2>2
<1>5. MediaFilesStored'
  BY <1>3, <1>4 DEF MediaFilesStored
<1> QED BY <1>5, MediaSparesTextures DEF AssetsInv

(* The same for the steps that draw no revision.                             *)
LEMMA OldFilesKeepInv ==
    ASSUME AssetsInv, NEW c \in MCalls, NEW k \in MediaCall,
           mcall' = [mcall EXCEPT ![c] = k], CallStaysIn(k, StoredFiles),
           media' \subseteq Row, \A r \in media' : r.file \in StoredFiles,
           UNCHANGED <<stored, written, tex, owned, tcall>>,
           disk' \subseteq disk, disk \ StoredFiles \subseteq disk',
           torn \subseteq torn', torn' \subseteq torn \cup StoredFiles
    PROVE  AssetsInv'
<1>1. MediaFilesStored /\ TextureTypeOK
  BY DEF AssetsInv, TextureRowsHaveFiles
<1>2. StoredFiles' = StoredFiles /\ StoredFiles \subseteq written
  BY <1>1 DEF StoredFiles, MediaFilesStored
<1>3. /\ CallStaysIn(k, StoredFiles') /\ \A r \in media' : r.file \in StoredFiles'
      /\ stored \subseteq stored' /\ stored' \subseteq Clients \X Files
      /\ StoredFiles' \subseteq written' /\ StoredFiles' \cap written \subseteq StoredFiles
  BY <1>1, <1>2 DEF MediaFilesStored
<1>4. /\ written \subseteq written' /\ written' \subseteq Files /\ disk' \subseteq written'
      /\ torn' \subseteq written'
  BY <1>1, <1>2 DEF TextureTypeOK
<1> QED BY <1>3, <1>4, MediaMoveKeepsInv

LEMMA MediaStepKeepsInv ==
    ASSUME AssetsInv, MediaNext, UNCHANGED <<tex, owned, tcall>>
    PROVE  AssetsInv'
<1>1. MediaFilesStored /\ TextureTypeOK
  BY DEF AssetsInv, TextureRowsHaveFiles
<1>2. MIdle \in MediaCall /\ CallStaysIn(MIdle, StoredFiles)
  BY DEF MIdle, MediaCall, CallStaysIn
<1>3. media \subseteq Row /\ \A r \in media : r.file \in StoredFiles
  BY <1>1 DEF MediaFilesStored
<1>4. \A c \in MCalls : mcall[c] \in MediaCall /\ CallStaysIn(mcall[c], StoredFiles)
  BY <1>1 DEF MediaFilesStored
<1>5. ASSUME NEW c \in MCalls, NEW k \in Clients, NEW role \in Roles, MediaBegin(c, k, role)
      PROVE  AssetsInv'
  <2> DEFINE m == [pc |-> "body", client |-> k, role |-> role]
  <2>1. m \in MediaCall /\ CallStaysIn(m, StoredFiles)
    BY DEF MediaCall, CallStaysIn
  <2>2. /\ mcall' = [mcall EXCEPT ![c] = m]
        /\ UNCHANGED <<media, stored, disk, written, torn>>
    BY <1>5 DEF MediaBegin
  <2> HIDE DEF m
  <2> QED BY <2>1, <2>2, <1>3, OldFilesKeepInv
<1>6. ASSUME NEW c \in MCalls, NEW f \in Files, MediaWrite(c, f) PROVE AssetsInv'
  <2> DEFINE row == [client |-> mcall[c].client, role |-> mcall[c].role, file |-> f]
             m == IF row.role \in SingularRoles
                    THEN [pc |-> "delete", row |-> row]
                    ELSE [pc |-> "insert", row |-> row, gone |-> {}]
  <2>1. mcall[c].client \in Clients /\ mcall[c].role \in Roles
    BY <1>4, <1>6 DEF MediaWrite, MediaCall, MIdle
  <2>2. /\ mcall' = [mcall EXCEPT ![c] = m] /\ stored' = stored \cup {<<mcall[c].client, f>>}
        /\ f \notin written /\ written' = written \cup {f} /\ disk' = disk \cup {f}
        /\ UNCHANGED <<media, torn>>
    BY <1>6 DEF MediaWrite, WriteFile
  <2>3. StoredFiles' = StoredFiles \cup {f}
    <3>1. StoredFiles' \subseteq StoredFiles \cup {f}
      BY <2>2 DEF StoredFiles
    <3>2. StoredFiles \subseteq StoredFiles'
      BY <2>2 DEF StoredFiles
    <3>3. f \in StoredFiles'
      <4> DEFINE p == <<mcall[c].client, f>>
      <4>1. p \in stored' /\ p[2] = f
        BY <2>2
      <4> HIDE DEF p
      <4> QED BY <4>1 DEF StoredFiles
    <3> QED BY <3>1, <3>2, <3>3
  <2>4. row \in Row /\ row.file = f
    BY <2>1 DEF Row
  <2> HIDE DEF row
  <2>5. m \in MediaCall /\ CallStaysIn(m, StoredFiles')
    <3>1. CASE row.role \in SingularRoles
      BY <3>1, <2>3, <2>4 DEF MediaCall, CallStaysIn
    <3>2. CASE row.role \notin SingularRoles
      BY <3>2, <2>3, <2>4 DEF MediaCall, CallStaysIn
    <3> QED BY <3>1, <3>2
  <2> HIDE DEF m
  <2>6. /\ stored \subseteq stored' /\ stored' \subseteq Clients \X Files
        /\ StoredFiles' \subseteq written' /\ StoredFiles' \cap written \subseteq StoredFiles
    BY <1>1, <2>1, <2>2, <2>3 DEF MediaFilesStored
  <2>7. /\ written \subseteq written' /\ written' \subseteq Files /\ disk' \subseteq written'
        /\ disk \ StoredFiles \subseteq disk' /\ torn \subseteq torn' /\ torn' \subseteq written'
    BY <1>1, <2>2 DEF TextureTypeOK
  <2>8. media' \subseteq Row /\ \A r \in media' : r.file \in StoredFiles'
    BY <1>3, <2>2, <2>3
  <2> QED BY <2>2, <2>5, <2>6, <2>7, <2>8, MediaMoveKeepsInv
<1>7. ASSUME NEW c \in MCalls, MediaDeleteStarts(c) PROVE AssetsInv'
  <2> DEFINE m == [pc |-> "deleting", row |-> mcall[c].row, snap |-> InRole(mcall[c].row)]
  <2>1. mcall[c].row \in Row /\ mcall[c].row.file \in StoredFiles
    BY <1>4, <1>7 DEF MediaDeleteStarts, MediaCall, MIdle, CallStaysIn
  <2>2. InRole(mcall[c].row) \subseteq media
    BY DEF InRole
  <2>3. m \in MediaCall /\ CallStaysIn(m, StoredFiles)
    BY <2>1, <2>2, <1>3 DEF MediaCall, CallStaysIn
  <2>4. mcall' = [mcall EXCEPT ![c] = m] /\ UNCHANGED <<media, stored, disk, written, torn>>
    BY <1>7 DEF MediaDeleteStarts, storageVars
  <2> HIDE DEF m
  <2> QED BY <2>3, <2>4, <1>3, OldFilesKeepInv
<1>8. ASSUME NEW c \in MCalls, MediaDelete(c) PROVE AssetsInv'
  <2> DEFINE m == [pc |-> "unlink", row |-> mcall[c].row, gone |-> deletes(mcall[c].snap)]
  <2>1. mcall[c].row \in Row /\ mcall[c].row.file \in StoredFiles
    BY <1>4, <1>8 DEF MediaDelete, MediaCall, MIdle, CallStaysIn
  <2>2. deletes(mcall[c].snap) \subseteq media
    BY DEF deletes
  <2>3. m \in MediaCall /\ CallStaysIn(m, StoredFiles)
    BY <2>1, <2>2, <1>3 DEF MediaCall, CallStaysIn
  <2>4. mcall' = [mcall EXCEPT ![c] = m] /\ UNCHANGED <<media, stored, disk, written, torn>>
    BY <1>8 DEF MediaDelete, storageVars
  <2> HIDE DEF m
  <2> QED BY <2>3, <2>4, <1>3, OldFilesKeepInv
<1>9. ASSUME NEW c \in MCalls, MediaUnlink(c) PROVE AssetsInv'
  <2> DEFINE m == [pc |-> "insert", row |-> mcall[c].row, gone |-> mcall[c].gone]
  <2>1. /\ mcall[c].row \in Row /\ mcall[c].row.file \in StoredFiles
        /\ mcall[c].gone \subseteq Row /\ \A r \in mcall[c].gone : r.file \in StoredFiles
    BY <1>4, <1>9 DEF MediaUnlink, MediaCall, MIdle, CallStaysIn
  <2>2. m \in MediaCall /\ CallStaysIn(m, StoredFiles)
    BY <2>1 DEF MediaCall, CallStaysIn
  <2>3. /\ mcall' = [mcall EXCEPT ![c] = m] /\ UNCHANGED <<media, stored, written, torn>>
        /\ disk' = disk \ {r.file : r \in mcall[c].gone}
    BY <1>9 DEF MediaUnlink, UnlinkQuiet
  <2>4. disk' \subseteq disk /\ disk \ StoredFiles \subseteq disk'
    BY <2>1, <2>3
  <2> HIDE DEF m
  <2> QED BY <2>2, <2>3, <2>4, <1>3, OldFilesKeepInv
<1>10. ASSUME NEW c \in MCalls, MediaCommit(c) PROVE AssetsInv'
  <2>1. /\ mcall[c].row \in Row /\ mcall[c].row.file \in StoredFiles
        /\ \A r \in mcall[c].gone : r.file \in StoredFiles
    BY <1>4, <1>10 DEF MediaCommit, MediaCall, MIdle, CallStaysIn
  <2>2. /\ mcall' = [mcall EXCEPT ![c] = MIdle] /\ UNCHANGED <<stored, disk, written>>
        /\ \/ media' = (media \ mcall[c].gone) \cup {mcall[c].row} /\ torn' = torn
           \/ media' = media /\ torn' = torn \cup {r.file : r \in mcall[c].gone}
    BY <1>10 DEF MediaCommit, MDone
  <2>3. media' \subseteq Row /\ \A r \in media' : r.file \in StoredFiles
    BY <2>1, <2>2, <1>3
  <2>4. torn \subseteq torn' /\ torn' \subseteq torn \cup StoredFiles
    BY <2>1, <2>2
  <2>5. UNCHANGED <<stored, written, tex, owned, tcall>> /\ disk' \subseteq disk
        /\ disk \ StoredFiles \subseteq disk' /\ mcall' = [mcall EXCEPT ![c] = MIdle]
    BY <2>2
  <2> QED BY <2>3, <2>4, <2>5, <1>2, OldFilesKeepInv
<1>11. ASSUME NEW c \in MCalls, NEW r \in media, DeleteMedia(c, r) PROVE AssetsInv'
  <2> DEFINE m == [pc |-> "unlink_one", row |-> r]
  <2>1. m \in MediaCall /\ CallStaysIn(m, StoredFiles)
    BY <1>3 DEF MediaCall, CallStaysIn
  <2>2. /\ mcall' = [mcall EXCEPT ![c] = m] /\ media' \subseteq media
        /\ UNCHANGED <<stored, disk, written, torn>>
    BY <1>11 DEF DeleteMedia, deletes_row
  <2> HIDE DEF m
  <2>3. media' \subseteq Row /\ \A q \in media' : q.file \in StoredFiles
    BY <2>2, <1>3
  <2> QED BY <2>1, <2>2, <2>3, OldFilesKeepInv
<1>12. ASSUME NEW c \in MCalls, DeleteMediaFile(c) PROVE AssetsInv'
  <2>1. mcall[c].row.file \in StoredFiles
    BY <1>4, <1>12 DEF DeleteMediaFile, CallStaysIn
  <2>2. /\ mcall' = [mcall EXCEPT ![c] = MIdle] /\ UNCHANGED <<media, stored, written, torn>>
        /\ disk' = disk \ {mcall[c].row.file}
    BY <1>12 DEF DeleteMediaFile, MDone, UnlinkQuiet
  <2>3. disk' \subseteq disk /\ disk \ StoredFiles \subseteq disk'
    BY <2>1, <2>2
  <2> QED BY <2>2, <2>3, <1>2, <1>3, OldFilesKeepInv
<1>13. ASSUME NEW c \in MCalls, NEW k \in Clients, DeleteClientRows(c, k) PROVE AssetsInv'
  <2> DEFINE m == [pc |-> "remove_dir", client |-> k]
  <2>1. m \in MediaCall /\ CallStaysIn(m, StoredFiles)
    BY DEF MediaCall, CallStaysIn
  <2>2. /\ mcall' = [mcall EXCEPT ![c] = m] /\ media' \subseteq media
        /\ UNCHANGED <<stored, disk, written, torn>>
    BY <1>13 DEF DeleteClientRows, rows_cascade
  <2> HIDE DEF m
  <2>3. media' \subseteq Row /\ \A q \in media' : q.file \in StoredFiles
    BY <2>2, <1>3
  <2> QED BY <2>1, <2>2, <2>3, OldFilesKeepInv
<1>14. ASSUME NEW c \in MCalls, RemoveMediaDir(c) PROVE AssetsInv'
  <2>1. FilesOf(mcall[c].client) \subseteq StoredFiles
    BY DEF FilesOf, StoredFiles
  <2>2. /\ mcall' = [mcall EXCEPT ![c] = MIdle] /\ UNCHANGED <<media, stored, written, torn>>
        /\ disk' = disk \ FilesOf(mcall[c].client)
    BY <1>14 DEF RemoveMediaDir, MDone, UnlinkQuiet
  <2>3. disk' \subseteq disk /\ disk \ StoredFiles \subseteq disk'
    BY <2>1, <2>2
  <2> QED BY <2>2, <2>3, <1>2, <1>3, OldFilesKeepInv
<1>15. ASSUME NEW c \in MCalls, DropMedia(c) PROVE AssetsInv'
  <2>1. mcall[c].pc = "insert" => \A r \in mcall[c].gone : r.file \in StoredFiles
    BY <1>4 DEF CallStaysIn
  <2>2. /\ mcall' = [mcall EXCEPT ![c] = MIdle] /\ UNCHANGED <<media, stored, disk, written>>
        /\ torn' = torn \cup (IF mcall[c].pc = "insert" THEN {r.file : r \in mcall[c].gone} ELSE {})
    BY <1>15 DEF DropMedia, MDone
  <2>3. torn \subseteq torn' /\ torn' \subseteq torn \cup StoredFiles
    BY <2>1, <2>2
  <2> QED BY <2>2, <2>3, <1>2, <1>3, OldFilesKeepInv
<1> QED BY <1>5, <1>6, <1>7, <1>8, <1>9, <1>10, <1>11, <1>12, <1>13, <1>14, <1>15 DEF MediaNext

LEMMA NextAssets == AssetsInv /\ [Next]_vars => AssetsInv'
<1> SUFFICES ASSUME AssetsInv, [Next]_vars PROVE AssetsInv'
  OBVIOUS
<1>1. CASE TextureNext /\ UNCHANGED mediaVars
  BY <1>1, TextureStepKeepsInv
<1>2. CASE MediaNext /\ UNCHANGED <<tex, owned, tcall>>
  BY <1>2, MediaStepKeepsInv
<1>3. CASE UNCHANGED vars
  BY <1>3 DEF vars, mediaVars, storageVars, AssetsInv, TextureRowsHaveFiles, TextureTypeOK,
              MediaFilesStored, StoredFiles, TextureFilesOwn, UploadIsPrivate, OneRowPerFile,
              Uploading
<1> QED BY <1>1, <1>2, <1>3 DEF Next

(* Every skin and cape the registry names was written and is still on disk,  *)
(* unless something outside the service took it (upload, delete and purge of *)
(* textures/src, beside every upload and delete of catalog media), for any   *)
(* number of slots, builds, files and overlapping requests.                  *)
THEOREM TexturesSafe == Spec => []TextureRowsHaveFiles
<1>1. AssetsInv => TextureRowsHaveFiles
  BY DEF AssetsInv
<1> QED BY <1>1, InitAssets, NextAssets, PTL DEF Spec

-----------------------------------------------------------------------------
LEMMA MediaFields ==
    ASSUME MediaFilesStored, NEW c \in MCalls
    PROVE  /\ mcall[c].pc = "body" => mcall[c].client \in Clients /\ mcall[c].role \in Roles
           /\ Pending(mcall[c]) \/ mcall[c].pc = "unlink_one" => mcall[c].row \in Row
           /\ mcall[c].pc = "deleting" => mcall[c].snap \subseteq Row
           /\ Holding(mcall[c]) => mcall[c].gone \subseteq Row
<1>1. mcall[c] \in MediaCall
  BY DEF MediaFilesStored
<1> QED BY <1>1 DEF MediaCall, MIdle, Pending, Holding

LEMMA MediaSet ==
    ASSUME MediaFilesStored, NEW c \in MCalls, NEW m, mcall' = [mcall EXCEPT ![c] = m]
    PROVE  mcall'[c] = m /\ \A d \in MCalls \ {c} : mcall'[d] = mcall[d]
BY DEF MediaFilesStored

(* Files that rows and uploads own survive a step on the disk.               *)
DiskKept(fs) == \A f \in fs : f \in disk \cup torn => f \in disk' \cup torn'

(* A texture request unlinks none of them.                                   *)
LEMMA TexturesKeepMedia ==
    ASSUME MediaFilesStored, MediaInv, UNCHANGED mediaVars, DiskKept(StoredFiles)
    PROVE  MediaInv'
<1>1. \A r \in media : r.file \in StoredFiles
  BY DEF MediaFilesStored
<1>2. \A c \in MCalls : Pending(mcall[c]) => mcall[c].row.file \in StoredFiles
  BY DEF MediaFilesStored, CallStaysIn, Pending
<1>3. UNCHANGED <<media, clients, mcall, stored, crowded>>
  BY DEF mediaVars
<1>4. RowsOwnFiles' /\ RowsHeld' /\ SlotsCovered' /\ SingularSlot'
  BY <1>3 DEF MediaInv, RowsOwnFiles, RowsHeld, SlotsCovered, SingularSlot, Holding, Covers, InRole
<1>5. CallsOwnFiles'
  BY <1>2, <1>3 DEF MediaInv, CallsOwnFiles, Pending, DiskKept
<1>6. FilesKept'
  BY <1>1, <1>3 DEF MediaInv, FilesKept, Replaced, DiskKept
<1> QED BY <1>4, <1>5, <1>6 DEF MediaInv

LEMMA TextureStepKeepsMedia ==
    ASSUME AssetsInv, MediaInv, TextureNext, UNCHANGED mediaVars
    PROVE  MediaInv'
<1>1. DiskKept(StoredFiles)
  <2>1. CASE disk \subseteq disk' /\ torn' = torn
    BY <2>1 DEF DiskKept
  <2>2. CASE \E f \in Files : LoseFile(f)
    BY <2>2 DEF LoseFile, DiskKept
  <2>3. CASE \E c \in TCalls : UnlinkOld(c)
    <3>1. PICK c \in TCalls : UnlinkOld(c)
      BY <2>3
    <3>2. tcall[c].old # NoFile => tcall[c].old \notin StoredFiles
      BY DEF AssetsInv, TextureFilesOwn
    <3>3. disk' = disk \ ({tcall[c].old} \ {NoFile, tcall[c].file}) /\ torn' = torn
      BY <3>1 DEF UnlinkOld, UnlinkQuiet, unlinks
    <3> QED BY <3>2, <3>3 DEF DiskKept
  <2>4. \/ disk \subseteq disk' /\ torn' = torn
        \/ \E f \in Files : LoseFile(f)
        \/ \E c \in TCalls : UnlinkOld(c)
    BY DEF TextureNext, UploadWrite, WriteFile, UploadReadOld, UploadUpsert, DeleteTexture,
           PurgeStat, PurgeDelete, PurgeFetch, PurgeCollected, PurgeEnd, DropTexture, DeleteOwner,
           storageVars
  <2> QED BY <2>1, <2>2, <2>3, <2>4
<1> QED BY <1>1, TexturesKeepMedia DEF AssetsInv

(* A media request that starts or ends and leaves the rows alone.            *)
LEMMA QuietMediaStep ==
    ASSUME MediaInv, NEW c \in MCalls, UNCHANGED <<media, clients, stored, crowded>>,
           \A d \in MCalls \ {c} : mcall'[d] = mcall[d], mcall'[c].pc \in {"idle", "body"},
           DiskKept({r.file : r \in media}),
           \A d \in MCalls \ {c} : Pending(mcall[d]) /\ mcall[d].row.client \in clients =>
             DiskKept({mcall[d].row.file}),
           mcall[c].pc = "insert" => \A r \in mcall[c].gone : r.file \in disk' \cup torn'
    PROVE  MediaInv'
<1>1. ~ Pending(mcall'[c]) /\ ~ Holding(mcall'[c])
      /\ mcall'[c].pc \notin {"unlink_one", "remove_dir", "deleting", "unlink", "insert"}
  BY DEF Pending, Holding
<1>2. RowsOwnFiles' /\ SingularSlot'
  BY DEF MediaInv, RowsOwnFiles, SingularSlot
<1>3. CallsOwnFiles'
  <2> SUFFICES ASSUME NEW d \in MCalls, d # c
               PROVE  /\ Pending(mcall[d]) =>
                           /\ <<mcall[d].row.client, mcall[d].row.file>> \in stored
                           /\ mcall[d].row.client \in clients => mcall[d].row.file \in disk' \cup torn'
                           /\ \A e \in MCalls \ {d} : Pending(mcall'[e]) \/ mcall'[e].pc = "unlink_one" =>
                                mcall'[e].row.file # mcall[d].row.file
                      /\ Pending(mcall[d]) \/ mcall[d].pc = "unlink_one" =>
                           \A r \in media : r.file # mcall[d].row.file
                      /\ mcall[d].pc = "remove_dir" => mcall[d].client \notin clients
    BY <1>1 DEF CallsOwnFiles, Pending
  <2>1. Pending(mcall[d]) /\ mcall[d].row.client \in clients => mcall[d].row.file \in disk' \cup torn'
    BY DEF MediaInv, CallsOwnFiles, DiskKept
  <2> QED BY <1>1, <2>1 DEF MediaInv, CallsOwnFiles
<1>4. RowsHeld'
  BY <1>1 DEF MediaInv, RowsHeld, Holding
<1>5. FilesKept'
  <2> SUFFICES ASSUME NEW r \in media PROVE r.file \in disk' \cup torn' \/ Replaced(r)'
    BY DEF FilesKept
  <2>1. CASE r.file \in disk \cup torn
    BY <2>1 DEF DiskKept
  <2>2. CASE Replaced(r)
    BY <2>2 DEF Replaced
  <2> QED BY <2>1, <2>2 DEF MediaInv, FilesKept
<1>6. SlotsCovered'
  BY <1>1 DEF MediaInv, SlotsCovered, Covers, InRole
<1> QED BY <1>2, <1>3, <1>4, <1>5, <1>6 DEF MediaInv

LEMMA MediaBeginKeeps ==
    ASSUME AssetsInv, MediaInv, NEW c \in MCalls, NEW k \in Clients, NEW role \in Roles,
           MediaBegin(c, k, role)
    PROVE  MediaInv'
<1> DEFINE m == [pc |-> "body", client |-> k, role |-> role]
<1>1. mcall' = [mcall EXCEPT ![c] = m] /\ m.pc = "body" /\ mcall[c].pc # "insert"
  BY DEF MediaBegin, MIdle
<1> HIDE DEF m
<1>2. mcall'[c] = m /\ \A d \in MCalls \ {c} : mcall'[d] = mcall[d]
  BY <1>1, MediaSet DEF AssetsInv
<1>3. UNCHANGED <<media, clients, stored, crowded, disk, torn>>
  BY DEF MediaBegin
<1> QED BY <1>1, <1>2, <1>3, QuietMediaStep DEF DiskKept

LEMMA DeleteMediaFileKeeps ==
    ASSUME AssetsInv, MediaInv, NEW c \in MCalls, DeleteMediaFile(c)
    PROVE  MediaInv'
<1>1. /\ mcall[c].pc = "unlink_one" /\ mcall' = [mcall EXCEPT ![c] = MIdle] /\ MIdle.pc = "idle"
      /\ UNCHANGED <<media, clients, stored, crowded, torn>> /\ disk' = disk \ {mcall[c].row.file}
  BY DEF DeleteMediaFile, MDone, UnlinkQuiet, MIdle
<1>2. mcall'[c] = MIdle /\ \A d \in MCalls \ {c} : mcall'[d] = mcall[d]
  BY <1>1, MediaSet DEF AssetsInv
<1>3. /\ \A r \in media : r.file # mcall[c].row.file
      /\ \A d \in MCalls \ {c} : Pending(mcall[d]) => mcall[d].row.file # mcall[c].row.file
  BY <1>1 DEF MediaInv, CallsOwnFiles
<1>4. /\ DiskKept({r.file : r \in media})
      /\ \A d \in MCalls \ {c} : Pending(mcall[d]) => DiskKept({mcall[d].row.file})
  BY <1>1, <1>3 DEF DiskKept
<1> QED BY <1>1, <1>2, <1>4, QuietMediaStep

LEMMA RemoveMediaDirKeeps ==
    ASSUME AssetsInv, MediaInv, NEW c \in MCalls, RemoveMediaDir(c)
    PROVE  MediaInv'
<1> PICK k : k = mcall[c].client
  OBVIOUS
<1>1. /\ mcall[c].pc = "remove_dir" /\ mcall' = [mcall EXCEPT ![c] = MIdle] /\ MIdle.pc = "idle"
      /\ UNCHANGED <<media, clients, stored, crowded, torn>> /\ disk' = disk \ FilesOf(k)
  BY DEF RemoveMediaDir, MDone, UnlinkQuiet, MIdle
<1>2. mcall'[c] = MIdle /\ \A d \in MCalls \ {c} : mcall'[d] = mcall[d]
  BY <1>1, MediaSet DEF AssetsInv
<1>3. k \notin clients
  BY <1>1 DEF MediaInv, CallsOwnFiles
<1>4. ASSUME NEW x, NEW f, x \in clients, <<x, f>> \in stored PROVE f \notin FilesOf(k)
  BY <1>3, <1>4 DEF FilesOf, MediaInv, RowsOwnFiles
<1>5. \A r \in media : r.file \notin FilesOf(k)
  BY <1>4 DEF MediaInv, RowsOwnFiles
<1>6. \A d \in MCalls \ {c} : Pending(mcall[d]) /\ mcall[d].row.client \in clients =>
        mcall[d].row.file \notin FilesOf(k)
  BY <1>4 DEF MediaInv, CallsOwnFiles
<1>7. /\ DiskKept({r.file : r \in media})
      /\ \A d \in MCalls \ {c} : Pending(mcall[d]) /\ mcall[d].row.client \in clients =>
           DiskKept({mcall[d].row.file})
  BY <1>1, <1>5, <1>6 DEF DiskKept
<1> QED BY <1>1, <1>2, <1>7, QuietMediaStep

LEMMA DropMediaKeeps ==
    ASSUME AssetsInv, MediaInv, NEW c \in MCalls, DropMedia(c)
    PROVE  MediaInv'
<1>1. /\ mcall' = [mcall EXCEPT ![c] = MIdle] /\ MIdle.pc = "idle"
      /\ UNCHANGED <<media, clients, stored, crowded, disk>> /\ torn \subseteq torn'
      /\ mcall[c].pc = "insert" => \A r \in mcall[c].gone : r.file \in torn'
  BY DEF DropMedia, MDone, MIdle
<1>2. mcall'[c] = MIdle /\ \A d \in MCalls \ {c} : mcall'[d] = mcall[d]
  BY <1>1, MediaSet DEF AssetsInv
<1> QED BY <1>1, <1>2, QuietMediaStep DEF DiskKept

LEMMA MediaWriteKeeps ==
    ASSUME AssetsInv, MediaInv, NEW c \in MCalls, NEW f \in Files, MediaWrite(c, f)
    PROVE  MediaInv'
<1>a. PICK row : row = [client |-> mcall[c].client, role |-> mcall[c].role, file |-> f]
  OBVIOUS
<1>b. PICK m : m = IF row.role \in SingularRoles THEN [pc |-> "delete", row |-> row]
                 ELSE [pc |-> "insert", row |-> row, gone |-> {}]
  OBVIOUS
<1>1. /\ mcall[c].pc = "body" /\ mcall' = [mcall EXCEPT ![c] = m] /\ f \notin written
      /\ UNCHANGED <<media, clients, crowded, torn>> /\ disk' = disk \cup {f}
      /\ stored' = stored \cup {<<row.client, f>>} /\ row.file = f
  BY <1>a, <1>b DEF MediaWrite, WriteFile
<1>2. mcall'[c] = m /\ \A d \in MCalls \ {c} : mcall'[d] = mcall[d]
  BY <1>1, MediaSet DEF AssetsInv
<1>3. /\ m.row = row /\ Pending(m) /\ m.pc \in {"delete", "insert"}
      /\ m.pc = "insert" => m.gone = {} /\ row.role \notin SingularRoles
  BY <1>b DEF Pending
<1>4. \A p \in stored : p[2] # f
  BY <1>1 DEF AssetsInv, MediaFilesStored, StoredFiles
<1>5. /\ \A r \in media : r.file # f
      /\ \A d \in MCalls : Pending(mcall[d]) \/ mcall[d].pc = "unlink_one" => mcall[d].row.file # f
  BY <1>1 DEF AssetsInv, MediaFilesStored, CallStaysIn, Pending
<1>6. RowsOwnFiles'
  <2>1. \A p, q \in stored' : p[2] = q[2] => p = q
    BY <1>1, <1>4 DEF MediaInv, RowsOwnFiles
  <2> QED BY <2>1, <1>1 DEF MediaInv, RowsOwnFiles
<1>7. CallsOwnFiles'
  <2> SUFFICES ASSUME NEW d \in MCalls
               PROVE  /\ Pending(mcall'[d]) =>
                           /\ <<mcall'[d].row.client, mcall'[d].row.file>> \in stored'
                           /\ mcall'[d].row.client \in clients => mcall'[d].row.file \in disk' \cup torn'
                           /\ \A e \in MCalls \ {d} : Pending(mcall'[e]) \/ mcall'[e].pc = "unlink_one" =>
                                mcall'[e].row.file # mcall'[d].row.file
                      /\ Pending(mcall'[d]) \/ mcall'[d].pc = "unlink_one" =>
                           \A r \in media : r.file # mcall'[d].row.file
                      /\ mcall'[d].pc = "remove_dir" => mcall'[d].client \notin clients
    BY <1>1 DEF CallsOwnFiles, Pending
  <2>1. CASE d = c
    BY <2>1, <1>1, <1>2, <1>3, <1>5
  <2>2. CASE d # c
    <3>1. mcall'[d] = mcall[d]
      BY <2>2, <1>2
    <3>2. \A e \in MCalls \ {d} :
            Pending(mcall[d]) /\ (Pending(mcall'[e]) \/ mcall'[e].pc = "unlink_one") =>
              mcall'[e].row.file # mcall[d].row.file
      <4> SUFFICES ASSUME NEW e \in MCalls \ {d}, Pending(mcall[d]),
                          Pending(mcall'[e]) \/ mcall'[e].pc = "unlink_one"
                   PROVE  mcall'[e].row.file # mcall[d].row.file
        OBVIOUS
      <4>1. CASE e = c
        BY <4>1, <1>1, <1>2, <1>3, <1>5
      <4>2. CASE e # c
        BY <4>2, <1>2 DEF MediaInv, CallsOwnFiles
      <4> QED BY <4>1, <4>2
    <3>3. Pending(mcall[d]) =>
            /\ <<mcall[d].row.client, mcall[d].row.file>> \in stored'
            /\ mcall[d].row.client \in clients => mcall[d].row.file \in disk' \cup torn'
      BY <1>1 DEF MediaInv, CallsOwnFiles
    <3>4. /\ Pending(mcall[d]) \/ mcall[d].pc = "unlink_one" =>
               \A r \in media : r.file # mcall[d].row.file
          /\ mcall[d].pc = "remove_dir" => mcall[d].client \notin clients
      BY DEF MediaInv, CallsOwnFiles
    <3> QED BY <3>1, <3>2, <3>3, <3>4
  <2> QED BY <2>1, <2>2
<1>8. RowsHeld'
  <2>1. \A d \in MCalls : Holding(mcall'[d]) =>
          (d = c /\ mcall'[d].gone = {}) \/ (d # c /\ mcall'[d] = mcall[d])
    BY <1>2, <1>3 DEF Holding
  <2> QED BY <2>1, <1>1 DEF MediaInv, RowsHeld, Holding
<1>9. FilesKept'
  BY <1>1, <1>2 DEF MediaInv, FilesKept, Replaced
<1>10. SlotsCovered' /\ SingularSlot'
  <2>1. SingularSlot'
    BY <1>1 DEF MediaInv, SingularSlot
  <2>2. SlotsCovered'
    BY <1>1, <1>2, <1>3 DEF MediaInv, SlotsCovered, Covers, InRole
  <2> QED BY <2>1, <2>2
<1> QED BY <1>6, <1>7, <1>8, <1>9, <1>10 DEF MediaInv

(* An upload moves on inside its transaction; its row stays what it was.     *)
LEMMA UploadKeepsFiles ==
    ASSUME MediaInv, NEW c \in MCalls, Pending(mcall[c]), Pending(mcall'[c]),
           mcall'[c].row = mcall[c].row, \A d \in MCalls \ {c} : mcall'[d] = mcall[d],
           UNCHANGED <<media, clients, stored, crowded, torn>>,
           \A d \in MCalls : Pending(mcall[d]) => DiskKept({mcall[d].row.file})
    PROVE  RowsOwnFiles' /\ CallsOwnFiles' /\ SingularSlot'
<1>1. RowsOwnFiles' /\ SingularSlot'
  BY DEF MediaInv, RowsOwnFiles, SingularSlot
<1>2. mcall'[c].pc \notin {"unlink_one", "remove_dir"} /\ mcall[c].pc \notin {"unlink_one", "remove_dir"}
  BY DEF Pending
<1>3. \A d \in MCalls : /\ Pending(mcall'[d]) <=> Pending(mcall[d])
                        /\ mcall'[d].pc = "unlink_one" <=> mcall[d].pc = "unlink_one"
                        /\ mcall'[d].pc = "remove_dir" <=> mcall[d].pc = "remove_dir"
                        /\ Pending(mcall[d]) \/ mcall[d].pc = "unlink_one" => mcall'[d].row = mcall[d].row
                        /\ mcall[d].pc = "remove_dir" => mcall'[d].client = mcall[d].client
  BY <1>2
<1>4. \A d \in MCalls : Pending(mcall[d]) /\ mcall[d].row.client \in clients =>
        mcall[d].row.file \in disk' \cup torn'
  BY DEF MediaInv, CallsOwnFiles, DiskKept
<1>5. CallsOwnFiles'
  <2> SUFFICES ASSUME NEW d \in MCalls
               PROVE  /\ Pending(mcall'[d]) =>
                           /\ <<mcall'[d].row.client, mcall'[d].row.file>> \in stored
                           /\ mcall'[d].row.client \in clients => mcall'[d].row.file \in disk' \cup torn'
                           /\ \A e \in MCalls \ {d} : Pending(mcall'[e]) \/ mcall'[e].pc = "unlink_one" =>
                                mcall'[e].row.file # mcall'[d].row.file
                      /\ Pending(mcall'[d]) \/ mcall'[d].pc = "unlink_one" =>
                           \A r \in media : r.file # mcall'[d].row.file
                      /\ mcall'[d].pc = "remove_dir" => mcall'[d].client \notin clients
    BY DEF CallsOwnFiles, Pending
  <2> QED BY <1>3, <1>4 DEF MediaInv, CallsOwnFiles
<1> QED BY <1>1, <1>5

LEMMA MediaDeleteStartsKeeps ==
    ASSUME AssetsInv, MediaInv, NEW c \in MCalls, MediaDeleteStarts(c)
    PROVE  MediaInv'
<1> PICK m : m = [pc |-> "deleting", row |-> mcall[c].row, snap |-> InRole(mcall[c].row)]
  OBVIOUS
<1>1. /\ mcall[c].pc = "delete" /\ mcall' = [mcall EXCEPT ![c] = m]
      /\ UNCHANGED <<media, clients, stored, crowded, disk, torn>>
  BY DEF MediaDeleteStarts, storageVars
<1>2. mcall'[c] = m /\ \A d \in MCalls \ {c} : mcall'[d] = mcall[d]
  BY <1>1, MediaSet DEF AssetsInv
<1>3. /\ Pending(mcall[c]) /\ Pending(m) /\ m.row = mcall[c].row /\ m.pc = "deleting" /\ ~ Holding(m)
      /\ m.snap = InRole(m.row)
  BY <1>1 DEF Pending, Holding
<1>4. RowsOwnFiles' /\ CallsOwnFiles' /\ SingularSlot'
  BY <1>1, <1>2, <1>3, UploadKeepsFiles DEF DiskKept
<1>5. RowsHeld'
  BY <1>1, <1>2, <1>3 DEF MediaInv, RowsHeld, Holding
<1>6. FilesKept'
  BY <1>1, <1>2 DEF MediaInv, FilesKept, Replaced
<1>7. SlotsCovered'
  BY <1>1, <1>2, <1>3 DEF MediaInv, SlotsCovered, Covers, InRole
<1> QED BY <1>4, <1>5, <1>6, <1>7 DEF MediaInv

LEMMA LockedHeld ==
    ASSUME NEW c \in MCalls, Holding(mcall[c])
    PROVE  mcall[c].gone \subseteq Locked
BY DEF Locked, Holding

LEMMA MediaDeleteKeeps ==
    ASSUME AssetsInv, MediaInv, NEW c \in MCalls, MediaDelete(c)
    PROVE  MediaInv'
<1> PICK m : m = [pc |-> "unlink", row |-> mcall[c].row, gone |-> mcall[c].snap \cap media]
  OBVIOUS
<1>1. /\ mcall[c].pc = "deleting" /\ mcall' = [mcall EXCEPT ![c] = m]
      /\ mcall[c].snap \cap Locked = {}
      /\ UNCHANGED <<media, clients, stored, crowded, disk, torn>>
  BY DEF MediaDelete, storageVars, deletes
<1>2. mcall'[c] = m /\ \A d \in MCalls \ {c} : mcall'[d] = mcall[d]
  BY <1>1, MediaSet DEF AssetsInv
<1>3. /\ Pending(mcall[c]) /\ Pending(m) /\ m.row = mcall[c].row /\ m.pc = "unlink"
      /\ m.gone = mcall[c].snap \cap media
  BY <1>1 DEF Pending
<1>4. RowsOwnFiles' /\ CallsOwnFiles' /\ SingularSlot'
  BY <1>1, <1>2, <1>3, UploadKeepsFiles DEF DiskKept
<1>5. RowsHeld'
  <2>1. \A r \in m.gone : r.client = m.row.client /\ r.role = m.row.role
    BY <1>1, <1>3 DEF MediaInv, SlotsCovered
  <2>2. \A d \in MCalls \ {c} : Holding(mcall[d]) => mcall[d].gone \cap m.gone = {}
    BY <1>1, <1>3, LockedHeld
  <2> QED BY <2>1, <2>2, <1>1, <1>2, <1>3 DEF MediaInv, RowsHeld
<1>6. FilesKept'
  BY <1>1, <1>2 DEF MediaInv, FilesKept, Replaced
<1>7. SlotsCovered'
  <2>1. m.row.role \in SingularRoles =>
         \A r \in InRole(m.row) : r \in m.gone \/ <<m.row.client, m.row.role>> \in crowded
    BY <1>1, <1>3 DEF MediaInv, SlotsCovered, Covers, InRole
  <2> QED BY <2>1, <1>1, <1>2, <1>3 DEF MediaInv, SlotsCovered, Covers, InRole
<1> QED BY <1>4, <1>5, <1>6, <1>7 DEF MediaInv

LEMMA MediaUnlinkKeeps ==
    ASSUME AssetsInv, MediaInv, NEW c \in MCalls, MediaUnlink(c)
    PROVE  MediaInv'
<1> PICK m : m = [pc |-> "insert", row |-> mcall[c].row, gone |-> mcall[c].gone]
  OBVIOUS
<1>1. /\ mcall[c].pc = "unlink" /\ mcall' = [mcall EXCEPT ![c] = m]
      /\ UNCHANGED <<media, clients, stored, crowded, torn>>
      /\ disk' = disk \ {r.file : r \in m.gone}
  BY DEF MediaUnlink, UnlinkQuiet
<1>2. mcall'[c] = m /\ \A d \in MCalls \ {c} : mcall'[d] = mcall[d]
  BY <1>1, MediaSet DEF AssetsInv
<1>3. /\ Pending(mcall[c]) /\ Pending(m) /\ m.row = mcall[c].row /\ m.pc = "insert"
      /\ m.gone = mcall[c].gone /\ Holding(mcall[c]) /\ Holding(m)
  BY <1>1 DEF Pending, Holding
<1>4. m.gone \subseteq media
  BY <1>3 DEF MediaInv, RowsHeld
<1>5. \A d \in MCalls : Pending(mcall[d]) => DiskKept({mcall[d].row.file})
  BY <1>1, <1>4 DEF MediaInv, CallsOwnFiles, DiskKept
<1>6. RowsOwnFiles' /\ CallsOwnFiles' /\ SingularSlot'
  BY <1>1, <1>2, <1>3, <1>5, UploadKeepsFiles
<1>7. RowsHeld'
  <2>1. \A d \in MCalls : (Holding(mcall'[d]) <=> Holding(mcall[d]))
          /\ (Holding(mcall[d]) => mcall'[d].gone = mcall[d].gone /\ mcall'[d].row = mcall[d].row)
    BY <1>2, <1>3
  <2> QED BY <2>1, <1>1 DEF MediaInv, RowsHeld, Holding
<1>8. FilesKept'
  <2> SUFFICES ASSUME NEW r \in media PROVE r.file \in disk' \cup torn' \/ Replaced(r)'
    BY <1>1 DEF FilesKept
  <2>1. CASE r \in m.gone
    BY <2>1, <1>2, <1>3 DEF Replaced
  <2>2. CASE r \notin m.gone
    <3>1. \A q \in m.gone : q.file # r.file
      BY <2>2, <1>4 DEF MediaInv, RowsOwnFiles
    <3>2. Replaced(r) => Replaced(r)'
      BY <1>1, <1>2 DEF Replaced
    <3> QED BY <3>1, <3>2, <1>1 DEF MediaInv, FilesKept
  <2> QED BY <2>1, <2>2
<1>9. SlotsCovered'
  BY <1>1, <1>2, <1>3 DEF MediaInv, SlotsCovered, Covers, InRole
<1> QED BY <1>6, <1>7, <1>8, <1>9 DEF MediaInv

LEMMA MediaCommitKeeps ==
    ASSUME AssetsInv, MediaInv, NEW c \in MCalls, MediaCommit(c)
    PROVE  MediaInv'
<1>a. PICK k : k = mcall[c]
  OBVIOUS
<1>b. PICK slot : slot = <<k.row.client, k.row.role>>
  OBVIOUS
<1>1. /\ k.pc = "insert" /\ mcall' = [mcall EXCEPT ![c] = MIdle] /\ MIdle.pc = "idle"
      /\ UNCHANGED <<clients, stored, disk>>
  BY <1>a DEF MediaCommit, MDone, MIdle
<1>2. mcall'[c] = MIdle /\ \A d \in MCalls \ {c} : mcall'[d] = mcall[d]
  BY <1>1, MediaSet DEF AssetsInv
<1>3. CASE k.row.client \notin clients
  <2>1. UNCHANGED <<media, crowded>> /\ torn' = torn \cup {r.file : r \in k.gone}
    BY <1>3, <1>a DEF MediaCommit
  <2> QED BY <2>1, <1>1, <1>2, <1>a, QuietMediaStep DEF DiskKept
<1>4. CASE k.row.client \in clients
  <2>1. /\ media' = (media \ k.gone) \cup {k.row} /\ torn' = torn
        /\ crowded' = IF Overlaps(c) THEN crowded \cup {slot}
                      ELSE IF k.gone = InRole(k.row) THEN crowded \ {slot} ELSE crowded
    BY <1>4, <1>a, <1>b DEF MediaCommit
  <2>2. /\ Pending(k) /\ Holding(k) /\ ~ Pending(mcall'[c]) /\ ~ Holding(mcall'[c])
        /\ mcall'[c].pc = "idle"
    BY <1>1, <1>2 DEF Pending, Holding
  <2>3. /\ <<k.row.client, k.row.file>> \in stored /\ k.row.file \in disk \cup torn
        /\ \A d \in MCalls \ {c} : Pending(mcall[d]) \/ mcall[d].pc = "unlink_one" =>
             mcall[d].row.file # k.row.file
        /\ \A r \in media : r.file # k.row.file
    BY <2>2, <1>a, <1>4 DEF MediaInv, CallsOwnFiles
  <2>4. /\ k.gone \subseteq media
        /\ \A r \in k.gone : r.client = k.row.client /\ r.role = k.row.role
        /\ \A d \in MCalls \ {c} : Holding(mcall[d]) => k.gone \cap mcall[d].gone = {}
    BY <2>2, <1>a DEF MediaInv, RowsHeld
  <2>5. RowsOwnFiles'
    BY <2>1, <2>3, <1>1, <1>4 DEF MediaInv, RowsOwnFiles
  <2>6. CallsOwnFiles'
    <3> SUFFICES ASSUME NEW d \in MCalls, d # c
                 PROVE  /\ Pending(mcall[d]) =>
                             /\ <<mcall[d].row.client, mcall[d].row.file>> \in stored
                             /\ mcall[d].row.client \in clients => mcall[d].row.file \in disk \cup torn
                             /\ \A e \in MCalls \ {d} : Pending(mcall'[e]) \/ mcall'[e].pc = "unlink_one" =>
                                  mcall'[e].row.file # mcall[d].row.file
                        /\ Pending(mcall[d]) \/ mcall[d].pc = "unlink_one" =>
                             \A r \in media' : r.file # mcall[d].row.file
                        /\ mcall[d].pc = "remove_dir" => mcall[d].client \notin clients
      BY <1>1, <1>2, <2>1, <2>2 DEF CallsOwnFiles, Pending
    <3>1. \A e \in MCalls \ {d} : Pending(mcall'[e]) \/ mcall'[e].pc = "unlink_one" =>
            mcall'[e] = mcall[e]
      BY <1>2, <2>2
    <3>2. Pending(mcall[d]) \/ mcall[d].pc = "unlink_one" => \A r \in media' : r.file # mcall[d].row.file
      BY <2>1, <2>3 DEF MediaInv, CallsOwnFiles
    <3> QED BY <3>1, <3>2 DEF MediaInv, CallsOwnFiles
  <2>7. RowsHeld'
    BY <2>1, <2>2, <2>4, <1>2 DEF MediaInv, RowsHeld, Holding
  <2>8. FilesKept'
    <3> SUFFICES ASSUME NEW r \in media', r.file \notin disk \cup torn PROVE Replaced(r)'
      BY <1>1, <2>1 DEF FilesKept
    <3>1. r \in media /\ r \notin k.gone
      BY <2>1, <2>3
    <3>2. PICK d \in MCalls : mcall[d].pc = "insert" /\ r \in mcall[d].gone
      BY <3>1 DEF MediaInv, FilesKept, Replaced
    <3>3. d # c
      BY <3>1, <3>2, <1>a
    <3> QED BY <3>2, <3>3, <1>2 DEF Replaced
  <2>9. /\ \A x, y : <<x, y>> \in crowded /\ <<x, y>> # slot => <<x, y>> \in crowded'
        /\ Overlaps(c) => crowded \subseteq crowded' /\ slot \in crowded'
    BY <2>1
  <2>10. ASSUME NEW d \in MCalls \ {c}, mcall[d].pc \in {"deleting", "unlink", "insert"},
                <<mcall[d].row.client, mcall[d].row.role>> = slot
         PROVE  Overlaps(c)
    BY <2>10, <1>a, <1>b DEF Overlaps
  <2>11. SlotsCovered'
    <3> SUFFICES ASSUME NEW d \in MCalls \ {c}, mcall[d].pc \in {"deleting", "unlink", "insert"},
                        mcall[d].row.role \in SingularRoles,
                        NEW r \in InRole(mcall[d].row)', ~ Covers(mcall[d], r)
                 PROVE  <<mcall[d].row.client, mcall[d].row.role>> \in crowded'
      BY <1>2, <2>2 DEF MediaInv, SlotsCovered, Covers, InRole
    <3>1. r \in media' /\ r.client = mcall[d].row.client /\ r.role = mcall[d].row.role
      BY <1>2 DEF InRole
    <3>2. CASE <<mcall[d].row.client, mcall[d].row.role>> = slot
      BY <3>2, <2>9, <2>10
    <3>3. CASE <<mcall[d].row.client, mcall[d].row.role>> # slot
      <4>1. r \in InRole(mcall[d].row)
        BY <3>1, <3>3, <2>1, <1>b DEF InRole
      <4> QED BY <4>1, <3>3, <2>9 DEF MediaInv, SlotsCovered
    <3> QED BY <3>2, <3>3
  <2>12. SingularSlot'
    <3> SUFFICES ASSUME NEW r \in media', NEW q \in media', r.client = q.client, r.role = q.role,
                        r.role \in SingularRoles, r # q
                 PROVE  <<r.client, r.role>> \in crowded'
      BY DEF SingularSlot
    <3>1. CASE <<r.client, r.role>> # slot
      <4>1. r \in media /\ q \in media
        BY <3>1, <2>1, <1>b
      <4> QED BY <4>1, <3>1, <2>9 DEF MediaInv, SingularSlot
    <3>2. CASE <<r.client, r.role>> = slot /\ ~ Overlaps(c)
      <4>1. r.client = k.row.client /\ r.role = k.row.role
        BY <3>2, <1>b
      <4>2. PICK o \in {r, q} : o # k.row
        OBVIOUS
      <4>3. o \in InRole(k.row) /\ o \notin k.gone
        BY <4>1, <4>2, <2>1 DEF InRole
      <4>4. crowded' = crowded
        BY <4>3, <3>2, <2>1
      <4>5. slot \in crowded
        BY <4>1, <4>3, <1>a, <1>b, <1>1 DEF MediaInv, SlotsCovered, Covers
      <4> QED BY <4>4, <4>5, <3>2
    <3> QED BY <3>1, <3>2, <2>9
  <2> QED BY <2>5, <2>6, <2>7, <2>8, <2>11, <2>12 DEF MediaInv
<1> QED BY <1>3, <1>4

(* Rows that no transaction holds go, and a request that did nothing yet goes *)
(* on to their files.                                                        *)
LEMMA FewerMediaKeep ==
    ASSUME MediaInv, NEW c \in MCalls, mcall[c].pc = "idle",
           \A d \in MCalls \ {c} : mcall'[d] = mcall[d], mcall'[c].pc \in {"unlink_one", "remove_dir"},
           UNCHANGED <<stored, crowded, disk, torn>>,
           media' \subseteq media, Locked \cap media \subseteq media', clients' \subseteq clients,
           \A r \in media' : r.client \in clients',
           mcall'[c].pc = "unlink_one" =>
             mcall'[c].row \in media /\ mcall'[c].row \notin media',
           mcall'[c].pc = "remove_dir" => mcall'[c].client \notin clients'
    PROVE  MediaInv'
<1>1. ~ Pending(mcall'[c]) /\ ~ Holding(mcall'[c]) /\ ~ Pending(mcall[c]) /\ ~ Holding(mcall[c])
  BY DEF Pending, Holding
<1>2. RowsOwnFiles'
  BY DEF MediaInv, RowsOwnFiles
<1>3. SingularSlot'
  BY DEF MediaInv, SingularSlot
<1>4. mcall'[c].pc = "unlink_one" =>
        /\ \A r \in media' : r.file # mcall'[c].row.file
        /\ \A d \in MCalls \ {c} : Pending(mcall[d]) => mcall'[c].row.file # mcall[d].row.file
  <2>1. mcall'[c].pc = "unlink_one" => \A r \in media' : r.file # mcall'[c].row.file
    BY DEF MediaInv, RowsOwnFiles
  <2> QED BY <2>1 DEF MediaInv, CallsOwnFiles
<1>5. CallsOwnFiles'
  <2> SUFFICES ASSUME NEW d \in MCalls
               PROVE  /\ Pending(mcall'[d]) =>
                           /\ <<mcall'[d].row.client, mcall'[d].row.file>> \in stored
                           /\ mcall'[d].row.client \in clients' => mcall'[d].row.file \in disk \cup torn
                           /\ \A e \in MCalls \ {d} : Pending(mcall'[e]) \/ mcall'[e].pc = "unlink_one" =>
                                mcall'[e].row.file # mcall'[d].row.file
                      /\ Pending(mcall'[d]) \/ mcall'[d].pc = "unlink_one" =>
                           \A r \in media' : r.file # mcall'[d].row.file
                      /\ mcall'[d].pc = "remove_dir" => mcall'[d].client \notin clients'
    BY DEF CallsOwnFiles, Pending
  <2>1. CASE d = c
    BY <2>1, <1>1, <1>4
  <2>2. CASE d # c
    <3>1. mcall'[d] = mcall[d]
      BY <2>2
    <3>2. ASSUME NEW e \in MCalls \ {d}, Pending(mcall[d]),
                 Pending(mcall'[e]) \/ mcall'[e].pc = "unlink_one"
          PROVE  mcall'[e].row.file # mcall[d].row.file
      <4>1. CASE e = c
        BY <4>1, <3>2, <2>2, <1>1, <1>4
      <4>2. CASE e # c
        BY <4>2, <3>2 DEF MediaInv, CallsOwnFiles
      <4> QED BY <4>1, <4>2
    <3> QED BY <3>1, <3>2 DEF MediaInv, CallsOwnFiles
  <2> QED BY <2>1, <2>2
<1>6. RowsHeld'
  <2>1. \A d \in MCalls \ {c} : Holding(mcall[d]) => mcall[d].gone \subseteq media'
    BY LockedHeld DEF MediaInv, RowsHeld
  <2> QED BY <2>1, <1>1 DEF MediaInv, RowsHeld, Holding
<1>7. FilesKept'
  BY <1>1 DEF MediaInv, FilesKept, Replaced
<1>8. SlotsCovered'
  BY <1>1 DEF MediaInv, SlotsCovered, Covers, InRole
<1> QED BY <1>2, <1>3, <1>5, <1>6, <1>7, <1>8 DEF MediaInv

LEMMA DeleteMediaKeeps ==
    ASSUME AssetsInv, MediaInv, NEW c \in MCalls, NEW r \in media, DeleteMedia(c, r)
    PROVE  MediaInv'
<1>a. PICK m : m = [pc |-> "unlink_one", row |-> r]
  OBVIOUS
<1>1. /\ mcall[c].pc = "idle" /\ mcall' = [mcall EXCEPT ![c] = m] /\ r \notin Locked
      /\ UNCHANGED <<clients, stored, crowded, disk, torn>> /\ media' = media \ {r}
  BY <1>a DEF DeleteMedia, MIdle, deletes_row
<1>2. mcall'[c] = m /\ \A d \in MCalls \ {c} : mcall'[d] = mcall[d]
  BY <1>1, MediaSet DEF AssetsInv
<1>3. m.pc = "unlink_one" /\ m.row = r
  BY <1>a
<1>4. \A q \in media' : q.client \in clients'
  BY <1>1 DEF MediaInv, RowsOwnFiles
<1>5. Locked \cap media \subseteq media' /\ media' \subseteq media /\ clients' \subseteq clients
  BY <1>1
<1> QED BY <1>1, <1>2, <1>3, <1>4, <1>5, FewerMediaKeep

LEMMA DeleteClientRowsKeeps ==
    ASSUME AssetsInv, MediaInv, NEW c \in MCalls, NEW k \in Clients, DeleteClientRows(c, k)
    PROVE  MediaInv'
<1>a. PICK m : m = [pc |-> "remove_dir", client |-> k]
  OBVIOUS
<1>1. /\ mcall[c].pc = "idle" /\ mcall' = [mcall EXCEPT ![c] = m]
      /\ \A r \in Locked : r.client # k
      /\ UNCHANGED <<stored, crowded, disk, torn>> /\ clients' = clients \ {k}
      /\ media' = {r \in media : r.client # k}
  BY <1>a DEF DeleteClientRows, MIdle, rows_cascade
<1>2. mcall'[c] = m /\ \A d \in MCalls \ {c} : mcall'[d] = mcall[d]
  BY <1>1, MediaSet DEF AssetsInv
<1>3. m.pc = "remove_dir" /\ m.client = k
  BY <1>a
<1>4. \A q \in media' : q.client \in clients'
  BY <1>1 DEF MediaInv, RowsOwnFiles
<1>5. Locked \cap media \subseteq media' /\ media' \subseteq media /\ clients' \subseteq clients
  BY <1>1
<1> QED BY <1>1, <1>2, <1>3, <1>4, <1>5, FewerMediaKeep

LEMMA InitMedia == Init => MediaInv
<1> SUFFICES ASSUME Init PROVE MediaInv
  OBVIOUS
<1>1. /\ media = {} /\ clients = Clients /\ stored = {}
      /\ \A c \in MCalls : mcall[c].pc = "idle"
  BY DEF Init, MediaInit, MIdle
<1>2. RowsOwnFiles /\ FilesKept /\ SingularSlot
  BY <1>1 DEF RowsOwnFiles, FilesKept, SingularSlot
<1>3. CallsOwnFiles /\ RowsHeld /\ SlotsCovered
  BY <1>1 DEF CallsOwnFiles, RowsHeld, SlotsCovered, Pending, Holding
<1> QED BY <1>2, <1>3 DEF MediaInv

LEMMA NextMedia == AssetsInv /\ MediaInv /\ [Next]_vars => MediaInv'
<1> SUFFICES ASSUME AssetsInv, MediaInv, [Next]_vars PROVE MediaInv'
  OBVIOUS
<1>1. CASE TextureNext /\ UNCHANGED mediaVars
  BY <1>1, TextureStepKeepsMedia
<1>2. CASE MediaNext
  BY <1>2, MediaBeginKeeps, MediaWriteKeeps, MediaDeleteStartsKeeps, MediaDeleteKeeps,
     MediaUnlinkKeeps, MediaCommitKeeps, DeleteMediaKeeps, DeleteClientRowsKeeps,
     DeleteMediaFileKeeps, RemoveMediaDirKeeps, DropMediaKeeps DEF MediaNext
<1>3. CASE UNCHANGED vars
  <2>1. UNCHANGED mediaVars /\ DiskKept(StoredFiles)
    BY <1>3 DEF vars, storageVars, DiskKept
  <2> QED BY <2>1, TexturesKeepMedia DEF AssetsInv
<1> QED BY <1>1, <1>2, <1>3 DEF Next

(* Every step of either store: a file on disk was drawn just now or was there. *)
LEMMA DiskIsOld ==
    ASSUME AssetsInv, [Next]_vars
    PROVE  written \subseteq written' /\ disk' \cap written \subseteq disk
<1>1. CASE TextureNext
  BY <1>1 DEF TextureNext, UploadWrite, WriteFile, UploadReadOld, UploadUpsert, DeleteTexture,
         PurgeStat, PurgeDelete, PurgeFetch, PurgeCollected, PurgeEnd, DropTexture, DeleteOwner,
         UnlinkOld, UnlinkQuiet, LoseFile, storageVars
<1>2. CASE MediaNext
  BY <1>2 DEF MediaNext, MediaBegin, MediaWrite, WriteFile, MediaDeleteStarts, MediaDelete,
         MediaUnlink, MediaCommit, DeleteMedia, DeleteClientRows, DeleteMediaFile, RemoveMediaDir,
         DropMedia, UnlinkQuiet, storageVars
<1>3. CASE UNCHANGED vars
  BY <1>3 DEF vars, storageVars
<1> QED BY <1>1, <1>2, <1>3 DEF Next

(* How a call's list of rows may change in a step.                           *)
ListKept(k, m) == /\ m.pc = k.pc
                  /\ \A s \in Slots : m.rows[s] = k.rows[s] \/ m.rows[s] = NoFile
ListRead(m) == m.pc = "stat" /\ \A s \in Slots : m.rows[s] = tex[s]
ListChecked(k, m) ==
  /\ k.pc = "stat" /\ m.pc = "purge" /\ m.rows = k.rows
  /\ \A s \in Slots : k.rows[s] = NoFile \/ k.rows[s] \notin disk
ListMoves(k, m) ==
  m.pc \notin {"stat", "purge"} \/ ListKept(k, m) \/ ListRead(m) \/ ListChecked(k, m)

LEMMA CallSet ==
    ASSUME AssetsInv, NEW c \in TCalls, NEW m, tcall' = [tcall EXCEPT ![c] = m],
           ListMoves(tcall[c], m)
    PROVE  \A d \in TCalls : ListMoves(tcall[d], tcall'[d])
<1>1. \A d \in TCalls : tcall'[d] = IF d = c THEN m ELSE tcall[d]
  BY DEF AssetsInv, TextureRowsHaveFiles, TextureTypeOK
<1> QED BY <1>1 DEF ListMoves, ListKept

LEMMA ListSteps ==
    ASSUME AssetsInv, [Next]_vars
    PROVE  \A c \in TCalls : ListMoves(tcall[c], tcall'[c])
<1>1. \A c \in TCalls : tcall[c] \in TextureCall
  BY DEF AssetsInv, TextureRowsHaveFiles, TextureTypeOK
<1>2. ASSUME tcall' = tcall PROVE \A c \in TCalls : ListMoves(tcall[c], tcall'[c])
  BY <1>2 DEF ListMoves, ListKept
<1>3. ASSUME NEW c \in TCalls, TDone(c) PROVE \A d \in TCalls : ListMoves(tcall[d], tcall'[d])
  <2>1. ListMoves(tcall[c], TIdle)
    BY DEF TIdle, ListMoves
  <2> QED BY <2>1, <1>3, CallSet DEF TDone
<1>4. ASSUME NEW c \in TCalls, NEW s \in Slots, NEW f \in Files, UploadWrite(c, s, f)
      PROVE  \A d \in TCalls : ListMoves(tcall[d], tcall'[d])
  <2>1. PICK m : m = [TIdle EXCEPT !.pc = "read_old", !.slot = s, !.file = f]
    OBVIOUS
  <2>2. tcall' = [tcall EXCEPT ![c] = m] /\ ListMoves(tcall[c], m)
    BY <2>1, <1>4 DEF UploadWrite, TIdle, ListMoves
  <2> QED BY <2>2, CallSet
<1>5. ASSUME NEW c \in TCalls, UploadReadOld(c) PROVE \A d \in TCalls : ListMoves(tcall[d], tcall'[d])
  <2>1. PICK m : m = [tcall[c] EXCEPT !.pc = "upsert", !.old = tex[tcall[c].slot]]
    OBVIOUS
  <2>2. tcall' = [tcall EXCEPT ![c] = m] /\ ListMoves(tcall[c], m)
    BY <2>1, <1>1, <1>5 DEF UploadReadOld, TextureCall, ListMoves, AssetsInv, TextureRowsHaveFiles, TextureTypeOK
  <2> QED BY <2>2, CallSet
<1>6. ASSUME NEW c \in TCalls, UploadUpsert(c) PROVE \A d \in TCalls : ListMoves(tcall[d], tcall'[d])
  <2>1. PICK m : m = [tcall[c] EXCEPT !.pc = "unlink"]
    OBVIOUS
  <2>2. TDone(c) \/ (tcall' = [tcall EXCEPT ![c] = m] /\ ListMoves(tcall[c], m))
    BY <2>1, <1>1, <1>6 DEF UploadUpsert, TextureCall, ListMoves, AssetsInv, TextureRowsHaveFiles, TextureTypeOK
  <2> QED BY <2>2, <1>3, CallSet
<1>7. ASSUME NEW c \in TCalls, NEW s \in Slots, DeleteTexture(c, s)
      PROVE  \A d \in TCalls : ListMoves(tcall[d], tcall'[d])
  <2>1. PICK m : m = [TIdle EXCEPT !.pc = "unlink", !.slot = s, !.old = tex[s]]
    OBVIOUS
  <2>2. tcall' = [tcall EXCEPT ![c] = m] /\ ListMoves(tcall[c], m)
    BY <2>1, <1>7 DEF DeleteTexture, TIdle, ListMoves
  <2> QED BY <2>2, CallSet
<1>8. ASSUME NEW c \in TCalls, NEW s \in Slots, PurgeStat(c, s) \/ PurgeDelete(c, s)
      PROVE  \A d \in TCalls : ListMoves(tcall[d], tcall'[d])
  <2>1. PICK m : m = [tcall[c] EXCEPT !.rows[s] = NoFile]
    OBVIOUS
  <2>2. tcall' = [tcall EXCEPT ![c] = m]
    BY <2>1, <1>8, <1>1 DEF PurgeStat, PurgeDelete, AssetsInv, TextureRowsHaveFiles, TextureTypeOK
  <2>3. ListKept(tcall[c], m)
    BY <2>1, <1>1 DEF TextureCall, ListKept
  <2> QED BY <2>2, <2>3, CallSet DEF ListMoves
<1>9. ASSUME NEW c \in TCalls, PurgeFetch(c) PROVE \A d \in TCalls : ListMoves(tcall[d], tcall'[d])
  <2>1. PICK m : m = [TIdle EXCEPT !.pc = "stat", !.rows = tex]
    OBVIOUS
  <2>2. tcall' = [tcall EXCEPT ![c] = m] /\ ListRead(m)
    BY <2>1, <1>9 DEF PurgeFetch, TIdle, ListRead
  <2> QED BY <2>2, CallSet DEF ListMoves
<1>10. ASSUME NEW c \in TCalls, PurgeCollected(c) PROVE \A d \in TCalls : ListMoves(tcall[d], tcall'[d])
  <2>1. PICK m : m = [tcall[c] EXCEPT !.pc = "purge"]
    OBVIOUS
  <2>2. tcall' = [tcall EXCEPT ![c] = m]
    BY <2>1, <1>10, <1>1 DEF PurgeCollected, AssetsInv, TextureRowsHaveFiles, TextureTypeOK
  <2>3. ListChecked(tcall[c], m)
    BY <2>1, <1>1, <1>10 DEF PurgeCollected, TextureCall, ListChecked, IsPresent
  <2> QED BY <2>2, <2>3, CallSet DEF ListMoves
<1>11. CASE TextureNext
  BY <1>11, <1>2, <1>3, <1>4, <1>5, <1>6, <1>7, <1>8, <1>9, <1>10
     DEF TextureNext, UnlinkOld, PurgeEnd, DropTexture, DeleteOwner
<1>12. CASE tcall' = tcall
  BY <1>12, <1>2
<1> QED BY <1>11, <1>12 DEF Next, vars

LEMMA NextOrphans == AssetsInv /\ Orphans /\ [Next]_vars => Orphans'
<1> SUFFICES ASSUME AssetsInv, Orphans, [Next]_vars, NEW c \in TCalls, NEW s \in Slots
             PROVE  /\ tcall'[c].pc = "stat" => tcall'[c].rows[s] \in written' \cup {NoFile}
                    /\ tcall'[c].pc = "purge" => tcall'[c].rows[s] \in (written' \ disk') \cup {NoFile}
  BY DEF Orphans
<1>1. ListMoves(tcall[c], tcall'[c])
  BY ListSteps
<1>2. tex[s] \in written \cup {NoFile}
  BY DEF AssetsInv, TextureFilesOwn
<1>3. written \subseteq written' /\ disk' \cap written \subseteq disk
  BY DiskIsOld
<1>4. CASE ListKept(tcall[c], tcall'[c])
  BY <1>3, <1>4 DEF ListKept, Orphans
<1>5. CASE ListRead(tcall'[c])
  BY <1>2, <1>3, <1>5 DEF ListRead
<1>6. CASE ListChecked(tcall[c], tcall'[c])
  BY <1>3, <1>6 DEF ListChecked, Orphans
<1> QED BY <1>1, <1>4, <1>5, <1>6 DEF ListMoves

LEMMA InitRest == Init => Orphans /\ BoundsOK
<1> SUFFICES ASSUME Init PROVE Orphans /\ BoundsOK
  OBVIOUS
<1>1. \A c \in TCalls : tcall[c].pc = "idle"
  BY DEF Init, TextureInit, TIdle
<1>2. Orphans
  BY <1>1 DEF Orphans
<1>3. BoundsOK
  BY StorageAssumption DEF Init, StorageInit, BoundsOK
<1> QED BY <1>2, <1>3

LEMMA NextBounds == BoundsOK /\ [Next]_vars => BoundsOK'
<1> SUFFICES ASSUME BoundsOK, [Next]_vars PROVE BoundsOK'
  OBVIOUS
<1> DEFINE Counted == (Ask \/ requests' = requests) /\ (Fault \/ faults' = faults)
<1>1. TextureNext => Counted
  BY DEF TextureNext, UploadWrite, UploadReadOld, UploadUpsert, DeleteTexture,
         PurgeStat, PurgeDelete, PurgeFetch, PurgeCollected, PurgeEnd, DropTexture, DeleteOwner,
         UnlinkOld, LoseFile, storageVars
<1>2. MediaNext => Counted
  BY DEF MediaNext, MediaBegin, MediaWrite, MediaDeleteStarts, MediaDelete,
         MediaUnlink, MediaCommit, DeleteMedia, DeleteClientRows, DeleteMediaFile, RemoveMediaDir,
         DropMedia, storageVars
<1>3. UNCHANGED vars => Counted
  BY DEF vars, storageVars
<1>4. Counted
  BY <1>1, <1>2, <1>3 DEF Next
<1>5. requests' \in 0..MaxRequests
  BY <1>4, StorageAssumption DEF Ask, BoundsOK
<1>6. faults' \in 0..MaxFaults
  BY <1>4, StorageAssumption DEF Fault, BoundsOK
<1> QED BY <1>5, <1>6 DEF BoundsOK

LEMMA MediaInvariant == Spec => [](AssetsInv /\ MediaInv /\ Orphans /\ BoundsOK)
BY InitAssets, InitMedia, InitRest, NextAssets, NextMedia, NextOrphans, NextBounds, PTL DEF Spec

(* Every catalog image a committed row names is on disk, except in the       *)
(* transaction that is replacing it and after a fault from outside or a      *)
(* rollback took it (upload_media, delete_media and delete_client of         *)
(* catalog/src/admin.rs), for any number of builds, roles, files and         *)
(* overlapping requests.                                                     *)
THEOREM MediaSafe == Spec => []MediaRowsHaveFiles
<1>1. AssetsInv /\ MediaInv /\ BoundsOK => MediaRowsHaveFiles
  <2> SUFFICES ASSUME AssetsInv, MediaInv, BoundsOK PROVE MediaRowsHaveFiles
    OBVIOUS
  <2>1. MediaTypeOK
    BY DEF MediaTypeOK, AssetsInv, MediaInv, MediaFilesStored, RowsOwnFiles, BoundsOK,
           TextureRowsHaveFiles, TextureTypeOK
  <2>2. \A r : Replaced(r) => r \in Locked
    BY LockedHeld DEF Replaced, Holding
  <2> QED BY <2>1, <2>2 DEF MediaInv, FilesKept, MediaRowsHaveFiles
<1> QED BY <1>1, MediaInvariant, PTL

(* A poster, icon or other singular image of a build has one row, unless two *)
(* uploads of it overlapped (upload_media), for any number of builds, roles  *)
(* and requests.                                                             *)
THEOREM SingularImages == Spec => []SingularSlot
<1>1. MediaInv => SingularSlot
  BY DEF MediaInv
<1> QED BY <1>1, MediaInvariant, PTL

(* purge_missing never removes the row it read while that row's file is on   *)
(* disk: what it wrongly removes is a newer row (collect_orphans and         *)
(* purge_kind of textures/src), for any number of slots and requests.        *)
THEOREM PurgeIsStaleAtWorst == Spec => PurgeTakesStaleRows
<1>1. Orphans => \A c \in TCalls, s \in Slots :
        (tcall[c].pc = "purge" /\ tcall[c].rows[s] # NoFile /\ tcall'[c].rows[s] = NoFile
           /\ tcall'[c].pc = "purge" /\ tex[s] \in disk)
          => tex[s] # tcall[c].rows[s]
  BY DEF Orphans
<1> QED BY <1>1, MediaInvariant, PTL DEF PurgeTakesStaleRows

-----------------------------------------------------------------------------
(* BUNDLES.  The properties speak of the build between calls; the invariant  *)
(* must say what each step of a call has established so far.  In five parts: *)
(* paths and trees; types, with what a step says of its call (TypeInv);      *)
(* files/ is a tree after every step; BundlesInv; one lemma per action that  *)
(* a call no other call ran beside keeps it.  Once calls overlap, drift and  *)
(* apart are both set and only types and tree remain to be shown.            *)

(* Paths and trees.  Rows and files agree as SettledConsistent has it.       *)
Agree(r, t) ==
  /\ \A p \in Paths : r[p] # "none" => t[p] = r[p]
  /\ \A p \in Paths : t[p] \in Contents => r[p] = t[p]

(* Every file row has a file: what RowsHaveFiles asks for.                   *)
Backed(r, t) == \A p \in Paths : r[p] \in Contents => t[p] \in Contents

(* A path is a sequence of names and not empty.                              *)
LEMMA PathType == ASSUME NEW p \in Paths
                  PROVE  p \in Seq(STRING) /\ Len(p) \in Nat /\ Len(p) > 0 /\ DOMAIN p = 1 .. Len(p)
  BY BundleAssumption

(* Being below a path, name by name.                                         *)
LEMMA UnderIs ==
  ASSUME NEW p \in Paths, NEW q \in Paths
  PROVE  q \in Under(p) <=> Len(q) > Len(p) /\ \A i \in 1 .. Len(p) : q[i] = p[i]
<1>1. p \in Seq(STRING) /\ q \in Seq(STRING) /\ Len(p) \in Nat /\ Len(q) \in Nat
  BY PathType
<1>2. ASSUME Len(q) > Len(p)
      PROVE  /\ SubSeq(q, 1, Len(p)) \in Seq(STRING) /\ Len(SubSeq(q, 1, Len(p))) = Len(p)
             /\ \A i \in 1 .. Len(p) : SubSeq(q, 1, Len(p))[i] = q[i]
  BY <1>1, <1>2
<1>3. CASE Len(q) > Len(p)
  <2>1. SubSeq(q, 1, Len(p)) = p <=> \A i \in 1 .. Len(p) : q[i] = p[i]
    BY <1>1, <1>2, <1>3
  <2> QED BY <2>1, <1>3 DEF Under
<1> QED BY <1>3 DEF Under

LEMMA UnderTrans ==
  ASSUME NEW a \in Paths, NEW b \in Under(a), NEW q \in Under(b)
  PROVE  q \in Under(a)
<1>1. b \in Paths /\ q \in Paths
  BY DEF Under
<1>2. Len(a) \in Nat /\ Len(b) \in Nat /\ Len(q) \in Nat
  BY <1>1, PathType
<1> QED BY <1>1, <1>2, UnderIs

LEMMA NotUnderItself ==
  ASSUME NEW a \in Paths, NEW b \in Under(a)
  PROVE  a \notin Subtree(b)
<1>1. b \in Paths /\ Len(a) \in Nat /\ Len(b) \in Nat
  BY PathType DEF Under
<1>2. Len(b) > Len(a)
  BY <1>1, UnderIs
<1>3. a \notin Under(b)
  BY <1>1, <1>2, UnderIs
<1> QED BY <1>1, <1>2, <1>3 DEF Subtree

(* Two paths above a third are one above the other.                          *)
LEMMA Comparable ==
  ASSUME NEW n \in Paths, NEW a \in Paths, NEW q \in Paths, q \in Subtree(n), q \in Under(a)
  PROVE  a \in Subtree(n) \/ n \in Under(a)
<1>1. Len(a) \in Nat /\ Len(n) \in Nat /\ Len(q) \in Nat
  BY PathType
<1>2. CASE q = n
  BY <1>2
<1>3. CASE q \in Under(n)
  <2>1. \A i \in 1 .. Len(n) : q[i] = n[i]
    BY <1>3, UnderIs
  <2>2. \A i \in 1 .. Len(a) : q[i] = a[i]
    BY UnderIs
  <2>3. CASE Len(n) > Len(a)
    BY <2>1, <2>2, <2>3, <1>1, UnderIs
  <2>4. CASE Len(a) > Len(n)
    BY <2>1, <2>2, <2>4, <1>1, UnderIs DEF Subtree
  <2>5. CASE Len(a) = Len(n)
    <3>1. a \in Seq(STRING) /\ n \in Seq(STRING)
      BY PathType
    <3>2. \A i \in 1 .. Len(n) : a[i] = n[i]
      BY <2>1, <2>2, <2>5
    <3>3. a = n
      BY <3>1, <3>2, <2>5
    <3> QED BY <3>3 DEF Subtree
  <2> QED BY <2>3, <2>4, <2>5, <1>1
<1> QED BY <1>2, <1>3 DEF Subtree

(* A path rebased from n to p: as long again below p as it was below n.      *)
LEMMA RebasedIs ==
  ASSUME NEW n \in Paths, NEW p \in Paths, NEW q \in Paths, Len(q) >= Len(n)
  PROVE  /\ Rebased(n, p, q) \in Seq(STRING)
         /\ Len(Rebased(n, p, q)) = Len(p) + (Len(q) - Len(n))
         /\ \A i \in 1 .. Len(p) : Rebased(n, p, q)[i] = p[i]
         /\ \A i \in 1 .. (Len(q) - Len(n)) : Rebased(n, p, q)[Len(p) + i] = q[Len(n) + i]
<1>1. /\ p \in Seq(STRING) /\ q \in Seq(STRING)
      /\ Len(n) \in Nat /\ Len(p) \in Nat /\ Len(q) \in Nat
  BY PathType
<1> DEFINE s == SubSeq(q, Len(n) + 1, Len(q))
<1>2. /\ s \in Seq(STRING) /\ Len(s) = Len(q) - Len(n)
      /\ \A i \in 1 .. (Len(q) - Len(n)) : s[i] = q[Len(n) + i]
  BY <1>1
<1>3. Rebased(n, p, q) = p \o s
  BY DEF Rebased
<1> HIDE DEF s
<1>4. /\ p \o s \in Seq(STRING) /\ Len(p \o s) = Len(p) + Len(s)
      /\ \A i \in 1 .. Len(p) : (p \o s)[i] = p[i]
      /\ \A i \in 1 .. Len(s) : (p \o s)[Len(p) + i] = s[i]
  <2>1. /\ p \o s \in Seq(STRING) /\ Len(p \o s) = Len(p) + Len(s)
        /\ \A i \in 1 .. Len(p) + Len(s) :
              (p \o s)[i] = IF i <= Len(p) THEN p[i] ELSE s[i - Len(p)]
    BY <1>1, <1>2, ConcatProperties
  <2>2. Len(s) \in Nat
    BY <1>2
  <2>3. \A i \in 1 .. Len(p) : (p \o s)[i] = p[i]
    BY <2>1, <2>2, <1>1
  <2>4. ASSUME NEW i \in 1 .. Len(s) PROVE (p \o s)[Len(p) + i] = s[i]
    <3>1. Len(p) + i \in 1 .. Len(p) + Len(s) /\ ~ (Len(p) + i <= Len(p)) /\ (Len(p) + i) - Len(p) = i
      BY <2>2, <1>1
    <3> QED BY <3>1, <2>1
  <2> QED BY <2>1, <2>3, <2>4
<1> QED BY <1>1, <1>2, <1>3, <1>4

(* Rebasing moves what is below one path below the other, and back.          *)
LEMMA RebasedBelow ==
  ASSUME NEW n \in Paths, NEW p \in Paths, NEW q \in Subtree(n), Rebased(n, p, q) \in Paths
  PROVE  /\ q = n => Rebased(n, p, q) = p
         /\ q # n => Rebased(n, p, q) \in Under(p)
<1>1. q \in Paths
  BY DEF Subtree, Under
<1>2. /\ p \in Seq(STRING) /\ Len(n) \in Nat /\ Len(p) \in Nat /\ Len(q) \in Nat
  BY <1>1, PathType
<1>3. Len(q) >= Len(n) /\ (q # n => Len(q) > Len(n))
  BY <1>1, <1>2, UnderIs DEF Subtree
<1>4. /\ Rebased(n, p, q) \in Seq(STRING)
      /\ Len(Rebased(n, p, q)) = Len(p) + (Len(q) - Len(n))
      /\ \A i \in 1 .. Len(p) : Rebased(n, p, q)[i] = p[i]
  BY <1>1, <1>3, RebasedIs
<1>5. ASSUME q = n PROVE Rebased(n, p, q) = p
  BY <1>2, <1>4, <1>5
<1>6. ASSUME q # n PROVE Rebased(n, p, q) \in Under(p)
  BY <1>2, <1>3, <1>4, <1>6, UnderIs
<1> QED BY <1>5, <1>6

(* What is above a path is rebased above it, and is a path too.              *)
LEMMA RebasedAbove ==
  ASSUME NEW n \in Paths, NEW p \in Paths, NEW q \in Paths, NEW a \in Subtree(n),
         q \in Under(a), Rebased(n, p, q) \in Paths
  PROVE  Rebased(n, p, a) \in Paths /\ Rebased(n, p, q) \in Under(Rebased(n, p, a))
<1> DEFINE x == Rebased(n, p, a)
           y == Rebased(n, p, q)
<1>1. a \in Paths
  BY DEF Subtree, Under
<1>2. /\ p \in Seq(STRING) /\ Len(p) > 0 /\ y \in Seq(STRING)
      /\ Len(n) \in Nat /\ Len(p) \in Nat /\ Len(q) \in Nat /\ Len(a) \in Nat
  BY <1>1, PathType
<1>3. Len(q) > Len(a) /\ Len(a) >= Len(n) /\ \A i \in 1 .. Len(a) : q[i] = a[i]
  BY <1>1, <1>2, UnderIs DEF Subtree
<1>4. /\ x \in Seq(STRING) /\ Len(x) = Len(p) + (Len(a) - Len(n))
      /\ \A i \in 1 .. Len(p) : x[i] = p[i]
      /\ \A i \in 1 .. (Len(a) - Len(n)) : x[Len(p) + i] = a[Len(n) + i]
  BY <1>1, <1>3, RebasedIs
<1>5. /\ Len(y) = Len(p) + (Len(q) - Len(n))
      /\ \A i \in 1 .. Len(p) : y[i] = p[i]
      /\ \A i \in 1 .. (Len(q) - Len(n)) : y[Len(p) + i] = q[Len(n) + i]
  <2>1. Len(q) >= Len(n)
    BY <1>2, <1>3
  <2> QED BY <2>1, RebasedIs
<1> HIDE DEF x, y
<1>6. Len(x) \in Nat /\ Len(y) \in Nat /\ Len(x) < Len(y) /\ Len(x) > 0
  BY <1>2, <1>3, <1>4, <1>5
<1>7. \A i \in 1 .. Len(x) : y[i] = x[i]
  <2> SUFFICES ASSUME NEW i \in 1 .. Len(x) PROVE y[i] = x[i]
    OBVIOUS
  <2>1. CASE i <= Len(p)
    BY <2>1, <1>2, <1>4, <1>5, <1>6
  <2>2. CASE i > Len(p)
    <3>1. PICK j \in 1 .. (Len(a) - Len(n)) : i = Len(p) + j
      <4>1. i - Len(p) \in 1 .. (Len(a) - Len(n)) /\ i = Len(p) + (i - Len(p))
        BY <2>2, <1>2, <1>3, <1>4, <1>6
      <4> QED BY <4>1
    <3>2. j \in 1 .. (Len(q) - Len(n)) /\ Len(n) + j \in 1 .. Len(a)
      BY <3>1, <1>2, <1>3
    <3> QED BY <3>1, <3>2, <1>3, <1>4, <1>5
  <2> QED BY <2>1, <2>2, <1>2, <1>6
<1>8. SubSeq(y, 1, Len(x)) = x
  <2>1. /\ SubSeq(y, 1, Len(x)) \in Seq(STRING) /\ Len(SubSeq(y, 1, Len(x))) = Len(x)
        /\ \A i \in 1 .. Len(x) : SubSeq(y, 1, Len(x))[i] = y[i]
    BY <1>2, <1>6
  <2> QED BY <2>1, <1>4, <1>7
<1>9. y \in Paths
  BY DEF y
<1>10. x \in Paths
  <2>1. Len(x) \in 1 .. Len(y) - 1
    BY <1>6
  <2> QED BY <2>1, <1>8, <1>9, BundleAssumption
<1>11. y \in Under(x)
  BY <1>6, <1>8, <1>9 DEF Under
<1> QED BY <1>10, <1>11 DEF x, y

LEMMA AncestorIs ==
  ASSUME NEW a, NEW q
  PROVE  a \in Ancestors(q) <=> a \in Paths /\ q \in Under(a)
  BY DEF Ancestors

LEMMA SubtreeInPaths == \A p \in Paths : Subtree(p) \subseteq Paths /\ Under(p) \subseteq Paths
  BY DEF Subtree, Under

(* create_dir_all keeps a tree a tree when no file is in its way.            *)
LEMMA MadeDirsIs ==
  ASSUME NEW t \in Tree, NEW n \in Paths, IsTree(t)
  PROVE  MadeDirs(t, n) \in Tree /\ IsTree(MadeDirs(t, n))
<1> DEFINE u == MadeDirs(t, n)
<1>1. u \in Tree /\ \A q \in Paths : u[q] = IF q \in Ancestors(n) THEN "dir" ELSE t[q]
  BY DEF MadeDirs, Tree, Kinds
<1> HIDE DEF u
<1>2. ASSUME NEW q \in Paths, u[q] # "none", NEW a \in Ancestors(q) PROVE u[a] = "dir"
  <2>1. a \in Paths /\ q \in Under(a)
    BY <1>2, AncestorIs
  <2>2. CASE q \in Ancestors(n)
    <3>1. n \in Under(a)
      BY <2>1, <2>2, AncestorIs, UnderTrans
    <3> QED BY <3>1, <2>1, <1>1, AncestorIs
  <2>3. CASE q \notin Ancestors(n)
    BY <2>1, <2>3, <1>1, <1>2 DEF IsTree
  <2> QED BY <2>2, <2>3
<1> QED BY <1>1, <1>2 DEF IsTree, u

LEMMA PlacedIs ==
  ASSUME NEW t \in Tree, NEW p \in Paths, NEW kind \in Kinds
  PROVE  /\ Placed(t, p, kind) \in Tree
         /\ \A q \in Paths : Placed(t, p, kind)[q] =
               IF q = p THEN kind ELSE IF q \in Ancestors(p) THEN "dir" ELSE t[q]
  BY DEF Placed, MadeDirs, Tree, Kinds

(* So does placing a file or a folder.                                       *)
LEMMA PlacedTree ==
  ASSUME NEW t \in Tree, NEW p \in Paths, NEW kind \in Kinds, IsTree(t), kind # "none",
         CanPlace(t, p, kind)
  PROVE  IsTree(Placed(t, p, kind))
<1> DEFINE u == Placed(t, p, kind)
<1>1. \A q \in Paths : u[q] = IF q = p THEN kind ELSE IF q \in Ancestors(p) THEN "dir" ELSE t[q]
  BY PlacedIs
<1> HIDE DEF u
<1>2. ASSUME NEW q \in Paths, u[q] # "none", NEW a \in Ancestors(q) PROVE u[a] = "dir"
  <2>1. a \in Paths /\ q \in Under(a)
    BY <1>2, AncestorIs
  <2>2. CASE q = p \/ q \in Ancestors(p)
    <3>1. p \in Under(a)
      BY <2>1, <2>2, AncestorIs, UnderTrans
    <3>2. a # p
      BY <3>1, NotUnderItself DEF Subtree
    <3> QED BY <3>1, <3>2, <2>1, <1>1, AncestorIs
  <2>3. CASE q # p /\ q \notin Ancestors(p)
    <3>1. t[a] = "dir"
      BY <2>1, <2>3, <1>1, <1>2 DEF IsTree
    <3>2. a = p => kind = "dir"
      BY <3>1 DEF CanPlace
    <3> QED BY <3>1, <3>2, <2>1, <1>1
  <2> QED BY <2>2, <2>3
<1> QED BY <1>2 DEF IsTree, u

LEMMA ExtractedIs ==
  ASSUME NEW t \in Tree, NEW ps, files \in Tree
  PROVE  /\ Extracted(t, ps) \in Tree
         /\ \A p \in Paths : Extracted(t, ps)[p] =
               IF t[p] # "none" /\ Subtree(p) \cap ps # {} THEN t[p] ELSE files[p]
  BY DEF Extracted, Tree

(* So does an extraction that stopped after any of its entries.              *)
LEMMA ExtractedTree ==
  ASSUME NEW t \in Tree, IsTree(t), files \in Tree, IsTree(files),
         NEW ps \in SUBSET Paths, \A p \in ps : t[p] # "none" /\ CanPlace(files, p, t[p])
  PROVE  IsTree(Extracted(t, ps))
<1> DEFINE u == Extracted(t, ps)
           in(q) == t[q] # "none" /\ Subtree(q) \cap ps # {}
<1>1. \A q \in Paths : u[q] = IF in(q) THEN t[q] ELSE files[q]
  BY ExtractedIs
<1> HIDE DEF u
<1>2. ASSUME NEW q \in Paths, u[q] # "none", NEW a \in Ancestors(q) PROVE u[a] = "dir"
  <2>1. a \in Paths /\ q \in Under(a)
    BY <1>2, AncestorIs
  <2>2. CASE in(q)
    <3>1. t[a] = "dir"
      BY <2>2, <1>2 DEF IsTree
    <3>2. Subtree(q) \subseteq Subtree(a)
      BY <2>1, UnderTrans DEF Subtree
    <3> QED BY <3>1, <3>2, <2>1, <2>2, <1>1
  <2>3. CASE ~ in(q)
    <3>1. files[a] = "dir"
      BY <2>3, <1>1, <1>2 DEF IsTree
    <3>2. ASSUME in(a) PROVE t[a] = "dir"
      <4>1. PICK p \in ps : p \in Subtree(a)
        BY <3>2
      <4>2. CASE p = a
        <5>1. CanPlace(files, a, t[a])
          BY <4>1, <4>2
        <5> QED BY <5>1, <3>1 DEF CanPlace
      <4>3. CASE p \in Under(a)
        <5>1. a \in Ancestors(p) /\ p \in Paths /\ t[p] # "none"
          BY <2>1, <4>1, <4>3, AncestorIs
        <5> QED BY <5>1 DEF IsTree
      <4> QED BY <4>1, <4>2, <4>3 DEF Subtree
    <3> QED BY <3>1, <3>2, <2>1, <1>1
  <2> QED BY <2>2, <2>3
<1> QED BY <1>2 DEF IsTree, u

(* A rename on disk, seen path by path; the two subtrees do not meet, and    *)
(* nothing is below the target.                                              *)
LEMMA RenameIs ==
  ASSUME NEW t \in Tree, IsTree(t), NEW p \in Paths, NEW n \in Paths,
         t[p] # "none", CanRename(t, p, n)
  PROVE  /\ RenameOnDisk(t, p, n) \in Tree
         /\ \A q \in Paths : q \in Subtree(n) =>
               RenameOnDisk(t, p, n)[q] =
                  IF Rebased(n, p, q) \in Paths THEN t[Rebased(n, p, q)] ELSE "none"
         /\ \A q \in Paths : q \notin Subtree(n) =>
               RenameOnDisk(t, p, n)[q] =
                  IF q \in Subtree(p) THEN "none" ELSE MadeDirs(t, n)[q]
         /\ \A q \in Under(n) : t[q] = "none"
         /\ n \notin Subtree(p)
         /\ Rebased(n, p, n) = p
<1>1. MadeDirs(t, n) \in Tree /\ \A q \in Paths :
         MadeDirs(t, n)[q] = IF q \in Ancestors(n) THEN "dir" ELSE t[q]
  BY DEF MadeDirs, Tree, Kinds
<1>2. n \notin Subtree(p)
  BY DEF CanRename
<1>3. ASSUME NEW q \in Subtree(n), Rebased(n, p, q) \in Paths
      PROVE  Rebased(n, p, q) \notin Ancestors(n)
  <2>1. Rebased(n, p, q) \in Subtree(p)
    BY <1>3, RebasedBelow DEF Subtree
  <2>2. ASSUME n \in Under(Rebased(n, p, q)) PROVE FALSE
    <3>1. n \in Under(p)
      BY <2>1, <2>2, UnderTrans DEF Subtree
    <3> QED BY <3>1, <1>2 DEF Subtree
  <2> QED BY <2>2, AncestorIs
<1>4. RenameOnDisk(t, p, n) = [q \in Paths |->
            IF q \in Subtree(n)
            THEN IF Rebased(n, p, q) \in Paths THEN MadeDirs(t, n)[Rebased(n, p, q)] ELSE "none"
            ELSE IF q \in Subtree(p) THEN "none" ELSE MadeDirs(t, n)[q]]
  BY DEF RenameOnDisk
<1>5. RenameOnDisk(t, p, n) \in Tree
  BY <1>1, <1>4 DEF Tree, Kinds
<1>6. \A q \in Under(n) : t[q] = "none"
  <2>1. ASSUME NEW q \in Under(n), t[q] # "none" PROVE FALSE
    <3>1. t[n] = "dir"
      BY <2>1, AncestorIs, SubtreeInPaths DEF IsTree
    <3> QED BY <2>1, <3>1 DEF CanRename
  <2> QED BY <2>1
<1>7. Rebased(n, p, n) = p
  <2>1. Rebased(n, p, n) = p \o SubSeq(n, Len(n) + 1, Len(n))
    BY DEF Rebased
  <2>2. Len(n) \in Nat /\ p \in Seq(STRING) /\ n \in Seq(STRING)
    BY PathType
  <2>3. /\ Rebased(n, p, n) \in Seq(STRING) /\ Len(Rebased(n, p, n)) = Len(p) + (Len(n) - Len(n))
        /\ \A i \in 1 .. Len(p) : Rebased(n, p, n)[i] = p[i]
    BY <2>2, RebasedIs
  <2>4. Len(p) \in Nat
    BY PathType
  <2> QED BY <2>2, <2>3, <2>4
<1>8. ASSUME NEW q \in Paths, q \in Subtree(n)
      PROVE  RenameOnDisk(t, p, n)[q] =
                  IF Rebased(n, p, q) \in Paths THEN t[Rebased(n, p, q)] ELSE "none"
  BY <1>1, <1>3, <1>4, <1>8
<1>9. ASSUME NEW q \in Paths, q \notin Subtree(n)
      PROVE  RenameOnDisk(t, p, n)[q] = IF q \in Subtree(p) THEN "none" ELSE MadeDirs(t, n)[q]
  BY <1>4, <1>9
<1> QED BY <1>2, <1>5, <1>6, <1>7, <1>8, <1>9

(* A rename that succeeds moves a tree to a tree.                            *)
LEMMA RenameTree ==
  ASSUME NEW t \in Tree, IsTree(t), NEW p \in Paths, NEW n \in Paths,
         t[p] # "none" => CanRename(t, p, n)
  PROVE  RenameOnDisk(t, p, n) \in Tree /\ IsTree(RenameOnDisk(t, p, n))
<1>1. CASE t[p] = "none"
  BY <1>1 DEF RenameOnDisk
<1>2. CASE t[p] # "none"
  <2> DEFINE u == RenameOnDisk(t, p, n)
             v == MadeDirs(t, n)
  <2>1. /\ u \in Tree
        /\ \A q \in Paths : q \in Subtree(n) =>
               u[q] = IF Rebased(n, p, q) \in Paths THEN t[Rebased(n, p, q)] ELSE "none"
        /\ \A q \in Paths : q \notin Subtree(n) => u[q] = IF q \in Subtree(p) THEN "none" ELSE v[q]
        /\ n \notin Subtree(p)
    BY <1>2, RenameIs
  <2>2. v \in Tree /\ IsTree(v) /\ \A a \in Ancestors(n) : v[a] = "dir"
    <3>1. \A a \in Ancestors(n) : a \in Paths
      BY AncestorIs
    <3> QED BY <3>1, MadeDirsIs DEF MadeDirs
  <2> HIDE DEF u, v
  <2>3. ASSUME NEW q \in Paths, u[q] # "none", NEW a \in Ancestors(q) PROVE u[a] = "dir"
    <3>1. a \in Paths /\ q \in Under(a)
      BY <2>3, AncestorIs
    <3>2. CASE q \in Subtree(n) /\ a \in Subtree(n)
      <4>1. Rebased(n, p, q) \in Paths /\ t[Rebased(n, p, q)] # "none"
        BY <3>2, <2>1, <2>3
      <4>2. Rebased(n, p, a) \in Paths /\ Rebased(n, p, q) \in Under(Rebased(n, p, a))
        BY <3>1, <3>2, <4>1, RebasedAbove
      <4>3. t[Rebased(n, p, a)] = "dir"
        BY <4>1, <4>2, AncestorIs DEF IsTree
      <4> QED BY <4>2, <4>3, <3>1, <3>2, <2>1
    <3>3. CASE q \in Subtree(n) /\ a \notin Subtree(n)
      <4>1. n \in Under(a)
        BY <3>1, <3>3, Comparable
      <4>2. a \notin Subtree(p)
        BY <4>1, <3>1, <2>1, UnderTrans DEF Subtree
      <4> QED BY <4>1, <4>2, <3>1, <3>3, <2>1, <2>2, AncestorIs
    <3>4. CASE q \notin Subtree(n)
      <4>1. q \notin Subtree(p) /\ v[q] # "none"
        BY <3>4, <2>1, <2>3
      <4>2. a \notin Subtree(n)
        BY <3>1, <3>4, UnderTrans DEF Subtree
      <4>3. a \notin Subtree(p)
        BY <3>1, <4>1, UnderTrans DEF Subtree
      <4>4. v[a] = "dir"
        BY <4>1, <2>2, <2>3 DEF IsTree
      <4> QED BY <4>2, <4>3, <4>4, <3>1, <2>1
    <3> QED BY <3>2, <3>3, <3>4
  <2> QED BY <2>1, <2>3 DEF IsTree, u
<1> QED BY <1>1, <1>2

(* The rows after a move: those of Region(p) are at n.                       *)
RowsMoved(r, u, p, n, is_dir) ==
  \A q \in Paths :
     u[q] = IF q \in Region(n, is_dir) /\ Rebased(n, p, q) \in Paths /\ r[Rebased(n, p, q)] # "none"
            THEN r[Rebased(n, p, q)]
            ELSE IF q \in Region(p, is_dir) /\ r[q] # "none" THEN "none" ELSE r[q]

LEMMA RegionIs ==
  ASSUME NEW p \in Paths, NEW is_dir \in BOOLEAN
  PROVE  /\ Region(p, is_dir) \subseteq Subtree(p) /\ p \in Region(p, is_dir)
         /\ Region(p, TRUE) = Subtree(p) /\ Region(p, FALSE) = {p}
         /\ Subtree(p) \subseteq Paths
  BY SubtreeInPaths DEF Region, Subtree

(* A content is neither a folder nor nothing.                                *)
LEMMA KindsApart ==
  /\ "none" \notin Contents /\ "dir" \notin Contents
  BY BundleAssumption

(* A move that splits no folder keeps a file under every file row.           *)
LEMMA MoveBacked ==
  ASSUME NEW t \in Tree, IsTree(t), NEW p \in Paths, NEW n \in Paths,
         t[p] # "none" => CanRename(t, p, n),
         NEW is_dir \in BOOLEAN, NEW r \in Tree, NEW u \in Tree, RowsMoved(r, u, p, n, is_dir),
         Backed(r, t), r[p] # "none", check_destination_free(r, n, is_dir),
         is_dir \/ r[p] # "dir"
  PROVE  Backed(u, RenameOnDisk(t, p, n))
<1> DEFINE v == RenameOnDisk(t, p, n)
<1>0. SUFFICES ASSUME NEW q \in Paths, u[q] \in Contents PROVE v[q] \in Contents
  BY DEF Backed
<1>1. CASE q \in Region(n, is_dir) /\ Rebased(n, p, q) \in Paths /\ r[Rebased(n, p, q)] # "none"
  <2> DEFINE x == Rebased(n, p, q)
  <2>1. r[x] \in Contents /\ x \in Paths /\ q \in Subtree(n)
    BY <1>0, <1>1, RegionIs DEF RowsMoved
  <2>2. t[x] \in Contents
    BY <2>1 DEF Backed
  <2>3. x = p \/ x \in Under(p)
    BY <2>1, RebasedBelow
  <2>4. t[p] # "none"
    BY <2>1, <2>2, <2>3, KindsApart, AncestorIs DEF IsTree
  <2>5. v[q] = t[x]
    BY <2>1, <2>4, RenameIs
  <2> QED BY <2>2, <2>5
<1>2. CASE ~ (q \in Region(n, is_dir) /\ Rebased(n, p, q) \in Paths /\ r[Rebased(n, p, q)] # "none")
  <2>1. r[q] = u[q] /\ r[q] # "none" /\ q \notin Region(p, is_dir)
    BY <1>0, <1>2, KindsApart DEF RowsMoved
  <2>2. t[q] \in Contents
    BY <1>0, <2>1 DEF Backed
  <2>3. q \notin Region(n, is_dir)
    BY <2>1 DEF check_destination_free
  <2>4. CASE t[p] = "none"
    BY <2>2, <2>4 DEF RenameOnDisk
  <2>5. CASE t[p] # "none"
    <3>1. q \notin Subtree(n)
      <4>1. \A x \in Under(n) : t[x] = "none"
        BY <2>5, RenameIs
      <4>2. q # n
        BY <2>3, RegionIs
      <4> QED BY <4>1, <4>2, <2>2, KindsApart DEF Subtree
    <3>2. q \notin Subtree(p)
      <4>1. q # p
        BY <2>1, RegionIs
      <4>2. ASSUME q \in Under(p) PROVE FALSE
        <5>1. t[p] = "dir"
          BY <4>2, <2>2, KindsApart, AncestorIs DEF IsTree
        <5>2. is_dir = FALSE
          BY <4>2, <2>1, RegionIs DEF Subtree
        <5>3. r[p] \in Contents
          BY <5>2 DEF Tree, Kinds
        <5> QED BY <5>1, <5>3, KindsApart DEF Backed
      <4> QED BY <4>1, <4>2 DEF Subtree
    <3>3. v[q] = MadeDirs(t, n)[q]
      BY <3>1, <3>2, <2>5, RenameIs
    <3>4. q \notin Ancestors(n)
      BY <2>2, <2>5 DEF CanRename, CanPlace, CanMakeDirs
    <3>5. v[q] = t[q]
      BY <3>3, <3>4 DEF MadeDirs
    <3> QED BY <2>2, <3>5
  <2> QED BY <2>4, <2>5
<1> QED BY <1>1, <1>2

(* And it keeps rows and files in agreement.                                 *)
LEMMA MoveAgrees ==
  ASSUME NEW t \in Tree, IsTree(t), NEW p \in Paths, NEW n \in Paths,
         t[p] # "none" => CanRename(t, p, n),
         NEW is_dir \in BOOLEAN, NEW r \in Tree, NEW u \in Tree, RowsMoved(r, u, p, n, is_dir),
         Agree(r, t), r[p] # "none", check_destination_free(r, n, is_dir),
         is_dir \/ r[p] # "dir"
  PROVE  Agree(u, RenameOnDisk(t, p, n))
<1> DEFINE v == RenameOnDisk(t, p, n)
<1>1. t[p] = r[p] /\ t[p] # "none" /\ CanRename(t, p, n)
  BY DEF Agree
<1>2. /\ \A q \in Paths : q \in Subtree(n) =>
               v[q] = IF Rebased(n, p, q) \in Paths THEN t[Rebased(n, p, q)] ELSE "none"
      /\ \A q \in Paths : q \notin Subtree(n) =>
               v[q] = IF q \in Subtree(p) THEN "none" ELSE MadeDirs(t, n)[q]
      /\ \A q \in Under(n) : t[q] = "none"
  BY <1>1, RenameIs
<1>3. ASSUME ~ is_dir, NEW q \in Under(p) PROVE t[q] = "none"
  <2>1. t[p] # "dir"
    BY <1>1, <1>3
  <2> QED BY <2>1, SubtreeInPaths, AncestorIs DEF IsTree
<1>4. \A q \in Paths : MadeDirs(t, n)[q] = IF q \in Ancestors(n) THEN "dir" ELSE t[q]
  BY DEF MadeDirs
<1>5. \A q \in Ancestors(n) : t[q] \notin Contents
  BY <1>1 DEF CanRename, CanPlace, CanMakeDirs
<1> HIDE DEF v
<1>6. ASSUME NEW q \in Paths, u[q] # "none" PROVE v[q] = u[q]
  <2>1. CASE q \in Region(n, is_dir) /\ Rebased(n, p, q) \in Paths /\ r[Rebased(n, p, q)] # "none"
    <3>1. u[q] = r[Rebased(n, p, q)] /\ q \in Subtree(n)
      BY <2>1, RegionIs DEF RowsMoved
    <3>2. r[Rebased(n, p, q)] = t[Rebased(n, p, q)]
      BY <2>1 DEF Agree
    <3> QED BY <3>1, <3>2, <2>1, <1>2
  <2>2. CASE ~ (q \in Region(n, is_dir) /\ Rebased(n, p, q) \in Paths /\ r[Rebased(n, p, q)] # "none")
    <3>1. u[q] = r[q] /\ r[q] # "none" /\ q \notin Region(p, is_dir) /\ t[q] = r[q]
      BY <2>2, <1>6 DEF RowsMoved, Agree
    <3>2. q \notin Subtree(p)
      BY <3>1, <1>3, RegionIs DEF Subtree
    <3>3. q # n
      BY <3>1, RegionIs DEF check_destination_free
    <3>4. q \notin Subtree(n)
      BY <3>1, <3>3, <1>2 DEF Subtree
    <3>5. v[q] = IF q \in Ancestors(n) THEN "dir" ELSE t[q]
      BY <3>2, <3>4, <1>2, <1>4
    <3>6. t[q] \in {"dir"} \cup Contents
      BY <3>1 DEF Tree, Kinds
    <3> QED BY <3>1, <3>5, <3>6, <1>5
  <2> QED BY <2>1, <2>2
<1>7. ASSUME NEW q \in Paths, v[q] \in Contents PROVE u[q] = v[q]
  <2>1. CASE q \in Subtree(n)
    <3> DEFINE x == Rebased(n, p, q)
    <3>1. x \in Paths /\ v[q] = t[x]
      BY <2>1, <1>2, <1>7, KindsApart
    <3>2. r[x] = t[x] /\ r[x] # "none"
      BY <3>1, <1>7, KindsApart DEF Agree
    <3>3. q \in Region(n, is_dir)
      <4>1. CASE is_dir
        BY <2>1, <4>1 DEF Region
      <4>2. CASE ~ is_dir
        <5>1. x \notin Under(p)
          BY <4>2, <3>1, <1>3, <1>7, KindsApart
        <5>2. q = n
          BY <5>1, <3>1, <2>1, RebasedBelow
        <5> QED BY <5>2, RegionIs
      <4> QED BY <4>1, <4>2
    <3> QED BY <3>1, <3>2, <3>3 DEF RowsMoved
  <2>2. CASE q \notin Subtree(n)
    <3>1. q \notin Subtree(p) /\ v[q] = MadeDirs(t, n)[q]
      BY <2>2, <1>2, <1>7, KindsApart
    <3>2. v[q] = t[q]
      BY <3>1, <1>4, <1>7, KindsApart
    <3>3. r[q] = t[q]
      BY <3>2, <1>7 DEF Agree
    <3>4. q \notin Region(n, is_dir) /\ q \notin Region(p, is_dir)
      BY <2>2, <3>1, RegionIs
    <3> QED BY <3>2, <3>3, <3>4 DEF RowsMoved
  <2> QED BY <2>1, <2>2
<1> QED BY <1>6, <1>7 DEF Agree, v

(* What a call's step says of the call: the operations that pass through it, *)
(* the one path a call for one file works on, and what it has there.         *)
ShapeOK(k) ==
  /\ k.pc \in {"wipe", "extract", "upsert"} => k.op = "archive"
  /\ k.pc = "processing" => k.op \in {"archive", "regenerate"}
  /\ k.op = "archive" /\ k.pc \in {"processing", "wipe", "extract"} => IsTree(k.tree)
  /\ k.pc \in {"place", "upsertOne"} => k.op \in {"file", "folder"}
  /\ k.pc = "hash" => k.op \in {"file", "rehash"}
  /\ k.pc = "update" => k.op \in {"toggle", "rehash"}
  /\ k.pc \in {"rows", "unlink"} => k.op = "delete"
  /\ k.pc = "move" => k.op \in {"move", "batch"}
  /\ k.pc \in {"dropRow", "rmdir"} => k.op = "drop"
  /\ k.pc \in {"probe", "write", "fill", "publish"} => k.built \in Manifest
  /\ k.pc \in {"place", "hash", "upsertOne", "update"} =>
        \E p \in Paths :
          /\ k.entries = {p}
          /\ k.op = "file" \/ (k.op = "rehash" /\ k.pc = "update") => k.tree[p] \in Contents
          /\ k.op = "folder" => k.tree[p] = "dir"

(* The rows a toggle or a rehash will update still exist.                    *)
RefsOK(k, r) == k.op \in {"toggle", "rehash"} => \A p \in k.refs : r[p] # "none"

(* The types of everything but the calls.                                    *)
RestOK ==
  /\ status \in {"none", "draft", "processing", "ready", "failed"}
  /\ rows \in Tree
  /\ once \subseteq {p \in Paths : rows[p] # "none"}
  /\ files \in Tree
  /\ manifest \in Manifest \cup {Absent, Partial}
  /\ tmp \in Manifest \cup {Absent, Partial}
  /\ breaks \in 0 .. MaxBreaks /\ made \in 0 .. MaxCalls
  /\ drift \in BOOLEAN /\ apart \in BOOLEAN

(* TypeOK strengthened by what the step of a call says of it.                *)
TypeInv ==
  /\ RestOK
  /\ call \in [Calls -> Call \cup {Idle}]
  /\ \A c \in Calls : call[c] # Idle => ShapeOK(call[c]) /\ RefsOK(call[c], rows)

LEMMA TypeInvTyped == TypeInv => TypeOK
  BY DEF TypeInv, RestOK, TypeOK

LEMMA IdleIsNoCall == \A k \in Call : k # Idle /\ k.pc # "idle"
  BY DEF Call, Idle, Steps

LEMMA AtCall ==
  ASSUME TypeInv, NEW c \in Calls, NEW pc \in Steps, At(c, pc)
  PROVE  call[c] \in Call /\ call[c] # Idle /\ call[c].pc = pc /\ ShapeOK(call[c])
         /\ RefsOK(call[c], rows)
<1>1. call[c] # Idle
  BY DEF At, Idle, Steps
<1> QED BY <1>1 DEF TypeInv, At

(* A step that changes one call and removes no row keeps the types.          *)
LEMMA TypeStep ==
  ASSUME TypeInv, NEW c \in Calls, NEW q \in Call \cup {Idle}, Now(c, q),
         q # Idle => ShapeOK(q) /\ RefsOK(q, rows'),
         RestOK', \A p \in Paths : rows[p] # "none" => rows'[p] # "none"
  PROVE  TypeInv'
<1>1. call' \in [Calls -> Call \cup {Idle}] /\ call'[c] = q
      /\ \A d \in Calls \ {c} : call'[d] = call[d]
  BY DEF Now, TypeInv
<1>2. ASSUME NEW d \in Calls \ {c}, call[d] # Idle PROVE ShapeOK(call[d]) /\ RefsOK(call[d], rows')
  <2>1. ShapeOK(call[d]) /\ RefsOK(call[d], rows) /\ call[d].refs \subseteq Paths
    BY <1>2 DEF TypeInv, Call
  <2> QED BY <2>1 DEF RefsOK
<1>3. ASSUME NEW d \in Calls, call'[d] # Idle PROVE ShapeOK(call'[d]) /\ RefsOK(call'[d], rows')
  BY <1>1, <1>2, <1>3
<1> QED BY <1>1, <1>3 DEF TypeInv

LEMMA SetProcessingType == ASSUME TypeInv, NEW c \in Calls, SetProcessing(c) PROVE TypeInv'
<1>1. call[c] \in Call /\ call[c].pc = "processing" /\ ShapeOK(call[c]) /\ RefsOK(call[c], rows)
  BY AtCall DEF SetProcessing, Steps
<1> DEFINE q == [call[c] EXCEPT !.pc = IF call[c].op = "archive" THEN "wipe" ELSE "list"]
<1>2. /\ q \in Call /\ q.op = call[c].op /\ q.tree = call[c].tree /\ q.refs = call[c].refs
      /\ q.pc = IF call[c].op = "archive" THEN "wipe" ELSE "list"
  BY <1>1 DEF Call, Steps
<1>3. Now(c, q)
  BY DEF SetProcessing, Step
<1>4. RestOK' /\ rows' = rows
  BY DEF SetProcessing, TypeInv, RestOK, store, bounds, history
<1> HIDE DEF q
<1>5. ShapeOK(q) /\ RefsOK(q, rows')
  BY <1>1, <1>2, <1>4 DEF ShapeOK, RefsOK
<1> QED BY <1>2, <1>3, <1>4, <1>5, TypeStep

LEMMA WipeFilesType == ASSUME TypeInv, NEW c \in Calls, WipeFiles(c) PROVE TypeInv'
<1>1. call[c] \in Call /\ call[c].pc = "wipe" /\ ShapeOK(call[c]) /\ RefsOK(call[c], rows)
  BY AtCall DEF WipeFiles, Steps
<1> DEFINE q == [call[c] EXCEPT !.pc = "extract"]
<1>2. /\ q \in Call /\ q.op = call[c].op /\ q.tree = call[c].tree /\ q.refs = call[c].refs
      /\ q.pc = "extract" /\ q.built = call[c].built
  BY <1>1 DEF Call, Steps
<1>3. Now(c, q)
  BY DEF WipeFiles, Step
<1>4. RestOK' /\ rows' = rows
  BY <1>1 DEF WipeFiles, TypeInv, RestOK, table, bounds, Empty, Tree, Kinds
<1> HIDE DEF q
<1>5. ShapeOK(q) /\ RefsOK(q, rows')
  BY <1>1, <1>2, <1>4 DEF ShapeOK, RefsOK
<1> QED BY <1>2, <1>3, <1>4, <1>5, TypeStep

LEMMA ExtractAndScanType ==
  ASSUME TypeInv, NEW c \in Calls, ExtractAndScan(c)
  PROVE  TypeInv'
<1>1. call[c] \in Call /\ call[c].pc = "extract" /\ ShapeOK(call[c]) /\ RefsOK(call[c], rows)
  BY AtCall DEF ExtractAndScan, Steps
<1>2. call[c].tree \in Tree /\ call[c].op = "archive" /\ files \in Tree
  BY <1>1 DEF Call, ShapeOK, TypeInv, RestOK
<1>3. \A ps : Extracted(call[c].tree, ps) \in Tree
  BY <1>2 DEF Extracted, Tree
<1>4. files' \in Tree
  BY <1>3 DEF ExtractAndScan
<1>5. RestOK' /\ rows' = rows
  BY <1>4 DEF ExtractAndScan, TypeInv, RestOK, table, bounds, history
<1>6. PICK q : Now(c, q) /\ (q = Idle \/ q = [call[c] EXCEPT !.pc = "failed"]
                              \/ q = [call[c] EXCEPT !.pc = "upsert", !.tree = files'])
  BY DEF ExtractAndScan, StepOrGone
<1>7. q \in Call \cup {Idle} /\ (q # Idle => q.op = "archive" /\ q.pc \in {"failed", "upsert"})
  BY <1>1, <1>2, <1>4, <1>6 DEF Call, Steps
<1>8. q # Idle => ShapeOK(q) /\ RefsOK(q, rows')
  BY <1>7 DEF ShapeOK, RefsOK
<1> QED BY <1>5, <1>6, <1>7, <1>8, TypeStep

(* The end of a call is typed whatever it was.                               *)
LEMMA EndType ==
  ASSUME TypeInv, NEW c \in Calls, End(c), RestOK', \A p \in Paths : rows[p] # "none" => rows'[p] # "none"
  PROVE  TypeInv'
  BY TypeStep DEF End

LEMMA OnErrorType ==
  ASSUME TypeInv, NEW c \in Calls, call[c] # Idle, OnError(c), RestOK',
         \A p \in Paths : rows[p] # "none" => rows'[p] # "none"
  PROVE  TypeInv'
<1>1. CASE call[c].op \in {"archive", "regenerate"}
  <2> DEFINE q == [call[c] EXCEPT !.pc = "failed"]
  <2>1. call[c] \in Call
    BY DEF TypeInv
  <2>2. q \in Call /\ q.op = call[c].op /\ q.pc = "failed"
    BY <2>1 DEF Call, Steps
  <2>3. Now(c, q)
    BY <1>1 DEF OnError, Step
  <2> HIDE DEF q
  <2>4. ShapeOK(q) /\ RefsOK(q, rows')
    BY <1>1, <2>2 DEF ShapeOK, RefsOK
  <2> QED BY <2>2, <2>3, <2>4, TypeStep
<1>2. CASE call[c].op \notin {"archive", "regenerate"}
  BY <1>2, EndType DEF OnError
<1> QED BY <1>1, <1>2

LEMMA UpsertScanType == ASSUME TypeInv, NEW c \in Calls, UpsertScan(c) PROVE TypeInv'
<1>1. /\ call[c] \in Call /\ call[c] # Idle /\ call[c].pc = "upsert" /\ ShapeOK(call[c])
      /\ RefsOK(call[c], rows)
  BY AtCall DEF UpsertScan, Steps
<1>2. CASE ~ call[c].live
  <2>1. RestOK' /\ rows' = rows /\ OnError(c)
    BY <1>2 DEF UpsertScan, TypeInv, RestOK, store, bounds
  <2> QED BY <1>1, <2>1, OnErrorType
<1>3. CASE call[c].live
  <2>1. call[c].tree \in Tree /\ call[c].alone \in BOOLEAN
    BY <1>1 DEF Call
  <2>2. rows' = call[c].tree /\ once' = {p \in once : call[c].tree[p] # "none"} /\ apart' = ~ call[c].alone
    BY <1>3 DEF UpsertScan
  <2>3. RestOK'
    BY <2>1, <2>2 DEF UpsertScan, TypeInv, RestOK, store, bounds
  <2>4. call' = [d \in Calls |-> IF d = c THEN [call[c] EXCEPT !.pc = "list"]
                   ELSE IF call[d] = Idle THEN Idle
                   ELSE [call[d] EXCEPT !.refs = {p \in @ : rows'[p] # "none"}]]
    BY <1>3 DEF UpsertScan, NowAll
  <2>5. ASSUME NEW d \in Calls
        PROVE  /\ call'[d] \in Call \cup {Idle}
               /\ call'[d] # Idle => ShapeOK(call'[d]) /\ RefsOK(call'[d], rows')
    <3>1. CASE d = c
      <4>1. call'[d] = [call[c] EXCEPT !.pc = "list"]
        BY <2>4, <3>1
      <4>2. call'[d] \in Call /\ call'[d].pc = "list" /\ call'[d].op = "archive"
        BY <4>1, <1>1 DEF Call, Steps, ShapeOK
      <4> QED BY <4>2 DEF ShapeOK, RefsOK
    <3>2. CASE d # c /\ call[d] = Idle
      BY <2>4, <3>2
    <3>3. CASE d # c /\ call[d] # Idle
      <4> DEFINE q == [call[d] EXCEPT !.refs = {p \in @ : rows'[p] # "none"}]
      <4>1. call'[d] = q /\ call[d] \in Call /\ ShapeOK(call[d])
        BY <2>4, <3>3 DEF TypeInv
      <4>2. /\ q \in Call /\ q.op = call[d].op /\ q.pc = call[d].pc /\ q.tree = call[d].tree
            /\ q.entries = call[d].entries /\ q.built = call[d].built
            /\ q.refs = {p \in call[d].refs : rows'[p] # "none"}
        BY <4>1 DEF Call
      <4> HIDE DEF q
      <4>3. ShapeOK(q) /\ RefsOK(q, rows')
        BY <4>1, <4>2 DEF ShapeOK, RefsOK
      <4> QED BY <4>1, <4>2, <4>3
    <3> QED BY <3>1, <3>2, <3>3
  <2>6. call' \in [Calls -> Call \cup {Idle}]
    BY <2>4, <2>5
  <2> QED BY <2>3, <2>5, <2>6 DEF TypeInv
<1> QED BY <1>2, <1>3

LEMMA SetFailedType == ASSUME TypeInv, NEW c \in Calls, SetFailed(c) PROVE TypeInv'
<1>1. RestOK' /\ rows' = rows /\ End(c)
  BY DEF SetFailed, TypeInv, RestOK, store, bounds
<1> QED BY <1>1, EndType

LEMMA PlaceOnDiskType == ASSUME TypeInv, NEW c \in Calls, PlaceOnDisk(c) PROVE TypeInv'
<1>1. /\ call[c] \in Call /\ call[c].pc = "place" /\ ShapeOK(call[c]) /\ RefsOK(call[c], rows)
  BY AtCall DEF PlaceOnDisk, Steps
<1>2. PICK p \in Paths : /\ call[c].entries = {p}
                         /\ call[c].op = "file" => call[c].tree[p] \in Contents
                         /\ call[c].op = "folder" => call[c].tree[p] = "dir"
  BY <1>1 DEF ShapeOK
<1>3. call[c].op \in {"file", "folder"} /\ call[c].tree \in Tree /\ files \in Tree
  BY <1>1 DEF ShapeOK, Call, TypeInv, RestOK
<1>4. rows' = rows /\ status' = status /\ once' = once /\ manifest' = manifest /\ tmp' = tmp
      /\ breaks' = breaks /\ made' = made /\ drift' = drift /\ apart' = apart
  BY DEF PlaceOnDisk, table, bounds, history
<1>5. CASE CanPlace(files, p, call[c].tree[p])
  <2>1. files' = Placed(files, p, call[c].tree[p])
        /\ Step(c, IF call[c].op = "file" THEN "hash" ELSE "upsertOne")
    BY <1>2, <1>5 DEF PlaceOnDisk
  <2>2. files' \in Tree
    BY <1>3, <2>1 DEF Placed, MadeDirs, Tree, Kinds
  <2>3. RestOK'
    BY <2>2, <1>4 DEF TypeInv, RestOK
  <2> DEFINE q == [call[c] EXCEPT !.pc = IF call[c].op = "file" THEN "hash" ELSE "upsertOne"]
  <2>4. /\ q \in Call /\ q.op = call[c].op /\ q.tree = call[c].tree /\ q.refs = call[c].refs
        /\ q.pc = (IF call[c].op = "file" THEN "hash" ELSE "upsertOne") /\ q.entries = call[c].entries
    BY <1>1 DEF Call, Steps
  <2>5. Now(c, q)
    BY <2>1 DEF Step
  <2> HIDE DEF q
  <2>6. ShapeOK(q) /\ RefsOK(q, rows')
    BY <1>2, <1>3, <2>4 DEF ShapeOK, RefsOK
  <2> QED BY <1>4, <2>3, <2>4, <2>5, <2>6, TypeStep
<1>6. CASE ~ CanPlace(files, p, call[c].tree[p])
  <2>1. files' = files /\ End(c)
    BY <1>2, <1>6 DEF PlaceOnDisk
  <2>2. RestOK'
    BY <2>1, <1>4 DEF TypeInv, RestOK
  <2> QED BY <1>4, <2>1, <2>2, EndType
<1> QED BY <1>5, <1>6

LEMMA HashFileType == ASSUME TypeInv, NEW c \in Calls, HashFile(c) PROVE TypeInv'
<1>1. /\ call[c] \in Call /\ call[c].pc = "hash" /\ ShapeOK(call[c]) /\ RefsOK(call[c], rows)
  BY AtCall DEF HashFile, Steps
<1>2. PICK p \in Paths : /\ call[c].entries = {p}
                         /\ call[c].op = "file" => call[c].tree[p] \in Contents
  BY <1>1 DEF ShapeOK
<1>3. call[c].op \in {"file", "rehash"} /\ call[c].tree \in Tree /\ files \in Tree
  BY <1>1 DEF ShapeOK, Call, TypeInv, RestOK
<1>4. RestOK' /\ rows' = rows
  BY DEF HashFile, table, store, bounds, history, TypeInv, RestOK
<1>5. CASE files[p] \in Contents
  <2> DEFINE pc == IF call[c].op = "file" THEN "upsertOne" ELSE "update"
             q == [call[c] EXCEPT !.pc = pc, !.tree = [@ EXCEPT ![p] = files[p]]]
  <2>1. Now(c, q)
    BY <1>2, <1>5 DEF HashFile
  <2>2. [call[c].tree EXCEPT ![p] = files[p]] \in Tree
    BY <1>3 DEF Tree
  <2>3. /\ q \in Call /\ q.op = call[c].op /\ q.tree = [call[c].tree EXCEPT ![p] = files[p]]
        /\ q.refs = call[c].refs /\ q.pc = pc /\ q.entries = call[c].entries
    BY <1>1, <2>2 DEF Call, Steps
  <2>4. q.tree[p] \in Contents
    BY <2>3, <1>3, <1>5 DEF Tree
  <2> HIDE DEF q
  <2>5. ShapeOK(q) /\ RefsOK(q, rows')
    BY <1>1, <1>2, <1>3, <1>4, <2>3, <2>4 DEF ShapeOK, RefsOK
  <2> QED BY <1>4, <2>1, <2>3, <2>5, TypeStep
<1>6. CASE files[p] \notin Contents
  BY <1>2, <1>4, <1>6, EndType DEF HashFile
<1> QED BY <1>5, <1>6

LEMMA UpsertArtifactType == ASSUME TypeInv, NEW c \in Calls, UpsertArtifact(c) PROVE TypeInv'
<1>1. /\ call[c] \in Call /\ call[c].pc = "upsertOne" /\ ShapeOK(call[c]) /\ RefsOK(call[c], rows)
  BY AtCall DEF UpsertArtifact, Steps
<1>2. PICK p \in Paths : /\ call[c].entries = {p}
                         /\ call[c].op = "file" => call[c].tree[p] \in Contents
  BY <1>1 DEF ShapeOK
<1>3. call[c].op \in {"file", "folder"} /\ rows \in Tree
  BY <1>1 DEF ShapeOK, TypeInv, RestOK
<1>4. /\ status' = status /\ once' = once /\ files' = files /\ manifest' = manifest /\ tmp' = tmp
      /\ breaks' = breaks /\ made' = made /\ drift' = drift /\ apart' = apart
  BY DEF UpsertArtifact, store, bounds, history
<1>5. CASE call[c].live
  <2>1. /\ rows' = IF call[c].op = "file" THEN [rows EXCEPT ![p] = call[c].tree[p]]
                    ELSE Placed(rows, p, "dir")
        /\ Step(c, "list")
    BY <1>2, <1>5 DEF UpsertArtifact
  <2>2. rows' \in Tree /\ \A x \in Paths : rows[x] # "none" => rows'[x] # "none"
    BY <2>1, <1>2, <1>3, BundleAssumption DEF Placed, MadeDirs, Tree, Kinds
  <2>3. RestOK'
    BY <2>2, <1>4 DEF TypeInv, RestOK
  <2> DEFINE q == [call[c] EXCEPT !.pc = "list"]
  <2>4. q \in Call /\ q.op = call[c].op /\ q.pc = "list"
    BY <1>1 DEF Call, Steps
  <2>5. Now(c, q)
    BY <2>1 DEF Step
  <2> HIDE DEF q
  <2>6. ShapeOK(q) /\ RefsOK(q, rows')
    BY <1>3, <2>4 DEF ShapeOK, RefsOK
  <2> QED BY <2>2, <2>3, <2>4, <2>5, <2>6, TypeStep
<1>6. CASE ~ call[c].live
  <2>1. rows' = rows /\ End(c)
    BY <1>6 DEF UpsertArtifact
  <2>2. RestOK'
    BY <2>1, <1>4 DEF TypeInv, RestOK
  <2> QED BY <2>1, <2>2, EndType
<1> QED BY <1>5, <1>6

LEMMA UpdateRowType == ASSUME TypeInv, NEW c \in Calls, UpdateRow(c) PROVE TypeInv'
<1>1. /\ call[c] \in Call /\ call[c].pc = "update" /\ ShapeOK(call[c]) /\ RefsOK(call[c], rows)
  BY AtCall DEF UpdateRow, Steps
<1>2. PICK p \in Paths : /\ call[c].entries = {p}
                         /\ call[c].op = "rehash" => call[c].tree[p] \in Contents
  BY <1>1 DEF ShapeOK
<1>3. /\ call[c].op \in {"toggle", "rehash"} /\ rows \in Tree /\ call[c].refs \subseteq Paths
      /\ \A x \in call[c].refs : rows[x] # "none"
  BY <1>1 DEF ShapeOK, RefsOK, TypeInv, RestOK, Call
<1>4. /\ status' = status /\ files' = files /\ manifest' = manifest /\ tmp' = tmp
      /\ breaks' = breaks /\ made' = made /\ drift' = drift /\ apart' = apart /\ Step(c, "list")
  BY DEF UpdateRow, store, bounds, history
<1>5. /\ rows' \in Tree /\ \A x \in Paths : rows[x] # "none" => rows'[x] # "none"
      /\ once' \subseteq {x \in Paths : rows'[x] # "none"}
  <2>1. CASE call[c].op = "toggle"
    <3>1. rows' = rows /\ once' \subseteq once \cup call[c].refs
      BY <2>1 DEF UpdateRow
    <3> QED BY <3>1, <1>3 DEF TypeInv, RestOK
  <2>2. CASE call[c].op = "rehash"
    <3>1. (CHOOSE x \in call[c].entries : TRUE) = p
      BY <1>2
    <3>2. /\ once' = once
          /\ rows' = [x \in Paths |-> IF x \in call[c].refs THEN call[c].tree[p] ELSE rows[x]]
      BY <2>2, <3>1 DEF UpdateRow
    <3>3. call[c].tree[p] \in Contents
      BY <1>2, <2>2
    <3>4. rows' \in Tree /\ \A x \in Paths : rows[x] # "none" => rows'[x] # "none"
      BY <3>2, <3>3, <1>3, BundleAssumption DEF Tree, Kinds
    <3> QED BY <3>2, <3>4 DEF TypeInv, RestOK
  <2> QED BY <1>3, <2>1, <2>2
<1>6. RestOK'
  BY <1>4, <1>5 DEF TypeInv, RestOK
<1> DEFINE q == [call[c] EXCEPT !.pc = "list"]
<1>7. q \in Call /\ q.op = call[c].op /\ q.pc = "list" /\ q.refs = call[c].refs
  BY <1>1 DEF Call, Steps
<1>8. Now(c, q)
  BY <1>4 DEF Step
<1> HIDE DEF q
<1>9. ShapeOK(q) /\ RefsOK(q, rows')
  BY <1>3, <1>5, <1>7 DEF ShapeOK, RefsOK
<1> QED BY <1>5, <1>6, <1>7, <1>8, <1>9, TypeStep

(* A statement that takes rows away, and the refs of the other calls with    *)
(* them: pc is where the call itself goes on.                                *)
LEMMA RefsType ==
  ASSUME TypeInv, NEW c \in Calls, NEW q \in Call, ShapeOK(q), q.op \notin {"toggle", "rehash"},
         RestOK', call' = [d \in Calls |-> call'[d]], call'[c] = q,
         \A d \in Calls \ {c} : call[d] = Idle => call'[d] = Idle,
         \A d \in Calls \ {c} : call[d] # Idle =>
            \E R \in SUBSET Paths, v \in BOOLEAN :
               /\ call'[d] = [call[d] EXCEPT !.refs = R, !.live = v]
               /\ \A p \in R : RefsOK(call[d], rows) /\ call[d].op \in {"toggle", "rehash"} => rows'[p] # "none"
  PROVE  TypeInv'
<1>1. ASSUME NEW d \in Calls
      PROVE  /\ call'[d] \in Call \cup {Idle}
             /\ call'[d] # Idle => ShapeOK(call'[d]) /\ RefsOK(call'[d], rows')
  <2>1. CASE d = c
    BY <2>1 DEF RefsOK
  <2>2. CASE d # c /\ call[d] = Idle
    BY <2>2
  <2>3. CASE d # c /\ call[d] # Idle
    <3>1. PICK R \in SUBSET Paths, v \in BOOLEAN :
             /\ call'[d] = [call[d] EXCEPT !.refs = R, !.live = v]
             /\ \A p \in R : RefsOK(call[d], rows) /\ call[d].op \in {"toggle", "rehash"} => rows'[p] # "none"
      BY <2>3
    <3>2. call[d] \in Call /\ ShapeOK(call[d]) /\ RefsOK(call[d], rows)
      BY <2>3 DEF TypeInv
    <3>3. PICK k : k = call'[d] /\ k = [call[d] EXCEPT !.refs = R, !.live = v]
      BY <3>1
    <3>4. /\ k \in Call /\ k.op = call[d].op /\ k.pc = call[d].pc /\ k.tree = call[d].tree
          /\ k.entries = call[d].entries /\ k.built = call[d].built /\ k.refs = R
      BY ONLY <3>2, <3>3, R \in SUBSET Paths, v \in BOOLEAN DEF Call
    <3>5. ShapeOK(k)
      BY ONLY <3>2, <3>4 DEF ShapeOK
    <3>6. RefsOK(k, rows')
      BY <3>1, <3>2, <3>4 DEF RefsOK
    <3> QED BY <3>3, <3>4, <3>5, <3>6
  <2> QED BY <2>1, <2>2, <2>3
<1> QED BY <1>1 DEF TypeInv

LEMMA DeleteRowsType == ASSUME TypeInv, NEW c \in Calls, DeleteRows(c) PROVE TypeInv'
<1>1. call[c] \in Call /\ call[c].pc = "rows" /\ ShapeOK(call[c])
  BY AtCall DEF DeleteRows, Steps
<1>2. PICK D : D = DeletedRows(c)
  OBVIOUS
<1>3. /\ rows' = [p \in Paths |-> IF p \in D THEN "none" ELSE rows[p]] /\ once' = once \ D
      /\ call' = [d \in Calls |-> IF d = c THEN [call[c] EXCEPT !.pc = "unlink"]
                   ELSE IF call[d] = Idle THEN Idle ELSE [call[d] EXCEPT !.refs = @ \ D]]
  BY <1>2 DEF DeleteRows, NowAll
<1>4. RestOK'
  BY <1>3 DEF DeleteRows, TypeInv, RestOK, store, bounds, history, Tree, Kinds
<1> DEFINE q == [call[c] EXCEPT !.pc = "unlink"]
<1>5. q \in Call /\ q.op = "delete" /\ q.pc = "unlink"
  BY <1>1 DEF Call, Steps, ShapeOK
<1>6. call'[c] = q /\ call' = [d \in Calls |-> call'[d]]
  BY <1>3
<1> HIDE DEF q
<1>7. ShapeOK(q)
  BY <1>5 DEF ShapeOK
<1>8. ASSUME NEW d \in Calls \ {c}, call[d] # Idle
      PROVE  \E R \in SUBSET Paths, v \in BOOLEAN :
               /\ call'[d] = [call[d] EXCEPT !.refs = R, !.live = v]
               /\ \A p \in R : RefsOK(call[d], rows) /\ call[d].op \in {"toggle", "rehash"} => rows'[p] # "none"
  <2>1. call[d] \in Call
    BY <1>8 DEF TypeInv
  <2>2. call[d].refs \subseteq Paths /\ call[d].live \in BOOLEAN
    BY <2>1 DEF Call
  <2>3. call'[d] = [call[d] EXCEPT !.refs = call[d].refs \ D, !.live = call[d].live]
    BY <1>3, <1>8, <2>1 DEF Call
  <2>4. \A p \in call[d].refs \ D : rows'[p] = rows[p]
    BY <1>3, <2>2
  <2>5. \A p \in call[d].refs \ D :
           RefsOK(call[d], rows) /\ call[d].op \in {"toggle", "rehash"} => rows'[p] # "none"
    BY <2>4 DEF RefsOK
  <2> QED BY <2>2, <2>3, <2>5
<1>9. \A d \in Calls \ {c} : call[d] = Idle => call'[d] = Idle
  BY <1>3
<1> QED BY <1>4, <1>5, <1>6, <1>7, <1>8, <1>9, RefsType

LEMMA UnlinkEntriesType == ASSUME TypeInv, NEW c \in Calls, UnlinkEntries(c) PROVE TypeInv'
<1>1. call[c] \in Call /\ call[c].pc = "unlink" /\ ShapeOK(call[c]) /\ RefsOK(call[c], rows)
  BY AtCall DEF UnlinkEntries, Steps
<1> DEFINE q == [call[c] EXCEPT !.pc = "list"]
<1>2. /\ q \in Call /\ q.op = call[c].op /\ q.tree = call[c].tree /\ q.refs = call[c].refs
      /\ q.pc = "list" /\ q.built = call[c].built
  BY <1>1 DEF Call, Steps
<1>3. Now(c, q)
  BY DEF UnlinkEntries, Step
<1>4. RestOK' /\ rows' = rows
  BY <1>1 DEF UnlinkEntries, TypeInv, RestOK, table, bounds, history, Tree, Kinds
<1> HIDE DEF q
<1>5. ShapeOK(q) /\ RefsOK(q, rows')
  BY <1>1, <1>2, <1>4 DEF ShapeOK, RefsOK
<1> QED BY <1>2, <1>3, <1>4, <1>5, TypeStep

LEMMA BeginWriteType == ASSUME TypeInv, NEW c \in Calls, BeginWrite(c) PROVE TypeInv'
<1>1. call[c] \in Call /\ call[c].pc = "write" /\ ShapeOK(call[c]) /\ RefsOK(call[c], rows)
  BY AtCall DEF BeginWrite, Steps
<1> DEFINE q == [call[c] EXCEPT !.pc = "fill", !.out = "tmp"]
<1>2. /\ q \in Call /\ q.op = call[c].op /\ q.tree = call[c].tree /\ q.refs = call[c].refs
      /\ q.pc = "fill" /\ q.built = call[c].built
  BY <1>1 DEF Call, Steps
<1>3. Now(c, q)
  BY DEF BeginWrite
<1>4. RestOK' /\ rows' = rows
  BY <1>1 DEF BeginWrite, TypeInv, RestOK, table, bounds, history
<1> HIDE DEF q
<1>5. ShapeOK(q) /\ RefsOK(q, rows')
  BY <1>1, <1>2, <1>4 DEF ShapeOK, RefsOK
<1> QED BY <1>2, <1>3, <1>4, <1>5, TypeStep

LEMMA EndWriteType == ASSUME TypeInv, NEW c \in Calls, EndWrite(c) PROVE TypeInv'
<1>1. call[c] \in Call /\ call[c].pc = "fill" /\ ShapeOK(call[c]) /\ RefsOK(call[c], rows)
  BY AtCall DEF EndWrite, Steps
<1> DEFINE q == [call[c] EXCEPT !.pc = "publish"]
<1>2. /\ q \in Call /\ q.op = call[c].op /\ q.refs = call[c].refs
      /\ q.pc = "publish" /\ q.built = call[c].built
  BY <1>1 DEF Call, Steps
<1>3. Now(c, q)
  BY DEF EndWrite, Step
<1>4. call[c].built \in Manifest
  BY <1>1 DEF ShapeOK
<1>5. RestOK' /\ rows' = rows
  BY <1>4 DEF EndWrite, Overwritten, TypeInv, RestOK, table, bounds, history
<1> HIDE DEF q
<1>6. ShapeOK(q) /\ RefsOK(q, rows')
  BY <1>1, <1>2, <1>4, <1>5 DEF ShapeOK, RefsOK
<1> QED BY <1>2, <1>3, <1>5, <1>6, TypeStep

LEMMA ListArtifactsType == ASSUME TypeInv, NEW c \in Calls, ListArtifacts(c) PROVE TypeInv'
<1>1. call[c] \in Call /\ call[c].pc = "list" /\ ShapeOK(call[c]) /\ RefsOK(call[c], rows)
  BY AtCall DEF ListArtifacts, Steps
<1> DEFINE b == [tree |-> IF call[c].live THEN rows ELSE Empty, once |-> IF call[c].live THEN once ELSE {}]
           q == [call[c] EXCEPT !.pc = "probe", !.built = b]
<1>2. b \in Manifest
  BY DEF Manifest, TypeInv, RestOK, Empty, Tree, Kinds
<1>3. /\ q \in Call /\ q.op = call[c].op /\ q.refs = call[c].refs
      /\ q.pc = "probe" /\ q.built = b
  BY <1>1, <1>2 DEF Call, Steps
<1>4. Now(c, q)
  BY DEF ListArtifacts
<1>5. RestOK' /\ rows' = rows
  BY DEF ListArtifacts, TypeInv, RestOK, table, store, bounds, history
<1> HIDE DEF q, b
<1>6. ShapeOK(q) /\ RefsOK(q, rows')
  BY <1>1, <1>2, <1>3, <1>5 DEF ShapeOK, RefsOK
<1> QED BY <1>3, <1>4, <1>5, <1>6, TypeStep

(* What build_manifest makes of the rows it was given.                       *)
Present(b) == {p \in Paths : b.tree[p] # "none" /\ files[p] # "none"}
Filtered(b) == [tree |-> [p \in Paths |-> IF p \in Present(b) THEN b.tree[p] ELSE "none"],
                once |-> b.once \cap Present(b)]

LEMMA FilteredType == ASSUME NEW b \in Manifest PROVE Filtered(b) \in Manifest
  BY DEF Filtered, Present, Manifest, Tree, Kinds

LEMMA BuildManifestType == ASSUME TypeInv, NEW c \in Calls, BuildManifest(c) PROVE TypeInv'
<1>1. call[c] \in Call /\ call[c].pc = "probe" /\ ShapeOK(call[c]) /\ RefsOK(call[c], rows)
  BY AtCall DEF BuildManifest, Steps
<1> DEFINE b == Filtered(call[c].built)
           q == [call[c] EXCEPT !.pc = "write", !.built = b]
<1>2. b \in Manifest
  BY <1>1, FilteredType DEF ShapeOK
<1>3. Now(c, q)
  BY DEF BuildManifest, Filtered, Present
<1> HIDE DEF b
<1>4. /\ q \in Call /\ q.op = call[c].op /\ q.refs = call[c].refs
      /\ q.pc = "write" /\ q.built = b
  BY <1>1, <1>2 DEF Call, Steps
<1>5. RestOK' /\ rows' = rows
  BY DEF BuildManifest, TypeInv, RestOK, table, store, bounds, history
<1> HIDE DEF q
<1>6. ShapeOK(q) /\ RefsOK(q, rows')
  BY <1>1, <1>2, <1>4, <1>5 DEF ShapeOK, RefsOK
<1> QED BY <1>3, <1>4, <1>5, <1>6, TypeStep

(* A step that changes one call, and what the others hold open.              *)
LEMMA OutStep ==
  ASSUME TypeInv, NEW c \in Calls, NEW q \in Call \cup {Idle}, RestOK', rows' = rows,
         q # Idle => ShapeOK(q) /\ RefsOK(q, rows'),
         call'[c] = q, call' = [d \in Calls |-> call'[d]],
         \A d \in Calls \ {c} : call[d] = Idle => call'[d] = Idle,
         \A d \in Calls \ {c} : call[d] # Idle =>
            \E o \in {"tmp", "manifest", "lost"} : call'[d] = [call[d] EXCEPT !.out = o]
  PROVE  TypeInv'
<1>1. ASSUME NEW d \in Calls \ {c}, call[d] # Idle
      PROVE  call'[d] \in Call /\ ShapeOK(call'[d]) /\ RefsOK(call'[d], rows')
  <2>1. call[d] \in Call /\ ShapeOK(call[d]) /\ RefsOK(call[d], rows)
    BY <1>1 DEF TypeInv
  <2>2. PICK o \in {"tmp", "manifest", "lost"} : call'[d] = [call[d] EXCEPT !.out = o]
    BY <1>1
  <2>3. PICK k : k = call'[d]
    OBVIOUS
  <2>4. /\ k \in Call /\ k.op = call[d].op /\ k.pc = call[d].pc /\ k.tree = call[d].tree
        /\ k.entries = call[d].entries /\ k.built = call[d].built /\ k.refs = call[d].refs
    BY <2>1, <2>2, <2>3 DEF Call
  <2>5. ShapeOK(k)
    BY <2>1, <2>4 DEF ShapeOK
  <2>6. RefsOK(k, rows')
    BY <2>1, <2>4 DEF RefsOK
  <2> QED BY <2>3, <2>4, <2>5, <2>6
<1>2. ASSUME NEW d \in Calls
      PROVE  /\ call'[d] \in Call \cup {Idle}
             /\ call'[d] # Idle => ShapeOK(call'[d]) /\ RefsOK(call'[d], rows')
  BY <1>1
<1>3. call' \in [Calls -> Call \cup {Idle}]
  BY <1>2
<1> QED BY <1>2, <1>3 DEF TypeInv

(* What a rename or a removal does to the files other calls hold open.       *)
LEMMA OutMoves ==
  ASSUME TypeInv, NEW c \in Calls,
         (PublishManifest(c) /\ tmp # Absent) \/ RemoveBundleDir(c)
  PROVE  /\ call' = [d \in Calls |-> call'[d]]
         /\ PublishManifest(c) =>
              call'[c] = IF call[c].gone THEN Idle ELSE [call[c] EXCEPT !.pc = "ready"]
         /\ RemoveBundleDir(c) => call'[c] = Idle
         /\ \A d \in Calls \ {c} : call[d] = Idle => call'[d] = Idle
         /\ \A d \in Calls \ {c} : call[d] # Idle =>
              \E o \in {"tmp", "manifest", "lost"} : call'[d] = [call[d] EXCEPT !.out = o]
<1>1. CASE PublishManifest(c) /\ tmp # Absent
  <2>1. call' = [d \in Calls |->
                   IF d = c THEN IF call[c].gone THEN Idle ELSE [call[c] EXCEPT !.pc = "ready"]
                   ELSE IF call[d] = Idle THEN Idle
                   ELSE [call[d] EXCEPT !.out = IF @ = "tmp" THEN "manifest" ELSE "lost"]]
    BY <1>1 DEF PublishManifest, NowAll
  <2>2. ~ RemoveBundleDir(c)
    BY <1>1 DEF PublishManifest, RemoveBundleDir, At
  <2> QED BY <2>1, <2>2
<1>2. CASE RemoveBundleDir(c)
  <2>1. call' = [d \in Calls |-> IF d = c THEN Idle ELSE IF call[d] = Idle THEN Idle
                                 ELSE [call[d] EXCEPT !.out = "lost"]]
    BY <1>2 DEF RemoveBundleDir, NowAll
  <2>2. ~ PublishManifest(c)
    BY <1>2 DEF PublishManifest, RemoveBundleDir, At
  <2> QED BY <2>1, <2>2
<1> QED BY <1>1, <1>2

LEMMA PublishManifestType == ASSUME TypeInv, NEW c \in Calls, PublishManifest(c) PROVE TypeInv'
<1>1. /\ call[c] \in Call /\ call[c] # Idle /\ call[c].pc = "publish"
      /\ ShapeOK(call[c]) /\ RefsOK(call[c], rows)
  BY AtCall DEF PublishManifest, Steps
<1>2. RestOK' /\ rows' = rows
  BY DEF PublishManifest, TypeInv, RestOK, table, bounds, history, Absent
<1>3. CASE tmp = Absent
  BY <1>1, <1>2, <1>3, OnErrorType DEF PublishManifest
<1>4. CASE tmp # Absent
  <2>1. PICK q : q = call'[c] /\ (q = Idle \/ q = [call[c] EXCEPT !.pc = "ready"])
    BY <1>4, OutMoves
  <2>2. q \in Call \cup {Idle} /\ (q # Idle => q.pc = "ready" /\ q.op = call[c].op /\ q.refs = call[c].refs)
    BY <1>1, <2>1 DEF Call, Steps
  <2>3. q # Idle => ShapeOK(q) /\ RefsOK(q, rows')
    BY <1>1, <1>2, <2>2 DEF ShapeOK, RefsOK
  <2> QED BY <1>2, <1>4, <2>1, <2>2, <2>3, OutMoves, OutStep
<1> QED BY <1>3, <1>4

LEMMA MarkReadyType == ASSUME TypeInv, NEW c \in Calls, MarkReady(c) PROVE TypeInv'
<1>1. call[c] \in Call /\ call[c] # Idle /\ call[c].pc = "ready"
  BY AtCall DEF MarkReady, Steps
<1>2. RestOK' /\ rows' = rows
  BY DEF MarkReady, TypeInv, RestOK, store, bounds
<1>3. CASE call[c].live
  BY <1>2, <1>3, EndType DEF MarkReady
<1>4. CASE ~ call[c].live
  BY <1>1, <1>2, <1>4, OnErrorType DEF MarkReady
<1> QED BY <1>3, <1>4

LEMMA DeleteBundleRowType == ASSUME TypeInv, NEW c \in Calls, DeleteBundleRow(c) PROVE TypeInv'
<1>1. call[c] \in Call /\ call[c].pc = "dropRow" /\ ShapeOK(call[c]) /\ RefsOK(call[c], rows)
  BY AtCall DEF DeleteBundleRow, Steps
<1> DEFINE q == [call[c] EXCEPT !.pc = "rmdir"]
<1>2. q \in Call /\ q.op = call[c].op /\ q.pc = "rmdir" /\ q.refs = call[c].refs
  BY <1>1 DEF Call, Steps
<1> HIDE DEF q
<1>3. ShapeOK(q)
  BY <1>1, <1>2 DEF ShapeOK
<1>4. CASE ~ call[c].live
  <2>1. RestOK' /\ rows' = rows /\ Step(c, "rmdir")
    BY <1>4 DEF DeleteBundleRow, TypeInv, RestOK, store, bounds
  <2>2. Now(c, q)
    BY <2>1 DEF Step, q
  <2>3. RefsOK(q, rows')
    BY <1>1, <1>2, <2>1 DEF RefsOK
  <2> QED BY <1>2, <1>3, <2>1, <2>2, <2>3, TypeStep
<1>5. CASE call[c].live
  <2>1. /\ status' = "none" /\ rows' = Empty /\ once' = {} /\ apart' = ~ call[c].alone
        /\ call' = [d \in Calls |-> IF d = c THEN q
                   ELSE IF call[d] = Idle THEN Idle ELSE [call[d] EXCEPT !.live = FALSE, !.refs = {}]]
    BY <1>5 DEF DeleteBundleRow, NowAll, q
  <2>2. call[c].alone \in BOOLEAN
    BY <1>1 DEF Call
  <2>3. RestOK'
    BY <2>1, <2>2 DEF DeleteBundleRow, TypeInv, RestOK, store, bounds, Empty, Tree, Kinds
  <2>4. ASSUME NEW d \in Calls
        PROVE  /\ call'[d] \in Call \cup {Idle}
               /\ call'[d] # Idle => ShapeOK(call'[d]) /\ RefsOK(call'[d], rows')
    <3>1. CASE d = c
      <4>1. call'[d] = q /\ q.op \notin {"toggle", "rehash"}
        BY <3>1, <2>1, <1>1, <1>2 DEF ShapeOK
      <4> QED BY <4>1, <1>2, <1>3 DEF RefsOK
    <3>2. CASE d # c /\ call[d] = Idle
      BY <2>1, <3>2
    <3>3. CASE d # c /\ call[d] # Idle
      <4>1. call[d] \in Call /\ ShapeOK(call[d])
        BY <3>3 DEF TypeInv
      <4>2. PICK k : k = call'[d]
        OBVIOUS
      <4>3. k = [call[d] EXCEPT !.live = FALSE, !.refs = {}]
        BY <2>1, <3>3, <4>2
      <4>4. /\ k \in Call /\ k.op = call[d].op /\ k.pc = call[d].pc /\ k.tree = call[d].tree
            /\ k.entries = call[d].entries /\ k.built = call[d].built /\ k.refs = {}
        BY <4>1, <4>3 DEF Call
      <4>5. ShapeOK(k) /\ RefsOK(k, rows')
        BY <4>1, <4>4 DEF ShapeOK, RefsOK
      <4> QED BY <4>2, <4>4, <4>5
    <3> QED BY <3>1, <3>2, <3>3
  <2>5. call' \in [Calls -> Call \cup {Idle}]
    BY <2>1, <2>4
  <2> QED BY <2>3, <2>4, <2>5 DEF TypeInv
<1> QED BY <1>4, <1>5

LEMMA RemoveBundleDirType == ASSUME TypeInv, NEW c \in Calls, RemoveBundleDir(c) PROVE TypeInv'
<1>1. RestOK' /\ rows' = rows
  BY DEF RemoveBundleDir, TypeInv, RestOK, table, bounds, history, Empty, Tree, Kinds
<1> QED BY <1>1, OutMoves, OutStep

(* The rows as an open transaction sees them are rows.                       *)
LEMMA StagedType ==
  ASSUME NEW c \in Calls, call[c] \in Call, rows \in Tree
  PROVE  /\ Staged(c) \in Tree
         /\ \A p \in Paths : Staged(c)[p] = IF call[c].source[p] = NoRow THEN "none"
                                            ELSE rows[call[c].source[p]]
<1>1. call[c].source \in [Paths -> Paths \cup {NoRow}]
  BY DEF Call
<1> QED BY <1>1 DEF Staged, Tree, Kinds

LEMMA MoveHead ==
  ASSUME NEW k \in Call, k.moves # << >>
  PROVE  /\ Head(k.moves)[1] \in Paths /\ Head(k.moves)[2] \in Paths /\ Head(k.moves)[3] \in BOOLEAN
         /\ Tail(k.moves) \in Seq(Moves)
<1>1. k.moves \in Seq(Moves)
  BY DEF Call
<1>2. Head(k.moves) \in Moves /\ Tail(k.moves) \in Seq(Moves)
  BY <1>1
<1> QED BY <1>2 DEF Moves

LEMMA MoveSubtreeType == ASSUME TypeInv, NEW c \in Calls, MoveSubtree(c) PROVE TypeInv'
<1>1. call[c] \in Call /\ call[c].pc = "move" /\ ShapeOK(call[c]) /\ call[c].moves # << >>
  BY AtCall DEF MoveSubtree, Steps
<1> DEFINE p == Head(call[c].moves)[1]
           n == Head(call[c].moves)[2]
           is_dir == Head(call[c].moves)[3]
           split == ~ is_dir /\ Staged(c)[p] = "dir"
           q == [call[c] EXCEPT !.moves = Tail(@), !.source = Resourced(c, p, n, is_dir),
                                !.renamed = @ \/ files' # files, !.found = @ \/ split]
<1>2. p \in Paths /\ n \in Paths /\ is_dir \in BOOLEAN /\ Tail(call[c].moves) \in Seq(Moves)
  BY <1>1, MoveHead
<1>3. /\ files' = RenameOnDisk(files, p, n) /\ Now(c, q)
      /\ drift' = (drift \/ split) /\ apart' = (apart \/ split \/ files' # files)
      /\ UNCHANGED <<table, manifest, tmp, bounds>>
  BY DEF MoveSubtree
<1> HIDE DEF p, n, is_dir
<1>4. files' \in Tree
  BY <1>2, <1>3 DEF RenameOnDisk, MadeDirs, Tree, Kinds, TypeInv, RestOK
<1>5. RestOK' /\ rows' = rows
  BY <1>3, <1>4 DEF TypeInv, RestOK, table, bounds
<1>6. Resourced(c, p, n, is_dir) \in [Paths -> Paths \cup {NoRow}]
  <2>1. call[c].source \in [Paths -> Paths \cup {NoRow}]
    BY <1>1 DEF Call
  <2> QED BY <2>1 DEF Resourced
<1>7. (call[c].renamed \/ files' # files) \in BOOLEAN /\ (call[c].found \/ split) \in BOOLEAN
  OBVIOUS
<1>8. q \in Call /\ q.op = call[c].op /\ q.pc = "move"
  BY <1>1, <1>2, <1>6, <1>7 DEF Call
<1> HIDE DEF q
<1>9. ShapeOK(q) /\ RefsOK(q, rows')
  BY <1>1, <1>8 DEF ShapeOK, RefsOK
<1> QED BY <1>3, <1>5, <1>8, <1>9, TypeStep

LEMMA RefuseMoveType == ASSUME TypeInv, NEW c \in Calls, RefuseMove(c) PROVE TypeInv'
<1>1. call[c] \in Call /\ call[c].moves # << >>
  BY AtCall DEF RefuseMove, Steps
<1>2. Head(call[c].moves)[2] \in Paths
  BY <1>1, MoveHead
<1>3. /\ files' = files \/ files' = MadeDirs(files, Head(call[c].moves)[2])
      /\ drift' = (drift \/ call[c].renamed \/ files' # files) /\ End(c)
      /\ UNCHANGED <<table, manifest, tmp, bounds, apart>>
  BY DEF RefuseMove
<1>4. files' \in Tree
  BY <1>2, <1>3 DEF MadeDirs, Tree, Kinds, TypeInv, RestOK
<1>5. RestOK' /\ rows' = rows
  BY <1>3, <1>4 DEF TypeInv, RestOK, table, bounds
<1> QED BY <1>3, <1>5, EndType

(* The mark for "no row" is no path.                                         *)
LEMMA NoRowIsNoPath == NoRow \notin Paths
  BY BundleAssumption DEF NoRow

LEMMA CommitMovesType == ASSUME TypeInv, NEW c \in Calls, CommitMoves(c) PROVE TypeInv'
<1>1. call[c] \in Call /\ call[c].pc = "move" /\ ShapeOK(call[c]) /\ rows \in Tree
  BY AtCall DEF CommitMoves, Steps, TypeInv, RestOK
<1>2. PICK s : s = call[c].source /\ s \in [Paths -> Paths \cup {NoRow}]
  BY <1>1 DEF Call
<1>3. /\ rows' = Staged(c) /\ once' = {p \in Paths : s[p] \in once}
      /\ apart' = (call[c].found \/ ~ call[c].alone)
      /\ call' = [d \in Calls |-> IF d = c THEN [call[c] EXCEPT !.pc = "list", !.source = Same, !.renamed = FALSE]
                   ELSE IF call[d] = Idle THEN Idle
                   ELSE [call[d] EXCEPT !.refs = {p \in Paths : s[p] \in @}]]
  BY <1>2 DEF CommitMoves, NowAll
<1>4. Staged(c) \in Tree /\ \A p \in Paths : s[p] \in Paths => Staged(c)[p] = rows[s[p]]
  BY <1>1, <1>2, StagedType, NoRowIsNoPath
<1>5. once \subseteq Paths /\ \A p \in once : rows[p] # "none"
  BY DEF TypeInv, RestOK
<1>6. RestOK'
  <2>1. once' \subseteq {p \in Paths : rows'[p] # "none"}
    BY <1>3, <1>4, <1>5
  <2> QED BY <1>3, <1>4, <2>1 DEF CommitMoves, TypeInv, RestOK, store, bounds
<1> DEFINE q == [call[c] EXCEPT !.pc = "list", !.source = Same, !.renamed = FALSE]
<1>7. q \in Call /\ q.op = call[c].op /\ q.pc = "list"
  <2>1. Same \in [Paths -> Paths \cup {NoRow}]
    BY DEF Same
  <2> QED BY <1>1, <2>1 DEF Call, Steps
<1>8. call'[c] = q /\ call' = [d \in Calls |-> call'[d]]
  BY <1>3
<1> HIDE DEF q
<1>9. ShapeOK(q) /\ q.op \notin {"toggle", "rehash"}
  BY <1>1, <1>7 DEF ShapeOK
<1>10. ASSUME NEW d \in Calls \ {c}, call[d] # Idle
      PROVE  \E R \in SUBSET Paths, v \in BOOLEAN :
               /\ call'[d] = [call[d] EXCEPT !.refs = R, !.live = v]
               /\ \A p \in R : RefsOK(call[d], rows) /\ call[d].op \in {"toggle", "rehash"} => rows'[p] # "none"
  <2>1. call[d] \in Call
    BY <1>10 DEF TypeInv
  <2>2. call[d].refs \subseteq Paths /\ call[d].live \in BOOLEAN
    BY <2>1 DEF Call
  <2> DEFINE R == {p \in Paths : s[p] \in call[d].refs}
  <2>3. call'[d] = [call[d] EXCEPT !.refs = R, !.live = call[d].live]
    BY <1>3, <1>10, <2>1 DEF Call
  <2>4. \A p \in R : rows'[p] = rows[s[p]]
    BY <1>3, <1>4, <2>2
  <2>5. \A p \in R :
           RefsOK(call[d], rows) /\ call[d].op \in {"toggle", "rehash"} => rows'[p] # "none"
    BY <2>4 DEF RefsOK
  <2> QED BY <2>2, <2>3, <2>5
<1>11. \A d \in Calls \ {c} : call[d] = Idle => call'[d] = Idle
  BY <1>3
<1> QED BY <1>6, <1>7, <1>8, <1>9, <1>10, <1>11, RefsType

LEMMA CreateBundleType == TypeInv /\ CreateBundle => TypeInv'
<1> SUFFICES ASSUME TypeInv, CreateBundle PROVE TypeInv'
  OBVIOUS
<1>1. RestOK' /\ call' = call /\ rows' = rows
  BY DEF CreateBundle, TypeInv, RestOK, store, bounds
<1> QED BY <1>1 DEF TypeInv

LEMMA CrashType == TypeInv /\ Crash => TypeInv'
<1> SUFFICES ASSUME TypeInv, Crash PROVE TypeInv'
  OBVIOUS
<1>1. breaks' \in 0 .. MaxBreaks
  BY BundleAssumption DEF Crash, Broken, TypeInv, RestOK
<1>2. RestOK'
  BY <1>1 DEF Crash, Broken, TypeInv, RestOK, table, store
<1> QED BY <1>2 DEF TypeInv, Crash

LEMMA DisconnectType == ASSUME TypeInv, NEW c \in Calls, Disconnect(c) PROVE TypeInv'
<1>1. breaks' \in 0 .. MaxBreaks
  BY BundleAssumption DEF Disconnect, Broken, TypeInv, RestOK
<1>2. RestOK' /\ rows' = rows
  BY <1>1 DEF Disconnect, Broken, TypeInv, RestOK, table, store
<1>3. CASE End(c)
  BY <1>2, <1>3, EndType
<1>4. CASE Now(c, [call[c] EXCEPT !.gone = TRUE])
  <2>1. call[c] \in Call /\ ShapeOK(call[c]) /\ RefsOK(call[c], rows)
    BY DEF Disconnect, TypeInv
  <2> DEFINE q == [call[c] EXCEPT !.gone = TRUE]
  <2>2. /\ q \in Call /\ q.op = call[c].op /\ q.pc = call[c].pc /\ q.tree = call[c].tree
        /\ q.entries = call[c].entries /\ q.built = call[c].built /\ q.refs = call[c].refs
    BY <2>1 DEF Call
  <2> HIDE DEF q
  <2>3. ShapeOK(q)
    BY <2>1, <2>2 DEF ShapeOK
  <2>4. RefsOK(q, rows')
    BY <2>1, <2>2, <1>2 DEF RefsOK
  <2> QED BY <1>2, <1>4, <2>2, <2>3, <2>4, TypeStep DEF q
<1> QED BY <1>3, <1>4 DEF Disconnect

LEMMA FailStepType == ASSUME TypeInv, NEW c \in Calls, FailStep(c) PROVE TypeInv'
<1>1. breaks' \in 0 .. MaxBreaks
  BY BundleAssumption DEF FailStep, Broken, TypeInv, RestOK
<1>2. RestOK' /\ rows' = rows /\ call[c] # Idle
  BY <1>1 DEF FailStep, Broken, TypeInv, RestOK, table, store
<1>3. End(c) \/ (call[c].pc = "unlink" /\ Step(c, "list")) \/ OnError(c)
  BY DEF FailStep
<1>4. CASE End(c)
  BY <1>2, <1>4, EndType
<1>5. CASE OnError(c)
  BY <1>2, <1>5, OnErrorType
<1>6. CASE call[c].pc = "unlink" /\ Step(c, "list")
  <2>1. call[c] \in Call /\ ShapeOK(call[c])
    BY <1>2 DEF TypeInv
  <2> DEFINE q == [call[c] EXCEPT !.pc = "list"]
  <2>2. q \in Call /\ q.op = call[c].op /\ q.pc = "list"
    BY <2>1 DEF Call, Steps
  <2>3. Now(c, q)
    BY <1>6 DEF Step
  <2> HIDE DEF q
  <2>4. ShapeOK(q) /\ RefsOK(q, rows')
    BY <2>1, <2>2, <1>6 DEF ShapeOK, RefsOK
  <2> QED BY <1>2, <2>2, <2>3, <2>4, TypeStep
<1> QED BY <1>3, <1>4, <1>5, <1>6

LEMMA FailUpsertType == ASSUME TypeInv, NEW c \in Calls, FailUpsert(c) PROVE TypeInv'
<1>1. breaks' \in 0 .. MaxBreaks
  BY BundleAssumption DEF FailUpsert, Broken, TypeInv, RestOK
<1>2. PICK q : q \in Paths /\ rows' = Placed(rows, q, "dir")
  BY AncestorIs DEF FailUpsert
<1>3. rows' \in Tree /\ \A x \in Paths : rows[x] # "none" => rows'[x] # "none"
  BY <1>2 DEF Placed, MadeDirs, Tree, Kinds, TypeInv, RestOK
<1>4. RestOK' /\ End(c)
  BY <1>1, <1>3 DEF FailUpsert, Broken, TypeInv, RestOK, store
<1> QED BY <1>3, <1>4, EndType

(* A request: what it is about is in the instance, and fits its first step.  *)
LEMMA BeginType ==
  ASSUME TypeInv, NEW c \in Calls,
         NEW op \in {"archive", "file", "folder", "delete", "toggle", "rehash", "move", "batch",
                     "regenerate", "drop"},
         NEW pc \in Steps, NEW entries \in SUBSET Paths, NEW moves \in Seq(Moves),
         NEW tree \in Tree, NEW bad \in BOOLEAN, Begin(c, op, pc, entries, moves, tree, bad),
         \A k : k.op = op /\ k.pc = pc /\ k.entries = entries /\ k.refs = entries /\ k.tree = tree
                   => ShapeOK(k) /\ RefsOK(k, rows)
  PROVE  TypeInv'
<1> DEFINE alone == Others(c) = {}
           q == [op |-> op, pc |-> pc, entries |-> entries, refs |-> entries, tree |-> tree,
                  bad |-> bad, built |-> Absent, gone |-> FALSE, live |-> TRUE,
                  alone |-> alone, moves |-> moves, source |-> Same,
                  renamed |-> FALSE, found |-> apart, out |-> "tmp"]
<1>1. call' = [d \in Calls |-> IF d = c THEN q ELSE IF call[d] = Idle THEN Idle
                               ELSE [call[d] EXCEPT !.alone = FALSE]]
  BY DEF Begin, NowAll
<1>2. made' \in 0 .. MaxCalls
  BY BundleAssumption DEF Begin, TypeInv, RestOK
<1>3. RestOK' /\ rows' = rows
  BY <1>2 DEF Begin, TypeInv, RestOK, table, store
<1>4. q \in Call
  <2>1. Same \in [Paths -> Paths \cup {NoRow}] /\ apart \in BOOLEAN /\ alone \in BOOLEAN
    BY DEF Same, TypeInv, RestOK
  <2> HIDE DEF alone
  <2> QED BY <2>1 DEF Call
<1>5. ShapeOK(q) /\ RefsOK(q, rows)
  OBVIOUS
<1> HIDE DEF q
<1>6. ASSUME NEW d \in Calls
      PROVE  /\ call'[d] \in Call \cup {Idle}
             /\ call'[d] # Idle => ShapeOK(call'[d]) /\ RefsOK(call'[d], rows')
  <2>1. CASE d = c
    BY <2>1, <1>1, <1>3, <1>4, <1>5
  <2>2. CASE d # c /\ call[d] = Idle
    BY <2>2, <1>1
  <2>3. CASE d # c /\ call[d] # Idle
    <3>1. call[d] \in Call /\ ShapeOK(call[d]) /\ RefsOK(call[d], rows)
      BY <2>3 DEF TypeInv
    <3>2. PICK k : k = call'[d]
      OBVIOUS
    <3>3. k = [call[d] EXCEPT !.alone = FALSE]
      BY <3>2, <2>3, <1>1
    <3>4. /\ k \in Call /\ k.op = call[d].op /\ k.pc = call[d].pc /\ k.tree = call[d].tree
          /\ k.entries = call[d].entries /\ k.built = call[d].built /\ k.refs = call[d].refs
      BY <3>1, <3>3 DEF Call
    <3>5. ShapeOK(k)
      BY <3>1, <3>4 DEF ShapeOK
    <3>6. RefsOK(k, rows')
      BY <3>1, <3>4, <1>3 DEF RefsOK
    <3> QED BY <3>2, <3>4, <3>5, <3>6
  <2> QED BY <2>1, <2>2, <2>3
<1>7. call' \in [Calls -> Call \cup {Idle}]
  BY <1>1, <1>6
<1> QED BY <1>3, <1>6, <1>7 DEF TypeInv

LEMMA EmptyIsTree == Empty \in Tree /\ IsTree(Empty) /\ << >> \in Seq(Moves)
  BY DEF Empty, Tree, Kinds, IsTree

(* Every request starts a call of its shape.                                 *)
LEMMA RequestType == ASSUME TypeInv, NEW c \in Calls, Request(c) PROVE TypeInv'
<1> USE EmptyIsTree
<1>1. CASE BeginArchive(c)
  <2>1. PICK a \in Archives : Begin(c, "archive", "processing", {}, << >>, a.tree, a.bad)
    BY <1>1 DEF BeginArchive
  <2>2. a.tree \in Tree /\ IsTree(a.tree) /\ a.bad \in BOOLEAN
    BY BundleAssumption
  <2>3. \A k : k.op = "archive" /\ k.pc = "processing" /\ k.tree = a.tree
            => ShapeOK(k) /\ RefsOK(k, rows)
    BY <2>2 DEF ShapeOK, RefsOK
  <2> QED BY <2>1, <2>2, <2>3, BeginType DEF Steps
<1>2. CASE BeginPlace(c)
  <2>1. PICK raw \in RawPaths, kind \in Kinds \ {"none"} :
           /\ ~ Refused(raw)
           /\ Begin(c, IF kind = "dir" THEN "folder" ELSE "file", "place",
                    {normalize_relative_path(raw)}, << >>,
                    [Empty EXCEPT ![normalize_relative_path(raw)] = kind], FALSE)
    BY <1>2 DEF BeginPlace
  <2>2. PICK p \in Paths : p = normalize_relative_path(raw)
    BY <2>1, BundleAssumption
  <2> DEFINE op == IF kind = "dir" THEN "folder" ELSE "file"
             t == [Empty EXCEPT ![p] = kind]
  <2>3. t \in Tree /\ t[p] = kind /\ (kind # "dir" => kind \in Contents)
    BY DEF Tree, Kinds, Empty
  <2>4. Begin(c, op, "place", {p}, << >>, t, FALSE)
    BY <2>1, <2>2
  <2> HIDE DEF t
  <2>5. ASSUME NEW k, k.op = op, k.pc = "place", k.entries = {p}, k.tree = t
        PROVE  ShapeOK(k) /\ RefsOK(k, rows)
    BY <2>3, <2>5 DEF ShapeOK, RefsOK
  <2> QED BY <2>3, <2>4, <2>5, BeginType DEF Steps
<1>3. CASE BeginDelete(c)
  <2>1. PICK ps \in SUBSET Paths : Begin(c, "delete", "rows", ps, << >>, rows, FALSE)
    BY <1>3 DEF BeginDelete, Entries
  <2>2. \A k : k.op = "delete" /\ k.pc = "rows" => ShapeOK(k) /\ RefsOK(k, rows)
    BY DEF ShapeOK, RefsOK
  <2>3. rows \in Tree
    BY DEF TypeInv, RestOK
  <2> QED BY <2>1, <2>2, <2>3, BeginType DEF Steps
<1>4. CASE BeginToggle(c)
  <2>1. PICK p \in Entries : Begin(c, "toggle", "update", {p}, << >>, Empty, FALSE)
    BY <1>4 DEF BeginToggle
  <2>2. p \in Paths /\ rows[p] # "none"
    BY DEF Entries
  <2>3. \A k : k.op = "toggle" /\ k.pc = "update" /\ k.entries = {p} /\ k.refs = {p}
            => ShapeOK(k) /\ RefsOK(k, rows)
    BY <2>2 DEF ShapeOK, RefsOK
  <2> QED BY <2>1, <2>2, <2>3, BeginType DEF Steps
<1>5. CASE BeginRehash(c)
  <2>1. PICK p \in Entries : Begin(c, "rehash", "hash", {p}, << >>, Empty, FALSE)
    BY <1>5 DEF BeginRehash
  <2>2. p \in Paths /\ rows[p] # "none"
    BY DEF Entries
  <2>3. \A k : k.op = "rehash" /\ k.pc = "hash" /\ k.entries = {p} /\ k.refs = {p}
            => ShapeOK(k) /\ RefsOK(k, rows)
    BY <2>2 DEF ShapeOK, RefsOK
  <2> QED BY <2>1, <2>2, <2>3, BeginType DEF Steps
<1>6. CASE BeginMove(c)
  <2>1. PICK p \in Paths, n \in Paths :
            Begin(c, "move", "move", {}, <<<<p, n, rows[p] = "dir">>>>, Empty, FALSE)
    BY <1>6 DEF BeginMove, Entries
  <2>2. <<<<p, n, rows[p] = "dir">>>> \in Seq(Moves)
    <3>1. <<p, n, rows[p] = "dir">> \in Moves
      BY DEF Moves
    <3> QED BY <3>1
  <2>3. \A k : k.op = "move" /\ k.pc = "move" => ShapeOK(k) /\ RefsOK(k, rows)
    BY DEF ShapeOK, RefsOK
  <2> QED BY <2>1, <2>2, <2>3, BeginType DEF Steps
<1>7. CASE BeginBatch(c)
  <2>1. PICK b \in Batches, dir \in Paths \cup {<< >>} :
            /\ \A i \in DOMAIN b : b[i] \in Entries /\ join_target_dir(dir, b[i]) \in Paths
            /\ Begin(c, "batch", "move", {},
                     [i \in DOMAIN b |-> <<b[i], join_target_dir(dir, b[i]), rows[b[i]] = "dir">>],
                     Empty, FALSE)
    BY <1>7 DEF BeginBatch
  <2> DEFINE m == [i \in DOMAIN b |-> <<b[i], join_target_dir(dir, b[i]), rows[b[i]] = "dir">>]
  <2>2. m \in Seq(Moves)
    <3>1. b \in Seq(Paths)
      BY BundleAssumption
    <3>2. DOMAIN b = 1 .. Len(b) /\ Len(b) \in Nat
      BY <3>1
    <3>3. \A i \in 1 .. Len(b) : m[i] \in Moves
      BY <2>1, <3>2 DEF Moves, Entries
    <3>4. m = [i \in 1 .. Len(b) |-> m[i]]
      BY <3>2
    <3> QED BY <3>2, <3>3, <3>4
  <2> HIDE DEF m
  <2>3. \A k : k.op = "batch" /\ k.pc = "move" => ShapeOK(k) /\ RefsOK(k, rows)
    BY DEF ShapeOK, RefsOK
  <2> QED BY <2>1, <2>2, <2>3, BeginType DEF Steps, m
<1>8. CASE BeginRegenerate(c)
  <2>1. \A k : k.op = "regenerate" /\ k.pc = "processing" => ShapeOK(k) /\ RefsOK(k, rows)
    BY DEF ShapeOK, RefsOK
  <2> QED BY <1>8, <2>1, BeginType DEF BeginRegenerate, Steps
<1>9. CASE BeginDeleteBundle(c)
  <2>1. \A k : k.op = "drop" /\ k.pc = "dropRow" => ShapeOK(k) /\ RefsOK(k, rows)
    BY DEF ShapeOK, RefsOK
  <2> QED BY <1>9, <2>1, BeginType DEF BeginDeleteBundle, Steps
<1> QED BY <1>1, <1>2, <1>3, <1>4, <1>5, <1>6, <1>7, <1>8, <1>9 DEF Request

LEMMA WorkType == ASSUME TypeInv, NEW c \in Calls, Work(c) PROVE TypeInv'
  BY SetProcessingType, WipeFilesType, ExtractAndScanType, UpsertScanType, SetFailedType,
     PlaceOnDiskType, HashFileType, UpsertArtifactType, UpdateRowType, DeleteRowsType,
     UnlinkEntriesType, MoveSubtreeType, RefuseMoveType, CommitMovesType, ListArtifactsType,
     BuildManifestType, BeginWriteType, EndWriteType, PublishManifestType, MarkReadyType,
     DeleteBundleRowType, RemoveBundleDirType
  DEF Work

LEMMA NextType == TypeInv /\ [BundleNext]_bundleVars => TypeInv'
<1> SUFFICES ASSUME TypeInv, [BundleNext]_bundleVars PROVE TypeInv'
  OBVIOUS
<1>1. CASE UNCHANGED bundleVars
  BY <1>1 DEF bundleVars, TypeInv, RestOK
<1> QED BY <1>1, RequestType, WorkType, DisconnectType, FailStepType, FailUpsertType,
           CreateBundleType, CrashType DEF BundleNext, Break

LEMMA InitType == BundleInit => TypeInv
<1> SUFFICES ASSUME BundleInit PROVE TypeInv
  OBVIOUS
<1>1. RestOK
  <2>1. 0 \in 0 .. MaxBreaks /\ 0 \in 0 .. MaxCalls
    BY BundleAssumption
  <2> QED BY <2>1, EmptyIsTree DEF BundleInit, RestOK
<1>2. call \in [Calls -> Call \cup {Idle}] /\ \A c \in Calls : call[c] = Idle
  BY DEF BundleInit
<1> QED BY <1>1, <1>2 DEF TypeInv

(* files/ stays a tree, whatever a step does to it.                          *)
LEMMA WipeFilesTree == ASSUME NEW c \in Calls, WipeFiles(c) PROVE IsTree(files')
  BY EmptyIsTree DEF WipeFiles

LEMMA RemoveBundleDirTree == ASSUME NEW c \in Calls, RemoveBundleDir(c) PROVE IsTree(files')
  BY EmptyIsTree DEF RemoveBundleDir

LEMMA ExtractAndScanTree ==
  ASSUME TypeInv, IsTree(files), NEW c \in Calls, ExtractAndScan(c)
  PROVE  IsTree(files')
<1>1. call[c] \in Call /\ call[c].pc = "extract" /\ ShapeOK(call[c]) /\ files \in Tree
  BY AtCall DEF ExtractAndScan, Steps, TypeInv, RestOK
<1> DEFINE t == call[c].tree
           fit == {p \in Paths : t[p] # "none" /\ CanPlace(files, p, t[p])}
<1>2. t \in Tree /\ IsTree(t)
  BY <1>1 DEF Call, ShapeOK
<1>3. PICK ps \in SUBSET fit : files' = Extracted(t, ps)
  BY DEF ExtractAndScan
<1> HIDE DEF t
<1>4. ps \in SUBSET Paths /\ \A p \in ps : t[p] # "none" /\ CanPlace(files, p, t[p])
  BY <1>3
<1> QED BY <1>1, <1>2, <1>3, <1>4, ExtractedTree

LEMMA PlaceOnDiskTree ==
  ASSUME TypeInv, IsTree(files), NEW c \in Calls, PlaceOnDisk(c)
  PROVE  IsTree(files')
<1>1. call[c] \in Call /\ call[c].pc = "place" /\ ShapeOK(call[c]) /\ files \in Tree
  BY AtCall DEF PlaceOnDisk, Steps, TypeInv, RestOK
<1>2. PICK p \in Paths : /\ call[c].entries = {p}
                         /\ call[c].op = "file" => call[c].tree[p] \in Contents
                         /\ call[c].op = "folder" => call[c].tree[p] = "dir"
  BY <1>1 DEF ShapeOK
<1>3. call[c].tree[p] \in Kinds /\ call[c].tree[p] # "none"
  BY <1>1, <1>2, KindsApart DEF ShapeOK, Kinds
<1>4. \/ files' = files
      \/ CanPlace(files, p, call[c].tree[p]) /\ files' = Placed(files, p, call[c].tree[p])
  BY <1>2 DEF PlaceOnDisk
<1> QED BY <1>1, <1>3, <1>4, PlacedTree

LEMMA UnlinkEntriesTree ==
  ASSUME TypeInv, IsTree(files), NEW c \in Calls, UnlinkEntries(c)
  PROVE  IsTree(files')
<1>1. call[c] \in Call /\ files \in Tree
  BY AtCall DEF UnlinkEntries, Steps, TypeInv, RestOK
<1>2. call[c].entries \subseteq Paths
  BY <1>1 DEF Call
<1>3. \A q \in Paths : files'[q] = IF q \in Unlinked(c) THEN "none" ELSE files[q]
  BY DEF UnlinkEntries
<1>4. ASSUME NEW q \in Paths, files'[q] # "none", NEW a \in Ancestors(q) PROVE files'[a] = "dir"
  <2>1. q \notin Unlinked(c) /\ files[q] # "none" /\ a \in Paths /\ q \in Under(a)
    BY <1>3, <1>4, AncestorIs
  <2>2. files[a] = "dir"
    BY <2>1, <1>4 DEF IsTree
  <2>3. ASSUME a \in Unlinked(c) PROVE FALSE
    <3>1. PICK p \in call[c].entries : /\ (call[c].tree[p] = "dir") = (files[p] = "dir")
                                       /\ a \in Region(p, call[c].tree[p] = "dir")
      BY <2>3 DEF Unlinked
    <3>2. CASE call[c].tree[p] = "dir"
      <4>1. a \in Subtree(p) /\ p \in Paths
        BY <3>1, <3>2, <1>2 DEF Region
      <4>2. q \in Subtree(p)
        BY <4>1, <2>1, UnderTrans DEF Subtree
      <4>3. q \in Region(p, call[c].tree[p] = "dir")
        BY <4>2, <3>2 DEF Region
      <4> QED BY <4>3, <3>1, <2>1 DEF Unlinked
    <3>3. CASE call[c].tree[p] # "dir"
      BY <3>1, <3>3, <2>2 DEF Region
    <3> QED BY <3>2, <3>3
  <2> QED BY <1>3, <2>1, <2>2, <2>3
<1> QED BY <1>4 DEF IsTree

LEMMA MoveSubtreeTree ==
  ASSUME TypeInv, IsTree(files), NEW c \in Calls, MoveSubtree(c)
  PROVE  IsTree(files')
<1>1. call[c] \in Call /\ call[c].moves # << >> /\ files \in Tree
  BY AtCall DEF MoveSubtree, Steps, TypeInv, RestOK
<1> DEFINE p == Head(call[c].moves)[1]
           n == Head(call[c].moves)[2]
<1>2. p \in Paths /\ n \in Paths
  BY <1>1, MoveHead
<1>3. files' = RenameOnDisk(files, p, n) /\ (files[p] # "none" => CanRename(files, p, n))
  BY DEF MoveSubtree
<1> HIDE DEF p, n
<1> QED BY <1>1, <1>2, <1>3, RenameTree

LEMMA RefuseMoveTree ==
  ASSUME TypeInv, IsTree(files), NEW c \in Calls, RefuseMove(c)
  PROVE  IsTree(files')
<1>1. call[c] \in Call /\ call[c].moves # << >> /\ files \in Tree
  BY AtCall DEF RefuseMove, Steps, TypeInv, RestOK
<1>2. Head(call[c].moves)[2] \in Paths
  BY <1>1, MoveHead
<1>3. files' = files \/ files' = MadeDirs(files, Head(call[c].moves)[2])
  BY DEF RefuseMove
<1> QED BY <1>1, <1>2, <1>3, MadeDirsIs

(* The file system stays a tree: conflicts are refused before they are made. *)
LEMMA NextTree == TypeInv /\ IsTree(files) /\ [BundleNext]_bundleVars => IsTree(files')
<1> SUFFICES ASSUME TypeInv, IsTree(files), [BundleNext]_bundleVars PROVE IsTree(files')
  OBVIOUS
<1>1. ASSUME NEW c \in Calls, Request(c) PROVE files' = files
  BY <1>1 DEF Request, BeginArchive, BeginPlace, BeginDelete, BeginToggle, BeginRehash, BeginMove,
              BeginBatch, BeginRegenerate, BeginDeleteBundle, Begin, store
<1>2. ASSUME NEW c \in Calls, Break(c) PROVE files' = files
  BY <1>2 DEF Break, Disconnect, FailStep, FailUpsert, store
<1>3. CreateBundle \/ Crash \/ UNCHANGED bundleVars => files' = files
  BY DEF CreateBundle, Crash, store, bundleVars
<1>4. ASSUME NEW c \in Calls, Work(c) PROVE IsTree(files')
  <2>1. \/ SetProcessing(c) \/ UpsertScan(c) \/ SetFailed(c) \/ HashFile(c) \/ UpsertArtifact(c)
        \/ UpdateRow(c) \/ DeleteRows(c) \/ CommitMoves(c) \/ ListArtifacts(c) \/ BuildManifest(c)
        \/ BeginWrite(c) \/ EndWrite(c) \/ PublishManifest(c) \/ MarkReady(c) \/ DeleteBundleRow(c)
        => files' = files
    BY DEF SetProcessing, UpsertScan, SetFailed, HashFile, UpsertArtifact, UpdateRow, DeleteRows,
           CommitMoves, ListArtifacts, BuildManifest, BeginWrite, EndWrite, PublishManifest,
           MarkReady, DeleteBundleRow, store
  <2> QED BY <1>4, <2>1, WipeFilesTree, ExtractAndScanTree, PlaceOnDiskTree, UnlinkEntriesTree,
             MoveSubtreeTree, RefuseMoveTree, RemoveBundleDirTree DEF Work
<1> QED BY <1>1, <1>2, <1>3, <1>4 DEF BundleNext

-----------------------------------------------------------------------------
(* A build with nothing in it, and one as a completed call leaves it.        *)
Fresh ==
  /\ status \in {"none", "draft"}
  /\ rows = Empty /\ once = {} /\ files = Empty /\ manifest = Absent

Settled ==
  /\ status = "ready"
  /\ Agree(rows, files) /\ manifest = [tree |-> rows, once |-> once]

(* What holds at each step of a call no other call has run beside.           *)
LoneOK(c) ==
  LET k == call[c]
  IN  /\ k.live /\ k.refs = k.entries
      /\ k.gone => drift
      /\ k.pc = "extract" => files = Empty
      /\ k.pc = "upsert" => files = k.tree
      /\ k.pc = "upsertOne" /\ k.op = "file" => \A p \in k.entries : files[p] = k.tree[p]
      /\ k.pc = "update" /\ k.op = "rehash" => \A p \in k.entries : files[p] = k.tree[p]
      /\ k.pc = "rows" => k.tree = rows /\ \A p \in k.entries : rows[p] # "none"
      /\ k.pc = "unlink" => \A p \in DeletedRows(c) : rows[p] = "none"
      /\ k.pc = "move" /\ ~ k.found => Backed(Staged(c), files)
      /\ k.pc = "fill" => k.out = "tmp" /\ tmp = Partial
      /\ k.pc = "rmdir" => rows = Empty /\ once = {}

(* And what holds besides as long as nothing has gone wrong: for a re-upload *)
(* that is whatever happened before it.                                      *)
Clean(k) == k.alone /\ (k.op = "archive" \/ ~ drift)

Publishing == {"list", "probe", "write", "fill", "publish", "ready"}

CleanOK(c) ==
  LET k == call[c]
  IN  /\ k.pc \in Publishing => Agree(rows, files)
      /\ k.pc \in {"probe", "write", "fill", "publish"} => k.built = [tree |-> rows, once |-> once]
      /\ k.pc = "publish" => tmp = k.built
      /\ k.pc = "ready" => manifest = [tree |-> rows, once |-> once]
      /\ k.pc \in {"processing", "update", "rows"} /\ k.op # "archive" => Agree(rows, files)
      /\ k.pc = "place" => Fresh \/ Settled
      /\ k.pc = "hash" /\ k.op = "rehash" =>
            Agree(rows, files) /\ \A p \in k.entries : rows[p] \in Contents
      /\ k.pc \in {"hash", "upsertOne"} /\ k.op = "file" =>
            \A p \in k.entries : files[p] \in Contents /\ Agree([rows EXCEPT ![p] = files[p]], files)
      /\ k.pc = "upsertOne" /\ k.op = "folder" =>
            /\ Agree(rows, files)
            /\ \A p \in k.entries : \A q \in Ancestors(p) \cup {p} : files[q] = "dir"
      /\ k.pc = "unlink" =>
            /\ \A p \in k.entries : files[p] = k.tree[p]
            /\ Agree(rows, [p \in Paths |-> IF p \in DeletedRows(c) THEN "none" ELSE files[p]])
      /\ k.pc = "move" => Agree(Staged(c), files) /\ (~ k.renamed => Fresh \/ Settled)
      /\ k.pc = "rmdir" => (~ drift => status = "none")

(* What is claimed of a call; rows and files may part only behind a wipe.    *)
MineOK(c) ==
  /\ call[c].alone => LoneOK(c)
  /\ Clean(call[c]) => CleanOK(c)
  /\ ~ apart => call[c].pc \notin {"extract", "upsert"}

(* The inductive invariant.  Calls that overlap another have drift and apart *)
(* set, and nothing is claimed of them.                                      *)
BundlesInv ==
  /\ TypeInv
  /\ IsTree(files)
  /\ \A c \in Calls : call[c] # Idle => MineOK(c)
  /\ \A c \in Calls : call[c] # Idle /\ call[c].alone => \A d \in Calls \ {c} : call[d] = Idle
  /\ \A c \in Calls : call[c] # Idle /\ ~ (drift /\ apart) => call[c].alone
  /\ ~ apart => Backed(rows, files)
  /\ ~ drift /\ Quiet => Fresh \/ Settled

(* A step of c leaves the other calls in flight, and whether they are alone. *)
Aside(c) ==
  /\ \A d \in Calls \ {c} : call'[d] = Idle <=> call[d] = Idle
  /\ \A d \in Calls \ {c} : call[d] # Idle => call'[d].alone = call[d].alone
  /\ call'[c] # Idle => call'[c].alone = call[c].alone

(* Beside other calls nothing is claimed any more.                           *)
LEMMA CrowdedStep ==
  ASSUME BundlesInv, NEW c \in Calls, call[c] # Idle, ~ call[c].alone,
         TypeInv', IsTree(files'), Aside(c), drift', apart'
  PROVE  BundlesInv'
<1>1. ASSUME NEW d \in Calls, call'[d] # Idle PROVE ~ call'[d].alone
  <2>1. CASE d = c
    BY <1>1, <2>1 DEF Aside
  <2>2. CASE d # c
    <3>1. call[d] # Idle /\ call'[d].alone = call[d].alone
      BY <1>1, <2>2 DEF Aside
    <3>2. ~ call[d].alone
      BY <3>1, <2>2 DEF BundlesInv
    <3> QED BY <3>1, <3>2
  <2> QED BY <2>1, <2>2
<1>2. \A d \in Calls : call'[d] # Idle => MineOK(d)'
  BY <1>1 DEF MineOK, Clean
<1> QED BY <1>1, <1>2 DEF BundlesInv

(* A step of a call that is alone has to say what it leaves behind.          *)
LEMMA LoneStep ==
  ASSUME BundlesInv, NEW c \in Calls, call[c] # Idle, call[c].alone,
         TypeInv', IsTree(files'), Aside(c),
         call'[c] # Idle => MineOK(c)', ~ apart' => Backed(rows', files'),
         ~ drift' /\ call'[c] = Idle => (Fresh \/ Settled)'
  PROVE  BundlesInv'
<1>1. \A d \in Calls \ {c} : call'[d] = Idle
  BY DEF Aside, BundlesInv
<1>2. call'[c] # Idle => call'[c].alone
  BY DEF Aside
<1>3. \A d \in Calls : call'[d] # Idle => d = c
  BY <1>1
<1>4. ~ drift' /\ Quiet' => (Fresh \/ Settled)'
  BY DEF Quiet
<1> QED BY <1>1, <1>2, <1>3, <1>4 DEF BundlesInv

LEMMA LoneFacts ==
  ASSUME BundlesInv, NEW c \in Calls, call[c] # Idle, call[c].alone
  PROVE  /\ call[c] \in Call /\ ShapeOK(call[c]) /\ RestOK /\ LoneOK(c)
         /\ Clean(call[c]) => CleanOK(c)
         /\ ~ drift => Clean(call[c])
         /\ ~ apart => call[c].pc \notin {"extract", "upsert"}
         /\ ~ apart => Backed(rows, files)
         /\ \A d \in Calls \ {c} : call[d] = Idle
  BY DEF BundlesInv, MineOK, TypeInv, Clean

(* Most steps change only the call itself.                                   *)
LEMMA NowAside ==
  ASSUME TypeInv, NEW c \in Calls, NEW q, Now(c, q), q # Idle => q.alone = call[c].alone
  PROVE  Aside(c) /\ call'[c] = q
<1>1. call'[c] = q /\ \A d \in Calls \ {c} : call'[d] = call[d]
  BY DEF Now, TypeInv
<1> QED BY <1>1 DEF Aside

(* Every step of a call is one of these changes of the calls.                *)
LEMMA StepAside ==
  ASSUME TypeInv, NEW c \in Calls, call[c] # Idle, NEW pc, Step(c, pc)
  PROVE  Aside(c)
<1>1. call[c] \in Call
  BY DEF TypeInv
<1> DEFINE q == [call[c] EXCEPT !.pc = pc]
<1>2. q.alone = call[c].alone
  BY <1>1 DEF Call
<1> HIDE DEF q
<1> QED BY <1>2, NowAside DEF Step, q

LEMMA EndAside ==
  ASSUME TypeInv, NEW c \in Calls, End(c)
  PROVE  Aside(c) /\ call'[c] = Idle
  BY NowAside DEF End

LEMMA OnErrorAside ==
  ASSUME TypeInv, NEW c \in Calls, call[c] # Idle, OnError(c)
  PROVE  Aside(c)
  BY StepAside, EndAside DEF OnError

LEMMA OutAside ==
  ASSUME TypeInv, NEW c \in Calls, call'[c] # Idle => call'[c].alone = call[c].alone,
         \A d \in Calls \ {c} : call[d] = Idle => call'[d] = Idle,
         \A d \in Calls \ {c} : call[d] # Idle =>
            \E o \in {"tmp", "manifest", "lost"} : call'[d] = [call[d] EXCEPT !.out = o]
  PROVE  Aside(c)
<1>1. ASSUME NEW d \in Calls \ {c}, call[d] # Idle
      PROVE  call'[d] # Idle /\ call'[d].alone = call[d].alone
  <2>1. call[d] \in Call
    BY <1>1 DEF TypeInv
  <2>2. PICK o \in {"tmp", "manifest", "lost"} : call'[d] = [call[d] EXCEPT !.out = o]
    BY <1>1
  <2>3. call'[d].alone = call[d].alone /\ call'[d].pc = call[d].pc
    BY <2>1, <2>2 DEF Call
  <2> QED BY <2>1, <2>3, IdleIsNoCall DEF Idle
<1> QED BY <1>1 DEF Aside

(* A step that changes nothing but the call, its rows, the files.            *)
LEMMA PlainAside ==
  ASSUME TypeInv, NEW c \in Calls,
         \/ SetProcessing(c) \/ WipeFiles(c) \/ SetFailed(c) \/ PlaceOnDisk(c)
         \/ UpsertArtifact(c) \/ UpdateRow(c) \/ UnlinkEntries(c) \/ RefuseMove(c)
         \/ EndWrite(c) \/ MarkReady(c)
  PROVE  call[c] # Idle /\ Aside(c) /\ (drift /\ apart /\ ~ call[c].alone => drift' /\ apart')
<1>1. call[c] # Idle
  BY DEF SetProcessing, WipeFiles, SetFailed, PlaceOnDisk, UpsertArtifact, UpdateRow, UnlinkEntries,
         RefuseMove, EndWrite, MarkReady, At, Idle
<1>2. drift /\ apart /\ ~ call[c].alone => drift' /\ apart'
  BY DEF SetProcessing, WipeFiles, SetFailed, PlaceOnDisk, UpsertArtifact, UpdateRow, UnlinkEntries,
         RefuseMove, EndWrite, MarkReady, history
<1>3. (\E pc : Step(c, pc)) \/ End(c) \/ OnError(c)
  BY DEF SetProcessing, WipeFiles, SetFailed, PlaceOnDisk, UpsertArtifact, UpdateRow, UnlinkEntries,
         RefuseMove, EndWrite, MarkReady
<1> QED BY <1>1, <1>2, <1>3, StepAside, EndAside, OnErrorAside

LEMMA RecordAside ==
  ASSUME TypeInv, NEW c \in Calls,
         \/ ExtractAndScan(c) \/ HashFile(c) \/ MoveSubtree(c) \/ ListArtifacts(c)
         \/ BuildManifest(c) \/ BeginWrite(c) \/ PublishManifest(c) \/ RemoveBundleDir(c)
  PROVE  call[c] # Idle /\ Aside(c) /\ (drift /\ apart /\ ~ call[c].alone => drift' /\ apart')
<1>1. call[c] # Idle
  <2>1. \E pc \in Steps : At(c, pc)
    <3>1. CASE ExtractAndScan(c) \/ HashFile(c)
      BY <3>1 DEF ExtractAndScan, HashFile, Steps
    <3>2. CASE MoveSubtree(c)
      BY <3>2 DEF MoveSubtree, Steps
    <3>3. CASE ListArtifacts(c) \/ BuildManifest(c) \/ PublishManifest(c)
      BY <3>3 DEF ListArtifacts, BuildManifest, PublishManifest, Steps
    <3>4. CASE BeginWrite(c) \/ RemoveBundleDir(c)
      BY <3>4 DEF BeginWrite, RemoveBundleDir, Steps
    <3> QED BY <3>1, <3>2, <3>3, <3>4
  <2> QED BY <2>1, AtCall
<1>2. call[c] \in Call
  BY <1>1 DEF TypeInv
<1>3. drift /\ apart => drift' /\ apart'
  <2>1. ASSUME MoveSubtree(c), drift, apart PROVE drift' /\ apart'
    <3>1. PICK split : drift' = (drift \/ split) /\ apart' = (apart \/ split \/ files' # files)
      BY <2>1 DEF MoveSubtree
    <3> QED BY <2>1, <3>1
  <2> QED BY <2>1 DEF ExtractAndScan, HashFile, ListArtifacts, BuildManifest, BeginWrite,
                      PublishManifest, RemoveBundleDir, history
<1>4. Aside(c)
  <2>1. CASE ExtractAndScan(c)
    <3>1. PICK q : Now(c, q) /\ (q = Idle \/ q = [call[c] EXCEPT !.pc = "failed"]
                              \/ q = [call[c] EXCEPT !.pc = "upsert", !.tree = files'])
      BY <2>1 DEF ExtractAndScan, StepOrGone
    <3>2. q # Idle => q.alone = call[c].alone
      BY <1>2, <3>1 DEF Call
    <3> QED BY <3>1, <3>2, NowAside
  <2>2. CASE HashFile(c)
    <3>1. PICK q : Now(c, q) /\ (q = Idle \/ \E pc, t : q = [call[c] EXCEPT !.pc = pc, !.tree = t])
      BY <2>2 DEF HashFile, End
    <3>2. q # Idle => q.alone = call[c].alone
      BY <1>2, <3>1 DEF Call
    <3> QED BY <3>1, <3>2, NowAside
  <2>3. CASE MoveSubtree(c)
    <3>1. PICK m, s, r, f : Now(c, [call[c] EXCEPT !.moves = m, !.source = s, !.renamed = r, !.found = f])
      BY <2>3 DEF MoveSubtree
    <3>2. [call[c] EXCEPT !.moves = m, !.source = s, !.renamed = r, !.found = f].alone = call[c].alone
      BY <1>2 DEF Call
    <3> QED BY <3>1, <3>2, NowAside
  <2>4. CASE ListArtifacts(c) \/ BuildManifest(c)
    <3>1. PICK pc, b : Now(c, [call[c] EXCEPT !.pc = pc, !.built = b])
      BY <2>4 DEF ListArtifacts, BuildManifest
    <3>2. [call[c] EXCEPT !.pc = pc, !.built = b].alone = call[c].alone
      BY <1>2 DEF Call
    <3> QED BY <3>1, <3>2, NowAside
  <2>5. CASE PublishManifest(c)
    <3>1. CASE tmp = Absent
      BY <1>1, <2>5, <3>1, OnErrorAside DEF PublishManifest
    <3>2. CASE tmp # Absent
      <4>1. call'[c] = Idle \/ call'[c] = [call[c] EXCEPT !.pc = "ready"]
        BY <2>5, <3>2, OutMoves
      <4>2. call'[c] # Idle => call'[c].alone = call[c].alone
        BY <1>2, <4>1 DEF Call
      <4> QED BY <2>5, <3>2, <4>2, OutMoves, OutAside
    <3> QED BY <3>1, <3>2
  <2>6. CASE BeginWrite(c)
    <3>1. Now(c, [call[c] EXCEPT !.pc = "fill", !.out = "tmp"])
      BY <2>6 DEF BeginWrite
    <3>2. [call[c] EXCEPT !.pc = "fill", !.out = "tmp"].alone = call[c].alone
      BY <1>2 DEF Call
    <3> QED BY <3>1, <3>2, NowAside
  <2>7. CASE RemoveBundleDir(c)
    BY <2>7, OutMoves, OutAside
  <2> QED BY <2>1, <2>2, <2>3, <2>4, <2>5, <2>6, <2>7
<1> QED BY <1>1, <1>3, <1>4

(* The statements that change what other calls know of the rows.             *)
LEMMA TableAside ==
  ASSUME TypeInv, NEW c \in Calls,
         UpsertScan(c) \/ DeleteRows(c) \/ CommitMoves(c) \/ DeleteBundleRow(c)
  PROVE  call[c] # Idle /\ Aside(c) /\ (drift /\ apart /\ ~ call[c].alone => drift' /\ apart')
<1>1. call[c] # Idle
  BY DEF UpsertScan, DeleteRows, CommitMoves, DeleteBundleRow, At, Idle
<1>2. call[c] \in Call
  BY <1>1 DEF TypeInv
<1>3. drift /\ apart /\ ~ call[c].alone => drift' /\ apart'
  BY DEF UpsertScan, DeleteRows, CommitMoves, DeleteBundleRow, history
<1>4. CASE OnError(c) \/ Step(c, "rmdir")
  BY <1>1, <1>3, <1>4, OnErrorAside, StepAside
<1>5. CASE ~ (OnError(c) \/ Step(c, "rmdir"))
  <2>1. CASE UpsertScan(c)
    <3>1. call' = [d \in Calls |-> IF d = c THEN [call[c] EXCEPT !.pc = "list"]
                   ELSE IF call[d] = Idle THEN Idle
                   ELSE [call[d] EXCEPT !.refs = {p \in @ : rows'[p] # "none"}]]
      BY <1>5, <2>1 DEF UpsertScan, NowAll
    <3>2. ASSUME NEW d \in Calls \ {c}, call[d] # Idle
          PROVE  call'[d] # Idle /\ call'[d].alone = call[d].alone
      <4>1. call[d] \in Call
        BY <3>2 DEF TypeInv
      <4>2. call'[d] = [call[d] EXCEPT !.refs = {p \in @ : rows'[p] # "none"}]
        BY <3>1, <3>2
      <4>3. call'[d].alone = call[d].alone /\ call'[d].pc = call[d].pc
        BY <4>1, <4>2 DEF Call
      <4> QED BY <4>1, <4>3, IdleIsNoCall DEF Idle
    <3>3. call'[c].alone = call[c].alone
      BY <1>2, <3>1 DEF Call
    <3> QED BY <1>1, <1>3, <3>1, <3>2, <3>3 DEF Aside
  <2>2. CASE DeleteRows(c)
    <3>1. call' = [d \in Calls |-> IF d = c THEN [call[c] EXCEPT !.pc = "unlink"]
                   ELSE IF call[d] = Idle THEN Idle
                   ELSE [call[d] EXCEPT !.refs = @ \ DeletedRows(c)]]
      BY <1>5, <2>2 DEF DeleteRows, NowAll
    <3>2. ASSUME NEW d \in Calls \ {c}, call[d] # Idle
          PROVE  call'[d] # Idle /\ call'[d].alone = call[d].alone
      <4>1. call[d] \in Call
        BY <3>2 DEF TypeInv
      <4>2. call'[d] = [call[d] EXCEPT !.refs = @ \ DeletedRows(c)]
        BY <3>1, <3>2
      <4>3. call'[d].alone = call[d].alone /\ call'[d].pc = call[d].pc
        BY <4>1, <4>2 DEF Call
      <4> QED BY <4>1, <4>3, IdleIsNoCall DEF Idle
    <3>3. call'[c].alone = call[c].alone
      BY <1>2, <3>1 DEF Call
    <3> QED BY <1>1, <1>3, <3>1, <3>2, <3>3 DEF Aside
  <2>3. CASE CommitMoves(c)
    <3>1. call' = [d \in Calls |-> IF d = c THEN [call[c] EXCEPT !.pc = "list", !.source = Same, !.renamed = FALSE]
                   ELSE IF call[d] = Idle THEN Idle
                   ELSE [call[d] EXCEPT !.refs = {p \in Paths : call[c].source[p] \in @}]]
      BY <1>5, <2>3 DEF CommitMoves, NowAll
    <3>2. ASSUME NEW d \in Calls \ {c}, call[d] # Idle
          PROVE  call'[d] # Idle /\ call'[d].alone = call[d].alone
      <4>1. call[d] \in Call
        BY <3>2 DEF TypeInv
      <4>2. call'[d] = [call[d] EXCEPT !.refs = {p \in Paths : call[c].source[p] \in @}]
        BY <3>1, <3>2
      <4>3. call'[d].alone = call[d].alone /\ call'[d].pc = call[d].pc
        BY <4>1, <4>2 DEF Call
      <4> QED BY <4>1, <4>3, IdleIsNoCall DEF Idle
    <3>3. call'[c].alone = call[c].alone
      BY <1>2, <3>1 DEF Call
    <3> QED BY <1>1, <1>3, <3>1, <3>2, <3>3 DEF Aside
  <2>4. CASE DeleteBundleRow(c)
    <3>1. call' = [d \in Calls |-> IF d = c THEN [call[c] EXCEPT !.pc = "rmdir"]
                   ELSE IF call[d] = Idle THEN Idle
                   ELSE [call[d] EXCEPT !.live = FALSE, !.refs = {}]]
      BY <1>5, <2>4 DEF DeleteBundleRow, NowAll
    <3>2. ASSUME NEW d \in Calls \ {c}, call[d] # Idle
          PROVE  call'[d] # Idle /\ call'[d].alone = call[d].alone
      <4>1. call[d] \in Call
        BY <3>2 DEF TypeInv
      <4>2. call'[d] = [call[d] EXCEPT !.live = FALSE, !.refs = {}]
        BY <3>1, <3>2
      <4>3. call'[d].alone = call[d].alone /\ call'[d].pc = call[d].pc
        BY <4>1, <4>2 DEF Call
      <4> QED BY <4>1, <4>3, IdleIsNoCall DEF Idle
    <3>3. call'[c].alone = call[c].alone
      BY <1>2, <3>1 DEF Call
    <3> QED BY <1>1, <1>3, <3>1, <3>2, <3>3 DEF Aside
  <2> QED BY <1>1, <1>3, <2>1, <2>2, <2>3, <2>4
<1> QED BY <1>4, <1>5

LEMMA BreakAside ==
  ASSUME TypeInv, NEW c \in Calls, Break(c)
  PROVE  call[c] # Idle /\ Aside(c) /\ drift' /\ apart' = apart
<1>1. drift' /\ apart' = apart
  BY DEF Break, Disconnect, FailStep, FailUpsert, Broken
<1>2. CASE Disconnect(c)
  <2>1. call[c] # Idle /\ call[c] \in Call
    BY <1>2 DEF Disconnect, TypeInv
  <2>2. CASE End(c)
    BY <1>1, <2>1, <2>2, EndAside
  <2>3. CASE Now(c, [call[c] EXCEPT !.gone = TRUE])
    <3>1. [call[c] EXCEPT !.gone = TRUE].alone = call[c].alone
      BY <2>1 DEF Call
    <3> QED BY <1>1, <2>1, <2>3, <3>1, NowAside
  <2> QED BY <1>2, <2>2, <2>3 DEF Disconnect
<1>3. CASE FailStep(c)
  <2>1. call[c] # Idle /\ (End(c) \/ Step(c, "list") \/ OnError(c))
    BY <1>3 DEF FailStep
  <2> QED BY <1>1, <2>1, EndAside, StepAside, OnErrorAside
<1>4. CASE FailUpsert(c)
  <2>1. call[c] # Idle /\ End(c)
    BY <1>4, AtCall DEF FailUpsert, Steps
  <2> QED BY <1>1, <2>1, EndAside
<1> QED BY <1>2, <1>3, <1>4 DEF Break

LEMMA WorkAside ==
  ASSUME TypeInv, NEW c \in Calls, Work(c) \/ Break(c)
  PROVE  call[c] # Idle /\ Aside(c) /\ (drift /\ apart /\ ~ call[c].alone => drift' /\ apart')
  BY PlainAside, RecordAside, TableAside, BreakAside DEF Work

(* What a step of a call that is alone leaves behind.                        *)
Kept(c) ==
  /\ call'[c] # Idle => MineOK(c)'
  /\ ~ apart' => Backed(rows', files')
  /\ ~ drift' /\ call'[c] = Idle => (Fresh \/ Settled)'

(* For a step of a call it is enough to look at calls that are alone.        *)
LEMMA KeptSuffices ==
  ASSUME BundlesInv, NEW c \in Calls, Work(c) \/ Break(c), TypeInv', IsTree(files'),
         call[c].alone => Kept(c)
  PROVE  BundlesInv'
<1>1. TypeInv
  BY DEF BundlesInv
<1>2. call[c] # Idle /\ Aside(c) /\ (drift /\ apart /\ ~ call[c].alone => drift' /\ apart')
  BY <1>1, WorkAside
<1>3. CASE call[c].alone
  BY <1>2, <1>3, LoneStep DEF Kept
<1>4. CASE ~ call[c].alone
  <2>1. drift /\ apart
    BY <1>2, <1>4 DEF BundlesInv
  <2> QED BY <1>2, <1>4, <2>1, CrowdedStep
<1> QED BY <1>3, <1>4

LEMMA StepFields ==
  ASSUME TypeInv, NEW c \in Calls, call[c] \in Call, NEW pc, Step(c, pc)
  PROVE  /\ call'[c].pc = pc /\ call'[c].op = call[c].op /\ call'[c].entries = call[c].entries
         /\ call'[c].refs = call[c].refs /\ call'[c].tree = call[c].tree
         /\ call'[c].built = call[c].built /\ call'[c].gone = call[c].gone
         /\ call'[c].live = call[c].live /\ call'[c].alone = call[c].alone
<1>1. call'[c] = [call[c] EXCEPT !.pc = pc]
  BY DEF Step, Now, TypeInv
<1> QED BY <1>1 DEF Call

(* All a lone call knows as it takes a step.                                 *)
LEMMA AtLone ==
  ASSUME BundlesInv, NEW c \in Calls, call[c].alone, NEW pc \in Steps, At(c, pc)
  PROVE  /\ TypeInv /\ RestOK /\ call[c] \in Call /\ call[c] # Idle /\ call[c].pc = pc
         /\ ShapeOK(call[c]) /\ LoneOK(c)
         /\ Clean(call[c]) => CleanOK(c)
         /\ ~ drift => Clean(call[c])
         /\ ~ apart => pc \notin {"extract", "upsert"}
         /\ ~ apart => Backed(rows, files)
<1>1. TypeInv
  BY DEF BundlesInv
<1>2. call[c] # Idle /\ call[c].pc = pc
  BY <1>1, AtCall
<1> QED BY <1>1, <1>2, LoneFacts

(* The end of a call after which something has gone wrong.                   *)
LEMMA EndKept ==
  ASSUME TypeInv, NEW c \in Calls, End(c), ~ apart' => Backed(rows', files'),
         ~ drift' => (Fresh \/ Settled)'
  PROVE  Kept(c)
<1>1. call'[c] = Idle
  BY EndAside
<1> QED BY <1>1 DEF Kept

LEMMA SetProcessingKept ==
  ASSUME BundlesInv, NEW c \in Calls, SetProcessing(c), call[c].alone
  PROVE  Kept(c)
<1>1. /\ TypeInv /\ call[c] \in Call /\ call[c].pc = "processing" /\ ShapeOK(call[c]) /\ LoneOK(c)
      /\ (Clean(call[c]) => CleanOK(c)) /\ (~ apart => Backed(rows, files))
  BY AtLone DEF SetProcessing, Steps
<1> DEFINE pc == IF call[c].op = "archive" THEN "wipe" ELSE "list"
<1>2. /\ Step(c, pc) /\ rows' = rows /\ once' = once /\ files' = files /\ drift' = drift /\ apart' = apart
  BY DEF SetProcessing, store, history
<1>3. /\ call'[c].pc = pc /\ call'[c].op = call[c].op /\ call'[c].entries = call[c].entries
      /\ call'[c].refs = call[c].refs /\ call'[c].gone = call[c].gone
      /\ call'[c].live = call[c].live /\ call'[c].alone = call[c].alone
  BY <1>1, <1>2, StepFields
<1>4. call'[c] # Idle
  BY <1>3 DEF Idle
<1>5. LoneOK(c)'
  BY <1>1, <1>2, <1>3 DEF LoneOK
<1>6. Clean(call[c])' => CleanOK(c)'
  BY <1>1, <1>2, <1>3 DEF Clean, CleanOK, Publishing
<1>7. ~ apart' => Backed(rows', files')
  BY <1>1, <1>2
<1> QED BY <1>3, <1>4, <1>5, <1>6, <1>7 DEF Kept, MineOK

LEMMA WipeFilesKept ==
  ASSUME BundlesInv, NEW c \in Calls, WipeFiles(c), call[c].alone
  PROVE  Kept(c)
<1>1. TypeInv /\ call[c] \in Call /\ call[c].pc = "wipe" /\ LoneOK(c)
  BY AtLone DEF WipeFiles, Steps
<1>2. Step(c, "extract") /\ rows' = rows /\ files' = Empty /\ drift' = drift /\ apart'
  BY DEF WipeFiles, table
<1>3. /\ call'[c].pc = "extract" /\ call'[c].op = call[c].op /\ call'[c].entries = call[c].entries
      /\ call'[c].refs = call[c].refs /\ call'[c].gone = call[c].gone
      /\ call'[c].live = call[c].live /\ call'[c].alone = call[c].alone
  BY <1>1, <1>2, StepFields
<1>4. call'[c] # Idle
  BY <1>3 DEF Idle
<1>5. LoneOK(c)'
  BY <1>1, <1>2, <1>3 DEF LoneOK
<1>6. CleanOK(c)'
  BY <1>3 DEF CleanOK, Publishing
<1> QED BY <1>2, <1>4, <1>5, <1>6 DEF Kept, MineOK

LEMMA ExtractAndScanKept ==
  ASSUME BundlesInv, NEW c \in Calls, ExtractAndScan(c), call[c].alone
  PROVE  Kept(c)
<1>1. /\ TypeInv /\ call[c] \in Call /\ call[c].pc = "extract" /\ LoneOK(c) /\ apart
  BY AtLone DEF ExtractAndScan, Steps
<1>2. apart' = apart /\ drift' = drift
  BY DEF ExtractAndScan, history
<1>3. PICK q : /\ Now(c, q)
               /\ \/ q = Idle /\ call[c].gone
                  \/ q = [call[c] EXCEPT !.pc = "failed"]
                  \/ q = [call[c] EXCEPT !.pc = "upsert", !.tree = files']
  BY DEF ExtractAndScan, StepOrGone
<1>4. call'[c] = q
  BY <1>1, <1>3 DEF Now, TypeInv
<1>5. CASE q = Idle /\ call[c].gone
  BY <1>1, <1>2, <1>4, <1>5 DEF LoneOK, Kept
<1>6. CASE q = [call[c] EXCEPT !.pc = "failed"] \/ q = [call[c] EXCEPT !.pc = "upsert", !.tree = files']
  <2>1. /\ q.op = call[c].op /\ q.entries = call[c].entries
        /\ q.refs = call[c].refs /\ q.gone = call[c].gone
        /\ q.live = call[c].live /\ q.alone = call[c].alone
        /\ q.pc = "failed" \/ (q.pc = "upsert" /\ q.tree = files')
    BY <1>1, <1>6 DEF Call
  <2>2. call'[c] # Idle
    BY <1>4, <2>1 DEF Idle
  <2>3. LoneOK(c)'
    BY <1>1, <1>2, <1>4, <2>1 DEF LoneOK
  <2>4. CleanOK(c)'
    BY <1>4, <2>1 DEF CleanOK, Publishing
  <2> QED BY <1>1, <1>2, <2>2, <2>3, <2>4 DEF Kept, MineOK
<1> QED BY <1>3, <1>5, <1>6

LEMMA UpsertScanKept ==
  ASSUME BundlesInv, NEW c \in Calls, UpsertScan(c), call[c].alone
  PROVE  Kept(c)
<1>1. TypeInv /\ call[c] \in Call /\ call[c].pc = "upsert" /\ LoneOK(c) /\ RestOK
  BY AtLone DEF UpsertScan, Steps
<1>2. call[c].live /\ files = call[c].tree
  BY <1>1 DEF LoneOK
<1>3. /\ rows' = files /\ files' = files /\ drift' = drift /\ ~ apart'
      /\ call'[c] = [call[c] EXCEPT !.pc = "list"]
  BY <1>2 DEF UpsertScan, NowAll, store
<1>4. /\ call'[c].pc = "list" /\ call'[c].op = call[c].op /\ call'[c].entries = call[c].entries
      /\ call'[c].refs = call[c].refs /\ call'[c].gone = call[c].gone
      /\ call'[c].live = call[c].live /\ call'[c].alone = call[c].alone
  BY <1>1, <1>3 DEF Call
<1>5. call'[c] # Idle
  BY <1>4 DEF Idle
<1>6. LoneOK(c)'
  BY <1>1, <1>3, <1>4 DEF LoneOK
<1>7. Agree(rows', files') /\ Backed(rows', files')
  BY <1>3 DEF Agree, Backed
<1>8. CleanOK(c)'
  BY <1>4, <1>7 DEF CleanOK, Publishing
<1> QED BY <1>4, <1>5, <1>6, <1>7, <1>8 DEF Kept, MineOK

LEMMA SetFailedKept ==
  ASSUME BundlesInv, NEW c \in Calls, SetFailed(c), call[c].alone
  PROVE  Kept(c)
<1>1. TypeInv /\ (~ apart => Backed(rows, files))
  BY DEF BundlesInv
<1>2. End(c) /\ drift' /\ apart' = apart /\ rows' = rows /\ files' = files
  BY DEF SetFailed, store
<1> QED BY <1>1, <1>2, EndKept

LEMMA SettledAgrees == Fresh \/ Settled => Agree(rows, files)
  BY KindsApart DEF Fresh, Settled, Agree, Empty

LEMMA StillSettled ==
  ASSUME Fresh \/ Settled, status' = status, rows' = rows, once' = once, files' = files,
         manifest' = manifest
  PROVE  (Fresh \/ Settled)'
  BY DEF Fresh, Settled

(* A file or folder put in place leaves the other files under their rows.    *)
LEMMA PlacedBacked ==
  ASSUME NEW r \in Tree, NEW t \in Tree, NEW p \in Paths, NEW kind \in Kinds,
         CanPlace(t, p, kind), kind # "none", Backed(r, t)
  PROVE  Backed(r, Placed(t, p, kind))
<1> DEFINE u == Placed(t, p, kind)
<1>1. \A q \in Paths : u[q] = IF q = p THEN kind ELSE IF q \in Ancestors(p) THEN "dir" ELSE t[q]
  BY PlacedIs
<1> HIDE DEF u
<1>2. ASSUME NEW q \in Paths, r[q] \in Contents PROVE u[q] \in Contents
  <2>1. t[q] \in Contents
    BY <1>2 DEF Backed
  <2>2. q \notin Ancestors(p)
    BY <2>1 DEF CanPlace, CanMakeDirs
  <2>3. q = p => kind \in Contents
    BY <2>1 DEF CanPlace, Kinds
  <2> QED BY <1>1, <2>1, <2>2, <2>3
<1> QED BY <1>2 DEF Backed, u

(* Placing a file leaves rows and files in agreement but for its own row.    *)
LEMMA PlacedFileAgrees ==
  ASSUME NEW r \in Tree, NEW t \in Tree, NEW p \in Paths, NEW kind \in Contents,
         CanPlace(t, p, kind), Agree(r, t)
  PROVE  Placed(t, p, kind)[p] = kind /\ Agree([r EXCEPT ![p] = kind], Placed(t, p, kind))
<1> DEFINE u == Placed(t, p, kind)
           v == [r EXCEPT ![p] = kind]
<1>0. kind \in Kinds
  BY DEF Kinds
<1>1. \A q \in Paths : u[q] = IF q = p THEN kind ELSE IF q \in Ancestors(p) THEN "dir" ELSE t[q]
  BY <1>0, PlacedIs
<1>2. \A q \in Paths : v[q] = IF q = p THEN kind ELSE r[q]
  BY DEF Tree
<1> HIDE DEF u, v
<1>3. ASSUME NEW q \in Paths, v[q] # "none" PROVE u[q] = v[q]
  <2>1. CASE q = p
    BY <2>1, <1>1, <1>2
  <2>2. CASE q # p
    <3>1. t[q] = r[q] /\ t[q] \in {"dir"} \cup Contents
      BY <2>2, <1>2, <1>3 DEF Agree, Tree, Kinds
    <3>2. q \in Ancestors(p) => t[q] = "dir"
      BY <3>1 DEF CanPlace, CanMakeDirs
    <3> QED BY <2>2, <3>1, <3>2, <1>1, <1>2
  <2> QED BY <2>1, <2>2
<1>4. ASSUME NEW q \in Paths, u[q] \in Contents PROVE v[q] = u[q]
  BY <1>1, <1>2, <1>4, KindsApart DEF Agree
<1> QED BY <1>1, <1>3, <1>4 DEF Agree, u, v

(* Placing a folder leaves them in agreement: a folder needs no row.         *)
LEMMA PlacedFolderAgrees ==
  ASSUME NEW r \in Tree, NEW t \in Tree, NEW p \in Paths, CanPlace(t, p, "dir"), Agree(r, t)
  PROVE  /\ Agree(r, Placed(t, p, "dir"))
         /\ \A q \in Ancestors(p) \cup {p} : Placed(t, p, "dir")[q] = "dir"
<1> DEFINE u == Placed(t, p, "dir")
<1>1. \A q \in Paths : u[q] = IF q = p \/ q \in Ancestors(p) THEN "dir" ELSE t[q]
  BY PlacedIs DEF Kinds
<1> HIDE DEF u
<1>2. ASSUME NEW q \in Paths, r[q] # "none" PROVE u[q] = r[q]
  <2>1. t[q] = r[q] /\ t[q] \in {"dir"} \cup Contents
    BY <1>2 DEF Agree, Tree, Kinds
  <2>2. q = p \/ q \in Ancestors(p) => t[q] = "dir"
    BY <2>1 DEF CanPlace, CanMakeDirs
  <2> QED BY <2>1, <2>2, <1>1
<1>3. ASSUME NEW q \in Paths, u[q] \in Contents PROVE r[q] = u[q]
  BY <1>1, <1>3, KindsApart DEF Agree
<1>4. \A q \in Ancestors(p) \cup {p} : u[q] = "dir"
  BY <1>1, AncestorIs
<1> QED BY <1>2, <1>3, <1>4 DEF Agree, u

LEMMA PlaceOnDiskKept ==
  ASSUME BundlesInv, NEW c \in Calls, PlaceOnDisk(c), call[c].alone
  PROVE  Kept(c)
<1>1. /\ TypeInv /\ RestOK /\ call[c] \in Call /\ call[c].pc = "place" /\ ShapeOK(call[c]) /\ LoneOK(c)
      /\ (Clean(call[c]) => CleanOK(c)) /\ (~ apart => Backed(rows, files))
      /\ (~ drift => Clean(call[c]))
  BY AtLone DEF PlaceOnDisk, Steps
<1>2. PICK p \in Paths : /\ call[c].entries = {p}
                         /\ call[c].op = "file" => call[c].tree[p] \in Contents
                         /\ call[c].op = "folder" => call[c].tree[p] = "dir"
  BY <1>1 DEF ShapeOK
<1>3. call[c].op \in {"file", "folder"} /\ rows \in Tree /\ files \in Tree
  BY <1>1 DEF ShapeOK, RestOK
<1>4. /\ rows' = rows /\ once' = once /\ status' = status /\ manifest' = manifest
      /\ drift' = drift /\ apart' = apart
  BY DEF PlaceOnDisk, table, history
<1>5. Clean(call[c]) => (Fresh \/ Settled)
  BY <1>1 DEF CleanOK
<1>6. CASE ~ CanPlace(files, p, call[c].tree[p])
  <2>1. files' = files /\ End(c)
    BY <1>2, <1>6 DEF PlaceOnDisk
  <2> QED BY <1>1, <1>4, <1>5, <2>1, EndKept, StillSettled
<1>7. CASE CanPlace(files, p, call[c].tree[p])
  <2> DEFINE kind == call[c].tree[p]
             pc == IF call[c].op = "file" THEN "hash" ELSE "upsertOne"
  <2>1. files' = Placed(files, p, kind) /\ Step(c, pc)
    BY <1>2, <1>7 DEF PlaceOnDisk
  <2>2. /\ call'[c].pc = pc /\ call'[c].op = call[c].op /\ call'[c].entries = {p}
        /\ call'[c].refs = call[c].refs /\ call'[c].gone = call[c].gone
        /\ call'[c].live = call[c].live /\ call'[c].alone = call[c].alone
    BY <1>1, <1>2, <2>1, StepFields
  <2>3. kind \in Kinds /\ kind # "none"
    BY <1>2, <1>3, KindsApart DEF Kinds
  <2>4. ~ apart' => Backed(rows', files')
    BY <1>1, <1>3, <1>4, <1>7, <2>1, <2>3, PlacedBacked
  <2>5. call'[c] # Idle
    BY <2>2 DEF Idle
  <2>6. LoneOK(c)'
    BY <1>1, <1>2, <1>3, <1>4, <2>2 DEF LoneOK
  <2>7. ASSUME Clean(call[c])' PROVE CleanOK(c)'
    <3>1. Clean(call[c])
      BY <2>7, <2>2, <1>4 DEF Clean
    <3>2. Agree(rows, files)
      BY <3>1, <1>5, SettledAgrees
    <3>3. CASE call[c].op = "file"
      <4>1. kind \in Contents
        BY <1>2, <3>3
      <4>2. files'[p] = kind /\ Agree([rows EXCEPT ![p] = kind], files')
        BY <4>1, <3>2, <1>3, <1>7, <2>1, PlacedFileAgrees
      <4> QED BY <4>1, <4>2, <2>2, <3>3, <1>4 DEF CleanOK, Publishing
    <3>4. CASE call[c].op = "folder"
      <4>1. kind = "dir"
        BY <1>2, <3>4
      <4>2. Agree(rows, files') /\ \A q \in Ancestors(p) \cup {p} : files'[q] = "dir"
        BY <4>1, <3>2, <1>3, <1>7, <2>1, PlacedFolderAgrees
      <4> QED BY <4>2, <2>2, <3>4, <1>4 DEF CleanOK, Publishing
    <3> QED BY <1>3, <3>3, <3>4
  <2> QED BY <2>2, <2>4, <2>5, <2>6, <2>7 DEF Kept, MineOK
<1> QED BY <1>6, <1>7

LEMMA HashFileKept == ASSUME BundlesInv, NEW c \in Calls, HashFile(c), call[c].alone PROVE Kept(c)
<1>1. /\ TypeInv /\ RestOK /\ call[c] \in Call /\ call[c].pc = "hash" /\ ShapeOK(call[c]) /\ LoneOK(c)
      /\ (Clean(call[c]) => CleanOK(c)) /\ (~ apart => Backed(rows, files))
      /\ (~ drift => Clean(call[c]))
  BY AtLone DEF HashFile, Steps
<1>2. PICK p \in Paths : call[c].entries = {p}
  BY <1>1 DEF ShapeOK
<1>3. call[c].op \in {"file", "rehash"} /\ call[c].tree \in Tree
  BY <1>1 DEF ShapeOK, Call
<1>4. /\ rows' = rows /\ once' = once /\ files' = files /\ drift' = drift /\ apart' = apart
  BY DEF HashFile, table, store, history
<1>5. CASE files[p] \in Contents
  <2> DEFINE pc == IF call[c].op = "file" THEN "upsertOne" ELSE "update"
             t == [call[c].tree EXCEPT ![p] = files[p]]
  <2>1. call'[c] = [call[c] EXCEPT !.pc = pc, !.tree = t]
    BY <1>1, <1>2, <1>5 DEF HashFile, Now, TypeInv
  <2>2. t[p] = files[p]
    BY <1>3 DEF Tree
  <2> HIDE DEF t
  <2>3. /\ call'[c].pc = pc /\ call'[c].op = call[c].op /\ call'[c].entries = {p}
        /\ call'[c].refs = call[c].refs /\ call'[c].gone = call[c].gone /\ call'[c].tree = t
        /\ call'[c].live = call[c].live /\ call'[c].alone = call[c].alone
    BY <1>1, <1>2, <2>1 DEF Call
  <2>4. call'[c] # Idle
    BY <2>3 DEF Idle
  <2>5. LoneOK(c)'
    BY <1>1, <1>2, <1>4, <2>2, <2>3 DEF LoneOK
  <2>6. ASSUME Clean(call[c])' PROVE CleanOK(c)'
    <3>1. CleanOK(c)
      BY <2>6, <2>3, <1>1, <1>4 DEF Clean
    <3> QED BY <3>1, <1>1, <1>2, <1>3, <1>4, <2>3 DEF CleanOK, Publishing
  <2> QED BY <1>1, <1>4, <2>3, <2>4, <2>5, <2>6 DEF Kept, MineOK
<1>6. CASE files[p] \notin Contents
  <2>1. End(c)
    BY <1>2, <1>6 DEF HashFile
  <2>2. drift
    <3>1. ASSUME CleanOK(c) PROVE FALSE
      <4>1. CASE call[c].op = "file"
        BY <3>1, <4>1, <1>1, <1>2, <1>6 DEF CleanOK
      <4>2. CASE call[c].op = "rehash"
        <5>1. rows[p] \in Contents /\ Agree(rows, files)
          BY <3>1, <4>2, <1>1, <1>2 DEF CleanOK
        <5> QED BY <5>1, <1>6, KindsApart DEF Agree
      <4> QED BY <1>3, <4>1, <4>2
    <3> QED BY <3>1, <1>1
  <2> QED BY <1>1, <1>4, <2>1, <2>2, EndKept
<1> QED BY <1>5, <1>6

LEMMA UpsertArtifactKept ==
  ASSUME BundlesInv, NEW c \in Calls, UpsertArtifact(c), call[c].alone
  PROVE  Kept(c)
<1>1. /\ TypeInv /\ RestOK /\ call[c] \in Call /\ call[c].pc = "upsertOne" /\ ShapeOK(call[c]) /\ LoneOK(c)
      /\ (Clean(call[c]) => CleanOK(c)) /\ (~ apart => Backed(rows, files))
  BY AtLone DEF UpsertArtifact, Steps
<1>2. PICK p \in Paths : /\ call[c].entries = {p}
                         /\ call[c].op = "file" => call[c].tree[p] \in Contents
  BY <1>1 DEF ShapeOK
<1>3. call[c].op \in {"file", "folder"} /\ rows \in Tree /\ files \in Tree /\ call[c].live
  BY <1>1 DEF ShapeOK, RestOK, LoneOK
<1>4. files' = files /\ drift' = drift /\ apart' = apart /\ Step(c, "list")
  BY <1>3 DEF UpsertArtifact, store, history
<1>5. /\ call'[c].pc = "list" /\ call'[c].op = call[c].op /\ call'[c].entries = call[c].entries
      /\ call'[c].refs = call[c].refs /\ call'[c].gone = call[c].gone
      /\ call'[c].live = call[c].live /\ call'[c].alone = call[c].alone
  BY <1>1, <1>4, StepFields
<1>6. call'[c] # Idle
  BY <1>5 DEF Idle
<1>7. LoneOK(c)'
  BY <1>1, <1>4, <1>5 DEF LoneOK
<1>8. (~ apart => Backed(rows', files)) /\ (Clean(call[c]) => Agree(rows', files))
  <2>1. CASE call[c].op = "file"
    <3>1. rows' = [rows EXCEPT ![p] = call[c].tree[p]] /\ files[p] = call[c].tree[p]
      BY <1>1, <1>2, <1>3, <2>1 DEF UpsertArtifact, LoneOK
    <3>2. ~ apart => Backed(rows', files)
      BY <3>1, <1>1, <1>2, <1>3, <2>1 DEF Backed, Tree
    <3>3. Clean(call[c]) => Agree(rows', files)
      BY <3>1, <1>1, <1>2, <2>1 DEF CleanOK
    <3> QED BY <3>2, <3>3
  <2>2. CASE call[c].op = "folder"
    <3>1. rows' = Placed(rows, p, "dir")
      BY <1>1, <1>2, <1>3, <2>2 DEF UpsertArtifact
    <3>2. \A q \in Paths : rows'[q] = IF q \in Ancestors(p) \cup {p} THEN "dir" ELSE rows[q]
      BY <3>1, <1>3, PlacedIs DEF Kinds
    <3>3. ~ apart => Backed(rows', files)
      BY <3>2, <1>1, KindsApart DEF Backed
    <3>4. ASSUME Clean(call[c]) PROVE Agree(rows', files)
      <4>1. Agree(rows, files) /\ \A q \in Ancestors(p) \cup {p} : files[q] = "dir"
        BY <3>4, <1>1, <1>2, <2>2 DEF CleanOK
      <4> QED BY <4>1, <3>2, KindsApart DEF Agree
    <3> QED BY <3>3, <3>4
  <2> QED BY <1>3, <2>1, <2>2
<1>9. Clean(call[c])' => CleanOK(c)'
  BY <1>4, <1>5, <1>8 DEF Clean, CleanOK, Publishing
<1> QED BY <1>4, <1>5, <1>6, <1>7, <1>8, <1>9 DEF Kept, MineOK

LEMMA UpdateRowKept ==
  ASSUME BundlesInv, NEW c \in Calls, UpdateRow(c), call[c].alone
  PROVE  Kept(c)
<1>1. /\ TypeInv /\ RestOK /\ call[c] \in Call /\ call[c].pc = "update" /\ ShapeOK(call[c]) /\ LoneOK(c)
      /\ (Clean(call[c]) => CleanOK(c)) /\ (~ apart => Backed(rows, files))
  BY AtLone DEF UpdateRow, Steps
<1>2. PICK p \in Paths : /\ call[c].entries = {p}
                         /\ call[c].op = "rehash" => call[c].tree[p] \in Contents
  BY <1>1 DEF ShapeOK
<1>3. call[c].op \in {"toggle", "rehash"} /\ rows \in Tree /\ files \in Tree /\ call[c].refs = {p}
  BY <1>1, <1>2 DEF ShapeOK, RestOK, LoneOK
<1>4. files' = files /\ drift' = drift /\ apart' = apart /\ Step(c, "list")
  BY DEF UpdateRow, store, history
<1>5. /\ call'[c].pc = "list" /\ call'[c].op = call[c].op /\ call'[c].entries = call[c].entries
      /\ call'[c].refs = call[c].refs /\ call'[c].gone = call[c].gone
      /\ call'[c].live = call[c].live /\ call'[c].alone = call[c].alone
  BY <1>1, <1>4, StepFields
<1>6. call'[c] # Idle
  BY <1>5 DEF Idle
<1>7. LoneOK(c)'
  BY <1>1, <1>4, <1>5 DEF LoneOK
<1>8. Clean(call[c]) => Agree(rows, files)
  BY <1>1, <1>3 DEF CleanOK
<1>9. (~ apart => Backed(rows', files)) /\ (Clean(call[c]) => Agree(rows', files))
  <2>1. CASE call[c].op = "toggle"
    <3>1. rows' = rows
      BY <2>1 DEF UpdateRow
    <3> QED BY <3>1, <1>1, <1>8
  <2>2. CASE call[c].op = "rehash"
    <3>1. (CHOOSE x \in call[c].entries : TRUE) = p
      BY <1>2
    <3>2. \A x \in Paths : rows'[x] = IF x = p THEN call[c].tree[p] ELSE rows[x]
      BY <2>2, <3>1, <1>3 DEF UpdateRow
    <3>3. files[p] = call[c].tree[p] /\ files[p] \in Contents
      BY <1>1, <1>2, <2>2 DEF LoneOK
    <3>4. ~ apart => Backed(rows', files)
      BY <3>2, <3>3, <1>1 DEF Backed
    <3>5. Clean(call[c]) => Agree(rows', files)
      BY <3>2, <3>3, <1>8 DEF Agree
    <3> QED BY <3>4, <3>5
  <2> QED BY <1>3, <2>1, <2>2
<1>10. Clean(call[c])' => CleanOK(c)'
  BY <1>4, <1>5, <1>9 DEF Clean, CleanOK, Publishing
<1> QED BY <1>4, <1>5, <1>6, <1>7, <1>9, <1>10 DEF Kept, MineOK

LEMMA DeleteRowsKept ==
  ASSUME BundlesInv, NEW c \in Calls, DeleteRows(c), call[c].alone
  PROVE  Kept(c)
<1>1. /\ TypeInv /\ RestOK /\ call[c] \in Call /\ call[c].pc = "rows" /\ ShapeOK(call[c]) /\ LoneOK(c)
      /\ (Clean(call[c]) => CleanOK(c)) /\ (~ apart => Backed(rows, files))
  BY AtLone DEF DeleteRows, Steps
<1>2. PICK D : D = DeletedRows(c)
  OBVIOUS
<1>3. /\ rows' = [p \in Paths |-> IF p \in D THEN "none" ELSE rows[p]]
      /\ files' = files /\ drift' = drift /\ apart' = apart
      /\ call'[c] = [call[c] EXCEPT !.pc = "unlink"]
  BY <1>2 DEF DeleteRows, NowAll, store, history
<1>4. /\ call'[c].pc = "unlink" /\ call'[c].op = call[c].op /\ call'[c].entries = call[c].entries
      /\ call'[c].refs = call[c].refs /\ call'[c].gone = call[c].gone /\ call'[c].tree = call[c].tree
      /\ call'[c].live = call[c].live /\ call'[c].alone = call[c].alone
  BY <1>1, <1>3 DEF Call
<1>5. call'[c] # Idle
  BY <1>4 DEF Idle
<1>6. DeletedRows(c)' = D
  BY <1>2, <1>4 DEF DeletedRows
<1>7. D \subseteq Paths /\ call[c].entries \subseteq Paths
  <2>1. call[c].entries \subseteq Paths /\ call[c].refs \subseteq Paths
    BY <1>1 DEF Call
  <2> QED BY <2>1, <1>2, SubtreeInPaths DEF DeletedRows
<1>8. LoneOK(c)'
  BY <1>1, <1>3, <1>4, <1>6, <1>7 DEF LoneOK
<1>9. ~ apart' => Backed(rows', files')
  BY <1>1, <1>3, KindsApart DEF Backed
<1>10. ASSUME Clean(call[c])' PROVE CleanOK(c)'
  <2>1. CleanOK(c)
    BY <1>10, <1>1, <1>3, <1>4 DEF Clean
  <2>2. Agree(rows, files)
    BY <2>1, <1>1 DEF CleanOK, ShapeOK
  <2>3. call[c].tree = rows /\ \A p \in call[c].entries : rows[p] # "none"
    BY <1>1 DEF LoneOK
  <2>4. \A p \in call[c].entries : files'[p] = call'[c].tree[p]
    BY <2>2, <2>3, <1>3, <1>4, <1>7 DEF Agree
  <2>5. Agree(rows', [p \in Paths |-> IF p \in D THEN "none" ELSE files'[p]])
    BY <2>2, <1>3, KindsApart DEF Agree
  <2> QED BY <2>4, <2>5, <1>4, <1>6 DEF CleanOK, Publishing
<1> QED BY <1>4, <1>5, <1>8, <1>9, <1>10 DEF Kept, MineOK

LEMMA UnlinkEntriesKept ==
  ASSUME BundlesInv, NEW c \in Calls, UnlinkEntries(c), call[c].alone
  PROVE  Kept(c)
<1>1. /\ TypeInv /\ RestOK /\ call[c] \in Call /\ call[c].pc = "unlink" /\ ShapeOK(call[c]) /\ LoneOK(c)
      /\ (Clean(call[c]) => CleanOK(c)) /\ (~ apart => Backed(rows, files))
  BY AtLone DEF UnlinkEntries, Steps
<1>2. PICK D : D = DeletedRows(c)
  OBVIOUS
<1>3. /\ files' = [p \in Paths |-> IF p \in Unlinked(c) THEN "none" ELSE files[p]]
      /\ rows' = rows /\ drift' = drift /\ apart' = apart /\ Step(c, "list")
  BY DEF UnlinkEntries, table, history
<1>4. /\ call'[c].pc = "list" /\ call'[c].op = call[c].op /\ call'[c].entries = call[c].entries
      /\ call'[c].refs = call[c].refs /\ call'[c].gone = call[c].gone
      /\ call'[c].live = call[c].live /\ call'[c].alone = call[c].alone
  BY <1>1, <1>3, StepFields
<1>5. call'[c] # Idle
  BY <1>4 DEF Idle
<1>6. LoneOK(c)'
  BY <1>1, <1>3, <1>4 DEF LoneOK
<1>7. call[c].refs = call[c].entries /\ \A p \in D : rows[p] = "none"
  BY <1>1, <1>2 DEF LoneOK
<1>8. Unlinked(c) \subseteq D
  <2> SUFFICES ASSUME NEW x \in Unlinked(c) PROVE x \in D
    OBVIOUS
  <2>1. PICK p \in call[c].entries : x \in Region(p, call[c].tree[p] = "dir")
    BY DEF Unlinked
  <2> QED BY <2>1, <1>2, <1>7 DEF Region, Subtree, DeletedRows
<1>9. ~ apart' => Backed(rows', files')
  BY <1>1, <1>3, <1>7, <1>8, KindsApart DEF Backed
<1>10. ASSUME Clean(call[c])' PROVE CleanOK(c)'
  <2>1. CleanOK(c)
    BY <1>10, <1>1, <1>3, <1>4 DEF Clean
  <2>2. /\ \A p \in call[c].entries : files[p] = call[c].tree[p]
        /\ Agree(rows, [p \in Paths |-> IF p \in D THEN "none" ELSE files[p]])
    BY <2>1, <1>1, <1>2 DEF CleanOK
  <2>3. D \subseteq Unlinked(c)
    <3> SUFFICES ASSUME NEW x \in D PROVE x \in Unlinked(c)
      OBVIOUS
    <3>1. PICK p \in call[c].entries : x \in Region(p, call[c].tree[p] = "dir")
      BY <1>2, <1>7 DEF DeletedRows, Region, Subtree
    <3>2. (call[c].tree[p] = "dir") = (files[p] = "dir")
      BY <2>2
    <3> QED BY <3>1, <3>2 DEF Unlinked
  <2>4. Unlinked(c) = D
    BY <1>8, <2>3
  <2>5. Agree(rows', files')
    BY <2>2, <2>4, <1>3
  <2> QED BY <2>5, <1>4 DEF CleanOK, Publishing
<1> QED BY <1>4, <1>5, <1>6, <1>9, <1>10 DEF Kept, MineOK

(* The rows a transaction sees after move_subtree are the moved ones.        *)
LEMMA MoveStaged ==
  ASSUME TypeInv, NEW c \in Calls, call[c] \in Call, NEW p \in Paths, NEW n \in Paths,
         NEW is_dir \in BOOLEAN, rows' = rows, call'[c].source = Resourced(c, p, n, is_dir)
  PROVE  Staged(c)' \in Tree /\ RowsMoved(Staged(c), Staged(c)', p, n, is_dir)
<1> DEFINE s == call[c].source
           u == Resourced(c, p, n, is_dir)
           r == Staged(c)
           v == Staged(c)'
<1>1. rows \in Tree /\ s \in [Paths -> Paths \cup {NoRow}]
  BY DEF TypeInv, RestOK, Call
<1>2. r \in Tree /\ \A q \in Paths : r[q] = IF s[q] = NoRow THEN "none" ELSE rows[s[q]]
  BY <1>1, StagedType
<1>3. \A q \in Paths : u[q] =
        IF /\ q \in Region(n, is_dir)
           /\ Rebased(n, p, q) \in Paths /\ r[Rebased(n, p, q)] # "none"
        THEN s[Rebased(n, p, q)]
        ELSE IF q \in Region(p, is_dir) /\ r[q] # "none" THEN NoRow ELSE s[q]
  BY DEF Resourced
<1>4. v = [q \in Paths |-> IF u[q] = NoRow THEN "none" ELSE rows[u[q]]]
  BY DEF Staged
<1>5. \A q \in Paths : u[q] \in Paths \cup {NoRow}
  BY <1>1, <1>3
<1> HIDE DEF r, u, s, v
<1>6. v \in Tree /\ \A q \in Paths : v[q] = IF u[q] = NoRow THEN "none" ELSE rows[u[q]]
  BY <1>1, <1>4, <1>5 DEF Tree, Kinds
<1>7. ASSUME NEW q \in Paths
      PROVE  v[q] = IF q \in Region(n, is_dir) /\ Rebased(n, p, q) \in Paths /\ r[Rebased(n, p, q)] # "none"
            THEN r[Rebased(n, p, q)]
            ELSE IF q \in Region(p, is_dir) /\ r[q] # "none" THEN "none" ELSE r[q]
  <2>1. CASE q \in Region(n, is_dir) /\ Rebased(n, p, q) \in Paths /\ r[Rebased(n, p, q)] # "none"
    <3>1. u[q] = s[Rebased(n, p, q)]
      BY <2>1, <1>3
    <3> QED BY <2>1, <3>1, <1>2, <1>6
  <2>2. CASE ~ (q \in Region(n, is_dir) /\ Rebased(n, p, q) \in Paths /\ r[Rebased(n, p, q)] # "none")
    <3>1. u[q] = IF q \in Region(p, is_dir) /\ r[q] # "none" THEN NoRow ELSE s[q]
      BY <2>2, <1>3
    <3> QED BY <2>2, <3>1, <1>2, <1>6
  <2> QED BY <2>1, <2>2
<1> QED BY <1>6, <1>7 DEF RowsMoved, r, v

LEMMA MoveSubtreeKept ==
  ASSUME BundlesInv, NEW c \in Calls, MoveSubtree(c), call[c].alone
  PROVE  Kept(c)
<1>1. /\ TypeInv /\ RestOK /\ call[c] \in Call /\ call[c].pc = "move" /\ ShapeOK(call[c]) /\ LoneOK(c)
      /\ (Clean(call[c]) => CleanOK(c)) /\ (~ apart => Backed(rows, files)) /\ IsTree(files)
  BY AtLone DEF MoveSubtree, Steps, BundlesInv
<1>2. call[c].moves # << >> /\ rows \in Tree /\ files \in Tree
  BY <1>1 DEF MoveSubtree, RestOK
<1> DEFINE p == Head(call[c].moves)[1]
           n == Head(call[c].moves)[2]
           is_dir == Head(call[c].moves)[3]
           split == ~ is_dir /\ Staged(c)[p] = "dir"
           r == call[c].renamed \/ files' # files
           f == call[c].found \/ split
<1>3. p \in Paths /\ n \in Paths /\ is_dir \in BOOLEAN
  BY <1>1, <1>2, MoveHead
<1>4. /\ Staged(c)[p] # "none" /\ check_destination_free(Staged(c), n, is_dir)
      /\ (files[p] # "none" => CanRename(files, p, n)) /\ files' = RenameOnDisk(files, p, n)
      /\ drift' = (drift \/ split) /\ apart' = (apart \/ split \/ files' # files)
      /\ rows' = rows /\ once' = once /\ status' = status /\ manifest' = manifest
  BY DEF MoveSubtree, Movable, table
<1>5. call'[c] = [call[c] EXCEPT !.moves = Tail(@), !.source = Resourced(c, p, n, is_dir),
                                 !.renamed = r, !.found = f]
  BY <1>1 DEF MoveSubtree, Now, TypeInv
<1> HIDE DEF p, n, is_dir, r, f
<1>6. /\ call'[c].pc = "move" /\ call'[c].op = call[c].op /\ call'[c].entries = call[c].entries
      /\ call'[c].refs = call[c].refs /\ call'[c].gone = call[c].gone
      /\ call'[c].live = call[c].live /\ call'[c].alone = call[c].alone
      /\ call'[c].source = Resourced(c, p, n, is_dir) /\ call'[c].renamed = r /\ call'[c].found = f
  BY <1>1, <1>5 DEF Call
<1>7. call'[c] # Idle
  BY <1>6 DEF Idle
<1>8. Staged(c) \in Tree /\ Staged(c)' \in Tree /\ RowsMoved(Staged(c), Staged(c)', p, n, is_dir)
  BY <1>1, <1>2, <1>3, <1>4, <1>6, StagedType, MoveStaged
<1>9. ASSUME ~ split, Backed(Staged(c), files) PROVE Backed(Staged(c)', files')
  BY <1>9, <1>1, <1>2, <1>3, <1>4, <1>8, MoveBacked
<1>10. ASSUME ~ split, Agree(Staged(c), files) PROVE Agree(Staged(c)', files')
  BY <1>10, <1>1, <1>2, <1>3, <1>4, <1>8, MoveAgrees
<1>11. LoneOK(c)'
  <2>1. (call'[c].gone => drift') /\ call'[c].live /\ call'[c].refs = call'[c].entries
    BY <1>1, <1>4, <1>6 DEF LoneOK
  <2>2. ASSUME ~ call'[c].found PROVE Backed(Staged(c)', files')
    <3>1. ~ call[c].found /\ ~ split
      BY <2>2, <1>6 DEF f
    <3>2. Backed(Staged(c), files)
      BY <3>1, <1>1 DEF LoneOK
    <3> QED BY <3>1, <3>2, <1>9
  <2> QED BY <2>1, <2>2, <1>6 DEF LoneOK
<1>12. ASSUME Clean(call[c])' PROVE CleanOK(c)'
  <2>1. call[c].op # "archive"
    BY <1>1 DEF ShapeOK
  <2>2. ~ drift /\ ~ split
    BY <2>1, <1>12, <1>4, <1>6 DEF Clean
  <2>3. CleanOK(c)
    BY <2>2, <1>1 DEF Clean
  <2>4. Agree(Staged(c), files) /\ (~ call[c].renamed => Fresh \/ Settled)
    BY <2>3, <1>1 DEF CleanOK
  <2>5. Agree(Staged(c)', files')
    BY <2>2, <2>4, <1>10
  <2>6. ASSUME ~ call'[c].renamed PROVE (Fresh \/ Settled)'
    <3>1. ~ call[c].renamed /\ files' = files
      BY <2>6, <1>6 DEF r
    <3> QED BY <3>1, <2>4, <1>4, StillSettled
  <2> QED BY <2>5, <2>6, <1>6 DEF CleanOK, Publishing
<1>13. ~ apart' => Backed(rows', files')
  BY <1>1, <1>4
<1> QED BY <1>6, <1>7, <1>11, <1>12, <1>13 DEF Kept, MineOK

(* The folders a refused rename made stand in no file's way.                 *)
LEMMA MadeDirsBacked ==
  ASSUME NEW r, NEW t \in Tree, NEW n \in Paths, CanMakeDirs(t, n), Backed(r, t)
  PROVE  Backed(r, MadeDirs(t, n))
  BY DEF Backed, MadeDirs, CanMakeDirs

LEMMA RefuseMoveKept ==
  ASSUME BundlesInv, NEW c \in Calls, RefuseMove(c), call[c].alone
  PROVE  Kept(c)
<1>1. /\ TypeInv /\ RestOK /\ call[c] \in Call /\ call[c].pc = "move" /\ LoneOK(c)
      /\ (Clean(call[c]) => CleanOK(c)) /\ (~ apart => Backed(rows, files))
      /\ (~ drift => Clean(call[c]))
  BY AtLone DEF RefuseMove, Steps
<1>2. call[c].moves # << >> /\ files \in Tree
  BY <1>1 DEF RefuseMove, RestOK
<1> DEFINE n == Head(call[c].moves)[2]
<1>3. n \in Paths
  BY <1>1, <1>2, MoveHead
<1>4. /\ files' = files \/ (CanMakeDirs(files, n) /\ files' = MadeDirs(files, n))
      /\ drift' = (drift \/ call[c].renamed \/ files' # files)
      /\ End(c) /\ apart' = apart
      /\ rows' = rows /\ once' = once /\ status' = status /\ manifest' = manifest
  BY DEF RefuseMove, table
<1> HIDE DEF n
<1>5. ~ apart' => Backed(rows', files')
  BY <1>1, <1>2, <1>3, <1>4, MadeDirsBacked
<1>6. ASSUME ~ drift' PROVE (Fresh \/ Settled)'
  <2>1. ~ drift /\ ~ call[c].renamed /\ files' = files
    BY <1>6, <1>4
  <2>2. Fresh \/ Settled
    BY <2>1, <1>1 DEF CleanOK
  <2> QED BY <2>1, <2>2, <1>4, StillSettled
<1> QED BY <1>1, <1>4, <1>5, <1>6, EndKept

LEMMA CommitMovesKept ==
  ASSUME BundlesInv, NEW c \in Calls, CommitMoves(c), call[c].alone
  PROVE  Kept(c)
<1>1. /\ TypeInv /\ call[c] \in Call /\ call[c].pc = "move" /\ LoneOK(c)
      /\ (Clean(call[c]) => CleanOK(c))
  BY AtLone DEF CommitMoves, Steps
<1>2. /\ rows' = Staged(c) /\ files' = files /\ drift' = drift
      /\ apart' = (call[c].found \/ ~ call[c].alone)
      /\ call'[c] = [call[c] EXCEPT !.pc = "list", !.source = Same, !.renamed = FALSE]
  BY DEF CommitMoves, NowAll, store
<1>3. /\ call'[c].pc = "list" /\ call'[c].op = call[c].op /\ call'[c].entries = call[c].entries
      /\ call'[c].refs = call[c].refs /\ call'[c].gone = call[c].gone
      /\ call'[c].live = call[c].live /\ call'[c].alone = call[c].alone
  BY <1>1, <1>2 DEF Call
<1>4. call'[c] # Idle
  BY <1>3 DEF Idle
<1>5. LoneOK(c)'
  BY <1>1, <1>2, <1>3 DEF LoneOK
<1>6. ~ apart' => Backed(rows', files')
  BY <1>1, <1>2 DEF LoneOK
<1>7. Clean(call[c])' => Agree(rows', files')
  BY <1>1, <1>2, <1>3 DEF Clean, CleanOK
<1>8. Clean(call[c])' => CleanOK(c)'
  BY <1>3, <1>7 DEF CleanOK, Publishing
<1> QED BY <1>3, <1>4, <1>5, <1>6, <1>8 DEF Kept, MineOK

-----------------------------------------------------------------------------
LEMMA ListArtifactsKept ==
  ASSUME BundlesInv, NEW c \in Calls, ListArtifacts(c), call[c].alone
  PROVE  Kept(c)
<1>1. /\ TypeInv /\ call[c] \in Call /\ call[c].pc = "list" /\ LoneOK(c)
      /\ (Clean(call[c]) => CleanOK(c)) /\ (~ apart => Backed(rows, files))
  BY AtLone DEF ListArtifacts, Steps
<1>2. call[c].live
  BY <1>1 DEF LoneOK
<1> DEFINE b == [tree |-> rows, once |-> once]
<1>3. /\ rows' = rows /\ once' = once /\ files' = files /\ drift' = drift /\ apart' = apart
      /\ call'[c] = [call[c] EXCEPT !.pc = "probe", !.built = b]
  BY <1>1, <1>2 DEF ListArtifacts, Now, TypeInv, table, store, history
<1> HIDE DEF b
<1>4. /\ call'[c].pc = "probe" /\ call'[c].op = call[c].op /\ call'[c].entries = call[c].entries
      /\ call'[c].refs = call[c].refs /\ call'[c].gone = call[c].gone /\ call'[c].built = b
      /\ call'[c].live = call[c].live /\ call'[c].alone = call[c].alone
  BY <1>1, <1>3 DEF Call
<1>5. call'[c] # Idle
  BY <1>4 DEF Idle
<1>6. LoneOK(c)'
  BY <1>1, <1>3, <1>4 DEF LoneOK
<1>7. ASSUME Clean(call[c])' PROVE CleanOK(c)'
  <2>1. Agree(rows, files)
    BY <1>7, <1>1, <1>3, <1>4 DEF Clean, CleanOK, Publishing
  <2> QED BY <2>1, <1>3, <1>4 DEF CleanOK, Publishing, b
<1> QED BY <1>1, <1>3, <1>4, <1>5, <1>6, <1>7 DEF Kept, MineOK

(* build_manifest leaves nothing out when every row has its file.            *)
LEMMA FilteredAll ==
  ASSUME RestOK, Agree(rows, files)
  PROVE  Filtered([tree |-> rows, once |-> once]) = [tree |-> rows, once |-> once]
<1> DEFINE b == [tree |-> rows, once |-> once]
<1>1. Present(b) = {p \in Paths : rows[p] # "none"}
  BY DEF Present, Agree
<1>2. rows \in [Paths -> Kinds] /\ once \subseteq {p \in Paths : rows[p] # "none"}
  BY DEF RestOK, Tree
<1>3. [p \in Paths |-> IF p \in Present(b) THEN b.tree[p] ELSE "none"] = rows
  BY <1>1, <1>2
<1>4. b.once \cap Present(b) = once
  BY <1>1, <1>2
<1> QED BY <1>3, <1>4 DEF Filtered

LEMMA BuildManifestKept ==
  ASSUME BundlesInv, NEW c \in Calls, BuildManifest(c), call[c].alone
  PROVE  Kept(c)
<1>1. /\ TypeInv /\ RestOK /\ call[c] \in Call /\ call[c].pc = "probe" /\ LoneOK(c)
      /\ (Clean(call[c]) => CleanOK(c)) /\ (~ apart => Backed(rows, files))
  BY AtLone DEF BuildManifest, Steps
<1> DEFINE b == Filtered(call[c].built)
<1>2. /\ rows' = rows /\ once' = once /\ files' = files /\ drift' = drift /\ apart' = apart
      /\ call'[c] = [call[c] EXCEPT !.pc = "write", !.built = b]
  BY <1>1 DEF BuildManifest, Now, TypeInv, table, store, history, Filtered, Present
<1> HIDE DEF b
<1>3. /\ call'[c].pc = "write" /\ call'[c].op = call[c].op /\ call'[c].entries = call[c].entries
      /\ call'[c].refs = call[c].refs /\ call'[c].gone = call[c].gone /\ call'[c].built = b
      /\ call'[c].live = call[c].live /\ call'[c].alone = call[c].alone
  BY <1>1, <1>2 DEF Call
<1>4. call'[c] # Idle
  BY <1>3 DEF Idle
<1>5. LoneOK(c)'
  BY <1>1, <1>2, <1>3 DEF LoneOK
<1>6. ASSUME Clean(call[c])' PROVE CleanOK(c)'
  <2>1. Agree(rows, files) /\ call[c].built = [tree |-> rows, once |-> once]
    BY <1>6, <1>1, <1>2, <1>3 DEF Clean, CleanOK, Publishing
  <2>2. b = [tree |-> rows, once |-> once]
    BY <2>1, <1>1, FilteredAll DEF b
  <2> QED BY <2>1, <2>2, <1>2, <1>3 DEF CleanOK, Publishing
<1> QED BY <1>1, <1>2, <1>3, <1>4, <1>5, <1>6 DEF Kept, MineOK

LEMMA BeginWriteKept ==
  ASSUME BundlesInv, NEW c \in Calls, BeginWrite(c), call[c].alone
  PROVE  Kept(c)
<1>1. /\ TypeInv /\ call[c] \in Call /\ call[c].pc = "write" /\ LoneOK(c)
      /\ (Clean(call[c]) => CleanOK(c)) /\ (~ apart => Backed(rows, files))
  BY AtLone DEF BeginWrite, Steps
<1>2. /\ rows' = rows /\ once' = once /\ files' = files /\ drift' = drift /\ apart' = apart
      /\ call'[c] = [call[c] EXCEPT !.pc = "fill", !.out = "tmp"] /\ tmp' = Partial
  BY <1>1 DEF BeginWrite, Now, TypeInv, table, history
<1>3. /\ call'[c].pc = "fill" /\ call'[c].op = call[c].op /\ call'[c].entries = call[c].entries
      /\ call'[c].refs = call[c].refs /\ call'[c].gone = call[c].gone /\ call'[c].built = call[c].built
      /\ call'[c].live = call[c].live /\ call'[c].alone = call[c].alone /\ call'[c].out = "tmp"
  BY <1>1, <1>2 DEF Call
<1>4. call'[c] # Idle
  BY <1>3 DEF Idle
<1>5. LoneOK(c)'
  BY <1>1, <1>2, <1>3 DEF LoneOK
<1>6. Clean(call[c])' => CleanOK(c)'
  BY <1>1, <1>2, <1>3 DEF Clean, CleanOK, Publishing
<1> QED BY <1>1, <1>2, <1>3, <1>4, <1>5, <1>6 DEF Kept, MineOK

LEMMA EndWriteKept == ASSUME BundlesInv, NEW c \in Calls, EndWrite(c), call[c].alone PROVE Kept(c)
<1>1. /\ TypeInv /\ call[c] \in Call /\ call[c].pc = "fill" /\ LoneOK(c)
      /\ (Clean(call[c]) => CleanOK(c)) /\ (~ apart => Backed(rows, files))
  BY AtLone DEF EndWrite, Steps
<1>2. /\ rows' = rows /\ once' = once /\ files' = files /\ drift' = drift /\ apart' = apart
      /\ Step(c, "publish") /\ tmp' = call[c].built
  BY <1>1 DEF EndWrite, Overwritten, LoneOK, table, history
<1>3. /\ call'[c].pc = "publish" /\ call'[c].op = call[c].op /\ call'[c].entries = call[c].entries
      /\ call'[c].refs = call[c].refs /\ call'[c].gone = call[c].gone /\ call'[c].built = call[c].built
      /\ call'[c].live = call[c].live /\ call'[c].alone = call[c].alone
  BY <1>1, <1>2, StepFields
<1>4. call'[c] # Idle
  BY <1>3 DEF Idle
<1>5. LoneOK(c)'
  BY <1>1, <1>2, <1>3 DEF LoneOK
<1>6. Clean(call[c])' => CleanOK(c)'
  BY <1>1, <1>2, <1>3 DEF Clean, CleanOK, Publishing
<1> QED BY <1>1, <1>2, <1>3, <1>4, <1>5, <1>6 DEF Kept, MineOK

LEMMA AbsentIsNoManifest == \A m \in Manifest : m # Absent
<1>1. ASSUME NEW m \in Manifest, m = Absent PROVE FALSE
  <2>1. DOMAIN m = {"tree", "once"} /\ DOMAIN Absent = {"file"}
    BY DEF Manifest, Absent
  <2> QED BY <1>1, <2>1
<1> QED BY <1>1

(* An error of a lone call: it ends, or goes on to set the status.           *)
LEMMA OnErrorKept ==
  ASSUME BundlesInv, NEW c \in Calls, call[c] # Idle, call[c].alone, OnError(c), drift',
         apart' = apart, rows' = rows, files' = files
  PROVE  Kept(c)
<1>1. /\ TypeInv /\ call[c] \in Call /\ LoneOK(c) /\ (~ apart => Backed(rows, files))
  BY LoneFacts DEF BundlesInv
<1>2. CASE End(c)
  BY <1>1, <1>2, EndKept
<1>3. CASE Step(c, "failed")
  <2>1. /\ call'[c].pc = "failed" /\ call'[c].op = call[c].op /\ call'[c].entries = call[c].entries
        /\ call'[c].refs = call[c].refs /\ call'[c].live = call[c].live /\ call'[c].alone = call[c].alone
    BY <1>1, <1>3, StepFields
  <2>2. LoneOK(c)'
    BY <1>1, <2>1 DEF LoneOK
  <2>3. CleanOK(c)'
    BY <2>1 DEF CleanOK, Publishing
  <2> QED BY <1>1, <2>1, <2>2, <2>3 DEF Kept, MineOK, Idle
<1> QED BY <1>2, <1>3 DEF OnError

LEMMA PublishManifestKept ==
  ASSUME BundlesInv, NEW c \in Calls, PublishManifest(c), call[c].alone
  PROVE  Kept(c)
<1>1. /\ TypeInv /\ call[c] \in Call /\ call[c] # Idle /\ call[c].pc = "publish" /\ ShapeOK(call[c]) /\ LoneOK(c)
      /\ (Clean(call[c]) => CleanOK(c)) /\ (~ apart => Backed(rows, files))
      /\ (~ drift => Clean(call[c]))
  BY AtLone DEF PublishManifest, Steps
<1>2. /\ rows' = rows /\ once' = once /\ files' = files /\ drift' = drift /\ apart' = apart
  BY DEF PublishManifest, table, history
<1>3. Clean(call[c]) => Agree(rows, files) /\ tmp = [tree |-> rows, once |-> once] /\ tmp # Absent
  <2>1. call[c].built # Absent
    BY <1>1, AbsentIsNoManifest DEF ShapeOK
  <2> QED BY <1>1, <2>1 DEF CleanOK, Publishing
<1>4. CASE tmp = Absent
  <2>1. OnError(c) /\ drift
    BY <1>1, <1>3, <1>4 DEF PublishManifest
  <2> QED BY <1>1, <1>2, <2>1, OnErrorKept
<1>5. CASE tmp # Absent
  <2>1. PICK q : q = call'[c] /\ ((q = Idle /\ call[c].gone) \/ q = [call[c] EXCEPT !.pc = "ready"])
    BY <1>1, <1>5, OutMoves
  <2>2. call'[c] = q /\ manifest' = tmp
    BY <1>5, <2>1 DEF PublishManifest
  <2>3. CASE q = Idle /\ call[c].gone
    BY <1>1, <1>2, <2>2, <2>3 DEF LoneOK, Kept
  <2>4. CASE q = [call[c] EXCEPT !.pc = "ready"]
    <3>1. /\ call'[c].pc = "ready" /\ call'[c].op = call[c].op /\ call'[c].entries = call[c].entries
          /\ call'[c].refs = call[c].refs /\ call'[c].gone = call[c].gone
          /\ call'[c].live = call[c].live /\ call'[c].alone = call[c].alone
      BY <1>1, <2>2, <2>4 DEF Call
    <3>2. call'[c] # Idle
      BY <3>1 DEF Idle
    <3>3. LoneOK(c)'
      BY <1>1, <1>2, <3>1 DEF LoneOK
    <3>4. ASSUME Clean(call[c])' PROVE CleanOK(c)'
      <4>1. Clean(call[c])
        BY <3>4, <3>1, <1>2 DEF Clean
      <4> QED BY <4>1, <3>1, <2>2, <1>2, <1>3 DEF CleanOK, Publishing
    <3> QED BY <1>1, <1>2, <3>1, <3>2, <3>3, <3>4 DEF Kept, MineOK
  <2> QED BY <2>1, <2>3, <2>4
<1> QED BY <1>4, <1>5

LEMMA MarkReadyKept ==
  ASSUME BundlesInv, NEW c \in Calls, MarkReady(c), call[c].alone
  PROVE  Kept(c)
<1>1. /\ TypeInv /\ call[c] \in Call /\ call[c].pc = "ready" /\ LoneOK(c)
      /\ (Clean(call[c]) => CleanOK(c)) /\ (~ apart => Backed(rows, files))
  BY AtLone DEF MarkReady, Steps
<1>2. /\ rows' = rows /\ once' = once /\ files' = files /\ manifest' = manifest /\ apart' = apart
      /\ status' = "ready" /\ End(c)
      /\ drift' = (drift /\ ~ (call[c].op = "archive" /\ call[c].alone))
  BY <1>1 DEF MarkReady, store, LoneOK
<1>3. ASSUME ~ drift' PROVE Settled'
  <2>1. Clean(call[c])
    BY <1>2, <1>3 DEF Clean
  <2>2. Agree(rows, files) /\ manifest = [tree |-> rows, once |-> once]
    BY <2>1, <1>1 DEF CleanOK, Publishing
  <2> QED BY <2>2, <1>2 DEF Settled
<1> QED BY <1>1, <1>2, <1>3, EndKept

LEMMA DeleteBundleRowKept ==
  ASSUME BundlesInv, NEW c \in Calls, DeleteBundleRow(c), call[c].alone
  PROVE  Kept(c)
<1>1. TypeInv /\ call[c] \in Call /\ call[c].pc = "dropRow" /\ LoneOK(c)
  BY AtLone DEF DeleteBundleRow, Steps
<1>2. call[c].live
  BY <1>1 DEF LoneOK
<1>3. /\ rows' = Empty /\ once' = {} /\ files' = files /\ drift' = drift /\ ~ apart'
      /\ status' = "none" /\ call'[c] = [call[c] EXCEPT !.pc = "rmdir"]
  BY <1>2 DEF DeleteBundleRow, NowAll, store
<1>4. /\ call'[c].pc = "rmdir" /\ call'[c].op = call[c].op /\ call'[c].entries = call[c].entries
      /\ call'[c].refs = call[c].refs /\ call'[c].gone = call[c].gone
      /\ call'[c].live = call[c].live /\ call'[c].alone = call[c].alone
  BY <1>1, <1>3 DEF Call
<1>5. call'[c] # Idle
  BY <1>4 DEF Idle
<1>6. LoneOK(c)'
  BY <1>1, <1>3, <1>4 DEF LoneOK
<1>7. CleanOK(c)'
  BY <1>3, <1>4 DEF CleanOK, Publishing
<1>8. Backed(rows', files')
  BY <1>3, KindsApart DEF Backed, Empty
<1> QED BY <1>4, <1>5, <1>6, <1>7, <1>8 DEF Kept, MineOK

LEMMA RemoveBundleDirKept ==
  ASSUME BundlesInv, NEW c \in Calls, RemoveBundleDir(c), call[c].alone
  PROVE  Kept(c)
<1>1. /\ TypeInv /\ call[c].pc = "rmdir" /\ LoneOK(c)
      /\ (Clean(call[c]) => CleanOK(c)) /\ (~ drift => Clean(call[c]))
  BY AtLone DEF RemoveBundleDir, Steps
<1>2. /\ rows' = rows /\ once' = once /\ status' = status /\ drift' = drift
      /\ files' = Empty /\ manifest' = Absent /\ call'[c] = Idle
  BY <1>1, OutMoves DEF RemoveBundleDir, table, history
<1>3. rows = Empty /\ once = {}
  BY <1>1 DEF LoneOK
<1>4. Backed(rows', files')
  BY <1>2, <1>3, KindsApart DEF Backed, Empty
<1>5. ~ drift' => Fresh'
  BY <1>1, <1>2, <1>3 DEF CleanOK, Fresh
<1> QED BY <1>2, <1>4, <1>5 DEF Kept

-----------------------------------------------------------------------------
LEMMA DisconnectKept ==
  ASSUME BundlesInv, NEW c \in Calls, Disconnect(c), call[c].alone
  PROVE  Kept(c)
<1>1. /\ TypeInv /\ call[c] \in Call /\ call[c] # Idle /\ LoneOK(c) /\ ShapeOK(call[c])
      /\ (Clean(call[c]) => CleanOK(c)) /\ (~ apart => Backed(rows, files))
      /\ (~ apart => call[c].pc \notin {"extract", "upsert"})
  BY LoneFacts DEF Disconnect, BundlesInv
<1>2. /\ rows' = rows /\ once' = once /\ status' = status /\ files' = files /\ manifest' = manifest
      /\ tmp' = tmp /\ apart' = apart /\ drift'
  BY DEF Disconnect, Broken, table, store
<1>3. CASE End(c)
  BY <1>1, <1>2, <1>3, EndKept
<1>4. CASE Now(c, [call[c] EXCEPT !.gone = TRUE])
  <2>1. call'[c] = [call[c] EXCEPT !.gone = TRUE]
    BY <1>1, <1>4 DEF Now, TypeInv
  <2>2. /\ call'[c].pc = call[c].pc /\ call'[c].op = call[c].op /\ call'[c].entries = call[c].entries
        /\ call'[c].refs = call[c].refs /\ call'[c].tree = call[c].tree
        /\ call'[c].built = call[c].built /\ call'[c].source = call[c].source
        /\ call'[c].found = call[c].found /\ call'[c].renamed = call[c].renamed
        /\ call'[c].live = call[c].live /\ call'[c].alone = call[c].alone
        /\ call'[c].out = call[c].out
    BY <1>1, <2>1 DEF Call
  <2>3. Staged(c)' = Staged(c) /\ DeletedRows(c)' = DeletedRows(c)
    BY <1>2, <2>2 DEF Staged, DeletedRows
  <2>4. LoneOK(c)'
    BY <1>1, <1>2, <2>2, <2>3 DEF LoneOK
  <2>5. ASSUME Clean(call[c])' PROVE CleanOK(c)'
    <3>1. call[c].op = "archive" /\ Clean(call[c])
      BY <2>5, <1>2, <2>2 DEF Clean
    <3>2. call[c].pc \notin {"place", "hash", "upsertOne", "update", "rows", "unlink", "move", "rmdir"}
      BY <3>1, <1>1 DEF ShapeOK
    <3> QED BY <3>1, <3>2, <1>1, <1>2, <2>2 DEF CleanOK, Publishing
  <2> QED BY <1>1, <1>2, <2>2, <2>4, <2>5 DEF Kept, MineOK
<1> QED BY <1>3, <1>4 DEF Disconnect

LEMMA FailStepKept == ASSUME BundlesInv, NEW c \in Calls, FailStep(c), call[c].alone PROVE Kept(c)
<1>1. /\ TypeInv /\ call[c] \in Call /\ call[c] # Idle /\ LoneOK(c) /\ ShapeOK(call[c])
      /\ (~ apart => Backed(rows, files))
  BY LoneFacts DEF FailStep, BundlesInv
<1>2. rows' = rows /\ files' = files /\ apart' = apart /\ drift'
  BY DEF FailStep, Broken, table, store
<1>3. End(c) \/ (call[c].pc = "unlink" /\ Step(c, "list")) \/ OnError(c)
  BY DEF FailStep
<1>4. CASE End(c)
  BY <1>1, <1>2, <1>4, EndKept
<1>5. CASE OnError(c)
  BY <1>1, <1>2, <1>5, OnErrorKept
<1>6. CASE call[c].pc = "unlink" /\ Step(c, "list")
  <2>1. /\ call'[c].pc = "list" /\ call'[c].op = call[c].op /\ call'[c].entries = call[c].entries
        /\ call'[c].refs = call[c].refs /\ call'[c].live = call[c].live /\ call'[c].alone = call[c].alone
    BY <1>1, <1>6, StepFields
  <2>2. LoneOK(c)'
    BY <1>1, <1>2, <2>1 DEF LoneOK
  <2>3. ~ Clean(call[c])'
    BY <1>1, <1>2, <1>6, <2>1 DEF Clean, ShapeOK
  <2> QED BY <1>1, <1>2, <2>1, <2>2, <2>3 DEF Kept, MineOK, Idle
<1> QED BY <1>3, <1>4, <1>5, <1>6

LEMMA FailUpsertKept ==
  ASSUME BundlesInv, NEW c \in Calls, FailUpsert(c), call[c].alone
  PROVE  Kept(c)
<1>1. TypeInv /\ rows \in Tree /\ (~ apart => Backed(rows, files))
  BY DEF BundlesInv, TypeInv, RestOK
<1>2. PICK q \in Paths : rows' = Placed(rows, q, "dir")
  BY AncestorIs DEF FailUpsert
<1>3. \A x \in Paths : rows'[x] = "dir" \/ rows'[x] = rows[x]
  BY <1>1, <1>2, PlacedIs DEF Kinds
<1>4. files' = files /\ apart' = apart /\ drift' /\ End(c)
  BY DEF FailUpsert, Broken, store
<1>5. ~ apart' => Backed(rows', files')
  BY <1>1, <1>3, <1>4, KindsApart DEF Backed
<1> QED BY <1>1, <1>4, <1>5, EndKept

(* All steps of a call together.                                             *)
LEMMA WorkKept ==
  ASSUME BundlesInv, NEW c \in Calls, Work(c) \/ Break(c), call[c].alone
  PROVE  Kept(c)
  BY SetProcessingKept, WipeFilesKept, ExtractAndScanKept, UpsertScanKept, SetFailedKept,
     PlaceOnDiskKept, HashFileKept, UpsertArtifactKept, UpdateRowKept, DeleteRowsKept,
     UnlinkEntriesKept, MoveSubtreeKept, RefuseMoveKept, CommitMovesKept, ListArtifactsKept,
     BuildManifestKept, BeginWriteKept, EndWriteKept, PublishManifestKept, MarkReadyKept,
     DeleteBundleRowKept, RemoveBundleDirKept, DisconnectKept, FailStepKept, FailUpsertKept
  DEF Work, Break

(* A request finds the build as the calls before it left it, or overlaps     *)
(* one of them.                                                              *)
LEMMA BeginKept ==
  ASSUME BundlesInv, NEW c \in Calls, NEW op, NEW pc, NEW entries, NEW moves, NEW tree, NEW bad,
         Begin(c, op, pc, entries, moves, tree, bad), TypeInv',
         pc \in {"processing", "place", "rows", "update", "hash", "move", "dropRow"},
         pc = "rows" => tree = rows /\ \A p \in entries : rows[p] # "none",
         pc = "update" => op = "toggle",
         pc = "hash" => op = "rehash" /\ \A p \in entries : rows[p] \in Contents
  PROVE  BundlesInv'
<1>1. /\ TypeInv /\ RestOK /\ IsTree(files) /\ (~ apart => Backed(rows, files))
  BY DEF BundlesInv, TypeInv
<1>2. /\ rows' = rows /\ once' = once /\ status' = status /\ files' = files /\ manifest' = manifest
      /\ drift' = (drift \/ Others(c) # {}) /\ apart' = (apart \/ Others(c) # {}) /\ call[c] = Idle
  BY DEF Begin, table, store
<1> DEFINE q == [op |-> op, pc |-> pc, entries |-> entries, refs |-> entries, tree |-> tree,
                  bad |-> bad, built |-> Absent, gone |-> FALSE, live |-> TRUE,
                  alone |-> Others(c) = {}, moves |-> moves, source |-> Same,
                  renamed |-> FALSE, found |-> apart, out |-> "tmp"]
<1>3. call' = [d \in Calls |-> IF d = c THEN q ELSE IF call[d] = Idle THEN Idle
                               ELSE [call[d] EXCEPT !.alone = FALSE]]
  BY DEF Begin, NowAll
<1>4. /\ call'[c].pc = pc /\ call'[c].op = op /\ call'[c].entries = entries /\ call'[c].refs = entries
      /\ call'[c].tree = tree /\ call'[c].gone = FALSE /\ call'[c].live = TRUE
      /\ call'[c].alone = (Others(c) = {}) /\ call'[c].source = Same
      /\ call'[c].renamed = FALSE /\ call'[c].found = apart
  BY <1>3
<1> HIDE DEF q
<1>5. CASE Others(c) # {}
  <2>1. drift' /\ apart'
    BY <1>2, <1>5
  <2>2. ASSUME NEW d \in Calls, call'[d] # Idle PROVE ~ call'[d].alone
    <3>1. CASE d = c
      BY <3>1, <1>4, <1>5
    <3>2. CASE d # c
      <4>1. call[d] # Idle
        BY <3>2, <2>2, <1>3
      <4>2. call[d] \in Call /\ call'[d] = [call[d] EXCEPT !.alone = FALSE]
        BY <4>1, <3>2, <1>1, <1>3 DEF TypeInv
      <4> QED BY <4>2 DEF Call
    <3> QED BY <3>1, <3>2
  <2>3. \A d \in Calls : call'[d] # Idle => MineOK(d)'
    BY <2>1, <2>2 DEF MineOK, Clean
  <2> QED BY <2>1, <2>2, <2>3, <1>1, <1>2 DEF BundlesInv
<1>6. CASE Others(c) = {}
  <2>1. \A d \in Calls : call[d] = Idle
    BY <1>2, <1>6 DEF Others
  <2>2. drift' = drift /\ apart' = apart
    BY <1>1, <1>2, <1>6 DEF RestOK
  <2>3. ~ drift => Fresh \/ Settled
    BY <2>1 DEF BundlesInv, Quiet
  <2>4. ~ drift' => (Fresh \/ Settled)' /\ Agree(rows', files')
    BY <2>2, <2>3, <1>2, StillSettled, SettledAgrees
  <2>5. Staged(c)' = rows
    <3>1. rows \in [Paths -> Kinds] /\ \A p \in Paths : p # NoRow
      BY <1>1, NoRowIsNoPath DEF RestOK, Tree
    <3>2. Staged(c)' = [p \in Paths |-> IF Same[p] = NoRow THEN "none" ELSE rows[Same[p]]]
      BY <1>2, <1>4 DEF Staged
    <3> QED BY <3>1, <3>2 DEF Same
  <2>6. \A d \in Calls \ {c} : call'[d] = Idle
    BY <2>1, <1>3
  <2>7. LoneOK(c)'
    BY <1>1, <1>2, <1>4, <2>5 DEF LoneOK
  <2>8. ASSUME Clean(call[c])' PROVE CleanOK(c)'
    <3>1. CASE ~ drift'
      BY <3>1, <2>4, <2>5, <1>2, <1>4 DEF CleanOK, Publishing
    <3>2. CASE op = "archive"
      <4>1. ShapeOK(call'[c])
        <5>1. call'[c] # Idle
          BY <1>4 DEF Idle
        <5> QED BY <5>1 DEF TypeInv
      <4>2. pc = "processing"
        BY <3>2, <4>1, <1>4 DEF ShapeOK
      <4> QED BY <4>2, <3>2, <1>4 DEF CleanOK, Publishing
    <3> QED BY <3>1, <3>2, <2>8, <1>4 DEF Clean
  <2>9. MineOK(c)' /\ call'[c].alone /\ call'[c] # Idle
    <3>1. call'[c].alone /\ call'[c].pc = pc
      BY <1>4, <1>6
    <3>2. call'[c] # Idle
      BY <3>1 DEF Idle
    <3>3. MineOK(c)'
      BY <2>7, <2>8, <3>1 DEF MineOK
    <3> QED BY <3>1, <3>2, <3>3
  <2>10. ~ Quiet'
    BY <2>9 DEF Quiet
  <2>11. \A d \in Calls : call'[d] # Idle => d = c
    BY <2>6
  <2>12. \A d \in Calls : call'[d] # Idle => MineOK(d)'
    BY <2>9, <2>11
  <2>13. /\ \A d \in Calls : call'[d] # Idle => call'[d].alone
         /\ \A d \in Calls : call'[d] # Idle => \A e \in Calls \ {d} : call'[e] = Idle
    BY <2>6, <2>9, <2>11
  <2>14. IsTree(files') /\ (~ apart' => Backed(rows', files'))
    BY <2>2, <1>1, <1>2
  <2> QED BY <2>10, <2>12, <2>13, <2>14 DEF BundlesInv
<1> QED BY <1>5, <1>6

(* Every request finds what BundlesInv asks of its first step.               *)
LEMMA RequestKept == ASSUME BundlesInv, NEW c \in Calls, Request(c), TypeInv' PROVE BundlesInv'
<1>1. CASE BeginArchive(c) \/ BeginRegenerate(c) \/ BeginDeleteBundle(c) \/ BeginPlace(c)
  <2>1. CASE BeginArchive(c)
    BY <2>1, BeginKept DEF BeginArchive
  <2>2. CASE BeginRegenerate(c)
    BY <2>2, BeginKept DEF BeginRegenerate
  <2>3. CASE BeginDeleteBundle(c)
    BY <2>3, BeginKept DEF BeginDeleteBundle
  <2>4. CASE BeginPlace(c)
    <3>1. PICK op, entries, tree : Begin(c, op, "place", entries, << >>, tree, FALSE)
      BY <2>4 DEF BeginPlace
    <3> QED BY <3>1, BeginKept
  <2> QED BY <1>1, <2>1, <2>2, <2>3, <2>4
<1>2. CASE BeginDelete(c)
  <2>1. PICK ps : ps \subseteq Entries /\ Begin(c, "delete", "rows", ps, << >>, rows, FALSE)
    BY <1>2 DEF BeginDelete
  <2>2. \A p \in ps : rows[p] # "none"
    BY <2>1 DEF Entries
  <2> QED BY <2>1, <2>2, BeginKept
<1>3. CASE BeginToggle(c)
  BY <1>3, BeginKept DEF BeginToggle
<1>4. CASE BeginRehash(c)
  BY <1>4, BeginKept DEF BeginRehash
<1>5. CASE BeginMove(c)
  BY <1>5, BeginKept DEF BeginMove
<1>6. CASE BeginBatch(c)
  BY <1>6, BeginKept DEF BeginBatch
<1> QED BY <1>1, <1>2, <1>3, <1>4, <1>5, <1>6 DEF Request

LEMMA CreateBundleKept == ASSUME BundlesInv, CreateBundle, TypeInv' PROVE BundlesInv'
<1>1. /\ rows' = rows /\ once' = once /\ files' = files /\ manifest' = manifest /\ tmp' = tmp
      /\ call' = call /\ apart' = apart /\ status = "none" /\ status' = "draft"
      /\ drift' = (drift \/ \E c \in Calls : call[c] # Idle)
  BY DEF CreateBundle, store
<1>2. ASSUME NEW c \in Calls, call[c] # Idle PROVE MineOK(c)'
  <2>1. MineOK(c) /\ ShapeOK(call[c]) /\ drift'
    BY <1>1, <1>2 DEF BundlesInv, TypeInv
  <2>2. Staged(c)' = Staged(c) /\ DeletedRows(c)' = DeletedRows(c)
    BY <1>1 DEF Staged, DeletedRows
  <2>3. call[c].alone => LoneOK(c)'
    BY <2>1, <2>2, <1>1 DEF MineOK, LoneOK
  <2>4. ASSUME Clean(call[c])' PROVE CleanOK(c)'
    <3>1. call[c].op = "archive" /\ CleanOK(c)
      BY <2>4, <2>1, <1>1 DEF Clean, MineOK
    <3>2. call[c].pc \notin {"place", "hash", "upsertOne", "update", "rows", "unlink", "move", "rmdir"}
      BY <3>1, <2>1 DEF ShapeOK
    <3> QED BY <3>1, <3>2, <1>1 DEF CleanOK, Publishing
  <2> QED BY <2>1, <2>3, <2>4, <1>1 DEF MineOK
<1>3. ASSUME ~ drift', Quiet' PROVE Fresh'
  <2>1. ~ drift /\ Quiet
    BY <1>1, <1>3 DEF Quiet
  <2>2. Fresh
    BY <2>1, <1>1 DEF BundlesInv, Settled
  <2> QED BY <2>2, <1>1 DEF Fresh
<1>4. \A c \in Calls : call[c] # Idle /\ ~ (drift' /\ apart') => call[c].alone
  BY <1>1 DEF BundlesInv
<1> QED BY <1>1, <1>2, <1>3, <1>4 DEF BundlesInv

LEMMA CrashKept == ASSUME BundlesInv, Crash, TypeInv' PROVE BundlesInv'
<1>1. rows' = rows /\ files' = files /\ apart' = apart /\ drift' /\ \A c \in Calls : call'[c] = Idle
  BY DEF Crash, Broken, table, store
<1> QED BY <1>1 DEF BundlesInv

LEMMA InitInv == BundleInit => BundlesInv
<1> SUFFICES ASSUME BundleInit PROVE BundlesInv
  OBVIOUS
<1>1. TypeInv /\ IsTree(files) /\ \A c \in Calls : call[c] = Idle
  BY InitType, EmptyIsTree DEF BundleInit
<1>2. Fresh /\ Backed(rows, files)
  BY KindsApart DEF BundleInit, Fresh, Backed, Empty
<1> QED BY <1>1, <1>2 DEF BundlesInv

(* Every step of the system keeps the invariant.                             *)
LEMMA NextInv == BundlesInv /\ [BundleNext]_bundleVars => BundlesInv'
<1> SUFFICES ASSUME BundlesInv, [BundleNext]_bundleVars PROVE BundlesInv'
  OBVIOUS
<1>1. TypeInv' /\ IsTree(files')
  BY NextType, NextTree DEF BundlesInv
<1>2. CASE UNCHANGED bundleVars
  <2>1. \A c \in Calls : MineOK(c)' <=> MineOK(c)
    BY <1>2 DEF bundleVars, MineOK, LoneOK, CleanOK, Clean, Fresh, Settled, Staged, DeletedRows
  <2> QED BY <1>1, <1>2, <2>1 DEF bundleVars, BundlesInv, Quiet, Fresh, Settled
<1>3. ASSUME NEW c \in Calls, Work(c) \/ Break(c) PROVE BundlesInv'
  BY <1>1, <1>3, WorkKept, KeptSuffices
<1>4. ASSUME NEW c \in Calls, Request(c) PROVE BundlesInv'
  BY <1>1, <1>4, RequestKept
<1> QED BY <1>1, <1>2, <1>3, <1>4, CreateBundleKept, CrashKept DEF BundleNext

(* Every reachable state of a build, with any number of admin calls in       *)
(* flight, archives, batches, disconnects, errors and crashes, satisfies the *)
(* invariant.                                                                *)
THEOREM BundlesInvariant == BundleSpec => []BundlesInv
<1>1. BundleInit => BundlesInv
  BY InitInv
<1>2. BundlesInv /\ [BundleNext]_bundleVars => BundlesInv'
  BY NextInv
<1> QED BY <1>1, <1>2, PTL DEF BundleSpec

(* After admin calls of crates/bundles that came one after the other and ran *)
(* to their end, the build is ready, every row has the file with its         *)
(* recorded SHA-256, no file is untracked and artifacts.json lists exactly   *)
(* the rows; one complete upload_archive restores this after any failure.    *)
THEOREM BundlesSettled == BundleSpec => []SettledConsistent
<1>1. BundlesInv => SettledConsistent
  BY DEF BundlesInv, SettledConsistent, Fresh, Settled, Agree
<1> QED BY <1>1, BundlesInvariant, PTL

(* A build deleted by a call that ran to its end leaves no file and no       *)
(* manifest for the next build of the slug.                                  *)
THEOREM BundlesFresh == BundleSpec => []FreshBuildIsEmpty
<1>1. BundlesInv => FreshBuildIsEmpty
  BY DEF BundlesInv, FreshBuildIsEmpty, Fresh, Settled
<1> QED BY <1>1, BundlesInvariant, PTL

(* Whatever fails, disconnects or crashes, a file row has a file on disk     *)
(* outside a re-upload and a move that rolled back behind its rename: rows   *)
(* go before the bytes and come after them.                                  *)
THEOREM BundlesRowsHaveFiles == BundleSpec => []RowsHaveFiles
<1>1. BundlesInv => RowsHaveFiles
  BY TypeInvTyped DEF BundlesInv, RowsHaveFiles, Backed
<1> QED BY <1>1, BundlesInvariant, PTL

=============================================================================
