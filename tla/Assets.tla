------------------------------- MODULE Assets -------------------------------
(***************************************************************************)
(* The two asset stores over one disk, as one process serves them.         *)
(***************************************************************************)
EXTENDS Textures, Media

vars == <<tex, owned, tcall, mediaVars, storageVars>>

Init == StorageInit /\ TextureInit /\ MediaInit

Next ==
  \/ TextureNext /\ UNCHANGED mediaVars
  \/ MediaNext /\ UNCHANGED <<tex, owned, tcall>>

Spec == Init /\ [][Next]_vars
=============================================================================
