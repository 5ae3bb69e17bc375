------------------------------ MODULE MCBundles ------------------------------
(* A build with two folders that hold a file of the same name, two contents, *)
(* a ZIP with both, one with a file where the other has a folder, and one    *)
(* with an entry that escapes.                                               *)
EXTENDS Bundles

f == <<"f">>
d == <<"d">>
e == <<"e">>
df == <<"d", "f">>
ef == <<"e", "f">>

MCPaths == {f, d, e, df, ef}
MCContents == {"v1", "v2"}
MCRawPaths == {<<".", "f">>, <<"d", "f">>, <<"..", "f">>}

ZipOf(names, bad) ==
    [tree |-> [p \in MCPaths |-> IF p \in names THEN "v1"
                                 ELSE IF \E q \in names : Len(q) = 2 /\ p = <<q[1]>> THEN "dir"
                                 ELSE "none"],
     bad |-> bad]
MCArchives == {ZipOf({df, ef}, FALSE), ZipOf({d}, FALSE), ZipOf({df, f}, TRUE)}
MCBatches == {<<df, ef>>}
=============================================================================
