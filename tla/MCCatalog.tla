------------------------------ MODULE MCCatalog ------------------------------
(* Two builds that may share a bundle, a slug to rename to, one keyword.     *)
EXTENDS Catalog, TLC

MCSymmetry ==
    Permutations(Clients) \cup Permutations(Bundles) \cup Permutations(Slugs)
        \cup Permutations(Calls)
=============================================================================
