----------------------------- MODULE MCSegregated -----------------------------
(***************************************************************************)
(* Symmetry for the instances of SegregatedStore.                          *)
(***************************************************************************)
EXTENDS SegregatedStore, TLC

Symmetry ==
    Permutations(Ids) \cup Permutations(Txs) \cup Permutations(Values)
        \cup Permutations(Orgs \ {MirrorMsp})
=============================================================================
