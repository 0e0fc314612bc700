------------------------------- MODULE MCBundles -------------------------------
EXTENDS Bundles, TLC

Symmetry ==
    UNION {Permutations(S) : S \in {Ids, Names, Versions, Groups, Slots}}
=============================================================================
