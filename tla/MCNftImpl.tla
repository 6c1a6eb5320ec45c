------------------------------ MODULE MCNftImpl ------------------------------
(***************************************************************************)
(* NftImpl for TLC: the configurations give the constants their values and *)
(* take their symmetry sets from here.                                     *)
(***************************************************************************)
EXTENDS NftImpl

\* The accounts are told apart by equality only.
AccountSymmetry == Permutations(Accounts)

\* So are the external collection ids and the fingerprints: the engine
\* stores and compares them and never orders or computes with them.
RegistrySymmetry ==
    Permutations(Accounts) \cup Permutations(CollectionIds)
        \cup Permutations(Fingerprints)

\* What a step depends on: every variable but the result of the last call,
\* which no operation reads.  States that differ in it alone are one state.
Storages == <<repos, locks, stores, timepoint>>

=============================================================================
