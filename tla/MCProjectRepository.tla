------------------------- MODULE MCProjectRepository -------------------------
(***************************************************************************)
(* Small instances of ProjectRepository: three display names, two of which *)
(* have the same uniqueness key.                                           *)
(***************************************************************************)
EXTENDS ProjectRepositoryRefinement, TLC

CONSTANTS nLower, nUpper, nOther, kShared, kOther

MCNames == {nLower, nUpper, nOther}
MCNameKeys == {kShared, kOther}
MCNameKeyOf == (nLower :> kShared) @@ (nUpper :> kShared) @@ (nOther :> kOther)

\* Only the two names that compete for one key.
MCSharedNames == {nLower, nUpper}
MCSharedKeys == {kShared}
MCSharedKeyOf == (nLower :> kShared) @@ (nUpper :> kShared)

\* Only names of one key may be swapped, since NameKeyOf tells the others
\* apart; a reusable id is told apart from the others.
FullSymmetry ==
    Permutations(Requests) \cup Permutations(Owners) \cup Permutations(ProjectIds)
        \cup Permutations(MCSharedNames)
RestoreSymmetry == Permutations(Requests) \cup Permutations(MCSharedNames)
=============================================================================
