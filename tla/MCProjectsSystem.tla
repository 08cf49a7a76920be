--------------------------- MODULE MCProjectsSystem ---------------------------
(***************************************************************************)
(* Small instances of ProjectsSystem: two display names with one key, so   *)
(* that requests compete for it.                                           *)
(***************************************************************************)
EXTENDS ProjectsSystem, TLC

CONSTANTS nLower, nUpper, kShared

MCNames == {nLower, nUpper}
MCNameKeys == {kShared}
MCNameKeyOf == (nLower :> kShared) @@ (nUpper :> kShared)

\* One name will do where it does not matter who holds it.
MCOneName == {nLower}
MCOneKeyOf == nLower :> kShared

\* The two names have the same key, so they may be swapped as well.
Symmetry ==
    Permutations(Requests) \cup Permutations(MCNames)
        \cup Permutations(Owners) \cup Permutations(ProjectIds) \cup Permutations(Workers)
===============================================================================
