-------------------------- MODULE MCProjectListing --------------------------
(***************************************************************************)
(* A small instance of ProjectListing: two owners, with enough projects    *)
(* for several to be created in one second.                                *)
(***************************************************************************)
EXTENDS ProjectListing, TLC

Symmetry == Permutations(Owners)
=============================================================================
