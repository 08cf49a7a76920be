---------------------------- MODULE MCProvisioner ----------------------------
(***************************************************************************)
(* Small instances of Provisioner.  Owners and names play no part in it,   *)
(* so one of each will do.                                                 *)
(***************************************************************************)
EXTENDS Provisioner, TLC

CONSTANTS theName, theKey

MCNames == {theName}
MCNameKeys == {theKey}
MCNameKeyOf == theName :> theKey

Symmetry == Permutations(ProjectIds) \cup Permutations(Workers)
==============================================================================
