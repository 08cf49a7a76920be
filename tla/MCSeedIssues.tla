---------------------------- MODULE MCSeedIssues ----------------------------
(***************************************************************************)
(* A small instance of SeedIssues: done and open tickets, sharing a label. *)
(***************************************************************************)
EXTENDS SeedIssues

CONSTANTS lShared, lOwn, mOne

MCLabels == {lShared, lOwn}
MCMilestones == {mOne}
MCLabelsOf == [t \in Tickets |-> IF t = 2 THEN MCLabels ELSE {lShared}]
MCMilestoneOf == [t \in Tickets |-> mOne]
=============================================================================
