----------------------------- MODULE MCMaintain -----------------------------
(***************************************************************************)
(* Instances of Maintain for TLC.                                          *)
(***************************************************************************)
EXTENDS MaintainInvariants

CONSTANTS p1, p2, s1

AllSameDay == [a \in Artifacts |-> 0]
LaterIssue == [a \in Artifacts |-> IF a \in Issues THEN 1 ELSE 0]
=============================================================================
