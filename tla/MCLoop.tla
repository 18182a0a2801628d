------------------------------- MODULE MCLoop -------------------------------
(***************************************************************************)
(* Instances of Loop for TLC.                                              *)
(***************************************************************************)
EXTENDS LoopInvariants

CONSTANTS g1, f1, m1, m2

(* One fix: whether it may be tried again is all its sessions decide on.   *)
Fix == {[sig |-> g1, family |-> f1]}
OneMaintainer == {m1}
TwoMaintainers == {m1, m2}
=============================================================================
