----------------------------- MODULE MCOperator -----------------------------
(***************************************************************************)
(* Instances of Operator for TLC.                                          *)
(***************************************************************************)
EXTENDS Operator

LOCAL INSTANCE TLC

(* Commands, sessions, and the values of [source].id, are interchangeable.           *)
Symmetry == Permutations(Procs) \cup Permutations(CacheIds) \cup Permutations(Sessions)
=============================================================================
