----------------------------- MODULE Lifecycle ------------------------------
(***************************************************************************)
(* What maintain.jsonl is meant to be: for each pull request and issue, a  *)
(* life that begins when it is first seen, may be reported stale or        *)
(* without a head once for each position of its branch, and ends once.     *)
(***************************************************************************)
EXTENDS Naturals

CONSTANTS Prs, Issues

VARIABLES stage, head, reported

Artifacts == Prs \cup Issues
Reports == {"pr_stale", "pr_branch_deleted"}

Init ==
  /\ stage = [a \in Artifacts |-> "unseen"]
  /\ head = [a \in Artifacts |-> 0]
  /\ reported = [a \in Artifacts |-> {}]

FirstSeen(a, h) ==
  /\ stage[a] = "unseen"
  /\ stage' = [stage EXCEPT ![a] = "open"]
  /\ head' = [head EXCEPT ![a] = h]
  /\ UNCHANGED reported

Report(a, what) ==
  /\ stage[a] = "open" /\ what \notin reported[a]
  /\ reported' = [reported EXCEPT ![a] = @ \cup {what}]
  /\ UNCHANGED <<stage, head>>

BranchMoved(a, h) ==
  /\ stage[a] = "open" /\ h > head[a]
  /\ head' = [head EXCEPT ![a] = h]
  /\ reported' = [reported EXCEPT ![a] = {}]
  /\ UNCHANGED stage

End(a, h) ==
  /\ stage[a] # "ended" /\ h >= head[a]
  /\ stage' = [stage EXCEPT ![a] = "ended"]
  /\ head' = [head EXCEPT ![a] = h]
  /\ UNCHANGED reported

(* h ranges over the heads that the artifact has next; naming it through   *)
(* head' keeps the set of heads open.                                      *)
Next ==
  \/ \E a \in Artifacts : FirstSeen(a, head'[a]) \/ End(a, head'[a])
  \/ \E a \in Prs : BranchMoved(a, head'[a]) \/ \E what \in Reports : Report(a, what)

Spec == Init /\ [][Next]_<<stage, head, reported>>
=============================================================================
