------------------------------ MODULE History ------------------------------
(***************************************************************************)
(* The read side of the operator ledgers: history_projection.rs and the    *)
(* de-duplication policy of dedup.rs, as functions of sessions.jsonl       *)
(* (ledger) and maintain.jsonl (events).                                   *)
(*                                                                         *)
(* ledger[i] is [id, finished, status, rows]; a row is [sig, family,       *)
(* status, pr, issue] with pr and issue a URL or None.  Session ids grow   *)
(* with their start.  events[i] is [url, kind, at].                        *)
(***************************************************************************)
EXTENDS Naturals, Sequences, FiniteSets

CONSTANTS
  None,           \* an absent option
  Threshold       \* dedup's repeated-failure threshold, 0 disables it

ASSUME HistoryBounds == Threshold \in Nat
ASSUME NoneIsNoReason ==
  None \notin {"dedup:open-pr", "dedup:open-issue", "dedup:merged", "dedup:repeated-failure"}

PrKinds ==
  {"pr_open", "pr_force_pushed", "pr_stale", "pr_branch_deleted", "pr_merged", "pr_closed_unmerged"}
IssueKinds == {"issue_open", "issue_closed"}
TargetStatuses == {"accepted", "rejected", "failed", "aborted"}

-----------------------------------------------------------------------------
(* HistoryProjectionV1.                                                    *)

(* Every archived row is an attempt at the fix its id names.               *)
Attempt(entry, r) ==
  [session |-> entry.id, finished |-> entry.finished, sig |-> r.sig,
   family |-> r.family, status |-> r.status, pr |-> r.pr, issue |-> r.issue]
Attempts(ledger) ==
  UNION {{Attempt(ledger[i], r) : r \in ledger[i].rows} : i \in DOMAIN ledger}

attempts_for_signature(ledger, sig) == {a \in Attempts(ledger) : a.sig = sig}

(* The latest event of a URL by its stamp, the later line when two have    *)
(* the same.                                                               *)
latest_artifact_state_FirstOfASecond(events, url) ==
  LET of == {i \in DOMAIN events : events[i].url = url}
      Later(i, j) == events[i].at > events[j].at \/ (events[i].at = events[j].at /\ i <= j)
  IN  IF of = {} THEN None ELSE events[CHOOSE i \in of : \A j \in of : Later(i, j)].kind
latest_artifact_state(events, url) ==
  LET of == {i \in DOMAIN events : events[i].url = url}
      Later(i, j) == events[i].at > events[j].at \/ (events[i].at = events[j].at /\ i >= j)
  IN  IF of = {} THEN None ELSE events[CHOOSE i \in of : \A j \in of : Later(i, j)].kind

(* The families a signature is filed under: signatures() lists it once for *)
(* each of them.                                                           *)
FamiliesOf(ledger, sig) == {a.family : a \in attempts_for_signature(ledger, sig)}

-----------------------------------------------------------------------------
(* DedupProjection.                                                        *)

unsuccessful_from_archived_status(status) == status \in {"rejected", "failed", "aborted"}

(* A PR or issue without an event is open.                                 *)
artifact_state(events, url) ==
  CASE latest_artifact_state(events, url) \in {None, "pr_open", "pr_force_pushed", "issue_open"} -> "open"
    [] latest_artifact_state(events, url) = "pr_merged" -> "merged"
    [] latest_artifact_state(events, url) \in {"pr_closed_unmerged", "issue_closed"} -> "closed"
    [] OTHER -> "undecided"

(* Why an attempt counts as unsuccessful: once for its status and once for *)
(* each of its objects that was closed.                                    *)
In(events, url, state) == url # None /\ artifact_state(events, url) = state
Failures(events, a) ==
  (IF unsuccessful_from_archived_status(a.status) THEN {"status"} ELSE {})
    \union (IF In(events, a.pr, "closed") THEN {"pr"} ELSE {})
    \union (IF In(events, a.issue, "closed") THEN {"issue"} ELSE {})

(* An attempt is visited once per family its signature is filed under.     *)
Unsuccessful(ledger, events, sig) ==
  UNION {{<<f, a, why>> : f \in FamiliesOf(ledger, sig), why \in Failures(events, a)} :
           a \in attempts_for_signature(ledger, sig)}

(* The SignatureState of a signature.                                      *)
from_history_projection_StatusOnly(ledger, events, sig) ==
  LET tries == attempts_for_signature(ledger, sig)
  IN  [open_pr   |-> \E a \in tries : In(events, a.pr, "open"),
       open_issue |-> \E a \in tries : In(events, a.issue, "open"),
       merged_pr |-> \E a \in tries : In(events, a.pr, "merged"),
       unsuccessful |-> Cardinality({a \in tries : unsuccessful_from_archived_status(a.status)})]
from_history_projection(ledger, events, sig) ==
  LET tries == attempts_for_signature(ledger, sig)
  IN  [open_pr   |-> \E a \in tries : In(events, a.pr, "open"),
       open_issue |-> \E a \in tries : In(events, a.issue, "open"),
       merged_pr |-> \E a \in tries : In(events, a.pr, "merged"),
       unsuccessful |-> Cardinality(Unsuccessful(ledger, events, sig))]

(* The reason a target is rejected before the merge, or None.              *)
decision_for_OpenOnly(ledger, events, sig) ==
  LET state == from_history_projection(ledger, events, sig) IN
  CASE state.open_pr -> "dedup:open-pr"
    [] ~state.open_pr /\ state.open_issue -> "dedup:open-issue"
    [] OTHER -> None
decision_for(ledger, events, sig) ==
  LET state == from_history_projection(ledger, events, sig) IN
  CASE state.open_pr -> "dedup:open-pr"
    [] ~state.open_pr /\ state.open_issue -> "dedup:open-issue"
    [] ~state.open_pr /\ ~state.open_issue /\ state.merged_pr -> "dedup:merged"
    [] /\ ~state.open_pr /\ ~state.open_issue /\ ~state.merged_pr
       /\ Threshold > 0 /\ state.unsuccessful >= Threshold -> "dedup:repeated-failure"
    [] OTHER -> None
=============================================================================
