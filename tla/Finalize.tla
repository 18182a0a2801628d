------------------------------ MODULE Finalize ------------------------------
(***************************************************************************)
(* Phase 4: one row per target in finalize/summary.json, from whatever the *)
(* earlier phases left on disk.                                            *)
(***************************************************************************)
EXTENDS SessionArtifacts

(* evaluate_target fails, and with it the phase, before anything is        *)
(* written: an unreadable report, a baseline that is missing or of other   *)
(* invocations where the candidate runs are complete, a foreign sidecar.   *)
EvaluateError(t) ==
  \/ plan[t].mode # "consensus_issue" /\ ReportError(t)
  \/ /\ plan[t].mode = "normal_pr" /\ Implemented(t)
     /\ Covered(candIds[t]) = plan[t].vr
     /\ Covered(baseIds[t]) # plan[t].vr
  \/ ProvenanceError(t)

(* cross_check_axis and cross_check_per_invocation.                        *)
VerdictMatches(t) ==
  /\ verdict[t].axisOk
  /\ verdict[t].base = baseIds[t]
  /\ verdict[t].cand = candIds[t]
(* Seeded fault: the verdict is taken for a status.                        *)
MapVerdict_Verbatim(v) == v.verdict

MapVerdict(v) == IF v.verdict = "rejected" THEN "rejected" ELSE "accepted"

(* Status of a normal_pr target whose report says implemented.             *)
BenchStatus(t) ==
  IF /\ Covered(candIds[t]) = plan[t].vr
     /\ verdict[t] # None
     /\ VerdictMatches(t)
  THEN MapVerdict(verdict[t])
  ELSE "aborted"

Status(t) ==
  CASE plan[t].mode = "consensus_issue" ->
         IF marker[t] THEN "routed_to_issue" ELSE "aborted"
    [] ~Implemented(t) -> "aborted"
    [] plan[t].mode = "consensus_poc_pr" -> "poc_landed"
    [] OTHER -> BenchStatus(t)

(* The row carries the run ids evaluate_target had read when it decided,   *)
(* and the commits of the sidecar whenever there is one.                   *)
EvaluateTarget(t) ==
  LET benched == plan[t].mode = "normal_pr" /\ Implemented(t) IN
  [status |-> Status(t),
   cand |-> IF benched THEN candIds[t] ELSE NoIds,
   base |-> IF benched /\ Covered(candIds[t]) = plan[t].vr THEN baseIds[t] ELSE NoIds,
   baseSha |-> IF prov[t] = None THEN None ELSE prov[t].base,
   headSha |-> IF prov[t] = None THEN None ELSE prov[t].head]

FinalizeSession ==
  /\ cmd = "finalize"
  /\ \A t \in Targets : ~EvaluateError(t)
  /\ summary' = [t \in Targets |-> EvaluateTarget(t)]
  /\ Finish
  /\ UNCHANGED <<plan, optVars, benchVars, verdict, pub, githubVars, gen, nrun>>

FinalizeFails ==
  /\ cmd = "finalize"
  /\ \E t \in Targets : EvaluateError(t)
  /\ Abort
  /\ UNCHANGED <<plan, optVars, benchVars, verdict, pub, summary, githubVars, gen, nrun>>

(* session finalize clean.                                                 *)
FinalizeClean ==
  /\ cmd = "idle"
  /\ summary' = None
  /\ UNCHANGED <<procVars, plan, optVars, benchVars, verdict, pub, githubVars, gen, nrun>>
=============================================================================
