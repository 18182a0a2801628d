----------------------------- MODULE Optimizers -----------------------------
(***************************************************************************)
(* Phase 2: one optimizer task per target, as many at a time as the        *)
(* semaphore has permits.  A task recreates the target's clone, clears the *)
(* artifacts of an earlier attempt, invokes the agent, commits what the    *)
(* agent kept and records the commit in coordinator-provenance.json.  A    *)
(* failing task does not stop the others; the phase fails once all joined. *)
(***************************************************************************)
EXTENDS SessionArtifacts

(* --parallel-agents is clamped to one agent when a normal_pr target runs. *)
Permits == IF \E t \in Targets : plan[t].mode = "normal_pr" THEN 1 ELSE Parallel
(* Seeded fault: a failed task never gives its permit back.                *)
Working_LeaksPermit(t) ==
  task[t] \in {"ready", "cloned", "cleared", "invoked", "committed", "failed"}

Working(t) == task[t] \in {"ready", "cloned", "cleared", "invoked", "committed"}

AcquirePermit(t) ==
  /\ cmd = "optimize" /\ task[t] = "queued"
  /\ Cardinality({u \in Targets : Working(u)}) < Permits
  /\ Move(t, "ready")
  /\ UNCHANGED <<plan, optVars, benchVars, verdict, pub, summary, githubVars, gen, nrun>>

(* clear_optimizer_artifacts: the report and the sidecar go; benchmark     *)
(* results, the built binary, verdicts and PR texts stay.                  *)
ClearArtifacts(t) ==
  /\ report' = [report EXCEPT ![t] = NoReport]
  /\ prov' = [prov EXCEPT ![t] = None]

(* A consensus_issue target only gets its marker.                          *)
RouteToIssue(t) ==
  /\ cmd = "optimize" /\ task[t] = "ready"
  /\ plan[t].mode = "consensus_issue"
  /\ ClearArtifacts(t)
  /\ marker' = [marker EXCEPT ![t] = TRUE]
  /\ Move(t, "done")
  /\ UNCHANGED <<plan, checkout, benchVars, verdict, pub, summary, githubVars, gen, nrun>>

(* The resume gate: an aborted report is final; an implemented one needs a *)
(* sidecar of this target whose base is the archived baseline's source.    *)
ResumeComplete(t) ==
  /\ report[t].kind \in {"aborted", "implemented"}
  /\ report[t].mode = plan[t].mode
  /\ report[t].kind = "implemented" =>
       /\ prov[t] # None
       /\ prov[t].mode = plan[t].mode
       /\ prov[t].base = Base

ResumeSkip(t) ==
  /\ cmd = "optimize" /\ task[t] = "ready"
  /\ plan[t].mode # "consensus_issue"
  /\ resume /\ ResumeComplete(t)
  /\ Move(t, "skipped")
  /\ UNCHANGED <<plan, optVars, benchVars, verdict, pub, summary, githubVars, gen, nrun>>

(* Before it touches the clone a task may fail: --resume finds no baseline *)
(* manifest, or the old clone cannot be removed.                           *)
TaskFails(t) ==
  /\ cmd = "optimize" /\ task[t] = "ready"
  /\ plan[t].mode # "consensus_issue"
  /\ Move(t, "failed")
  /\ UNCHANGED <<plan, optVars, benchVars, verdict, pub, summary, githubVars, gen, nrun>>

FreshClone == [head |-> Base, parent |-> Base, tree |-> Base, past |-> {}, by |-> "optimizer"]

(* recreate_checkout: remove the old clone, clone the pinned source,       *)
(* create the branch and copy the remotes.  A failure leaves no clone, or  *)
(* a fresh one, and the artifacts of the earlier attempt.                  *)
RecreateCheckout(t) ==
  /\ cmd = "optimize" /\ task[t] = "ready"
  /\ plan[t].mode # "consensus_issue"
  /\ ~(resume /\ ResumeComplete(t))
  /\ \/ checkout' = [checkout EXCEPT ![t] = FreshClone] /\ Move(t, "cloned")
     \/ \E c \in {None, FreshClone} :
          checkout' = [checkout EXCEPT ![t] = c] /\ Move(t, "failed")
  /\ UNCHANGED <<plan, report, prov, marker, benchVars, verdict, pub, summary,
                 githubVars, gen, nrun>>

(* Seeded fault: the marker of an earlier consensus_issue attempt stays.   *)
ClearStale_KeepsMarker(t) ==
  /\ cmd = "optimize" /\ task[t] = "cloned"
  /\ ClearArtifacts(t)
  /\ Move(t, "cleared")
  /\ UNCHANGED <<plan, checkout, marker, benchVars, verdict, pub, summary, githubVars,
                 gen, nrun>>

ClearStale(t) ==
  /\ cmd = "optimize" /\ task[t] = "cloned"
  /\ ClearArtifacts(t)
  /\ marker' = [marker EXCEPT ![t] = FALSE]
  /\ Move(t, "cleared")
  /\ UNCHANGED <<plan, checkout, benchVars, verdict, pub, summary, githubVars, gen, nrun>>

(* What an agent may leave behind: any report, and the clone in any state. *)
AgentReport(t) ==
  {NoReport, [kind |-> "corrupt", mode |-> "foreign"]} \cup
  [kind : {"aborted", "implemented"}, mode : {plan[t].mode, "foreign"}]

AgentTrees(t) == AgentLeaves(FreshClone, gen[t] + 1)

(* The agent runs; the harness then succeeds or fails (exit status or      *)
(* timeout), whatever the agent had already written.                       *)
InvokeAgent(t) ==
  /\ cmd = "optimize" /\ task[t] = "cleared"
  /\ \E r \in AgentReport(t), c \in AgentTrees(t) :
       /\ report' = [report EXCEPT ![t] = r]
       /\ checkout' = [checkout EXCEPT ![t] = c]
       /\ gen' = [gen EXCEPT ![t] = IF c.tree > @ THEN c.tree ELSE @]
  /\ \E step \in {"invoked", "failed"} : Move(t, step)
  /\ UNCHANGED <<plan, prov, marker, benchVars, verdict, pub, summary, githubVars, nrun>>

(* Rewrite an implemented report as an aborted one.  The sidecar stays.    *)
Demote(t) ==
  report' = [report EXCEPT ![t] = AbortedReport(plan[t].mode)]

(* coordinator_commit_if_kept up to the commit: no report or an aborted    *)
(* one ends the task, a report of another context fails it, and an         *)
(* implemented one is demoted unless the tree has changes and the commit   *)
(* succeeds.                                                               *)
NothingToCommit(t) ==
  /\ cmd = "optimize" /\ task[t] = "invoked"
  /\ \/ report[t].kind = "absent" /\ Move(t, "done")
     \/ ReportError(t) /\ Move(t, "failed")
     \/ report[t].kind = "aborted" /\ ~ReportError(t) /\ Move(t, "done")
  /\ UNCHANGED <<plan, optVars, benchVars, verdict, pub, summary, githubVars, gen, nrun>>

HasChanges(t) == checkout[t].tree # checkout[t].head

CommitKept(t) ==
  /\ cmd = "optimize" /\ task[t] = "invoked"
  /\ Implemented(t)
  /\ HasChanges(t)
  /\ checkout' = [checkout EXCEPT ![t] = CommitTree(@)]
  /\ Move(t, "committed")
  /\ UNCHANGED <<plan, report, prov, marker, benchVars, verdict, pub, summary,
                 githubVars, gen, nrun>>

(* Empty porcelain output always demotes; a failing status, add or commit  *)
(* may demote in any tree.                                                 *)
DemoteUncommitted(t) ==
  /\ cmd = "optimize" /\ task[t] = "invoked"
  /\ Implemented(t)
  /\ Demote(t)
  /\ Move(t, "done")
  /\ UNCHANGED <<plan, checkout, prov, marker, benchVars, verdict, pub, summary,
                 githubVars, gen, nrun>>

(* verify_kept_or_demote: a report whose HEAD did not move since the clone *)
(* was made is demoted.                                                    *)
VerifyKeptOrDemote(t) == IF checkout[t].head = Base THEN Demote(t) ELSE UNCHANGED report

(* write_coordinator_provenance records HEAD and HEAD^; a failure demotes. *)
WriteProvenance(t) ==
  /\ cmd = "optimize" /\ task[t] = "committed"
  /\ prov' = [prov EXCEPT ![t] =
       [base |-> checkout[t].parent, head |-> checkout[t].head, mode |-> plan[t].mode]]
  /\ VerifyKeptOrDemote(t)
  /\ Move(t, "done")
  /\ UNCHANGED <<plan, checkout, marker, benchVars, verdict, pub, summary,
                 githubVars, gen, nrun>>

ProvenanceFails(t) ==
  /\ cmd = "optimize" /\ task[t] = "committed"
  /\ Demote(t)
  /\ Move(t, "done")
  /\ UNCHANGED <<plan, checkout, prov, marker, benchVars, verdict, pub, summary,
                 githubVars, gen, nrun>>
(* Seeded fault: the errors of the tasks are logged and forgotten.         *)
JoinOptimizers_IgnoresErrors ==
  /\ cmd = "optimize" /\ AllHandled
  /\ Finish
  /\ UNCHANGED <<plan, optVars, benchVars, verdict, pub, summary, githubVars, gen, nrun>>

(* All tasks joined: the first error, if any, is the phase's error.        *)
JoinOptimizers ==
  /\ cmd = "optimize" /\ AllHandled
  /\ IF \E t \in Targets : task[t] = "failed" THEN Abort ELSE Finish
  /\ UNCHANGED <<plan, optVars, benchVars, verdict, pub, summary, githubVars, gen, nrun>>

OptimizerStep(t) ==
  \/ AcquirePermit(t)
  \/ RouteToIssue(t)
  \/ ResumeSkip(t)
  \/ TaskFails(t)
  \/ RecreateCheckout(t)
  \/ ClearStale(t)
  \/ InvokeAgent(t)
  \/ NothingToCommit(t)
  \/ CommitKept(t)
  \/ DemoteUncommitted(t)
  \/ WriteProvenance(t)
  \/ ProvenanceFails(t)

(* prune_aborted_experiments at the end of a session run: clones whose     *)
(* report is not implemented (whatever its context) go, the others are     *)
(* what Phase 5 pushes from.  Removing one clone may fail.                 *)
PruneAborted ==
  /\ cmd = "cleanup"
  /\ \E S \in SUBSET {t \in Targets : report[t].kind # "implemented"} :
       checkout' = [t \in Targets |-> IF t \in S THEN None ELSE checkout[t]]
  /\ Finish
  /\ UNCHANGED <<plan, report, prov, marker, benchVars, verdict, pub, summary,
                 githubVars, gen, nrun>>

(* session optimize clean: the clones and optimize/ with all it holds.     *)
OptimizeClean ==
  /\ cmd = "idle"
  /\ checkout' = [t \in Targets |-> None]
  /\ report' = [t \in Targets |-> NoReport]
  /\ prov' = [t \in Targets |-> None]
  /\ marker' = [t \in Targets |-> FALSE]
  /\ bin' = [t \in Targets |-> None]
  /\ candIds' = Empty
  /\ pub' = [t \in Targets |-> "none"]
  /\ feedback' = [t \in Targets |-> "none"]
  /\ UNCHANGED <<procVars, plan, baseIds, verdict, summary, branch, pr, opened,
                 issues, gen, nrun>>
=============================================================================
