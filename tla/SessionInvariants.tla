-------------------------- MODULE SessionInvariants -------------------------
(***************************************************************************)
(* The inductive invariants behind the theorems about Session: what the    *)
(* process, at each of its steps, may rely on.  The first three hold of    *)
(* every sequence of commands and are what publishing rests on;            *)
(* RunIsGrounded adds what a session run knows about its own commits and   *)
(* measurements.  None of the properties of Session is inductive by        *)
(* itself: each needs to know how far the running phase has come.          *)
(***************************************************************************)
EXTENDS Session

(* Nothing of a process survives it.                                       *)
IdleInv ==
  cmd = "idle" => /\ chain = "hand" /\ resume = FALSE
                  /\ task = [t \in Targets |-> "queued"] /\ acc = Empty

(* An optimizer task that has recreated its clone works in that clone.     *)
CloneInv ==
  cmd = "optimize" =>
    \A t \in Targets :
      task[t] \in {"cloned", "cleared", "invoked", "committed"} => checkout[t] # None

(* What a push knows at each of its steps about the objects on GitHub.     *)
PushInv ==
  \A t \in Targets :
    /\ opened[t] = IF pr[t] = None THEN 0 ELSE 1
    /\ issues[t] \in {0, 1}
    /\ pr[t] # None => branch[t] = pr[t].head
    /\ feedback[t] = "pr" => pr[t] # None /\ pr[t].labelled
    /\ feedback[t] = "issue" => issues[t] = 1
    /\ cmd = "push" =>
         /\ task[t] \in {"committed", "pushed", "created"} => TextKind(t) = "pr"
         /\ task[t] \in {"committed", "pushed"} => pr[t] = None
         /\ task[t] = "committed" => checkout[t] # None
         /\ task[t] = "pushed" => branch[t] # None
         /\ task[t] = "created" => pr[t] # None
         /\ task[t] = "labelled" =>
              IF TextKind(t) = "pr" THEN pr[t] # None /\ pr[t].labelled ELSE issues[t] = 1

(* Baseline runs measure the pinned source, in any sequence of commands.   *)
CalibrationInv ==
  \A t \in Targets :
    /\ Measures(baseIds[t], Base)
    /\ cmd = "calibrate" => Measures(acc[t], Base)

(* The target's report stands for the commit its sidecar names.            *)
Landed(t) ==
  /\ prov[t] # None /\ prov[t].mode = plan[t].mode /\ prov[t].head # Base
  /\ checkout[t] # None
  /\ AtHead(t) \/ (cmd \in {"generate", "push", "cleanup"} /\ BuiltUpon(checkout[t], prov[t].head))

(* How a full run's optimizer task gets there.                             *)
Landing(t) ==
  /\ task[t] # "skipped"
  /\ task[t] \in {"cloned", "cleared", "invoked", "committed"} =>
       plan[t].mode # "consensus_issue"
  /\ task[t] \in {"cleared", "invoked", "committed"} => ~marker[t]
  /\ task[t] = "invoked" /\ HasChanges(t) => checkout[t].tree # Base
  /\ task[t] = "committed" =>
       checkout[t].tree = checkout[t].head /\ checkout[t].head # Base
  /\ task[t] = "done" /\ plan[t].mode # "consensus_issue" =>
       ~marker[t] /\ (Implemented(t) => Landed(t))

LandingInv ==
  FullRun /\ cmd = "optimize" =>
    \A t \in Targets : Landing(t)

(* And what the later phases of the run find.                              *)
Kept(t) ==
  plan[t].mode # "consensus_issue" => ~marker[t] /\ (Implemented(t) => Landed(t))

LandedInv ==
  FullRun /\ cmd \in PastOptimize =>
    \A t \in Targets : Kept(t)

(* Phase 3 builds and measures the landed commit of every target it takes, *)
(* and takes every landed target.                                          *)
Measuring(t) ==
  /\ task[t] # "failed"
  /\ task[t] = "skipped" => SkipBench(t)
  /\ cmd = "build" => acc[t] = NoIds
  /\ cmd = "build" /\ task[t] = "done" => bin[t] = prov[t].head
  /\ cmd = "bench" /\ task[t] # "skipped" =>
       bin[t] = prov[t].head /\ Measures(acc[t], prov[t].head)
  /\ cmd = "bench" /\ task[t] = "done" => Measures(candIds[t], prov[t].head)

MeasuringInv ==
  FullRun /\ cmd \in {"build", "bench"} =>
    \A t \in Targets : Measuring(t)

(* So the run ids the later phases of the run read are the commit's.       *)
Measured(t) ==
  plan[t].mode = "normal_pr" /\ Implemented(t) => Measures(candIds[t], prov[t].head)

MeasuredInv ==
  FullRun /\ cmd \in {"analyze", "finalize", "generate", "push"} =>
    \A t \in Targets : Measured(t)

(* The accepted rows of the run are evidence about the landed commit, and  *)
(* only they get a PR text and a branch.                                   *)
Shipping(t) ==
  plan[t].mode = "normal_pr" =>
    /\ summary # None
    /\ summary[t].status = "accepted" =>
         Implemented(t) /\ Evidence(summary[t]) /\ summary[t].headSha = prov[t].head
    /\ (cmd = "push" \/ Handled(t)) /\ pub[t] = "pr" => summary[t].status = "accepted"
    /\ cmd = "push" /\ task[t] \in {"committed", "pushed"} => pub[t] = "pr"
    /\ cmd = "push" /\ task[t] = "pushed" => branch[t] = checkout[t].head

ShippingInv ==
  FullRun /\ cmd \in {"generate", "push"} =>
    \A t \in Targets : Shipping(t)

(* Run ids are fresh: files and loops share none, and a file is of one     *)
(* build even when its phase was interrupted and repeated.                 *)
FreshIds(t) ==
  /\ \A ids \in {acc[t], candIds[t], baseIds[t]} :
       \A i \in Covered(ids) : ids[i].n <= nrun[t]
  /\ NoSharedRun(candIds[t], baseIds[t])
  /\ task[t] # "done" => NoSharedRun(acc[t], candIds[t]) /\ NoSharedRun(acc[t], baseIds[t])
  /\ OneBuild(candIds[t])
  /\ cmd = "build" => acc[t] = NoIds
  /\ cmd = "bench" => Measures(acc[t], bin[t])

FreshIdsInv == \A t \in Targets : FreshIds(t)

(* A full run (run.rs run) works on its own commits, measurements and      *)
(* rows, from the phase that makes them to the pull request that quotes    *)
(* them.                                                                   *)
RunIsGrounded ==
  /\ CalibrationInv /\ LandingInv /\ LandedInv /\ MeasuringInv /\ MeasuredInv /\ ShippingInv
  /\ FreshIdsInv /\ OneBuildPerRow
=============================================================================
