----------------------------- MODULE Benchmarks -----------------------------
(***************************************************************************)
(* The two benchmarking phases.  Phase 1.8 measures every normal_pr target *)
(* with the archived baseline binary; Phase 3 builds every implemented     *)
(* target's clone, keeps the binary, and measures it.  Both take one run   *)
(* per verification invocation, gather the ids in memory and write them to *)
(* a file once the target is through; any error ends the command.          *)
(***************************************************************************)
EXTENDS SessionArtifacts

(* One bench run: the stacks-bench database gives it a fresh id.           *)
RunInvocation(t, content) ==
  /\ task[t] \in {"queued", "ready"} /\ Turn(t)
  /\ \E i \in plan[t].vr \ Covered(acc[t]) :
       acc' = [acc EXCEPT ![t] = [@ EXCEPT ![i] = [n |-> nrun[t] + 1, of |-> content]]]
  /\ nrun' = [nrun EXCEPT ![t] = @ + 1]
  /\ task' = [task EXCEPT ![t] = "ready"]
  /\ UNCHANGED <<cmd, chain, resume>>

(* All invocations of t have their run.                                    *)
Gathered(t) == task[t] = "ready" /\ Covered(acc[t]) = plan[t].vr

Calibrate(t) ==
  /\ cmd = "calibrate" /\ plan[t].mode = "normal_pr"
  /\ RunInvocation(t, Base)
  /\ UNCHANGED <<plan, optVars, benchVars, verdict, pub, summary, githubVars, gen>>

WriteBaselineIds(t) ==
  /\ cmd = "calibrate" /\ Gathered(t)
  /\ baseIds' = [baseIds EXCEPT ![t] = acc[t]]
  /\ Move(t, "done")
  /\ UNCHANGED <<plan, optVars, bin, candIds, verdict, pub, summary, githubVars,
                 gen, nrun>>

SkipCalibration(t) ==
  /\ cmd = "calibrate" /\ task[t] = "queued"
  /\ plan[t].mode # "normal_pr"
  /\ Move(t, "skipped")
  /\ UNCHANGED <<plan, optVars, benchVars, verdict, pub, summary, githubVars, gen, nrun>>

----------------------------------------------------------------------------
(* static_skip_reason: an unreadable report skips the target too.          *)
SkipBench(t) ==
  \/ plan[t].mode # "normal_pr"
  \/ marker[t]
  \/ ~Implemented(t)

SkipBuild(t) ==
  /\ cmd = "build" /\ task[t] = "queued" /\ Turn(t)
  /\ SkipBench(t)
  /\ Move(t, "skipped")
  /\ UNCHANGED <<plan, optVars, benchVars, verdict, pub, summary, githubVars, gen, nrun>>
(* Seeded fault: a binary that is already there is not rebuilt.            *)
BuildCandidate_ReusesBinary(t) ==
  /\ cmd = "build" /\ task[t] = "queued" /\ Turn(t)
  /\ ~SkipBench(t)
  /\ checkout[t] # None
  /\ bin' = [bin EXCEPT ![t] = IF @ = None THEN checkout[t].tree ELSE @]
  /\ Move(t, "done") \/ Abort
  /\ UNCHANGED <<plan, optVars, candIds, baseIds, verdict, pub, summary, githubVars,
                 gen, nrun>>

(* cargo builds whatever the clone's working tree holds; the cargo clean   *)
(* that follows the copy of the binary may still fail.                     *)
BuildCandidate(t) ==
  /\ cmd = "build" /\ task[t] = "queued" /\ Turn(t)
  /\ ~SkipBench(t)
  /\ checkout[t] # None
  /\ bin' = [bin EXCEPT ![t] = checkout[t].tree]
  /\ Move(t, "done") \/ Abort
  /\ UNCHANGED <<plan, optVars, candIds, baseIds, verdict, pub, summary, githubVars,
                 gen, nrun>>

(* Phase A is over; Phase B leaves the skipped targets alone.              *)
StartBench ==
  /\ cmd = "build" /\ AllHandled
  /\ cmd' = "bench"
  /\ task' = [t \in Targets |-> IF task[t] = "skipped" THEN "skipped" ELSE "queued"]
  /\ UNCHANGED <<chain, resume, acc, plan, optVars, benchVars, verdict, pub, summary,
                 githubVars, gen, nrun>>
(* Every target Phase B takes was built by Phase A, so its binary exists.  *)
BenchCandidate(t) ==
  /\ cmd = "bench" /\ bin[t] # None
  /\ RunInvocation(t, bin[t])
  /\ UNCHANGED <<plan, optVars, benchVars, verdict, pub, summary, githubVars, gen>>

(* Seeded fault: a run id the file already has is kept.                    *)
WriteCandidateIds_KeepsOld(t) ==
  /\ cmd = "bench" /\ Gathered(t)
  /\ candIds' = [candIds EXCEPT ![t] = [i \in Invocations |-> IF @[i] # None THEN @[i] ELSE acc[t][i]]]
  /\ Move(t, "done")
  /\ UNCHANGED <<plan, optVars, bin, baseIds, verdict, pub, summary, githubVars,
                 gen, nrun>>

WriteCandidateIds(t) ==
  /\ cmd = "bench" /\ Gathered(t)
  /\ candIds' = [candIds EXCEPT ![t] = acc[t]]
  /\ Move(t, "done")
  /\ UNCHANGED <<plan, optVars, bin, baseIds, verdict, pub, summary, githubVars,
                 gen, nrun>>

JoinBench ==
  /\ cmd \in {"calibrate", "bench"} /\ AllHandled
  /\ Finish
  /\ UNCHANGED <<plan, optVars, benchVars, verdict, pub, summary, githubVars, gen, nrun>>

(* A bench run, a build, a missing clone or a write fails.                 *)
BenchFails ==
  /\ \E t \in Targets :
       \/ cmd = "calibrate" /\ plan[t].mode = "normal_pr" /\ ~Handled(t)
       \/ cmd = "build" /\ task[t] = "queued" /\ ~SkipBench(t)
       \/ cmd = "bench" /\ ~Handled(t)
  /\ Abort
  /\ UNCHANGED <<plan, optVars, benchVars, verdict, pub, summary, githubVars, gen, nrun>>

BenchStep(t) ==
  \/ Calibrate(t)
  \/ WriteBaselineIds(t)
  \/ SkipCalibration(t)
  \/ SkipBuild(t)
  \/ BuildCandidate(t)
  \/ BenchCandidate(t)
  \/ WriteCandidateIds(t)

(* session bench clean: both sets of run ids; the built binaries stay.     *)
BenchClean ==
  /\ cmd = "idle"
  /\ candIds' = Empty
  /\ baseIds' = Empty
  /\ UNCHANGED <<procVars, plan, optVars, bin, verdict, pub, summary, githubVars,
                 gen, nrun>>
=============================================================================
