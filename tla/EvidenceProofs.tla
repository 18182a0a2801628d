---------------------------- MODULE EvidenceProofs --------------------------
(***************************************************************************)
(* Theorems about what a session run stands for: the commit behind a       *)
(* report, the measurements behind a row, the row behind a pull request.   *)
(* The inductive invariant follows a target through the phases; each part  *)
(* is about one stretch of them and hands over to the next at a join.      *)
(***************************************************************************)
EXTENDS SessionProofs

USE DEF FullRun

----------------------------------------------------------------------------
(* Frames: what the steps of each phase leave alone.                       *)

(* An optimizer step works on its own target's clone and report only.      *)
LEMMA OptimizerFrame ==
  ASSUME TypeOK, NEW t \in Targets, OptimizerStep(t)
  PROVE  /\ cmd = "optimize"
         /\ UNCHANGED <<cmd, chain, resume, acc, plan, bin, candIds, baseIds, verdict, pub,
                        summary, githubVars, nrun>>
         /\ \A u \in Targets \ {t} :
              UNCHANGED <<task[u], checkout[u], report[u], prov[u], marker[u]>>
         /\ task[t] # "done"
  BY DEF OptimizerStep, AcquirePermit, RouteToIssue, ResumeSkip, TaskFails,
     RecreateCheckout,
         ClearStale, InvokeAgent, NothingToCommit, CommitKept, DemoteUncommitted,
         WriteProvenance, VerifyKeptOrDemote, ProvenanceFails, Move, ClearArtifacts, Demote, optVars, benchVars,
         githubVars, TypeOK

(* A benchmark step keeps the commits and stays in its phase or ends the   *)
(* command.                                                                *)
LEMMA BenchFrame ==
  ASSUME TypeOK, NEW t \in Targets, BenchStep(t)
  PROVE  /\ cmd \in {"calibrate", "build", "bench"}
         /\ UNCHANGED <<cmd, chain, resume>> \/ (cmd' = "idle" /\ chain' = "hand")
         /\ UNCHANGED <<plan, checkout, report, prov, marker, verdict, pub, summary,
                        githubVars>>
  BY DEF BenchStep, Calibrate, WriteBaselineIds, SkipCalibration, SkipBuild, BuildCandidate,
         BenchCandidate, WriteCandidateIds, RunInvocation, Move, Abort, Enter, optVars,
         benchVars

(* An analyzer step changes a verdict.                                     *)
LEMMA AnalyzerFrame ==
  ASSUME NEW t \in Targets, AnalyzerStep(t)
  PROVE  /\ cmd = "analyze"
         /\ UNCHANGED <<cmd, chain, resume, acc, plan, checkout, report, prov, marker, bin,
                        candIds, baseIds, pub, summary, githubVars, nrun>>
  BY DEF AnalyzerStep, SkipAnalysis, Analyze, Move, optVars, benchVars

(* A publish step keeps reports, sidecars, run ids and rows.               *)
LEMMA PublishFrame ==
  ASSUME NEW t \in Targets, PublishStep(t)
  PROVE  /\ cmd \in {"generate", "push"}
         /\ \/ UNCHANGED <<cmd, chain, resume, acc>>
            \/ cmd' = "idle" /\ chain' = "hand" /\ acc' = Empty
         /\ UNCHANGED <<plan, report, prov, marker, bin, candIds, baseIds, verdict, summary,
                        nrun>>
  BY DEF PublishStep, HoldTarget, WritePrText, WriteIssueText, WriteTextOf, WriterRefuses,
     SkipPush, AlreadyPublished,
         PushFails, CommitForPush, PushBranch, CreatePr, AddLabels, CreateIssue,
         WriteFeedback, Move, Abort, Enter, optVars, benchVars

(* The steps between phases.                                               *)
Between ==
  \/ Merge \/ JoinOptimizers \/ StartBench \/ JoinBench \/ BenchFails
  \/ RejectReports \/ JoinAnalyzers \/ FinalizeSession \/ FinalizeFails
  \/ JoinPublish \/ PruneAborted

(* A full run in a later phase comes from the phase before it; only the    *)
(* merge changes plans and only finalize the rows.                         *)
LEMMA BetweenFrame ==
  ASSUME FullRun, Between, cmd' \in PastOptimize
  PROVE  /\ UNCHANGED <<plan, checkout, report, prov, marker, bin, candIds, baseIds, verdict,
                        pub, githubVars, nrun>>
         /\ \/ cmd = "optimize" /\ JoinOptimizers /\ cmd' = "build"
            \/ cmd = "build" /\ StartBench /\ cmd' = "bench"
            \/ cmd = "bench" /\ JoinBench /\ cmd' = "analyze"
            \/ cmd = "analyze" /\ cmd' = "finalize" /\ UNCHANGED summary
            \/ cmd = "finalize" /\ FinalizeSession /\ cmd' \in {"generate", "cleanup"}
            \/ cmd = "generate" /\ JoinPublish /\ cmd' = "push" /\ UNCHANGED summary
            \/ cmd = "push" /\ cmd' = "cleanup" /\ UNCHANGED summary
<1> USE DEF FullRun, PastOptimize, Abort, Finish, Enter, optVars, benchVars
<1>1. CASE Merge
  BY <1>1 DEF Merge, After
<1>2. CASE JoinOptimizers
  BY <1>2 DEF JoinOptimizers, After
<1>3. CASE StartBench
  BY <1>3 DEF StartBench
<1>4. CASE JoinBench
  BY <1>4 DEF JoinBench, After
<1>5. CASE BenchFails \/ RejectReports \/ FinalizeFails
  BY <1>5 DEF BenchFails, RejectReports, FinalizeFails
<1>6. CASE JoinAnalyzers
  BY <1>6 DEF JoinAnalyzers, After
<1>7. CASE FinalizeSession
  BY <1>7 DEF FinalizeSession, After
<1>8. CASE JoinPublish
  BY <1>8 DEF JoinPublish, After
<1>9. CASE PruneAborted
  BY <1>9 DEF PruneAborted, After
<1> QED
  BY <1>1, <1>2, <1>3, <1>4, <1>5, <1>6, <1>7, <1>8, <1>9 DEF Between

(* A state of a full run past the merge has a predecessor in the same run, *)
(* by a step of a phase.                                                   *)
LEMMA RunContinues ==
  ASSUME IInv, [Next]_sessionVars, FullRun', cmd' # "merge"
  PROVE  /\ FullRun
         /\ \/ \E t \in Targets :
                 OptimizerStep(t) \/ BenchStep(t) \/ AnalyzerStep(t) \/ PublishStep(t)
            \/ Between
            \/ UNCHANGED sessionVars
<1>1. ASSUME NEW c \in Commands, Start(c) PROVE FALSE
  BY <1>1, CommandsAssumption DEF Start, FirstPhase
<1>2. ASSUME NEW c \in Cleans, Clean(c) PROVE FALSE
  BY <1>2 DEF IInv, IdleInv, Clean, OptimizeClean, BenchClean, AnalyzeClean, FinalizeClean,
              PublishClean, procVars
<1>3. CASE Crash
  BY <1>3 DEF Crash, Abort, Enter
<1>4. CASE UNCHANGED sessionVars
  BY <1>4 DEF sessionVars, vars, procVars
<1>5. ASSUME NEW t \in Targets, OptimizerStep(t) PROVE FullRun
  BY <1>5, OptimizerFrame DEF IInv
<1>6. ASSUME NEW t \in Targets, BenchStep(t) PROVE FullRun
  BY <1>6, BenchFrame DEF IInv
<1>7. ASSUME NEW t \in Targets, AnalyzerStep(t) PROVE FullRun
  BY <1>7, AnalyzerFrame
<1>8. ASSUME NEW t \in Targets, PublishStep(t) PROVE FullRun
  BY <1>8, PublishFrame
<1>9. CASE Between
  BY <1>9 DEF Between, Merge, JoinOptimizers, StartBench, JoinBench, BenchFails,
         RejectReports, JoinAnalyzers, FinalizeSession, FinalizeFails, JoinPublish,
         PruneAborted, Abort, Finish, Enter
<1> QED
  BY <1>1, <1>2, <1>3, <1>4, <1>5, <1>6, <1>7, <1>8, <1>9 DEF Next, PhaseStep, Between

----------------------------------------------------------------------------
(* Phase 2.                                                                *)

USE NoneAssumption, PlansAssumption DEF Plan, Modes, Steps, Content, Base

(* What the optimizer agent changed differs from the pinned source.        *)
LEMMA AgentTreesEdit ==
  ASSUME NEW t \in Targets, gen[t] \in Nat, NEW c \in AgentTrees(t), c.tree # c.head
  PROVE  c.tree # Base
<1> DEFINE g == gen[t] + 1
           e == Edited(FreshClone, g)
           k == CommitTree(e)
<1>1. g \in Nat /\ g + 1 \in Nat /\ g # 0 /\ g + 1 # 0
  OBVIOUS
<1>2. c \in {FreshClone, e, k, Edited(k, g + 1)}
  BY DEF AgentTrees, AgentLeaves
<1>3. FreshClone.tree = FreshClone.head
  BY DEF FreshClone
<1> HIDE DEF g
<1>4. e \in Checkout /\ e.tree = g
  BY <1>1, FreshCloneIs, EditedIs
<1> HIDE DEF e
<1>5. k \in Checkout /\ k.tree = k.head
  BY <1>4, CommitTreeIs
<1> HIDE DEF k
<1>6. Edited(k, g + 1).tree = g + 1
  BY <1>1, <1>5, EditedIs
<1> QED
  BY <1>1, <1>2, <1>3, <1>4, <1>5, <1>6

(* A full run's optimizer task only ends with a report that stands for a   *)
(* commit, or that claims none.                                            *)
LEMMA OptimizerLands ==
  ASSUME IInv, FullRun, NEW t \in Targets, OptimizerStep(t), Landing(t)
  PROVE  Landing(t)'
<1> USE DEF IInv, TypeOK, Landing, Move, Implemented, HasChanges, optVars
<1>p. plan' = plan
  BY OptimizerFrame
<1>1. CASE AcquirePermit(t)
  BY <1>1, <1>p DEF AcquirePermit
<1>2. CASE RouteToIssue(t)
  BY <1>2, <1>p DEF RouteToIssue
<1>3. CASE ResumeSkip(t)
  BY <1>3 DEF ResumeSkip
<1>4. CASE TaskFails(t)
  BY <1>4, <1>p DEF TaskFails
<1>5. CASE RecreateCheckout(t)
  BY <1>5, <1>p DEF RecreateCheckout
<1>6. CASE ClearStale(t)
  BY <1>6, <1>p DEF ClearStale
<1>7. CASE InvokeAgent(t)
  <2>1. \A c \in AgentTrees(t) : c.tree # c.head => c.tree # Base
    <3>1. gen[t] \in Nat
      OBVIOUS
    <3> HIDE DEF IInv, TypeOK
    <3> QED
      BY <3>1, AgentTreesEdit
  <2>2. PICK c \in AgentTrees(t) : checkout' = [checkout EXCEPT ![t] = c]
    BY <1>7 DEF InvokeAgent
  <2>3. checkout'[t] = c
    BY <2>2
  <2> QED
    BY <1>7, <1>p, <2>1, <2>3 DEF InvokeAgent
<1>8. CASE NothingToCommit(t)
  BY <1>8, <1>p DEF NothingToCommit, ReportError
<1>9. CASE CommitKept(t)
  <2>1. checkout[t] \in Checkout
    BY <1>9 DEF CommitKept, CloneInv
  <2>2. checkout'[t] = CommitTree(checkout[t])
    BY <1>9 DEF CommitKept
  <2>3. checkout'[t].tree = checkout[t].tree /\ checkout'[t].head = checkout[t].tree
    BY <2>1, <2>2, CommitTreeIs
  <2> QED
    BY <1>9, <1>p, <2>3 DEF CommitKept
<1>10. CASE DemoteUncommitted(t)
  BY <1>10, <1>p DEF DemoteUncommitted, Demote, AbortedReport
<1>11. CASE WriteProvenance(t)
  <2> DEFINE p == [base |-> checkout[t].parent, head |-> checkout[t].head,
                   mode |-> plan[t].mode]
  <2>1. checkout[t] \in Checkout
    BY <1>11 DEF WriteProvenance, VerifyKeptOrDemote, CloneInv
  <2>2. plan[t].mode \in Modes
    OBVIOUS
  <2>3. p # None /\ p.mode = plan[t].mode /\ p.head = checkout[t].head
        /\ p.base = checkout[t].parent
    <3> HIDE DEF IInv, TypeOK, Landing
    <3>1. p \in Provenance
      BY <2>1, <2>2 DEF Checkout, Provenance
    <3> QED
      BY <3>1
  <2>4. prov'[t] = p /\ checkout' = checkout
    BY <1>11 DEF WriteProvenance, VerifyKeptOrDemote
  <2>5. checkout[t].tree = checkout[t].head /\ checkout[t].head # Base /\ ~marker[t]
    BY <1>11 DEF WriteProvenance, VerifyKeptOrDemote
  <2>6. /\ checkout[t].head = p.head /\ checkout[t].parent = p.base
        /\ checkout[t].tree = p.head /\ checkout[t] # None
    BY <2>1, <2>3, <2>5
  <2> HIDE DEF p
  <2>7. Landed(t)'
    BY <1>p, <2>3, <2>4, <2>5, <2>6 DEF Landed, AtHead
  <2> QED
    BY <1>11, <1>p, <2>5, <2>7 DEF WriteProvenance, VerifyKeptOrDemote
<1>12. CASE ProvenanceFails(t)
  BY <1>12, <1>p DEF ProvenanceFails, Demote, AbortedReport
<1> QED
  BY <1>1, <1>2, <1>3, <1>4, <1>5, <1>6, <1>7, <1>8, <1>9, <1>10, <1>11, <1>12
     DEF OptimizerStep

(* Phase 2 of a full run keeps its part of the invariant.                  *)
LEMMA LandingStep ==
  ASSUME IInv, LandingInv, [Next]_sessionVars
  PROVE  LandingInv'
<1> SUFFICES ASSUME FullRun', cmd' = "optimize", NEW u \in Targets
             PROVE  Landing(u)'
  BY DEF LandingInv
<1>0. FullRun
  BY RunContinues
<1>1. ASSUME NEW t \in Targets, OptimizerStep(t) PROVE Landing(u)'
  <2>1. Landing(u)
    BY <1>0, <1>1, OptimizerFrame DEF LandingInv, IInv
  <2>2. CASE u = t
    BY <1>0, <1>1, <2>1, <2>2, OptimizerLands
  <2>3. CASE u # t
    BY <1>1, <2>1, <2>3, OptimizerFrame
       DEF IInv, Landing, Landed, AtHead, BuiltUpon, Implemented, HasChanges
  <2> QED
    BY <2>2, <2>3
<1>2. ASSUME Elsewhere("optimize") PROVE Landing(u)'
  BY <1>2 DEF Elsewhere, Landing
<1>3. CASE UNCHANGED sessionVars
  BY <1>0, <1>3 DEF sessionVars, vars, procVars, optVars, LandingInv, Landing, Landed,
                    AtHead, BuiltUpon, Implemented, HasChanges
<1> QED
  BY <1>1, <1>2, <1>3, RunContinues, BenchElsewhere, AnalyzerElsewhere, PublishElsewhere,
     PhaseElsewhere DEF Between

----------------------------------------------------------------------------
(* The phases after it.                                                    *)

(* Once landed, a target stays landed for the rest of the run.             *)
LEMMA LandedStep ==
  ASSUME IInv, LandingInv, LandedInv, [Next]_sessionVars
  PROVE  LandedInv'
<1> SUFFICES ASSUME FullRun', cmd' \in PastOptimize, NEW u \in Targets
             PROVE  Kept(u)'
  BY DEF LandedInv
<1> USE DEF PastOptimize
<1>0. FullRun
  BY RunContinues
<1>k. ASSUME cmd \in PastOptimize, UNCHANGED <<plan, report, prov, marker>>,
             cmd \in {"generate", "push", "cleanup"} => cmd' \in {"generate", "push", "cleanup"},
             \/ checkout'[u] = checkout[u]
             \/ /\ cmd' \in {"generate", "push"}
                /\ checkout[u] # None =>
                     /\ checkout'[u] # None /\ checkout'[u].by = "writer"
                     /\ Ancestors(checkout[u]) \subseteq Ancestors(checkout'[u])
      PROVE  Kept(u)'
  <2>1. Kept(u) /\ plan' = plan /\ prov' = prov /\ marker' = marker
        /\ Implemented(u)' = Implemented(u)
    BY <1>0, <1>k DEF LandedInv, Implemented
  <2>2. ASSUME Landed(u) PROVE Landed(u)'
    <3>1. CASE checkout'[u] = checkout[u]
      BY <1>k, <2>1, <2>2, <3>1 DEF Landed, AtHead, BuiltUpon
    <3>2. CASE checkout'[u] # checkout[u]
      <4>1. prov[u].head \in Ancestors(checkout[u])
        BY <2>2 DEF Landed, AtHead, BuiltUpon, Ancestors
      <4>2. checkout'[u] # None /\ BuiltUpon(checkout'[u], prov[u].head)
        BY <1>k, <2>2, <3>2, <4>1 DEF Landed, BuiltUpon
      <4> QED
        BY <1>k, <2>1, <2>2, <3>2, <4>2 DEF Landed
    <3> QED
      BY <3>1, <3>2
  <2> QED
    BY <2>1, <2>2 DEF Kept
<1>1. ASSUME NEW t \in Targets, OptimizerStep(t) PROVE Kept(u)'
  BY <1>1, OptimizerFrame DEF IInv
<1>2. ASSUME NEW t \in Targets, BenchStep(t) PROVE Kept(u)'
  BY <1>2, <1>k, BenchFrame DEF IInv
<1>3. ASSUME NEW t \in Targets, AnalyzerStep(t) PROVE Kept(u)'
  BY <1>3, <1>k, AnalyzerFrame
<1>4. ASSUME NEW t \in Targets, PublishStep(t) PROVE Kept(u)'
  <2>0. /\ cmd \in {"generate", "push"} /\ cmd' = cmd
        /\ UNCHANGED <<plan, report, prov, marker>>
    BY <1>4, PublishFrame
  <2>1. CASE CommitForPush(t)
    <3>1. Kept(t) /\ checkout[t] \in Checkout
      BY <1>0, <2>1 DEF LandedInv, CommitForPush, IInv, TypeOK
    <3>2. u # t \/ checkout[t].tree = checkout[t].head => checkout'[u] = checkout[u]
      BY <2>1 DEF CommitForPush, IInv, TypeOK
    <3>3. u = t /\ checkout[t].tree # checkout[t].head
          => checkout'[u] = CommitTree(checkout[u])
      BY <2>1 DEF CommitForPush, IInv, TypeOK
    <3>4. CASE checkout'[u] = checkout[u]
      BY <1>k, <2>0, <3>4
    <3>5. CASE checkout'[u] # checkout[u]
      <4>1. u = t /\ checkout[u].tree # checkout[u].head
            /\ checkout'[u] = CommitTree(checkout[u])
        BY <3>2, <3>3, <3>5
      <4>2. /\ CommitTree(checkout[u]) # None
            /\ CommitTree(checkout[u]).by = checkout[u].by
            /\ Ancestors(checkout[u]) \subseteq Ancestors(CommitTree(checkout[u]))
        BY <3>1, <4>1, CommitTreeIs
      <4>3. Landed(u) => checkout[u].by = "writer"
        BY <4>1 DEF Landed, AtHead, BuiltUpon
      <4>4. CASE checkout[u].by = "writer"
        BY <1>k, <2>0, <4>1, <4>2, <4>4
      <4>5. CASE ~Landed(u)
        BY <2>0, <3>1, <4>1, <4>5 DEF Kept, Implemented
      <4> QED
        BY <4>3, <4>4, <4>5
    <3> QED
      BY <3>4, <3>5
  <2>2. CASE WritePrText(t)
    <3>1. PICK c \in WriterLeaves(t) : checkout' = [checkout EXCEPT ![t] = c]
      BY <2>2 DEF WritePrText
    <3>2. /\ c = None <=> checkout[t] = None
          /\ c = checkout[t]
             \/ (c.by = "writer" /\ Ancestors(checkout[t]) \subseteq Ancestors(c))
      BY WriterLeavesClone DEF IInv
    <3>3. checkout'[u] = IF u = t THEN c ELSE checkout[u]
      BY <3>1 DEF IInv, TypeOK
    <3> QED
      BY <1>k, <2>0, <3>2, <3>3
  <2>3. CASE UNCHANGED checkout
    BY <2>0, <2>3, <1>k
  <2> QED
    BY <1>4, <2>1, <2>2, <2>3 DEF PublishStep, HoldTarget, WriteIssueText,
       WriterRefuses, SkipPush,
       AlreadyPublished, PushFails, PushBranch, CreatePr, AddLabels, CreateIssue,
       WriteFeedback, optVars
<1>5. CASE Between
  <2>1. CASE cmd \in PastOptimize
    BY <1>0, <1>5, <1>k, <2>1, BetweenFrame
  <2>2. CASE cmd = "optimize" /\ JoinOptimizers /\ cmd' = "build"
    <3>1. task[u] = "done" /\ Landing(u)
      BY <1>0, <2>2 DEF JoinOptimizers, AllHandled, Handled, Abort, Enter, LandingInv,
         Landing
    <3> QED
      BY <1>0, <1>5, <2>2, <3>1, BetweenFrame
         DEF Landing, Kept, Landed, AtHead, Implemented
  <2> QED
    BY <1>0, <1>5, <2>1, <2>2, BetweenFrame
<1>6. CASE UNCHANGED sessionVars
  BY <1>6, <1>k DEF sessionVars, vars, procVars, optVars
<1> QED
  BY <1>1, <1>2, <1>3, <1>4, <1>5, <1>6, RunContinues

----------------------------------------------------------------------------
(* Measurements.                                                           *)

(* Baseline files only ever hold runs of the pinned source.                *)
LEMMA CalibrationStep ==
  ASSUME IInv, CalibrationInv, [Next]_sessionVars
  PROVE  CalibrationInv'
<1> USE DEF CalibrationInv
<1>e. Measures(NoIds, Base)
  BY DEF Measures, NoIds, Covered
<1>k. ASSUME UNCHANGED baseIds, cmd' = "calibrate" => UNCHANGED <<cmd, acc>> \/ acc' = Empty
      PROVE  CalibrationInv'
  BY <1>k, <1>e DEF Empty
<1>1. ASSUME NEW t \in Targets, OptimizerStep(t) PROVE CalibrationInv'
  BY <1>1, <1>k, OptimizerFrame DEF IInv
<1>2. ASSUME NEW t \in Targets, BenchStep(t) PROVE CalibrationInv'
  <2>1. CASE Calibrate(t)
    <3>1. PICK i \in plan[t].vr \ Covered(acc[t]) :
            acc' = [acc EXCEPT ![t] =
                     [@ EXCEPT ![i] = [n |-> nrun[t] + 1, of |-> Base]]]
      BY <2>1 DEF Calibrate, RunInvocation
    <3>2. \A u \in Targets : acc[u] \in IdMap /\ acc'[u] \in [Invocations -> RunId \cup {None}]
      BY <3>1 DEF IInv, TypeOK, IdMap, RunId
    <3>3. Measures(acc'[t], Base)
      BY <2>1, <3>1, <3>2 DEF Calibrate, Measures, Covered, IInv, TypeOK, IdMap
    <3>4. \A u \in Targets \ {t} : acc'[u] = acc[u]
      BY <3>1 DEF IInv, TypeOK
    <3> QED
      BY <2>1, <3>3, <3>4 DEF Calibrate, benchVars
  <2>2. CASE WriteBaselineIds(t)
    BY <2>2 DEF WriteBaselineIds, Move, IInv, TypeOK
  <2>3. CASE SkipCalibration(t) \/ SkipBuild(t) \/ BuildCandidate(t) \/ BenchCandidate(t)
             \/ WriteCandidateIds(t)
    BY <2>3, <1>k DEF SkipCalibration, SkipBuild, BuildCandidate, BenchCandidate,
       WriteCandidateIds, RunInvocation, Move, Abort, Enter, benchVars
  <2> QED
    BY <1>2, <2>1, <2>2, <2>3 DEF BenchStep
<1>3. ASSUME NEW t \in Targets, AnalyzerStep(t) PROVE CalibrationInv'
  BY <1>3, <1>k, AnalyzerFrame
<1>4. ASSUME NEW t \in Targets, PublishStep(t) PROVE CalibrationInv'
  BY <1>4, <1>k, PublishFrame
<1>5. CASE Between
  <2>1. UNCHANGED baseIds /\ (cmd' = "calibrate" => acc' = Empty)
    BY <1>5 DEF Between, Merge, JoinOptimizers, StartBench, JoinBench, BenchFails,
       RejectReports, JoinAnalyzers, FinalizeSession, FinalizeFails, JoinPublish,
       PruneAborted, Abort, Finish, Enter, benchVars
  <2> QED
    BY <2>1, <1>k
<1>6. ASSUME NEW c \in Commands, Start(c) PROVE CalibrationInv'
  <2>1. UNCHANGED baseIds /\ acc' = Empty
    BY <1>6 DEF Start, benchVars, IInv, IdleInv
  <2> QED
    BY <2>1, <1>k
<1>7. ASSUME NEW c \in Cleans, Clean(c) PROVE CalibrationInv'
  <2>1. cmd' = "idle" /\ (baseIds' = baseIds \/ baseIds' = Empty)
    BY <1>7 DEF Clean, OptimizeClean, BenchClean, AnalyzeClean, FinalizeClean, PublishClean,
                procVars, benchVars
  <2> QED
    BY <2>1, <1>e DEF Empty
<1>8. CASE Crash
  BY <1>8, <1>k DEF Crash, Abort, Enter, benchVars
<1>9. CASE UNCHANGED sessionVars
  BY <1>9, <1>k DEF sessionVars, vars, procVars, benchVars
<1> QED
  BY <1>1, <1>2, <1>3, <1>4, <1>5, <1>6, <1>7, <1>8, <1>9 DEF Next, PhaseStep, Between

(* Phase 3 of a full run builds and measures what landed.                  *)
LEMMA MeasuringStep ==
  ASSUME IInv, LandedInv, MeasuringInv, [Next]_sessionVars
  PROVE  MeasuringInv'
<1> SUFFICES ASSUME FullRun', cmd' \in {"build", "bench"}, NEW u \in Targets
             PROVE  Measuring(u)'
  BY DEF MeasuringInv
<1>0. FullRun
  BY RunContinues
<1>1. ASSUME NEW t \in Targets, OptimizerStep(t) PROVE Measuring(u)'
  BY <1>1, OptimizerFrame DEF IInv
<1>2. ASSUME NEW t \in Targets, BenchStep(t) PROVE Measuring(u)'
  <2> USE DEF IInv, TypeOK, Move, optVars, benchVars
  <2>0. cmd' = cmd /\ Measuring(u) /\ UNCHANGED <<plan, report, prov, marker>>
    BY <1>0, <1>2, BenchFrame DEF MeasuringInv
  <2>s. SkipBench(u) => SkipBench(u)'
    BY <2>0 DEF SkipBench, Implemented
  <2>1. CASE Calibrate(t) \/ WriteBaselineIds(t) \/ SkipCalibration(t)
    BY <2>0, <2>1 DEF Calibrate, WriteBaselineIds, SkipCalibration
  <2>2. CASE SkipBuild(t)
    BY <2>0, <2>2, <2>s DEF SkipBuild, Measuring
  <2>3. CASE BuildCandidate(t)
    <3>1. task' = [task EXCEPT ![t] = "done"] /\ acc' = acc
      BY <2>0, <2>3 DEF BuildCandidate, Abort, Enter
    <3>2. checkout[t].tree = prov[t].head
      <4>1. Kept(t) /\ Implemented(t) /\ plan[t].mode = "normal_pr"
        BY <1>0, <2>3 DEF BuildCandidate, SkipBench, LandedInv, PastOptimize
      <4> QED
        BY <2>3, <4>1 DEF Kept, Landed, AtHead, BuildCandidate
    <3>3. bin' = [bin EXCEPT ![t] = prov[t].head]
      BY <2>3, <3>2 DEF BuildCandidate
    <3> QED
      BY <2>0, <2>3, <2>s, <3>1, <3>3 DEF BuildCandidate, Measuring
  <2>4. CASE BenchCandidate(t)
    <3>1. PICK i \in plan[t].vr \ Covered(acc[t]) :
            acc' = [acc EXCEPT ![t] =
                     [@ EXCEPT ![i] = [n |-> nrun[t] + 1, of |-> bin[t]]]]
      BY <2>4 DEF BenchCandidate, RunInvocation
    <3>2. u # t => acc'[u] = acc[u] /\ task'[u] = task[u]
      BY <2>4, <3>1 DEF BenchCandidate, RunInvocation
    <3>3. u = t => task[u] # "skipped" /\ task'[u] = "ready"
      BY <2>4 DEF BenchCandidate, RunInvocation
    <3>4. u = t => Measures(acc'[u], prov[u].head)
      BY <2>0, <2>4, <3>1, <3>3 DEF BenchCandidate, Measuring, Measures, Covered, IdMap
    <3> QED
      BY <2>0, <2>4, <2>s, <3>2, <3>3, <3>4 DEF BenchCandidate, Measuring
  <2>5. CASE WriteCandidateIds(t)
    BY <2>0, <2>5, <2>s DEF WriteCandidateIds, Gathered, Measuring
  <2> QED
    BY <1>2, <2>1, <2>2, <2>3, <2>4, <2>5 DEF BenchStep
<1>3. ASSUME NEW t \in Targets, AnalyzerStep(t) PROVE Measuring(u)'
  BY <1>3, AnalyzerFrame
<1>4. ASSUME NEW t \in Targets, PublishStep(t) PROVE Measuring(u)'
  BY <1>4, PublishFrame
<1>5. CASE Between
  <2>1. CASE cmd = "optimize" /\ JoinOptimizers /\ cmd' = "build"
    BY <2>1 DEF JoinOptimizers, Abort, Finish, Enter, Empty, Measuring
  <2>2. CASE cmd = "build" /\ StartBench /\ cmd' = "bench"
    <3>1. Measuring(u) /\ Handled(u)
      BY <1>0, <2>2 DEF MeasuringInv, StartBench, AllHandled
    <3>2. task'[u] = IF task[u] = "skipped" THEN "skipped" ELSE "queued"
      BY <2>2 DEF StartBench
    <3>3. Measures(NoIds, prov[u].head)
      BY DEF Measures, NoIds, Covered
    <3>4. SkipBench(u) => SkipBench(u)'
      BY <2>2 DEF StartBench, optVars, SkipBench, Implemented
    <3> QED
      BY <2>2, <3>1, <3>2, <3>3, <3>4 DEF StartBench, optVars, benchVars, Measuring, Handled
  <2> QED
    BY <1>0, <1>5, <2>1, <2>2, BetweenFrame DEF PastOptimize
<1>6. CASE UNCHANGED sessionVars
  BY <1>0, <1>6 DEF sessionVars, vars, procVars, optVars, benchVars, MeasuringInv,
     Measuring,
                    SkipBench, Implemented
<1> QED
  BY <1>1, <1>2, <1>3, <1>4, <1>5, <1>6, RunContinues

(* The phases after Phase 3 read the run ids of the landed commit.         *)
LEMMA MeasuredStep ==
  ASSUME IInv, LandedInv, MeasuringInv, MeasuredInv, [Next]_sessionVars
  PROVE  MeasuredInv'
<1> SUFFICES ASSUME FullRun', cmd' \in {"analyze", "finalize", "generate", "push"},
                    NEW u \in Targets
             PROVE  Measured(u)'
  BY DEF MeasuredInv
<1>0. FullRun
  BY RunContinues
<1>k. ASSUME cmd \in {"analyze", "finalize", "generate", "push"},
             UNCHANGED <<plan, report, prov, candIds>>
      PROVE  Measured(u)'
  BY <1>0, <1>k DEF MeasuredInv, Measured, Implemented
<1>1. ASSUME NEW t \in Targets, OptimizerStep(t) PROVE Measured(u)'
  BY <1>1, OptimizerFrame DEF IInv
<1>2. ASSUME NEW t \in Targets, BenchStep(t) PROVE Measured(u)'
  BY <1>2, BenchFrame DEF IInv
<1>3. ASSUME NEW t \in Targets, AnalyzerStep(t) PROVE Measured(u)'
  BY <1>3, <1>k, AnalyzerFrame
<1>4. ASSUME NEW t \in Targets, PublishStep(t) PROVE Measured(u)'
  BY <1>4, <1>k, PublishFrame
<1>5. CASE Between
  <2>1. CASE cmd \in {"analyze", "finalize", "generate", "push"}
    BY <1>0, <1>5, <1>k, <2>1, BetweenFrame DEF PastOptimize
  <2>2. CASE cmd = "bench" /\ JoinBench /\ cmd' = "analyze"
    <3>1. Handled(u) /\ Measuring(u) /\ Kept(u)
      BY <1>0, <2>2 DEF JoinBench, AllHandled, MeasuringInv, LandedInv, PastOptimize
    <3>2. UNCHANGED <<plan, report, prov, candIds>>
      BY <1>0, <1>5, BetweenFrame DEF PastOptimize
    <3>3. plan[u].mode = "normal_pr" /\ Implemented(u) => ~SkipBench(u)
      BY <3>1 DEF Kept, SkipBench
    <3> QED
      BY <2>2, <3>1, <3>2, <3>3 DEF Measuring, Measured, Handled, Implemented
  <2> QED
    BY <1>0, <1>5, <2>1, <2>2, BetweenFrame DEF PastOptimize
<1>6. CASE UNCHANGED sessionVars
  BY <1>6, <1>k DEF sessionVars, vars, procVars, optVars, benchVars
<1> QED
  BY <1>1, <1>2, <1>3, <1>4, <1>5, <1>6, RunContinues

----------------------------------------------------------------------------
(* Rows and pull requests.                                                 *)

(* A row finalize accepts in a full run is evidence about what landed.     *)
LEMMA AcceptedRow ==
  ASSUME IInv, CalibrationInv, LandedInv, MeasuredInv, FullRun, FinalizeSession,
         NEW t \in Targets, EvaluateTarget(t).status = "accepted"
  PROVE  /\ plan[t].mode = "normal_pr" /\ Implemented(t)
         /\ EvaluateTarget(t).headSha = prov[t].head
         /\ Evidence(EvaluateTarget(t))
<1>1. plan[t].mode = "normal_pr" /\ Implemented(t) /\ Covered(candIds[t]) = plan[t].vr
  <2>1. Status(t) = "accepted"
    BY DEF EvaluateTarget
  <2>2. plan[t].mode \in Modes
    BY DEF IInv, TypeOK
  <2> QED
    BY <2>1, <2>2 DEF Status, BenchStatus
<1>2. Covered(baseIds[t]) = plan[t].vr
  BY <1>1 DEF FinalizeSession, EvaluateError
<1>3. prov[t] # None
  BY <1>1 DEF FinalizeSession, LandedInv, PastOptimize, Kept, Landed
<1>4. Measures(candIds[t], prov[t].head) /\ Measures(baseIds[t], Base)
  BY <1>1 DEF FinalizeSession, MeasuredInv, Measured, CalibrationInv
<1>5. /\ EvaluateTarget(t).cand = candIds[t]
      /\ EvaluateTarget(t).base = baseIds[t]
      /\ EvaluateTarget(t).headSha = prov[t].head
  BY <1>1, <1>3 DEF EvaluateTarget
<1>6. candIds[t] # NoIds
  <2>1. plan[t].vr # {}
    BY <1>1 DEF IInv, TypeOK
  <2>2. Covered(NoIds) = {}
    BY DEF Covered, NoIds
  <2> QED
    BY <1>1, <2>1, <2>2
<1> QED
  BY <1>1, <1>2, <1>4, <1>5, <1>6 DEF Evidence

(* Phase 5 of a full run ships accepted rows only.                         *)
LEMMA ShippingStep ==
  ASSUME IInv, CalibrationInv, LandedInv, MeasuredInv, ShippingInv, [Next]_sessionVars
  PROVE  ShippingInv'
<1> SUFFICES ASSUME FullRun', cmd' \in {"generate", "push"}, NEW u \in Targets
             PROVE  Shipping(u)'
  BY DEF ShippingInv
<1>0. FullRun
  BY RunContinues
<1>1. ASSUME NEW t \in Targets, OptimizerStep(t) PROVE Shipping(u)'
  BY <1>1, OptimizerFrame DEF IInv
<1>2. ASSUME NEW t \in Targets, BenchStep(t) PROVE Shipping(u)'
  BY <1>2, BenchFrame DEF IInv
<1>3. ASSUME NEW t \in Targets, AnalyzerStep(t) PROVE Shipping(u)'
  BY <1>3, AnalyzerFrame
<1>4. ASSUME NEW t \in Targets, PublishStep(t) PROVE Shipping(u)'
  <2> USE DEF IInv, TypeOK, Move, optVars, githubVars
  <2>0. /\ cmd' = cmd /\ Shipping(u)
        /\ UNCHANGED <<plan, report, prov, summary>>
        /\ Implemented(u)' = Implemented(u)
    BY <1>0, <1>4, PublishFrame DEF ShippingInv, Implemented
  <2>1. CASE HoldTarget(t)
    BY <2>0, <2>1 DEF HoldTarget, Shipping, Handled
  <2>2. CASE WritePrText(t) \/ WriteIssueText(t)
    <3>1. task' = [task EXCEPT ![t] = "done"] /\ pub' = [pub EXCEPT ![t] = TextKind(t)]
      BY <2>0, <2>2 DEF WritePrText, WriteIssueText, WriteTextOf, Abort, Enter
    <3>2. cmd = "generate" /\ (plan[t].mode = "normal_pr" => summary[t].status = "accepted")
      BY <2>2 DEF WritePrText, WriteIssueText, ShipDecision
    <3> QED
      BY <2>0, <3>1, <3>2 DEF Shipping, Handled
  <2>3. CASE WriterRefuses(t)
    BY <2>0, <2>3 DEF WriterRefuses, Abort, Enter
  <2>4. CASE SkipPush(t) \/ AlreadyPublished(t) \/ PushFails(t)
    BY <2>0, <2>4 DEF SkipPush, AlreadyPublished, PushFails, Shipping, Handled
  <2>5. CASE CommitForPush(t)
    BY <2>0, <2>5 DEF CommitForPush, Shipping, Handled
  <2>6. CASE PushBranch(t)
    BY <2>0, <2>6 DEF PushBranch, Shipping, Handled
  <2>7. CASE CreatePr(t) \/ AddLabels(t) \/ CreateIssue(t) \/ WriteFeedback(t)
    BY <2>0, <2>7 DEF CreatePr, AddLabels, CreateIssue, WriteFeedback, Shipping, Handled
  <2> QED
    BY <1>4, <2>1, <2>2, <2>3, <2>4, <2>5, <2>6, <2>7 DEF PublishStep
<1>5. CASE Between
  <2>f. UNCHANGED <<plan, checkout, report, prov, pub, branch>>
    BY <1>0, <1>5, BetweenFrame DEF PastOptimize, githubVars
  <2>1. CASE FinalizeSession /\ cmd' = "generate"
    <3>1. summary'[u] = EvaluateTarget(u) /\ task'[u] = "queued"
      BY <2>1 DEF FinalizeSession, Finish, Enter
    <3>2. summary' # None
      <4>1. summary' \in [Targets -> Row]
        BY <2>1, RowType DEF FinalizeSession, IInv
      <4> QED
        BY <4>1
    <3> QED
      BY <1>0, <2>1, <2>f, <3>1, <3>2, AcceptedRow DEF Shipping, Handled, Implemented
  <2>2. CASE cmd = "generate" /\ JoinPublish /\ cmd' = "push" /\ UNCHANGED summary
    <3>1. Handled(u) /\ Shipping(u)
      BY <1>0, <2>2 DEF JoinPublish, AllHandled, ShippingInv
    <3>2. task'[u] = "queued"
      BY <2>2 DEF JoinPublish, Finish, Enter
    <3> QED
      BY <2>2, <2>f, <3>1, <3>2 DEF Shipping, Implemented
  <2> QED
    BY <1>0, <1>5, <2>1, <2>2, BetweenFrame DEF PastOptimize
<1>6. CASE UNCHANGED sessionVars
  BY <1>0, <1>6 DEF sessionVars, vars, procVars, optVars, githubVars, ShippingInv, Shipping,
                    Handled, Implemented
<1> QED
  BY <1>1, <1>2, <1>3, <1>4, <1>5, <1>6, RunContinues

----------------------------------------------------------------------------
(* Run ids.                                                                *)

(* The empty file shares nothing and is of one build.                      *)
LEMMA NoIdsFacts ==
  /\ Covered(NoIds) = {}
  /\ OneBuild(NoIds)
  /\ \A ids : NoSharedRun(NoIds, ids) /\ NoSharedRun(ids, NoIds)
  /\ \A c : Measures(NoIds, c)
<1>1. Covered(NoIds) = {}
  BY DEF Covered, NoIds
<1> QED
  BY <1>1 DEF OneBuild, NoSharedRun, Measures

(* A run that is added to a loop's ids has an id no file holds.            *)
LEMMA FreshRun ==
  ASSUME TypeOK, NEW t \in Targets, NEW c \in Nat, FreshIds(t), RunInvocation(t, c),
         UNCHANGED <<candIds, baseIds>>
  PROVE  /\ \A ids \in {acc'[t], candIds[t], baseIds[t]} :
              \A i \in Covered(ids) : ids[i].n <= nrun'[t]
         /\ NoSharedRun(acc'[t], candIds[t]) /\ NoSharedRun(acc'[t], baseIds[t])
         /\ Measures(acc[t], c) => Measures(acc'[t], c)
         /\ \A u \in Targets \ {t} : acc'[u] = acc[u] /\ nrun'[u] = nrun[u]
<1> DEFINE r == [n |-> nrun[t] + 1, of |-> c]
<1>1. PICK k \in plan[t].vr \ Covered(acc[t]) :
        acc' = [acc EXCEPT ![t] = [@ EXCEPT ![k] = r]]
  BY DEF RunInvocation
<1>2. nrun' = [nrun EXCEPT ![t] = nrun[t] + 1] /\ nrun[t] \in Nat /\ nrun'[t] = nrun[t] + 1
  BY DEF RunInvocation, TypeOK
<1>3. k \in Invocations
  BY DEF TypeOK
<1>4. /\ acc[t] \in IdMap
      /\ \A i \in Invocations : acc'[t][i] = IF i = k THEN r ELSE acc[t][i]
  BY <1>1, <1>3 DEF TypeOK, IdMap
<1>5. \A u \in Targets \ {t} : acc'[u] = acc[u] /\ nrun'[u] = nrun[u]
  BY <1>1, <1>2 DEF TypeOK
<1>6. \A ids \in {acc[t], candIds[t], baseIds[t]} :
        \A i \in Covered(ids) : ids[i].n \in Nat /\ ids[i].n <= nrun[t]
  BY DEF FreshIds, TypeOK, IdMap, RunId, Covered
<1>7. task[t] # "done"
  BY DEF RunInvocation
<1>8. r.n = nrun[t] + 1 /\ r.of = c
  OBVIOUS
<1> HIDE DEF r
<1>9. \A i \in Covered(acc'[t]) : (i = k /\ acc'[t][i] = r)
                                  \/ (i \in Covered(acc[t]) /\ acc'[t][i] = acc[t][i])
  BY <1>3, <1>4 DEF Covered
<1>10. \A ids \in {acc'[t], candIds[t], baseIds[t]} :
         \A i \in Covered(ids) : ids[i].n <= nrun'[t]
  BY <1>2, <1>6, <1>8, <1>9
<1>11. NoSharedRun(acc'[t], candIds[t]) /\ NoSharedRun(acc'[t], baseIds[t])
  <2>1. NoSharedRun(acc[t], candIds[t]) /\ NoSharedRun(acc[t], baseIds[t])
    BY <1>7 DEF FreshIds
  <2> QED
    BY <2>1, <1>2, <1>6, <1>8, <1>9 DEF NoSharedRun
<1>12. Measures(acc[t], c) => Measures(acc'[t], c)
  BY <1>8, <1>9 DEF Measures
<1> QED
  BY <1>5, <1>10, <1>11, <1>12

(* Steps that leave the run ids alone.                                     *)
LEMMA FreshFrame ==
  ASSUME TypeOK, FreshIdsInv,
         candIds' \in {candIds, Empty}, baseIds' \in {baseIds, Empty}, UNCHANGED nrun,
         \/ acc' = Empty
         \/ /\ UNCHANGED <<acc, cmd, bin>>
            /\ \A t \in Targets : task[t] = "done" => task'[t] = "done"
  PROVE  FreshIdsInv'
<1> SUFFICES ASSUME NEW u \in Targets PROVE FreshIds(u)'
  BY DEF FreshIdsInv
<1>1. /\ acc'[u] \in {acc[u], NoIds}
      /\ candIds'[u] \in {candIds[u], NoIds}
      /\ baseIds'[u] \in {baseIds[u], NoIds}
      /\ nrun'[u] = nrun[u]
  BY DEF Empty
<1>2. FreshIds(u)
  BY DEF FreshIdsInv
<1>3. acc'[u] = NoIds \/ (acc'[u] = acc[u] /\ cmd' = cmd /\ bin'[u] = bin[u]
                          /\ (task[u] = "done" => task'[u] = "done"))
  BY DEF Empty
<1> QED
  BY <1>1, <1>2, <1>3, NoIdsFacts DEF FreshIds

(* Run ids stay fresh.                                                     *)
LEMMA FreshIdsStep ==
  ASSUME IInv, FreshIdsInv, [Next]_sessionVars
  PROVE  FreshIdsInv'
<1> USE DEF IInv
<1>1. ASSUME NEW t \in Targets, OptimizerStep(t) PROVE FreshIdsInv'
  <2>1. \A u \in Targets : task[u] = "done" => task'[u] = "done"
    BY <1>1, OptimizerFrame
  <2> QED
    BY <1>1, <2>1, OptimizerFrame, FreshFrame
<1>2. ASSUME NEW t \in Targets, BenchStep(t) PROVE FreshIdsInv'
  <2> USE DEF TypeOK, optVars, benchVars
  <2>1. CASE Calibrate(t)
    <3>1. RunInvocation(t, Base) /\ UNCHANGED <<candIds, baseIds, bin>> /\ Base \in Nat
      BY <2>1 DEF Calibrate
    <3>2. FreshIds(t)
      BY DEF FreshIdsInv
    <3>3. /\ \A ids \in {acc'[t], candIds[t], baseIds[t]} :
               \A i \in Covered(ids) : ids[i].n <= nrun'[t]
          /\ NoSharedRun(acc'[t], candIds[t]) /\ NoSharedRun(acc'[t], baseIds[t])
          /\ Measures(acc[t], Base) => Measures(acc'[t], Base)
          /\ \A u \in Targets \ {t} : acc'[u] = acc[u] /\ nrun'[u] = nrun[u]
      BY <3>1, <3>2, FreshRun
    <3>4. cmd' = cmd /\ \A u \in Targets \ {t} : task'[u] = task[u]
      BY <3>1 DEF RunInvocation
    <3>5. FreshIds(t)'
      BY <2>1, <3>1, <3>2, <3>3, <3>4 DEF Calibrate, FreshIds
    <3>6. ASSUME NEW u \in Targets \ {t} PROVE FreshIds(u)'
      <4>1. FreshIds(u)
        BY DEF FreshIdsInv
      <4> QED
        BY <3>1, <3>3, <3>4, <4>1 DEF FreshIds
    <3> QED
      BY <3>5, <3>6 DEF FreshIdsInv
  <2>2. CASE WriteBaselineIds(t)
    BY <2>2 DEF WriteBaselineIds, Gathered, Move, FreshIdsInv, FreshIds, NoSharedRun
  <2>3. CASE SkipCalibration(t) \/ SkipBuild(t)
    BY <2>3, FreshFrame DEF SkipCalibration, SkipBuild, Move
  <2>4. CASE BuildCandidate(t)
    BY <2>4, FreshFrame DEF BuildCandidate, Move, Abort, Enter, FreshIdsInv, FreshIds
  <2>5. CASE BenchCandidate(t)
    <3>1. RunInvocation(t, bin[t]) /\ UNCHANGED <<candIds, baseIds, bin>> /\ bin[t] \in Nat
      BY <2>5 DEF BenchCandidate
    <3>2. FreshIds(t)
      BY DEF FreshIdsInv
    <3>3. /\ \A ids \in {acc'[t], candIds[t], baseIds[t]} :
               \A i \in Covered(ids) : ids[i].n <= nrun'[t]
          /\ NoSharedRun(acc'[t], candIds[t]) /\ NoSharedRun(acc'[t], baseIds[t])
          /\ Measures(acc[t], bin[t]) => Measures(acc'[t], bin[t])
          /\ \A u \in Targets \ {t} : acc'[u] = acc[u] /\ nrun'[u] = nrun[u]
      BY <3>1, <3>2, FreshRun
    <3>4. cmd' = cmd /\ \A u \in Targets \ {t} : task'[u] = task[u]
      BY <3>1 DEF RunInvocation
    <3>5. FreshIds(t)'
      BY <2>5, <3>1, <3>2, <3>3, <3>4 DEF BenchCandidate, FreshIds
    <3>6. ASSUME NEW u \in Targets \ {t} PROVE FreshIds(u)'
      <4>1. FreshIds(u)
        BY DEF FreshIdsInv
      <4> QED
        BY <3>1, <3>3, <3>4, <4>1 DEF FreshIds
    <3> QED
      BY <3>5, <3>6 DEF FreshIdsInv
  <2>6. CASE WriteCandidateIds(t)
    BY <2>6 DEF WriteCandidateIds, Gathered, Move, FreshIdsInv, FreshIds, NoSharedRun,
                OneBuild, Measures
  <2> QED
    BY <1>2, <2>1, <2>2, <2>3, <2>4, <2>5, <2>6 DEF BenchStep
<1>3. ASSUME NEW t \in Targets, AnalyzerStep(t) PROVE FreshIdsInv'
  <2>1. \A u \in Targets : task[u] = "done" => task'[u] = "done"
    BY <1>3 DEF AnalyzerStep, SkipAnalysis, Analyze, Move, TypeOK
  <2> QED
    BY <1>3, <2>1, AnalyzerFrame, FreshFrame
<1>4. ASSUME NEW t \in Targets, PublishStep(t) PROVE FreshIdsInv'
  <2>1. acc' = Empty \/ \A u \in Targets : task[u] = "done" => task'[u] = "done"
    BY <1>4 DEF PublishStep, HoldTarget, WritePrText, WriteIssueText, WriteTextOf,
       WriterRefuses, SkipPush,
       AlreadyPublished, PushFails, CommitForPush, PushBranch, CreatePr, AddLabels,
       CreateIssue, WriteFeedback, Move, Abort, Enter, TypeOK
  <2> QED
    BY <1>4, <2>1, PublishFrame, FreshFrame
<1>5. CASE StartBench
  BY <1>5, NoIdsFacts DEF StartBench, benchVars, FreshIdsInv, FreshIds, TypeOK
<1>6. CASE Between /\ ~StartBench
  <2>1. acc' = Empty /\ UNCHANGED <<candIds, baseIds, nrun>>
    BY <1>6 DEF Between, Merge, JoinOptimizers, JoinBench, BenchFails, RejectReports,
       JoinAnalyzers, FinalizeSession, FinalizeFails, JoinPublish, PruneAborted, Abort,
       Finish, Enter, benchVars
  <2> QED
    BY <2>1, FreshFrame
<1>7. ASSUME NEW c \in Commands, Start(c) PROVE FreshIdsInv'
  BY <1>7, FreshFrame DEF Start, benchVars, IdleInv
<1>8. ASSUME NEW c \in Cleans, Clean(c) PROVE FreshIdsInv'
  <2>1. /\ acc' = Empty /\ UNCHANGED nrun
        /\ candIds' \in {candIds, Empty} /\ baseIds' \in {baseIds, Empty}
    BY <1>8 DEF Clean, OptimizeClean, BenchClean, AnalyzeClean, FinalizeClean, PublishClean,
                procVars, benchVars, IdleInv
  <2> QED
    BY <2>1, FreshFrame
<1>9. CASE Crash
  BY <1>9, FreshFrame DEF Crash, Abort, Enter, benchVars
<1>10. CASE UNCHANGED sessionVars
  BY <1>10, FreshFrame DEF sessionVars, vars, procVars, benchVars
<1> QED
  BY <1>1, <1>2, <1>3, <1>4, <1>5, <1>6, <1>7, <1>8, <1>9, <1>10 DEF Next, PhaseStep,
     Between

(* The rows finalize writes inherit it.                                    *)
LEMMA RowsStep ==
  ASSUME IInv, FreshIdsInv, OneBuildPerRow, [Next]_sessionVars
  PROVE  OneBuildPerRow'
<1>1. CASE FinalizeSession
  <2>1. \A t \in Targets :
          /\ summary'[t].cand \in {candIds[t], NoIds}
          /\ summary'[t].base \in {baseIds[t], NoIds}
    BY <1>1 DEF FinalizeSession, EvaluateTarget
  <2>2. \A t \in Targets : OneBuild(candIds[t]) /\ NoSharedRun(candIds[t], baseIds[t])
    BY DEF FreshIdsInv, FreshIds
  <2> QED
    BY <2>1, <2>2, NoIdsFacts DEF OneBuildPerRow
<1>2. CASE summary' \in {summary, None}
  BY <1>2 DEF OneBuildPerRow
<1>3. FinalizeSession \/ summary' \in {summary, None}
  <2>1. ASSUME NEW t \in Targets,
               OptimizerStep(t) \/ BenchStep(t) \/ AnalyzerStep(t) \/ PublishStep(t)
        PROVE  summary' = summary
    BY <2>1, OptimizerFrame, BenchFrame, AnalyzerFrame, PublishFrame DEF IInv
  <2>2. ASSUME Between, ~FinalizeSession PROVE summary' = summary
    BY <2>2 DEF Between, Merge, JoinOptimizers, StartBench, JoinBench, BenchFails,
       RejectReports, JoinAnalyzers, FinalizeFails, JoinPublish, PruneAborted
  <2>3. ASSUME NEW c \in Commands, Start(c) PROVE summary' = summary
    BY <2>3 DEF Start
  <2>4. ASSUME NEW c \in Cleans, Clean(c) PROVE summary' \in {summary, None}
    BY <2>4 DEF Clean, OptimizeClean, BenchClean, AnalyzeClean, FinalizeClean, PublishClean
  <2>5. CASE Crash
    BY <2>5 DEF Crash
  <2>6. CASE UNCHANGED sessionVars
    BY <2>6 DEF sessionVars, vars
  <2> QED
    BY <2>1, <2>2, <2>3, <2>4, <2>5, <2>6 DEF Next, PhaseStep, Between
<1> QED
  BY <1>1, <1>2, <1>3

----------------------------------------------------------------------------
(* The invariant of full runs holds in every state of every session.       *)
THEOREM RunGrounded == Spec => []RunIsGrounded
<1>1. Init => RunIsGrounded
  <2>1. ASSUME Init
        PROVE  LandingInv /\ LandedInv /\ MeasuringInv /\ MeasuredInv /\ ShippingInv
    BY <2>1 DEF Init, LandingInv, LandedInv, MeasuringInv, MeasuredInv, ShippingInv
  <2>2. Init => CalibrationInv /\ FreshIdsInv /\ OneBuildPerRow
    BY NoIdsFacts DEF Init, Empty, CalibrationInv, FreshIdsInv, FreshIds, OneBuildPerRow
  <2> QED
    BY <2>1, <2>2 DEF RunIsGrounded
<1>2. IInv /\ RunIsGrounded /\ [Next]_sessionVars => RunIsGrounded'
  BY CalibrationStep, LandingStep, LandedStep, MeasuringStep, MeasuredStep, ShippingStep,
     FreshIdsStep, RowsStep DEF RunIsGrounded
<1> QED
  BY <1>1, <1>2, Grounded, PTL DEF Spec

(* coordinator_commit_if_kept and verify_kept_or_demote leave a full run   *)
(* with implemented reports that stand for commits.                        *)
THEOREM LandedCommits == Spec => []LandedIsCommitted
<1>1. RunIsGrounded => LandedIsCommitted
  BY DEF RunIsGrounded, LandedInv, Kept, Landed, LandedIsCommitted
<1> QED
  BY <1>1, RunGrounded, PTL

(* No row mixes the runs of two builds, however often Phase 3 was          *)
(* interrupted and repeated.                                               *)
THEOREM RowsOfOneBuild == Spec => []OneBuildPerRow
<1>1. RunIsGrounded => OneBuildPerRow
  BY DEF RunIsGrounded
<1> QED
  BY <1>1, RunGrounded, PTL

(* The accepted rows of a full run are measurements of the commit they     *)
(* name against the pinned source.                                         *)
THEOREM RowsAreEvidence == Spec => RunRowsAreEvidence
<1> DEFINE A == cmd = "finalize" /\ FullRun /\ summary' # summary
                => \A t \in Targets : summary'[t].status = "accepted" => Evidence(summary'[t])
<1>1. ASSUME IInv, RunIsGrounded, Next, cmd = "finalize", FullRun, summary' # summary
      PROVE  \A t \in Targets : summary'[t].status = "accepted" => Evidence(summary'[t])
  <2>1. FinalizeSession
    <3>1. ASSUME NEW t \in Targets,
                 OptimizerStep(t) \/ BenchStep(t) \/ AnalyzerStep(t) \/ PublishStep(t)
          PROVE  FALSE
      BY <1>1, <3>1, OptimizerFrame, BenchFrame, AnalyzerFrame, PublishFrame DEF IInv
    <3>2. ASSUME Between PROVE FinalizeSession
      BY <1>1, <3>2 DEF Between, Merge, JoinOptimizers, StartBench, JoinBench, BenchFails,
         RejectReports, JoinAnalyzers, FinalizeFails, JoinPublish, PruneAborted
    <3>3. ~(\E c \in Commands : Start(c)) /\ ~(\E c \in Cleans : Clean(c)) /\ ~Crash
      BY <1>1 DEF Start, Clean, OptimizeClean, BenchClean, AnalyzeClean, FinalizeClean,
         PublishClean, Crash
    <3> QED
      BY <1>1, <3>1, <3>2, <3>3 DEF Next, PhaseStep, Between
  <2>2. \A t \in Targets : summary'[t] = EvaluateTarget(t)
    BY <2>1 DEF FinalizeSession
  <2> QED
    BY <1>1, <2>1, <2>2, AcceptedRow DEF RunIsGrounded
<1>2. IInv /\ RunIsGrounded /\ [Next]_sessionVars => [A]_sessionVars
  BY <1>1
<1> QED
  BY <1>2, Grounded, RunGrounded, PTL DEF Spec, RunRowsAreEvidence

(* A pull request of a full run shows the commit its row measured, or, if  *)
(* the PR writer changed the clone (publish.rs gives it write access and   *)
(* push commits what it finds), one that descends from it.                 *)
THEOREM PrIsEvidence == Spec => RunPrIsEvidence
<1> DEFINE A == \A t \in Targets :
                  FullRun /\ plan[t].mode = "normal_pr" /\ opened'[t] # opened[t]
                  => /\ summary[t].status = "accepted" /\ Evidence(summary[t])
                     /\ \/ pr'[t].head = summary[t].headSha
                        \/ BuiltUpon(checkout[t], summary[t].headSha) /\ pr'[t].head = checkout[t].head
<1>1. ASSUME IInv, RunIsGrounded, Next, NEW t \in Targets, FullRun,
             plan[t].mode = "normal_pr", opened'[t] # opened[t]
      PROVE  /\ summary[t].status = "accepted" /\ Evidence(summary[t])
             /\ \/ pr'[t].head = summary[t].headSha
                \/ BuiltUpon(checkout[t], summary[t].headSha) /\ pr'[t].head = checkout[t].head
  <2>1. CreatePr(t)
    <3>1. PICK u \in Targets : PublishStep(u)
      <4>1. \A u \in Targets : ~OptimizerStep(u) /\ ~BenchStep(u) /\ ~AnalyzerStep(u)
        BY <1>1, OptimizerFrame, BenchFrame, AnalyzerFrame DEF IInv, githubVars
      <4>2. ~Between
        BY <1>1, PhaseElsewhere DEF Between, githubVars
      <4>3. ~((\E c \in Commands : Start(c)) \/ (\E c \in Cleans : Clean(c)) \/ Crash)
        BY <1>1, CommandElsewhere DEF IInv
      <4> QED
        BY <1>1, <4>1, <4>2, <4>3 DEF Next, PhaseStep, Between
    <3>2. CreatePr(u)
      BY <1>1, <3>1 DEF PublishStep, HoldTarget, WritePrText, WriteIssueText, WriteTextOf,
         WriterRefuses, SkipPush,
         AlreadyPublished, PushFails, CommitForPush, PushBranch, AddLabels, CreateIssue,
         WriteFeedback, githubVars
    <3>3. u = t
      BY <1>1, <3>2 DEF CreatePr, IInv, TypeOK
    <3> QED
      BY <3>2, <3>3
  <2>2. cmd = "push" /\ task[t] = "pushed" /\ pr'[t].head = branch[t]
    <3>1. pr \in [Targets -> PullRequest \cup {None}]
      BY <1>1 DEF IInv, TypeOK
    <3>2. pr'[t] = [head |-> branch[t], mode |-> plan[t].mode, labelled |-> FALSE]
      BY <2>1, <3>1 DEF CreatePr
    <3> QED
      BY <2>1, <3>2 DEF CreatePr
  <2>3. Shipping(t) /\ Kept(t)
    BY <1>1, <2>2 DEF RunIsGrounded, ShippingInv, LandedInv, PastOptimize
  <2>4. /\ summary[t].status = "accepted" /\ Implemented(t) /\ Evidence(summary[t])
        /\ summary[t].headSha = prov[t].head /\ branch[t] = checkout[t].head
    BY <1>1, <2>2, <2>3 DEF Shipping
  <2>5. checkout[t].head = prov[t].head \/ BuiltUpon(checkout[t], prov[t].head)
    BY <1>1, <2>3, <2>4 DEF Kept, Landed, AtHead
  <2> QED
    BY <2>2, <2>4, <2>5
<1>2. IInv /\ RunIsGrounded /\ [Next]_sessionVars => [A]_sessionVars
  BY <1>1
<1> QED
  BY <1>2, Grounded, RunGrounded, PTL DEF Spec, RunPrIsEvidence
=============================================================================
