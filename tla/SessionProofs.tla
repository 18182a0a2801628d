---------------------------- MODULE SessionProofs ---------------------------
(***************************************************************************)
(* Theorems about Session, for any number of targets, invocations, permits *)
(* and commands: types and publishing.  The inductive invariant is TypeOK  *)
(* with what the tasks of a phase work on: types alone are not inductive,  *)
(* because a step that reads a clone, a branch or a pull request must know *)
(* that it is there.                                                       *)
(***************************************************************************)
EXTENDS SessionInvariants, TLAPS

IInv == TypeOK /\ IdleInv /\ CloneInv /\ PushInv

(* The empty run-ids file and the empty accumulator are well typed.        *)
LEMMA NoIdsType == NoIds \in IdMap /\ Empty \in [Targets -> IdMap]
  BY DEF NoIds, IdMap, Empty

(* The phase that follows a phase is a phase, or the command is over.      *)
LEMMA AfterType ==
  ASSUME cmd \in Phases
  PROVE  After(cmd) \in Phases \cup {"idle"}
  BY DEF After, Phases

USE NoneAssumption, PlansAssumption DEF Plan, Modes, Phases, Chains, Steps, Content, Base

(* Entering a phase leaves the process variables well typed.               *)
LEMMA EnterType ==
  ASSUME NEW c \in Phases \cup {"idle"}, TypeOK, Enter(c)
  PROVE  /\ cmd' \in Phases \cup {"idle"} /\ chain' \in Chains /\ resume' \in BOOLEAN
         /\ task' \in [Targets -> Steps]
         /\ acc' \in [Targets -> IdMap]
  BY NoIdsType DEF Enter, TypeOK

----------------------------------------------------------------------------
(* Clones.                                                                 *)

(* A commit keeps the tree, moves the head to it, and forgets no commit.   *)
LEMMA CommitTreeIs ==
  ASSUME NEW c \in Checkout
  PROVE  /\ CommitTree(c) \in Checkout /\ CommitTree(c) # None
         /\ CommitTree(c).head = c.tree /\ CommitTree(c).parent = c.head
         /\ CommitTree(c).tree = c.tree /\ CommitTree(c).by = c.by
         /\ Ancestors(c) \subseteq Ancestors(CommitTree(c))
<1> DEFINE past == c.past \cup {c.head}
<1>1. /\ c.tree \in Nat /\ c.head \in Nat /\ c.by \in {"optimizer", "writer"}
      /\ past \in SUBSET Nat
  BY DEF Checkout
<1>2. CommitTree(c) = [c EXCEPT !.head = c.tree, !.parent = c.head, !.past = past]
  BY DEF CommitTree
<1>3. c.head \in past /\ c.past \subseteq past
  OBVIOUS
<1> HIDE DEF past
<1>4. CommitTree(c) = [head |-> c.tree, parent |-> c.head, tree |-> c.tree,
                       past |-> past, by |-> c.by]
  BY <1>2 DEF Checkout
<1>5. CommitTree(c) \in Checkout
  BY <1>1, <1>4 DEF Checkout
<1>6. CommitTree(c).past = past
  BY <1>4
<1> QED
  BY <1>3, <1>4, <1>5, <1>6 DEF Ancestors

(* An edit changes the tree and nothing that is committed.                 *)
LEMMA EditedIs ==
  ASSUME NEW c \in Checkout, NEW g \in Nat
  PROVE  /\ Edited(c, g) \in Checkout /\ Edited(c, g) # None
         /\ Edited(c, g).head = c.head /\ Edited(c, g).parent = c.parent
         /\ Edited(c, g).tree = g /\ Edited(c, g).by = c.by
         /\ Ancestors(Edited(c, g)) = Ancestors(c)
<1>1. Edited(c, g) = [head |-> c.head, parent |-> c.parent, tree |-> g,
                      past |-> c.past, by |-> c.by]
  BY DEF Edited, Checkout
<1>2. Edited(c, g) \in Checkout
  BY <1>1 DEF Checkout
<1> QED
  BY <1>1, <1>2 DEF Ancestors

(* What an agent leaves of a clone is a clone with the same history.       *)
LEMMA AgentLeavesClone ==
  ASSUME NEW c \in Checkout, NEW g \in Nat, NEW d \in AgentLeaves(c, g)
  PROVE  /\ d \in Checkout /\ d # None /\ d.by = c.by
         /\ Ancestors(c) \subseteq Ancestors(d)
<1> DEFINE e == Edited(c, g)
           k == CommitTree(e)
<1>1. /\ e \in Checkout /\ e # None /\ e.by = c.by
      /\ Ancestors(c) \subseteq Ancestors(e)
  BY EditedIs
<1>2. /\ k \in Checkout /\ k # None /\ k.by = c.by
      /\ Ancestors(c) \subseteq Ancestors(k)
  <2> HIDE DEF e
  <2>1. /\ CommitTree(e) \in Checkout /\ CommitTree(e) # None /\ CommitTree(e).by = e.by
        /\ Ancestors(e) \subseteq Ancestors(CommitTree(e))
    BY <1>1, CommitTreeIs
  <2> QED
    BY <1>1, <2>1
<1>3. /\ Edited(k, g + 1) \in Checkout /\ Edited(k, g + 1) # None
      /\ Edited(k, g + 1).by = c.by /\ Ancestors(c) \subseteq Ancestors(Edited(k, g + 1))
  <2> HIDE DEF k
  <2>1. g + 1 \in Nat
    OBVIOUS
  <2>2. /\ Edited(k, g + 1) \in Checkout /\ Edited(k, g + 1) # None
        /\ Edited(k, g + 1).by = k.by /\ Ancestors(Edited(k, g + 1)) = Ancestors(k)
    BY <1>2, <2>1, EditedIs
  <2> QED
    BY <1>2, <2>2
<1>4. d \in {c, e, k, Edited(k, g + 1)}
  BY DEF AgentLeaves
<1> HIDE DEF e, k
<1>5. c # None
  OBVIOUS
<1> QED
  BY <1>1, <1>2, <1>3, <1>4, <1>5

(* A fresh clone is one.                                                   *)
LEMMA FreshCloneIs ==
  FreshClone \in Checkout /\ FreshClone # None /\ FreshClone.by = "optimizer"
  BY DEF FreshClone, Checkout

(* The PR writer leaves the clone as it was, or with its mark and the same *)
(* history; it makes none and removes none.                                *)
LEMMA WriterLeavesClone ==
  ASSUME TypeOK, NEW t \in Targets, NEW c \in WriterLeaves(t)
  PROVE  /\ c \in Checkout \cup {None}
         /\ c = None <=> checkout[t] = None
         /\ c = checkout[t] \/ (c.by = "writer" /\ Ancestors(checkout[t]) \subseteq Ancestors(c))
<1>1. CASE checkout[t] = None
  BY <1>1 DEF WriterLeaves
<1>2. CASE checkout[t] # None
  <2>1. checkout[t] \in Checkout /\ gen[t] + 1 \in Nat
    BY <1>2 DEF TypeOK
  <2>2. PICK d \in AgentLeaves(checkout[t], gen[t] + 1) :
          c = IF d = checkout[t] THEN d ELSE [d EXCEPT !.by = "writer"]
    BY <1>2 DEF WriterLeaves
  <2>3. d \in Checkout /\ Ancestors(checkout[t]) \subseteq Ancestors(d)
    BY <2>1, AgentLeavesClone
  <2>4. CASE d = checkout[t]
    BY <1>2, <2>1, <2>2, <2>4
  <2>5. CASE d # checkout[t]
    <3>1. c = [d EXCEPT !.by = "writer"]
      BY <2>2, <2>5
    <3>2. c = [head |-> d.head, parent |-> d.parent, tree |-> d.tree, past |-> d.past,
               by |-> "writer"]
      BY <2>3, <3>1 DEF Checkout
    <3>3. c \in Checkout
      BY <2>3, <3>2 DEF Checkout
    <3>4. c.by = "writer" /\ Ancestors(c) = Ancestors(d)
      BY <3>2 DEF Ancestors
    <3> QED
      BY <1>2, <2>3, <3>3, <3>4
  <2> QED
    BY <2>4, <2>5
<1> QED
  BY <1>1, <1>2

----------------------------------------------------------------------------
(* Type correctness.                                                       *)

(* The initial files are well typed: a new session has none.               *)
LEMMA TypeInit == Init => TypeOK
<1> SUFFICES ASSUME Init PROVE TypeOK
  OBVIOUS
<1>1. NoReport \in Report
  BY DEF NoReport, Report
<1>2. resume \in BOOLEAN /\ marker \in [Targets -> BOOLEAN]
  BY DEF Init
<1>3. /\ report \in [Targets -> Report]
      /\ checkout \in [Targets -> Checkout \cup {None}]
      /\ prov \in [Targets -> Provenance \cup {None}]
      /\ verdict \in [Targets -> Verdict \cup {None}]
      /\ pr \in [Targets -> PullRequest \cup {None}]
      /\ summary \in [Targets -> Row] \cup {None}
  BY <1>1 DEF Init
<1> QED
  BY <1>2, <1>3, NoIdsType DEF Init, TypeOK

(* A demoted report is a report.                                           *)
LEMMA DemoteType ==
  ASSUME TypeOK, NEW t \in Targets, Demote(t)
  PROVE  report' \in [Targets -> Report]
<1>1. plan[t].mode \in Modes
  BY DEF TypeOK
<1>2. AbortedReport(plan[t].mode) \in Report
  BY <1>1 DEF AbortedReport, Report
<1> QED
  BY <1>2 DEF Demote, TypeOK

(* Every step of an optimizer task keeps the types.                        *)
LEMMA OptimizerType ==
  ASSUME TypeOK, CloneInv, NEW t \in Targets, OptimizerStep(t), UNCHANGED started
  PROVE  TypeOK'
<1> USE DEF TypeOK, Move, optVars, benchVars, githubVars
<1>r. NoReport \in Report /\ \A m \in Modes : AbortedReport(m) \in Report
  BY DEF NoReport, AbortedReport, Report
<1>1. CASE AcquirePermit(t)
  BY <1>1 DEF AcquirePermit
<1>2. CASE RouteToIssue(t)
  BY <1>2, <1>r DEF RouteToIssue, ClearArtifacts
<1>3. CASE ResumeSkip(t)
  BY <1>3 DEF ResumeSkip
<1>4. CASE TaskFails(t)
  BY <1>4 DEF TaskFails
<1>5. CASE RecreateCheckout(t)
  <2>1. FreshClone \in Checkout
    BY FreshCloneIs
  <2>2. checkout' \in [Targets -> Checkout \cup {None}]
    <3>1. \E c \in Checkout \cup {None} : checkout' = [checkout EXCEPT ![t] = c]
      BY <1>5, <2>1 DEF RecreateCheckout
    <3> QED
      BY <3>1
  <2>3. /\ task' \in [Targets -> Steps]
        /\ UNCHANGED <<cmd, chain, resume, acc>>
    <3>1. Move(t, "cloned") \/ Move(t, "failed")
      BY <1>5, Zenon DEF RecreateCheckout
    <3> QED
      BY <3>1
  <2> QED
    BY <1>5, <2>2, <2>3 DEF RecreateCheckout
<1>6. CASE ClearStale(t)
  BY <1>6, <1>r DEF ClearStale, ClearArtifacts
<1>7. CASE InvokeAgent(t)
  <2>1. PICK r \in AgentReport(t), c \in AgentTrees(t) :
          /\ report' = [report EXCEPT ![t] = r]
          /\ checkout' = [checkout EXCEPT ![t] = c]
          /\ gen' = [gen EXCEPT ![t] = IF c.tree > @ THEN c.tree ELSE @]
    BY <1>7 DEF InvokeAgent
  <2>2. r \in Report
    BY DEF AgentReport, Report, NoReport
  <2>3. c \in Checkout
    <3>1. gen[t] + 1 \in Nat
      OBVIOUS
    <3> QED
      BY <3>1, FreshCloneIs, AgentLeavesClone DEF AgentTrees
  <2>4. c.tree \in Nat
    BY <2>3 DEF Checkout
  <2>5. gen' \in [Targets -> Nat]
    BY <2>1, <2>4
  <2>6. task' \in [Targets -> Steps] /\ UNCHANGED <<cmd, chain, resume, acc>>
    BY <1>7 DEF InvokeAgent
  <2> QED
    BY <1>7, <2>1, <2>2, <2>3, <2>5, <2>6 DEF InvokeAgent
<1>8. CASE NothingToCommit(t)
  BY <1>8 DEF NothingToCommit
<1>9. CASE CommitKept(t)
  <2>1. checkout[t] \in Checkout
    BY <1>9 DEF CommitKept, CloneInv
  <2>2. CommitTree(checkout[t]) \in Checkout
    BY <2>1, CommitTreeIs
  <2> QED
    BY <1>9, <2>2 DEF CommitKept
<1>10. CASE DemoteUncommitted(t)
  <2>1. report' \in [Targets -> Report]
    BY <1>10, DemoteType DEF DemoteUncommitted
  <2> QED
    BY <1>10, <2>1 DEF DemoteUncommitted
<1>11. CASE WriteProvenance(t)
  <2>1. checkout[t] \in Checkout
    BY <1>11 DEF WriteProvenance, VerifyKeptOrDemote, CloneInv
  <2>2. [base |-> checkout[t].parent, head |-> checkout[t].head, mode |-> plan[t].mode]
          \in Provenance
    BY <2>1 DEF Checkout, Provenance
  <2>3. prov' \in [Targets -> Provenance \cup {None}]
    BY <1>11, <2>2 DEF WriteProvenance, VerifyKeptOrDemote
  <2>4. report' \in [Targets -> Report]
    <3>1. Demote(t) \/ UNCHANGED report
      BY <1>11, Zenon DEF WriteProvenance, VerifyKeptOrDemote
    <3> QED
      BY <3>1, DemoteType
  <2> QED
    BY <1>11, <2>3, <2>4 DEF WriteProvenance, VerifyKeptOrDemote
<1>12. CASE ProvenanceFails(t)
  <2>1. report' \in [Targets -> Report]
    BY <1>12, DemoteType DEF ProvenanceFails
  <2> QED
    BY <1>12, <2>1 DEF ProvenanceFails
<1> QED
  BY <1>1, <1>2, <1>3, <1>4, <1>5, <1>6, <1>7, <1>8, <1>9, <1>10, <1>11, <1>12
     DEF OptimizerStep

(* Every step of the benchmarking phases on a target keeps the types.      *)
LEMMA BenchType ==
  ASSUME TypeOK, NEW t \in Targets, BenchStep(t), UNCHANGED started
  PROVE  TypeOK'
<1> USE DEF TypeOK, Move, optVars, benchVars, githubVars
<1>1. CASE Calibrate(t)
  BY <1>1 DEF Calibrate, RunInvocation, IdMap, RunId
<1>2. CASE WriteBaselineIds(t)
  BY <1>2 DEF WriteBaselineIds
<1>3. CASE SkipCalibration(t)
  BY <1>3 DEF SkipCalibration
<1>4. CASE SkipBuild(t)
  BY <1>4 DEF SkipBuild
<1>5. CASE BuildCandidate(t)
  <2>1. bin' \in [Targets -> Content \cup {None}]
    BY <1>5 DEF BuildCandidate, Checkout
  <2>2. /\ cmd' \in Phases \cup {"idle"} /\ chain' \in Chains /\ resume' \in BOOLEAN
        /\ task' \in [Targets -> Steps]
        /\ acc' \in [Targets -> IdMap]
    <3>1. CASE Move(t, "done")
      BY <3>1
    <3>2. CASE Abort
      BY <3>2, EnterType DEF Abort
    <3> QED
      BY <1>5, <3>1, <3>2 DEF BuildCandidate
  <2> QED
    BY <1>5, <2>1, <2>2 DEF BuildCandidate
<1>6. CASE BenchCandidate(t)
  BY <1>6 DEF BenchCandidate, RunInvocation, IdMap, RunId
<1>7. CASE WriteCandidateIds(t)
  BY <1>7 DEF WriteCandidateIds
<1> QED
  BY <1>1, <1>2, <1>3, <1>4, <1>5, <1>6, <1>7 DEF BenchStep

(* Every step of the results analyzer on a target keeps the types.         *)
LEMMA AnalyzerType ==
  ASSUME TypeOK, NEW t \in Targets, AnalyzerStep(t), UNCHANGED started
  PROVE  TypeOK'
<1> USE DEF TypeOK, Move, optVars, benchVars, githubVars
<1>1. CASE SkipAnalysis(t)
  BY <1>1 DEF SkipAnalysis
<1>2. CASE Analyze(t)
  <2>1. AgentVerdict(t) \subseteq Verdict
    <3>1. baseIds[t] \in IdMap /\ candIds[t] \in IdMap
      OBVIOUS
    <3> HIDE DEF TypeOK
    <3> QED
      BY <3>1, NoIdsType DEF AgentVerdict, Verdict
  <2>2. verdict' \in [Targets -> Verdict \cup {None}]
    BY <1>2, <2>1 DEF Analyze
  <2> QED
    BY <1>2, <2>2 DEF Analyze
<1> QED
  BY <1>1, <1>2 DEF AnalyzerStep

(* Every step of generate and push on a target keeps the types.            *)
LEMMA PublishType ==
  ASSUME TypeOK, PushInv, NEW t \in Targets, PublishStep(t), UNCHANGED started
  PROVE  TypeOK'
<1> USE DEF TypeOK, Move, optVars, benchVars, githubVars
<1>1. CASE HoldTarget(t)
  BY <1>1 DEF HoldTarget
<1>2. CASE WritePrText(t) \/ WriteIssueText(t)
  <2>1. \E kind \in {"pr", "issue"} : WriteTextOf(t, kind)
    BY <1>2 DEF WritePrText, WriteIssueText
  <2>2. pub' \in [Targets -> {"none", "pr", "issue"}]
    BY <2>1 DEF WriteTextOf
  <2>3. /\ cmd' \in Phases \cup {"idle"} /\ chain' \in Chains /\ resume' \in BOOLEAN
        /\ task' \in [Targets -> Steps] /\ acc' \in [Targets -> IdMap]
    <3>1. Move(t, "done") \/ Enter("idle")
      BY <2>1 DEF WriteTextOf, Abort
    <3> QED
      BY <3>1, EnterType
  <2>4. checkout' \in [Targets -> Checkout \cup {None}] /\ gen' \in [Targets -> Nat]
    <3>1. CASE WritePrText(t)
      <4>1. PICK c \in WriterLeaves(t) :
              /\ checkout' = [checkout EXCEPT ![t] = c]
              /\ gen' = [gen EXCEPT ![t] = IF c # None /\ c.tree > @ THEN c.tree ELSE @]
        BY <3>1 DEF WritePrText
      <4>2. c \in Checkout \cup {None}
        BY WriterLeavesClone
      <4>3. c # None => c.tree \in Nat
        BY <4>2 DEF Checkout
      <4> QED
        BY <4>1, <4>2, <4>3
    <3>2. CASE WriteIssueText(t)
      BY <3>2 DEF WriteIssueText
    <3> QED
      BY <1>2, <3>1, <3>2
  <2> QED
    BY <2>1, <2>2, <2>3, <2>4 DEF WriteTextOf
<1>3. CASE WriterRefuses(t)
  BY <1>3, EnterType DEF WriterRefuses, Abort
<1>4. CASE SkipPush(t)
  BY <1>4 DEF SkipPush
<1>5. CASE AlreadyPublished(t)
  BY <1>5 DEF AlreadyPublished
<1>6. CASE PushFails(t)
  BY <1>6 DEF PushFails
<1>7. CASE CommitForPush(t)
  <2>1. checkout[t] \in Checkout
    BY <1>7 DEF CommitForPush
  <2>2. CommitTree(checkout[t]) \in Checkout
    BY <2>1, CommitTreeIs
  <2> QED
    BY <1>7, <2>1, <2>2 DEF CommitForPush
<1>8. CASE PushBranch(t)
  BY <1>8 DEF PushBranch, Checkout, PushInv
<1>9. CASE CreatePr(t)
  BY <1>9 DEF CreatePr, PullRequest, PushInv
<1>10. CASE AddLabels(t)
  <2>1. pr[t] \in PullRequest
    BY <1>10 DEF AddLabels, PushInv
  <2>2. [pr[t] EXCEPT !.labelled = TRUE] \in PullRequest
    BY <2>1 DEF PullRequest
  <2>3. pr' \in [Targets -> PullRequest \cup {None}]
    BY <1>10, <2>2 DEF AddLabels
  <2> QED
    BY <1>10, <2>3 DEF AddLabels
<1>11. CASE CreateIssue(t)
  BY <1>11 DEF CreateIssue
<1>12. CASE WriteFeedback(t)
  BY <1>12 DEF WriteFeedback, TextKind
<1> QED
  BY <1>1, <1>2, <1>3, <1>4, <1>5, <1>6, <1>7, <1>8, <1>9, <1>10, <1>11, <1>12
     DEF PublishStep

(* Finalize writes well-typed rows.                                        *)
LEMMA RowType == ASSUME TypeOK, NEW t \in Targets PROVE EvaluateTarget(t) \in Row
<1>1. Status(t) \in Statuses
  BY DEF Status, Statuses, BenchStatus, MapVerdict
<1>2. /\ candIds[t] \in IdMap /\ baseIds[t] \in IdMap
      /\ prov[t] # None => prov[t].base \in Nat /\ prov[t].head \in Nat
  BY DEF TypeOK, Provenance
<1> QED
  BY <1>1, <1>2, NoIdsType DEF EvaluateTarget, Row

(* The steps of the process that concern all targets keep the types.       *)
LEMMA PhaseType ==
  ASSUME TypeOK, UNCHANGED started,
         \/ Merge \/ JoinOptimizers \/ StartBench \/ JoinBench \/ BenchFails
         \/ RejectReports \/ JoinAnalyzers \/ FinalizeSession \/ FinalizeFails
         \/ JoinPublish \/ PruneAborted
  PROVE  TypeOK'
<1> USE EnterType, AfterType DEF TypeOK, Abort, Finish, optVars, benchVars, githubVars
<1>1. CASE Merge
  BY <1>1 DEF Merge
<1>2. CASE JoinOptimizers
  BY <1>2 DEF JoinOptimizers
<1>3. CASE StartBench
  BY <1>3 DEF StartBench
<1>4. CASE JoinBench
  BY <1>4 DEF JoinBench
<1>5. CASE BenchFails
  BY <1>5 DEF BenchFails
<1>6. CASE RejectReports
  BY <1>6 DEF RejectReports
<1>7. CASE JoinAnalyzers
  BY <1>7 DEF JoinAnalyzers
<1>8. CASE FinalizeSession
  <2>1. summary' \in [Targets -> Row]
    BY <1>8, RowType DEF FinalizeSession
  <2> QED
    BY <1>8, <2>1 DEF FinalizeSession
<1>9. CASE FinalizeFails
  BY <1>9 DEF FinalizeFails
<1>10. CASE JoinPublish
  BY <1>10 DEF JoinPublish
<1>11. CASE PruneAborted
  BY <1>11 DEF PruneAborted
<1> QED
  BY <1>1, <1>2, <1>3, <1>4, <1>5, <1>6, <1>7, <1>8, <1>9, <1>10, <1>11

(* Starting, cleaning and killing commands keeps the types.                *)
LEMMA CommandType ==
  ASSUME TypeOK, (\E c \in Commands : Start(c)) \/ (\E c \in Cleans : Clean(c)) \/ Crash
  PROVE  TypeOK'
<1> USE NoIdsType DEF TypeOK, procVars, optVars, benchVars, githubVars
<1>r. NoReport \in Report
  BY DEF NoReport, Report
<1>1. ASSUME NEW c \in Commands, Start(c) PROVE TypeOK'
  <2>1. cmd' \in Phases /\ chain' \in Chains
    BY <1>1, CommandsAssumption DEF Start, FirstPhase
  <2>2. resume' \in BOOLEAN
    BY <1>1, ResumesAssumption DEF Start
  <2> QED
    BY <1>1, <2>1, <2>2 DEF Start
<1>2. ASSUME NEW c \in Cleans, Clean(c) PROVE TypeOK'
  <2>1. CASE OptimizeClean /\ started' = started + 1
    BY <2>1, <1>r DEF OptimizeClean
  <2>2. CASE BenchClean /\ started' = started + 1
    BY <2>2 DEF BenchClean
  <2>3. CASE AnalyzeClean /\ started' = started + 1
    BY <2>3 DEF AnalyzeClean
  <2>4. CASE FinalizeClean /\ started' = started + 1
    BY <2>4 DEF FinalizeClean
  <2>5. CASE PublishClean /\ started' = started + 1
    BY <2>5 DEF PublishClean
  <2> QED
    BY <1>2, <2>1, <2>2, <2>3, <2>4, <2>5 DEF Clean
<1>3. CASE Crash
  BY <1>3, EnterType DEF Crash, Abort
<1> QED
  BY <1>1, <1>2, <1>3

(* No step breaks the types.                                               *)
LEMMA TypeStep == IInv /\ [Next]_sessionVars => TypeOK'
<1> SUFFICES ASSUME IInv, [Next]_sessionVars PROVE TypeOK'
  OBVIOUS
<1>1. CASE PhaseStep
  BY <1>1, OptimizerType, BenchType, AnalyzerType, PublishType, PhaseType DEF PhaseStep,
     IInv
<1>2. CASE (\E c \in Commands : Start(c)) \/ (\E c \in Cleans : Clean(c)) \/ Crash
  BY <1>2, CommandType DEF IInv
<1>3. CASE UNCHANGED sessionVars
  BY <1>3 DEF IInv, TypeOK, sessionVars, vars, procVars, optVars, benchVars, githubVars
<1> QED
  BY <1>1, <1>2, <1>3 DEF Next

----------------------------------------------------------------------------
(* Steps seen from a phase they do not belong to.                          *)

(* A step either is not in phase p when it is done, or has just entered it. *)
Elsewhere(p) ==
  cmd' = p => task' = [u \in Targets |-> "queued"] /\ acc' = Empty

(* What the steps of a phase on one target mean to the other phases.       *)
LEMMA OptimizerElsewhere ==
  ASSUME NEW t \in Targets, OptimizerStep(t)
  PROVE  cmd' = "optimize" /\ UNCHANGED githubVars
  BY DEF OptimizerStep, AcquirePermit, RouteToIssue, ResumeSkip, TaskFails,
     RecreateCheckout,
         ClearStale, InvokeAgent, NothingToCommit, CommitKept, DemoteUncommitted,
         WriteProvenance, VerifyKeptOrDemote, ProvenanceFails, Move, githubVars

(* A benchmark step never touches GitHub or another phase's tasks.         *)
LEMMA BenchElsewhere ==
  ASSUME NEW t \in Targets, BenchStep(t)
  PROVE  /\ Elsewhere("idle") /\ Elsewhere("optimize") /\ Elsewhere("push")
         /\ UNCHANGED githubVars
  BY DEF BenchStep, Calibrate, WriteBaselineIds, SkipCalibration, SkipBuild, BuildCandidate,
         BenchCandidate, WriteCandidateIds, RunInvocation, Move, Abort, Enter, Elsewhere,
         githubVars

(* Nor does an analyzer step.                                              *)
LEMMA AnalyzerElsewhere ==
  ASSUME NEW t \in Targets, AnalyzerStep(t)
  PROVE  cmd' = "analyze" /\ UNCHANGED githubVars
  BY DEF AnalyzerStep, SkipAnalysis, Analyze, Move, githubVars

(* A publish step belongs to generate or push, or ends the command.        *)
LEMMA PublishElsewhere ==
  ASSUME NEW t \in Targets, PublishStep(t)
  PROVE  Elsewhere("idle") /\ Elsewhere("optimize")
  BY DEF PublishStep, HoldTarget, WritePrText, WriteIssueText, WriteTextOf, WriterRefuses,
     SkipPush, AlreadyPublished,
         PushFails, CommitForPush, PushBranch, CreatePr, AddLabels, CreateIssue,
         WriteFeedback, Move, Abort, Enter, Elsewhere

(* A step that concerns all targets enters a phase afresh.                 *)
LEMMA PhaseElsewhere ==
  ASSUME \/ Merge \/ JoinOptimizers \/ StartBench \/ JoinBench \/ BenchFails
         \/ RejectReports \/ JoinAnalyzers \/ FinalizeSession \/ FinalizeFails
         \/ JoinPublish \/ PruneAborted
  PROVE  /\ Elsewhere("idle") /\ Elsewhere("optimize") /\ Elsewhere("push")
         /\ UNCHANGED githubVars
  BY DEF Merge, JoinOptimizers, StartBench, JoinBench, BenchFails, RejectReports,
         JoinAnalyzers, FinalizeSession, FinalizeFails, JoinPublish, PruneAborted,
         Abort, Finish, Enter, Elsewhere, githubVars

(* A command that starts or dies leaves fresh tasks, a clean idle ones.    *)
LEMMA CommandElsewhere ==
  ASSUME IdleInv,
         (\E c \in Commands : Start(c)) \/ (\E c \in Cleans : Clean(c)) \/ Crash
  PROVE  /\ Elsewhere("idle") /\ Elsewhere("optimize") /\ Elsewhere("push")
         /\ UNCHANGED <<branch, pr, opened, issues>>
         /\ feedback' \in {feedback, [t \in Targets |-> "none"]}
<1> USE DEF Elsewhere, githubVars, procVars
<1>1. ASSUME NEW c \in Commands, Start(c)
      PROVE  task' = [u \in Targets |-> "queued"] /\ acc' = Empty /\ UNCHANGED githubVars
  BY <1>1 DEF Start, IdleInv
<1>2. ASSUME NEW c \in Cleans, Clean(c)
      PROVE  /\ task' = [u \in Targets |-> "queued"] /\ acc' = Empty
             /\ UNCHANGED <<branch, pr, opened, issues>>
             /\ feedback' \in {feedback, [t \in Targets |-> "none"]}
  BY <1>2 DEF Clean, IdleInv, OptimizeClean, BenchClean, AnalyzeClean, FinalizeClean,
              PublishClean
<1>3. CASE Crash
  BY <1>3 DEF Crash, Abort, Enter
<1> QED
  BY <1>1, <1>2, <1>3

----------------------------------------------------------------------------
(* The process and the clones.                                             *)

(* A process leaves nothing behind.                                        *)
LEMMA IdleStep == IInv /\ [Next]_sessionVars => IdleInv'
<1> SUFFICES ASSUME IInv, [Next]_sessionVars, cmd' = "idle"
             PROVE  /\ chain' = "hand" /\ resume' = FALSE
                    /\ task' = [t \in Targets |-> "queued"] /\ acc' = Empty
  BY DEF IdleInv
<1>1. /\ task' = [t \in Targets |-> "queued"]
      /\ acc' = Empty
  <2>1. CASE PhaseStep
    BY <2>1, OptimizerElsewhere, BenchElsewhere, AnalyzerElsewhere, PublishElsewhere,
       PhaseElsewhere DEF PhaseStep, Elsewhere
  <2>2. CASE (\E c \in Commands : Start(c)) \/ (\E c \in Cleans : Clean(c)) \/ Crash
    BY <2>2, CommandElsewhere DEF Elsewhere, IInv
  <2>3. CASE UNCHANGED sessionVars
    BY <2>3 DEF IInv, IdleInv, sessionVars, vars, procVars
  <2> QED
    BY <2>1, <2>2, <2>3 DEF Next
<1>2. chain' = "hand" /\ resume' = FALSE
  <2>1. ASSUME NEW t \in Targets, BenchStep(t) PROVE chain' = "hand" /\ resume' = FALSE
    BY <2>1 DEF BenchStep, Calibrate, WriteBaselineIds, SkipCalibration, SkipBuild,
       BuildCandidate, BenchCandidate, WriteCandidateIds, RunInvocation, Move, Abort, Enter
  <2>2. ASSUME NEW t \in Targets, PublishStep(t) PROVE chain' = "hand" /\ resume' = FALSE
    BY <2>2 DEF PublishStep, HoldTarget, WritePrText, WriteIssueText, WriteTextOf,
       WriterRefuses, SkipPush, AlreadyPublished,
         PushFails, CommitForPush, PushBranch, CreatePr, AddLabels, CreateIssue,
         WriteFeedback, Move, Abort, Enter
  <2>3. ASSUME \/ Merge \/ JoinOptimizers \/ StartBench \/ JoinBench \/ BenchFails
               \/ RejectReports \/ JoinAnalyzers \/ FinalizeSession \/ FinalizeFails
               \/ JoinPublish \/ PruneAborted
        PROVE chain' = "hand" /\ resume' = FALSE
    BY <2>3 DEF Merge, JoinOptimizers, StartBench, JoinBench, BenchFails, RejectReports,
         JoinAnalyzers, FinalizeSession, FinalizeFails, JoinPublish, PruneAborted,
         Abort, Finish, Enter
  <2>4. CASE PhaseStep
    BY <2>1, <2>2, <2>3, <2>4, OptimizerElsewhere, AnalyzerElsewhere DEF PhaseStep
  <2>5. ASSUME NEW c \in Commands, Start(c) PROVE FALSE
    BY <2>5, CommandsAssumption DEF Start, FirstPhase
  <2>6. ASSUME NEW c \in Cleans, Clean(c) PROVE chain' = "hand" /\ resume' = FALSE
    BY <2>6 DEF IInv, IdleInv, Clean, OptimizeClean, BenchClean, AnalyzeClean,
       FinalizeClean,
                PublishClean, procVars
  <2>7. CASE Crash
    BY <2>7 DEF Crash, Abort, Enter
  <2>8. CASE UNCHANGED sessionVars
    BY <2>8 DEF IInv, IdleInv, sessionVars, vars, procVars
  <2> QED
    BY <2>4, <2>5, <2>6, <2>7, <2>8 DEF Next
<1> QED
  BY <1>1, <1>2

(* An optimizer task keeps the clone it works in.                          *)
LEMMA CloneStep == IInv /\ [Next]_sessionVars => CloneInv'
<1> SUFFICES ASSUME IInv, [Next]_sessionVars, cmd' = "optimize"
             PROVE  \A u \in Targets :
                      task'[u] \in {"cloned", "cleared", "invoked", "committed"}
                      => checkout'[u] # None
  BY DEF CloneInv
<1> USE DEF IInv, CloneInv, TypeOK
<1>1. ASSUME NEW t \in Targets, OptimizerStep(t)
      PROVE  \A u \in Targets :
               task'[u] \in {"cloned", "cleared", "invoked", "committed"}
               => checkout'[u] # None
  <2>1. CASE RecreateCheckout(t)
    <3>1. FreshClone # None
      BY FreshCloneIs
    <3> QED
      BY <2>1, <3>1 DEF RecreateCheckout, Move
  <2>2. CASE InvokeAgent(t)
    <3>1. \A c \in AgentTrees(t) : c # None
      <4>1. gen[t] + 1 \in Nat
        OBVIOUS
      <4> QED
        BY <4>1, FreshCloneIs, AgentLeavesClone DEF AgentTrees
    <3> QED
      BY <2>2, <3>1 DEF InvokeAgent, Move
  <2>3. CASE CommitKept(t)
    <3>1. checkout[t] \in Checkout
      BY <2>3 DEF CommitKept
    <3>2. CommitTree(checkout[t]) # None
      BY <3>1, CommitTreeIs
    <3> QED
      BY <2>3, <3>2 DEF CommitKept, Move
  <2>4. CASE AcquirePermit(t) \/ RouteToIssue(t) \/ ResumeSkip(t) \/ TaskFails(t)
             \/ ClearStale(t) \/ NothingToCommit(t) \/ DemoteUncommitted(t)
             \/ WriteProvenance(t) \/ ProvenanceFails(t)
    BY <2>4 DEF AcquirePermit, RouteToIssue, ResumeSkip, TaskFails, ClearStale,
                NothingToCommit, DemoteUncommitted, WriteProvenance, VerifyKeptOrDemote, ProvenanceFails, Move,
                optVars
  <2> QED
    BY <1>1, <2>1, <2>2, <2>3, <2>4 DEF OptimizerStep
<1>2. ASSUME Elsewhere("optimize")
      PROVE  \A u \in Targets :
               task'[u] \in {"cloned", "cleared", "invoked", "committed"}
               => checkout'[u] # None
  BY <1>2 DEF Elsewhere
<1>3. CASE UNCHANGED sessionVars
  BY <1>3 DEF sessionVars, vars, procVars, optVars
<1> QED
  BY <1>1, <1>2, <1>3, BenchElsewhere, AnalyzerElsewhere, PublishElsewhere, PhaseElsewhere,
     CommandElsewhere DEF Next, PhaseStep

----------------------------------------------------------------------------
(* GitHub.                                                                 *)

(* A step outside the push, or one that enters it, changes no object.      *)
LEMMA PushFrame ==
  ASSUME TypeOK, PushInv, Elsewhere("push"),
         UNCHANGED <<branch, pr, opened, issues>>,
         feedback' \in {feedback, [t \in Targets |-> "none"]}
  PROVE  PushInv'
  BY DEF TypeOK, PushInv, Elsewhere

(* What a push knows survives each of its steps.                           *)
LEMMA PublishPush ==
  ASSUME TypeOK, PushInv, NEW t \in Targets, PublishStep(t)
  PROVE  PushInv'
<1> USE DEF PushInv, TypeOK, Move, optVars, githubVars, TextKind
<1>1. CASE HoldTarget(t) \/ WritePrText(t) \/ WriteIssueText(t) \/ WriterRefuses(t)
  <2>1. Elsewhere("push") /\ UNCHANGED githubVars
    BY <1>1 DEF HoldTarget, WritePrText, WriteIssueText, WriteTextOf, WriterRefuses, Abort,
       Enter, Elsewhere
  <2> QED
    BY <2>1, PushFrame
<1>2. CASE SkipPush(t) \/ AlreadyPublished(t) \/ PushFails(t)
  BY <1>2 DEF SkipPush, AlreadyPublished, PushFails
<1>3. CASE CommitForPush(t)
  <2>1. checkout[t] \in Checkout
    BY <1>3 DEF CommitForPush
  <2>2. CommitTree(checkout[t]) # None
    BY <2>1, CommitTreeIs
  <2>3. checkout'[t] # None
    BY <1>3, <2>1, <2>2 DEF CommitForPush
  <2> QED
    BY <1>3, <2>3 DEF CommitForPush
<1>4. CASE PushBranch(t)
  BY <1>4 DEF PushBranch, Checkout
<1>5. CASE CreatePr(t)
  <2> DEFINE p == [head |-> branch[t], mode |-> plan[t].mode, labelled |-> FALSE]
  <2>1. p \in PullRequest
    BY <1>5 DEF CreatePr, PullRequest
  <2>2. p # None /\ p.head = branch[t]
    BY <2>1
  <2>3. pr' = [pr EXCEPT ![t] = p]
    BY <1>5 DEF CreatePr
  <2> HIDE DEF p
  <2>4. pr'[t] # None /\ pr'[t].head = branch[t]
    BY <2>2, <2>3
  <2>5. \A u \in Targets \ {t} : pr'[u] = pr[u]
    BY <2>3
  <2> QED
    BY <1>5, <2>4, <2>5 DEF CreatePr
<1>6. CASE AddLabels(t)
  <2> DEFINE p == [pr[t] EXCEPT !.labelled = TRUE]
  <2>0. pr[t] \in PullRequest
    BY <1>6 DEF AddLabels
  <2>1. pr[t] \in PullRequest /\ p \in PullRequest
    BY <2>0 DEF PullRequest
  <2>2. p # None /\ p.head = pr[t].head /\ p.labelled
    BY <2>1 DEF PullRequest
  <2>3. pr' = [pr EXCEPT ![t] = p]
    BY <1>6 DEF AddLabels
  <2> HIDE DEF p
  <2>4. pr'[t] # None /\ pr'[t].head = pr[t].head /\ pr'[t].labelled
    BY <2>2, <2>3
  <2>5. \A u \in Targets \ {t} : pr'[u] = pr[u]
    BY <2>3
  <2>6. pr[t] # None
    BY <2>1
  <2>7. PushInv!(t)'
    BY <1>6, <2>4, <2>6 DEF AddLabels
  <2>8. ASSUME NEW u \in Targets \ {t} PROVE PushInv!(u)'
    BY <1>6, <2>5, <2>8 DEF AddLabels
  <2> QED
    BY <2>7, <2>8
<1>7. CASE CreateIssue(t)
  BY <1>7 DEF CreateIssue
<1>8. CASE WriteFeedback(t)
  BY <1>8 DEF WriteFeedback
<1> QED
  BY <1>1, <1>2, <1>3, <1>4, <1>5, <1>6, <1>7, <1>8 DEF PublishStep

(* No step breaks what a push knows.                                       *)
LEMMA PushStep == IInv /\ [Next]_sessionVars => PushInv'
<1> SUFFICES ASSUME IInv, [Next]_sessionVars PROVE PushInv'
  OBVIOUS
<1>1. ASSUME NEW t \in Targets, PublishStep(t) PROVE PushInv'
  BY <1>1, PublishPush DEF IInv
<1>2. ASSUME NEW t \in Targets, OptimizerStep(t) PROVE PushInv'
  BY <1>2, OptimizerElsewhere, PushFrame DEF IInv, Elsewhere, githubVars
<1>3. ASSUME NEW t \in Targets, BenchStep(t) PROVE PushInv'
  BY <1>3, BenchElsewhere, PushFrame DEF IInv, githubVars
<1>4. ASSUME NEW t \in Targets, AnalyzerStep(t) PROVE PushInv'
  BY <1>4, AnalyzerElsewhere, PushFrame DEF IInv, Elsewhere, githubVars
<1>5. ASSUME \/ Merge \/ JoinOptimizers \/ StartBench \/ JoinBench \/ BenchFails
             \/ RejectReports \/ JoinAnalyzers \/ FinalizeSession \/ FinalizeFails
             \/ JoinPublish \/ PruneAborted
      PROVE  PushInv'
  BY <1>5, PhaseElsewhere, PushFrame DEF IInv, githubVars
<1>6. CASE (\E c \in Commands : Start(c)) \/ (\E c \in Cleans : Clean(c)) \/ Crash
  BY <1>6, CommandElsewhere, PushFrame DEF IInv
<1>7. CASE UNCHANGED sessionVars
  BY <1>7 DEF IInv, PushInv, TextKind, sessionVars, vars, procVars, optVars, githubVars
<1> QED
  BY <1>1, <1>2, <1>3, <1>4, <1>5, <1>6, <1>7 DEF Next, PhaseStep

----------------------------------------------------------------------------
(* The invariant holds in every state of every session.                    *)
THEOREM Grounded == Spec => []IInv
<1>1. Init => IInv
  <2>1. Init => IdleInv /\ CloneInv /\ PushInv
    BY DEF Init, IdleInv, CloneInv, PushInv
  <2> QED
    BY <2>1, TypeInit DEF IInv
<1>2. IInv /\ [Next]_sessionVars => IInv'
  BY TypeStep, IdleStep, CloneStep, PushStep DEF IInv
<1> QED
  BY <1>1, <1>2, PTL DEF Spec

(* Every artifact has its type, whatever order commands came in.           *)
THEOREM TypeCorrect == Spec => []TypeOK
<1>1. IInv => TypeOK
  BY DEF IInv
<1> QED
  BY <1>1, Grounded, PTL

(* However often publish is run, killed or fails half way (publish.rs      *)
(* push_pr and push_issue), a target gets one pull request and one issue   *)
(* at most.                                                                *)
THEOREM PublishesOnce == Spec => []PublishedOnce
<1>1. IInv => PublishedOnce
  BY DEF IInv, PushInv, PublishedOnce
<1> QED
  BY <1>1, Grounded, PTL

(* The branch of an opened pull request never moves: push_pr looks for the *)
(* pull request before it pushes.                                          *)
THEOREM PrHeadStays == Spec => []PrHeadIsFrozen
<1>1. IInv => PrHeadIsFrozen
  BY DEF IInv, PushInv, PrHeadIsFrozen
<1> QED
  BY <1>1, Grounded, PTL

(* A publish-feedback file vouches for an object that is complete.         *)
THEOREM FeedbackIsTrue == Spec => []FeedbackIsPublished
<1>1. IInv => FeedbackIsPublished
  BY DEF IInv, PushInv, FeedbackIsPublished
<1> QED
  BY <1>1, Grounded, PTL
=============================================================================
