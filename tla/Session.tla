------------------------------- MODULE Session ------------------------------
(***************************************************************************)
(* A session: sbagent commands working, one after the other, on the same   *)
(* session directory.  A command is session run (all phases, optionally    *)
(* publishing), session publish, one phase started by hand, or a clean; it *)
(* may be killed between any two steps, which loses the process's memory   *)
(* and keeps what is on disk and on GitHub.                                *)
(***************************************************************************)
EXTENDS Optimizers, Benchmarks, ResultsAnalyzer, Finalize, Publish

CONSTANTS
  MaxCommands,  \* bound on the commands an operator starts
  Commands,       \* the commands the operator starts
  Resumes,      \* values --resume takes where a command has it
  Cleans        \* the clean commands the operator uses

ASSUME MaxCommandsAssumption == MaxCommands \in Nat
ASSUME ResumesAssumption == Resumes \subseteq BOOLEAN
ASSUME CommandsAssumption ==
  Commands \subseteq {"run", "runpub", "publish", "merge", "optimize", "build",
                    "analyze", "finalize", "generate", "push"}

VARIABLE started   \* commands started so far

sessionVars == <<vars, started>>

Init ==
  /\ cmd = "idle" /\ chain = "hand" /\ resume = FALSE
  /\ task = [t \in Targets |-> "queued"]
  /\ acc = Empty
  /\ plan \in [Targets -> Plans]
  /\ checkout = [t \in Targets |-> None]
  /\ report = [t \in Targets |-> NoReport]
  /\ prov = [t \in Targets |-> None]
  /\ marker = [t \in Targets |-> FALSE]
  /\ bin = [t \in Targets |-> None]
  /\ candIds = Empty
  /\ baseIds = Empty
  /\ verdict = [t \in Targets |-> None]
  /\ pub = [t \in Targets |-> "none"]
  /\ feedback = [t \in Targets |-> "none"]
  /\ summary = None
  /\ branch = [t \in Targets |-> None]
  /\ pr = [t \in Targets |-> None]
  /\ opened = [t \in Targets |-> 0]
  /\ issues = [t \in Targets |-> 0]
  /\ gen = [t \in Targets |-> Base]
  /\ nrun = [t \in Targets |-> 0]
  /\ started = 0

(* The first phase of a command.                                           *)
FirstPhase(c) ==
  CASE c \in {"run", "runpub"} -> "merge"
    [] c = "publish" -> "generate"
    [] OTHER -> c

(* --resume is an option of session run and of session optimize run.       *)
Start(c) ==
  /\ cmd = "idle" /\ started < MaxCommands
  /\ cmd' = FirstPhase(c)
  /\ chain' = IF c \in {"run", "runpub", "publish"} THEN c ELSE "hand"
  /\ resume' \in IF c \in {"run", "runpub", "optimize"} THEN Resumes ELSE {FALSE}
  /\ started' = started + 1
  /\ UNCHANGED <<task, acc, plan, optVars, benchVars, verdict, pub, summary,
                 githubVars, gen, nrun>>

Clean(c) ==
  /\ started < MaxCommands
  /\ \/ c = "optimize" /\ OptimizeClean
     \/ c = "bench" /\ BenchClean
     \/ c = "analyze" /\ AnalyzeClean
     \/ c = "finalize" /\ FinalizeClean
     \/ c = "publish" /\ PublishClean
  /\ started' = started + 1

(* A signal, an out-of-memory kill or a reboot.                            *)
Crash ==
  /\ cmd # "idle"
  /\ Abort
  /\ UNCHANGED <<plan, optVars, benchVars, verdict, pub, summary, githubVars,
                 gen, nrun, started>>

PhaseStep ==
  /\ \/ \E t \in Targets :
          OptimizerStep(t) \/ BenchStep(t) \/ AnalyzerStep(t) \/ PublishStep(t)
     \/ Merge
     \/ JoinOptimizers
     \/ StartBench
     \/ JoinBench
     \/ BenchFails
     \/ RejectReports
     \/ JoinAnalyzers
     \/ FinalizeSession
     \/ FinalizeFails
     \/ JoinPublish
     \/ PruneAborted
  /\ UNCHANGED started

Next ==
  \/ \E c \in Commands : Start(c)
  \/ \E c \in Cleans : Clean(c)
  \/ Crash
  \/ PhaseStep

Spec == Init /\ [][Next]_sessionVars

(* A process that is not killed keeps taking its steps.                    *)
FairSpec == Spec /\ WF_sessionVars(PhaseStep)

----------------------------------------------------------------------------
(* Every artifact has its type, whatever order commands came in.           *)
TypeOK ==
  /\ cmd \in Phases \cup {"idle"} /\ chain \in Chains /\ resume \in BOOLEAN
  /\ task \in [Targets -> Steps]
  /\ acc \in [Targets -> IdMap]
  /\ plan \in [Targets -> Plans]
  /\ checkout \in [Targets -> Checkout \cup {None}]
  /\ report \in [Targets -> Report]
  /\ prov \in [Targets -> Provenance \cup {None}]
  /\ marker \in [Targets -> BOOLEAN]
  /\ bin \in [Targets -> Content \cup {None}]
  /\ candIds \in [Targets -> IdMap]
  /\ baseIds \in [Targets -> IdMap]
  /\ verdict \in [Targets -> Verdict \cup {None}]
  /\ pub \in [Targets -> {"none", "pr", "issue"}]
  /\ feedback \in [Targets -> {"none", "pr", "issue"}]
  /\ summary \in [Targets -> Row] \cup {None}
  /\ branch \in [Targets -> Content \cup {None}]
  /\ pr \in [Targets -> PullRequest \cup {None}]
  /\ opened \in [Targets -> Nat]
  /\ issues \in [Targets -> Nat]
  /\ gen \in [Targets -> Nat]
  /\ nrun \in [Targets -> Nat]
  /\ started \in Nat

----------------------------------------------------------------------------
(* What a run of all phases promises, also on a session directory full of  *)
(* what crashed, aborted and by-hand commands left behind.                 *)

(* A session run that does not reuse earlier optimizer outputs.            *)
FullRun == chain \in {"run", "runpub"} /\ ~resume

PastOptimize == {"build", "bench", "analyze", "finalize", "generate", "push", "cleanup"}

(* The clone is clean at the commit the sidecar names; and: a PR writer    *)
(* changed the clone, but built upon the commit sha.                       *)
AtHead(t) ==
  /\ checkout[t].head = prov[t].head /\ checkout[t].parent = prov[t].base
  /\ checkout[t].tree = prov[t].head
BuiltUpon(c, sha) == c.by = "writer" /\ sha \in Ancestors(c)

(* After Phase 2 of a full run, a report that says implemented stands for  *)
(* a commit: the clone is clean at the sidecar's head, and that is not the *)
(* pinned source.  (coordinator_commit_if_kept and verify_kept_or_demote   *)
(* against agents that lie, agents that commit, failing git calls and      *)
(* leftovers of earlier attempts.)  It stays so until Phase 5, where a PR  *)
(* writer may build upon that commit.                                      *)
LandedIsCommitted ==
  \A t \in Targets :
    FullRun /\ cmd \in PastOptimize /\ plan[t].mode # "consensus_issue" /\ Implemented(t)
    => /\ prov[t] # None /\ prov[t].mode = plan[t].mode
       /\ prov[t].head # Base
       /\ \/ AtHead(t)
          \/ cmd \in {"generate", "push", "cleanup"} /\ BuiltUpon(checkout[t], prov[t].head)

(* Every run in ids measured the content c.                                *)
Measures(ids, c) == \A i \in Covered(ids) : ids[i].of = c

(* A row is evidence: candidate runs of its own head commit against        *)
(* baseline runs of the pinned source, for the same, non-empty set of      *)
(* invocations.                                                            *)
Evidence(row) ==
  /\ Covered(row.cand) = Covered(row.base) /\ row.cand # NoIds
  /\ Measures(row.cand, row.headSha)
  /\ Measures(row.base, Base)

(* The accepted rows a full run finalizes are backed by measurements of    *)
(* the very commit they name: stale run ids, verdicts and binaries of an   *)
(* earlier attempt never reach them.                                       *)
RunRowsAreEvidence ==
  [][cmd = "finalize" /\ FullRun /\ summary' # summary
     => \A t \in Targets : summary'[t].status = "accepted" => Evidence(summary'[t])]_sessionVars

(* A normal_pr pull request opened by a full run has as its head the       *)
(* commit whose measurements the accepted row holds, or, if the PR writer  *)
(* changed the clone, one built upon that commit.                          *)
RunPrIsEvidence ==
  [][\A t \in Targets :
       FullRun /\ plan[t].mode = "normal_pr" /\ opened'[t] # opened[t]
       => /\ summary[t].status = "accepted" /\ Evidence(summary[t])
          /\ \/ pr'[t].head = summary[t].headSha
             \/ BuiltUpon(checkout[t], summary[t].headSha) /\ pr'[t].head = checkout[t].head]_sessionVars

----------------------------------------------------------------------------
(* What holds of any sequence of commands.                                 *)

(* All runs of a file measured the same content; two files share no run.   *)
OneBuild(ids) == \A i, j \in Covered(ids) : ids[i].of = ids[j].of
NoSharedRun(a, b) == \A i \in Covered(a), j \in Covered(b) : a[i].n # b[j].n

(* Candidate runs of a summary row all measured one build, and none of     *)
(* them is a baseline run: a bench phase that failed half way through the  *)
(* invocations never leaves a mixture of old and new runs.                 *)
OneBuildPerRow ==
  summary # None =>
    \A t \in Targets :
      OneBuild(summary[t].cand) /\ NoSharedRun(summary[t].cand, summary[t].base)

(* Re-running publish after a crash or a partial failure never opens a     *)
(* second pull request or issue for a target.                              *)
PublishedOnce == \A t \in Targets : opened[t] <= 1 /\ issues[t] <= 1

(* Nothing is ever pushed to the branch of a pull request that exists: what *)
(* reviewers look at is what was opened.                                   *)
PrHeadIsFrozen == \A t \in Targets : pr[t] # None => branch[t] = pr[t].head

(* publish-feedback.json exists only for an object that was fully created, *)
(* labels included.                                                        *)
FeedbackIsPublished ==
  \A t \in Targets :
    /\ feedback[t] = "pr" => pr[t] # None /\ pr[t].labelled
    /\ feedback[t] = "issue" => issues[t] > 0

(* A command ends: no phase waits for a task that never finishes, and a    *)
(* failed optimizer gives its permit back.                                 *)
CommandEnds == (cmd # "idle") ~> (cmd = "idle")
=============================================================================
