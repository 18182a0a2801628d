-------------------------- MODULE SessionArtifacts --------------------------
(***************************************************************************)
(* The state an optimisation session keeps: the artifact files of every    *)
(* target under <session>/results, the per-target git clone, the GitHub    *)
(* objects Phase 5 creates, and the sbagent process working on them.  Each *)
(* phase module extends this one and changes a part of this state; module  *)
(* Session composes the phases.                                            *)
(*                                                                         *)
(* Source trees and commits are numbered by what they contain: Base is the *)
(* source the session pinned, and every edit of an optimizer agent makes a *)
(* new content number, so a commit is named by its content.  A benchmark   *)
(* run id is a pair: n, which makes it unique, and of, the content that    *)
(* was measured.  The code only ever compares run ids for equality; of is  *)
(* what the stacks-bench database knows about the run.                     *)
(***************************************************************************)
EXTENDS Naturals, FiniteSets

CONSTANTS
  Targets,      \* target ids of merge/optimization-targets.json
  Invocations,  \* ids a verification_replay may give its invocations
  Plans,        \* target definitions the merge phase may write
  Parallel,     \* --parallel-agents
  None          \* an absent file, clone or GitHub object

ASSUME ParallelAssumption == Parallel \in Nat \ {0}

Modes == {"normal_pr", "consensus_poc_pr", "consensus_issue"}

(* What the merge writes for a target: its delivery mode and the ids of    *)
(* its verification invocations.  The merge schema makes the latter        *)
(* non-empty exactly for bench-eligible (normal_pr) targets.               *)
Plan == [mode : Modes, vr : SUBSET Invocations]

ASSUME PlansAssumption ==
  /\ Plans \subseteq Plan
  /\ \A p \in Plans : p.mode = "normal_pr" <=> p.vr # {}

Base == 0
Content == Nat
RunId == [n : Nat, of : Content]

(* A run-ids file: a run id for some of the invocations.  NoIds stands for *)
(* an absent file: the phases only write files for non-empty invocations.  *)
IdMap == [Invocations -> RunId \cup {None}]
NoIds == [i \in Invocations |-> None]
Covered(ids) == {i \in Invocations : ids[i] # None}

(* optimizer-report.json.  A report whose target or session is not the     *)
(* expected one carries mode "foreign".                                    *)
Report == [kind : {"absent", "corrupt", "aborted", "implemented"},
           mode : Modes \cup {"foreign"}]
NoReport == [kind |-> "absent", mode |-> "foreign"]
AbortedReport(m) == [kind |-> "aborted", mode |-> m]

Provenance == [base : Content, head : Content, mode : Modes]
Checkout == [head : Content, parent : Content, tree : Content,
             past : SUBSET Content,            \* what head's history holds besides it
             by : {"optimizer", "writer"}]     \* no part of the clone: who changed it last
Verdict == [verdict : {"accepted", "mixed", "rejected"},
            confident : BOOLEAN,   \* at or above results_analysis.confidence_floor
            axisOk : BOOLEAN,
            base : IdMap, cand : IdMap]
Statuses == {"accepted", "rejected", "aborted", "poc_landed", "routed_to_issue"}
Row == [status : Statuses, cand : IdMap, base : IdMap,
        baseSha : Content \cup {None}, headSha : Content \cup {None}]
PullRequest == [head : Content, mode : Modes, labelled : BOOLEAN]

ASSUME NoneAssumption ==
  /\ None \notin Nat /\ None \notin RunId
  /\ None \notin Provenance /\ None \notin Checkout /\ None \notin PullRequest
  /\ None \notin Verdict /\ None \notin [Targets -> Row]

Phases == {"merge", "calibrate", "optimize", "build", "bench", "analyze",
           "finalize", "generate", "push", "cleanup"}
Chains == {"hand", "run", "runpub", "publish"}
Steps == {"queued", "ready", "cloned", "cleared", "invoked", "committed",
          "pushed", "created", "labelled", "done", "failed", "skipped"}

VARIABLES
  \* the process
  cmd,       \* the phase it runs, or "idle"
  chain,     \* what started it: "run", "runpub", "publish" or "hand"
  resume,    \* --resume
  task,      \* progress of the phase on each target
  acc,       \* run ids gathered so far by a benchmarking loop
  \* merge/optimization-targets.json
  plan,
  \* optimize/<target>/ and verify/<target>/ and analyze/<target>/
  checkout, report, prov, marker, bin, candIds, baseIds, verdict, pub, feedback,
  \* finalize/summary.json
  summary,
  \* GitHub
  branch, pr, opened, issues,
  \* counters that make contents and run ids unique
  gen, nrun

procVars == <<cmd, chain, resume, task, acc>>
optVars == <<checkout, report, prov, marker>>
benchVars == <<bin, candIds, baseIds>>
githubVars == <<branch, pr, opened, issues, feedback>>
vars == <<procVars, plan, optVars, benchVars, verdict, pub, summary, githubVars,
          gen, nrun>>

----------------------------------------------------------------------------
(* Clones.                                                                 *)

(* A commit of all that the tree holds, and what a branch descends from.   *)
CommitTree(c) == [c EXCEPT !.head = c.tree, !.parent = c.head, !.past = @ \cup {c.head}]
Ancestors(c) == c.past \cup {c.head}

(* What an agent that may write a clone leaves of it: the same, edited,    *)
(* committed by the agent itself, or both committed and edited (the        *)
(* sandbox that forbids commits can be switched off).                      *)
Edited(c, g) == [c EXCEPT !.tree = g]
AgentLeaves(c, g) ==
  LET edited == Edited(c, g)
  IN  {c, edited, CommitTree(edited), Edited(CommitTree(edited), g + 1)}

----------------------------------------------------------------------------
(* Reading artifacts: the loader's context checks.                         *)

(* loader::read_optimizer_report_for_target fails: the report does not     *)
(* parse, or it names another target, session or delivery mode.            *)
ReportError(t) ==
  \/ report[t].kind = "corrupt"
  \/ report[t].kind \in {"aborted", "implemented"} /\ report[t].mode # plan[t].mode

Implemented(t) == report[t].kind = "implemented" /\ report[t].mode = plan[t].mode

(* A sidecar that belongs to another delivery mode.                        *)
ProvenanceError(t) == prov[t] # None /\ prov[t].mode # plan[t].mode

----------------------------------------------------------------------------
(* The process: a phase handles every target and then gives way to the     *)
(* next phase of its chain; an error ends the whole command.               *)

Empty == [t \in Targets |-> NoIds]

(* When the command ends, nothing of the process survives.                 *)
Enter(c) ==
  /\ cmd' = c
  /\ chain' = IF c = "idle" THEN "hand" ELSE chain
  /\ resume' = IF c = "idle" THEN FALSE ELSE resume
  /\ task' = [t \in Targets |-> "queued"]
  /\ acc' = Empty

(* The phase that follows c: session run goes through all of them,         *)
(* publishing when asked to; session publish generates and pushes; a phase *)
(* started by hand stands alone.                                           *)
After(c) ==
  CASE chain = "hand" -> "idle"
    [] chain = "publish" -> IF c = "generate" THEN "push" ELSE "idle"
    [] c = "merge" -> "calibrate"
    [] c = "calibrate" -> "optimize"
    [] c = "optimize" -> "build"
    [] c = "bench" -> "analyze"
    [] c = "analyze" -> "finalize"
    [] c = "finalize" -> IF chain = "runpub" THEN "generate" ELSE "cleanup"
    [] c = "generate" -> "push"
    [] c = "push" -> "cleanup"
    [] OTHER -> "idle"

Finish == Enter(After(cmd))

Abort == Enter("idle")

Move(t, step) ==
  /\ task' = [task EXCEPT ![t] = step]
  /\ UNCHANGED <<cmd, chain, resume, acc>>

Handled(t) == task[t] \in {"done", "failed", "skipped"}
AllHandled == \A t \in Targets : Handled(t)

(* The phases that loop over the targets take one at a time.               *)
Turn(t) == \A u \in Targets \ {t} : task[u] = "queued" \/ Handled(u)

(* Phase 1.7 (run through Phases 0-1.5 by session run, alone by            *)
(* session analysis merge): a new definition for every target.             *)
Merge ==
  /\ cmd = "merge"
  /\ \E p \in [Targets -> Plans] : plan' = p
  /\ Finish
  /\ UNCHANGED <<optVars, benchVars, verdict, pub, summary, githubVars, gen, nrun>>
=============================================================================
