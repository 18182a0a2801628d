------------------------------- MODULE Publish ------------------------------
(***************************************************************************)
(* Phase 5.  generate gates every target and has a writer agent produce    *)
(* its PR or issue text; push takes the texts it finds on disk to GitHub.  *)
(* The two are separate commands as well as steps of session publish and   *)
(* session run.  A generate error ends the command, a push error only the  *)
(* target.                                                                 *)
(***************************************************************************)
EXTENDS SessionArtifacts

(* The kind of text a target publishes.                                    *)
TextKind(t) == IF plan[t].mode = "consensus_issue" THEN "issue" ELSE "pr"

(* decide_publish.  A normal_pr target needs an accepted row and, still on *)
(* disk, a verdict that ships with enough confidence.                      *)
ShipDecision(t) ==
  CASE plan[t].mode = "normal_pr" ->
         /\ summary # None /\ summary[t].status = "accepted"
         /\ verdict[t] # None
         /\ verdict[t].verdict \in {"accepted", "mixed"}
         /\ verdict[t].confident
    [] plan[t].mode = "consensus_poc_pr" -> Implemented(t)
    [] OTHER -> marker[t]

(* The PR writer's own precondition, checked before it clears the old      *)
(* texts.  (The issue writer's is its gate: the marker.)                   *)
WriterReady(t) == Implemented(t)
(* Seeded fault: a held target keeps the text of an earlier generate.      *)
HoldTarget_KeepsText(t) ==
  /\ cmd = "generate" /\ task[t] = "queued"
  /\ ~ShipDecision(t)
  /\ Move(t, "skipped")
  /\ UNCHANGED <<plan, optVars, benchVars, verdict, pub, summary, githubVars, gen, nrun>>

HoldTarget(t) ==
  /\ cmd = "generate" /\ task[t] = "queued"
  /\ ~ShipDecision(t)
  /\ pub' = [pub EXCEPT ![t] = "none"]
  /\ Move(t, "skipped")
  /\ UNCHANGED <<plan, optVars, benchVars, verdict, summary, githubVars, gen, nrun>>

(* The old texts are cleared and the agent runs.  A text with missing      *)
(* sections fails the command and stays on disk, as does one that was      *)
(* written before the harness failed.                                      *)
WriteTextOf(t, kind) ==
  /\ \/ pub' = [pub EXCEPT ![t] = kind] /\ Move(t, "done")
     \/ \E k \in {kind, "none"} : pub' = [pub EXCEPT ![t] = k] /\ Abort
  /\ UNCHANGED <<plan, report, prov, marker, benchVars, verdict, summary, githubVars, nrun>>

(* The PR writer is told to leave the clone alone, but may write it.       *)
WriterLeaves(t) ==
  IF checkout[t] = None THEN {None}
  ELSE {IF c = checkout[t] THEN c ELSE [c EXCEPT !.by = "writer"] :
          c \in AgentLeaves(checkout[t], gen[t] + 1)}

WritePrText(t) ==
  /\ cmd = "generate" /\ task[t] = "queued"
  /\ TextKind(t) = "pr" /\ ShipDecision(t) /\ WriterReady(t)
  /\ \E c \in WriterLeaves(t) :
       /\ checkout' = [checkout EXCEPT ![t] = c]
       /\ gen' = [gen EXCEPT ![t] = IF c # None /\ c.tree > @ THEN c.tree ELSE @]
  /\ WriteTextOf(t, "pr")

WriteIssueText(t) ==
  /\ cmd = "generate" /\ task[t] = "queued"
  /\ TextKind(t) = "issue" /\ ShipDecision(t)
  /\ UNCHANGED <<checkout, gen>>
  /\ WriteTextOf(t, "issue")

WriterRefuses(t) ==
  /\ cmd = "generate" /\ task[t] = "queued"
  /\ TextKind(t) = "pr" /\ ShipDecision(t) /\ ~WriterReady(t)
  /\ Abort
  /\ UNCHANGED <<plan, optVars, benchVars, verdict, pub, summary, githubVars, gen, nrun>>

----------------------------------------------------------------------------
SkipPush(t) ==
  /\ cmd = "push" /\ task[t] = "queued" /\ Turn(t)
  /\ pub[t] # TextKind(t)
  /\ Move(t, "skipped")
  /\ UNCHANGED <<plan, optVars, benchVars, verdict, pub, summary, githubVars, gen, nrun>>
(* Seeded fault: the branch is brought up to date before looking for a PR. *)
AlreadyPublished_RefreshesBranch(t) ==
  /\ cmd = "push" /\ task[t] = "queued" /\ Turn(t)
  /\ pub[t] = TextKind(t)
  /\ IF TextKind(t) = "pr" THEN checkout[t] # None /\ opened[t] > 0 ELSE issues[t] > 0
  /\ branch' = [branch EXCEPT ![t] = IF TextKind(t) = "pr" THEN checkout[t].head ELSE @]
  /\ Move(t, "done")
  /\ UNCHANGED <<plan, optVars, benchVars, verdict, pub, summary, pr, opened, issues,
                 feedback, gen, nrun>>

(* pr_exists and issue_exists look for objects of any state, by branch and *)
(* by trace tag: the target counts as published.                           *)
AlreadyPublished(t) ==
  /\ cmd = "push" /\ task[t] = "queued" /\ Turn(t)
  /\ pub[t] = TextKind(t)
  /\ IF TextKind(t) = "pr" THEN checkout[t] # None /\ opened[t] > 0 ELSE issues[t] > 0
  /\ Move(t, "done")
  /\ UNCHANGED <<plan, optVars, benchVars, verdict, pub, summary, githubVars, gen, nrun>>

(* Any call a target's push makes may fail, before or after it took        *)
(* effect; the other targets go on.                                        *)
PushFails(t) ==
  /\ cmd = "push" /\ Turn(t)
  /\ \/ task[t] = "queued" /\ pub[t] = TextKind(t)
     \/ task[t] \in {"committed", "pushed", "created", "labelled"}
  /\ Move(t, "failed")
  /\ UNCHANGED <<plan, optVars, benchVars, verdict, pub, summary, githubVars, gen, nrun>>

(* switch -C, add -u and commit of what the clone's tree still holds.      *)
CommitForPush(t) ==
  /\ cmd = "push" /\ task[t] = "queued" /\ Turn(t)
  /\ pub[t] = "pr" /\ TextKind(t) = "pr"
  /\ checkout[t] # None
  /\ opened[t] = 0
  /\ checkout' = [checkout EXCEPT ![t] = IF @.tree = @.head THEN @ ELSE CommitTree(@)]
  /\ Move(t, "committed")
  /\ UNCHANGED <<plan, report, prov, marker, benchVars, verdict, pub, summary,
                 githubVars, gen, nrun>>

(* push_with_pat never forces: the branch on GitHub must be an ancestor.   *)
PushBranch(t) ==
  /\ cmd = "push" /\ task[t] = "committed"
  /\ branch[t] = None \/ branch[t] \in Ancestors(checkout[t])
  /\ branch' = [branch EXCEPT ![t] = checkout[t].head]
  /\ Move(t, "pushed")
  /\ UNCHANGED <<plan, optVars, benchVars, verdict, pub, summary, pr, opened, issues,
                 feedback, gen, nrun>>
(* Seeded fault: the URL is recorded as soon as the PR exists.             *)
CreatePr_RecordsUrl(t) ==
  /\ cmd = "push" /\ task[t] = "pushed"
  /\ pr' = [pr EXCEPT ![t] = [head |-> branch[t], mode |-> plan[t].mode, labelled |-> FALSE]]
  /\ opened' = [opened EXCEPT ![t] = @ + 1]
  /\ feedback' = [feedback EXCEPT ![t] = "pr"]
  /\ Move(t, "created")
  /\ UNCHANGED <<plan, optVars, benchVars, verdict, pub, summary, branch, issues, gen, nrun>>

CreatePr(t) ==
  /\ cmd = "push" /\ task[t] = "pushed"
  /\ pr' = [pr EXCEPT ![t] = [head |-> branch[t], mode |-> plan[t].mode, labelled |-> FALSE]]
  /\ opened' = [opened EXCEPT ![t] = @ + 1]
  /\ Move(t, "created")
  /\ UNCHANGED <<plan, optVars, benchVars, verdict, pub, summary, branch, issues,
                 feedback, gen, nrun>>

(* The labels are a second call.                                           *)
AddLabels(t) ==
  /\ cmd = "push" /\ task[t] = "created"
  /\ pr' = [pr EXCEPT ![t] = [@ EXCEPT !.labelled = TRUE]]
  /\ Move(t, "labelled")
  /\ UNCHANGED <<plan, optVars, benchVars, verdict, pub, summary, branch, opened,
                 issues, feedback, gen, nrun>>
(* Seeded fault: the search for an existing issue is left out.             *)
CreateIssue_Again(t) ==
  /\ cmd = "push" /\ task[t] = "queued" /\ Turn(t)
  /\ pub[t] = "issue" /\ TextKind(t) = "issue"
  /\ issues' = [issues EXCEPT ![t] = @ + 1]
  /\ Move(t, "labelled")
  /\ UNCHANGED <<plan, optVars, benchVars, verdict, pub, summary, branch, pr, opened,
                 feedback, gen, nrun>>

(* An issue is created with its labels.                                    *)
CreateIssue(t) ==
  /\ cmd = "push" /\ task[t] = "queued" /\ Turn(t)
  /\ pub[t] = "issue" /\ TextKind(t) = "issue"
  /\ issues[t] = 0
  /\ issues' = [issues EXCEPT ![t] = @ + 1]
  /\ Move(t, "labelled")
  /\ UNCHANGED <<plan, optVars, benchVars, verdict, pub, summary, branch, pr, opened,
                 feedback, gen, nrun>>

(* PublishFeedback::write refuses to overwrite a file.                     *)
WriteFeedback(t) ==
  /\ cmd = "push" /\ task[t] = "labelled"
  /\ feedback[t] = "none"
  /\ feedback' = [feedback EXCEPT ![t] = TextKind(t)]
  /\ Move(t, "done")
  /\ UNCHANGED <<plan, optVars, benchVars, verdict, pub, summary, branch, pr, opened,
                 issues, gen, nrun>>

JoinPublish ==
  /\ cmd \in {"generate", "push"} /\ AllHandled
  /\ Finish
  /\ UNCHANGED <<plan, optVars, benchVars, verdict, pub, summary, githubVars, gen, nrun>>

PublishStep(t) ==
  \/ HoldTarget(t)
  \/ WritePrText(t)
  \/ WriteIssueText(t)
  \/ WriterRefuses(t)
  \/ SkipPush(t)
  \/ AlreadyPublished(t)
  \/ PushFails(t)
  \/ CommitForPush(t)
  \/ PushBranch(t)
  \/ CreatePr(t)
  \/ AddLabels(t)
  \/ CreateIssue(t)
  \/ WriteFeedback(t)

(* publish clean: the generated texts; publish-feedback.json stays.        *)
PublishClean ==
  /\ cmd = "idle"
  /\ pub' = [t \in Targets |-> "none"]
  /\ UNCHANGED <<procVars, plan, optVars, benchVars, verdict, summary, githubVars,
                 gen, nrun>>
=============================================================================
