-------------------------- MODULE ResultsAnalyzer ---------------------------
(***************************************************************************)
(* Phase 3.5: one agent per benchmarked target judges its runs and writes  *)
(* analyze/<target>/results-analysis.json.  A failing agent is not fatal:  *)
(* the phase goes on and finalize sees what is on disk.                    *)
(***************************************************************************)
EXTENDS SessionArtifacts

(* Eligibility is decided for every target before any agent starts; an     *)
(* unreadable report of a normal_pr target fails the whole phase.          *)
EligibilityError == \E t \in Targets : plan[t].mode = "normal_pr" /\ ReportError(t)

Eligible(t) ==
  /\ plan[t].mode = "normal_pr"
  /\ Implemented(t)
  /\ candIds[t] # NoIds
  /\ baseIds[t] # NoIds

RejectReports ==
  /\ cmd = "analyze" /\ EligibilityError
  /\ Abort
  /\ UNCHANGED <<plan, optVars, benchVars, verdict, pub, summary, githubVars, gen, nrun>>

SkipAnalysis(t) ==
  /\ cmd = "analyze" /\ task[t] = "queued" /\ ~EligibilityError
  /\ ~Eligible(t)
  /\ Move(t, "skipped")
  /\ UNCHANGED <<plan, optVars, benchVars, verdict, pub, summary, githubVars, gen, nrun>>

(* A verdict an agent may write: about the runs it was given, or naming    *)
(* other runs (the empty map), or the wrong axis.                          *)
AgentVerdict(t) ==
  [verdict : {"accepted", "mixed", "rejected"}, confident : BOOLEAN, axisOk : BOOLEAN,
   base : {baseIds[t]}, cand : {candIds[t]}] \cup
  [verdict : {"accepted", "mixed", "rejected"}, confident : BOOLEAN, axisOk : {TRUE},
   base : {baseIds[t]}, cand : {NoIds}]

(* The agent leaves the old file alone (and fails, or passes it off as     *)
(* new), or replaces it by a valid one or by one the loader drops (None);  *)
(* it may still fail after that.                                           *)
Analyze(t) ==
  /\ cmd = "analyze" /\ task[t] = "queued" /\ ~EligibilityError
  /\ Eligible(t)
  /\ \E v \in {verdict[t], None} \cup AgentVerdict(t) :
       verdict' = [verdict EXCEPT ![t] = v]
  /\ Move(t, "done")
  /\ UNCHANGED <<plan, optVars, benchVars, pub, summary, githubVars, gen, nrun>>

JoinAnalyzers ==
  /\ cmd = "analyze" /\ AllHandled
  /\ Finish
  /\ UNCHANGED <<plan, optVars, benchVars, verdict, pub, summary, githubVars, gen, nrun>>

AnalyzerStep(t) == SkipAnalysis(t) \/ Analyze(t)

(* session analyze-results clean.                                          *)
AnalyzeClean ==
  /\ cmd = "idle"
  /\ verdict' = [t \in Targets |-> None]
  /\ UNCHANGED <<procVars, plan, optVars, benchVars, pub, summary, githubVars, gen, nrun>>
=============================================================================
