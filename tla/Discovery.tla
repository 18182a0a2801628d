----------------------------- MODULE Discovery -----------------------------
(***************************************************************************)
(* Phases 0a to 1.7 of a session, up to the plan in                        *)
(* optimization-targets.json that the phases of module Session carry out:  *)
(* the baseline benchmark, triage, optimizer memory, one analyzer per      *)
(* family and the merge.  They run as one chain (`session run`, which may  *)
(* also resume a session) or as the commands `session baseline run`,       *)
(* `baseline import`, `triage run`, `analysis run`, `analysis merge` and   *)
(* the `clean` commands, one at a time on a session.                       *)
(*                                                                         *)
(* Other sessions share the machine's benchmark database and its lock.     *)
(* Agents may fail, may write what they are asked for, or may return       *)
(* without writing: then a file of an earlier attempt stays.               *)
(***************************************************************************)
EXTENDS Merge

CONSTANTS
  Analyses,      \* [status, targets] records the analyzer of each family may write
  Parallel,      \* analyzer.concurrency_cap
  MaxCommands, MaxRuns,
  MaxFaults      \* bound on failures, crashes and changes of the history

ASSUME DiscoveryBounds ==
  Parallel \in Nat \ {0} /\ MaxCommands \in Nat /\ MaxRuns \in Nat /\ MaxFaults \in Nat

(* What the files and the process may hold.                                *)
Ids == 1..MaxRuns
Findings == [status : {"accepted", "rejected"}, targets : Seq([sig : Signatures, class : {1, 2}])]
AnalysisFile == [status : {"accepted", "rejected"}, targets : Seq([sig : Signatures, class : {1, 2}]),
                 run : Ids]
CandidatesFile == [run : Ids, fams : SUBSET Families]
BaselineFiles == [bin : BOOLEAN, json : Ids \union {None}, run : Ids \union {None},
                  rerun : Ids \union {None}, noise : {None, "configured"}]
Pcs == {"bin", "bench", "ids", "shows", "show", "import", "noise", "triage", "memory", "spawn",
        "join", "merge"}
Command == [pc : Pcs, last : {"merge", "shows", "noise", "triage", "join"}, id : Ids \union {None},
            knew : {None} \union SUBSET Signatures, fresh : BOOLEAN]
Vouched == [knew : SUBSET Signatures, how : {"fresh", "again", "refused"}]

ASSUME AnalysesAssumption == Analyses \in [Families -> SUBSET Findings]
ASSUME NoneIsNothing ==
  /\ None \notin Nat /\ None \notin {"session", "other"} /\ (\A K \in SUBSET Signatures : K # None)
  /\ None \notin AnalysisFile /\ None \notin CandidatesFile
  /\ None \notin Command /\ None \notin Vouched

VARIABLES
  db,        \* the runs in the stacks-bench database are 1..db
  lock,      \* holder of the bench lock: None, "session" or "other"
  base,      \* results/baseline: [bin, json, run, rerun, noise]
  cand,      \* triage/candidates.json: None or [run, fams]
  memory,    \* optimizer-memory.json: None or the families it covers
  ana,       \* analysis/<family>/analysis.json
  merged,    \* merge/optimization-targets.json: NoTargets or [run, out]
  recorded,  \* families with a record in the rejections database
  blocked,   \* signatures the operator's ledgers block now
  cmd,       \* the command that runs: None or [pc, last, id, knew, fresh]
  tasks,     \* analyzer tasks
  commands, faults,
  mine,      \* runs this session executed or was told to import
  plan       \* what the last merge vouches for: None or [knew, how]

files == <<base, cand, memory, ana, merged>>
vars == <<db, lock, base, cand, memory, ana, merged, recorded, blocked, cmd, tasks,
          commands, faults, mine, plan>>

NoTargets == [run |-> None, out |-> None]
Empty == [bin |-> FALSE, json |-> None, run |-> None, rerun |-> None, noise |-> None]

Init ==
  /\ db = 0 /\ lock = None
  /\ base = Empty /\ cand = None /\ memory = None
  /\ ana = [f \in Families |-> None] /\ merged = NoTargets
  /\ recorded = {} /\ blocked \in SUBSET Signatures
  /\ cmd = None /\ tasks = <<>>
  /\ commands = 0 /\ faults = 0 /\ mine = {} /\ plan = None

(* The first and the last step of each command, and the order of steps.    *)
First ==
  [run |-> "bin", import |-> "bin", baseline_run |-> "bin", baseline_import |-> "bin",
   triage |-> "triage", analysis |-> "spawn", merge |-> "merge"]
Last ==
  [run |-> "merge", import |-> "merge", baseline_run |-> "shows", baseline_import |-> "noise",
   triage |-> "triage", analysis |-> "join", merge |-> "merge"]
After ==
  [bin |-> IF cmd.id = None THEN "bench" ELSE "show",
   bench |-> "ids", ids |-> "shows", shows |-> "triage",
   show |-> "import", import |-> "noise", noise |-> "triage",
   triage |-> "memory", memory |-> "spawn", spawn |-> "join", join |-> "merge"]

At(step) == cmd # None /\ cmd.pc = step
Proceed == cmd' = IF cmd.pc = cmd.last THEN None ELSE [cmd EXCEPT !.pc = After[@]]
Fail == cmd' = None
(* A failure of something outside the program.                             *)
Fault == faults < MaxFaults /\ faults' = faults + 1

(* An import names a run that is in the database.                          *)
ImportId(name) == IF name \in {"import", "baseline_import"} THEN 1..db ELSE {None}

(* A chain reads the history at its start, a command of its own merges     *)
(* with the history as it is then.                                         *)
Begin(name) ==
  /\ cmd = None /\ commands < MaxCommands
  /\ commands' = commands + 1
  /\ \E id \in ImportId(name) :
       cmd' = [pc |-> First[name], last |-> Last[name], id |-> id,
               knew |-> IF name \in {"run", "import"} THEN blocked ELSE None,
               fresh |-> <<base, cand, merged>> = <<Empty, None, NoTargets>>
                         /\ \A f \in Families : ana[f] = None]
  /\ plan' = None
  /\ UNCHANGED <<db, lock, files, recorded, blocked, tasks, faults, mine>>

-----------------------------------------------------------------------------
(* Phases 0a and 0.                                                        *)

(* archive_baseline_binary builds and copies the binary all runs use.      *)
ArchiveBinary ==
  /\ At("bin")
  /\ \/ base' = [base EXCEPT !.bin = TRUE] /\ Proceed /\ UNCHANGED faults
     \/ Fault /\ Fail /\ UNCHANGED base
  /\ UNCHANGED <<db, lock, cand, memory, ana, merged, recorded, blocked, tasks, commands, mine, plan>>

(* BenchClient::invoke of a `bench run`: the lock is waited for, the       *)
(* output file truncated ...                                               *)
BenchStart ==
  /\ At("bench") /\ lock = None
  /\ lock' = "session" /\ base' = [base EXCEPT !.json = None]
  /\ UNCHANGED <<db, cand, memory, ana, merged, recorded, blocked, cmd, tasks, commands, faults, mine, plan>>

(* ... the run enters the database, and the lock is released on any exit.  *)
BenchEnds_KeepsLock ==
  /\ At("bench") /\ lock = "session"
  /\ \/ /\ db < MaxRuns /\ db' = db + 1 /\ mine' = mine \union {db + 1}
        /\ base' = [base EXCEPT !.json = db + 1]
        /\ Proceed /\ UNCHANGED faults /\ lock' = None
     \/ Fault /\ Fail /\ UNCHANGED <<db, base, mine, lock>>
  /\ UNCHANGED <<cand, memory, ana, merged, recorded, blocked, tasks, commands, plan>>
BenchEnds ==
  /\ At("bench") /\ lock = "session"
  /\ lock' = None
  /\ \/ /\ db < MaxRuns /\ db' = db + 1 /\ mine' = mine \union {db + 1}
        /\ base' = [base EXCEPT !.json = db + 1]
        /\ Proceed /\ UNCHANGED faults
     \/ Fault /\ Fail /\ UNCHANGED <<db, base, mine>>
     \/ db = MaxRuns /\ Fail /\ UNCHANGED <<db, base, mine, faults>>
  /\ UNCHANGED <<cand, memory, ana, merged, recorded, blocked, tasks, commands, plan>>

(* The id is read from the run's own output, after the lock is released.   *)
extract_run_id_Latest == db
extract_run_id == base.json

WriteIds ==
  /\ At("ids")
  /\ LET id == extract_run_id
     IN  base' = [base EXCEPT !.run = id, !.rerun = id, !.noise = "configured"]
  /\ Proceed
  /\ UNCHANGED <<db, lock, cand, memory, ana, merged, recorded, blocked, tasks, commands, faults, mine, plan>>

(* `bench list` and `bench show` under the lock.                           *)
Shows ==
  /\ At("shows") /\ lock = None
  /\ \/ Proceed /\ UNCHANGED faults
     \/ Fault /\ Fail
  /\ UNCHANGED <<db, lock, files, recorded, blocked, tasks, commands, mine, plan>>

(* import: `bench show` of the run and of the rerun, ...                   *)
ImportShow ==
  /\ At("show") /\ lock = None
  /\ \/ /\ base' = [base EXCEPT !.json = cmd.id] /\ mine' = mine \union {cmd.id}
        /\ Proceed /\ UNCHANGED faults
     \/ base' = [base EXCEPT !.json = None] /\ Fault /\ Fail /\ UNCHANGED mine
  /\ UNCHANGED <<db, lock, cand, memory, ana, merged, recorded, blocked, tasks, commands, plan>>

(* ... both ids written, list and hotspots under the lock, ...             *)
ImportIds ==
  /\ At("import") /\ lock = None
  /\ \E rerun \in {cmd.id, 1} : base' = [base EXCEPT !.run = cmd.id, !.rerun = rerun]
  /\ \/ Proceed /\ UNCHANGED faults
     \/ Fault /\ Fail
  /\ UNCHANGED <<db, lock, cand, memory, ana, merged, recorded, blocked, tasks, commands, mine, plan>>

(* ... the output checked, and the noise floor set for a single run or     *)
(* removed for two.                                                        *)
ImportNoise ==
  /\ At("noise")
  /\ IF base.json = cmd.id
     THEN /\ base' = [base EXCEPT !.noise = IF base.run = base.rerun THEN "configured" ELSE None]
          /\ Proceed
     ELSE Fail /\ UNCHANGED base
  /\ UNCHANGED <<db, lock, cand, memory, ana, merged, recorded, blocked, tasks, commands, faults, mine, plan>>

-----------------------------------------------------------------------------
(* Phase 1.  The agent is given the ids; afterwards any non-empty          *)
(* candidates.json will do, also one of an earlier attempt.                *)
Triage_NoIdCheck ==
  /\ At("triage")
  /\ \E fams \in SUBSET Families : cand' = [run |-> base.run, fams |-> fams]
  /\ Proceed
  /\ UNCHANGED <<db, lock, base, memory, ana, merged, recorded, blocked, tasks, commands, faults, mine, plan>>
Candidates(fams) == [run |-> base.run, fams |-> fams]
TriageReady == base.run # None /\ base.rerun # None
Triage ==
  /\ At("triage")
  /\ \/ ~TriageReady /\ Fail /\ UNCHANGED <<cand, faults>>
     \/ /\ TriageReady
        /\ \/ \E fams \in SUBSET Families :
                /\ cand' = Candidates(fams)
                /\ \/ Proceed /\ UNCHANGED faults
                   \/ Fault /\ Fail             \* killed, or the tallies are off
           \/ Fault /\ UNCHANGED cand /\ (IF cand = None THEN Fail ELSE Proceed)
           \/ Fault /\ Fail /\ UNCHANGED cand
  /\ UNCHANGED <<db, lock, base, memory, ana, merged, recorded, blocked, tasks, commands, mine, plan>>

(* Phase 1.2, only in the chain.                                           *)
OptimizerMemory ==
  /\ At("memory")
  /\ memory' = cand.fams /\ Proceed
  /\ UNCHANGED <<db, lock, base, cand, ana, merged, recorded, blocked, tasks, commands, faults, mine, plan>>

-----------------------------------------------------------------------------
(* Phase 1.5.  One task per family; no candidates, nothing to do.          *)
SpawnAnalyzers ==
  /\ At("spawn")
  /\ IF cand = None THEN Fail /\ UNCHANGED tasks
     ELSE Proceed /\ tasks' = [f \in cand.fams |-> "waiting"]
  /\ UNCHANGED <<db, lock, files, recorded, blocked, commands, faults, mine, plan>>

Running == {f \in DOMAIN tasks : tasks[f] = "running"}

AcquirePermit(f) ==
  /\ f \in DOMAIN tasks /\ tasks[f] = "waiting" /\ Cardinality(Running) < Parallel
  /\ tasks' = [tasks EXCEPT ![f] = "running"]
  /\ UNCHANGED <<db, lock, files, recorded, blocked, cmd, commands, faults, mine, plan>>

(* What an analyzer writes is about the run its prompt names.              *)
Analysis(a) == [status |-> a.status, targets |-> a.targets, run |-> cand.run]

(* maybe_append_rejection: a failure to record is only logged.             *)
Rejected(a) == a.status = "rejected" \/ a.targets = <<>>

(* The task ends well with analysis a.                                     *)
Settle(f, a) ==
  /\ tasks' = [tasks EXCEPT ![f] = "done"]
  /\ recorded' = IF Rejected(a) THEN recorded \union {f} ELSE recorded

(* The agent writes analysis.json, or leaves that of an earlier attempt,   *)
(* or fails; a file over the invocation cap stays and fails the task.      *)
run_one_NoFileCheck(f) ==
  /\ f \in Running
  /\ \/ \E a \in Analyses[f] :
          /\ ana' = [ana EXCEPT ![f] = Analysis(a)]
          /\ tasks' = [tasks EXCEPT ![f] = "done"] /\ UNCHANGED <<recorded, faults>>
     \/ Fault /\ UNCHANGED <<ana, recorded>> /\ tasks' = [tasks EXCEPT ![f] = "done"]
  /\ UNCHANGED <<db, lock, base, cand, memory, merged, blocked, cmd, commands, mine, plan>>
run_one(f) ==
  /\ f \in Running
  /\ \/ \E a \in Analyses[f] :
          LET new == Analysis(a) IN
          /\ ana' = [ana EXCEPT ![f] = new]
          /\ \/ Settle(f, new) /\ UNCHANGED faults
             \/ /\ Fault /\ UNCHANGED recorded
                /\ \E end \in {"done", "failed"} :    \* the append, or the cap
                     /\ end = "done" => Rejected(new)
                     /\ tasks' = [tasks EXCEPT ![f] = end]
     \/ /\ Fault /\ UNCHANGED ana
        /\ \/ ana[f] # None /\ Settle(f, ana[f])
           \/ tasks' = [tasks EXCEPT ![f] = "failed"] /\ UNCHANGED recorded
  /\ UNCHANGED <<db, lock, base, cand, memory, merged, blocked, cmd, commands, mine, plan>>

(* Every task is waited for, then the first error is returned.             *)
JoinAnalyzers ==
  /\ At("join")
  /\ \A f \in DOMAIN tasks : tasks[f] \in {"done", "failed"}
  /\ tasks' = <<>>
  /\ IF \E f \in DOMAIN tasks : tasks[f] = "failed" THEN Fail ELSE Proceed
  /\ UNCHANGED <<db, lock, files, recorded, blocked, commands, faults, mine, plan>>

-----------------------------------------------------------------------------
(* Phase 1.7.                                                              *)

History == IF cmd.knew = None THEN blocked ELSE cmd.knew
Decisions == dedup_decisions(ana, History)
Vouch == plan' = [knew |-> History, how |-> IF cmd.fresh THEN "fresh" ELSE "again"]

(* Session-level fields are taken from candidates.json.  Of a file that no *)
(* validation has passed only that it is there is kept.                    *)
WriteTargets(out) == merged' = [run |-> cand.run, out |-> out]

MergeNothing ==
  /\ At("merge")
  /\ \/ cand = None /\ Fail /\ UNCHANGED <<merged, plan>>
     \/ /\ cand # None /\ Shown(ana, History) = {}
        /\ WriteTargets([targets |-> {}, rejected |-> dedup_rejections(ana, History), lens |-> accepted(ana)])
        /\ Vouch /\ Proceed
  /\ UNCHANGED <<db, lock, base, cand, memory, ana, recorded, blocked, tasks, commands, faults, mine>>

(* The agent's file is extended by the dedup rows and written back, and    *)
(* only then validated.                                                    *)
MergeWith(out, compliant) ==
  LET full == [out EXCEPT !.rejected = @ \union dedup_rejections(ana, History)]
      ok == validate_merge_output_with_dedup(full, ana, Decisions)
  IN  IF ok THEN WriteTargets(full) /\ Vouch /\ Proceed
      ELSE /\ WriteTargets(None) /\ Fail
           /\ plan' = IF compliant THEN [knew |-> History, how |-> "refused"] ELSE None

MergeAgent(renumbers) ==
  /\ At("merge") /\ cand # None /\ Shown(ana, History) # {}
  /\ \E out \in Compliant(ana, History, renumbers) :
       \/ MergeWith(out, ~renumbers) /\ UNCHANGED faults
       \/ Fault /\ \E slip \in Slips(ana, out) : MergeWith(slip, FALSE)
       \/ Fault /\ WriteTargets(None) /\ Fail /\ plan' = None   \* killed after writing
  /\ UNCHANGED <<db, lock, base, cand, memory, ana, recorded, blocked, tasks, commands, mine>>

(* The agent fails, or returns without refreshing the file.                *)
MergeAgentFails ==
  /\ At("merge") /\ cand # None /\ Shown(ana, History) # {}
  /\ Fault /\ Fail
  /\ UNCHANGED <<db, lock, files, recorded, blocked, tasks, commands, mine, plan>>

-----------------------------------------------------------------------------
(* The clean commands, each for the directories of its phases.             *)
BaselineClean == base' = Empty /\ UNCHANGED <<cand, ana, merged>>
TriageClean == cand' = None /\ UNCHANGED <<base, ana, merged>>
AnalysisClean == ana' = [f \in Families |-> None] /\ merged' = NoTargets /\ UNCHANGED <<base, cand>>
Clean ==
  /\ cmd = None /\ commands < MaxCommands /\ commands' = commands + 1
  /\ BaselineClean \/ TriageClean \/ AnalysisClean
  /\ plan' = None
  /\ UNCHANGED <<db, lock, memory, recorded, blocked, cmd, tasks, faults, mine>>

(* The command is killed, its agents with it; the kernel frees the lock.   *)
Kill ==
  /\ cmd # None /\ Fault /\ Fail
  /\ tasks' = <<>> /\ lock' = IF lock = "session" THEN None ELSE lock
  /\ UNCHANGED <<db, files, recorded, blocked, commands, mine, plan>>

(* A session of another operator or scheduler on this machine.             *)
OtherStarts ==
  /\ lock = None /\ db < MaxRuns /\ lock' = "other"
  /\ UNCHANGED <<db, files, recorded, blocked, cmd, tasks, commands, faults, mine, plan>>
OtherEnds ==
  /\ lock = "other" /\ lock' = None
  /\ db' = IF db < MaxRuns THEN db + 1 ELSE db
  /\ UNCHANGED <<files, recorded, blocked, cmd, tasks, commands, faults, mine, plan>>

(* Another session is archived, or maintain records an event.              *)
HistoryMoves ==
  /\ Fault /\ \E b \in SUBSET Signatures : b # blocked /\ blocked' = b
  /\ UNCHANGED <<db, lock, files, recorded, cmd, tasks, commands, mine, plan>>

-----------------------------------------------------------------------------
Work ==
  \/ ArchiveBinary \/ BenchEnds \/ WriteIds \/ ImportNoise
  \/ Triage \/ OptimizerMemory
  \/ SpawnAnalyzers \/ JoinAnalyzers
  \/ MergeNothing \/ (\E r \in BOOLEAN : MergeAgent(r)) \/ MergeAgentFails
WaitForLock == BenchStart \/ Shows \/ ImportShow \/ ImportIds

Next ==
  \/ \E name \in DOMAIN First : Begin(name)
  \/ Work \/ WaitForLock
  \/ \E f \in Families : AcquirePermit(f) \/ run_one(f)
  \/ Clean \/ Kill \/ OtherStarts \/ OtherEnds \/ HistoryMoves

Spec == Init /\ [][Next]_vars

(* A command's own steps are taken, agents are ended by their timeout, the *)
(* others' benchmark runs end, and a waiter gets the lock in the end.      *)
FairSpec ==
  /\ Spec
  /\ WF_vars(Work) /\ SF_vars(WaitForLock) /\ WF_vars(OtherEnds)
  /\ WF_vars(\E f \in Families : AcquirePermit(f) \/ run_one(f))

-----------------------------------------------------------------------------
(* `session validate`, as far as these phases go.                          *)
validate ==
  /\ base.json # None /\ base.run # None /\ base.rerun # None
  /\ cand # None /\ merged # NoTargets
  /\ \A f \in cand.fams : ana[f] # None
  /\ check_target_coverage(ana, merged.out) /\ check_lens_disposition_coverage(ana, merged.out)

TypeOK ==
  /\ db \in 0..MaxRuns /\ mine \subseteq 1..db
  /\ base \in BaselineFiles /\ cand \in CandidatesFile \union {None}
  /\ memory \in {None} \union SUBSET Families
  /\ ana \in [Families -> AnalysisFile \union {None}]
  /\ merged.run \in Ids \union {None} /\ plan \in Vouched \union {None}
  /\ recorded \subseteq Families /\ blocked \subseteq Signatures
  /\ cmd \in Command \union {None}
  /\ DOMAIN tasks \subseteq Families
  /\ \A f \in DOMAIN tasks : tasks[f] \in {"waiting", "running", "done", "failed"}
  /\ commands \in 0..MaxCommands /\ faults \in 0..MaxFaults
  /\ lock \in {None, "session", "other"} /\ (lock = "session" => At("bench"))

(* Whoever else benchmarks on this machine, baseline/run-id names a run    *)
(* that this session executed or imported.                                 *)
RunIdIsOwn == base.run # None => base.run \in mine

(* A merge that succeeded accounts for every finding on disk once, plans   *)
(* nothing the history it read blocks, and credits every target to the     *)
(* findings the agent meant: a slip in numbering is never silent.          *)
PlanIsSound ==
  (plan # None /\ plan.how # "refused") =>
    /\ \A p \in expected_pairs(ana) :
         Cardinality({t \in merged.out.targets : p \in t.from})
           + Cardinality({r \in merged.out.rejected : r.pair = p}) = 1
    /\ \A t \in merged.out.targets : t.from = t.means
    /\ \A p \in expected_pairs(ana) :
         Finding(ana, p).sig \in plan.knew <=> [pair |-> p, reason |-> "dedup"] \in merged.out.rejected

(* What merge accepts, `session validate` accepts: its coverage checks     *)
(* always, and all it asks of these phases after a chain on an empty       *)
(* session.                                                                *)
ValidateAgreesWithMerge ==
  (plan # None /\ plan.how # "refused") =>
    /\ check_target_coverage(ana, merged.out) /\ check_lens_disposition_coverage(ana, merged.out)
    /\ plan.how = "fresh" => validate

(* The plan of a chain that began on an empty session is about one         *)
(* baseline run, and every family of its triage has been analysed.         *)
PlanIsOfOneBaseline ==
  (plan # None /\ plan.how = "fresh") =>
    /\ merged.run = cand.run
    /\ {f \in Families : ana[f] # None} = cand.fams
    /\ \A f \in cand.fams : ana[f].run = cand.run
    /\ cand.run = base.run /\ base.run \in mine

(* Every command ends, whatever fails and whoever holds the lock.          *)
CommandEnds == cmd # None ~> cmd = None

(* An agent that keeps to the template, which has it use the dedup rows    *)
(* only for the summary, is not refused.                                   *)
CompliantMergeSucceeds == plan # None => plan.how # "refused"
=============================================================================
