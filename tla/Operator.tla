------------------------------ MODULE Operator ------------------------------
(***************************************************************************)
(* The commands that meet on an operator's machine: session runs with      *)
(* their source and their archive, `session archive`, `workspace prune`,   *)
(* kills at any point, the operator's repairs and the peers on origin.     *)
(***************************************************************************)
EXTENDS Source, Archive

Init ==
  /\ dir = [s \in Sessions |-> Absent]
  /\ proc = [p \in Procs |-> Idle]
  /\ cache = [k \in CacheIds |-> None]
  /\ lock = [k \in CacheIds |-> None]
  /\ upstream = 0
  /\ repo = [head |-> [lines |-> <<>>, other |-> 0], tree |-> <<>>, rebasing |-> FALSE,
             onto |-> 0, branch |-> [s \in Sessions |-> None]]
  /\ origin = [main |-> [lines |-> <<>>, other |-> 0], branch |-> [s \in Sessions |-> None]]
  /\ shared = {} /\ crossed = {}
  /\ used = 0 /\ faults = 0

(* SIGKILL, or SIGINT: nothing is unwound.  The system drops the locks;    *)
(* the marker stays, and so does half a clone.                             *)
Kill(p) ==
  /\ proc[p].cmd # "idle" /\ faults < MaxFaults
  /\ faults' = faults + 1
  /\ Becomes(p, Idle)
  /\ Release(p)
  /\ \/ UNCHANGED <<dir, cache>>
     \/ /\ At(p, "cache") /\ cache[proc[p].k] = None
        /\ cache' = [cache EXCEPT ![proc[p].k] = Partial]
        /\ UNCHANGED dir
     \/ /\ At(p, "clone")
        /\ \E left \in {None, Partial} :
             Store(proc[p].s, [Of(p) EXCEPT !.checkout[proc[p].k] = left])
        /\ UNCHANGED cache
  /\ UNCHANGED <<upstream, repo, origin, shared, crossed, used>>

(* What a command does by itself once it has started.                      *)
Step(p) ==
  \/ EndRun(p) \/ PruneEnd(p) \/ \E s \in Sessions : Delete(p, s)
  \/ ReadSource(p) \/ AcquireLock(p) \/ Recheck(p) \/ ensure_cache(p)
  \/ clone_session_checkout(p) \/ WriteSource(p)
  \/ CheckArchive(p) \/ CommitBranch(p) \/ PushBranch(p) \/ pull_rebase(p)
  \/ AppendRecord(p) \/ AppendLineEnd(p) \/ stage_and_commit(p) \/ PushMain(p) \/ PushRefused(p)

Next ==
  \/ \E p \in Procs :
       \/ Step(p)
       \/ \E s \in Sessions, k \in CacheIds : RunStart(p, s, k)
       \/ \E archived_only, older_than \in BOOLEAN, young \in SUBSET Sessions :
            PruneStart(p, archived_only, older_than, young)
       \/ \E s \in Sessions, dry_run \in BOOLEAN : ArchiveStart(p, s, dry_run)
       \/ Work(p) \/ RunArchives(p) \/ FetchFails(p) \/ NetworkFails(p) \/ Kill(p)
  \/ Upstream \/ Restore \/ CommitByHand \/ FinishRebase \/ AbortRebase
  \/ \E f \in Foreign : PeerArchives(f)
  \/ PeerCommits

Spec == Init /\ [][Next]_vars

-----------------------------------------------------------------------------
Shas == -1..MaxUpstream
Versions == -1..MaxResults
Commands == {"idle", "run", "archive", "prune"}
SourceSteps == {"source", "lock", "recheck", "cache", "clone", "write"}

Line == [id : Sessions \cup Foreign, sha : 0..MaxResults, dry : BOOLEAN, end : BOOLEAN]
Tip == [lines : Seq(Line), other : 0..MaxPeers]
SourceJson == [k : CacheIds, sha : 0..MaxUpstream]
Directory == [exists : BOOLEAN, pid : Procs \cup {None}, source : SourceJson \cup {None},
              checkout : [CacheIds -> Shas \cup {None}], results : 0..MaxResults,
              pruned : {"no", "archived", "any"}]
Process == [cmd : Commands, s : Sessions \cup {None},
            pc : Steps \cup SourceSteps \cup {"", "work", "delete"},
            k : CacheIds \cup {None}, sha : Shas \cup Versions \cup {None}, since : 0..MaxUpstream,
            dry : BOOLEAN, only : BOOLEAN, doomed : SUBSET Sessions, tries : 0..Retries]

(* Every directory, command, cache and ledger has the shape the code gives *)
(* it; in particular source.json never names half a clone, and no ledger   *)
(* line names a version that never was.                                    *)
TypeOK ==
  /\ dir \in [Sessions -> Directory]
  /\ proc \in [Procs -> Process]
  /\ cache \in [CacheIds -> Shas \cup {None}] /\ lock \in [CacheIds -> Procs \cup {None}]
  /\ upstream \in 0..MaxUpstream
  /\ repo \in [head : Tip, tree : Seq(Line), rebasing : BOOLEAN, onto : 0..MaxPeers,
               branch : [Sessions -> Versions \cup {None}]]
  /\ origin \in [main : Tip, branch : [Sessions -> Versions \cup {None}]]
  /\ shared \subseteq Sessions /\ crossed \subseteq Sessions
  /\ used \in 0..MaxCommands /\ faults \in 0..MaxFaults

(* A run that works has the source that source.json names, in a complete   *)
(* checkout, for as long as it works: no second run, no prune and no crash *)
(* of either takes it away or swaps it (materialize_session_source, the    *)
(* run marker and decide_skip), but for the races PrunesSpareLiveRuns is   *)
(* about.                                                                  *)
LiveRunKeepsItsWorkspace ==
  \A p \in Procs :
    At(p, "work") /\ proc[p].s \notin crossed =>
      /\ Of(p).exists
      /\ Of(p).source = [k |-> proc[p].k, sha |-> proc[p].sha]
      /\ Of(p).checkout[proc[p].k] = proc[p].sha

(* A prune refuses the directory of a session that runs                    *)
(* (docs/operations.md:221, live-session refusal).  Not true of the code:  *)
(* no run has this definition (README, Disagreements found).               *)
PrunesSpareLiveRuns ==
  [][\A s \in Sessions : dir[s].exists /\ Running(s) # {} => dir'[s].exists]_vars

(* A session starts from a source at least as new as the branch was when   *)
(* the run began, whoever filled the cache before (ensure_cache's fetch).  *)
FreshSource == \A p \in Procs : At(p, "write") => proc[p].sha >= proc[p].since

(* Once the ledger has a session, its branch never moves, neither here nor *)
(* on origin (docs/session-archive.md, the write-once contract).           *)
ArchiveIsPermanent ==
  [][\A s \in read_archived_ids(repo.head.lines) \cap Sessions :
       repo'.branch[s] = repo.branch[s] /\ origin'.branch[s] = origin.branch[s]]_vars

(* On origin a session has one line at most, and the line of an archive    *)
(* that was not a dry run names what origin's branch of the session holds: *)
(* the branch is there first (archive, steps 4 to 6).                      *)
LedgerIsSound ==
  LET l == origin.main.lines
      lines == {i \in DOMAIN l : Readable(l, i) /\ l[i].id \in Sessions}
  IN  /\ \A i, j \in lines : l[i].id = l[j].id => i = j
      /\ \A i \in lines : ~l[i].dry => origin.branch[l[i].id] = l[i].sha

(* What `prune --archived-only` removed is on a session branch.            *)
PrunedIsArchived ==
  \A s \in Sessions : dir[s].pruned = "archived" => repo.branch[s] \in Nat

(* A peer's append that got there first is absorbed by the rebase.         *)
PeerAppendIsAbsorbed == ~repo.rebasing

=============================================================================
