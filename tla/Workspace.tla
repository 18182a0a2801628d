------------------------------ MODULE Workspace ------------------------------
(***************************************************************************)
(* The agent workspace of one machine and the commands that share it: a    *)
(* directory per session with its run marker (run_pid.rs), its source.json *)
(* and its checkouts, and `workspace prune` (workspace.rs).  The modules   *)
(* Source and Archive add the steps of `session run` and of archiving;     *)
(* Operator puts them together.                                            *)
(*                                                                         *)
(* Removing one session directory is one step: a prune that is killed      *)
(* stops between directories.                                              *)
(***************************************************************************)
EXTENDS Integers, Sequences, FiniteSets

CONSTANTS
  Sessions,     \* session ids of this machine
  Foreign,      \* session ids that other machines archive
  Procs,        \* slots for commands; a slot is also the pid of its command
  CacheIds,     \* values [source].id is given over time
  MaxCommands,  \* bound on the commands started
  MaxResults,   \* bound on the changes to a session's results
  MaxUpstream,  \* bound on the commits of the source branch
  MaxPeers,     \* bound on what other machines push
  MaxFaults,    \* bound on kills and failing network calls
  None

ASSUME WorkspaceAssumption ==
  /\ None \notin Procs /\ None \notin Int /\ None \notin [k : CacheIds, sha : Nat]
  /\ Sessions \cap Foreign = {}    \* ids are made of time and chance
  /\ MaxCommands \in Nat /\ MaxResults \in Nat /\ MaxUpstream \in Nat
  /\ MaxPeers \in Nat /\ MaxFaults \in Nat

VARIABLES
  dir,       \* the session directories
  proc,      \* the commands that run
  cache,     \* the bare clones under cache/
  lock,      \* the materialization locks, one per cache id
  upstream,  \* the tip of the source branch on GitHub, as a number
  repo,      \* the operator repository: main, working tree, session branches
  origin,    \* its remote
  shared,    \* sessions two runs of which ran at once; no part of the machine
  crossed,   \* sessions a prune chose against a run, see RunStart; neither is it
  used,      \* commands started so far
  faults

vars == <<dir, proc, cache, lock, upstream, repo, origin, shared, crossed, used, faults>>

Partial == -1      \* what a killed `git clone` leaves

Absent == [exists |-> FALSE, pid |-> None, source |-> None,
           checkout |-> [k \in CacheIds |-> None], results |-> 0, pruned |-> "no"]

Idle == [cmd |-> "idle", s |-> None, pc |-> "", k |-> None, sha |-> None, since |-> 0,
         dry |-> FALSE, only |-> FALSE, doomed |-> {}, tries |-> 0]

At(p, pc) == proc[p].pc = pc
Becomes(p, c) == proc' = [proc EXCEPT ![p] = c]
Goto(p, pc) == Becomes(p, [proc[p] EXCEPT !.pc = pc])
Store(s, d) == dir' = [dir EXCEPT ![s] = d]
Of(p) == dir[proc[p].s]
Running(s) == {p \in Procs : proc[p].cmd = "run" /\ proc[p].s = s}

Release(p) == lock' = [k \in CacheIds |-> IF lock[k] = p THEN None ELSE lock[k]]

(* run_pid::clear, from the guard's drop: whosever marker it is.           *)
clear(d) == [d EXCEPT !.pid = None]

(* The command returns, with success or not; guards release what it holds. *)
Finish(p) ==
  /\ Becomes(p, Idle)
  /\ IF proc[p].cmd = "run" THEN Store(proc[p].s, clear(Of(p))) ELSE UNCHANGED dir
  /\ Release(p)

-----------------------------------------------------------------------------
(* `session run` past its preflight: the directory and the marker, which   *)
(* replaces any other.  Nothing looks for another run of the session, nor  *)
(* for a prune; what that leads to is told apart from the rest: a session  *)
(* is shared once two runs of it ran at the same time, and crossed once a  *)
(* prune had chosen it before the run, or did so while two runs shared it  *)
(* and its marker.                                                         *)
RunStart(p, s, k) ==
  /\ proc[p].cmd = "idle" /\ used < MaxCommands
  /\ used' = used + 1
  /\ shared' = IF Running(s) # {} THEN shared \cup {s} ELSE shared
  /\ crossed' = IF \E q \in Procs : s \in proc[q].doomed THEN crossed \cup {s} ELSE crossed
  /\ Store(s, [dir[s] EXCEPT !.exists = TRUE, !.pid = p, !.pruned = "no"])
  /\ Becomes(p, [Idle EXCEPT !.cmd = "run", !.s = s, !.pc = "source", !.k = k, !.since = upstream])
  /\ UNCHANGED <<cache, lock, upstream, repo, origin, faults>>

(* A phase of the run changes the session's results.                       *)
Work(p) ==
  /\ At(p, "work") /\ Of(p).exists /\ Of(p).results < MaxResults
  /\ Store(proc[p].s, [Of(p) EXCEPT !.results = @ + 1])
  /\ UNCHANGED <<proc, cache, lock, upstream, repo, origin, shared, crossed, used, faults>>

EndRun(p) ==
  /\ At(p, "work")
  /\ Finish(p)
  /\ UNCHANGED <<cache, upstream, repo, origin, shared, crossed, used, faults>>

-----------------------------------------------------------------------------
(* A line of sessions.jsonl counts when it parses: append_ledger writes    *)
(* the record and then the line end, and without the line end the next     *)
(* record is appended to the same line.                                    *)
Readable(l, i) == (i = 1 \/ l[i-1].end) /\ (l[i].end \/ i = Len(l))
read_archived_ids(l) == {l[i].id : i \in {j \in DOMAIN l : Readable(l, j)}}

is_live(pid) == pid # None /\ proc[pid].cmd # "idle"

(* The first reason that applies, in this order.  young: the directory's   *)
(* mtime is within the threshold, which any directory's may be.            *)
decide_skip(s, archived_only, older_than, young) ==
  IF is_live(dir[s].pid) THEN "LiveSession"
  ELSE IF ~archived_only /\ ~older_than THEN "NoFilter"
  ELSE IF archived_only /\ s \notin read_archived_ids(repo.tree) THEN "NotArchived"
  ELSE IF older_than /\ young THEN "YoungerThanThreshold"
  ELSE "None"

(* prune decides on every directory of the sessions root first ...         *)
PruneStart(p, archived_only, older_than, young) ==
  /\ proc[p].cmd = "idle" /\ used < MaxCommands
  /\ used' = used + 1
  /\ LET doomed == {s \in Sessions :
                      /\ dir[s].exists
                      /\ decide_skip(s, archived_only, older_than, s \in young) = "None"}
     IN  /\ Becomes(p, [Idle EXCEPT !.cmd = "prune", !.pc = "delete", !.only = archived_only,
                                       !.doomed = doomed])
         /\ crossed' = crossed \cup {s \in doomed \cap shared : Running(s) # {}}
  /\ UNCHANGED <<dir, cache, lock, upstream, repo, origin, shared, faults>>

(* ... and then removes the ones it chose, without a second look.  One     *)
(* that is gone already fails the command.                                 *)
Delete(p, s) ==
  /\ At(p, "delete") /\ s \in proc[p].doomed /\ dir[s].exists
  /\ Store(s, [Absent EXCEPT !.pruned = IF proc[p].only THEN "archived" ELSE "any"])
  /\ Becomes(p, [proc[p] EXCEPT !.doomed = @ \ {s}])
  /\ UNCHANGED <<cache, lock, upstream, repo, origin, shared, crossed, used, faults>>

PruneEnd(p) ==
  /\ At(p, "delete")
  /\ proc[p].doomed = {} \/ \E s \in proc[p].doomed : ~dir[s].exists
  /\ Finish(p)
  /\ UNCHANGED <<cache, upstream, repo, origin, shared, crossed, used, faults>>
=============================================================================
