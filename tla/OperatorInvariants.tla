------------------------- MODULE OperatorInvariants -------------------------
(***************************************************************************)
(* What holds between the steps of Operator and makes its invariants       *)
(* inductive: who holds which lock and how far it has come, what a prune   *)
(* has decided, and how the ledgers of the working tree, of main and of    *)
(* origin are related.                                                     *)
(***************************************************************************)
EXTENDS Operator

(* Where a command is says what it is.                                     *)
ControlOf(p) ==
  /\ proc[p].cmd = "idle" => proc[p] = Idle
  /\ proc[p].pc \in SourceSteps \cup {"work"} => proc[p].cmd = "run" /\ proc[p].k \in CacheIds
  /\ proc[p].pc \in Steps => proc[p].cmd \in {"run", "archive"}
  /\ proc[p].pc = "delete" <=> proc[p].cmd = "prune"
  /\ proc[p].cmd \in {"run", "archive"} => proc[p].s \in Sessions
  /\ proc[p].since \in 0..upstream
Control == \A p \in Procs : ControlOf(p)

(* From the lock to source.json: the lock is held, no source.json names    *)
(* the checkout that is being made, and the cache is new enough.           *)
MaterializingOf(p) ==
  /\ proc[p].pc \in {"recheck", "cache", "clone", "write"} => lock[proc[p].k] = p
  /\ proc[p].pc \in {"cache", "clone", "write"} =>
       Of(p).source = None \/ Of(p).source.k # proc[p].k
  /\ At(p, "clone") => cache[proc[p].k] \in proc[p].since..MaxUpstream
  /\ At(p, "write") => proc[p].sha \in proc[p].since..MaxUpstream
Materializing == \A p \in Procs : MaterializingOf(p)

(* Unless a prune has crossed a run of the session: what source.json names *)
(* is there, so is what a run has just cloned, a run has its own source    *)
(* and, if the session was never shared, its own marker, and no prune has  *)
(* chosen its session.                                                     *)
SourceIsThere(s) ==
  dir[s].source # None => dir[s].exists /\ dir[s].checkout[dir[s].source.k] = dir[s].source.sha
RunIsSafe(p) ==
  /\ At(p, "write") => Of(p).checkout[proc[p].k] = proc[p].sha
  /\ At(p, "work") => /\ Of(p).exists /\ Of(p).source \in SourceJson
                      /\ Of(p).source = [k |-> proc[p].k, sha |-> proc[p].sha]
                      /\ Of(p).checkout[proc[p].k] = proc[p].sha
  /\ proc[p].s \notin shared => Of(p).pid = p
  /\ \A q \in Procs : proc[p].s \notin proc[q].doomed
Kept ==
  /\ \A s \in Sessions \ crossed : SourceIsThere(s)
  /\ \A p \in Procs : proc[p].cmd = "run" /\ proc[p].s \notin crossed => RunIsSafe(p)

-----------------------------------------------------------------------------
OwnLines(l) == {i \in DOMAIN l : l[i].id \in Sessions}
ReadLines(l) == {i \in OwnLines(l) : Readable(l, i)}
LastEnded(l) == l # <<>> => l[Len(l)].end

(* A session has one readable line at most ...                             *)
Once(l) == \A i, j \in ReadLines(l) : l[i].id = l[j].id => i = j
(* ... that names what origin's branch of the session holds ...            *)
Backed(l, theirs) == \A i \in ReadLines(l) : ~l[i].dry => theirs[l[i].id] = l[i].sha
(* ... and whose branch has been made here.                                *)
Branched(l, ours) == \A i \in OwnLines(l) : ours[l[i].id] \in Nat

(* l and origin's ledger m begin with the same n lines; after them l has   *)
(* lines of this machine and m complete lines of others.                   *)
Forked(l, m, n) ==
  /\ n <= Len(l) /\ n <= Len(m) /\ \A i \in 1..n : l[i] = m[i]
  /\ \A i \in (n+1)..Len(l) : l[i].id \in Sessions
  /\ \A i \in (n+1)..Len(m) : m[i].id \notin Sessions
  /\ n < Len(m) => \A i \in 1..Len(m) : i >= n => m[i].end

Sound(l, m, theirs, ours) ==
  /\ Once(l) /\ Backed(l, theirs) /\ Branched(l, ours)
  /\ \E n \in 0..Len(l) : Forked(l, m, n)

(* All three ledgers are sound, and origin's ends with a complete line.    *)
Ledgers ==
  /\ Sound(repo.head.lines, origin.main.lines, origin.branch, repo.branch)
  /\ Sound(repo.tree, origin.main.lines, origin.branch, repo.branch)
  /\ Sound(origin.main.lines, origin.main.lines, origin.branch, repo.branch)
  /\ LastEnded(origin.main.lines)

(* The line an archive is about to commit.                                 *)
Record(p, ended) == [id |-> proc[p].s, sha |-> proc[p].sha, dry |-> proc[p].dry, end |-> ended]

(* One archive at a time, and what it has done so far.                     *)
OneArchive == \A p, q \in Procs : proc[p].pc \in Steps /\ proc[q].pc \in Steps => p = q
ProgressOf(p) ==
  /\ proc[p].pc \in Steps \ {"check"} => ~repo.rebasing
  /\ proc[p].pc \in {"branch", "pushbranch", "pull", "append", "push", "retry"} =>
       repo.tree = repo.head.lines
  /\ At(p, "newline") => repo.tree = Append(repo.head.lines, Record(p, FALSE))
  /\ At(p, "commit") => repo.tree = Append(repo.head.lines, Record(p, TRUE))
  /\ proc[p].pc \in {"branch", "pushbranch", "pull", "append", "newline"} =>
       proc[p].s \notin read_archived_ids(repo.head.lines)
  /\ proc[p].pc \in {"pushbranch", "pull", "append", "newline", "commit"} =>
       /\ proc[p].sha \in 0..MaxResults /\ repo.branch[proc[p].s] = proc[p].sha
  /\ proc[p].pc \in {"pull", "append", "newline", "commit"} /\ ~proc[p].dry =>
       origin.branch[proc[p].s] = proc[p].sha
  /\ proc[p].pc \in {"push", "retry"} => repo.head.lines # <<>> /\ LastEnded(repo.head.lines)
Progress == \A p \in Procs : ProgressOf(p)

(* A prune that asked for archived sessions only has found their branches. *)
Doomed ==
  \A p \in Procs : proc[p].only => \A s \in proc[p].doomed : repo.branch[s] \in Nat

IInv ==
  /\ TypeOK /\ Control /\ Materializing /\ Kept
  /\ Ledgers /\ OneArchive /\ Progress /\ Doomed /\ PrunedIsArchived
=============================================================================
