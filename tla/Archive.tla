------------------------------- MODULE Archive -------------------------------
(***************************************************************************)
(* Phase 6 (archive.rs): a session's results go to the branch session/<id> *)
(* of the operator repository and one line to sessions.jsonl on main, and  *)
(* both to origin; other machines append to the same main branch.  Git     *)
(* itself is external: appends of two sides to the end of one file are a   *)
(* conflict of their rebase, commits to other files are not.               *)
(*                                                                         *)
(* One archive at a time runs in the working copy; nothing in the code     *)
(* sees to that.                                                           *)
(***************************************************************************)
EXTENDS Workspace

Steps == {"check", "branch", "pushbranch", "pull", "append", "newline", "commit", "push", "retry"}
Archiving == \E q \in Procs : proc[q].pc \in Steps

(* What `session archive` needs before anything else is source.json.       *)
ArchiveStart(p, s, dry_run) ==
  /\ proc[p].cmd = "idle" /\ used < MaxCommands /\ ~Archiving
  /\ dir[s].source # None
  /\ used' = used + 1
  /\ Becomes(p, [Idle EXCEPT !.cmd = "archive", !.s = s, !.pc = "check", !.dry = dry_run])
  /\ UNCHANGED <<dir, cache, lock, upstream, repo, origin, shared, crossed, faults>>

(* Phase 6 of `session run --archive`, in the run's process.               *)
RunArchives(p) ==
  /\ At(p, "work") /\ ~Archiving
  /\ Becomes(p, [proc[p] EXCEPT !.pc = "check", !.k = None, !.sha = None])
  /\ UNCHANGED <<dir, cache, lock, upstream, repo, origin, shared, crossed, used, faults>>

(* ledger_contains_id looks at the working tree; then HEAD must be on a    *)
(* branch and the tree clean.                                              *)
ensure_clean_worktree == repo.tree = repo.head.lines
ledger_contains_id_Pushed(s) == s \in read_archived_ids(origin.main.lines)
ledger_contains_id(s) == s \in read_archived_ids(repo.tree)

CheckArchive(p) ==
  /\ At(p, "check")
  /\ IF ledger_contains_id(proc[p].s) \/ repo.rebasing \/ ~ensure_clean_worktree
     THEN Finish(p)
     ELSE Goto(p, "branch") /\ UNCHANGED <<dir, lock>>
  /\ UNCHANGED <<cache, upstream, repo, origin, shared, crossed, used, faults>>

(* The results as they are now.                                            *)
copy_dir_recursive(p) == Of(p).results

(* run_in_archive_worktree up to the commit: the branch is made from main  *)
(* or used again, the results are copied into it.                          *)
CommitBranch_Skipped(p) ==
  /\ At(p, "branch")
  /\ Becomes(p, [proc[p] EXCEPT !.pc = "append", !.sha = Of(p).results])
  /\ UNCHANGED <<dir, cache, lock, upstream, repo, origin, shared, crossed, used, faults>>
CommitBranch(p) ==
  /\ At(p, "branch")
  /\ IF Of(p).exists
     THEN /\ repo' = [repo EXCEPT !.branch[proc[p].s] = copy_dir_recursive(p)]
          /\ Becomes(p, [proc[p] EXCEPT !.pc = IF proc[p].dry THEN "append" ELSE "pushbranch",
                                        !.sha = copy_dir_recursive(p)])
          /\ UNCHANGED <<dir, lock>>
     ELSE /\ repo' = [repo EXCEPT !.branch[proc[p].s] = IF @ = None THEN Partial ELSE @]
          /\ Finish(p)
  /\ UNCHANGED <<cache, upstream, origin, shared, crossed, used, faults>>

(* The branch's one push; without success the archive ends here.           *)
PushBranch_Deferred(p) ==
  /\ At(p, "pushbranch")
  /\ Goto(p, "pull")
  /\ UNCHANGED <<dir, cache, lock, upstream, repo, origin, shared, crossed, used, faults>>
PushBranch(p) ==
  /\ At(p, "pushbranch")
  /\ origin' = [origin EXCEPT !.branch[proc[p].s] = repo.branch[proc[p].s]]
  /\ Goto(p, "pull")
  /\ UNCHANGED <<dir, cache, lock, upstream, repo, shared, crossed, used, faults>>

NetworkFails(p) ==
  /\ proc[p].pc \in {"pushbranch", "pull", "retry"} /\ faults < MaxFaults
  /\ faults' = faults + 1
  /\ Finish(p)
  /\ UNCHANGED <<cache, upstream, repo, origin, shared, crossed, used>>

IsAPrefix(l, m) == Len(l) <= Len(m) /\ \A i \in 1..Len(l) : l[i] = m[i]

(* The number of lines with which both ledgers begin.                      *)
Agree(l, m) ==
  CHOOSE n \in 0..Len(l) :
    /\ n <= Len(m) /\ \A i \in 1..n : l[i] = m[i]
    /\ n < Len(l) /\ n < Len(m) => l[n+1] # m[n+1]

(* The lines the working copy has and origin has not.                      *)
Ahead ==
  SubSeq(repo.head.lines, Agree(repo.head.lines, origin.main.lines) + 1, Len(repo.head.lines))

(* fetch and rebase, before the append and before each further push.  When *)
(* both sides have appended, git stops in the middle of the rebase with    *)
(* the two sides in the file, and the archive fails.                       *)
pull_rebase(p) ==
  /\ proc[p].pc \in {"pull", "retry"}
  /\ IF repo.head.lines # origin.main.lines
        /\ ~IsAPrefix(origin.main.lines, repo.head.lines)
        /\ ~IsAPrefix(repo.head.lines, origin.main.lines)
     THEN /\ repo' = [repo EXCEPT !.rebasing = TRUE, !.onto = origin.main.other,
                                  !.tree = origin.main.lines \o Ahead]
          /\ Finish(p)
     ELSE /\ LET lines == origin.main.lines \o Ahead IN
             repo' = [repo EXCEPT !.head = [lines |-> lines, other |-> origin.main.other],
                                  !.tree = lines]
          /\ Goto(p, IF At(p, "pull") THEN "append" ELSE "push")
          /\ UNCHANGED <<dir, lock>>
  /\ UNCHANGED <<cache, upstream, origin, shared, crossed, used, faults>>

(* The line names what the branch holds.                                   *)
build_session_record_NoSha(p) == [id |-> proc[p].s, sha |-> None, dry |-> proc[p].dry, end |-> FALSE]
build_session_record(p) == [id |-> proc[p].s, sha |-> proc[p].sha, dry |-> proc[p].dry, end |-> FALSE]

(* append_ledger: the record, then the line end.                           *)
AppendRecord(p) ==
  /\ At(p, "append")
  /\ repo' = [repo EXCEPT !.tree = Append(@, build_session_record(p))]
  /\ Goto(p, "newline")
  /\ UNCHANGED <<dir, cache, lock, upstream, origin, shared, crossed, used, faults>>

AppendLineEnd(p) ==
  /\ At(p, "newline")
  /\ repo' = [repo EXCEPT !.tree[Len(repo.tree)].end = TRUE]
  /\ Goto(p, "commit")
  /\ UNCHANGED <<dir, cache, lock, upstream, origin, shared, crossed, used, faults>>

stage_and_commit(p) ==
  /\ At(p, "commit")
  /\ repo' = [repo EXCEPT !.head.lines = repo.tree]
  /\ IF proc[p].dry THEN Finish(p) ELSE Goto(p, "push") /\ UNCHANGED <<dir, lock>>
  /\ UNCHANGED <<cache, upstream, origin, shared, crossed, used, faults>>

(* push_or_retry: a push that is refused or fails is followed by a rebase  *)
(* and another push, three times.                                          *)
CanPush == /\ origin.main.other = repo.head.other
           /\ IsAPrefix(origin.main.lines, repo.head.lines)

PushMain(p) ==
  /\ At(p, "push") /\ CanPush
  /\ origin' = [origin EXCEPT !.main = repo.head]
  /\ Finish(p)
  /\ UNCHANGED <<cache, upstream, repo, shared, crossed, used, faults>>

Retries == 3
PushRefused(p) ==
  /\ At(p, "push")
  /\ \/ ~CanPush /\ UNCHANGED faults
     \/ faults < MaxFaults /\ faults' = faults + 1
  /\ IF proc[p].tries = Retries
     THEN Finish(p)
     ELSE /\ Becomes(p, [proc[p] EXCEPT !.pc = "retry", !.tries = @ + 1])
          /\ UNCHANGED <<dir, lock>>
  /\ UNCHANGED <<cache, upstream, repo, origin, shared, crossed, used>>

-----------------------------------------------------------------------------
(* What the operator does about a working copy that archive refuses: throw *)
(* away or commit what a killed archive left, finish or abort a rebase.    *)
Restore ==
  /\ ~Archiving /\ ~repo.rebasing /\ ~ensure_clean_worktree
  /\ repo' = [repo EXCEPT !.tree = repo.head.lines]
  /\ UNCHANGED <<dir, proc, cache, lock, upstream, origin, shared, crossed, used, faults>>
CommitByHand ==
  /\ ~Archiving /\ ~repo.rebasing /\ ~ensure_clean_worktree
  /\ repo' = [repo EXCEPT !.head.lines = repo.tree]
  /\ UNCHANGED <<dir, proc, cache, lock, upstream, origin, shared, crossed, used, faults>>
FinishRebase ==
  /\ ~Archiving /\ repo.rebasing
  /\ repo' = [repo EXCEPT !.rebasing = FALSE,
                          !.head = [lines |-> repo.tree, other |-> repo.onto], !.onto = 0]
  /\ UNCHANGED <<dir, proc, cache, lock, upstream, origin, shared, crossed, used, faults>>
AbortRebase ==
  /\ ~Archiving /\ repo.rebasing
  /\ repo' = [repo EXCEPT !.rebasing = FALSE, !.tree = repo.head.lines, !.onto = 0]
  /\ UNCHANGED <<dir, proc, cache, lock, upstream, origin, shared, crossed, used, faults>>

(* Other machines push their own archives, or commits to other files.      *)
PeerPushes == origin.main.other + Cardinality({i \in DOMAIN origin.main.lines :
                                                 origin.main.lines[i].id \in Foreign})
PeerArchives(f) ==
  /\ PeerPushes < MaxPeers
  /\ f \notin {origin.main.lines[i].id : i \in DOMAIN origin.main.lines}
  /\ origin' = [origin EXCEPT !.main.lines =
                  Append(@, [id |-> f, sha |-> 0, dry |-> FALSE, end |-> TRUE])]
  /\ UNCHANGED <<dir, proc, cache, lock, upstream, repo, shared, crossed, used, faults>>
PeerCommits ==
  /\ PeerPushes < MaxPeers
  /\ origin' = [origin EXCEPT !.main.other = @ + 1]
  /\ UNCHANGED <<dir, proc, cache, lock, upstream, repo, shared, crossed, used, faults>>
=============================================================================
