-------------------------- MODULE WorkspaceProofs --------------------------
(***************************************************************************)
(* Theorems about Operator, for any sessions, commands, cache ids and     *)
(* bounds.      The steps of session runs and prunes leave the operator    *)
(* repository alone, and the steps of an archive leave the workspace alone *)
(* but for the marker and the locks that a command's end gives up: the two *)
(* halves of the inductive invariant are proved apart.                     *)
(***************************************************************************)
EXTENDS OperatorInvariants, FiniteSetTheorems, WellFoundedInduction, SequenceTheorems, TLAPS

USE WorkspaceAssumption

PCs == Steps \cup SourceSteps \cup {"", "work", "delete"}

WorkType ==
  /\ dir \in [Sessions -> Directory] /\ proc \in [Procs -> Process]
  /\ cache \in [CacheIds -> Shas \cup {None}] /\ lock \in [CacheIds -> Procs \cup {None}]
  /\ upstream \in 0..MaxUpstream /\ shared \subseteq Sessions /\ crossed \subseteq Sessions

-----------------------------------------------------------------------------
(* Fields of records.                                                      *)
LEMMA IdleFields ==
  /\ Idle \in Process /\ Idle.cmd = "idle" /\ Idle.pc = "" /\ Idle.since = 0
  /\ Idle.doomed = {} /\ Idle.only = FALSE
  /\ "" \notin Steps /\ "" \notin SourceSteps
  BY DEF Idle, Process, Commands, Retries, Steps, SourceSteps

(* run_pid::clear touches the marker only.                                 *)
LEMMA ClearFields ==
  ASSUME NEW d \in Directory
  PROVE  /\ clear(d) \in Directory /\ clear(d).exists = d.exists /\ clear(d).source = d.source
         /\ clear(d).checkout = d.checkout /\ clear(d).results = d.results
         /\ clear(d).pruned = d.pruned
  BY DEF clear, Directory

(* Moving on touches the program counter only.                             *)
LEMMA MoveFields ==
  ASSUME NEW c \in Process, NEW pc \in PCs, NEW d, d = [c EXCEPT !.pc = pc]
  PROVE  /\ d \in Process /\ d.pc = pc /\ d.cmd = c.cmd /\ d.s = c.s
         /\ d.k = c.k /\ d.sha = c.sha /\ d.since = c.since /\ d.dry = c.dry
         /\ d.only = c.only /\ d.doomed = c.doomed /\ d.tries = c.tries
<1>1. d \in Process
  BY DEF Process, PCs
<1> QED
  BY <1>1 DEF Process, PCs

(* Only p's command changes, or the directory of s.                        *)
LEMMA BecomesEffect ==
  ASSUME WorkType, NEW p \in Procs, NEW c \in Process, Becomes(p, c)
  PROVE  /\ proc' \in [Procs -> Process] /\ proc'[p] = c
         /\ \A q \in Procs \ {p} : proc'[q] = proc[q]
  BY DEF WorkType, Becomes

(* Storing a directory touches the directory of s only.                    *)
LEMMA StoreEffect ==
  ASSUME WorkType, NEW s \in Sessions, NEW d \in Directory, Store(s, d)
  PROVE  /\ dir' \in [Sessions -> Directory] /\ dir'[s] = d
         /\ \A t \in Sessions \ {s} : dir'[t] = dir[t]
  BY DEF WorkType, Store

(* A command that is over holds nothing, and only its own run's marker and *)
(* locks are gone.                                                         *)
LEMMA FinishEffect ==
  ASSUME WorkType, Control, NEW p \in Procs, Finish(p)
  PROVE  /\ proc'[p] = Idle /\ \A q \in Procs \ {p} : proc'[q] = proc[q]
         /\ proc' \in [Procs -> Process] /\ dir' \in [Sessions -> Directory]
         /\ lock' \in [CacheIds -> Procs \cup {None}]
         /\ \A s \in Sessions :
              /\ dir'[s].exists = dir[s].exists /\ dir'[s].source = dir[s].source
              /\ dir'[s].checkout = dir[s].checkout /\ dir'[s].results = dir[s].results
              /\ dir'[s].pruned = dir[s].pruned
              /\ ~(proc[p].cmd = "run" /\ proc[p].s = s) => dir'[s] = dir[s]
         /\ \A k \in CacheIds : lock[k] # p => lock'[k] = lock[k]
<1>1. /\ proc'[p] = Idle /\ \A q \in Procs \ {p} : proc'[q] = proc[q]
      /\ proc' \in [Procs -> Process]
  BY IdleFields, BecomesEffect DEF Finish
<1>2. /\ lock' \in [CacheIds -> Procs \cup {None}]
      /\ \A k \in CacheIds : lock[k] # p => lock'[k] = lock[k]
  BY DEF Finish, Release, WorkType
<1>3. CASE proc[p].cmd = "run"
  <2>1. proc[p].s \in Sessions /\ Of(p) \in Directory
    BY <1>3 DEF Control, ControlOf, WorkType, Of
  <2> DEFINE d == clear(Of(p))
  <2>2. Store(proc[p].s, d)
    BY <1>3 DEF Finish
  <2>3. /\ d \in Directory /\ d.exists = Of(p).exists /\ d.source = Of(p).source
        /\ d.checkout = Of(p).checkout /\ d.results = Of(p).results /\ d.pruned = Of(p).pruned
    BY <2>1, ClearFields
  <2> HIDE DEF d
  <2>4. /\ dir' \in [Sessions -> Directory] /\ dir'[proc[p].s] = d
        /\ \A s \in Sessions \ {proc[p].s} : dir'[s] = dir[s]
    BY <2>1, <2>2, <2>3, StoreEffect
  <2> QED
    BY <1>1, <1>2, <1>3, <2>1, <2>3, <2>4 DEF Of
<1>4. CASE proc[p].cmd # "run"
  BY <1>1, <1>2, <1>4 DEF Finish, WorkType
<1> QED
  BY <1>3, <1>4

(* A command that only moves on keeps everything else.                     *)
LEMMA GotoEffect ==
  ASSUME WorkType, NEW p \in Procs, NEW pc \in PCs, Goto(p, pc)
  PROVE  /\ proc' \in [Procs -> Process] /\ \A q \in Procs \ {p} : proc'[q] = proc[q]
         /\ proc'[p].pc = pc /\ proc'[p].cmd = proc[p].cmd /\ proc'[p].s = proc[p].s
         /\ proc'[p].k = proc[p].k /\ proc'[p].sha = proc[p].sha /\ proc'[p].since = proc[p].since
         /\ proc'[p].dry = proc[p].dry /\ proc'[p].only = proc[p].only
         /\ proc'[p].doomed = proc[p].doomed /\ proc'[p].tries = proc[p].tries
<1> DEFINE d == [proc[p] EXCEPT !.pc = pc]
<1>1. proc[p] \in Process
  BY DEF WorkType
<1>2. Becomes(p, d)
  BY DEF Goto
<1>3. /\ d \in Process /\ d.pc = pc /\ d.cmd = proc[p].cmd /\ d.s = proc[p].s
      /\ d.k = proc[p].k /\ d.sha = proc[p].sha /\ d.since = proc[p].since /\ d.dry = proc[p].dry
      /\ d.only = proc[p].only /\ d.doomed = proc[p].doomed /\ d.tries = proc[p].tries
  BY <1>1, MoveFields
<1> HIDE DEF d
<1> QED
  BY <1>2, <1>3, BecomesEffect

(* What a step of an archive does to the workspace.                        *)
ArchiveEffect(p) ==
  /\ proc[p].pc \in Steps /\ UNCHANGED <<cache, upstream, shared, crossed>>
  /\ \A q \in Procs \ {p} : proc'[q] = proc[q]
  /\ proc' \in [Procs -> Process]
  /\ \/ Finish(p)
     \/ /\ proc'[p].cmd = proc[p].cmd /\ proc'[p].s = proc[p].s /\ proc'[p].pc \in Steps
        /\ proc'[p].doomed = proc[p].doomed /\ proc'[p].only = proc[p].only
        /\ proc'[p].since = proc[p].since /\ proc'[p].dry = proc[p].dry
        /\ UNCHANGED <<dir, lock>>

ArchiveStep(p) ==
  \/ CheckArchive(p) \/ CommitBranch(p) \/ PushBranch(p) \/ pull_rebase(p)
  \/ AppendRecord(p) \/ AppendLineEnd(p) \/ stage_and_commit(p) \/ PushMain(p) \/ PushRefused(p)
  \/ NetworkFails(p)

(* A refused push keeps the command and what it archives.                  *)
LEMMA RetryFields ==
  ASSUME NEW c \in Process, c.tries # Retries
  PROVE  LET d == [c EXCEPT !.pc = "retry", !.tries = @ + 1] IN
         /\ d \in Process /\ d.pc = "retry" /\ d.cmd = c.cmd /\ d.s = c.s
         /\ d.k = c.k /\ d.sha = c.sha /\ d.since = c.since /\ d.dry = c.dry
         /\ d.only = c.only /\ d.doomed = c.doomed
<1> DEFINE d == [c EXCEPT !.pc = "retry", !.tries = @ + 1]
<1>0. c.tries \in 0..3
  BY DEF Process, Retries
<1>1. c.tries + 1 \in 0..Retries
  BY <1>0 DEF Retries
<1>2. d \in Process
  BY <1>1 DEF Process, Steps
<1> QED
  BY <1>2 DEF Process

(* The command after the branch is made: what it has committed, and        *)
(* whether it pushes.                                                      *)
LEMMA CommitBranchMoves ==
  ASSUME WorkType, Control, NEW p \in Procs, CommitBranch(p), Of(p).exists
  PROVE  /\ proc' \in [Procs -> Process] /\ \A q \in Procs \ {p} : proc'[q] = proc[q]
         /\ proc'[p].pc = IF proc[p].dry THEN "append" ELSE "pushbranch"
         /\ proc'[p].cmd = proc[p].cmd /\ proc'[p].s = proc[p].s /\ proc'[p].since = proc[p].since
         /\ proc'[p].dry = proc[p].dry /\ proc'[p].only = proc[p].only
         /\ proc'[p].doomed = proc[p].doomed /\ proc'[p].sha = Of(p).results
         /\ Of(p).results \in 0..MaxResults /\ proc[p].s \in Sessions
<1>1. proc[p] \in Process /\ proc[p].pc = "branch"
  BY DEF WorkType, CommitBranch, At
<1>2. proc[p].s \in Sessions
  BY <1>1 DEF Control, ControlOf, Steps
<1>3. Of(p).results \in 0..MaxResults
  BY <1>2 DEF Of, WorkType, Directory
<1> DEFINE pc == IF proc[p].dry THEN "append" ELSE "pushbranch"
           v == copy_dir_recursive(p)
           d == [proc[p] EXCEPT !.pc = pc, !.sha = v]
<1>4. Becomes(p, d)
  BY DEF CommitBranch
<1>5. pc \in PCs /\ v \in Versions /\ v = Of(p).results
  BY <1>3 DEF PCs, Steps, Versions, copy_dir_recursive
<1> HIDE DEF pc, v
<1>6. d \in Process
  BY <1>1, <1>5 DEF Process, PCs
<1>7. /\ d.pc = pc /\ d.cmd = proc[p].cmd /\ d.s = proc[p].s
      /\ d.sha = v /\ d.since = proc[p].since /\ d.dry = proc[p].dry
      /\ d.only = proc[p].only /\ d.doomed = proc[p].doomed
  BY <1>1, <1>5 DEF Process
<1> HIDE DEF d
<1> QED
  BY <1>2, <1>3, <1>4, <1>5, <1>6, <1>7, BecomesEffect DEF pc

(* The command after a refused push that it tries again.                   *)
LEMMA PushRefusedMoves ==
  ASSUME WorkType, NEW p \in Procs, PushRefused(p), proc[p].tries # Retries
  PROVE  /\ proc' \in [Procs -> Process] /\ \A q \in Procs \ {p} : proc'[q] = proc[q]
         /\ proc'[p].pc = "retry" /\ proc'[p].cmd = proc[p].cmd /\ proc'[p].s = proc[p].s
         /\ proc'[p].since = proc[p].since /\ proc'[p].dry = proc[p].dry
         /\ proc'[p].only = proc[p].only /\ proc'[p].doomed = proc[p].doomed
<1> DEFINE d == [proc[p] EXCEPT !.pc = "retry", !.tries = @ + 1]
<1>1. proc[p] \in Process
  BY DEF WorkType
<1>2. Becomes(p, d)
  BY DEF PushRefused
<1>3. /\ d \in Process /\ d.pc = "retry" /\ d.cmd = proc[p].cmd /\ d.s = proc[p].s
      /\ d.since = proc[p].since /\ d.dry = proc[p].dry
      /\ d.only = proc[p].only /\ d.doomed = proc[p].doomed
  BY <1>1, RetryFields
<1> HIDE DEF d
<1> QED
  BY <1>2, <1>3, BecomesEffect

(* No step of an archive does more than that.                              *)
LEMMA ArchiveSteps ==
  ASSUME WorkType, Control, NEW p \in Procs, ArchiveStep(p)
  PROVE  ArchiveEffect(p)
<1> DEFINE Ended == Finish(p) /\ proc[p].pc \in Steps /\ UNCHANGED <<cache, upstream, shared, crossed>>
           Moved(pc) == /\ Goto(p, pc) /\ UNCHANGED <<dir, lock, cache, upstream, shared, crossed>>
                        /\ proc[p].pc \in Steps
<1>1. ASSUME Ended PROVE ArchiveEffect(p)
  BY <1>1, FinishEffect DEF ArchiveEffect
<1>2. ASSUME NEW pc \in Steps, Moved(pc) PROVE ArchiveEffect(p)
  <2>1. pc \in PCs
    BY DEF PCs
  <2> QED
    BY <1>2, <2>1, GotoEffect DEF ArchiveEffect
<1>3. CASE CheckArchive(p)
  <2>1. Ended \/ Moved("branch")
    BY <1>3 DEF CheckArchive, At, Steps
  <2> QED
    BY <1>1, <1>2, <2>1 DEF Steps
<1>4. CASE CommitBranch(p)
  <2>1. CASE Of(p).exists
    <3>1. UNCHANGED <<dir, lock, cache, upstream, shared, crossed>> /\ proc[p].pc \in Steps
      BY <1>4, <2>1 DEF CommitBranch, At, Steps
    <3>2. {"append", "pushbranch"} \subseteq Steps
      BY DEF Steps
    <3> QED
      BY <1>4, <2>1, <3>1, <3>2, CommitBranchMoves DEF ArchiveEffect
  <2>2. CASE ~Of(p).exists
    BY <1>1, <1>4, <2>2 DEF CommitBranch, At, Steps
  <2> QED
    BY <2>1, <2>2
<1>5. CASE PushBranch(p)
  <2>1. Moved("pull")
    BY <1>5 DEF PushBranch, At, Steps
  <2> QED
    BY <1>2, <2>1 DEF Steps
<1>6. CASE pull_rebase(p)
  <2>1. Ended \/ Moved("append") \/ Moved("push")
    BY <1>6 DEF pull_rebase, At, Steps
  <2> QED
    BY <1>1, <1>2, <2>1 DEF Steps
<1>7. CASE AppendRecord(p)
  <2>1. Moved("newline")
    BY <1>7 DEF AppendRecord, At, Steps
  <2> QED
    BY <1>2, <2>1 DEF Steps
<1>8. CASE AppendLineEnd(p)
  <2>1. Moved("commit")
    BY <1>8 DEF AppendLineEnd, At, Steps
  <2> QED
    BY <1>2, <2>1 DEF Steps
<1>9. CASE stage_and_commit(p)
  <2>1. Ended \/ Moved("push")
    BY <1>9 DEF stage_and_commit, At, Steps
  <2> QED
    BY <1>1, <1>2, <2>1 DEF Steps
<1>10. CASE PushMain(p)
  BY <1>1, <1>10 DEF PushMain, At, Steps
<1>11. CASE PushRefused(p)
  <2>1. CASE proc[p].tries = Retries
    BY <1>1, <1>11, <2>1 DEF PushRefused, At, Steps
  <2>2. CASE proc[p].tries # Retries
    <3>1. UNCHANGED <<dir, lock, cache, upstream, shared, crossed>> /\ proc[p].pc \in Steps
      BY <1>11, <2>2 DEF PushRefused, At, Steps
    <3>2. "retry" \in Steps
      BY DEF Steps
    <3> QED
      BY <1>11, <2>2, <3>1, <3>2, PushRefusedMoves DEF ArchiveEffect
  <2> QED
    BY <2>1, <2>2
<1>12. CASE NetworkFails(p)
  BY <1>1, <1>12 DEF NetworkFails, Steps
<1> QED
  BY <1>3, <1>4, <1>5, <1>6, <1>7, <1>8, <1>9, <1>10, <1>11, <1>12 DEF ArchiveStep

-----------------------------------------------------------------------------
(* Runs and prunes in the workspace.                                       *)
WorkspaceInv == WorkType /\ Control /\ Materializing /\ Kept

(* What a run between the first look at source.json and the end of its     *)
(* work is known to have.                                                  *)
LEMMA RunFacts ==
  ASSUME WorkspaceInv, NEW p \in Procs, proc[p].pc \in SourceSteps \cup {"work"}
  PROVE  /\ proc[p].cmd = "run" /\ proc[p].s \in Sessions /\ proc[p].k \in CacheIds
         /\ proc[p] \in Process /\ Of(p) \in Directory /\ proc[p].pc \notin Steps
<1>1. proc[p].cmd = "run" /\ proc[p].s \in Sessions /\ proc[p].k \in CacheIds
  BY DEF WorkspaceInv, Control, ControlOf
<1> QED
  BY <1>1 DEF WorkspaceInv, WorkType, Of, SourceSteps, Steps

(* A source.json is never the absence of one.                              *)
LEMMA NoneIsNoSource ==
  ASSUME NEW r \in SourceJson
  PROVE  r # None /\ r.k \in CacheIds /\ r.sha \in 0..MaxUpstream
<1>1. r \in [k : CacheIds, sha : Nat]
  BY DEF SourceJson
<1> QED
  BY <1>1 DEF SourceJson

(* The lock excludes.                                                      *)
LEMMA LockExcludes ==
  ASSUME WorkspaceInv, NEW p \in Procs, NEW q \in Procs, p # q,
         proc[p].pc \in {"recheck", "cache", "clone", "write"},
         proc[q].pc \in {"recheck", "cache", "clone", "write"}
  PROVE  proc[p].k # proc[q].k
  BY DEF WorkspaceInv, Materializing, MaterializingOf

(* What the other commands know survives a step that leaves them, their    *)
(* locks, their caches and what matters of their directories as they are.  *)
Spared(q) ==
  /\ proc'[q] = proc[q] /\ upstream' \in upstream..MaxUpstream
  /\ shared \subseteq shared' /\ crossed \subseteq crossed'
  /\ \A k \in CacheIds : lock[k] = q => lock'[k] = q
  /\ At(q, "clone") => cache'[proc[q].k] = cache[proc[q].k]
  /\ proc[q].pc \in {"cache", "clone", "write"} =>
       \/ dir'[proc[q].s].source = Of(q).source \/ dir'[proc[q].s].source = None
       \/ dir'[proc[q].s].source.k # proc[q].k
  /\ proc[q].cmd = "run" /\ proc[q].s \notin crossed' =>
       /\ At(q, "work") => /\ dir'[proc[q].s].source = Of(q).source
                           /\ Of(q).exists => dir'[proc[q].s].exists
       /\ proc[q].pc \in {"write", "work"} =>
            dir'[proc[q].s].checkout[proc[q].k] = Of(q).checkout[proc[q].k]
       /\ proc[q].s \notin shared' => dir'[proc[q].s].pid = Of(q).pid

(* What a step of p leaves alone of q: where q is, ...                     *)
LEMMA SparedControl ==
  ASSUME WorkspaceInv, NEW q \in Procs, Spared(q)
  PROVE  ControlOf(q)'
<1>1. ControlOf(q) /\ upstream \in 0..MaxUpstream
  BY DEF WorkspaceInv, Control, WorkType
<1>2. proc[q].since \in 0..upstream'
  BY <1>1 DEF ControlOf, Spared
<1> QED
  BY <1>1, <1>2 DEF ControlOf, Spared

(* ... what q holds and has seen while it makes a source, ...              *)
LEMMA SparedMaterializing ==
  ASSUME WorkspaceInv, NEW q \in Procs, Spared(q)
  PROVE  MaterializingOf(q)'
<1>1. MaterializingOf(q)
  BY DEF WorkspaceInv, Materializing
<1>2. CASE proc[q].pc \in {"recheck", "cache", "clone", "write"}
  <2>1. proc[q].cmd = "run" /\ proc[q].k \in CacheIds
    BY <1>2, RunFacts DEF SourceSteps
  <2> QED
    BY <1>1, <1>2, <2>1 DEF MaterializingOf, Spared, At, Of
<1>3. CASE proc[q].pc \notin {"recheck", "cache", "clone", "write"}
  BY <1>3 DEF MaterializingOf, Spared, At
<1> QED
  BY <1>2, <1>3

(* ... and what q works on.                                                *)
LEMMA SparedSafe ==
  ASSUME WorkspaceInv, NEW q \in Procs, Spared(q), proc[q].cmd = "run", proc[q].s \notin crossed',
         \A r \in Procs : proc[q].s \notin proc'[r].doomed
  PROVE  RunIsSafe(q)'
<1>1. RunIsSafe(q) /\ proc'[q] = proc[q]
  BY DEF WorkspaceInv, Kept, Spared
<1>2. proc[q].s \notin shared' => proc[q].s \notin shared
  BY DEF Spared
<1> QED
  BY <1>1, <1>2 DEF RunIsSafe, Spared, At, Of

(* A step of p that spares the others keeps the invariant if it does for p *)
(* and for the directories.                                                *)
LEMMA SparedKeeps ==
  ASSUME WorkspaceInv, WorkType', NEW p \in Procs, \A q \in Procs \ {p} : Spared(q),
         ControlOf(p)', MaterializingOf(p)',
         proc'[p].cmd = "run" /\ proc'[p].s \notin crossed' => RunIsSafe(p)',
         \A s \in Sessions \ crossed' : SourceIsThere(s)',
         \/ proc'[p].doomed \subseteq proc[p].doomed
         \/ \A q \in Procs \ {p} : proc[q].cmd = "run" /\ proc[q].s \notin crossed' =>
              proc[q].s \notin proc'[p].doomed
  PROVE  WorkspaceInv'
<1>1. Control'
  BY SparedControl DEF Control
<1>2. Materializing'
  BY SparedMaterializing DEF Materializing
<1>3. ASSUME NEW q \in Procs \ {p}, proc[q].cmd = "run", proc[q].s \notin crossed'
      PROVE  RunIsSafe(q)'
  <2>1. Spared(q) /\ RunIsSafe(q)
    BY <1>3 DEF Spared, WorkspaceInv, Kept
  <2>2. ASSUME NEW r \in Procs PROVE proc[q].s \notin proc'[r].doomed
    <3>1. proc[q].s \notin proc[r].doomed
      BY <2>1 DEF RunIsSafe
    <3>2. CASE r = p
      BY <1>3, <3>1, <3>2
    <3>3. CASE r # p
      <4>1. proc'[r] = proc[r]
        BY <3>3 DEF Spared
      <4> QED
        BY <3>1, <4>1
    <3> QED
      BY <3>2, <3>3
  <2> QED
    BY <1>3, <2>1, <2>2, SparedSafe
<1>4. ASSUME NEW q \in Procs, proc'[q].cmd = "run", proc'[q].s \notin crossed'
      PROVE  RunIsSafe(q)'
  <2>1. CASE q = p
    BY <1>4, <2>1
  <2>2. CASE q # p
    <3>1. proc'[q] = proc[q]
      BY <2>2 DEF Spared
    <3> QED
      BY <1>3, <1>4, <2>2, <3>1
  <2> QED
    BY <2>1, <2>2
<1>5. Kept'
  BY <1>4 DEF Kept
<1> QED
  BY <1>1, <1>2, <1>5 DEF WorkspaceInv

(* Nothing is known of a command that does not run.                        *)
LEMMA IdleKnows ==
  ASSUME NEW p, proc'[p] = Idle, upstream' \in 0..MaxUpstream
  PROVE  ControlOf(p)' /\ MaterializingOf(p)' /\ proc'[p].cmd # "run" /\ proc'[p].doomed = {}
<1>1. proc'[p].since \in 0..upstream'
  <2>1. proc'[p].since = 0
    BY IdleFields
  <2> QED
    BY <2>1
<1>2. ControlOf(p)'
  BY <1>1, IdleFields DEF ControlOf
<1>3. MaterializingOf(p)'
  BY IdleFields DEF MaterializingOf, At
<1> QED
  BY <1>2, <1>3, IdleFields

(* A step of p that takes no lock but a free one and leaves the other      *)
(* state of the workspace alone spares the others.                         *)
LEMMA QuietSpares ==
  ASSUME WorkspaceInv, NEW p \in Procs, \A q \in Procs \ {p} : proc'[q] = proc[q],
         UNCHANGED <<dir, cache, upstream, shared, crossed>>,
         \A k \in CacheIds : lock[k] # None /\ lock[k] # p => lock'[k] = lock[k]
  PROVE  /\ \A q \in Procs \ {p} : Spared(q)
         /\ \A s \in Sessions \ crossed' : SourceIsThere(s)'
<1>1. upstream \in 0..MaxUpstream
  BY DEF WorkspaceInv, WorkType
<1>2. \A q \in Procs \ {p} : Spared(q)
  BY <1>1 DEF Spared, Of
<1> QED
  BY <1>2 DEF WorkspaceInv, Kept, SourceIsThere

(* A command that ends takes nothing away but its marker and its locks.    *)
LEMMA FinishKeeps ==
  ASSUME WorkspaceInv, NEW p \in Procs, Finish(p), UNCHANGED <<cache, upstream, shared, crossed>>
  PROVE  WorkspaceInv'
<1>1. /\ proc'[p] = Idle /\ \A q \in Procs \ {p} : proc'[q] = proc[q]
      /\ proc' \in [Procs -> Process] /\ dir' \in [Sessions -> Directory]
      /\ lock' \in [CacheIds -> Procs \cup {None}]
      /\ \A s \in Sessions :
           /\ dir'[s].exists = dir[s].exists /\ dir'[s].source = dir[s].source
           /\ dir'[s].checkout = dir[s].checkout
           /\ ~(proc[p].cmd = "run" /\ proc[p].s = s) => dir'[s] = dir[s]
      /\ \A k \in CacheIds : lock[k] # p => lock'[k] = lock[k]
  BY FinishEffect DEF WorkspaceInv
<1>2. WorkType' /\ upstream \in 0..MaxUpstream
  BY <1>1 DEF WorkspaceInv, WorkType
<1>3. ASSUME NEW q \in Procs \ {p} PROVE Spared(q)
  <2>1. CASE proc[q].cmd = "run"
    <3>1. proc[q].s \in Sessions
      BY <2>1 DEF WorkspaceInv, Control, ControlOf
    <3>2. ASSUME proc[q].s \notin shared, proc[q].s \notin crossed
          PROVE  dir'[proc[q].s].pid = dir[proc[q].s].pid
      <4>1. RunIsSafe(q) /\ (proc[p].cmd = "run" /\ proc[p].s = proc[q].s => RunIsSafe(p))
        BY <2>1, <3>2 DEF WorkspaceInv, Kept
      <4>2. ~(proc[p].cmd = "run" /\ proc[p].s = proc[q].s)
        BY <2>1, <3>2, <4>1 DEF RunIsSafe, Of
      <4> QED
        BY <1>1, <3>1, <4>2
    <3> QED
      BY <1>1, <1>2, <3>1, <3>2 DEF Spared, Of
  <2>2. CASE proc[q].cmd # "run"
    <3>1. proc[q].pc \notin {"cache", "clone", "write"}
      BY <2>2, RunFacts DEF SourceSteps
    <3> QED
      BY <1>1, <1>2, <2>2, <3>1 DEF Spared
  <2> QED
    BY <2>1, <2>2
<1>4. ControlOf(p)' /\ MaterializingOf(p)' /\ proc'[p].cmd # "run" /\ proc'[p].doomed = {}
  BY <1>1, <1>2, IdleKnows
<1>5. ASSUME NEW s \in Sessions \ crossed' PROVE SourceIsThere(s)'
  <2>1. SourceIsThere(s)
    BY <1>5 DEF WorkspaceInv, Kept
  <2> QED
    BY <1>1, <2>1 DEF SourceIsThere
<1> QED
  BY <1>2, <1>3, <1>4, <1>5, SparedKeeps

(* A run goes on with what source.json names.                              *)
LEMMA ResumeKeeps ==
  ASSUME WorkspaceInv, NEW p \in Procs, proc[p].pc \in {"source", "recheck"}, HasSource(p),
         Resume(p), UNCHANGED <<cache, upstream, shared, crossed>>
  PROVE  WorkspaceInv'
<1> DEFINE src == Of(p).source
           k == src.k
           sha == src.sha
           c == [proc[p] EXCEPT !.pc = "work", !.k = k, !.sha = sha, !.since = 0]
<1>1. CASE Finish(p)
  BY <1>1, FinishKeeps
<1>2. CASE ~Finish(p)
  <2>1. Becomes(p, c) /\ Release(p) /\ UNCHANGED dir
    BY <1>2 DEF Resume
  <2>2. /\ proc[p].cmd = "run" /\ proc[p].s \in Sessions /\ proc[p] \in Process
        /\ Of(p) \in Directory
    BY RunFacts DEF SourceSteps
  <2>3. src \in SourceJson /\ src # None
    BY <2>2 DEF HasSource, Directory
  <2>4. k \in CacheIds /\ sha \in 0..MaxUpstream /\ src = [k |-> k, sha |-> sha]
    BY <2>3 DEF SourceJson
  <2>5. sha \in Shas \cup Versions \cup {None} /\ k \in CacheIds \cup {None} /\ 0 \in 0..MaxUpstream
    BY <2>4 DEF Shas
  <2>6. proc[p].s \notin crossed => /\ Of(p).exists /\ Of(p).checkout[k] = sha
                                    /\ RunIsSafe(p)
    BY <2>2, <2>3 DEF WorkspaceInv, Kept, SourceIsThere, Of
  <2>7. Of(p).source = src /\ Of(p).source \in SourceJson
    BY <2>3
  <2> HIDE DEF src, k, sha
  <2>8. c \in Process
    BY <2>2, <2>5 DEF Process
  <2>9. /\ c.pc = "work" /\ c.cmd = "run" /\ c.s = proc[p].s /\ c.k = k /\ c.sha = sha
        /\ c.since = 0 /\ c.doomed = proc[p].doomed
    BY <2>2 DEF Process
  <2> HIDE DEF c
  <2>10. /\ proc' \in [Procs -> Process] /\ proc'[p] = c
         /\ \A q \in Procs \ {p} : proc'[q] = proc[q]
    BY <2>1, <2>8, BecomesEffect DEF WorkspaceInv
  <2>11. /\ lock' \in [CacheIds -> Procs \cup {None}]
         /\ \A j \in CacheIds : lock[j] # p => lock'[j] = lock[j]
    BY <2>1 DEF Release, WorkspaceInv, WorkType
  <2>12. WorkType' /\ upstream' \in 0..MaxUpstream
    BY <2>1, <2>10, <2>11 DEF WorkspaceInv, WorkType
  <2>13. /\ \A q \in Procs \ {p} : Spared(q)
         /\ \A s \in Sessions \ crossed' : SourceIsThere(s)'
    BY <2>1, <2>10, <2>11, QuietSpares
  <2>14. ControlOf(p)'
    <3>1. proc'[p].since \in 0..upstream'
      BY <2>9, <2>10, <2>12
    <3> QED
      BY <2>2, <2>4, <2>9, <2>10, <3>1 DEF ControlOf, Steps
  <2>15. MaterializingOf(p)'
    BY <2>9, <2>10 DEF MaterializingOf, At
  <2>16. ASSUME proc[p].s \notin crossed PROVE RunIsSafe(p)'
    <3>1. \A q \in Procs : proc'[q].doomed = proc[q].doomed
      BY <2>9, <2>10
    <3>2. RunIsSafe(p)
      BY <2>6, <2>16
    <3>3. \A q \in Procs : proc[p].s \notin proc'[q].doomed
      BY <3>1, <3>2 DEF RunIsSafe
    <3>4. proc[p].s \notin shared => dir[proc[p].s].pid = p
      BY <3>2 DEF RunIsSafe, Of
    <3>5. dir[proc[p].s].exists /\ dir[proc[p].s].checkout[k] = sha
          /\ dir[proc[p].s].source \in SourceJson
          /\ dir[proc[p].s].source = [k |-> k, sha |-> sha]
      BY <2>4, <2>6, <2>7, <2>16 DEF Of
    <3> QED
      BY <2>1, <2>9, <2>10, <3>3, <3>4, <3>5 DEF RunIsSafe, At, Of
  <2> QED
    BY <2>9, <2>10, <2>12, <2>13, <2>14, <2>15, <2>16, SparedKeeps
<1> QED
  BY <1>1, <1>2

(* A run that moves on between two steps before its work.                  *)
LEMMA MovesOn ==
  ASSUME WorkspaceInv, NEW p \in Procs, NEW pc \in {"lock", "recheck", "cache", "clone"},
         proc[p].pc \in SourceSteps, Goto(p, pc), UNCHANGED <<dir, upstream, shared, crossed>>,
         lock' \in [CacheIds -> Procs \cup {None}], cache' \in [CacheIds -> Shas \cup {None}],
         \A q \in Procs \ {p} : proc'[q] = proc[q] => Spared(q),
         pc # "lock" => lock'[proc[p].k] = p,
         pc \in {"cache", "clone"} => Of(p).source = None \/ Of(p).source.k # proc[p].k,
         pc = "clone" => cache'[proc[p].k] = upstream
  PROVE  WorkspaceInv'
<1>1. /\ proc[p].cmd = "run" /\ proc[p].s \in Sessions /\ proc[p].k \in CacheIds
      /\ proc[p] \in Process
  BY RunFacts
<1>2. /\ proc' \in [Procs -> Process] /\ \A q \in Procs \ {p} : proc'[q] = proc[q]
      /\ proc'[p].pc = pc /\ proc'[p].cmd = proc[p].cmd /\ proc'[p].s = proc[p].s
      /\ proc'[p].k = proc[p].k /\ proc'[p].since = proc[p].since
      /\ proc'[p].doomed = proc[p].doomed
  <2>1. WorkType /\ pc \in PCs
    BY DEF WorkspaceInv, PCs, SourceSteps
  <2> QED
    BY <2>1, GotoEffect
<1>3. WorkType' /\ upstream' \in 0..MaxUpstream
  BY <1>2 DEF WorkspaceInv, WorkType
<1>4. ControlOf(p)'
  <2>1. ControlOf(p)
    BY DEF WorkspaceInv, Control
  <2> QED
    BY <1>1, <1>2, <2>1 DEF ControlOf, Steps, SourceSteps
<1>5. MaterializingOf(p)'
  <2>1. pc = "clone" => upstream \in proc[p].since..MaxUpstream
    <3>1. proc[p].since \in 0..upstream /\ upstream \in 0..MaxUpstream
      BY DEF WorkspaceInv, Control, ControlOf, WorkType
    <3> QED
      BY <3>1
  <2> QED
    BY <1>1, <1>2, <2>1 DEF MaterializingOf, At, Of
<1>6. ASSUME proc[p].s \notin crossed PROVE RunIsSafe(p)'
  <2>1. RunIsSafe(p)
    BY <1>1, <1>6 DEF WorkspaceInv, Kept
  <2>2. \A q \in Procs : proc'[q].doomed = proc[q].doomed
    BY <1>2
  <2> QED
    BY <1>1, <1>2, <2>1, <2>2 DEF RunIsSafe, At, Of
<1>8. \A s \in Sessions \ crossed' : SourceIsThere(s)'
  BY DEF WorkspaceInv, Kept, SourceIsThere
<1>7. \A q \in Procs \ {p} : Spared(q)
  BY <1>2
<1> QED
  BY <1>1, <1>2, <1>3, <1>4, <1>5, <1>6, <1>7, <1>8, SparedKeeps

(* The first look at source.json, ...                                      *)
LEMMA ReadSourceKeeps ==
  ASSUME WorkspaceInv, NEW p \in Procs, ReadSource(p)
  PROVE  WorkspaceInv'
<1>1. /\ proc[p].pc \in SourceSteps /\ proc[p].pc = "source"
      /\ UNCHANGED <<cache, upstream, shared, crossed>>
  BY DEF ReadSource, At, SourceSteps
<1>2. CASE HasSource(p)
  BY <1>1, <1>2, ResumeKeeps DEF ReadSource
<1>3. CASE ~HasSource(p)
  <2>1. Goto(p, "lock") /\ UNCHANGED <<dir, lock>>
    BY <1>3 DEF ReadSource
  <2>2. \A q \in Procs \ {p} : proc'[q] = proc[q] => Spared(q)
    <3>1. upstream \in 0..MaxUpstream
      BY DEF WorkspaceInv, WorkType
    <3> QED
      BY <1>1, <2>1, <3>1 DEF Spared, Of
  <2>3. lock' \in [CacheIds -> Procs \cup {None}] /\ cache' \in [CacheIds -> Shas \cup {None}]
    BY <1>1, <2>1 DEF WorkspaceInv, WorkType
  <2> QED
    BY <1>1, <2>1, <2>2, <2>3, MovesOn
<1> QED
  BY <1>2, <1>3

(* ... the lock, ...                                                       *)
LEMMA AcquireLockKeeps ==
  ASSUME WorkspaceInv, NEW p \in Procs, AcquireLock(p)
  PROVE  WorkspaceInv'
<1>1. /\ proc[p].pc \in SourceSteps /\ lock[proc[p].k] = None /\ Goto(p, "recheck")
      /\ lock' = [lock EXCEPT ![proc[p].k] = p] /\ UNCHANGED <<dir, cache, upstream, shared, crossed>>
  BY DEF AcquireLock, At, SourceSteps
<1>2. proc[p].k \in CacheIds
  BY <1>1, RunFacts
<1>3. /\ lock' \in [CacheIds -> Procs \cup {None}] /\ cache' \in [CacheIds -> Shas \cup {None}]
      /\ lock'[proc[p].k] = p /\ \A k \in CacheIds : lock[k] # None => lock'[k] = lock[k]
  BY <1>1, <1>2 DEF WorkspaceInv, WorkType
<1>4. \A q \in Procs \ {p} : proc'[q] = proc[q] => Spared(q)
  <2>1. upstream \in 0..MaxUpstream
    BY DEF WorkspaceInv, WorkType
  <2> QED
    BY <1>1, <1>3, <2>1 DEF Spared, Of
<1> QED
  BY <1>1, <1>3, <1>4, MovesOn

(* ... the second look, which tells the holder of the lock that no         *)
(* source.json is there, ...                                               *)
LEMMA RecheckKeeps ==
  ASSUME WorkspaceInv, NEW p \in Procs, Recheck(p)
  PROVE  WorkspaceInv'
<1>1. /\ proc[p].pc \in SourceSteps /\ proc[p].pc = "recheck"
      /\ UNCHANGED <<cache, upstream, shared, crossed>>
  BY DEF Recheck, At, SourceSteps
<1>2. CASE HasSource(p)
  BY <1>1, <1>2, ResumeKeeps DEF Recheck
<1>3. CASE ~HasSource(p)
  <2>1. Goto(p, "cache") /\ UNCHANGED <<dir, lock>> /\ Of(p).source = None
    BY <1>3 DEF Recheck, HasSource
  <2>2. \A q \in Procs \ {p} : proc'[q] = proc[q] => Spared(q)
    <3>1. upstream \in 0..MaxUpstream
      BY DEF WorkspaceInv, WorkType
    <3> QED
      BY <1>1, <2>1, <3>1 DEF Spared, Of
  <2>3. /\ lock' \in [CacheIds -> Procs \cup {None}] /\ cache' \in [CacheIds -> Shas \cup {None}]
        /\ lock[proc[p].k] = p
    BY <1>1, <2>1 DEF WorkspaceInv, WorkType, Materializing, MaterializingOf
  <2> QED
    BY <1>1, <2>1, <2>2, <2>3, MovesOn
<1> QED
  BY <1>2, <1>3

(* ... and the fetch, which makes the cache as new as the branch.          *)
LEMMA EnsureCacheKeeps ==
  ASSUME WorkspaceInv, NEW p \in Procs, ensure_cache(p)
  PROVE  WorkspaceInv'
<1>1. /\ proc[p].pc \in SourceSteps /\ proc[p].pc = "cache" /\ Goto(p, "clone")
      /\ cache' = [cache EXCEPT ![proc[p].k] = upstream] /\ UNCHANGED <<dir, lock, upstream, shared, crossed>>
  BY DEF ensure_cache, At, SourceSteps
<1>2. proc[p].k \in CacheIds
  BY <1>1, RunFacts
<1>3. upstream \in 0..MaxUpstream /\ upstream \in Shas
  BY DEF WorkspaceInv, WorkType, Shas
<1>4. /\ lock' \in [CacheIds -> Procs \cup {None}] /\ cache' \in [CacheIds -> Shas \cup {None}]
      /\ cache'[proc[p].k] = upstream /\ \A k \in CacheIds \ {proc[p].k} : cache'[k] = cache[k]
  BY <1>1, <1>2, <1>3 DEF WorkspaceInv, WorkType
<1>5. ASSUME NEW q \in Procs \ {p}, proc'[q] = proc[q] PROVE Spared(q)
  <2>1. ASSUME At(q, "clone") PROVE cache'[proc[q].k] = cache[proc[q].k]
    <3>1. proc[q].k \in CacheIds /\ proc[q].k # proc[p].k
      BY <1>1, <2>1, RunFacts, LockExcludes DEF At, SourceSteps
    <3> QED
      BY <1>4, <3>1
  <2> QED
    BY <1>1, <1>3, <1>5, <2>1 DEF Spared, Of
<1>6. lock[proc[p].k] = p /\ (Of(p).source = None \/ Of(p).source.k # proc[p].k)
  BY <1>1 DEF WorkspaceInv, Materializing, MaterializingOf
<1> QED
  BY <1>1, <1>4, <1>5, <1>6, MovesOn

(* The clone goes where no source.json points, so what others cloned is    *)
(* not touched.                                                            *)
LEMMA CloneKeeps ==
  ASSUME WorkspaceInv, NEW p \in Procs, clone_session_checkout(p)
  PROVE  WorkspaceInv'
<1>0. PICK s \in Sessions : s = proc[p].s
  BY RunFacts DEF clone_session_checkout, At, SourceSteps
<1> DEFINE k == proc[p].k
           sha == cache[k]
           c == [proc[p] EXCEPT !.pc = "write", !.sha = sha]
           d == [Of(p) EXCEPT !.checkout[k] = sha, !.exists = TRUE]
<1>1. At(p, "clone") /\ UNCHANGED <<cache, lock, upstream, shared, crossed>>
  BY DEF clone_session_checkout
<1>2. Becomes(p, c) /\ Store(s, d)
  BY <1>0 DEF clone_session_checkout
<1>3. /\ proc[p].cmd = "run" /\ s \in Sessions /\ k \in CacheIds
      /\ proc[p] \in Process /\ Of(p) \in Directory
  BY <1>0, <1>1, RunFacts DEF At, SourceSteps
<1>4. /\ sha \in proc[p].since..MaxUpstream /\ lock[k] = p /\ Of(p) = dir[s]
      /\ Of(p).source = None \/ Of(p).source.k # k
  BY <1>0, <1>1 DEF WorkspaceInv, Materializing, MaterializingOf, At, Of
<1>5. ControlOf(p) /\ proc[p].since \in 0..upstream /\ upstream \in 0..MaxUpstream
  BY DEF WorkspaceInv, Control, ControlOf, WorkType
<1>6. sha \in Shas
  BY <1>4, <1>5 DEF Shas
<1>7. k = proc[p].k /\ s = proc[p].s /\ cache[k] = sha
  BY <1>0
<1> HIDE DEF k, sha
<1>8. c \in Process /\ d \in Directory
  <2>1. c \in Process
    BY <1>3, <1>6 DEF Process, SourceSteps
  <2>2. [Of(p).checkout EXCEPT ![k] = sha] \in [CacheIds -> Shas \cup {None}]
    BY <1>3, <1>6 DEF Directory
  <2>3. d \in Directory
    BY <1>3, <2>2 DEF Directory
  <2> QED
    BY <2>1, <2>3
<1>9. /\ c.pc = "write" /\ c.cmd = "run" /\ c.s = s /\ c.k = k /\ c.sha = sha
      /\ c.since = proc[p].since /\ c.doomed = proc[p].doomed
  BY <1>3, <1>7 DEF Process
<1>10. /\ d.exists = TRUE /\ d.source = dir[s].source /\ d.pid = dir[s].pid
       /\ d.checkout[k] = sha /\ \A j \in CacheIds \ {k} : d.checkout[j] = dir[s].checkout[j]
  BY <1>3, <1>4 DEF Directory
<1> HIDE DEF c, d
<1>11. /\ proc' \in [Procs -> Process] /\ proc'[p] = c
       /\ \A q \in Procs \ {p} : proc'[q] = proc[q]
  BY <1>2, <1>8, BecomesEffect DEF WorkspaceInv
<1>12. /\ dir' \in [Sessions -> Directory] /\ dir'[s] = d
       /\ \A t \in Sessions \ {s} : dir'[t] = dir[t]
  BY <1>2, <1>3, <1>8, StoreEffect DEF WorkspaceInv
<1>13. WorkType'
  BY <1>1, <1>11, <1>12 DEF WorkspaceInv, WorkType
<1>14. ASSUME NEW q \in Procs \ {p} PROVE Spared(q)
  <2>1. CASE proc[q].cmd = "run"
    <3>1. proc[q].s \in Sessions
      BY <2>1 DEF WorkspaceInv, Control, ControlOf
    <3>2. ASSUME proc[q].pc \in {"write", "work"}, proc[q].s \notin crossed, proc[q].s = s
          PROVE  proc[q].k \in CacheIds /\ proc[q].k # k
      <4>1. proc[q].k \in CacheIds
        BY <3>2, RunFacts DEF SourceSteps
      <4>2. CASE proc[q].pc = "write"
        BY <1>1, <1>7, <4>1, <4>2, LockExcludes DEF At
      <4>3. CASE proc[q].pc = "work"
        <5>1. RunIsSafe(q)
          BY <2>1, <3>2 DEF WorkspaceInv, Kept
        <5>2. dir[s].source = [k |-> proc[q].k, sha |-> proc[q].sha]
          BY <3>2, <4>3, <5>1 DEF RunIsSafe, At, Of
        <5>3. dir[s].source # None
          BY <3>2, <4>3, <5>1, NoneIsNoSource DEF RunIsSafe, At, Of
        <5> QED
          BY <1>4, <4>1, <5>2, <5>3
      <4> QED
        BY <3>2, <4>1, <4>2, <4>3
    <3>3. CASE proc[q].s = s
      BY <1>1, <1>5, <1>10, <1>11, <1>12, <3>1, <3>2, <3>3 DEF Spared, Of, At
    <3>4. CASE proc[q].s # s
      BY <1>1, <1>5, <1>11, <1>12, <3>1, <3>4 DEF Spared, Of, At
    <3> QED
      BY <3>3, <3>4
  <2>2. CASE proc[q].cmd # "run"
    <3>1. proc[q].pc \notin {"cache", "clone", "write"}
      BY <2>2, RunFacts DEF SourceSteps
    <3> QED
      BY <1>1, <1>5, <1>11, <2>2, <3>1 DEF Spared
  <2> QED
    BY <2>1, <2>2
<1>15. ControlOf(p)'
  BY <1>1, <1>3, <1>5, <1>9, <1>11 DEF ControlOf, Steps, SourceSteps
<1>16. MaterializingOf(p)'
  BY <1>1, <1>4, <1>9, <1>10, <1>11, <1>12 DEF MaterializingOf, At, Of
<1>17. ASSUME s \notin crossed PROVE RunIsSafe(p)'
  <2>1. RunIsSafe(p)
    BY <1>3, <1>7, <1>17 DEF WorkspaceInv, Kept
  <2>2. \A q \in Procs : proc'[q].doomed = proc[q].doomed
    BY <1>9, <1>11
  <2> QED
    BY <1>1, <1>3, <1>7, <1>9, <1>10, <1>11, <1>12, <2>1, <2>2 DEF RunIsSafe, At, Of
<1>18. \A t \in Sessions \ crossed' : SourceIsThere(t)'
  <2>1. \A t \in Sessions \ crossed : SourceIsThere(t)
    BY DEF WorkspaceInv, Kept
  <2>4. ASSUME s \notin crossed PROVE SourceIsThere(s)'
    <3>1. dir[s].source # None => dir[s].source \in SourceJson
      BY <1>3, <1>4 DEF Directory
    <3>2. dir[s].source # None => dir[s].source.k \in CacheIds
      BY <3>1 DEF SourceJson
    <3> QED
      BY <1>3, <1>4, <1>10, <1>12, <2>1, <2>4, <3>2 DEF SourceIsThere
  <2>5. \A t \in Sessions \ (crossed \cup {s}) : SourceIsThere(t)'
    BY <1>12, <2>1 DEF SourceIsThere
  <2> QED
    BY <1>1, <2>4, <2>5
<1> QED
  BY <1>1, <1>9, <1>11, <1>13, <1>14, <1>15, <1>16, <1>17, <1>18, SparedKeeps

(* source.json is written once, with the lock held: whoever else is about  *)
(* to write for this session does it under another cache id.               *)
LEMMA WriteSourceKeeps ==
  ASSUME WorkspaceInv, NEW p \in Procs, WriteSource(p)
  PROVE  WorkspaceInv'
<1>0. PICK s \in Sessions : s = proc[p].s
  BY RunFacts DEF WriteSource, At, SourceSteps
<1>1. At(p, "write") /\ UNCHANGED <<cache, upstream, shared, crossed>>
  BY DEF WriteSource
<1>2. CASE HasSource(p)
  BY <1>1, <1>2, FinishKeeps DEF WriteSource
<1>3. CASE ~HasSource(p)
  <2> DEFINE k == proc[p].k
             src == [k |-> k, sha |-> proc[p].sha]
             c == [proc[p] EXCEPT !.pc = "work", !.since = 0]
             d == [Of(p) EXCEPT !.source = src, !.exists = TRUE]
  <2>1. Becomes(p, c) /\ Store(s, d) /\ Release(p)
    BY <1>0, <1>3 DEF WriteSource
  <2>2. /\ proc[p].cmd = "run" /\ k \in CacheIds
        /\ proc[p] \in Process /\ Of(p) \in Directory /\ Of(p) = dir[s] /\ dir[s].source = None
    BY <1>0, <1>1, <1>3, RunFacts DEF At, SourceSteps, HasSource, Of
  <2>3. upstream \in 0..MaxUpstream /\ proc[p].since \in 0..upstream
    BY DEF WorkspaceInv, WorkType, Control, ControlOf
  <2>4. proc[p].sha \in proc[p].since..MaxUpstream
    BY <1>1 DEF WorkspaceInv, Materializing, MaterializingOf
  <2>5. proc[p].sha \in 0..MaxUpstream
    BY <2>3, <2>4
  <2>6. src \in SourceJson /\ src.k = k /\ src.sha = proc[p].sha /\ src # None
    <3>1. src \in SourceJson
      BY <2>2, <2>5 DEF SourceJson
    <3> QED
      BY <3>1, NoneIsNoSource
  <2>7. k = proc[p].k /\ src = [k |-> proc[p].k, sha |-> proc[p].sha]
    OBVIOUS
  <2> HIDE DEF k, src
  <2>8. c \in Process
    <3>1. 0 \in 0..MaxUpstream
      OBVIOUS
    <3> QED
      BY <2>2, <3>1 DEF Process
  <2>9. d \in Directory
    BY <2>2, <2>6 DEF Directory
  <2>10. /\ c.pc = "work" /\ c.cmd = "run" /\ c.s = proc[p].s /\ c.k = proc[p].k
         /\ c.sha = proc[p].sha /\ c.since = 0 /\ c.doomed = proc[p].doomed
    BY <2>2 DEF Process
  <2>11. /\ d.exists = TRUE /\ d.source = src /\ d.pid = dir[s].pid /\ d.checkout = dir[s].checkout
    BY <2>2 DEF Directory
  <2> HIDE DEF c, d
  <2>12. /\ proc' \in [Procs -> Process] /\ proc'[p] = c
         /\ \A q \in Procs \ {p} : proc'[q] = proc[q]
    BY <2>1, <2>8, BecomesEffect DEF WorkspaceInv
  <2>13. /\ dir' \in [Sessions -> Directory] /\ dir'[s] = d
         /\ \A t \in Sessions \ {s} : dir'[t] = dir[t]
    BY <2>1, <2>9, StoreEffect DEF WorkspaceInv
  <2>14. /\ lock' \in [CacheIds -> Procs \cup {None}]
         /\ \A j \in CacheIds : lock[j] # p => lock'[j] = lock[j]
    BY <2>1 DEF Release, WorkspaceInv, WorkType
  <2>15. WorkType' /\ upstream' \in 0..MaxUpstream
    BY <1>1, <2>3, <2>12, <2>13, <2>14 DEF WorkspaceInv, WorkType
  <2>16. ASSUME NEW q \in Procs \ {p} PROVE Spared(q)
    <3>1. ASSUME proc[q].pc \in {"cache", "clone", "write"}
          PROVE  \/ dir'[proc[q].s].source = Of(q).source \/ dir'[proc[q].s].source = None
                 \/ dir'[proc[q].s].source.k # proc[q].k
      <4>1. proc[q].k # k /\ proc[q].s \in Sessions
        BY <1>1, <2>7, <3>1, RunFacts, LockExcludes DEF At, SourceSteps
      <4> QED
        BY <2>6, <2>11, <2>13, <4>1 DEF Of
    <3>2. ASSUME proc[q].cmd = "run", proc[q].s \notin crossed
          PROVE  /\ At(q, "work") => /\ dir'[proc[q].s].source = Of(q).source
                                     /\ Of(q).exists => dir'[proc[q].s].exists
                 /\ proc[q].pc \in {"write", "work"} =>
                      dir'[proc[q].s].checkout[proc[q].k] = Of(q).checkout[proc[q].k]
                 /\ dir'[proc[q].s].pid = Of(q).pid
      <4>1. proc[q].s \in Sessions /\ RunIsSafe(q)
        BY <3>2 DEF WorkspaceInv, Control, ControlOf, Kept
      <4>2. At(q, "work") => Of(q).source # None
        BY <4>1, NoneIsNoSource DEF RunIsSafe
      <4>3. CASE proc[q].s = s
        BY <2>2, <2>11, <2>13, <4>1, <4>2, <4>3 DEF Of
      <4>4. CASE proc[q].s # s
        BY <2>13, <4>1, <4>4 DEF Of
      <4> QED
        BY <4>3, <4>4
    <3> QED
      BY <1>1, <2>3, <2>12, <2>14, <3>1, <3>2 DEF Spared
  <2>17. ControlOf(p)'
    <3>1. proc'[p].since \in 0..upstream'
      BY <2>10, <2>12, <2>15
    <3> QED
      BY <1>0, <2>2, <2>7, <2>10, <2>12, <3>1 DEF ControlOf, Steps
  <2>18. MaterializingOf(p)'
    BY <2>10, <2>12 DEF MaterializingOf, At
  <2>19. ASSUME s \notin crossed PROVE RunIsSafe(p)' /\ SourceIsThere(s)'
    <3>1. RunIsSafe(p)
      BY <1>0, <2>2, <2>19 DEF WorkspaceInv, Kept
    <3>2. \A q \in Procs : proc'[q].doomed = proc[q].doomed
      BY <2>10, <2>12
    <3>3. dir[s].checkout[k] = proc[p].sha
      BY <1>1, <2>2, <2>7, <3>1 DEF RunIsSafe
    <3>4. RunIsSafe(p)'
      BY <1>0, <1>1, <2>2, <2>6, <2>7, <2>10, <2>11, <2>12, <2>13, <3>1, <3>2, <3>3
      DEF RunIsSafe, At, Of
    <3>5. SourceIsThere(s)'
      BY <2>6, <2>11, <2>13, <3>3 DEF SourceIsThere
    <3> QED
      BY <3>4, <3>5
  <2>20. \A t \in Sessions \ (crossed \cup {s}) : SourceIsThere(t)'
    BY <2>13 DEF WorkspaceInv, Kept, SourceIsThere
  <2>21. \A t \in Sessions \ crossed' : SourceIsThere(t)'
    BY <1>1, <2>19, <2>20
  <2> QED
    BY <1>0, <1>1, <2>10, <2>12, <2>15, <2>16, <2>17, <2>18, <2>19, <2>21, SparedKeeps
<1> QED
  BY <1>2, <1>3

(* A run starts with a marker of its own, over that of another run of its  *)
(* session, if there is one, which is then shared.                         *)
LEMMA RunStartKeeps ==
  ASSUME WorkspaceInv, NEW p \in Procs, NEW s \in Sessions, NEW k \in CacheIds, RunStart(p, s, k)
  PROVE  WorkspaceInv'
<1> DEFINE c == [Idle EXCEPT !.cmd = "run", !.s = s, !.pc = "source", !.k = k, !.since = upstream]
           d == [dir[s] EXCEPT !.exists = TRUE, !.pid = p, !.pruned = "no"]
<1>1. /\ proc[p].cmd = "idle" /\ UNCHANGED <<cache, lock, upstream>>
      /\ Becomes(p, c) /\ Store(s, d)
  BY DEF RunStart
<1>14. /\ shared \subseteq shared' /\ crossed \subseteq crossed'
       /\ shared' \subseteq Sessions /\ crossed' \subseteq Sessions
       /\ Running(s) # {} => s \in shared'
       /\ s \notin crossed' => \A q \in Procs : s \notin proc[q].doomed
  BY DEF RunStart, WorkspaceInv, WorkType
<1>2. Idle \in Process /\ dir[s] \in Directory /\ upstream \in 0..MaxUpstream
  BY IdleFields DEF WorkspaceInv, WorkType
<1>3. c \in Process
  BY <1>2 DEF Process, Commands, SourceSteps
<1>4. d \in Directory
  BY <1>2 DEF Directory
<1>5. c.cmd = "run" /\ c.pc = "source" /\ c.s = s /\ c.k = k /\ c.since = upstream /\ c.doomed = {}
  BY <1>2, IdleFields DEF Process
<1>6. /\ d.exists = TRUE /\ d.pid = p /\ d.source = dir[s].source /\ d.checkout = dir[s].checkout
  BY <1>2 DEF Directory
<1> HIDE DEF c, d
<1>7. /\ proc' \in [Procs -> Process] /\ proc'[p] = c
      /\ \A q \in Procs \ {p} : proc'[q] = proc[q]
  BY <1>1, <1>3, BecomesEffect DEF WorkspaceInv
<1>8. /\ dir' \in [Sessions -> Directory] /\ dir'[s] = d
      /\ \A t \in Sessions \ {s} : dir'[t] = dir[t]
  BY <1>1, <1>4, StoreEffect DEF WorkspaceInv
<1>9. WorkType' /\ upstream' \in 0..MaxUpstream
  BY <1>1, <1>2, <1>7, <1>8, <1>14 DEF WorkspaceInv, WorkType
<1>10. ASSUME NEW q \in Procs \ {p} PROVE Spared(q)
  <2>1. ASSUME proc[q].cmd = "run"
        PROVE  /\ dir'[proc[q].s].source = Of(q).source /\ dir'[proc[q].s].checkout = Of(q).checkout
               /\ Of(q).exists => dir'[proc[q].s].exists
               /\ proc[q].s \notin shared' => dir'[proc[q].s].pid = Of(q).pid
    <3>1. proc[q].s \in Sessions
      BY <2>1 DEF WorkspaceInv, Control, ControlOf
    <3>2. proc[q].s \notin shared' => proc[q].s # s
      BY <1>14, <2>1 DEF Running
    <3>3. CASE proc[q].s = s
      BY <1>6, <1>8, <3>1, <3>2, <3>3 DEF Of
    <3>4. CASE proc[q].s # s
      BY <1>8, <3>1, <3>4 DEF Of
    <3> QED
      BY <3>3, <3>4
  <2>2. proc[q].pc \in {"cache", "clone", "write"} => proc[q].cmd = "run"
    BY RunFacts DEF SourceSteps
  <2> QED
    BY <1>1, <1>2, <1>7, <1>14, <2>1, <2>2 DEF Spared
<1>11. ControlOf(p)'
  <2>1. proc'[p].since \in 0..upstream'
    BY <1>1, <1>2, <1>5, <1>7
  <2> QED
    BY <1>5, <1>7, <2>1 DEF ControlOf, Steps
<1>12. MaterializingOf(p)'
  BY <1>5, <1>7 DEF MaterializingOf, At
<1>13. ASSUME s \notin crossed' PROVE RunIsSafe(p)'
  <2>1. \A q \in Procs : s \notin proc'[q].doomed
    BY <1>5, <1>7, <1>13, <1>14
  <2> QED
    BY <1>5, <1>6, <1>7, <1>8, <2>1 DEF RunIsSafe, At, Of
<1>15. \A t \in Sessions \ crossed' : SourceIsThere(t)'
  <2>1. \A t \in Sessions \ crossed' : SourceIsThere(t)
    BY <1>14 DEF WorkspaceInv, Kept
  <2>2. s \notin crossed' => SourceIsThere(s)'
    BY <1>6, <1>8, <2>1 DEF SourceIsThere
  <2>3. \A t \in Sessions \ (crossed' \cup {s}) : SourceIsThere(t)'
    BY <1>8, <2>1 DEF SourceIsThere
  <2> QED
    BY <2>2, <2>3
<1> QED
  BY <1>5, <1>7, <1>9, <1>10, <1>11, <1>12, <1>13, <1>15, SparedKeeps

(* A step that only changes results.                                       *)
LEMMA WorkKeeps ==
  ASSUME WorkspaceInv, NEW p \in Procs, Work(p)
  PROVE  WorkspaceInv'
<1>0. PICK s \in Sessions : s = proc[p].s
  BY RunFacts DEF Work, At
<1> DEFINE d == [Of(p) EXCEPT !.results = @ + 1]
<1>1. /\ At(p, "work") /\ UNCHANGED <<proc, cache, lock, upstream, shared, crossed>>
      /\ Store(s, d) /\ Of(p) = dir[s] /\ Of(p).results < MaxResults
  BY <1>0 DEF Work, Of
<1>2. proc[p].cmd = "run" /\ Of(p) \in Directory
  BY <1>1, RunFacts DEF At
<1>3. Of(p).results + 1 \in 0..MaxResults
  <2>1. Of(p).results \in 0..MaxResults
    BY <1>2 DEF Directory
  <2> QED
    BY <1>1, <2>1
<1>4. d \in Directory
  BY <1>2, <1>3 DEF Directory
<1>5. /\ d.exists = dir[s].exists /\ d.pid = dir[s].pid /\ d.source = dir[s].source
      /\ d.checkout = dir[s].checkout
  BY <1>1, <1>2 DEF Directory
<1> HIDE DEF d
<1>6. /\ dir' \in [Sessions -> Directory] /\ dir'[s] = d
      /\ \A t \in Sessions \ {s} : dir'[t] = dir[t]
  BY <1>1, <1>4, StoreEffect DEF WorkspaceInv
<1>7. \A t \in Sessions : /\ dir'[t].exists = dir[t].exists /\ dir'[t].pid = dir[t].pid
                          /\ dir'[t].source = dir[t].source /\ dir'[t].checkout = dir[t].checkout
  BY <1>5, <1>6
<1>8. WorkType'
  BY <1>1, <1>6 DEF WorkspaceInv, WorkType
<1>9. ASSUME NEW q \in Procs PROVE Spared(q)
  <2>1. upstream \in 0..MaxUpstream
    BY DEF WorkspaceInv, WorkType
  <2>2. proc[q].pc \in {"cache", "clone", "write"} => proc[q].cmd = "run"
    BY RunFacts DEF SourceSteps
  <2>3. proc[q].cmd = "run" => proc[q].s \in Sessions
    BY DEF WorkspaceInv, Control, ControlOf
  <2> QED
    BY <1>1, <1>7, <2>1, <2>2, <2>3 DEF Spared, Of
<1>10. ControlOf(p)' /\ MaterializingOf(p)'
  BY <1>9, SparedControl, SparedMaterializing
<1>11. ASSUME proc[p].s \notin crossed PROVE RunIsSafe(p)'
  <2>1. \A r \in Procs : proc[p].s \notin proc'[r].doomed
    BY <1>1, <1>2, <1>11 DEF WorkspaceInv, Kept, RunIsSafe
  <2> QED
    BY <1>1, <1>2, <1>9, <1>11, <2>1, SparedSafe
<1>12. \A t \in Sessions \ crossed' : SourceIsThere(t)'
  BY <1>1, <1>7 DEF WorkspaceInv, Kept, SourceIsThere
<1> QED
  BY <1>1, <1>8, <1>9, <1>10, <1>11, <1>12, SparedKeeps

(* What a prune chooses has no live marker, and a run's marker is its own  *)
(* pid unless it is shared; a run that shares it is crossed.               *)
LEMMA PruneStartKeeps ==
  ASSUME WorkspaceInv, NEW p \in Procs, NEW o \in BOOLEAN, NEW t \in BOOLEAN,
         NEW y \in SUBSET Sessions, PruneStart(p, o, t, y)
  PROVE  WorkspaceInv'
<1> DEFINE doomed == {s \in Sessions : dir[s].exists /\ decide_skip(s, o, t, s \in y) = "None"}
           c == [Idle EXCEPT !.cmd = "prune", !.pc = "delete", !.only = o, !.doomed = doomed]
<1>1. /\ UNCHANGED <<dir, cache, lock, upstream, shared>> /\ proc[p].cmd = "idle"
      /\ Becomes(p, c)
  BY DEF PruneStart
<1>2. doomed \in SUBSET Sessions /\ \A s \in doomed : ~is_live(dir[s].pid)
  BY DEF decide_skip
<1>14. crossed' = crossed \cup {s \in doomed \cap shared : Running(s) # {}}
  BY DEF PruneStart
<1>15. /\ crossed \subseteq crossed' /\ crossed' \subseteq Sessions
       /\ \A s \in doomed \cap shared : Running(s) # {} => s \in crossed'
  BY <1>2, <1>14 DEF WorkspaceInv, WorkType
<1> HIDE DEF doomed
<1>3. Idle \in Process
  BY IdleFields
<1>4. c \in Process
  BY <1>2, <1>3 DEF Process, Commands
<1>5. c.cmd = "prune" /\ c.pc = "delete" /\ c.doomed = doomed /\ c.since = 0
  BY <1>3, IdleFields DEF Process
<1> HIDE DEF c
<1>6. /\ proc' \in [Procs -> Process] /\ proc'[p] = c
      /\ \A q \in Procs \ {p} : proc'[q] = proc[q]
  BY <1>1, <1>4, BecomesEffect DEF WorkspaceInv
<1>7. WorkType' /\ upstream' \in 0..MaxUpstream
  BY <1>1, <1>6, <1>15 DEF WorkspaceInv, WorkType
<1>8. /\ \A q \in Procs \ {p} : Spared(q)
      /\ \A s \in Sessions \ crossed' : SourceIsThere(s)'
  <2>1. upstream \in 0..MaxUpstream
    BY DEF WorkspaceInv, WorkType
  <2>2. \A q \in Procs \ {p} : Spared(q)
    BY <1>1, <1>6, <1>15, <2>1 DEF Spared, Of
  <2> QED
    BY <1>1, <1>15, <2>2 DEF WorkspaceInv, Kept, SourceIsThere
<1>9. ControlOf(p)'
  <2>1. proc'[p].since \in 0..upstream'
    BY <1>5, <1>6, <1>7
  <2> QED
    BY <1>5, <1>6, <2>1 DEF ControlOf, Steps, SourceSteps
<1>10. MaterializingOf(p)'
  BY <1>5, <1>6 DEF MaterializingOf, At
<1>13. ASSUME NEW q \in Procs \ {p}, proc[q].cmd = "run", proc[q].s \notin crossed'
       PROVE  proc[q].s \notin c.doomed
  <2>1. RunIsSafe(q) /\ proc[q].s \in Sessions
    BY <1>13, <1>15 DEF WorkspaceInv, Kept, Control, ControlOf
  <2>2. CASE proc[q].s \in shared
    <3>1. Running(proc[q].s) # {}
      BY <1>13 DEF Running
    <3> QED
      BY <1>5, <1>13, <1>15, <2>2, <3>1
  <2>3. CASE proc[q].s \notin shared
    <3>1. dir[proc[q].s].pid = q
      BY <2>1, <2>3 DEF RunIsSafe, Of
    <3>2. is_live(dir[proc[q].s].pid)
      BY <1>13, <3>1 DEF is_live
    <3> QED
      BY <1>2, <1>5, <3>2
  <2> QED
    BY <2>2, <2>3
<1> QED
  BY <1>5, <1>6, <1>7, <1>8, <1>9, <1>10, <1>13, SparedKeeps

(* A directory that a prune removes is no running session's, unless it     *)
(* crossed the run.                                                        *)
LEMMA DeleteKeeps ==
  ASSUME WorkspaceInv, NEW p \in Procs, NEW s \in Sessions, Delete(p, s)
  PROVE  WorkspaceInv'
<1> DEFINE how == IF proc[p].only THEN "archived" ELSE "any"
           d == [Absent EXCEPT !.pruned = how]
           c == [proc[p] EXCEPT !.doomed = @ \ {s}]
<1>1. /\ UNCHANGED <<cache, lock, upstream, shared, crossed>> /\ At(p, "delete") /\ s \in proc[p].doomed
      /\ Becomes(p, c) /\ Store(s, d)
  BY DEF Delete
<1>2. proc[p] \in Process /\ proc[p].cmd = "prune" /\ upstream \in 0..MaxUpstream
  BY <1>1 DEF WorkspaceInv, WorkType, Control, ControlOf, At
<1>3. c \in Process
  BY <1>2 DEF Process
<1>4. /\ c.cmd = "prune" /\ c.pc = "delete" /\ c.doomed = proc[p].doomed \ {s}
      /\ c.since = proc[p].since
  BY <1>1, <1>2 DEF Process, At
<1>5. how \in {"no", "archived", "any"}
  OBVIOUS
<1> HIDE DEF how
<1>6. d \in Directory
  <2>1. Absent \in Directory
    BY DEF Absent, Directory
  <2> QED
    BY <1>5, <2>1 DEF Directory
<1>7. d.source = None
  BY DEF Absent
<1> HIDE DEF c, d
<1>8. /\ proc' \in [Procs -> Process] /\ proc'[p] = c
      /\ \A q \in Procs \ {p} : proc'[q] = proc[q]
  BY <1>1, <1>3, BecomesEffect DEF WorkspaceInv
<1>9. /\ dir' \in [Sessions -> Directory] /\ dir'[s] = d
      /\ \A t \in Sessions \ {s} : dir'[t] = dir[t]
  BY <1>1, <1>6, StoreEffect DEF WorkspaceInv
<1>10. WorkType'
  BY <1>1, <1>8, <1>9 DEF WorkspaceInv, WorkType
<1>11. ASSUME NEW q \in Procs \ {p} PROVE Spared(q)
  <2>1. proc[q].cmd = "run" => proc[q].s \in Sessions
    BY DEF WorkspaceInv, Control, ControlOf
  <2>2. proc[q].pc \in {"cache", "clone", "write"} => proc[q].cmd = "run"
    BY RunFacts DEF SourceSteps
  <2>3. ASSUME proc[q].cmd = "run", proc[q].s \notin crossed PROVE proc[q].s # s
    <3>1. RunIsSafe(q)
      BY <2>3 DEF WorkspaceInv, Kept
    <3>2. proc[q].s \notin proc[p].doomed
      BY <3>1 DEF RunIsSafe
    <3> QED
      BY <1>1, <3>2
  <2>4. proc[q].cmd = "run" => \/ dir'[proc[q].s].source = Of(q).source
                               \/ dir'[proc[q].s].source = None
    BY <1>7, <1>9, <2>1 DEF Of
  <2>5. proc[q].cmd = "run" /\ proc[q].s \notin crossed => dir'[proc[q].s] = Of(q)
    BY <1>9, <2>1, <2>3 DEF Of
  <2> QED
    BY <1>1, <1>2, <1>8, <2>2, <2>4, <2>5 DEF Spared
<1>12. ControlOf(p)'
  <2>1. ControlOf(p)
    BY DEF WorkspaceInv, Control
  <2>2. proc'[p].since \in 0..upstream'
    BY <1>1, <1>4, <1>8, <2>1 DEF ControlOf
  <2> QED
    BY <1>4, <1>8, <2>2 DEF ControlOf, Steps, SourceSteps
<1>13. MaterializingOf(p)'
  BY <1>4, <1>8 DEF MaterializingOf, At
<1>14. \A t \in Sessions \ crossed' : SourceIsThere(t)'
  BY <1>1, <1>7, <1>9 DEF WorkspaceInv, Kept, SourceIsThere
<1>15. proc'[p].cmd # "run" /\ proc'[p].doomed \subseteq proc[p].doomed
  BY <1>4, <1>8
<1> QED
  BY <1>10, <1>11, <1>12, <1>13, <1>14, <1>15, SparedKeeps

(* A kill leaves half a clone in a cache or a checkout that nobody uses.   *)
LEMMA KillKeeps ==
  ASSUME WorkspaceInv, NEW p \in Procs, Kill(p)
  PROVE  WorkspaceInv'
<1>1. /\ Becomes(p, Idle) /\ Release(p) /\ UNCHANGED <<upstream, shared, crossed>>
  BY DEF Kill
<1>2. /\ proc' \in [Procs -> Process] /\ proc'[p] = Idle
      /\ \A q \in Procs \ {p} : proc'[q] = proc[q]
  BY <1>1, IdleFields, BecomesEffect DEF WorkspaceInv
<1>3. /\ lock' \in [CacheIds -> Procs \cup {None}]
      /\ \A j \in CacheIds : lock[j] # p => lock'[j] = lock[j]
  BY <1>1 DEF Release, WorkspaceInv, WorkType
<1>4. upstream \in 0..MaxUpstream /\ upstream' \in 0..MaxUpstream
  BY <1>1 DEF WorkspaceInv, WorkType
<1>5. ControlOf(p)' /\ MaterializingOf(p)' /\ proc'[p].cmd # "run" /\ proc'[p].doomed = {}
  BY <1>2, <1>4, IdleKnows
<1>6. CASE UNCHANGED <<dir, cache>>
  <2>1. WorkType'
    BY <1>1, <1>2, <1>3, <1>6 DEF WorkspaceInv, WorkType
  <2>2. /\ \A q \in Procs \ {p} : Spared(q)
        /\ \A s \in Sessions \ crossed' : SourceIsThere(s)'
    BY <1>1, <1>2, <1>3, <1>6, QuietSpares
  <2> QED
    BY <1>1, <1>5, <2>1, <2>2, SparedKeeps
<1>7. CASE At(p, "cache") /\ cache' = [cache EXCEPT ![proc[p].k] = Partial] /\ UNCHANGED dir
  <2>1. proc[p].k \in CacheIds
    BY <1>7, RunFacts DEF At, SourceSteps
  <2>2. /\ cache' \in [CacheIds -> Shas \cup {None}]
        /\ \A k \in CacheIds \ {proc[p].k} : cache'[k] = cache[k]
    <3>1. Partial \in Shas
      BY DEF Partial, Shas
    <3> QED
      BY <1>7, <2>1, <3>1 DEF WorkspaceInv, WorkType
  <2>3. WorkType'
    BY <1>1, <1>2, <1>3, <1>7, <2>2 DEF WorkspaceInv, WorkType
  <2>4. ASSUME NEW q \in Procs \ {p} PROVE Spared(q)
    <3>1. ASSUME At(q, "clone") PROVE cache'[proc[q].k] = cache[proc[q].k]
      <4>1. proc[q].k \in CacheIds /\ proc[q].k # proc[p].k
        BY <1>7, <3>1, RunFacts, LockExcludes DEF At, SourceSteps
      <4> QED
        BY <2>2, <4>1
    <3> QED
      BY <1>1, <1>2, <1>3, <1>4, <1>7, <3>1 DEF Spared, Of
  <2>5. \A s \in Sessions \ crossed' : SourceIsThere(s)'
    BY <1>1, <1>7 DEF WorkspaceInv, Kept, SourceIsThere
  <2> QED
    BY <1>1, <1>5, <2>3, <2>4, <2>5, SparedKeeps
<1>8. ASSUME At(p, "clone"), UNCHANGED cache, NEW left \in {None, Partial},
             Store(proc[p].s, [Of(p) EXCEPT !.checkout[proc[p].k] = left])
      PROVE  WorkspaceInv'
  <2>0. PICK s \in Sessions : s = proc[p].s
    BY <1>8, RunFacts DEF At, SourceSteps
  <2> DEFINE k == proc[p].k
             d == [Of(p) EXCEPT !.checkout[k] = left]
  <2>1. Store(s, d)
    BY <1>8, <2>0
  <2>2. proc[p].cmd = "run" /\ k \in CacheIds /\ Of(p) \in Directory /\ Of(p) = dir[s] /\ k = proc[p].k
    BY <1>8, <2>0, RunFacts DEF At, SourceSteps, Of
  <2>3. dir[s].source = None \/ dir[s].source.k # k
    BY <1>8, <2>2 DEF WorkspaceInv, Materializing, MaterializingOf, At
  <2> HIDE DEF k
  <2>4. d \in Directory
    <3>1. [Of(p).checkout EXCEPT ![k] = left] \in [CacheIds -> Shas \cup {None}]
      BY <2>2 DEF Directory, Partial, Shas
    <3> QED
      BY <2>2, <3>1 DEF Directory
  <2>5. /\ d.exists = dir[s].exists /\ d.source = dir[s].source /\ d.pid = dir[s].pid
        /\ \A j \in CacheIds \ {k} : d.checkout[j] = dir[s].checkout[j]
    BY <2>2 DEF Directory
  <2> HIDE DEF d
  <2>6. /\ dir' \in [Sessions -> Directory] /\ dir'[s] = d
        /\ \A t \in Sessions \ {s} : dir'[t] = dir[t]
    BY <2>1, <2>4, StoreEffect DEF WorkspaceInv
  <2>7. WorkType'
    BY <1>1, <1>2, <1>3, <1>8, <2>6 DEF WorkspaceInv, WorkType
  <2>8. ASSUME NEW q \in Procs \ {p} PROVE Spared(q)
    <3>1. proc[q].cmd = "run" => proc[q].s \in Sessions
      BY DEF WorkspaceInv, Control, ControlOf
    <3>2. proc[q].pc \in {"cache", "clone", "write"} => proc[q].cmd = "run"
      BY RunFacts DEF SourceSteps
    <3>3. ASSUME proc[q].pc \in {"write", "work"}, proc[q].s \notin crossed, proc[q].s = s
          PROVE  dir'[s].checkout[proc[q].k] = dir[s].checkout[proc[q].k]
      <4>1. proc[q].k \in CacheIds
        BY <3>3, RunFacts DEF SourceSteps
      <4>2. CASE proc[q].pc = "write"
        <5>1. proc[q].k # k
          BY <1>8, <2>2, <4>2, LockExcludes DEF At
        <5> QED
          BY <2>5, <2>6, <4>1, <5>1
      <4>3. CASE proc[q].pc = "work"
        <5>1. RunIsSafe(q)
          BY <3>3, <4>3, RunFacts DEF WorkspaceInv, Kept
        <5>2. dir[s].source = [k |-> proc[q].k, sha |-> proc[q].sha] /\ dir[s].source # None
          BY <3>3, <4>3, <5>1, NoneIsNoSource DEF RunIsSafe, At, Of
        <5>3. proc[q].k # k
          BY <2>3, <5>2
        <5> QED
          BY <2>5, <2>6, <4>1, <5>3
      <4> QED
        BY <3>3, <4>2, <4>3
    <3>4. CASE proc[q].s = s
      BY <1>1, <1>2, <1>3, <1>4, <1>8, <2>5, <2>6, <3>2, <3>3, <3>4 DEF Spared, Of, At
    <3>5. CASE proc[q].s # s
      BY <1>1, <1>2, <1>3, <1>4, <1>8, <2>6, <3>1, <3>2, <3>5 DEF Spared, Of, At
    <3> QED
      BY <3>4, <3>5
  <2>9. \A t \in Sessions \ crossed' : SourceIsThere(t)'
    <3>1. \A t \in Sessions \ crossed : SourceIsThere(t)
      BY DEF WorkspaceInv, Kept
    <3>2. ASSUME s \notin crossed PROVE SourceIsThere(s)'
      <4>1. dir[s].source # None => dir[s].source \in SourceJson
        BY <2>2 DEF Directory
      <4>2. dir[s].source # None => dir[s].source.k \in CacheIds
        BY <4>1 DEF SourceJson
      <4> QED
        BY <2>3, <2>5, <2>6, <3>1, <3>2, <4>2 DEF SourceIsThere
    <3>3. \A t \in Sessions \ (crossed \cup {s}) : SourceIsThere(t)'
      BY <2>6, <3>1 DEF SourceIsThere
    <3> QED
      BY <1>1, <3>2, <3>3
  <2> QED
    BY <1>1, <1>5, <2>7, <2>8, <2>9, SparedKeeps
<1>9. \/ UNCHANGED <<dir, cache>>
      \/ At(p, "cache") /\ cache' = [cache EXCEPT ![proc[p].k] = Partial] /\ UNCHANGED dir
      \/ /\ At(p, "clone") /\ UNCHANGED cache
         /\ \E left \in {None, Partial} : Store(proc[p].s, [Of(p) EXCEPT !.checkout[proc[p].k] = left])
  BY DEF Kill
<1> QED
  BY <1>6, <1>7, <1>8, <1>9

(* The archive of a session, by a command of its own or by its run.        *)
StartsArchive(p, s) == \E dry \in BOOLEAN : ArchiveStart(p, s, dry)
LEMMA ArchiveStartEffect ==
  ASSUME WorkType, NEW p \in Procs, NEW s \in Sessions, StartsArchive(p, s)
  PROVE  /\ proc' \in [Procs -> Process] /\ \A q \in Procs \ {p} : proc'[q] = proc[q]
         /\ proc'[p].cmd = "archive" /\ proc'[p].pc = "check" /\ proc'[p].s = s
         /\ proc'[p].since = 0 /\ proc'[p].only = FALSE /\ proc'[p].doomed = {}
<1>0. PICK dry \in BOOLEAN : ArchiveStart(p, s, dry)
  BY DEF StartsArchive
<1> DEFINE c == [Idle EXCEPT !.cmd = "archive", !.s = s, !.pc = "check", !.dry = dry]
<1>1. Becomes(p, c)
  BY <1>0 DEF ArchiveStart
<1>2. Idle \in Process
  BY IdleFields
<1>3. c \in Process
  BY <1>2 DEF Process, Commands, Steps
<1>4. c.cmd = "archive" /\ c.pc = "check" /\ c.s = s /\ c.since = 0 /\ c.only = FALSE
      /\ c.doomed = {}
  BY <1>2, IdleFields DEF Process
<1> HIDE DEF c
<1> QED
  BY <1>1, <1>3, <1>4, BecomesEffect

(* The same in the run's process.                                          *)
LEMMA RunArchivesEffect ==
  ASSUME WorkType, NEW p \in Procs, RunArchives(p)
  PROVE  /\ proc' \in [Procs -> Process] /\ \A q \in Procs \ {p} : proc'[q] = proc[q]
         /\ proc'[p].cmd = proc[p].cmd /\ proc'[p].pc = "check" /\ proc'[p].s = proc[p].s
         /\ proc'[p].since = proc[p].since /\ proc'[p].only = proc[p].only
         /\ proc'[p].doomed = proc[p].doomed
<1> DEFINE c == [proc[p] EXCEPT !.pc = "check", !.k = None, !.sha = None]
<1>1. Becomes(p, c) /\ proc[p] \in Process
  BY DEF RunArchives, WorkType
<1>2. c \in Process
  BY <1>1 DEF Process, Steps
<1>3. /\ c.cmd = proc[p].cmd /\ c.pc = "check" /\ c.s = proc[p].s /\ c.since = proc[p].since
      /\ c.only = proc[p].only /\ c.doomed = proc[p].doomed
  BY <1>1 DEF Process
<1> HIDE DEF c
<1> QED
  BY <1>1, <1>2, <1>3, BecomesEffect

(* On its way through an archive a command needs nothing of the workspace. *)
LEMMA ArchivingKeeps ==
  ASSUME WorkspaceInv, NEW p \in Procs, UNCHANGED <<dir, cache, lock, upstream, shared, crossed>>,
         proc' \in [Procs -> Process], \A q \in Procs \ {p} : proc'[q] = proc[q],
         proc'[p].pc \in Steps, proc'[p].cmd \in {"run", "archive"}, proc'[p].s \in Sessions,
         proc'[p].cmd = "run" => proc[p].cmd = "run" /\ proc'[p].s = proc[p].s,
         proc'[p].since \in 0..upstream, proc'[p].doomed \subseteq proc[p].doomed
  PROVE  WorkspaceInv'
<1>1. WorkType'
  BY DEF WorkspaceInv, WorkType
<1>2. /\ \A q \in Procs \ {p} : Spared(q)
      /\ \A s \in Sessions \ crossed' : SourceIsThere(s)'
  BY QuietSpares
<1>3. ControlOf(p)'
  BY DEF ControlOf, Steps, SourceSteps
<1>4. MaterializingOf(p)'
  BY DEF MaterializingOf, At, Steps
<1>5. ASSUME proc'[p].cmd = "run", proc'[p].s \notin crossed' PROVE RunIsSafe(p)'
  <2>1. RunIsSafe(p)
    BY <1>5 DEF WorkspaceInv, Kept
  <2>2. proc'[p].pc \notin {"write", "work"}
    BY DEF Steps
  <2>3. \A q \in Procs : proc'[q].doomed \subseteq proc[q].doomed
    OBVIOUS
  <2> QED
    BY <1>5, <2>1, <2>2, <2>3 DEF RunIsSafe, At, Of
<1> QED
  BY <1>1, <1>2, <1>3, <1>4, <1>5, SparedKeeps

(* No step of an archive disturbs runs and prunes.                         *)
LEMMA ArchiveKeeps ==
  ASSUME WorkspaceInv, NEW p \in Procs, ArchiveEffect(p)
  PROVE  WorkspaceInv'
<1>1. CASE Finish(p)
  BY <1>1, FinishKeeps DEF ArchiveEffect
<1>2. CASE ~Finish(p)
  <2>1. ControlOf(p)
    BY DEF WorkspaceInv, Control
  <2> QED
    BY <1>2, <2>1, ArchivingKeeps DEF ArchiveEffect, ControlOf
<1> QED
  BY <1>1, <1>2

(* The operator, the peers and the source branch.                          *)
Others == \/ Restore \/ CommitByHand \/ FinishRebase \/ AbortRebase
          \/ (\E f \in Foreign : PeerArchives(f)) \/ PeerCommits

(* Steps that touch no directory, command, cache or lock.                  *)
LEMMA UnchangedKeeps ==
  ASSUME WorkspaceInv, UNCHANGED <<dir, proc, cache, lock, shared, crossed>>, upstream' \in upstream..MaxUpstream
  PROVE  WorkspaceInv'
<1>1. upstream \in 0..MaxUpstream /\ upstream' \in 0..MaxUpstream
  <2>1. upstream \in 0..MaxUpstream
    BY DEF WorkspaceInv, WorkType
  <2> QED
    BY <2>1
<1>2. WorkType'
  BY <1>1 DEF WorkspaceInv, WorkType
<1>3. Control'
  BY <1>1 DEF WorkspaceInv, Control, ControlOf
<1>4. Materializing'
  BY DEF WorkspaceInv, Materializing, MaterializingOf, At, Of
<1>5. Kept'
  BY DEF WorkspaceInv, Kept, RunIsSafe, SourceIsThere, At, Of
<1> QED
  BY <1>2, <1>3, <1>4, <1>5 DEF WorkspaceInv

(* Every step of Operator.                                                 *)
LEMMA WorkspaceStep ==
  ASSUME WorkspaceInv, [Next]_vars
  PROVE  WorkspaceInv'
<1>1. upstream \in 0..MaxUpstream
  BY DEF WorkspaceInv, WorkType
<1>2. ASSUME NEW p \in Procs, EndRun(p) \/ PruneEnd(p) \/ FetchFails(p) PROVE WorkspaceInv'
  BY <1>2, FinishKeeps DEF EndRun, PruneEnd, FetchFails
<1>3. ASSUME NEW p \in Procs, ArchiveStep(p) PROVE WorkspaceInv'
  BY <1>3, ArchiveSteps, ArchiveKeeps DEF WorkspaceInv
<1>4. ASSUME NEW p \in Procs, NEW s \in Sessions, \E dry \in BOOLEAN : ArchiveStart(p, s, dry)
      PROVE  WorkspaceInv'
  <2>1. UNCHANGED <<dir, cache, lock, upstream, shared, crossed>> /\ "check" \in Steps /\ 0 \in 0..upstream
    BY <1>1, <1>4 DEF ArchiveStart, Steps
  <2>2. /\ proc' \in [Procs -> Process] /\ \A q \in Procs \ {p} : proc'[q] = proc[q]
        /\ proc'[p].cmd = "archive" /\ proc'[p].pc = "check" /\ proc'[p].s = s
        /\ proc'[p].since = 0 /\ proc'[p].doomed = {}
    <3>1. WorkType
      BY DEF WorkspaceInv
    <3>2. StartsArchive(p, s)
      BY <1>4 DEF StartsArchive
    <3> QED
      BY <3>1, <3>2, ArchiveStartEffect
  <2>3. proc'[p].pc \in Steps /\ proc'[p].since \in 0..upstream
    BY <2>1, <2>2
  <2> QED
    BY <2>1, <2>2, <2>3, ArchivingKeeps
<1>5. ASSUME NEW p \in Procs, RunArchives(p) PROVE WorkspaceInv'
  <2>1. /\ UNCHANGED <<dir, cache, lock, upstream, shared, crossed>> /\ "check" \in Steps
        /\ proc[p].pc = "work"
    BY <1>5 DEF RunArchives, Steps, At
  <2>2. proc[p].cmd = "run" /\ proc[p].s \in Sessions /\ proc[p].since \in 0..upstream
    BY <2>1, RunFacts DEF WorkspaceInv, Control, ControlOf
  <2> QED
    BY <1>5, <2>1, <2>2, RunArchivesEffect, ArchivingKeeps DEF WorkspaceInv
<1>6. CASE Upstream
  <2>1. upstream' \in upstream..MaxUpstream
    BY <1>1, <1>6 DEF Upstream
  <2> QED
    BY <1>6, <2>1, UnchangedKeeps DEF Upstream
<1>7. CASE Others
  <2>1. UNCHANGED <<dir, proc, cache, lock, shared, crossed, upstream>>
    BY <1>7 DEF Others, Restore, CommitByHand, FinishRebase, AbortRebase, PeerArchives, PeerCommits
  <2> QED
    BY <1>1, <2>1, UnchangedKeeps
<1>8. CASE UNCHANGED vars
  BY <1>1, <1>8, UnchangedKeeps DEF vars
<1>9. CASE Next
  BY <1>2, <1>3, <1>4, <1>5, <1>6, <1>7, <1>9, DeleteKeeps, ReadSourceKeeps, AcquireLockKeeps,
     RecheckKeeps, EnsureCacheKeeps, CloneKeeps, WriteSourceKeeps, RunStartKeeps, PruneStartKeeps,
     WorkKeeps, KillKeeps
  DEF Next, Step, ArchiveStep, Others
<1> QED
  BY <1>8, <1>9

(* Commands are where Control says, the holder of a lock has what          *)
(* Materializing says, and where no prune crossed a run, sources,          *)
(* checkouts and, unless two runs shared them, markers stay with their     *)
(* runs (Kept): the inductive invariant of runs and prunes.                *)
THEOREM WorkspaceInvariant == Spec => []WorkspaceInv
<1>1. Init => WorkspaceInv
  <2> SUFFICES ASSUME Init PROVE WorkspaceInv
    OBVIOUS
  <2>1. Absent \in Directory /\ Absent.source = None
    BY DEF Absent, Directory
  <2>2. dir \in [Sessions -> Directory] /\ \A s \in Sessions : dir[s].source = None
    BY <2>1 DEF Init
  <2>3. proc \in [Procs -> Process] /\ \A p \in Procs : proc[p] = Idle
    BY IdleFields DEF Init
  <2>4. WorkType
    BY <2>2, <2>3 DEF Init, WorkType
  <2>5. \A p \in Procs : proc[p].cmd = "idle" /\ proc[p].pc = "" /\ proc[p].since = 0
    BY <2>3, IdleFields
  <2>6. upstream = 0 /\ 0 \in 0..0
    BY DEF Init
  <2>7. Control
    BY <2>3, <2>5, <2>6, IdleFields DEF Control, ControlOf
  <2>8. Materializing /\ Kept
    BY <2>2, <2>5 DEF Materializing, MaterializingOf, Kept, RunIsSafe, SourceIsThere, At
  <2> QED
    BY <2>4, <2>7, <2>8 DEF WorkspaceInv
<1>2. WorkspaceInv /\ [Next]_vars => WorkspaceInv'
  BY WorkspaceStep
<1> QED
  BY <1>1, <1>2, PTL DEF Spec

(* Whatever other runs, prunes, kills and failed calls do, a run that      *)
(* works keeps its source and its checkout to the end, unless a prune had  *)
(* chosen its session before it began, or chose it while two runs shared   *)
(* its marker (materialize_session_source, run_pid, prune).                *)
THEOREM LiveRunsAreSafe == Spec => []LiveRunKeepsItsWorkspace
<1>1. WorkspaceInv => LiveRunKeepsItsWorkspace
  <2> SUFFICES ASSUME WorkspaceInv, NEW p \in Procs, At(p, "work"), proc[p].s \notin crossed
               PROVE  RunIsSafe(p)
    BY DEF RunIsSafe, LiveRunKeepsItsWorkspace
  <2>1. proc[p].cmd = "run"
    BY RunFacts DEF At
  <2> QED
    BY <2>1 DEF WorkspaceInv, Kept
<1> QED
  BY <1>1, WorkspaceInvariant, PTL

(* Whatever operators do at the same time, no session starts from a source *)
(* older than the branch was when its run began (ensure_cache).            *)
THEOREM SourcesAreFresh == Spec => []FreshSource
<1>1. WorkspaceInv => FreshSource
  <2> SUFFICES ASSUME WorkspaceInv, NEW p \in Procs, At(p, "write") PROVE proc[p].sha >= proc[p].since
    BY DEF FreshSource
  <2>1. proc[p].since \in 0..upstream /\ upstream \in 0..MaxUpstream
    BY DEF WorkspaceInv, WorkType, Control, ControlOf
  <2>2. proc[p].sha \in proc[p].since..MaxUpstream
    BY DEF WorkspaceInv, Materializing, MaterializingOf
  <2> QED
    BY <2>1, <2>2
<1> QED
  BY <1>1, WorkspaceInvariant, PTL
=============================================================================
