# Verification of sbagent

This directory is a TLA+ development for `crates/stacks-bench-agent` (the
`sbagent` binary): the coordinator that benchmarks a Stacks node source tree,
has agents look for optimizations, lets further agents implement them in
per-target git clones, measures what they did, and publishes the survivors as
pull requests or issues. The code paths below are relative to
`src/crates/stacks-bench-agent/src/`.

The questions behind all of it: agents are untrusted, every phase is also a
command an operator may run by hand, processes are killed half way, several
processes share a machine and several machines an operator repository, and the
only memory is files. Does what reaches a plan, a summary row or a pull request
still belong together? Do the ledgers that several writers append to still tell
one story? And does the loop that reads them stay away from known work without
stopping for good?

## 1. Inventory

`cli/session/run.rs::run` is the chain: preflight, run marker, source
materialisation, history projection, then the phases. Any error in a phase ends
the command; nothing is rolled back. Components talk to each other only through
files under `<sessions_root>/<id>/results/`, the per-target clones, GitHub, and
the operator repository (ledger).

| Component | State it keeps | Operations | Hard behaviour | Correct when |
|---|---|---|---|---|
| Source (`source/*`) | bare cache, per-session checkout, write-once `source.json` | seed, fetch, materialise | shared cache between processes, crash between checkout and `source.json` | a session is pinned to one commit for good |
| Phase 0a/0 baseline (`session/baseline.rs`) | archived binary and manifest, run ids of the discovery passes | archive, run, rerun, import | import without build, partial outputs | the manifest names the source the binary was built from |
| Phase 1/1.2/1.5 triage, memory, analyzers | candidates, per-family analyses | agents, fan-out | agent output is untrusted | analyses are of known families |
| Phase 1.7 merge (`session/merge.rs`) | `merge/optimization-targets.json` | agent, validation, de-duplication | invalid output, old file kept on failure | `normal_pr` targets, and only those, have verification invocations |
| Phase 1.8 calibration (`session/calibration.rs`) | `verify/<t>/baseline-run-ids.json` | one bench run per invocation | loop fails half way, plan changed since | runs are of the pinned source |
| Phase 2 optimizers (`session/optimizers.rs`) | clone, `optimizer-report.json`, `coordinator-provenance.json`, `consensus-issue.md` | resume gate, clone, clear, agent, commit, demote, sidecar, prune, clean | permits, lying or committing agents, git failures, kill between any two steps | an implemented report stands for a commit in the clone |
| Phase 3 bench (`session/bench_experiments.rs`) | `optimize/<t>/bin`, `candidate-run-ids.json` | build all, bench all, clean | stale binary, loop fails half way | runs are of the landed commit |
| Phase 3.5 results analyzer | `results-analysis.json` | eligibility, one agent per target, clean | stale or invented verdicts | a verdict is only used for the runs it names |
| Phase 4 finalize | `finalize/summary.json` | evaluate each target, clean | combines files of different phases and times | a row's parts belong to one attempt |
| Phase 5 publish (`session/publish.rs`) | `pr-*`/`issue-*` texts, `publish-feedback.json`, branches, PRs, issues | generate, push, clean | several remote calls per target, retried after failures of unknown effect | at most one object per target, its head is or descends from what was judged |
| Phase 6 archive (`session/archive.rs`) | `sessions.jsonl`, session branch | append, commit, push with retries, dry run | crash between append and push | a session is in the ledger exactly once |
| Maintain (`session/maintain.rs`) | `maintain.jsonl` | ask GitHub, derive events, append, commit, push | limit, rate-limit floor, cut-short append, kills, racing clones, objects that change meanwhile | each artifact's events are one lifecycle, none is lost once on origin, and an end is recorded in the end |
| History / dedup / autonomy | projections of both ledgers | project, block, penalise, gate | event order, several sessions per target | an open or merged target is not attempted again |
| Rejections database (`analyzed_rejections.rs`) | a JSONL file and its lock | append, trim, remove, probe | cut-short appends, rewrites next to appends | no acknowledged rejection leaves the file but by request |
| Workspace prune / run marker | `.run.pid`, session directories | prune, install, clear | prune racing a run | a run keeps its workspace, the prune that decided before it aside |
| Bench lock, stacks-bench client | lock file, SQLite database | invoke, extract run id | several processes | runs do not overlap |
| Preflight, `session validate` | none | probes, coverage checks | duplicate of the merge's checks | they agree with what they check |
| Agent harness, settings, prompts, schemas, rendering, CLI reports | none that a protocol depends on | | process timeouts | text and process I/O |

`PROJECT.json` lists the same components with their status, and under `hazards`
the places where each hard behaviour bites.

## 2. Plan

Done: the whole session, from its source to the archive; `maintain`; the loop
around them; the rejections database; theorems about all of them, which state every
invariant, action property and refinement that a passing run checks, and a run for
each disagreement with a doc or comment that a property can state. Left:

1. A variant of `Publish` with a lagging issue search.
2. Several archives, or maintain invocations, at once in one working copy, which
   nothing in the code prevents. (`Loop` has overlapping maintain invocations on the
   reading side: what their lines do to sessions and gates.)

## 3. What is modelled

| Module | Models | Notes |
|---|---|---|
| `SessionArtifacts` | the artifact files, clones, GitHub objects and the process; loader checks; the chain of phases; the merge's result | extended by every phase module |
| `Optimizers` | Phase 2, session-end pruning, `optimize clean` | one action per step of `run_one`, which interleave between targets |
| `Benchmarks` | Phases 1.8 and 3, `bench clean` | one action per bench run |
| `ResultsAnalyzer` | Phase 3.5, `analyze-results clean` | |
| `Finalize` | Phase 4, `finalize clean` | `EvaluateTarget` is a function of the artifacts |
| `Publish` | Phase 5 generate and push, `publish clean` | one action per remote call |
| `Session` | the commands: `session run` (with or without publishing), `session publish`, each phase by hand, cleans, `--resume`, kills; the properties | composes all of the above |
| `SessionInvariants` | the inductive invariants | |
| `SessionProofs`, `EvidenceProofs` | the theorems | |
| `MCSession` | constants for TLC | |
| `Maintain` | `sbagent maintain`: start, one query at a time, append, commit, push, and every way to fail; around it GitHub, `session archive` and pulls | one invocation per clone, any number of clones |
| `Lifecycle` | abstract specification: the life of a pull request or issue as the ledger is meant to tell it | implemented by `Maintain` |
| `MaintainInvariants` | the properties, the inductive invariant, the refinement mapping | |
| `MaintainProofs` | the theorems | |
| `MCMaintain` | constants for TLC | |
| `Merge` | Phase 1.7 as functions: de-duplication filter, what the agent may answer, validation, and the coverage checks of `session validate` | pure operators |
| `Discovery` | Phases 0a to 1.7 of a session: baseline by run or import, triage, memory, analyzers, merge, their clean commands; another process with the same bench lock and database | extends `Merge` |
| `DiscoveryInvariants`, `DiscoveryProofs` | its inductive invariant; the theorems | |
| `History` | `history_projection` and `dedup` as functions of the two ledgers | pure operators |
| `OptimizerMemory` | the memory the prompts of a family get | pure operators, extends `History` |
| `Loop` | sessions behind preflight and the autonomy gates, reviewers, operator, maintain | extends `History` |
| `LoopInvariants`, `LoopProofs` | its inductive invariant, what the memory must hold; the theorems | `LoopInvariants` also extends `OptimizerMemory` |
| `Workspace`, `Source`, `Archive` | run marker and prune; source cache and session source; Phase 6 | state in `Workspace` |
| `Operator` | the three together with kills, repairs and peers; the properties | |
| `OperatorInvariants` | its inductive invariant | |
| `WorkspaceProofs`, `LedgerProofs` | the theorems: about runs, sources and prunes; about the ledgers | |
| `Rejections` | append, trim, remove and probe of the rejections database | |
| `RejectionsInvariants`, `RejectionsProofs` | its inductive invariant; the theorems | |
| `MCDiscovery`, `MCLoop`, `MCOperator`, `MCRejections` | constants for TLC | |

**State.** One variable per artifact kind, a function from targets. An absent
file is `None` (`NoIds` for run-id files, `NoReport` for reports). A source tree
or commit is the number of its content, with `Base` the pinned source; an agent
edit makes a new number, so a tree is clean when `tree = head`. A run id is a
fresh `n` and, as ghost information the code does not have, the content `of`
that was measured; the code only compares run ids. A report or sidecar of another
target, session or mode has a mode that differs from the plan's. The process is
`cmd` (phase), `chain` (what started it), `resume`, `task` (how far each target
is), `acc` (run ids gathered in memory); all of it is lost when the command ends
or is killed.

**Actions.** Each is one step after which a kill is observable: everything between
two writes, git calls or remote calls. Failures the code handles are alternatives
of the action; an error that ends the phase is `Abort`. `Finish` moves on to
`After(cmd)`, the next phase of the chain.

**Agents** are arbitrary: an optimizer leaves any report (absent, corrupt, for
another context, aborted, implemented) with any tree (untouched, edited,
committed, committed and edited) and its harness may still fail; a results
analyzer leaves the old verdict, none, a verdict on the right runs, on other runs,
or on the wrong axis; a writer may leave a text and fail. The PR writer gets the
target's clone as a writable directory (`session/publish.rs:322`,
`harnesses/codex.rs:95`), so it may leave the clone edited or with commits of its own,
which push stages, commits and pushes (`session/publish.rs:1212`); ghost `by` tells its
clones from an optimizer's. `RunPrIsEvidence` therefore promises a head that is the
measured commit or one built upon it by this writer. The other agents (results
analyzers, issue writer) are modelled as writing their own outputs only.

**Abstractions.**
- Local file writes succeed except where the code handles their failure; a kill
  between two writes is modelled.
- The lookups `pr_exists` and `issue_exists` are accurate (no search-index lag).
- Agents edit tracked files, so `git add -u` and `git add -A` agree.
- The merge either replaces the whole plan or (a crash in it) keeps the old one;
  what leads to it is `Discovery`.
- A verdict that names other runs than the files is represented by the empty map.
- A target's place in the loop order is arbitrary.
- One `sbagent` process works on a session at a time here; `Operator` has
  overlapping runs, `Discovery` another process on the machine.

**Maintain.** `origin` is the operator repository's main branch (the artifacts in
`sessions.jsonl` order, and `maintain.jsonl`); each clone has both files, its
committed ledger, and whether origin has commits it lacks (`behind`, which is when
git refuses a push). `tick` is the running invocation: how far the scan is, how
many queries it made, the events found. A ledger line is one write of
`append_event`; one that was cut short is not `whole`, and since it has no line end
it also spoils the line the next write appends to it, as `read_all` then finds one
unparsable line. The projection is stated declaratively (`Terminal`, `HeadSha`,
`ReportedSincePush`); `Projection` is the loop of the code, one line after the other,
and `ProjectionIsTheLoop` says that they agree.
Abstractions:
- A branch position is a number that grows with every push, so a branch that is
  moved back to a commit it was at before is not modelled.
- `updated_at` is reduced to whether it is older than the threshold. An invocation
  compares with the time of its start, so ageing waits while one is asking.
- A write is cut short before the end of its JSON value; a write that lacks only
  the final line end is not distinguished.
- The rate-limit floor is one of the faults: `StdGhClient` always reports a full
  budget, other clients (the tests') need not.
- A URL is archived in one session only (PR branches carry the session id).
- A runner of the workflow checks out origin for every invocation; an operator's
  clone pulls only fast-forward and when nothing local is uncommitted.

**Discovery.** Families and signatures are model values. An analysis is a
sequence of findings, each a signature and a class (bucket, routing, evidence:
what may not differ between merged findings). `cmd.pc` is the step the command is
at and `cmd.last` the one it ends with; `knew` is the set of blocked signatures it
read. Ghosts: `mine` (runs
this session made or was told to import), `plan` (what the last merge vouches
for), and in a merged target `means`, the findings the agent had in front of it.
The merge agent complies, numbering findings as it sees them or as they were, or
makes one slip (forgets a finding or a lens, writes a dedup row of its own, claims
another finding as a contributor), or returns without writing, so that the old file
stays. Abstractions: one bench run stands for the passes of
the baseline (`run-id` and the rerun id come from the same envelope); the noise
floor is there or not; verification invocations belong to `Session`.

**Loop.** A session is three steps: preflight, reading the history and ending in
rows that this history does not block, publishing with archiving. A URL is the
session and signature it was opened for, and ghost `knew` is what the session had
read. A maintain invocation, one for each URL it asks about, reads the ledger and the
clock when it starts (`Ask`), asks GitHub (`Observe`) and appends (`RecordEvent`); it
may fail in between. The line carries the second in which the invocation *started*
(`session/maintain.rs:159`, `cli/maintain.rs:80`), which is what the readers sort by:
`Stamps` lets it tie with those of earlier invocations or follow them by any of `Gaps`,
so lines of overlapping invocations may be appended and stamped in the reverse of the
order in which they saw the object. Ghost `overlap` marks an invocation that ran at
the same time as another on its URL. The machines' clocks are taken to agree, and
objects are not reopened. Publishing and archiving are one step because
no reader can tell them apart; dying in between is an action of its own.
`--skip-preflight` and the text of the pause file are left out.

**Operator.** A source commit is a number; `-1` is what a killed `git clone`
leaves. A ledger line has its session, the version of the results it names,
whether it was a dry run's (ghost), and whether its line end was written. A
process slot is also the pid that `is_live` asks about. Git is external: an append
by both sides at the end of one file is a conflict of the rebase, a peer's commit
to other files is not. Runs start whenever they like: next to another run of the same
session, and between a prune's decision and its removals. Two ghosts say what that may
cost: `shared` are the sessions two runs of which ran at once (the guard of one takes
away the marker of the other), `crossed` those that a prune had chosen before a run of
theirs began, or chose while runs of a shared session went on. `LiveRunKeepsItsWorkspace`
is about every other run; that a prune spares all of them, as `docs/operations.md:221`
has it, is `PrunesSpareLiveRuns`, which is not true (see Disagreements). The model assumes
what nothing in the code enforces: one archive at a time in a working copy.
Removing a directory is one step; a prune killed inside one is not modelled.

**Rejections.** A line is the sequence of texts written since the last line end,
because an append is two writes: a kill between them glues the next record to the
line, and `load_all_locked` skips what does not parse. A write that is cut short leaves
the beginning of a record, which ends between two characters (`Cut`) or inside one
(`Torn`); a `Torn` line is not UTF-8, and then every load fails (`Legible`), of probes
and of edits, however many good records the file holds. `acked`, `dropped` and `strays`
are ghosts: appends that reported success, what edits were asked to drop in the words of
their help, and records without a sha that stood there when a `--before-sha` took effect,
about which help and code disagree. A span or contract is a text, padded with white space
or not; spans are trimmed, sorted and deduplicated, a contract is compared as it was
written. The fingerprint is the line that is printed of lens, kind, spans and contract;
nothing is assumed of it (`Printed` is any function), so families may share one, as they
do when a span holds a comma or a contract is `*`; the two families of `MCRejections` do.
`Pick` is `Vec::retain`; records of one second keep the file's order, where
`keep_last_per_family` has them by family, which nothing reads.

## 4. What the runs check

`CHECK_DEADLOCK FALSE` is set because operators may simply stop issuing commands.
The run `operator` uses symmetry of processes, sessions and cache ids, which nothing in
the model orders; it has no liveness property.

| Run | Instance | Shows |
|---|---|---|
| `commands` | one target of any mode, one or two invocations, any 2 commands, every clean, resume or not | `TypeOK`, `OneBuildPerRow`, `RunRowsAreEvidence`, `RunPrIsEvidence`, `PublishedOnce`, `PrHeadIsFrozen`, `FeedbackIsPublished`, and the inductive `RunIsGrounded` |
| `fanout` | two targets, any modes, one publishing run with or without `--resume`, 2 permits, with fairness | `LandedIsCommitted` across interleaved tasks and a partly failing join, and `CommandEnds` |
| `two` | an operator's clone and a runner, one PR that may move, limit 1 | `LedgerIsALifecycle`, `OriginOnlyGrows` |
| `lives` | an operator's clone, one PR that may move, one fault | `TypeOK`, `ProjectionIsTheLoop`, and `LedgerTellsLives`: the ledger implements `Lifecycle` |
| `ci` | a runner, a PR and an issue of a later date, either of them first in the ledger, limit 1, one fault, with fairness | `FinishedIsRecorded`: also of a PR behind the issue once the issue is finished |
| `discovery` | two families, three findings of two signatures, 2 commands, another process, 1 fault, with fairness | `TypeOK`, `RunIdIsOwn`, `PlanIsSound`, `ValidateAgreesWithMerge`, `PlanIsOfOneBaseline`, `CommandEnds` |
| `loop` | one fix, 3 sessions, 2 at a time, every limit 1, one maintain invocation at a time, 1 fault | `TypeOK`, `ReviewQueueBounded`, `MemoryHoldsNewest` |
| `overlap` | one fix, 3 sessions one after the other, 2 maintain invocations at a time, 0 or 1 second between their starts, interval 1, one open PR, no breaker, 2 faults, with fairness | `NeverRepeatsKnownWork`, `GivesUpAfterThreshold`, `FinalWordStands`, `StartsAgain` |
| `operator` | 2 sessions, 3 commands, 2 processes, one cache id, one upstream commit, one peer, 2 faults | `TypeOK`, `LedgerIsSound`, `PrunedIsArchived`, `ArchiveIsPermanent`, `LiveRunKeepsItsWorkspace`, `FreshSource` |
| `rejections` | 2 processes, 3 records, two spellings of one family (one of them without a sha), a family that prints like it, a broad question, 1 edit, 1 kill, with fairness | `TypeOK`, `LossIsBounded`, `RewriteDropsWhatWasAsked`, `ProbeFindsRejections`, `CommandsEnd` |

Two more runs, `shifted` and `raced`, are expected to end in a violation (see below).

Why these bounds are enough to be interesting. Session: the state one command leaves
behind is all that the next one sees, so two commands (any leftover, then a full run, or
any publishing, then any other) exercise every stale-artifact case; a middle command that
overwrites part of what the first wrote is covered by the proofs, which have no bound on
commands. Targets share nothing but permits and
the loop turn, so two show every interleaving between a failing and a succeeding task.
Two invocations are the least that can be half done. Maintain: one fault is enough
because an invocation starts from the files alone, and the fault-free race of two clones
covers the other source of surprises; one move of the branch (`MaxHead = 2`) is the
least that resets the reports. Discovery: two findings in one family are the least whose
positions can shift, and one of them found under a second family the least that can be
merged; the second command meets everything the first left. Loop: with every limit at 1
each gate opens and closes (`loop`); the third session is the one that may repeat what the first
two taught, and the second attempt the first that does not fit into the memory. Two
maintain invocations, a tie and a gap are the least that can tell one object's story in
two orders (`overlap`); the second fault is for what one of them may meet besides
overlapping. Limit 1 and two artifacts are the least for one to be ahead of the other.
Operator: three commands are a run, an archive of it and a prune, or two runs of a
session and a prune, and two processes are enough for each of them to overlap another;
both sessions use the one cache.
Rejections: two processes, an edit and a kill are the least for a rewrite that meets an
unfinished append; the third record shows what it spoils. `ProbeFindsRejections` is
proved for any descriptions; the three of the run are a family spelt in two ways and one
that is told from it by nothing but what a printed line cannot show.

Fairness. `Session` and `Discovery`: the steps of the process, which is what the
operating system and the tokio runtime give a process that is not killed; every
external call ends because the harness has a timeout and remote calls return or
fail. In `Discovery` waiting for the bench lock is strongly fair and the other
process releases it in the end: the lock is a blocking `flock`, which is granted to
a waiter sooner or later. No fairness is assumed of the operator or of crashes.
`Maintain`: weak fairness of a running invocation and strong fairness of its
scheduled start, since the cron schedule comes round again and again while an
invocation started by hand may be in the way at any one moment. `Loop`: maintain
makes progress and the people do what the gates' remediation texts ask of them
(decide on pull requests, repair what preflight reports, remove the pause file);
without them `StartsAgain` is not to be expected. Neither the scheduler nor the
sessions need to be fair for it. `Rejections`: strong fairness of each process, again
for a blocking `flock`; it is written out, with `CanStep` for `ENABLED Step`, because
TLC evaluates the filters again and again under `ENABLED`.

### Disagreements found

Two runs are expected to end in a violation; each states what a template or a doc says and
TLC shows the shortest way the code departs from it.

- `shifted`: the merge agent sees each analysis without the targets that history
  blocks, closed up, but its answer is checked against the original positions. With
  the first of two findings blocked, an agent that keeps to the template is refused.
  `PlanIsSound` shows that the confusion is never silent.
- `raced`: when a peer's archive is pushed first, the rebase that should absorb it
  always conflicts, since both append at the end of `sessions.jsonl`; archive fails
  in the middle of a rebase instead of retrying.
Five more sentences of comments, help texts and docs are written down as definitions that
no run has. Put into the cfg that is named with each, TLC refutes them.

- `DeferredIsRetried` (`ci`): an artifact that `--limit` leaves out "should be retried by a
  later maintain invocation" (`session/maintain.rs:37`), but each scan starts at the first
  artifact (`session/maintain.rs:109`): behind `--limit` artifacts that stay open it is
  never asked about. `FinishedIsRecorded` is what remains true.
- `OneBadLineIsSkipped` (`rejections`): "a single corrupt line shouldn't block the bot"
  (`analyzed_rejections.rs:253`), but one that was cut inside a character makes every load
  fail (`analyzed_rejections.rs:273`).
- `ShalessAreKept` (`rejections`): `rejections trim --before-sha` drops records without a
  sha (`cli/rejections/trim.rs:76`) while its help says they are kept
  (`cli/rejections/trim.rs:18`).
- `StampsFollowTheWorld` (`overlap`): `observed_at` is the "timestamp when maintain observed
  the state" (`models/maintain_event.rs:77`), but is when the invocation started
  (`cli/maintain.rs:80`). Of two that overlap, the line about the merge may have the
  older stamp, and the readers of the history then go by the other. `FinalWordStands`
  and `NeverRepeatsKnownWork` bound the damage to objects that overlapping invocations
  asked about; as maintain asks no more after a final line, such an object counts as
  open for ever (`Stuck`, the exception of `StartsAgain`).
- `PrunesSpareLiveRuns` (`operator`): `workspace prune` "refuses removal when the recorded
  PID is live" (`docs/operations.md:221`), but decides on all sessions first and removes
  later (`session/workspace.rs:161`): a run that starts in between loses its directory.

Seen while modelling, without a property:

- after `session optimize run` and `session finalize run` on a finished session, an
  accepted row carries the new commit's `head_sha` with the old commit's run ids and
  verdict (`session/optimizers.rs:1577`, `models/coordinator_provenance.rs:46`);
- labels are added by a second call; if it fails, no later push adds the safety
  labels to a consensus proof-of-concept PR (`session/publish.rs:892`);
- a kill between creating an object and writing `publish-feedback.json` loses the
  URL for every later push (`session/publish.rs:1281`);
- `--resume` accepts the report and sidecar of an earlier attempt whose clone has
  already been replaced by a fresh one (`session/optimizers.rs:690`);
- the PR writer may edit the clone although its prompt says not to
  (`templates/pr-writer.md:131`), and push commits what it finds modified
  (`session/publish.rs:1212`), so the head of a pull request may hold edits that were never
  measured; `docs/git-topology.md:346` calls that `git add -u` a provision for the
  operator's own touches and promises nothing about it;
- a contract that is padded with white space has a fingerprint of its own
  (`analyzed_rejections.rs:144`), spans have not;
- rows that `evaluate_target` makes aborted after a commit landed still carry its
  hashes (`session/finalize.rs:133`);
- events that an operator's clone committed but could not push wait until some
  artifact has news (`cli/maintain.rs:89`);
- a pull request that is already stale when first seen gets its `pr_stale` from the
  next invocation only (`session/maintain.rs:305`);
- the pause file says to remove it to allow `session run`, but the breaker looks at
  the same sessions and writes it again: only a changed setting or an archived
  session with an accepted target helps (`session/autonomy.rs:225`), which is why
  `StartsAgain` leaves the tripped breaker out;
- an archive that dies between commit and push is not finished by running it again:
  the id is in the working tree's ledger and the command returns early
  (`session/archive.rs:99`); its line, like a dry run's, travels with the next push;
- a fix whose row failed and whose issue was closed counts as two unsuccessful
  attempts (`session/dedup.rs:94`), so the threshold may be reached early, never
  late;
- `keep_last_per_family` says that the "relative order of kept records" is "preserved"
  (`cli/rejections/trim.rs:90`) and sorts the ledger newest first
  (`cli/rejections/trim.rs:107`);
- the guard of a run removes the marker of another run of the same session
  (`session/run_pid.rs:120`), so that a later prune no longer sees the other one (the
  second way into `crossed`);
- one unreadable publish-feedback file empties all rows of a write-once ledger line
  (`session/archive.rs:601`), so no later session or gate knows of the pull requests of
  that session; the properties of `Loop` are about what the ledger names.

None of the first four contradicts the properties of full runs: those are restricted
to `session run` without `--resume`, which redoes every phase. `FinishedIsRecorded` needs
that fewer artifacts than the limit stay ahead of the one it is about (`Ahead`), and a
runner, which has no old commits to leave behind.

## 5. What is proved

Every theorem is proved from the named assumptions on the constants only.

Those about a session hold for all target sets, invocation sets, plans, permit
numbers and numbers of commands (`ParallelAssumption`, `PlansAssumption`,
`NoneAssumption`, `CommandsAssumption`,
`ResumesAssumption`, `MaxCommandsAssumption`).

`SessionProofs` proves `Spec => []IInv` with
`IInv`: `TypeOK` and three parts about the process, one lemma per phase, and from it
`TypeCorrect`, `PublishesOnce`, `PrHeadStays` and `FeedbackIsTrue`.
`PublishedOnce` is not inductive: that `CreatePr` opens the first PR follows from
a lookup made several steps earlier, so `PushInv` records what a push knows at
each step (no PR between the lookup and `CreatePr`, the PR exists before
`AddLabels`, and so on), and `CloneInv` that a task past its clone has one.

`EvidenceProofs` proves `Spec => []RunIsGrounded` on top of it. The argument follows the
run: `Landing` tracks an optimizer task up to a report that stands for a commit; `Kept`
carries this past the join; `Measuring` says Phase 3's binary and gathered runs are of
that commit; `Measured` that the candidate file is; `Shipping` that accepted rows are
evidence about it and only they have a text and a branch; from Phase 5 on a clone may
have moved on, but only by a writer that built upon that commit (`BuiltUpon`).
`FreshIds` keeps the run-id files disjoint and of one build under any sequence of
commands. Each phase needs the previous part, which is why no property alone is
inductive. `LandedCommits`, `RowsOfOneBuild`, `RowsAreEvidence` and `PrIsEvidence`
follow.

`MaintainProofs` proves `Spec => []IInv` for any clones, runners, artifacts, dates,
limit and bounds, from `MaintainAssumption`; `IInv` has five parts. `TypeOK`.
`SessionsInv`: no artifact is archived twice, so a scan asks about each once.
`LedgersInv`: every copy of the ledger satisfies `LedgerOK` and records only
positions the branch has been at. `FoundInv`: the events an invocation holds are of
different artifacts and each fits the ledger it will be appended to; this is what
makes `LedgerIsALifecycle` inductive, because an event is derived many steps before
it is written. `PrefixInv`: a clone's committed ledger is a prefix of its file, and
origin's a prefix of it unless the clone is behind; `OriginOnlyGrows` follows, as
only a clone that is not behind can push. The lemmas `NewsFits` (an answer about an
unfinished artifact continues its lifecycle), `AppendKeepsLedger` and
`AppendKeepsFit` carry the data argument. `HasMaximum` (a non-empty set of line
numbers has a largest element, by well-foundedness of `<`) justifies `LastOf`.

`LedgerImplementsLives` is the refinement `Spec => LedgerTellsLives`: an empty ledger maps
to `Lifecycle`'s initial state and every step to one of its steps or to a stutter, for
any artifacts, dates, limit and faults. The mapping reads stage, position and reports of
each artifact from the working ledger. Two facts are needed on top of `IInv`.
`LivesInv`: a held `pr_force_pushed`, `pr_stale` or `pr_branch_deleted` is about a PR
the ledger already knows, and a report is about the position recorded last; it must hold
until the append, although other held events are appended first. `SoleWriter`: origin's
ledger is a prefix of what the clone has committed, so a pull never brings lines. This
is why the theorem has one clone and no runner as its hypothesis (the instance of
`lives`): with a second writer a pull, and with a runner each fresh checkout, may bring
several events of one artifact at once, which is several steps of its life. What holds
of every copy of the ledger in any number of clones is `LedgerIsALifecycle`. An append
that is cut short, or that lands on an open line, maps to a stutter (`SilentAppend`).

`ProjectionComputed` shows of every ledger maintain meets that the declarative
projection the model uses is what the loop of `project_events` computes. No
induction theorem of the library can be applied, as its parameter is an operator; the
lemma `AllNumbers` gets induction for a set of numbers from well-foundedness (a number
outside the set would have a least one) and is applied to the set of lengths up to which
the loop and the closed form agree. `LoopRuns` proves that the recursive function exists
at all and satisfies its equation, `ApplyAgrees` and `SkipAgrees` one round of the loop.

`WorkspaceProofs` and `LedgerProofs` prove `Spec => []IInv` of `Operator` for any
processes, sessions, cache ids, numbers of commands, peers and faults, from
`WorkspaceAssumption`. The invariant falls into two halves that do not need each
other. `WorkspaceInv` is about runs and prunes: `Control` (where a command is says
what it is), `Materializing` (between the lock and `source.json` the lock is held, no
`source.json` names the checkout being made, and the cache is at least as new as the
branch was when the run began: `FreshSource` follows), and `Kept`: outside the sessions
that were crossed, what `source.json` names is there, a working run has its own source
and, if no other run shared its session, its own marker, and no prune has chosen a
session that runs. The theorem `LiveRunsAreSafe` has no hypothesis: it is about any mix
of runs, prunes and kills, and about every run that no prune had chosen before it began
or chose while it shared its marker. `crossed` grows only at those two moments (`RunStart`,
`PruneStart`), never when a directory is removed, so it cannot excuse another loss.
`RepoInv`
is about the ledgers. `LedgerIsSound` speaks of origin only and is not inductive,
since a line reaches origin long after it was written; `Ledgers` therefore says it of
the working tree's and of main's ledger too (`Sound`), and how each is related to
origin's: they share their first `n` lines, then the one has lines of this machine
and the other complete lines of peers (`Forked`), which is what a push, a fast-forward
and a finished or aborted rebase preserve. `Progress` says what the archive that runs
has done, step by step; `ArchiveIsPermanent` follows from it, since the branch of a
session moves only between the check and the append of its own archive.

`DiscoveryProofs` proves `Spec => []IInv` of `Discovery` for any families, analyses of
any length, history, numbers of commands and bounds, from `DiscoveryBounds`,
`AnalysesAssumption`, `NoneIsNothing` and `NoneIsNoFamily`. `Control`, `OwnIds` and
`FreshChain` follow the command: which ids it holds are the session's own, and what a
chain on an empty session has measured, found and analysed so far. The data argument
is about the merge. An answer numbers a family's findings; those that the history
does not block are shown closed up, so an answer that counts them in that way and one
that keeps the original positions disagree as soon as a blocked finding comes before
another. `PlansAreSound` shows that validation refuses every such confusion: an
accepted answer accounts for each open finding once, so the numbers it uses for a
family are exactly the open positions, and if they were the closed-up numbers
`1..n` instead, counting shows that no open position is beyond `n` and the two
numberings coincide. The lemmas on `After`, `First`, `Kept` and `Number` (which
finding is the k-th that is open) carry it.

`LoopProofs` proves `Spec => []IInv` of `Loop` for any candidates, thresholds, limits
and numbers of sessions at a time, from `HistoryBounds`, `NoneIsNoReason`, `LoopBounds`,
`CandidatesAssumption` and `MemoryBounds` (both limits of the memory are positive; the
code has 5 and 3). `FinalWordStands` rests on `Observed`, which speaks of lines and of
invocations not yet over: one that runs alone on its URL knows an end that a line tells,
as it skips such a URL when it starts, and has a stamp no earlier than those of the
lines before it. `latest_artifact_state` goes by stamps and, within one second, by the
place in the file (`LatestIsLast`), so the line it chooses after an end is that end or
the line of an overlapping invocation. This holds for any set of gaps, zero included.
`NeverRepeatsKnownWork` and `GivesUpAfterThreshold` speak of what a session had read
when it planned, long before it publishes: `Prepared` carries this in the session
(`Informed`), stable because the ledgers only grow. That a plan is informed at all is a
lemma about `decision_for` (`LetThroughIsInformed`): what it lets through is neither
under review nor, unless the line of an overlapping invocation left doubt (`Doubted`),
merged; its counting half maps every session known to have failed to one of the failures
that are counted, injectively (`FailuresAreCounted`). `ReviewQueueBounded` is inductive
as it stands but for `Start`, where the gate's count must be compared with what is
really under review (`ArchivedIsOpen`), and for publishing, where each target has an
object of its own (`Numbered`, `Traced`). `Timed` bounds the clock by the sessions
archived, which `TypeOK` needs. `MemoryShowsNewest` is about an operator: `SortedBy`
chooses a sequence, and a choice says nothing unless there is something to choose.
`CanBeListed` shows by induction on its size that a finite set with a total preorder can
be listed from the top down (it has a lowest element, `HasBottom`, which goes last);
`SortedByLists` that the list, being injective and as long as the set, misses nothing;
`AttemptsSorted` and `SignaturesSorted` apply it to the attempts at a fix and to the
fixes of a family, and `Truncated` says what the two cuts leave.

`RejectionsProofs` proves `Spec => []IInv` of `Rejections` for any number of processes,
records, edits and kills and any family descriptions, from `RejectionBounds`,
`NoneAssumption`, `CutAssumption` (the beginning of a record's text is no record) and
`SpellingAssumption`, and of whatever the printed fingerprints are.
`LossIsBounded` is not inductive: after a kill between the text and its line end nothing
is lost yet, and the record that the next append glues to the open line is lost only
when that append reports success. `Debts` counts it from the kill on, by `Spoiling`: a
line that is open and not just being written costs one record more. `Writers` and
`Unfinished` say why it is never two: what stands on the open line was not acknowledged.
`Copies` (the temporary file is the filter of the ledger as it is) is what loading again
under the lock is for. `RewriteDropsWhatWasAsked` compares the code's sorting, grouping
and truncating with a definition record by record: ranks in a total order number a
finite set (`RanksCover`), so `Pick` and `NewestFirst` lose nothing (`PickIs`,
`NewestFirstIs`), and the places before a record in its family are mapped one to one to
the survivors that are as new (`NewerAreAsNew`). The invariant carries that no record
stands alone on two lines, without which that map would not be injective. Records without
a sha are set apart from the comparison where a `--before-sha` is given (`Shaless`), as
help and code contradict each other there. `ProbesFindRejections` needs of a file that it
is legible and of two descriptions that they print alike, which follows from what trimming
and sorting leave of the spans; that different families print differently is neither
needed nor true. `LossIsBounded` is about what stands in the file: whether it can be read
is what `OneBadLineIsSkipped` is about.

Model-checked only: the liveness properties (`CommandEnds`, `CommandsEnd`,
`FinishedIsRecorded`, `StartsAgain`), which rest on fairness and are outside the
prover's reach, and the two violations.

## 6. What is not modelled

- Settings, prompts, templates, schemas and their export, rendering, reports, `init`,
  `sync` and `check`: single commands that turn files into text or files. What they
  compute is strings, and no other process or later phase races with them. They are
  a large part of the lines of the crate, which is why the map stays well below
  all of it.
- The process plumbing around agents and git (arguments, environment, credentials,
  log files, timings): their outcomes are choices of the actions that use them.
- The probes of preflight (disk, binaries, database schema): only whether they
  refuse a session matters, in `Loop`.
- The lag of GitHub's issue search, several archives at once in one working copy, clocks
  of several machines that differ, what agents other than optimizers and the PR writer may
  write outside their outputs, and a prune killed inside a directory (section
  2 and the notes above).
