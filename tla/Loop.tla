-------------------------------- MODULE Loop --------------------------------
(***************************************************************************)
(* The autonomous loop around sessions: the scheduler starts `session run` *)
(* again and again; preflight and the autonomy gates (preflight.rs,        *)
(* autonomy.rs) read the ledgers of the operator repository and let it     *)
(* start or not; the session reads the history once more, keeps known work *)
(* out of its plan, publishes and archives; reviewers merge and close;     *)
(* `maintain` records what became of pull requests and issues.             *)
(*                                                                         *)
(* Phases 0 to 4 are the choice of the rows a session ends with (modules   *)
(* Discovery and Session); the writes of archive and maintain are the      *)
(* modules Archive and Maintain.  --skip-preflight is left out.            *)
(***************************************************************************)
EXTENDS History

CONSTANTS
  Parallel,     \* sessions that may run at the same time
  Maintainers,  \* maintain invocations that may run at the same time
  Gaps,         \* seconds that may pass between the starts of invocations
  Candidates,   \* [sig, family] pairs the analyzers may come up with
  MaxRows,      \* bound on the targets of one session
  MaxOpenPrs,   \* autonomy.max_open_agent_prs
  MinInterval,  \* autonomy.min_session_interval_hours
  Breaker,      \* autonomy.zero_accepted_circuit_breaker
  MaxSessions,  \* bound on the sessions started
  MaxFaults     \* bound on crashes, unreadable feedback, overlapping or failing
                \* maintain invocations, neglected PRs and site problems

ASSUME LoopBounds ==
  /\ Parallel \in Nat /\ MaxRows \in Nat /\ MaxOpenPrs \in Nat /\ MinInterval \in Nat /\ Breaker \in Nat
  /\ Gaps \subseteq Nat
  /\ MaxSessions \in Nat /\ MaxFaults \in Nat

(* What the ledgers and GitHub may hold.  A URL is made from the session   *)
(* that published and the signature.                                       *)
Sigs == {c.sig : c \in Candidates}
Families == {c.family : c \in Candidates}
Objects == (1..MaxSessions) \X Sigs
Kinds == PrKinds \union IssueKinds
Instants == 0..(MaxSessions * MinInterval)
Row == [sig : Sigs, family : Families, status : TargetStatuses,
        pr : Objects \union {None}, issue : Objects \union {None}]
Entry == [id : 1..MaxSessions, finished : Instants, status : {"succeeded", "aborted"},
          rows : SUBSET Row]
Event == [url : Objects, kind : Kinds, at : Nat, overlap : BOOLEAN]
Inquiry == [by : Maintainers, url : Objects, known : Kinds \union {None}, at : Nat,
            kind : Kinds \union {None}, overlap : BOOLEAN]
Target == [sig : Sigs, family : Families, end : {"pr", "issue", "rejected"}]
Planning == [id : 1..MaxSessions, pc : {"plan"}]
Publishing == [id : 1..MaxSessions, pc : {"publish"}, rows : SUBSET Target, knew : Nat \X Nat]

ASSUME CandidatesAssumption == IsFiniteSet(Candidates) /\ None \notin Objects /\ None \notin Kinds

VARIABLES
  ledger,     \* sessions.jsonl
  events,     \* maintain.jsonl
  github,     \* the pull requests and issues by URL
  paused,     \* .sbagent/pause exists
  site,       \* what preflight would find wrong with the installation
  running,    \* the sessions that run, each with what it does next
  watch,      \* what running maintain invocations ask about and have observed
  clock,
  started,    \* sessions started so far
  faults

vars == <<ledger, events, github, paused, site, running, watch, clock, started, faults>>

Rng(s) == {s[i] : i \in DOMAIN s}
Rows == UNION {e.rows : e \in Rng(ledger)}
Url(n, sig) == <<n, sig>>
Urls == DOMAIN github
LedgerUrls == ({r.pr : r \in Rows} \union {r.issue : r \in Rows}) \ {None}
Terminal == {"pr_merged", "pr_closed_unmerged", "issue_closed"}

-----------------------------------------------------------------------------
(* Gates of autonomy.rs, each the condition under which it blocks.         *)

check_pause_file == paused

(* A PR the ledger names counts as open until its merge or its closing is  *)
(* the latest recorded; stale and branch-deleted ones still count.         *)
open_pr_urls_Forgets ==
  {r.pr : r \in {q \in Rows : q.pr # None /\ artifact_state(events, q.pr) = "open"}}
open_pr_urls_NeverCloses ==
  {r.pr : r \in {q \in Rows : q.pr # None /\ latest_artifact_state(events, q.pr) # "pr_merged"}}
open_pr_urls ==
  {r.pr : r \in {q \in Rows : /\ q.pr # None
                              /\ latest_artifact_state(events, q.pr)
                                   \notin {"pr_merged", "pr_closed_unmerged"}}}

check_open_pr_limit == Cardinality(open_pr_urls) >= MaxOpenPrs

(* The time since the latest archived session finished.                    *)
latest_session_time == CHOOSE t \in {e.finished : e \in Rng(ledger)} :
                         \A e \in Rng(ledger) : e.finished <= t
check_session_interval ==
  MinInterval > 0 /\ ledger # <<>> /\ clock - latest_session_time < MinInterval

session_has_accepted_target(e) == \E r \in e.rows : r.status = "accepted"

(* The Breaker last started of the sessions that were not aborted have no  *)
(* accepted target.                                                        *)
check_zero_accepted_breaker ==
  LET completed == {e \in Rng(ledger) : e.status # "aborted"}
      window == {e \in completed : Cardinality({f \in completed : f.id > e.id}) < Breaker}
  IN  /\ Breaker > 0 /\ Cardinality(completed) >= Breaker
      /\ \A e \in window : ~session_has_accepted_target(e)

check_operator_gates ==
  {g \in {"pause-file", "max-open-agent-prs", "min-session-interval",
          "zero-accepted-circuit-breaker"} :
     CASE g = "pause-file" -> check_pause_file
       [] g = "max-open-agent-prs" -> check_open_pr_limit
       [] g = "min-session-interval" -> check_session_interval
       [] g = "zero-accepted-circuit-breaker" -> check_zero_accepted_breaker}

(* The findings of preflight: the gates always fail a run; of the site's   *)
(* problems only some do: a source that does not match the repository,     *)
(* less disk than the configured floor, a stale optimizer prompt.  Drift   *)
(* of other prompts and an old binary are warnings.                        *)
Problems == {"failure", "warning"}
has_failures == "failure" \in site \/ check_operator_gates # {}

-----------------------------------------------------------------------------
Init ==
  /\ ledger = <<>> /\ events = <<>> /\ github = <<>>
  /\ paused = FALSE /\ site = {}
  /\ running = {} /\ watch = {}
  /\ clock = 0 /\ started = 0 /\ faults = 0

(* Session-start preflight that lets the session start.                    *)
Start ==
  /\ started < MaxSessions /\ Cardinality(running) < Parallel
  /\ ~has_failures
  /\ started' = started + 1
  /\ running' = running \union {[id |-> started + 1, pc |-> "plan"]}
  /\ UNCHANGED <<ledger, events, github, paused, site, watch, clock, faults>>

(* Session-start preflight that refuses; when the breaker trips it writes  *)
(* the pause file, whatever else was found.                                *)
Refuse ==
  /\ started < MaxSessions /\ Cardinality(running) < Parallel
  /\ has_failures
  /\ paused' = (paused \/ check_zero_accepted_breaker)
  /\ UNCHANGED <<ledger, events, github, site, running, watch, clock, started, faults>>

(* read_chained_history_projection reads the ledgers as they are now, for  *)
(* the rest of the session; Phases 1 to 4 end in targets that this history *)
(* does not block, with the outcome finalize gives them.  A consensus-risk *)
(* target ends as an issue.                                                *)
Plan(s) ==
  /\ s.pc = "plan"
  /\ \E chosen \in SUBSET {c \in Candidates : decision_for(ledger, events, c.sig) = None} :
       /\ Cardinality(chosen) <= MaxRows
       /\ \A c, d \in chosen : c.sig = d.sig => c = d
       /\ \E ends \in [chosen -> {"pr", "issue", "rejected"}] :
            LET rows == {[sig |-> c.sig, family |-> c.family, end |-> ends[c]] : c \in chosen}
            IN  running' = (running \ {s}) \union
                             {[id |-> s.id, pc |-> "publish", rows |-> rows,
                               knew |-> <<Len(ledger), Len(events)>>]}
  /\ UNCHANGED <<ledger, events, github, paused, site, watch, clock, started, faults>>

derive_target_status_Raw(end) == end
derive_target_status(end) == IF end = "rejected" THEN "rejected" ELSE "accepted"

(* build_session_record: one row per target with the URLs of its           *)
(* publish-feedback file; one unreadable file empties the rows.            *)
Record(s, status, readable) ==
  [id |-> s.id, finished |-> clock, status |-> status,
   rows |-> IF readable
            THEN {[sig |-> t.sig, family |-> t.family,
                   status |-> derive_target_status(t.end),
                   pr |-> IF t.end = "pr" THEN Url(s.id, t.sig) ELSE None,
                   issue |-> IF t.end = "issue" THEN Url(s.id, t.sig) ELSE None] : t \in s.rows}
            ELSE {}]

(* Phase 5 opens a pull request or issue for every accepted target ...     *)
Published(s) ==
  LET accepted == {t \in s.rows : t.end # "rejected"}
      new == {Url(s.id, t.sig) : t \in accepted}
  IN  [u \in Urls \union new |->
         IF u \in Urls THEN github[u]
         ELSE LET t == CHOOSE q \in accepted : Url(s.id, q.sig) = u
              IN  [kind |-> IF t.end = "pr" THEN "pr_open" ELSE "issue_open",
                   sig |-> t.sig, knew |-> s.knew]]

(* ... and Phase 6 adds the session to the ledger, in one step: until then *)
(* no gate, session or maintain invocation can know of the new objects.    *)
PublishAndArchive(s) ==
  /\ s.pc = "publish"
  /\ github' = Published(s)
  /\ ledger' = Append(ledger, Record(s, "succeeded", TRUE))
  /\ running' = running \ {s}
  /\ UNCHANGED <<events, paused, site, watch, clock, started, faults>>

(* A publish-feedback file cannot be read, or the session dies before the  *)
(* ledger has it: what was published stays.                                *)
PublishOnly(s) ==
  /\ s.pc = "publish" /\ faults < MaxFaults
  /\ faults' = faults + 1
  /\ github' = Published(s)
  /\ ledger' \in {ledger, Append(ledger, Record(s, "succeeded", FALSE))}
  /\ running' = running \ {s}
  /\ UNCHANGED <<events, paused, site, watch, clock, started>>

(* The session fails early, archived by hand as aborted or never.          *)
Die(s) ==
  /\ s.pc = "plan" /\ faults < MaxFaults
  /\ faults' = faults + 1
  /\ ledger' \in {ledger, Append(ledger, Record(s, "aborted", FALSE))}
  /\ running' = running \ {s}
  /\ UNCHANGED <<events, github, paused, site, watch, clock, started>>

-----------------------------------------------------------------------------
(* The world: reviewers, time, the operator, maintain.                     *)

Settle(u) ==
  /\ github[u].kind \notin Terminal
  /\ \E kind \in Terminal :
       /\ (kind \in IssueKinds) <=> (github[u].kind \in IssueKinds)
       /\ github' = [github EXCEPT ![u].kind = kind]
  /\ UNCHANGED <<ledger, events, paused, site, running, watch, clock, started, faults>>

Neglect(u) ==
  /\ \/ /\ github[u].kind \in {"pr_open", "pr_force_pushed"}
        /\ \E kind \in {"pr_stale", "pr_branch_deleted"} : github' = [github EXCEPT ![u].kind = kind]
     \/ /\ github[u].kind = "pr_stale"
        /\ github' = [github EXCEPT ![u].kind = "pr_force_pushed"]
  /\ faults < MaxFaults /\ faults' = faults + 1
  /\ UNCHANGED <<ledger, events, paused, site, running, watch, clock, started>>

(* An hour passes.  Once the interval is over more time changes nothing.   *)
Tick ==
  /\ check_session_interval /\ clock' = clock + 1
  /\ UNCHANGED <<ledger, events, github, paused, site, running, watch, started, faults>>

Spoil ==
  /\ faults < MaxFaults /\ faults' = faults + 1
  /\ \E p \in Problems \ site : site' = site \union {p}
  /\ UNCHANGED <<ledger, events, github, paused, running, watch, clock, started>>

Repair ==
  /\ site # {} /\ site' = {}
  /\ UNCHANGED <<ledger, events, github, paused, running, watch, clock, started, faults>>

(* The operator reviews and removes the pause file, as its text says.      *)
RemovePause ==
  /\ paused /\ paused' = FALSE
  /\ UNCHANGED <<ledger, events, github, site, running, watch, clock, started, faults>>

(* A maintain invocation, one for each URL it asks about.  When it starts  *)
(* it reads the ledger, takes the time in whole seconds, and passes over   *)
(* what has a final line.  The time is the stamp of all it will record: no *)
(* earlier than those of invocations that started before, often the same.  *)
(* (overlap is no part of a line: it tells whether another invocation that *)
(* asks about the URL ran at some time of this one.)                       *)
LastLine(u) ==
  LET of == {i \in DOMAIN events : events[i].url = u}
  IN  IF of = {} THEN None ELSE events[CHOOSE i \in of : \A j \in of : j <= i].kind
About(u) == {w \in watch : w.url = u}
Stamps(u) ==
  LET before == {e \in Rng(events) \union watch : e.url = u}
  IN  IF before = {} THEN {0}
      ELSE {t \in UNION {{e.at + gap : gap \in Gaps} : e \in before} : \A e \in before : e.at <= t}
Free(m) == \A w \in watch : w.by # m
Overlapping(u) == {IF w.url = u THEN [w EXCEPT !.overlap = TRUE] ELSE w : w \in watch}
Ask(u) ==
  /\ u \in LedgerUrls \intersect Urls
  /\ LastLine(u) \notin Terminal
  /\ \E m \in Maintainers : Free(m)
  /\ \/ About(u) = {} /\ faults' = faults
     \/ About(u) # {} /\ faults < MaxFaults /\ faults' = faults + 1
  /\ \E at \in Stamps(u) :
       watch' = Overlapping(u) \union
                  {[by |-> CHOOSE m \in Maintainers : Free(m), url |-> u, known |-> LastLine(u), at |-> at, kind |-> None,
                    overlap |-> About(u) # {}]}
  /\ UNCHANGED <<ledger, events, github, paused, site, running, clock, started>>

(* It asks GitHub; what is not news to the ledger it read is dropped.  The *)
(* first event of an object that is not final says that it is open.        *)
News(known, kind) ==
  IF known = None /\ kind \notin Terminal
  THEN IF kind \in PrKinds THEN "pr_open" ELSE "issue_open"
  ELSE kind
Observe(w) ==
  /\ w.kind = None
  /\ LET news == News(w.known, github[w.url].kind)
     IN  watch' = (watch \ {w}) \union (IF news = w.known THEN {} ELSE {[w EXCEPT !.kind = news]})
  /\ UNCHANGED <<ledger, events, github, paused, site, running, clock, started, faults>>

(* The line reaches the ledger, maybe after a newer one of another         *)
(* invocation; or the invocation fails before.                             *)
RecordEvent(w) ==
  /\ w.kind # None
  /\ events' = Append(events, [url |-> w.url, kind |-> w.kind, at |-> w.at, overlap |-> w.overlap])
  /\ watch' = watch \ {w}
  /\ UNCHANGED <<ledger, github, paused, site, running, clock, started, faults>>
MaintainFails(w) ==
  /\ faults < MaxFaults /\ faults' = faults + 1
  /\ watch' = watch \ {w}
  /\ UNCHANGED <<ledger, events, github, paused, site, running, clock, started>>

-----------------------------------------------------------------------------
Work(s) == Plan(s) \/ PublishAndArchive(s)

Next ==
  \/ Start \/ Refuse
  \/ \E s \in running : Work(s) \/ PublishOnly(s) \/ Die(s)
  \/ \E w \in watch : Observe(w) \/ RecordEvent(w) \/ MaintainFails(w)
  \/ \E u \in Urls : Ask(u) \/ Settle(u) \/ Neglect(u)
  \/ Tick \/ Spoil \/ Repair \/ RemovePause

Spec == Init /\ [][Next]_vars

(* maintain makes progress, reviewers decide, time passes and operators    *)
(* repair and review.  The scheduler and the sessions need not be fair.    *)
Fairness ==
  /\ WF_vars(\E u \in Urls : Ask(u))
  /\ WF_vars(\E w \in watch : Observe(w)) /\ WF_vars(\E w \in watch : RecordEvent(w))
  /\ WF_vars(\E u \in Urls : Settle(u))
  /\ WF_vars(Tick \/ Repair \/ RemovePause)
FairSpec == Spec /\ Fairness

-----------------------------------------------------------------------------
TypeOK ==
  /\ ledger \in Seq(Entry) /\ events \in Seq(Event) /\ watch \subseteq Inquiry
  /\ \A i, j \in DOMAIN ledger : ledger[i].id = ledger[j].id => i = j
  /\ DOMAIN github \subseteq Objects
  /\ \A u \in Urls : github[u] \in [kind : Kinds, sig : Sigs, knew : Nat \X Nat]
  /\ \A e \in Rng(events) : e.url \in Urls
  /\ running \subseteq Planning \union Publishing
  /\ paused \in BOOLEAN /\ site \subseteq Problems
  /\ clock \in Instants /\ started \in 0..MaxSessions /\ faults \in 0..MaxFaults

(* What a session could know of a signature when it read the first knew    *)
(* lines of the two ledgers: an object for it that no line had yet called  *)
(* merged, closed, stale or without a branch, or one that a line called    *)
(* merged and no overlapping invocation's line stale or without a branch.  *)
Said(knew, v, kinds) == \E i \in 1..knew[2] : events[i].url = v /\ events[i].kind \in kinds
Doubted(knew, v) ==
  \E i \in 1..knew[2] : /\ events[i].url = v /\ events[i].overlap
                        /\ events[i].kind \in {"pr_stale", "pr_branch_deleted"}
Filed(knew, sig) == UNION {{r \in ledger[i].rows : r.sig = sig} : i \in 1..knew[1]}
KnownWork(knew, sig) ==
  {v \in Objects : /\ \E r \in Filed(knew, sig) : v \in {r.pr, r.issue}
                   /\ \/ Said(knew, v, {"pr_merged"}) /\ ~Doubted(knew, v)
                      \/ ~Said(knew, v, Terminal \union {"pr_stale", "pr_branch_deleted"})}

(* A session never publishes again what its history showed as under review *)
(* or merged, unless overlapping maintain invocations left doubt of it.    *)
NeverRepeatsKnownWork == \A u \in Urls : KnownWork(github[u].knew, github[u].sig) = {}

(* The sessions known to have failed at a signature: one that did not get  *)
(* it accepted, or whose pull request or issue was closed beyond doubt.    *)
KnownFailures(knew, sig) ==
  LET Closed(v) == Said(knew, v, {"pr_closed_unmerged", "issue_closed"}) /\ ~Doubted(knew, v) IN
  {i \in 1..knew[1] : \E r \in ledger[i].rows :
     r.sig = sig /\ (r.status # "accepted" \/ Closed(r.pr) \/ Closed(r.issue))}

(* Unsuccessful attempts are counted at least once each: a fix that failed *)
(* or was closed Threshold times is not published again.                   *)
GivesUpAfterThreshold ==
  Threshold > 0 =>
    \A u \in Urls : Cardinality(KnownFailures(github[u].knew, github[u].sig)) < Threshold

(* The merge or closing of an object, once recorded, is what every later   *)
(* reader of the history sees, however many invocations start within one   *)
(* second: another state is read only from the line of an invocation that  *)
(* ran at the same time as another one.                                    *)
FinalWordStands ==
  \A i \in DOMAIN events :
    events[i].kind \in Terminal =>
      \/ latest_artifact_state(events, events[i].url) = events[i].kind
      \/ \E k \in DOMAIN events :
           /\ events[k].url = events[i].url /\ events[k].overlap
           /\ latest_artifact_state(events, events[i].url) = events[k].kind

(* observed_at is the "timestamp when maintain observed the state"         *)
(* (models/maintain_event.rs:77): what was seen later is stamped no        *)
(* earlier, so after a final state there is no other.  Not true of the     *)
(* code: no run has this definition (README, Disagreements found).         *)
StampsFollowTheWorld ==
  \A i, j \in DOMAIN events :
    events[i].url = events[j].url /\ events[i].kind \in Terminal /\ events[i].at < events[j].at
      => events[j].kind = events[i].kind

(* However many sessions run at once and however late maintain is, the     *)
(* open pull requests of archived and running sessions never exceed the    *)
(* limit by more than what the running ones may add.                       *)
ReviewQueueBounded ==
  LET archived == {u \in Urls : github[u].kind \in PrKinds \ Terminal
                                /\ \E r \in Rows : r.pr = u}
  IN  MaxOpenPrs > 0 =>
        Cardinality(archived) + MaxRows * Cardinality(running) <= MaxOpenPrs - 1 + MaxRows * Parallel

(* An object that maintain will not ask about again while the readers of   *)
(* the history see it as it was before its end.                            *)
Stuck ==
  \E u \in LedgerUrls : LastLine(u) \in Terminal /\ latest_artifact_state(events, u) \notin Terminal

(* As long as reviewers, operators and maintain do their part, a new       *)
(* session may start sooner or later, unless the breaker has tripped or    *)
(* overlapping invocations have left an object stuck.                      *)
StartsAgain ==
  []<>(started = MaxSessions \/ ~has_failures \/ check_zero_accepted_breaker \/ Stuck)
=============================================================================
