------------------------------ MODULE Maintain ------------------------------
(***************************************************************************)
(* sbagent maintain: reconcile the pull requests and issues of archived    *)
(* sessions with GitHub and record what changed in maintain.jsonl, an      *)
(* append-only ledger of the operator repository.  An invocation reads the *)
(* two ledgers of its clone, asks GitHub about every artifact that is not  *)
(* finished, one call after the other, appends the events it derived,      *)
(* commits and pushes.  Clones share nothing but origin and GitHub; within *)
(* a clone one invocation runs at a time.                                  *)
(***************************************************************************)
EXTENDS Integers, Sequences, FiniteSets

CONSTANTS
  Clones,    \* working copies of the operator repository in which maintain runs
  Runners,   \* those that the workflow checks out afresh for every invocation
  Prs,       \* pull requests, named by their URL
  Issues,    \* issues, named by their URL
  Started,   \* the date on which an artifact's session started
  Limit,     \* --limit: how many artifacts an invocation may ask about
  MaxHead,   \* bound: how many commits a pull request's branch is moved to
  MaxFaults, \* bound: failing calls and killed invocations
  None

Artifacts == Prs \cup Issues

ASSUME MaintainAssumption ==
  /\ Runners \subseteq Clones
  /\ Prs \cap Issues = {}
  /\ Started \in [Artifacts -> Nat]
  /\ Limit \in Nat /\ MaxHead \in Nat \ {0} /\ MaxFaults \in Nat

(* PrState and IssueLifecycleState: what one read of GitHub tells.  idle   *)
(* stands for an updated_at that is further back than the threshold, gone  *)
(* for a head repository that no longer exists.                            *)
Object == [state : {"open", "merged", "closed"}, head : 0..MaxHead,
           gone : BOOLEAN, idle : BOOLEAN]

VARIABLES
  github,   \* what GitHub says of each artifact
  origin,   \* the two ledgers on origin's main branch
  clone,    \* per clone: both ledgers, the committed one, and whether origin has more
  tick,     \* per clone: the invocation that runs in it
  faults    \* faults that have happened

vars == <<github, origin, clone, tick, faults>>

----------------------------------------------------------------------------
(* The ledger.  A line is one write of append_event; a write that was cut  *)
(* short is not whole: it has no line end, so it also spoils the line the  *)
(* next write appends to it.  read_all skips what does not parse.          *)
TerminalKinds == {"pr_merged", "pr_closed_unmerged", "issue_closed"}
Kinds == TerminalKinds \cup {"pr_open", "pr_stale", "pr_force_pushed",
                             "pr_branch_deleted", "issue_open"}

Event == [of : Artifacts, kind : Kinds, head : 0..MaxHead]
Line == [of : Artifacts, kind : Kinds, head : 0..MaxHead, whole : BOOLEAN]
AsLine(e, whole) == [of |-> e.of, kind |-> e.kind, head |-> e.head, whole |-> whole]

Readable(l, i) == l[i].whole /\ (i = 1 \/ l[i-1].whole)
EventsOf(l, a) == {i \in DOMAIN l : l[i].of = a /\ Readable(l, i)}
LastOf(l, a) == CHOOSE i \in EventsOf(l, a) : \A j \in EventsOf(l, a) : j <= i

(* project_events, one event after the other: what is known of an artifact *)
(* after the first n lines.                                                *)
NoProjection == [known |-> FALSE, terminal |-> FALSE, head |-> 0, gone |-> FALSE, stale |-> FALSE]
Apply(p, e) ==
  [known |-> TRUE,
   terminal |-> e.kind \in TerminalKinds,
   head |-> e.head,
   gone |-> e.kind # "pr_force_pushed" /\ (p.gone \/ e.kind = "pr_branch_deleted"),
   stale |-> e.kind # "pr_force_pushed" /\ (p.stale \/ e.kind = "pr_stale")]
Projection(l, a) ==
  LET after[n \in 0..Len(l)] ==
        IF n = 0 THEN NoProjection
        ELSE IF n \in EventsOf(l, a) THEN Apply(after[n-1], l[n]) ELSE after[n-1]
  IN  after

(* The same by what it finds: the flags are those of the last event, but a *)
(* reported deletion and a reported staleness hold until the next push.    *)
Known(l, a) == EventsOf(l, a) # {}
Terminal(l, a) == Known(l, a) /\ l[LastOf(l, a)].kind \in TerminalKinds
(* Seeded fault: the head stays that of the first observation.             *)
HeadSha_FirstSeen(l, a) ==
  l[CHOOSE i \in EventsOf(l, a) : \A j \in EventsOf(l, a) : i <= j].head
HeadSha(l, a) == l[LastOf(l, a)].head
(* Seeded fault: a report is forgotten as soon as anything else happens.   *)
ReportedSincePush_LastOnly(l, a, kind) ==
  Known(l, a) /\ l[LastOf(l, a)].kind = kind
ReportedSincePush(l, a, kind) ==
  \E i \in EventsOf(l, a) :
     /\ l[i].kind = kind
     /\ \A j \in EventsOf(l, a) : j > i => l[j].kind # "pr_force_pushed"

----------------------------------------------------------------------------
(* derive_pr_event and derive_issue_event: one event at most, the most     *)
(* important news first.                                                   *)
PrNews(l, a, s) ==
  IF s.state = "merged" THEN "pr_merged"
  ELSE IF s.state = "closed" THEN "pr_closed_unmerged"
  ELSE IF ~Known(l, a) THEN "pr_open"
  ELSE IF s.head # HeadSha(l, a) THEN "pr_force_pushed"
  ELSE IF s.gone /\ ~ReportedSincePush(l, a, "pr_branch_deleted") THEN "pr_branch_deleted"
  ELSE IF s.idle /\ ~ReportedSincePush(l, a, "pr_stale") THEN "pr_stale"
  ELSE None

IssueNews(l, a, s) ==
  IF s.state = "closed" THEN "issue_closed"
  ELSE IF ~Known(l, a) THEN "issue_open"
  ELSE None

News(l, a) == IF a \in Prs THEN PrNews(l, a, github[a]) ELSE IssueNews(l, a, github[a])

----------------------------------------------------------------------------
(* An invocation.  Its ledgers do not change while it asks GitHub, so the  *)
(* projection it made at its start is that of the ledger at any query.     *)
Idle == [phase |-> "idle", dry |-> FALSE, since |-> 0, next |-> 1, queried |-> 0,
         found |-> <<>>]
Phases == {"idle", "query", "append", "commit", "push"}

End(c) == tick' = [tick EXCEPT ![c] = Idle]

(* Seeded fault: finished artifacts are asked about again.                 *)
Pending_AsksFinished(w, since, i) == Started[w.sessions[i]] >= since

(* The i-th artifact of the session ledger is one to ask about.            *)
Pending(w, since, i) ==
  Started[w.sessions[i]] >= since /\ ~Terminal(w.ledger, w.sessions[i])

(* actions/checkout on a runner; an operator's clone stays as it is.       *)
WorkingCopy(c) ==
  IF c \in Runners
  THEN [sessions |-> origin.sessions, ledger |-> origin.ledger,
        committed |-> origin.ledger, behind |-> FALSE]
  ELSE clone[c]

Start(c, since, dry) ==
  /\ tick[c].phase = "idle"
  /\ clone' = [clone EXCEPT ![c] = WorkingCopy(c)]
  /\ IF \E i \in DOMAIN WorkingCopy(c).sessions : Pending(WorkingCopy(c), since, i)
     THEN tick' = [tick EXCEPT ![c] =
            [Idle EXCEPT !.phase = "query", !.dry = dry, !.since = since]]
     ELSE UNCHANGED tick
  /\ UNCHANGED <<github, origin, faults>>

(* The next artifact to ask about, if the limit allows one more.           *)
NextPending(c, i) ==
  /\ tick[c].phase = "query" /\ tick[c].queried < Limit
  /\ i \in DOMAIN clone[c].sessions /\ i >= tick[c].next
  /\ Pending(clone[c], tick[c].since, i)
  /\ \A j \in tick[c].next..(i-1) : ~Pending(clone[c], tick[c].since, j)

(* Seeded fault: an answer without news is recorded too.                   *)
Query_RecordsNoNews(c, i) ==
  /\ NextPending(c, i)
  /\ LET a == clone[c].sessions[i]
     IN tick' = [tick EXCEPT ![c].next = i + 1,
                             ![c].queried = @ + 1,
                             ![c].found = Append(@, [of |-> a,
                                                     kind |-> News(clone[c].ledger, a),
                                                     head |-> github[a].head])]
  /\ UNCHANGED <<github, origin, clone, faults>>

Query(c, i) ==
  /\ NextPending(c, i)
  /\ LET a == clone[c].sessions[i]
         news == News(clone[c].ledger, a)
     IN tick' = [tick EXCEPT ![c].next = i + 1,
                             ![c].queried = @ + 1,
                             ![c].found = IF news = None THEN @
                               ELSE Append(@, [of |-> a, kind |-> news,
                                               head |-> github[a].head])]
  /\ UNCHANGED <<github, origin, clone, faults>>

(* What is left once the loop ends: nothing to write, or events to append. *)
Wrapped(c) ==
  tick' = [tick EXCEPT ![c] = IF @.dry \/ @.found = <<>> THEN Idle
                              ELSE [@ EXCEPT !.phase = "append"]]

(* Seeded fault: a scan that reaches its limit ends without writing.       *)
EndScan_DropsAtLimit(c) ==
  /\ tick[c].phase = "query"
  /\ \/ tick[c].queried >= Limit /\ End(c)
     \/ /\ tick[c].queried < Limit
        /\ \A i \in DOMAIN clone[c].sessions :
             i >= tick[c].next => ~Pending(clone[c], tick[c].since, i)
        /\ Wrapped(c)
  /\ UNCHANGED <<github, origin, clone, faults>>

EndScan(c) ==
  /\ tick[c].phase = "query"
  /\ \/ tick[c].queried >= Limit
     \/ \A i \in DOMAIN clone[c].sessions :
          i >= tick[c].next => ~Pending(clone[c], tick[c].since, i)
  /\ Wrapped(c)
  /\ UNCHANGED <<github, origin, clone, faults>>

(* A read below the rate-limit floor is thrown away and ends the loop; the *)
(* events found before it are still written.                               *)
RateLimited(c, i) ==
  /\ faults < MaxFaults /\ faults' = faults + 1
  /\ NextPending(c, i)
  /\ Wrapped(c)
  /\ UNCHANGED <<github, origin, clone>>

AppendEvent(c) ==
  /\ tick[c].phase = "append"
  /\ clone' = [clone EXCEPT ![c].ledger = Append(@, AsLine(Head(tick[c].found), TRUE))]
  /\ tick' = [tick EXCEPT ![c].found = Tail(@),
                          ![c].phase = IF Len(tick[c].found) = 1 THEN "commit" ELSE @]
  /\ UNCHANGED <<github, origin, faults>>

AppendCutShort(c) ==
  /\ faults < MaxFaults /\ faults' = faults + 1
  /\ tick[c].phase = "append"
  /\ clone' = [clone EXCEPT ![c].ledger = Append(@, AsLine(Head(tick[c].found), FALSE))]
  /\ End(c)
  /\ UNCHANGED <<github, origin>>

CommitLedger(c) ==
  /\ tick[c].phase = "commit"
  /\ clone' = [clone EXCEPT ![c].committed = clone[c].ledger]
  /\ tick' = [tick EXCEPT ![c].phase = "push"]
  /\ UNCHANGED <<github, origin, faults>>

(* Seeded fault: the push is forced.                                       *)
CanPush_Forced(c) == TRUE

(* push_with_pat never forces.                                             *)
CanPush(c) == ~clone[c].behind

Pushed(c) ==
  /\ origin' = [origin EXCEPT !.ledger = clone[c].committed]
  /\ clone' = [d \in Clones |-> [clone[d] EXCEPT !.behind = (d # c)]]

PushLedger(c) ==
  /\ tick[c].phase = "push" /\ CanPush(c)
  /\ Pushed(c)
  /\ End(c)
  /\ UNCHANGED <<github, faults>>

PushRejected(c) ==
  /\ tick[c].phase = "push" /\ ~CanPush(c)
  /\ End(c)
  /\ UNCHANGED <<github, origin, clone, faults>>

(* A call fails, or the process is killed: nothing is undone.  A push may  *)
(* have taken effect although the client saw an error.                     *)
Fails(c) ==
  /\ faults < MaxFaults /\ faults' = faults + 1
  /\ tick[c].phase # "idle"
  /\ End(c)
  /\ \/ UNCHANGED <<origin, clone>>
     \/ tick[c].phase = "push" /\ CanPush(c) /\ Pushed(c)
  /\ UNCHANGED github

----------------------------------------------------------------------------
(* Around maintain.  session archive lands a session's artifacts on origin *)
(* from some other clone; an operator pulls when nothing local is in the   *)
(* way.                                                                    *)
Archive(a) ==
  /\ \A i \in DOMAIN origin.sessions : origin.sessions[i] # a
  /\ origin' = [origin EXCEPT !.sessions = Append(@, a)]
  /\ clone' = [c \in Clones |-> [clone[c] EXCEPT !.behind = TRUE]]
  /\ UNCHANGED <<github, tick, faults>>

Pull(c) ==
  /\ c \notin Runners /\ tick[c].phase = "idle"
  /\ clone[c].behind
  /\ clone[c].ledger = clone[c].committed
  /\ \A i \in DOMAIN clone[c].committed :
       i \in DOMAIN origin.ledger /\ origin.ledger[i] = clone[c].committed[i]
  /\ clone' = [clone EXCEPT ![c] = [sessions |-> origin.sessions, ledger |-> origin.ledger,
                                    committed |-> origin.ledger, behind |-> FALSE]]
  /\ UNCHANGED <<github, origin, tick, faults>>

(* GitHub.  The branch moves, the pull request grows old or is touched,    *)
(* its head repository goes away, it is merged, closed or reopened.        *)
OnGitHub(a, s) ==
  /\ github' = [github EXCEPT ![a] = s]
  /\ UNCHANGED <<origin, clone, tick, faults>>

MovePr(a) ==
  /\ github[a].state = "open" /\ ~github[a].gone /\ github[a].head < MaxHead
  /\ OnGitHub(a, [github[a] EXCEPT !.head = @ + 1, !.idle = FALSE])

TouchPr(a) ==
  /\ github[a].state = "open" /\ github[a].idle
  /\ OnGitHub(a, [github[a] EXCEPT !.idle = FALSE])

(* An invocation compares with the time of its start: a pull request that  *)
(* passes the threshold meanwhile is not stale before the next one.        *)
AgePr(a) ==
  /\ github[a].state = "open" /\ ~github[a].idle
  /\ \A c \in Clones : tick[c].phase # "query"
  /\ OnGitHub(a, [github[a] EXCEPT !.idle = TRUE])

LoseHead(a) ==
  /\ github[a].state = "open" /\ ~github[a].gone
  /\ OnGitHub(a, [github[a] EXCEPT !.gone = TRUE])

MergePr(a) ==
  /\ github[a].state = "open"
  /\ OnGitHub(a, [github[a] EXCEPT !.state = "merged", !.idle = FALSE])

CloseArtifact(a) ==
  /\ github[a].state = "open"
  /\ OnGitHub(a, [github[a] EXCEPT !.state = "closed", !.idle = FALSE])

Reopen(a) ==
  /\ github[a].state = "closed" /\ ~github[a].gone
  /\ OnGitHub(a, [github[a] EXCEPT !.state = "open"])

----------------------------------------------------------------------------
Init ==
  /\ github = [a \in Artifacts |-> [state |-> "open", head |-> IF a \in Prs THEN 1 ELSE 0,
                                    gone |-> FALSE, idle |-> FALSE]]
  /\ origin = [sessions |-> <<>>, ledger |-> <<>>]
  /\ clone = [c \in Clones |-> [sessions |-> <<>>, ledger |-> <<>>, committed |-> <<>>,
                                behind |-> FALSE]]
  /\ tick = [c \in Clones |-> Idle]
  /\ faults = 0

Dates == {0} \cup {Started[a] : a \in Artifacts}

(* The scheduled command line has no --since and no --dry-run.             *)
Scheduled(c) == Start(c, 0, FALSE)

Step(c) ==
  \/ \E i \in DOMAIN clone[c].sessions : Query(c, i)
  \/ EndScan(c) \/ AppendEvent(c) \/ CommitLedger(c) \/ PushLedger(c) \/ PushRejected(c)

Invocation(c) ==
  \/ \E since \in Dates, dry \in BOOLEAN : Start(c, since, dry)
  \/ \E i \in DOMAIN clone[c].sessions : Query(c, i) \/ RateLimited(c, i)
  \/ EndScan(c) \/ AppendEvent(c) \/ AppendCutShort(c) \/ CommitLedger(c)
  \/ PushLedger(c) \/ PushRejected(c) \/ Fails(c)

Environment ==
  \/ \E a \in Artifacts : Archive(a) \/ CloseArtifact(a) \/ Reopen(a)
  \/ \E a \in Prs : MovePr(a) \/ TouchPr(a) \/ AgePr(a) \/ LoseHead(a) \/ MergePr(a)
  \/ \E c \in Clones : Pull(c)

Next == Environment \/ \E c \in Clones : Invocation(c)

Spec == Init /\ [][Next]_vars

(* The cron schedule starts maintain again and again, whatever an operator *)
(* runs by hand in between, and a process that runs takes its next step.   *)
FairSpec == Spec /\ \A c \in Clones : SF_vars(Scheduled(c)) /\ WF_vars(Step(c))
=============================================================================
