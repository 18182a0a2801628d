------------------------- MODULE MaintainInvariants -------------------------
(***************************************************************************)
(* What maintain.jsonl promises its readers (the history projection, the   *)
(* open pull request limit, dedup).                                        *)
(***************************************************************************)
EXTENDS Maintain

Ledgers == {origin.ledger} \cup {clone[c].ledger : c \in Clones}
                           \cup {clone[c].committed : c \in Clones}

(* The types of the state: GitHub's objects, the ledgers, the invocations. *)
TypeOK ==
  /\ github \in [Artifacts -> Object]
  /\ origin \in [sessions : Seq(Artifacts), ledger : Seq(Line)]
  /\ clone \in [Clones -> [sessions : Seq(Artifacts), ledger : Seq(Line),
                           committed : Seq(Line), behind : BOOLEAN]]
  /\ tick \in [Clones -> [phase : Phases, dry : BOOLEAN, since : Nat, next : Nat,
                          queried : Nat, found : Seq(Event)]]
  /\ faults \in 0..MaxFaults

(* i and j are readable lines about one artifact, i the earlier.           *)
Before(l, i, j) ==
  i < j /\ l[i].of = l[j].of /\ Readable(l, i) /\ Readable(l, j)

NothingAfterEnd(l) ==
  \A i, j \in DOMAIN l : Before(l, i, j) => l[i].kind \notin TerminalKinds

OpensFirst(l) ==
  \A i, j \in DOMAIN l : Before(l, i, j) => l[j].kind \notin {"pr_open", "issue_open"}

ReportedOnce(l) ==
  \A i, j \in DOMAIN l :
    /\ Before(l, i, j)
    /\ l[i].kind = l[j].kind
    /\ l[j].kind \in {"pr_stale", "pr_branch_deleted"}
    => \E k \in DOMAIN l : Before(l, i, k) /\ Before(l, k, j) /\ l[k].kind = "pr_force_pushed"

HeadsAdvance(l) ==
  \A i, j \in DOMAIN l :
    Before(l, i, j) => /\ l[i].head <= l[j].head
                       /\ l[j].kind = "pr_force_pushed" => l[i].head < l[j].head

LedgerOK(l) == NothingAfterEnd(l) /\ OpensFirst(l) /\ ReportedOnce(l) /\ HeadsAdvance(l)

(* Whatever fails, whoever else runs maintain: in every copy of the        *)
(* ledger, each artifact's events are one lifecycle.  Its opening comes    *)
(* first, nothing follows its end, staleness and a lost head are reported  *)
(* once until the branch moves, and heads only advance (derive_pr_event    *)
(* against the projection, duplicate suppression).                         *)
LedgerIsALifecycle ==
  \A l \in Ledgers : LedgerOK(l)

(* The projection that maintain decides by is what the loop of             *)
(* project_events leaves in its map, for every ledger that arises.         *)
ProjectionIsTheLoop ==
  \A l \in Ledgers, a \in Artifacts :
    Projection(l, a)[Len(l)] =
      [known |-> Known(l, a),
       terminal |-> Terminal(l, a),
       head |-> IF Known(l, a) THEN HeadSha(l, a) ELSE 0,
       gone |-> ReportedSincePush(l, a, "pr_branch_deleted"),
       stale |-> ReportedSincePush(l, a, "pr_stale")]

IsAPrefix(s, l) == Len(s) <= Len(l) /\ \A i \in DOMAIN s : s[i] = l[i]

(* maintain.jsonl is append-only: no event that reached origin is ever     *)
(* taken back, although clones diverge and runners are thrown away.        *)
OriginOnlyGrows == [][IsAPrefix(origin.ledger, origin'.ledger)]_vars

Archived(a) == \E i \in DOMAIN origin.sessions : origin.sessions[i] = a

(* What every scan of the session ledger asks about before it comes to a.  *)
Ahead(a) ==
  {b \in Artifacts : /\ ~Terminal(origin.ledger, b)
                     /\ \E i, j \in DOMAIN origin.sessions :
                          i < j /\ origin.sessions[i] = b /\ origin.sessions[j] = a}

(* A pull request that is merged and archived is, in the end, finished in  *)
(* the ledger on origin, whatever failed before, once fewer than Limit     *)
(* unfinished artifacts are ahead of it.  Without that nothing is promised:*)
(* reconcile starts every scan at the head of the session ledger.          *)
FinishedIsRecorded ==
  \A a \in Prs :
    (github[a].state = "merged" /\ Archived(a) /\ Cardinality(Ahead(a)) < Limit)
      ~> Terminal(origin.ledger, a)

(* An artifact that a scan leaves out because of --limit is one "that      *)
(* should be retried by a later maintain invocation" (DeferredArtifact,    *)
(* session/maintain.rs:37): a later scan asks about it.  Not true of the   *)
(* code: no run has DeferredIsRetried (README, Disagreements found).       *)
Deferred(c, a) ==
  /\ tick[c].phase = "query" /\ tick[c].queried >= Limit
  /\ \E i \in DOMAIN clone[c].sessions :
       clone[c].sessions[i] = a /\ i >= tick[c].next /\ Pending(clone[c], tick[c].since, i)
Asks(c, a) == tick[c].phase = "query" /\ tick[c].next > 1 /\ clone[c].sessions[tick[c].next - 1] = a
DeferredIsRetried ==
  \A a \in Artifacts : (\E c \in Clones : Deferred(c, a)) ~> (\E c \in Clones : Asks(c, a))

----------------------------------------------------------------------------
(* The inductive invariant behind LedgerIsALifecycle and OriginOnlyGrows.  *)
(* No session is archived twice.                                           *)
NoRepetition(s) == \A i, j \in DOMAIN s : s[i] = s[j] => i = j
SessionsInv ==
  /\ NoRepetition(origin.sessions)
  /\ \A c \in Clones : NoRepetition(clone[c].sessions)

(* What is recorded of a branch is a position it has been at.              *)
Seen(l) == \A i \in DOMAIN l : l[i].head <= github[l[i].of].head
LedgersInv ==
  /\ LedgerOK(origin.ledger) /\ Seen(origin.ledger)
  /\ \A c \in Clones : /\ LedgerOK(clone[c].ledger) /\ Seen(clone[c].ledger)
                       /\ LedgerOK(clone[c].committed) /\ Seen(clone[c].committed)

(* e continues the lifecycle of its artifact in l.                         *)
Fits(l, e) ==
  \A i \in EventsOf(l, e.of) :
    /\ l[i].kind \notin TerminalKinds
    /\ e.kind \notin {"pr_open", "issue_open"}
    /\ l[i].head <= e.head
    /\ e.kind = "pr_force_pushed" => l[i].head < e.head
    /\ e.kind \in {"pr_stale", "pr_branch_deleted"} /\ l[i].kind = e.kind
       => \E k \in EventsOf(l, e.of) : k > i /\ l[k].kind = "pr_force_pushed"

(* The events that an invocation holds fit its ledger, one per artifact.   *)
Holds(g, w, t) ==
  /\ t.phase = "idle" => t.found = <<>>
  /\ t.phase = "append" => t.found # <<>>
  /\ t.phase = "query" =>
       \A k \in DOMAIN t.found :
         \E i \in DOMAIN w.sessions : i < t.next /\ t.found[k].of = w.sessions[i]
  /\ \A k, m \in DOMAIN t.found : t.found[k].of = t.found[m].of => k = m
  /\ \A k \in DOMAIN t.found : Fits(w.ledger, t.found[k])
  /\ \A k \in DOMAIN t.found : t.found[k].head <= g[t.found[k].of].head
FoundInv == \A c \in Clones : Holds(github, clone[c], tick[c])

(* A clone only has more than origin, unless it is behind.                 *)
PrefixInv ==
  \A c \in Clones :
    /\ IsAPrefix(clone[c].committed, clone[c].ledger)
    /\ ~clone[c].behind => IsAPrefix(origin.ledger, clone[c].committed)

----------------------------------------------------------------------------
(* The lifecycles that the ledger of one clone tells.                      *)
Home == CHOOSE c \in Clones : TRUE
Told(l, a) == IF ~Known(l, a) THEN "unseen" ELSE IF Terminal(l, a) THEN "ended" ELSE "open"
HeadTold(l, a) == IF Known(l, a) THEN HeadSha(l, a) ELSE 0
ReportsTold(l, a) ==
  {k \in {"pr_stale", "pr_branch_deleted"} : ReportedSincePush(l, a, k)}

Life == INSTANCE Lifecycle WITH
  stage <- [a \in Artifacts |-> Told(clone[Home].ledger, a)],
  head <- [a \in Artifacts |-> HeadTold(clone[Home].ledger, a)],
  reported <- [a \in Artifacts |-> ReportsTold(clone[Home].ledger, a)]

(* The events that an invocation holds about a branch continue a life that *)
(* the ledger has begun; a report is about the position recorded last.     *)
Continues(l, e) ==
  e.kind \in Life!Reports \cup {"pr_force_pushed"} =>
    /\ e.of \in Prs /\ Known(l, e.of)
    /\ e.kind \in Life!Reports => e.head = HeadSha(l, e.of)
LivesInv ==
  \A c \in Clones : \A k \in DOMAIN tick[c].found : Continues(clone[c].ledger, tick[c].found[k])

(* Nobody else pushes to the ledger: a pull brings no events.              *)
SoleWriter == \A c \in Clones : IsAPrefix(origin.ledger, clone[c].committed)

(* The ledger of the one clone in which maintain runs implements the       *)
(* lifecycles: every append is the next step of the artifact it is about.  *)
LedgerTellsLives == Life!Spec
=============================================================================
