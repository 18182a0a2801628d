--------------------------- MODULE MaintainProofs ---------------------------
(***************************************************************************)
(* Theorems about Maintain, for any clones, runners, artifacts, limits and *)
(* any number of faults.  The inductive invariant says of the invocations  *)
(* under way that the events they hold still fit the ledger they will be   *)
(* appended to: GitHub was asked some steps ago, other events have been    *)
(* appended since.                                                         *)
(***************************************************************************)
EXTENDS MaintainInvariants, WellFoundedInduction, SequenceTheorems, TLAPS

USE MaintainAssumption DEF Artifacts

(* A nonempty set of line numbers has a largest element.                   *)
LEMMA HasMaximum ==
  ASSUME NEW n \in Nat, NEW S \in SUBSET (1..n), S # {}
  PROVE  \E x \in S : \A y \in S : y <= x
<1> DEFINE T == {k \in Nat : \E i \in S : k = n - i}
<1> DEFINE R == OpToRel(<, Nat)
<1>1. T \subseteq Nat /\ T # {}
  <2>1. PICK i \in S : TRUE
    OBVIOUS
  <2>2. n - i \in T
    BY <2>1
  <2> QED
    BY <2>2
<1>2. IsWellFoundedOn(R, Nat)
  BY NatLessThanWellFounded
<1>3. \A y, z \in Nat : y < z => <<y, z>> \in R
  BY DEF OpToRel
<1> HIDE DEF R, T
<1>4. PICK x \in T : \A y \in T : ~ (<<y, x>> \in R)
  BY <1>1, <1>2, WFMin
<1>5. \A y \in T : x <= y
  <2> TAKE y \in T
  <2>1. x \in Nat /\ y \in Nat
    BY <1>1
  <2>2. ~(y < x)
    BY <1>3, <1>4, <2>1
  <2> QED
    BY <2>1, <2>2
<1>6. PICK i \in S : x = n - i
  BY <1>4 DEF T
<1>7. \A y \in S : y <= i
  <2> TAKE y \in S
  <2>1. n - y \in T
    BY DEF T
  <2> QED
    BY <1>5, <1>6, <2>1
<1> QED
  BY <1>7

(* The projection of a known artifact looks at its last readable event.    *)
LEMMA LastOfIsLast ==
  ASSUME NEW l \in Seq(Line), NEW a, Known(l, a)
  PROVE  /\ LastOf(l, a) \in EventsOf(l, a)
         /\ \A j \in EventsOf(l, a) : j <= LastOf(l, a)
<1>1. EventsOf(l, a) \in SUBSET (1..Len(l)) /\ Len(l) \in Nat
  BY DEF EventsOf
<1>2. \E x \in EventsOf(l, a) : \A y \in EventsOf(l, a) : y <= x
  BY <1>1, HasMaximum DEF Known
<1> QED
  BY <1>2 DEF LastOf

(* Appending leaves what is readable of the earlier lines as it is.        *)
LEMMA AppendedEvents ==
  ASSUME NEW l \in Seq(Line), NEW x \in Line, NEW a
  PROVE  /\ Append(l, x) \in Seq(Line) /\ Len(Append(l, x)) = Len(l) + 1
         /\ \A i \in DOMAIN l : Append(l, x)[i] = l[i]
         /\ Append(l, x)[Len(l) + 1] = x
         /\ \A i \in DOMAIN l : Readable(Append(l, x), i) <=> Readable(l, i)
         /\ EventsOf(l, a) \subseteq EventsOf(Append(l, x), a)
         /\ \A i \in EventsOf(Append(l, x), a) :
              i \in EventsOf(l, a) \/ (i = Len(l) + 1 /\ x.of = a)
<1> DEFINE m == Append(l, x)
<1>1. /\ m \in Seq(Line) /\ Len(m) = Len(l) + 1 /\ Len(l) \in Nat
      /\ \A i \in DOMAIN l : m[i] = l[i]
      /\ m[Len(l) + 1] = x
      /\ DOMAIN l = 1..Len(l) /\ DOMAIN m = 1..(Len(l) + 1)
  OBVIOUS
<1> HIDE DEF m
<1>2. \A i \in DOMAIN l : Readable(m, i) <=> Readable(l, i)
  BY <1>1 DEF Readable
<1>3. EventsOf(l, a) \subseteq EventsOf(m, a)
  BY <1>1, <1>2 DEF EventsOf
<1>4. \A i \in EventsOf(m, a) : i \in EventsOf(l, a) \/ (i = Len(l) + 1 /\ x.of = a)
  BY <1>1, <1>2 DEF EventsOf
<1> QED
  BY <1>1, <1>2, <1>3, <1>4 DEF m

(* An event that fits, appended, leaves the ledger a ledger of lifecycles. *)
LEMMA AppendKeepsLedger ==
  ASSUME NEW l \in Seq(Line), NEW e \in Event, NEW w \in BOOLEAN, LedgerOK(l), Fits(l, e)
  PROVE  LedgerOK(Append(l, AsLine(e, w)))
<1> DEFINE x == AsLine(e, w)
           m == Append(l, x)
<1>1. x \in Line /\ x.of = e.of /\ x.kind = e.kind /\ x.head = e.head
  BY DEF AsLine, Event, Line
<1> HIDE DEF x
<1>2. /\ m \in Seq(Line) /\ Len(m) = Len(l) + 1 /\ Len(l) \in Nat
      /\ \A i \in DOMAIN l : m[i] = l[i]
      /\ m[Len(l) + 1] = x
      /\ \A i \in DOMAIN l : Readable(m, i) <=> Readable(l, i)
      /\ DOMAIN l = 1..Len(l) /\ DOMAIN m = 1..(Len(l) + 1)
  BY <1>1, AppendedEvents
<1> HIDE DEF m
<1>3. ASSUME NEW i \in DOMAIN m, NEW j \in DOMAIN m, Before(m, i, j)
      PROVE  /\ i \in DOMAIN l
             /\ \/ j \in DOMAIN l /\ Before(l, i, j)
                \/ j = Len(l) + 1 /\ i \in EventsOf(l, e.of)
  BY <1>1, <1>2, <1>3 DEF Before, EventsOf
<1>4. NothingAfterEnd(m)
  BY <1>1, <1>2, <1>3 DEF NothingAfterEnd, LedgerOK, Fits
<1>5. OpensFirst(m)
  BY <1>1, <1>2, <1>3 DEF OpensFirst, LedgerOK, Fits
<1>6. HeadsAdvance(m)
  BY <1>1, <1>2, <1>3 DEF HeadsAdvance, LedgerOK, Fits
<1>7. ReportedOnce(m)
  <2> SUFFICES ASSUME NEW i \in DOMAIN m, NEW j \in DOMAIN m, Before(m, i, j),
                      m[i].kind = m[j].kind, m[j].kind \in {"pr_stale", "pr_branch_deleted"}
               PROVE  \E k \in DOMAIN m : Before(m, i, k) /\ Before(m, k, j)
                                          /\ m[k].kind = "pr_force_pushed"
    BY DEF ReportedOnce
  <2>1. CASE j \in DOMAIN l /\ Before(l, i, j)
    <3>1. PICK k \in DOMAIN l : Before(l, i, k) /\ Before(l, k, j) /\ l[k].kind = "pr_force_pushed"
      BY <1>2, <1>3, <2>1 DEF LedgerOK, ReportedOnce
    <3>2. i \in DOMAIN l /\ k \in DOMAIN m
      BY <1>2, <1>3
    <3>3. Before(m, i, k) /\ Before(m, k, j)
      BY <1>2, <2>1, <3>1, <3>2 DEF Before
    <3>4. m[k].kind = "pr_force_pushed"
      BY <1>2, <3>1
    <3> QED
      BY <3>2, <3>3, <3>4
  <2>2. CASE j = Len(l) + 1 /\ i \in EventsOf(l, e.of)
    <3>1. PICK k \in EventsOf(l, e.of) : k > i /\ l[k].kind = "pr_force_pushed"
      BY <1>1, <1>2, <1>3, <2>2 DEF Fits
    <3>2. k \in DOMAIN l /\ i \in DOMAIN l
      BY <2>2, <3>1 DEF EventsOf
    <3>3. Before(m, i, k)
      BY <1>2, <2>2, <3>1, <3>2 DEF Before, EventsOf
    <3>4. Before(m, k, j)
      BY <1>1, <1>2, <2>2, <3>1, <3>2 DEF Before, EventsOf
    <3> QED
      BY <1>2, <3>1, <3>2, <3>3, <3>4
  <2> QED
    BY <1>3, <2>1, <2>2
<1> QED
  BY <1>4, <1>5, <1>6, <1>7 DEF LedgerOK, m, x

(* An event of another artifact still fits after the append.               *)
LEMMA AppendKeepsFit ==
  ASSUME NEW l \in Seq(Line), NEW x \in Line, NEW e \in Event, x.of # e.of, Fits(l, e)
  PROVE  Fits(Append(l, x), e)
<1>1. EventsOf(Append(l, x), e.of) = EventsOf(l, e.of)
  <2>1. EventsOf(l, e.of) \subseteq EventsOf(Append(l, x), e.of)
    BY AppendedEvents
  <2>2. \A i \in EventsOf(Append(l, x), e.of) : i \in EventsOf(l, e.of)
    BY AppendedEvents
  <2> QED
    BY <2>1, <2>2
<1>2. \A i \in EventsOf(l, e.of) : Append(l, x)[i] = l[i]
  BY AppendedEvents DEF EventsOf
<1> QED
  BY <1>1, <1>2 DEF Fits

(* What GitHub answers about an unfinished artifact becomes an event that  *)
(* continues its lifecycle in the ledger.                                  *)
LEMMA NewsFits ==
  ASSUME NEW l \in Seq(Line), NEW a \in Artifacts, TypeOK, LedgerOK(l), Seen(l),
         ~Terminal(l, a), News(l, a) # None
  PROVE  /\ [of |-> a, kind |-> News(l, a), head |-> github[a].head] \in Event
         /\ Fits(l, [of |-> a, kind |-> News(l, a), head |-> github[a].head])
<1> DEFINE e == [of |-> a, kind |-> News(l, a), head |-> github[a].head]
<1>1. News(l, a) \in Kinds
  BY DEF News, PrNews, IssueNews, Kinds, TerminalKinds
<1>2. e \in Event
  BY <1>1 DEF TypeOK, Event, Object
<1>3. ASSUME NEW i \in EventsOf(l, a)
      PROVE  /\ l[i].kind \notin TerminalKinds
             /\ e.kind \notin {"pr_open", "issue_open"}
             /\ l[i].head <= e.head
             /\ e.kind = "pr_force_pushed" => l[i].head < e.head
             /\ e.kind \in {"pr_stale", "pr_branch_deleted"} /\ l[i].kind = e.kind
                => \E k \in EventsOf(l, a) : k > i /\ l[k].kind = "pr_force_pushed"
  <2> DEFINE last == LastOf(l, a)
  <2>1. Known(l, a)
    BY DEF Known
  <2>2. last \in EventsOf(l, a) /\ i <= last
    BY <2>1, LastOfIsLast
  <2>3. l[last].kind \notin TerminalKinds
    BY <2>1 DEF Terminal
  <2> HIDE DEF last
  <2>4. /\ i \in DOMAIN l /\ last \in DOMAIN l
        /\ i \in Nat /\ last \in Nat
        /\ l[i] \in Line /\ l[last] \in Line
        /\ l[i].of = a /\ l[last].of = a
    BY <2>2 DEF EventsOf
  <2>5. i = last \/ Before(l, i, last)
    BY <2>2, <2>4 DEF Before, EventsOf
  <2>6. l[i].kind \notin TerminalKinds
    BY <2>3, <2>4, <2>5 DEF LedgerOK, NothingAfterEnd
  <2>7. l[i].head \in Nat /\ l[last].head \in Nat /\ github[a].head \in Nat
    BY <2>4 DEF Line, TypeOK, Object
  <2>8. l[i].head <= l[last].head
    BY <2>4, <2>5, <2>7 DEF LedgerOK, HeadsAdvance
  <2>9. l[last].head <= github[a].head
    BY <2>4 DEF Seen
  <2>10. e.kind \notin {"pr_open", "issue_open"}
    BY <2>1 DEF News, PrNews, IssueNews
  <2>11. e.kind = "pr_force_pushed" => github[a].head # l[last].head
    BY DEF News, PrNews, IssueNews, HeadSha, last
  <2>12. e.kind \in {"pr_stale", "pr_branch_deleted"} => ~ReportedSincePush(l, a, e.kind)
    BY DEF News, PrNews, IssueNews
  <2>13. e.kind \in {"pr_stale", "pr_branch_deleted"} /\ l[i].kind = e.kind
           => \E k \in EventsOf(l, a) : k > i /\ l[k].kind = "pr_force_pushed"
    BY <2>12 DEF ReportedSincePush
  <2> QED
    BY <2>6, <2>7, <2>8, <2>9, <2>10, <2>11, <2>13
<1> QED
  BY <1>2, <1>3 DEF Fits

----------------------------------------------------------------------------
(* The steps, by what they do to the state.                                *)

StartStep == \E c \in Clones, since \in Nat, dry \in BOOLEAN : Start(c, since, dry)
QueryStep == \E c \in Clones : \E i \in DOMAIN clone[c].sessions : Query(c, i)
WrapStep == \E c \in Clones :
  tick[c].phase = "query" /\ Wrapped(c) /\ UNCHANGED <<github, origin, clone>>
AppendStep == \E c \in Clones, w \in BOOLEAN :
  /\ tick[c].phase = "append"
  /\ clone' = [clone EXCEPT ![c].ledger = Append(@, AsLine(Head(tick[c].found), w))]
  /\ \/ tick' = [tick EXCEPT ![c].found = Tail(@),
                             ![c].phase = IF Len(tick[c].found) = 1 THEN "commit" ELSE @]
     \/ End(c)
  /\ UNCHANGED <<github, origin>>
CommitStep == \E c \in Clones : CommitLedger(c)
PushStep == \E c \in Clones : ~clone[c].behind /\ Pushed(c) /\ End(c) /\ UNCHANGED github
EndStep == \E c \in Clones : End(c) /\ UNCHANGED <<github, origin, clone>>
ArchiveStep == \E a \in Artifacts : Archive(a)
PullStep == \E c \in Clones : Pull(c)
GitHubStep ==
  /\ github' \in [Artifacts -> Object]
  /\ \A a \in Artifacts : github[a].head <= github'[a].head
  /\ UNCHANGED <<origin, clone, tick>>

(* On GitHub a branch only moves forward.                                  *)
LEMMA GitHubMoves ==
  ASSUME TypeOK, NEW a \in Artifacts,
         \/ CloseArtifact(a) \/ Reopen(a) \/ MovePr(a) \/ TouchPr(a)
         \/ AgePr(a) \/ LoseHead(a) \/ MergePr(a)
  PROVE  GitHubStep /\ UNCHANGED faults
<1>1. github \in [Artifacts -> Object] /\ github[a] \in Object
  BY DEF TypeOK
<1>2. ASSUME NEW s \in Object, OnGitHub(a, s), github[a].head <= s.head
      PROVE  GitHubStep /\ UNCHANGED faults
  <2>1. \A b \in Artifacts : github[b].head \in Nat
    BY DEF TypeOK, Object
  <2>2. github' = [github EXCEPT ![a] = s] /\ UNCHANGED <<origin, clone, tick, faults>>
    BY <1>2 DEF OnGitHub
  <2>3. github' \in [Artifacts -> Object]
    BY <1>1, <2>2
  <2>4. \A b \in Artifacts : github[b].head <= github'[b].head
    BY <1>1, <1>2, <2>1, <2>2
  <2> QED
    BY <2>2, <2>3, <2>4 DEF GitHubStep
<1>3. ASSUME NEW g \in Object, NEW b \in BOOLEAN, NEW t \in {"open", "merged", "closed"}
      PROVE  /\ [g EXCEPT !.state = t] \in Object
             /\ [g EXCEPT !.state = t, !.idle = b] \in Object
             /\ [g EXCEPT !.idle = b] \in Object
             /\ [g EXCEPT !.gone = b] \in Object
  BY <1>3 DEF Object
<1>4. ASSUME NEW g \in Object, NEW b \in BOOLEAN, NEW t \in {"open", "merged", "closed"}
      PROVE  /\ g.head <= [g EXCEPT !.state = t].head
             /\ g.head <= [g EXCEPT !.state = t, !.idle = b].head
             /\ g.head <= [g EXCEPT !.idle = b].head
             /\ g.head <= [g EXCEPT !.gone = b].head
  BY <1>4 DEF Object
<1>5. PICK s \in Object : OnGitHub(a, s) /\ github[a].head <= s.head
  <2>1. CASE CloseArtifact(a)
    BY <1>1, <1>3, <1>4, <2>1 DEF CloseArtifact
  <2>2. CASE Reopen(a)
    BY <1>1, <1>3, <1>4, <2>2 DEF Reopen
  <2>3. CASE MovePr(a)
    <3> DEFINE s == [github[a] EXCEPT !.head = @ + 1, !.idle = FALSE]
    <3>1. github[a].head \in 0..MaxHead /\ github[a].head + 1 \in 0..MaxHead
      BY <1>1, <2>3 DEF Object, MovePr
    <3>2. s \in Object
      BY <1>1, <3>1 DEF Object
    <3>3. s.head = github[a].head + 1
      BY <1>1 DEF Object
    <3>4. OnGitHub(a, s)
      BY <2>3 DEF MovePr
    <3> HIDE DEF s
    <3> QED
      BY <3>1, <3>2, <3>3, <3>4
  <2>4. CASE TouchPr(a)
    BY <1>1, <1>3, <1>4, <2>4 DEF TouchPr
  <2>5. CASE AgePr(a)
    BY <1>1, <1>3, <1>4, <2>5 DEF AgePr
  <2>6. CASE LoseHead(a)
    BY <1>1, <1>3, <1>4, <2>6 DEF LoseHead
  <2>7. CASE MergePr(a)
    BY <1>1, <1>3, <1>4, <2>7 DEF MergePr
  <2> QED
    BY <2>1, <2>2, <2>3, <2>4, <2>5, <2>6, <2>7
<1> QED
  BY <1>2, <1>5

(* Every step is one of these, and the budget of faults is kept.           *)
LEMMA StepCases ==
  ASSUME TypeOK, Next
  PROVE  /\ faults' \in 0..MaxFaults
         /\ \/ StartStep \/ QueryStep \/ WrapStep \/ AppendStep \/ CommitStep
            \/ PushStep \/ EndStep \/ ArchiveStep \/ PullStep \/ GitHubStep
<1>0. faults \in 0..MaxFaults
  BY DEF TypeOK
<1>1. ASSUME NEW c \in Clones, NEW since \in Dates, NEW dry \in BOOLEAN, Start(c, since, dry)
      PROVE  StartStep /\ UNCHANGED faults
  <2>1. since \in Nat
    BY DEF Dates
  <2> QED
    BY <1>1, <2>1 DEF StartStep, Start
<1>2. ASSUME NEW c \in Clones, NEW i \in DOMAIN clone[c].sessions, Query(c, i)
      PROVE  QueryStep /\ UNCHANGED faults
  BY <1>2 DEF QueryStep, Query
<1>3. ASSUME NEW c \in Clones, NEW i \in DOMAIN clone[c].sessions, RateLimited(c, i)
      PROVE  WrapStep /\ faults' \in 0..MaxFaults
  BY <1>0, <1>3 DEF WrapStep, RateLimited, NextPending
<1>4. ASSUME NEW c \in Clones, EndScan(c)
      PROVE  WrapStep /\ UNCHANGED faults
  BY <1>4 DEF WrapStep, EndScan
<1>5. ASSUME NEW c \in Clones, AppendEvent(c)
      PROVE  AppendStep /\ UNCHANGED faults
  BY <1>5 DEF AppendStep, AppendEvent
<1>6. ASSUME NEW c \in Clones, AppendCutShort(c)
      PROVE  AppendStep /\ faults' \in 0..MaxFaults
  <2>1. faults' \in 0..MaxFaults
    BY <1>0, <1>6 DEF AppendCutShort
  <2> QED
    BY <1>6, <2>1, Zenon DEF AppendStep, AppendCutShort
<1>7. ASSUME NEW c \in Clones, CommitLedger(c)
      PROVE  CommitStep /\ UNCHANGED faults
  BY <1>7 DEF CommitStep, CommitLedger
<1>8. ASSUME NEW c \in Clones, PushLedger(c)
      PROVE  PushStep /\ UNCHANGED faults
  BY <1>8 DEF PushStep, PushLedger, CanPush
<1>9. ASSUME NEW c \in Clones, PushRejected(c)
      PROVE  EndStep /\ UNCHANGED faults
  BY <1>9 DEF EndStep, PushRejected
<1>10. ASSUME NEW c \in Clones, Fails(c)
       PROVE  (PushStep \/ EndStep) /\ faults' \in 0..MaxFaults
  BY <1>0, <1>10 DEF PushStep, EndStep, Fails, CanPush
<1>11. ASSUME NEW a \in Artifacts, Archive(a)
       PROVE  ArchiveStep /\ UNCHANGED faults
  BY <1>11 DEF ArchiveStep, Archive
<1>12. ASSUME NEW c \in Clones, Pull(c)
       PROVE  PullStep /\ UNCHANGED faults
  BY <1>12 DEF PullStep, Pull
<1>13. CASE \E a \in Artifacts : CloseArtifact(a) \/ Reopen(a)
  BY <1>0, <1>13, GitHubMoves
<1>14. CASE \E a \in Prs : MovePr(a) \/ TouchPr(a) \/ AgePr(a) \/ LoseHead(a) \/ MergePr(a)
  <2>1. PICK a \in Artifacts : MovePr(a) \/ TouchPr(a) \/ AgePr(a) \/ LoseHead(a) \/ MergePr(a)
    BY <1>14
  <2> QED
    BY <1>0, <2>1, GitHubMoves
<1> QED
  BY <1>0, <1>1, <1>2, <1>3, <1>4, <1>5, <1>6, <1>7, <1>8, <1>9, <1>10, <1>11, <1>12,
     <1>13, <1>14 DEF Next, Environment, Invocation

----------------------------------------------------------------------------
(* The inductive invariant, a part at a time.                              *)

IInv == TypeOK /\ SessionsInv /\ LedgersInv /\ FoundInv /\ PrefixInv

Tick == [phase : Phases, dry : BOOLEAN, since : Nat, next : Nat, queried : Nat,
         found : Seq(Event)]
Clone == [sessions : Seq(Artifacts), ledger : Seq(Line), committed : Seq(Line),
          behind : BOOLEAN]

(* No invocation is an invocation record.                                  *)
LEMMA IdleType == Idle \in Tick
  BY DEF Idle, Tick, Phases

(* Fields that are set to values of their type leave the record one.       *)
LEMMA TickPhase ==
  ASSUME NEW t \in Tick, NEW p \in Phases
  PROVE  [t EXCEPT !.phase = p] \in Tick
  BY DEF Tick

(* Start sets the phase and the options.                                   *)
LEMMA TickOptions ==
  ASSUME NEW t \in Tick, NEW p \in Phases, NEW d \in BOOLEAN, NEW n \in Nat
  PROVE  [t EXCEPT !.phase = p, !.dry = d, !.since = n] \in Tick
  BY DEF Tick

(* A query advances the scan and extends what was found.                   *)
LEMMA TickScan ==
  ASSUME NEW t \in Tick, NEW n \in Nat, NEW q \in Nat, NEW f \in Seq(Event)
  PROVE  [t EXCEPT !.next = n, !.queried = q, !.found = f] \in Tick
  BY DEF Tick

(* An append takes the first event found and may end the phase.            *)
LEMMA TickFound ==
  ASSUME NEW t \in Tick, NEW p \in Phases, NEW f \in Seq(Event)
  PROVE  [t EXCEPT !.found = f, !.phase = p] \in Tick
  BY DEF Tick

(* An append, a commit and a push leave a clone a clone.                   *)
LEMMA CloneUpdates ==
  ASSUME NEW w \in Clone, NEW l \in Seq(Line), NEW b \in BOOLEAN
  PROVE  /\ [w EXCEPT !.ledger = l] \in Clone
         /\ [w EXCEPT !.committed = l] \in Clone
         /\ [w EXCEPT !.behind = b] \in Clone
<1>1. [w EXCEPT !.ledger = l] \in Clone
  BY DEF Clone
<1>2. [w EXCEPT !.committed = l] \in Clone
  BY DEF Clone
<1>3. [w EXCEPT !.behind = b] \in Clone
  BY DEF Clone
<1> QED
  BY <1>1, <1>2, <1>3

(* A fresh checkout, or the clone as it is, is a clone.                    *)
LEMMA WorkingCopyType ==
  ASSUME TypeOK, NEW c \in Clones
  PROVE  WorkingCopy(c) \in Clone
  BY DEF TypeOK, WorkingCopy, Clone

(* The first of the events that an appending invocation holds.             *)
LEMMA FoundHead ==
  ASSUME TypeOK, FoundInv, NEW c \in Clones, tick[c].phase = "append"
  PROVE  /\ tick[c].found \in Seq(Event) /\ tick[c].found # <<>>
         /\ Head(tick[c].found) \in Event
         /\ Tail(tick[c].found) \in Seq(Event)
         /\ \A w \in BOOLEAN : AsLine(Head(tick[c].found), w) \in Line
<1>1. tick[c].found \in Seq(Event) /\ tick[c].found # <<>>
  BY DEF TypeOK, FoundInv, Holds
<1>2. Head(tick[c].found) \in Event /\ Tail(tick[c].found) \in Seq(Event)
  BY <1>1
<1>3. ASSUME NEW e \in Event, NEW w \in BOOLEAN
      PROVE  AsLine(e, w) \in Line
  BY DEF AsLine, Event, Line
<1> QED
  BY <1>1, <1>2, <1>3

(* The tail of a list, by position.                                        *)
LEMMA TailOf ==
  ASSUME NEW f \in Seq(Event), f # <<>>
  PROVE  /\ Len(f) \in Nat /\ Len(f) > 0 /\ DOMAIN f = 1..Len(f)
         /\ Tail(f) \in Seq(Event) /\ Len(Tail(f)) = Len(f) - 1
         /\ DOMAIN Tail(f) = 1..(Len(f) - 1)
         /\ \A k \in 1..(Len(f) - 1) : Tail(f)[k] = f[k+1]
         /\ Len(f) # 1 => Tail(f) # <<>>
<1>1. Len(f) \in Nat /\ Len(f) > 0 /\ DOMAIN f = 1..Len(f)
  OBVIOUS
<1>2. /\ Tail(f) \in Seq(Event) /\ Len(Tail(f)) = Len(f) - 1
      /\ \A k \in 1..Len(Tail(f)) : Tail(f)[k] = f[k+1]
  BY HeadTailProperties
<1>3. DOMAIN Tail(f) = 1..Len(Tail(f))
  BY <1>2
<1>4. Len(f) # 1 => Len(Tail(f)) # 0
  BY <1>1, <1>2
<1>5. Len(f) # 1 => Tail(f) # <<>>
  BY <1>4
<1> HIDE DEF Event
<1> QED
  BY <1>1, <1>2, <1>3, <1>5

(* Types.                                                                  *)
LEMMA TypeStep ==
  ASSUME IInv, Next
  PROVE  TypeOK'
<1> USE DEF IInv
<1>1. /\ github \in [Artifacts -> Object]
      /\ origin \in [sessions : Seq(Artifacts), ledger : Seq(Line)]
      /\ clone \in [Clones -> Clone]
      /\ tick \in [Clones -> Tick]
  BY DEF TypeOK, Clone, Tick
<1>2. faults' \in 0..MaxFaults
  BY StepCases
<1> SUFFICES /\ github' \in [Artifacts -> Object]
             /\ origin' \in [sessions : Seq(Artifacts), ledger : Seq(Line)]
             /\ clone' \in [Clones -> Clone]
             /\ tick' \in [Clones -> Tick]
  BY <1>2 DEF TypeOK, Clone, Tick
<1>3. CASE StartStep
  <2>1. PICK c \in Clones, since \in Nat, dry \in BOOLEAN : Start(c, since, dry)
    BY <1>3 DEF StartStep
  <2>2. [Idle EXCEPT !.phase = "query", !.dry = dry, !.since = since] \in Tick
    BY IdleType, TickOptions DEF Phases
  <2>3. tick' \in [Clones -> Tick]
    BY <1>1, <2>1, <2>2 DEF Start
  <2>4. clone' \in [Clones -> Clone]
    BY <1>1, <2>1, WorkingCopyType DEF Start
  <2> QED
    BY <1>1, <2>1, <2>3, <2>4 DEF Start
<1>4. CASE QueryStep
  <2>1. PICK c \in Clones : \E i \in DOMAIN clone[c].sessions : Query(c, i)
    BY <1>4 DEF QueryStep
  <2>2. PICK i \in DOMAIN clone[c].sessions : Query(c, i)
    BY <2>1
  <2> DEFINE a == clone[c].sessions[i]
             news == News(clone[c].ledger, a)
             e == [of |-> a, kind |-> news, head |-> github[a].head]
  <2>3. clone[c] \in Clone /\ tick[c] \in Tick /\ i \in Nat /\ a \in Artifacts
    BY <1>1 DEF Clone
  <2>4. news # None => e \in Event
    <3>1. clone[c].ledger \in Seq(Line) /\ ~Terminal(clone[c].ledger, a)
      BY <2>2, <2>3 DEF Query, NextPending, Pending, Clone
    <3> QED
      BY <2>3, <3>1, NewsFits DEF LedgersInv
  <2>5. tick' = [tick EXCEPT ![c] =
                   [tick[c] EXCEPT !.next = i + 1, !.queried = @ + 1,
                                   !.found = IF news = None THEN @ ELSE Append(@, e)]]
    BY <1>1, <2>2, <2>3 DEF Query, Tick
  <2>6. [tick[c] EXCEPT !.next = i + 1, !.queried = @ + 1,
                        !.found = IF news = None THEN @ ELSE Append(@, e)] \in Tick
    <3> HIDE DEF e, news, a
    <3>1. tick[c].queried + 1 \in Nat /\ i + 1 \in Nat
      BY <2>3 DEF Tick
    <3>2. (IF news = None THEN tick[c].found ELSE Append(tick[c].found, e)) \in Seq(Event)
      BY <2>3, <2>4 DEF Tick
    <3> QED
      BY <2>3, <3>1, <3>2, TickScan
  <2>7. UNCHANGED <<github, origin, clone>>
    BY <2>2 DEF Query
  <2> HIDE DEF e, news, a
  <2>8. tick' \in [Clones -> Tick]
    BY <1>1, <2>5, <2>6
  <2> QED
    BY <1>1, <2>7, <2>8
<1>5. CASE WrapStep
  <2>1. PICK c \in Clones : Wrapped(c) /\ UNCHANGED <<github, origin, clone>>
    BY <1>5 DEF WrapStep
  <2>2. [tick[c] EXCEPT !.phase = "append"] \in Tick
    BY <1>1, TickPhase DEF Phases
  <2> QED
    BY <1>1, <2>1, <2>2, IdleType DEF Wrapped
<1>6. CASE AppendStep
  <2>1. PICK c \in Clones, w \in BOOLEAN :
          /\ tick[c].phase = "append"
          /\ clone' = [clone EXCEPT ![c].ledger = Append(@, AsLine(Head(tick[c].found), w))]
          /\ \/ tick' = [tick EXCEPT ![c].found = Tail(@),
                           ![c].phase = IF Len(tick[c].found) = 1 THEN "commit" ELSE @]
             \/ End(c)
          /\ UNCHANGED <<github, origin>>
    BY <1>6, Zenon DEF AppendStep
  <2>2. /\ AsLine(Head(tick[c].found), w) \in Line
        /\ Tail(tick[c].found) \in Seq(Event)
    BY <2>1, FoundHead
  <2>3. clone' \in [Clones -> Clone]
    <3>1. Append(clone[c].ledger, AsLine(Head(tick[c].found), w)) \in Seq(Line)
      BY <1>1, <2>2 DEF Clone
    <3> QED
      BY <1>1, <2>1, <3>1, CloneUpdates
  <2>4. tick' \in [Clones -> Tick]
    <3>1. CASE End(c)
      BY <1>1, <3>1, IdleType DEF End
    <3>2. CASE tick' = [tick EXCEPT ![c].found = Tail(@),
                          ![c].phase = IF Len(tick[c].found) = 1 THEN "commit" ELSE @]
      <4> DEFINE p == IF Len(tick[c].found) = 1 THEN "commit" ELSE tick[c].phase
      <4>1. p \in Phases
        BY <2>1 DEF Phases
      <4>2. [tick[c] EXCEPT !.found = Tail(tick[c].found), !.phase = p] \in Tick
        BY <1>1, <2>2, <4>1, TickFound
      <4>3. tick' = [tick EXCEPT ![c] =
                       [tick[c] EXCEPT !.found = Tail(tick[c].found), !.phase = p]]
        BY <1>1, <3>2 DEF Tick
      <4> HIDE DEF p
      <4> QED
        BY <1>1, <4>2, <4>3
    <3> QED
      BY <2>1, <3>1, <3>2
  <2> QED
    BY <1>1, <2>1, <2>3, <2>4
<1>7. CASE CommitStep
  <2>1. PICK c \in Clones : CommitLedger(c)
    BY <1>7 DEF CommitStep
  <2>2. clone' \in [Clones -> Clone]
    <3>1. clone' = [clone EXCEPT ![c] = [clone[c] EXCEPT !.committed = clone[c].ledger]]
      BY <1>1, <2>1 DEF CommitLedger
    <3>2. clone[c].ledger \in Seq(Line)
      BY <1>1 DEF Clone
    <3> QED
      BY <1>1, <3>1, <3>2, CloneUpdates
  <2>3. tick' \in [Clones -> Tick]
    <3>1. tick' = [tick EXCEPT ![c] = [tick[c] EXCEPT !.phase = "push"]]
      BY <1>1, <2>1 DEF CommitLedger
    <3>2. "push" \in Phases
      BY DEF Phases
    <3> QED
      BY <1>1, <3>1, <3>2, TickPhase
  <2> QED
    BY <1>1, <2>1, <2>2, <2>3 DEF CommitLedger
<1>8. CASE PushStep
  <2>1. PICK c \in Clones : Pushed(c) /\ End(c) /\ UNCHANGED github
    BY <1>8 DEF PushStep
  <2>2. clone' \in [Clones -> Clone]
    BY <1>1, <2>1, CloneUpdates DEF Pushed
  <2>3. origin' \in [sessions : Seq(Artifacts), ledger : Seq(Line)]
    <3>1. clone[c].committed \in Seq(Line)
      BY <1>1 DEF Clone
    <3> QED
      BY <1>1, <2>1, <3>1 DEF Pushed
  <2> QED
    BY <1>1, <2>1, <2>2, <2>3, IdleType DEF End
<1>9. CASE EndStep
  BY <1>1, <1>9, IdleType DEF EndStep, End
<1>10. CASE ArchiveStep
  <2>1. PICK a \in Artifacts : Archive(a)
    BY <1>10 DEF ArchiveStep
  <2>2. clone' \in [Clones -> Clone]
    BY <1>1, <2>1, CloneUpdates DEF Archive
  <2>3. origin' \in [sessions : Seq(Artifacts), ledger : Seq(Line)]
    <3>1. Append(origin.sessions, a) \in Seq(Artifacts)
      BY <1>1
    <3> QED
      BY <1>1, <2>1, <3>1 DEF Archive
  <2>4. UNCHANGED <<github, tick>>
    BY <2>1 DEF Archive
  <2> QED
    BY <1>1, <2>2, <2>3, <2>4
<1>11. CASE PullStep
  BY <1>1, <1>11 DEF PullStep, Pull, Clone
<1>12. CASE GitHubStep
  BY <1>1, <1>12 DEF GitHubStep
<1> QED
  BY <1>3, <1>4, <1>5, <1>6, <1>7, <1>8, <1>9, <1>10, <1>11, <1>12, StepCases

(* The session ledgers change when a session is archived or pulled only.   *)
LEMMA SessionsStep ==
  ASSUME IInv, Next
  PROVE  SessionsInv'
<1> USE DEF IInv
<1>1. /\ clone \in [Clones -> Clone] /\ clone' \in [Clones -> Clone]
      /\ origin.sessions \in Seq(Artifacts)
  BY TypeStep DEF TypeOK, Clone
<1>2. NoRepetition(origin.sessions) /\ \A c \in Clones : NoRepetition(clone[c].sessions)
  BY DEF SessionsInv
<1>3. CASE StartStep
  <2>1. PICK c \in Clones, since \in Nat, dry \in BOOLEAN : Start(c, since, dry)
    BY <1>3 DEF StartStep
  <2>2. origin' = origin /\ clone' = [clone EXCEPT ![c] = WorkingCopy(c)]
    BY <2>1 DEF Start
  <2>3. NoRepetition(WorkingCopy(c).sessions)
    BY <1>2 DEF WorkingCopy
  <2> QED
    BY <1>1, <1>2, <2>2, <2>3 DEF SessionsInv
<1>4. CASE QueryStep \/ WrapStep \/ EndStep \/ GitHubStep
  <2>1. UNCHANGED <<origin, clone>>
    BY <1>4 DEF QueryStep, Query, WrapStep, EndStep, GitHubStep
  <2> QED
    BY <1>2, <2>1 DEF SessionsInv
<1>5. CASE AppendStep \/ CommitStep \/ PushStep
  <2>1. origin'.sessions = origin.sessions
    BY <1>5 DEF AppendStep, CommitStep, CommitLedger, PushStep, Pushed, TypeOK
  <2>2. \A c \in Clones : clone'[c].sessions = clone[c].sessions
    <3>1. CASE AppendStep
      BY <1>1, <3>1 DEF AppendStep, Clone
    <3>2. CASE CommitStep
      BY <1>1, <3>2 DEF CommitStep, CommitLedger, Clone
    <3>3. CASE PushStep
      BY <1>1, <3>3 DEF PushStep, Pushed, Clone
    <3> QED
      BY <1>5, <3>1, <3>2, <3>3
  <2> QED
    BY <1>2, <2>1, <2>2 DEF SessionsInv
<1>6. CASE ArchiveStep
  <2>1. PICK a \in Artifacts : Archive(a)
    BY <1>6 DEF ArchiveStep
  <2>2. origin'.sessions = Append(origin.sessions, a)
    BY <2>1 DEF Archive, TypeOK
  <2>3. \A c \in Clones : clone'[c].sessions = clone[c].sessions
    BY <1>1, <2>1 DEF Archive, Clone
  <2>4. NoRepetition(Append(origin.sessions, a))
    BY <1>1, <1>2, <2>1 DEF NoRepetition, Archive
  <2> QED
    BY <1>2, <2>2, <2>3, <2>4 DEF SessionsInv
<1>7. CASE PullStep
  BY <1>1, <1>2, <1>7 DEF PullStep, Pull, SessionsInv
<1> QED
  BY <1>3, <1>4, <1>5, <1>6, <1>7, StepCases

(* Every ledger stays a ledger of lifecycles.                              *)
LEMMA LedgersStep ==
  ASSUME IInv, Next
  PROVE  LedgersInv'
<1> USE DEF IInv
<1> DEFINE Good(l) == LedgerOK(l) /\ Seen(l)
<1>1. /\ clone \in [Clones -> Clone] /\ clone' \in [Clones -> Clone]
      /\ origin \in [sessions : Seq(Artifacts), ledger : Seq(Line)]
  BY TypeStep DEF TypeOK, Clone
<1>2. /\ Good(origin.ledger)
      /\ \A c \in Clones : Good(clone[c].ledger) /\ Good(clone[c].committed)
  BY DEF LedgersInv
<1>3. ASSUME github' = github, NEW l, Good(l)
      PROVE  LedgerOK(l) /\ Seen(l)'
  BY <1>3 DEF Seen
<1>4. SUFFICES /\ LedgerOK(origin'.ledger) /\ Seen(origin.ledger)'
               /\ \A c \in Clones :
                    /\ LedgerOK(clone'[c].ledger) /\ Seen(clone[c].ledger)'
                    /\ LedgerOK(clone'[c].committed) /\ Seen(clone[c].committed)'
  BY DEF LedgersInv, LedgerOK, NothingAfterEnd, OpensFirst, ReportedOnce, HeadsAdvance,
         Before, Readable
<1>5. CASE StartStep
  <2>1. PICK c \in Clones, since \in Nat, dry \in BOOLEAN : Start(c, since, dry)
    BY <1>5 DEF StartStep
  <2>2. /\ github' = github /\ origin' = origin
        /\ clone' = [clone EXCEPT ![c] = WorkingCopy(c)]
    BY <2>1 DEF Start
  <2>3. Good(WorkingCopy(c).ledger) /\ Good(WorkingCopy(c).committed)
    BY <1>2 DEF WorkingCopy
  <2> HIDE DEF Good
  <2> QED
    BY <1>1, <1>2, <1>3, <2>2, <2>3
<1>6. CASE QueryStep \/ WrapStep \/ EndStep
  <2>1. UNCHANGED <<github, origin, clone>>
    BY <1>6 DEF QueryStep, Query, WrapStep, EndStep
  <2> HIDE DEF Good
  <2> QED
    BY <1>2, <1>3, <2>1
<1>7. CASE AppendStep
  <2>1. PICK c \in Clones, w \in BOOLEAN :
          /\ tick[c].phase = "append"
          /\ clone' = [clone EXCEPT ![c].ledger = Append(@, AsLine(Head(tick[c].found), w))]
          /\ UNCHANGED <<github, origin>>
    BY <1>7, Zenon DEF AppendStep
  <2> DEFINE f == tick[c].found
             l == clone[c].ledger
             x == AsLine(Head(f), w)
  <2>2. f \in Seq(Event) /\ f # <<>> /\ Head(f) \in Event /\ x \in Line
    BY <2>1, FoundHead
  <2>3. 1 \in DOMAIN f /\ Head(f) = f[1]
    BY <2>2
  <2>4. Fits(l, Head(f)) /\ Head(f).head <= github[Head(f).of].head
    BY <2>3 DEF FoundInv, Holds
  <2>5. l \in Seq(Line)
    BY <1>1 DEF Clone
  <2>6. LedgerOK(Append(l, x))
    BY <1>2, <2>2, <2>4, <2>5, AppendKeepsLedger
  <2>7. x.of = Head(f).of /\ x.head = Head(f).head
    BY DEF AsLine
  <2> HIDE DEF x, f, l
  <2>8. Seen(Append(l, x))
    BY <1>2, <2>2, <2>4, <2>5, <2>7 DEF Seen, l
  <2>9. Good(Append(l, x))
    BY <2>6, <2>8
  <2>10. /\ clone'[c].ledger = Append(l, x) /\ clone'[c].committed = clone[c].committed
         /\ \A d \in Clones \ {c} : clone'[d] = clone[d]
    BY <1>1, <2>1 DEF Clone, f, l, x
  <2> HIDE DEF Good
  <2> QED
    BY <1>2, <1>3, <2>1, <2>9, <2>10
<1>8. CASE CommitStep
  <2>1. PICK c \in Clones : CommitLedger(c)
    BY <1>8 DEF CommitStep
  <2>2. /\ clone'[c].ledger = clone[c].ledger /\ clone'[c].committed = clone[c].ledger
        /\ \A d \in Clones \ {c} : clone'[d] = clone[d]
        /\ UNCHANGED <<github, origin>>
    BY <1>1, <2>1 DEF Clone, CommitLedger
  <2> HIDE DEF Good
  <2> QED
    BY <1>2, <1>3, <2>2
<1>9. CASE PushStep
  <2>1. PICK c \in Clones : Pushed(c) /\ UNCHANGED github
    BY <1>9 DEF PushStep
  <2>2. origin'.ledger = clone[c].committed
    BY <1>1, <2>1 DEF Pushed
  <2>3. \A d \in Clones : /\ clone'[d].ledger = clone[d].ledger
                          /\ clone'[d].committed = clone[d].committed
    BY <1>1, <2>1 DEF Pushed, Clone
  <2> HIDE DEF Good
  <2> QED
    BY <1>2, <1>3, <2>1, <2>2, <2>3
<1>10. CASE ArchiveStep
  <2>1. PICK a \in Artifacts : Archive(a)
    BY <1>10 DEF ArchiveStep
  <2>2. origin'.ledger = origin.ledger /\ github' = github
    BY <1>1, <2>1 DEF Archive
  <2>3. \A d \in Clones : /\ clone'[d].ledger = clone[d].ledger
                          /\ clone'[d].committed = clone[d].committed
    BY <1>1, <2>1 DEF Archive, Clone
  <2> HIDE DEF Good
  <2> QED
    BY <1>2, <1>3, <2>2, <2>3
<1>11. CASE PullStep
  <2>1. PICK c \in Clones : Pull(c)
    BY <1>11 DEF PullStep
  <2>2. /\ clone'[c].ledger = origin.ledger /\ clone'[c].committed = origin.ledger
        /\ \A d \in Clones \ {c} : clone'[d] = clone[d]
        /\ UNCHANGED <<github, origin>>
    BY <1>1, <2>1 DEF Pull
  <2> HIDE DEF Good
  <2> QED
    BY <1>2, <1>3, <2>2
<1>12. CASE GitHubStep
  <2>1. \A a \in Artifacts : /\ github[a].head <= github'[a].head
                             /\ github[a].head \in Nat /\ github'[a].head \in Nat
    BY <1>12 DEF GitHubStep, TypeOK, Object
  <2>2. UNCHANGED <<origin, clone>>
    BY <1>12 DEF GitHubStep
  <2>3. ASSUME NEW l \in Seq(Line), Seen(l)
        PROVE  \A i \in DOMAIN l : l[i].head <= github'[l[i].of].head
    <3> TAKE i \in DOMAIN l
    <3>1. l[i] \in Line
      OBVIOUS
    <3>2. l[i].of \in Artifacts /\ l[i].head \in Nat
      BY <3>1 DEF Line
    <3> QED
      BY <2>1, <2>3, <3>2 DEF Seen
  <2>4. Seen(origin.ledger)'
    BY <1>1, <1>2, <2>2, <2>3 DEF Seen
  <2>5. ASSUME NEW c \in Clones
        PROVE  Seen(clone[c].ledger)' /\ Seen(clone[c].committed)'
    <3>1. clone[c].ledger \in Seq(Line) /\ clone[c].committed \in Seq(Line)
      BY <1>1 DEF Clone
    <3> QED
      BY <1>2, <2>2, <2>3, <3>1 DEF Seen
  <2> QED
    BY <1>2, <2>2, <2>4, <2>5
<1> QED
  BY <1>5, <1>6, <1>7, <1>8, <1>9, <1>10, <1>11, <1>12, StepCases

(* Nothing in the invocation c and its ledgers changes, nor do branches    *)
(* move back: what it holds still fits.                                    *)
LEMMA HoldsUnchanged ==
  ASSUME TypeOK, NEW c \in Clones, Holds(github, clone[c], tick[c]), tick'[c] = tick[c],
         clone'[c].sessions = clone[c].sessions, clone'[c].ledger = clone[c].ledger,
         \A a \in Artifacts : github[a].head <= github'[a].head /\ github'[a].head \in Nat
  PROVE  Holds(github', clone'[c], tick'[c])
<1>1. tick[c].found \in Seq(Event)
  BY DEF TypeOK
<1>2. \A k \in DOMAIN tick[c].found :
        /\ tick[c].found[k].of \in Artifacts /\ tick[c].found[k].head \in Nat
        /\ github[tick[c].found[k].of].head \in Nat
  <2> TAKE k \in DOMAIN tick[c].found
  <2>1. tick[c].found[k] \in Event
    BY <1>1
  <2>2. tick[c].found[k].of \in Artifacts /\ tick[c].found[k].head \in Nat
    BY <2>1 DEF Event
  <2> QED
    BY <2>2 DEF TypeOK, Object
<1>3. \A k \in DOMAIN tick[c].found : Fits(clone'[c].ledger, tick'[c].found[k])
  BY DEF Holds
<1>4. \A k \in DOMAIN tick'[c].found :
        tick'[c].found[k].head <= github'[tick'[c].found[k].of].head
  BY <1>2 DEF Holds
<1> QED
  BY <1>3, <1>4 DEF Holds

(* The events held by invocations keep fitting.                            *)
LEMMA FoundStep ==
  ASSUME IInv, Next
  PROVE  FoundInv'
<1> USE DEF IInv
<1>1. /\ clone \in [Clones -> Clone] /\ clone' \in [Clones -> Clone]
      /\ tick \in [Clones -> Tick] /\ tick' \in [Clones -> Tick]
      /\ github \in [Artifacts -> Object] /\ github' \in [Artifacts -> Object]
  BY TypeStep DEF TypeOK, Clone, Tick
<1>0. \A a \in Artifacts : github[a].head \in Nat /\ github'[a].head \in Nat
  BY <1>1 DEF Object
<1>2. \A c \in Clones : Holds(github, clone[c], tick[c])
  BY DEF FoundInv
<1> SUFFICES ASSUME NEW d \in Clones PROVE Holds(github', clone'[d], tick'[d])
  BY DEF FoundInv
<1>3. (tick'[d] = Idle) => Holds(github', clone'[d], tick'[d])
  BY DEF Holds, Idle
<1>4. ASSUME tick'[d] = tick[d], clone'[d].sessions = clone[d].sessions,
             clone'[d].ledger = clone[d].ledger, github' = github
      PROVE  Holds(github', clone'[d], tick'[d])
  BY <1>0, <1>2, <1>4, HoldsUnchanged
<1>5. CASE StartStep
  <2>1. PICK c \in Clones, since \in Nat, dry \in BOOLEAN : Start(c, since, dry)
    BY <1>5 DEF StartStep
  <2>2. CASE d = c
    <3>1. tick[c].phase = "idle" /\ tick[c].found = <<>>
      BY <1>2, <2>1 DEF Start, Holds
    <3>2. tick'[d].found = <<>> /\ tick'[d].phase # "append"
      <4> DEFINE t == [Idle EXCEPT !.phase = "query", !.dry = dry, !.since = since]
      <4>1. t.found = <<>> /\ t.phase = "query"
        BY DEF Idle
      <4>2. tick' = [tick EXCEPT ![c] = t] \/ tick' = tick
        BY <2>1 DEF Start
      <4> HIDE DEF t
      <4> QED
        BY <1>1, <2>2, <3>1, <4>1, <4>2
    <3> QED
      BY <3>2 DEF Holds
  <2>3. CASE d # c
    BY <1>1, <1>4, <2>1, <2>3 DEF Start
  <2> QED
    BY <2>2, <2>3
<1>6. CASE QueryStep
  <2>1. PICK c \in Clones : \E i \in DOMAIN clone[c].sessions : Query(c, i)
    BY <1>6 DEF QueryStep
  <2>2. PICK i \in DOMAIN clone[c].sessions : Query(c, i)
    BY <2>1
  <2>3. CASE d # c
    BY <1>1, <1>4, <2>2, <2>3 DEF Query
  <2>4. CASE d = c
    <3> DEFINE w == clone[c]
               t == tick[c]
               a == w.sessions[i]
               news == News(w.ledger, a)
               e == [of |-> a, kind |-> news, head |-> github[a].head]
    <3>0. w \in Clone /\ t \in Tick
      BY <1>1
    <3>1. /\ w.sessions \in Seq(Artifacts) /\ DOMAIN w.sessions \subseteq Nat
          /\ i \in Nat /\ a \in Artifacts
          /\ w.ledger \in Seq(Line) /\ t.found \in Seq(Event) /\ t.next \in Nat
      <4>1. w.sessions \in Seq(Artifacts) /\ w.ledger \in Seq(Line)
        BY <3>0 DEF Clone
      <4>2. t.found \in Seq(Event) /\ t.next \in Nat
        BY <3>0 DEF Tick
      <4>3. i \in DOMAIN w.sessions
        BY <2>2
      <4> HIDE DEF w, t
      <4>4. DOMAIN w.sessions \subseteq Nat /\ \A j \in DOMAIN w.sessions : w.sessions[j] \in Artifacts
        BY <4>1
      <4> QED
        BY <4>1, <4>2, <4>3, <4>4
    <3>2. t.phase = "query" /\ i >= t.next /\ ~Terminal(w.ledger, a)
      BY <2>2 DEF Query, NextPending, Pending
    <3>3. UNCHANGED <<github, clone>>
      BY <2>2 DEF Query
    <3>4. /\ tick'[c].phase = "query" /\ tick'[c].next = i + 1
          /\ tick'[c].found = IF news = None THEN t.found ELSE Append(t.found, e)
      BY <1>1, <2>2, <3>2 DEF Query, Tick
    <3>5. news # None => e \in Event /\ Fits(w.ledger, e)
      BY <3>1, <3>2, NewsFits DEF LedgersInv
    <3>6. e.of = a /\ e.head = github[a].head
      OBVIOUS
    <3>7. NoRepetition(w.sessions)
      BY DEF SessionsInv
    <3>8. Holds(github, w, t)
      BY <1>2
    <3> HIDE DEF a, news, e, w, t
    <3>9. \A k \in DOMAIN t.found :
            \E j \in DOMAIN w.sessions : j < i /\ j \in Nat /\ t.found[k].of = w.sessions[j]
      <4> TAKE k \in DOMAIN t.found
      <4>1. PICK j \in DOMAIN w.sessions : j < t.next /\ t.found[k].of = w.sessions[j]
        BY <3>2, <3>8 DEF Holds
      <4> QED
        BY <3>1, <3>2, <4>1
    <3>10. \A k \in DOMAIN t.found : t.found[k].of # a
      BY <2>2, <3>1, <3>7, <3>9 DEF NoRepetition, a, w
    <3>11. ASSUME NEW f, f = tick'[c].found
           PROVE  /\ \A k \in DOMAIN f :
                       \E j \in DOMAIN w.sessions : j < i + 1 /\ f[k].of = w.sessions[j]
                  /\ \A k, m \in DOMAIN f : f[k].of = f[m].of => k = m
                  /\ \A k \in DOMAIN f : Fits(w.ledger, f[k])
                  /\ \A k \in DOMAIN f : f[k].head <= github[f[k].of].head
      <4>1. CASE news = None
        <5>1. f = t.found
          BY <3>4, <3>11, <4>1
        <5>2. \A j \in DOMAIN w.sessions : j < i => j < i + 1
          BY <3>1
        <5>3. \A k \in DOMAIN f :
                \E j \in DOMAIN w.sessions : j < i + 1 /\ f[k].of = w.sessions[j]
          BY <3>9, <5>1, <5>2
        <5> QED
          BY <3>8, <5>1, <5>3 DEF Holds
      <4>2. CASE news # None
        <5>1. /\ f = Append(t.found, e) /\ Len(t.found) \in Nat
              /\ DOMAIN t.found = 1..Len(t.found) /\ DOMAIN f = 1..(Len(t.found) + 1)
              /\ \A k \in DOMAIN t.found : f[k] = t.found[k]
              /\ f[Len(t.found) + 1] = e
          BY <3>1, <3>4, <3>5, <3>11, <4>2
        <5>2. i \in DOMAIN w.sessions /\ w.sessions[i] = a /\ i < i + 1
          BY <3>1 DEF a, w
        <5>3. \A k \in DOMAIN f :
                \E j \in DOMAIN w.sessions : j < i + 1 /\ f[k].of = w.sessions[j]
          <6> TAKE k \in DOMAIN f
          <6>1. CASE k \in DOMAIN t.found
            <7>1. PICK j \in DOMAIN w.sessions :
                    j < i /\ j \in Nat /\ t.found[k].of = w.sessions[j]
              BY <3>9, <6>1
            <7> QED
              <8>1. j < i + 1
                BY <3>1, <7>1
              <8>2. f[k].of = w.sessions[j]
                BY <5>1, <6>1, <7>1
              <8> QED
                BY <8>1, <8>2
          <6>2. CASE k = Len(t.found) + 1
            BY <3>6, <5>1, <5>2, <6>2
          <6> QED
            BY <5>1, <6>1, <6>2
        <5>4. \A k, m \in DOMAIN f : f[k].of = f[m].of => k = m
          <6> TAKE k, m \in DOMAIN f
          <6>1. \A n \in DOMAIN f : n \in DOMAIN t.found \/ n = Len(t.found) + 1
            BY <5>1
          <6>2. CASE k \in DOMAIN t.found /\ m \in DOMAIN t.found
            BY <3>8, <5>1, <6>2 DEF Holds
          <6>3. CASE k \in DOMAIN t.found /\ m = Len(t.found) + 1
            BY <3>6, <3>10, <5>1, <6>3
          <6>4. CASE k = Len(t.found) + 1 /\ m \in DOMAIN t.found
            BY <3>6, <3>10, <5>1, <6>4
          <6> QED
            BY <6>1, <6>2, <6>3, <6>4
        <5>5. \A k \in DOMAIN f : Fits(w.ledger, f[k])
          BY <3>5, <3>8, <4>2, <5>1 DEF Holds
        <5>6. \A k \in DOMAIN f : f[k].head <= github[f[k].of].head
          <6> TAKE k \in DOMAIN f
          <6>1. CASE k \in DOMAIN t.found
            BY <3>8, <5>1, <6>1 DEF Holds
          <6>2. CASE k = Len(t.found) + 1
            <7>1. f[k].of = a /\ f[k].head = github[a].head /\ github[a].head \in Nat
              BY <1>0, <3>1, <3>6, <5>1, <6>2
            <7> QED
              BY <7>1
          <6> QED
            BY <5>1, <6>1, <6>2
        <5> QED
          BY <5>3, <5>4, <5>5, <5>6
      <4> QED
        BY <4>1, <4>2
    <3>12. clone'[c] = w
      BY <3>3 DEF w
    <3> DEFINE h == tick'[c].found
    <3>13. /\ \A k \in DOMAIN h :
                 \E j \in DOMAIN w.sessions : j < i + 1 /\ h[k].of = w.sessions[j]
           /\ \A k, m \in DOMAIN h : h[k].of = h[m].of => k = m
           /\ \A k \in DOMAIN h : Fits(w.ledger, h[k])
           /\ \A k \in DOMAIN h : h[k].head <= github[h[k].of].head
      BY <3>11
    <3>14. tick'[c].phase = "query" /\ tick'[c].next = i + 1
      BY <3>4
    <3>15. github' = github
      BY <3>3
    <3> QED
      BY <2>4, <3>12, <3>13, <3>14, <3>15 DEF Holds
  <2> QED
    BY <2>3, <2>4
<1>7. CASE WrapStep
  <2>1. PICK c \in Clones : /\ tick[c].phase = "query" /\ Wrapped(c)
                            /\ UNCHANGED <<github, origin, clone>>
    BY <1>7 DEF WrapStep
  <2>2. CASE d # c
    BY <1>1, <1>4, <2>1, <2>2 DEF Wrapped
  <2>3. CASE d = c /\ tick'[c] # Idle
    <3>1. /\ tick'[c].phase = "append" /\ tick'[c].found = tick[c].found
          /\ tick[c].found # <<>>
      BY <1>1, <2>1, <2>3 DEF Wrapped, Tick
    <3>2. \A k \in DOMAIN tick[c].found : Fits(clone'[c].ledger, tick[c].found[k])
      BY <1>2, <2>1 DEF Holds
    <3> QED
      BY <1>2, <2>1, <2>3, <3>1, <3>2 DEF Holds
  <2> QED
    BY <1>3, <2>2, <2>3
<1>8. CASE AppendStep
  <2>1. PICK c \in Clones, w \in BOOLEAN :
          /\ tick[c].phase = "append"
          /\ clone' = [clone EXCEPT ![c].ledger = Append(@, AsLine(Head(tick[c].found), w))]
          /\ \/ tick' = [tick EXCEPT ![c].found = Tail(@),
                           ![c].phase = IF Len(tick[c].found) = 1 THEN "commit" ELSE @]
             \/ End(c)
          /\ UNCHANGED <<github, origin>>
    BY <1>8, Zenon DEF AppendStep
  <2>2. CASE d # c
    <3>1. tick'[d] = tick[d] /\ clone'[d] = clone[d]
      BY <1>1, <2>1, <2>2 DEF End
    <3> QED
      BY <1>4, <2>1, <3>1
  <2>3. CASE d = c /\ End(c)
    BY <1>1, <1>3, <2>3 DEF End
  <2>4. CASE d = c /\ ~End(c)
    <3> DEFINE f == tick[c].found
               x == AsLine(Head(f), w)
               l == clone[c].ledger
    <3>1. /\ f \in Seq(Event) /\ f # <<>> /\ x \in Line /\ l \in Seq(Line)
      BY <1>1, <2>1, FoundHead DEF Clone
    <3>2. /\ tick'[c].found = Tail(f)
          /\ tick'[c].phase = IF Len(f) = 1 THEN "commit" ELSE "append"
      <4>1. tick[c] \in Tick /\ tick[c].phase = "append"
        BY <1>1, <2>1
      <4>2. tick' = [tick EXCEPT ![c] = [tick[c] EXCEPT !.found = Tail(f),
                       !.phase = IF Len(f) = 1 THEN "commit" ELSE tick[c].phase]]
        BY <1>1, <2>1, <2>4, <4>1 DEF Tick
      <4>3. tick'[c] = [tick[c] EXCEPT !.found = Tail(f),
                          !.phase = IF Len(f) = 1 THEN "commit" ELSE tick[c].phase]
        BY <1>1, <4>2
      <4> QED
        BY <4>1, <4>3 DEF Tick
    <3>0. clone'[c].ledger = Append(l, x)
      BY <1>1, <2>1 DEF Clone
    <3>3. x.of = f[1].of
      BY <3>1 DEF AsLine
    <3>4. Holds(github, clone[c], tick[c])
      BY <1>2
    <3> DEFINE g == Tail(f)
    <3>5. /\ DOMAIN f = 1..Len(f) /\ DOMAIN g = 1..(Len(f) - 1) /\ Len(f) \in Nat
          /\ \A k \in 1..(Len(f) - 1) : g[k] = f[k+1]
          /\ Len(f) # 1 => g # <<>>
      BY <3>1, TailOf
    <3> HIDE DEF g, x, f, l
    <3>6. ASSUME NEW k \in DOMAIN g
          PROVE  /\ g[k] = f[k+1] /\ k + 1 \in DOMAIN f /\ 1 \in DOMAIN f /\ k + 1 # 1
                 /\ k \in Int
      BY <3>5
    <3>7. ASSUME NEW k \in DOMAIN g
          PROVE  /\ Fits(Append(l, x), g[k])
                 /\ g[k].head <= github[g[k].of].head
      <4>1. Fits(l, f[k+1]) /\ f[k+1].of # f[1].of /\ f[k+1].head <= github[f[k+1].of].head
        BY <3>4, <3>6 DEF Holds, f, l
      <4>2. f[k+1] \in Event
        BY <3>1, <3>6
      <4> QED
        BY <3>1, <3>3, <3>6, <4>1, <4>2, AppendKeepsFit
    <3>8. ASSUME NEW k \in DOMAIN g, NEW m \in DOMAIN g, g[k].of = g[m].of
          PROVE  k = m
      <4>1. k + 1 = m + 1
        BY <3>4, <3>6, <3>8 DEF Holds, f
      <4> QED
        BY <3>6, <4>1
    <3>9. tick'[c].found = g /\ github' = github
      BY <2>1, <3>2 DEF g, f
    <3>10. tick'[c].phase \in {"commit", "append"}
           /\ (tick'[c].phase = "append" => g # <<>>)
      BY <3>2, <3>5 DEF f
    <3> QED
      BY <2>4, <3>0, <3>7, <3>8, <3>9, <3>10 DEF Holds
  <2> QED
    BY <2>2, <2>3, <2>4
<1>9. CASE CommitStep
  <2>1. PICK c \in Clones : CommitLedger(c)
    BY <1>9 DEF CommitStep
  <2>2. CASE d # c
    BY <1>1, <1>4, <2>1, <2>2 DEF CommitLedger
  <2>3. CASE d = c
    <3>1. /\ tick'[c].phase = "push" /\ tick'[c].found = tick[c].found
          /\ clone'[c].ledger = clone[c].ledger /\ github' = github
      BY <1>1, <2>1 DEF CommitLedger, Tick, Clone
    <3>2. \A k \in DOMAIN tick[c].found : Fits(clone'[c].ledger, tick[c].found[k])
      BY <1>2, <3>1 DEF Holds
    <3> QED
      BY <1>2, <2>3, <3>1, <3>2 DEF Holds
  <2> QED
    BY <2>2, <2>3
<1>10. CASE PushStep \/ EndStep
  <2>1. PICK c \in Clones : /\ End(c) /\ UNCHANGED github
                            /\ Pushed(c) \/ UNCHANGED clone
    BY <1>10 DEF PushStep, EndStep
  <2>2. clone'[d].ledger = clone[d].ledger /\ clone'[d].sessions = clone[d].sessions
    <3>1. CASE Pushed(c)
      BY <1>1, <3>1 DEF Pushed, Clone
    <3> QED
      BY <2>1, <3>1
  <2>3. tick'[d] = IF d = c THEN Idle ELSE tick[d]
    BY <1>1, <2>1 DEF End
  <2> QED
    BY <1>3, <1>4, <2>1, <2>2, <2>3
<1>11. CASE ArchiveStep
  <2>1. PICK a \in Artifacts : Archive(a)
    BY <1>11 DEF ArchiveStep
  <2>2. clone'[d].ledger = clone[d].ledger /\ clone'[d].sessions = clone[d].sessions
    BY <1>1, <2>1 DEF Archive, Clone
  <2> QED
    BY <1>4, <2>1, <2>2 DEF Archive
<1>12. CASE PullStep
  <2>1. PICK c \in Clones : Pull(c)
    BY <1>12 DEF PullStep
  <2>2. CASE d # c
    BY <1>1, <1>4, <2>1, <2>2 DEF Pull
  <2>3. CASE d = c
    BY <1>2, <2>1, <2>3 DEF Pull, Holds
  <2> QED
    BY <2>2, <2>3
<1>13. CASE GitHubStep
  <2>1. UNCHANGED <<clone, tick>> /\ \A a \in Artifacts : github[a].head <= github'[a].head
    BY <1>13 DEF GitHubStep
  <2> QED
    BY <1>0, <1>2, <2>1, HoldsUnchanged
<1> QED
  BY <1>5, <1>6, <1>7, <1>8, <1>9, <1>10, <1>11, <1>12, <1>13, StepCases

----------------------------------------------------------------------------
(* Prefixes.                                                               *)

(* A ledger is a prefix of itself.                                         *)
LEMMA PrefixReflexive ==
  ASSUME NEW l \in Seq(Line)
  PROVE  IsAPrefix(l, l)
  BY DEF IsAPrefix

(* A prefix of a prefix is a prefix.                                       *)
LEMMA PrefixTransitive ==
  ASSUME NEW r \in Seq(Line), NEW s \in Seq(Line), NEW l \in Seq(Line),
         IsAPrefix(r, s), IsAPrefix(s, l)
  PROVE  IsAPrefix(r, l)
<1>1. /\ Len(r) \in Nat /\ Len(s) \in Nat /\ Len(l) \in Nat
      /\ DOMAIN r = 1..Len(r) /\ DOMAIN s = 1..Len(s)
  OBVIOUS
<1> QED
  BY <1>1 DEF IsAPrefix

(* A ledger is a prefix of what it becomes by an append.                   *)
LEMMA PrefixOfAppend ==
  ASSUME NEW s \in Seq(Line), NEW l \in Seq(Line), NEW x \in Line, IsAPrefix(s, l)
  PROVE  IsAPrefix(s, Append(l, x))
<1>1. Len(s) \in Nat /\ Len(l) \in Nat /\ DOMAIN s = 1..Len(s) /\ DOMAIN l = 1..Len(l)
  OBVIOUS
<1>2. Len(Append(l, x)) = Len(l) + 1 /\ \A i \in DOMAIN l : Append(l, x)[i] = l[i]
  BY AppendedEvents
<1>3. Len(s) <= Len(l) /\ \A i \in DOMAIN s : s[i] = l[i]
  BY DEF IsAPrefix
<1> QED
  BY <1>1, <1>2, <1>3 DEF IsAPrefix

(* Commits and pushes keep the three copies in line.                       *)
LEMMA PrefixStep ==
  ASSUME IInv, Next
  PROVE  PrefixInv'
<1> USE DEF IInv
<1> DEFINE InLine(o, w) == /\ IsAPrefix(w.committed, w.ledger)
                           /\ ~w.behind => IsAPrefix(o, w.committed)
<1>1. /\ clone \in [Clones -> Clone] /\ clone' \in [Clones -> Clone]
      /\ origin \in [sessions : Seq(Artifacts), ledger : Seq(Line)]
  BY TypeStep DEF TypeOK, Clone
<1>2. \A c \in Clones : InLine(origin.ledger, clone[c])
  BY DEF PrefixInv
<1>3. IsAPrefix(origin.ledger, origin.ledger)
  BY <1>1, PrefixReflexive
<1> SUFFICES ASSUME NEW d \in Clones PROVE InLine(origin'.ledger, clone'[d])
  BY DEF PrefixInv
<1>4. clone[d] \in Clone /\ clone[d].ledger \in Seq(Line) /\ clone[d].committed \in Seq(Line)
  BY <1>1 DEF Clone
<1>5. CASE StartStep
  <2>1. PICK c \in Clones, since \in Nat, dry \in BOOLEAN : Start(c, since, dry)
    BY <1>5 DEF StartStep
  <2>2. /\ origin' = origin
        /\ clone'[d] = IF d = c THEN WorkingCopy(c) ELSE clone[d]
    BY <1>1, <2>1 DEF Start
  <2>3. InLine(origin.ledger, WorkingCopy(c))
    BY <1>2, <1>3 DEF WorkingCopy
  <2> HIDE DEF InLine
  <2> QED
    BY <1>2, <2>2, <2>3
<1>6. CASE QueryStep \/ WrapStep \/ EndStep \/ GitHubStep
  <2>1. UNCHANGED <<origin, clone>>
    BY <1>6 DEF QueryStep, Query, WrapStep, EndStep, GitHubStep
  <2> HIDE DEF InLine
  <2> QED
    BY <1>2, <2>1
<1>7. CASE AppendStep
  <2>1. PICK c \in Clones, w \in BOOLEAN :
          /\ tick[c].phase = "append"
          /\ clone' = [clone EXCEPT ![c].ledger = Append(@, AsLine(Head(tick[c].found), w))]
          /\ UNCHANGED <<github, origin>>
    BY <1>7, Zenon DEF AppendStep
  <2> DEFINE x == AsLine(Head(tick[c].found), w)
  <2>2. x \in Line
    BY <2>1, FoundHead
  <2>3. clone'[d] = IF d = c THEN [clone[d] EXCEPT !.ledger = Append(clone[d].ledger, x)]
                    ELSE clone[d]
    BY <1>1, <2>1
  <2> HIDE DEF x
  <2>4. /\ clone'[d].committed = clone[d].committed /\ clone'[d].behind = clone[d].behind
        /\ clone'[d].ledger \in {clone[d].ledger, Append(clone[d].ledger, x)}
    BY <1>4, <2>3 DEF Clone
  <2> QED
    BY <1>2, <1>4, <2>1, <2>2, <2>4, PrefixOfAppend
<1>8. CASE CommitStep
  <2>1. PICK c \in Clones : CommitLedger(c)
    BY <1>8 DEF CommitStep
  <2>2. clone'[d] = IF d = c THEN [clone[d] EXCEPT !.committed = clone[d].ledger] ELSE clone[d]
    BY <1>1, <2>1 DEF CommitLedger
  <2>3. origin' = origin
    BY <2>1 DEF CommitLedger
  <2>4. CASE d = c
    <3>1. /\ clone'[d].committed = clone[d].ledger /\ clone'[d].ledger = clone[d].ledger
          /\ clone'[d].behind = clone[d].behind
      BY <1>4, <2>2, <2>4 DEF Clone
    <3>2. ~clone[d].behind => IsAPrefix(origin.ledger, clone[d].ledger)
      BY <1>1, <1>2, <1>4, PrefixTransitive
    <3> QED
      BY <1>4, <2>3, <3>1, <3>2, PrefixReflexive
  <2> QED
    BY <1>2, <2>2, <2>3, <2>4
<1>9. CASE PushStep
  <2>1. PICK c \in Clones : Pushed(c)
    BY <1>9 DEF PushStep
  <2>2. origin'.ledger = clone[c].committed
    BY <1>1, <2>1 DEF Pushed
  <2>3. clone'[d] = [clone[d] EXCEPT !.behind = (d # c)]
    BY <2>1 DEF Pushed
  <2>4. /\ clone'[d].committed = clone[d].committed /\ clone'[d].ledger = clone[d].ledger
        /\ clone'[d].behind <=> d # c
    BY <1>4, <2>3 DEF Clone
  <2> QED
    BY <1>2, <1>4, <2>2, <2>4, PrefixReflexive
<1>10. CASE ArchiveStep
  <2>1. PICK a \in Artifacts : Archive(a)
    BY <1>10 DEF ArchiveStep
  <2>2. clone'[d] = [clone[d] EXCEPT !.behind = TRUE]
    BY <2>1 DEF Archive
  <2>3. /\ clone'[d].committed = clone[d].committed /\ clone'[d].ledger = clone[d].ledger
        /\ clone'[d].behind
    BY <1>4, <2>2 DEF Clone
  <2> QED
    BY <1>2, <2>3
<1>11. CASE PullStep
  <2>1. PICK c \in Clones : Pull(c)
    BY <1>11 DEF PullStep
  <2>2. /\ origin' = origin
        /\ d # c => clone'[d] = clone[d]
        /\ d = c => clone'[d].committed = origin.ledger /\ clone'[d].ledger = origin.ledger
    BY <1>1, <2>1 DEF Pull
  <2> QED
    BY <1>2, <1>3, <2>2
<1> QED
  BY <1>5, <1>6, <1>7, <1>8, <1>9, <1>10, <1>11, StepCases

----------------------------------------------------------------------------
(* The theorems.                                                           *)

(* Empty ledgers and no invocation satisfy the invariant.                  *)
LEMMA InitIInv == Init => IInv
<1> SUFFICES ASSUME Init PROVE IInv
  OBVIOUS
<1>1. TypeOK
  BY DEF Init, TypeOK, Object, Idle, Phases
<1>2. LedgerOK(<<>>) /\ Seen(<<>>) /\ NoRepetition(<<>>) /\ IsAPrefix(<<>>, <<>>)
  BY DEF LedgerOK, NothingAfterEnd, OpensFirst, ReportedOnce, HeadsAdvance, Seen,
         NoRepetition, IsAPrefix
<1>3. FoundInv
  BY DEF Init, FoundInv, Holds, Idle
<1> QED
  BY <1>1, <1>2, <1>3 DEF Init, IInv, SessionsInv, LedgersInv, PrefixInv

(* A step that changes no variable keeps the invariant.                    *)
LEMMA StutterIInv ==
  ASSUME IInv, UNCHANGED vars
  PROVE  IInv'
  BY DEF vars, IInv, TypeOK, SessionsInv, LedgersInv, FoundInv, PrefixInv, Seen

(* The invariant is inductive.                                             *)
THEOREM MaintainInductive == Spec => []IInv
<1>1. IInv /\ [Next]_vars => IInv'
  BY TypeStep, SessionsStep, LedgersStep, FoundStep, PrefixStep, StutterIInv DEF IInv
<1> QED
  BY InitIInv, <1>1, PTL DEF Spec

(* Type correctness of maintain, its ledgers and what it sees of GitHub.   *)
THEOREM MaintainTypes == Spec => []TypeOK
<1>1. IInv => TypeOK
  BY DEF IInv
<1> QED
  BY <1>1, MaintainInductive, PTL

(* In every copy of maintain.jsonl each artifact's events are one          *)
(* lifecycle, for any number of clones, artifacts and faults               *)
(* (derive_pr_event against project_events).                               *)
THEOREM LedgerLifecycles == Spec => []LedgerIsALifecycle
<1>1. IInv => LedgerIsALifecycle
  BY DEF IInv, LedgersInv, LedgerIsALifecycle, Ledgers
<1> QED
  BY <1>1, MaintainInductive, PTL

(* maintain.jsonl on origin is append-only: no push takes an event back    *)
(* (commit_and_push never forces).                                         *)
THEOREM OriginAppendOnly == Spec => OriginOnlyGrows
<1>1. IInv /\ [Next]_vars => [IsAPrefix(origin.ledger, origin'.ledger)]_vars
  <2> SUFFICES ASSUME IInv, Next PROVE IsAPrefix(origin.ledger, origin'.ledger)
    OBVIOUS
  <2> USE DEF IInv
  <2>1. origin \in [sessions : Seq(Artifacts), ledger : Seq(Line)]
    BY DEF TypeOK
  <2>2. IsAPrefix(origin.ledger, origin.ledger)
    BY <2>1, PrefixReflexive
  <2>3. CASE PushStep
    <3>1. PICK c \in Clones : ~clone[c].behind /\ Pushed(c)
      BY <2>3 DEF PushStep
    <3>2. origin'.ledger = clone[c].committed
      BY <2>1, <3>1 DEF Pushed
    <3> QED
      BY <3>1, <3>2 DEF PrefixInv
  <2>4. CASE ArchiveStep
    BY <2>1, <2>2, <2>4 DEF ArchiveStep, Archive
  <2>5. CASE ~(PushStep \/ ArchiveStep)
    <3>1. origin' = origin
      BY <2>5, StepCases DEF StartStep, Start, QueryStep, Query, WrapStep, AppendStep,
         CommitStep, CommitLedger, EndStep, PullStep, Pull, GitHubStep
    <3> QED
      BY <2>2, <3>1
  <2> QED
    BY <2>3, <2>4, <2>5
<1> QED
  BY <1>1, MaintainInductive, PTL DEF Spec, OriginOnlyGrows

----------------------------------------------------------------------------
(* The ledger of one clone tells lives.                                    *)

(* What a step does to the events that an invocation holds and to the      *)
(* ledger they were found against: nothing is held, nothing changed, one   *)
(* answer was added, or the first event was written.                       *)
FoundSame(d) == tick'[d].found = tick[d].found /\ clone'[d].ledger = clone[d].ledger
FoundMore(d) ==
  \E a \in Artifacts :
    /\ News(clone[d].ledger, a) # None /\ ~Terminal(clone[d].ledger, a)
    /\ tick'[d].found = Append(tick[d].found, [of |-> a, kind |-> News(clone[d].ledger, a),
                                               head |-> github[a].head])
    /\ clone'[d].ledger = clone[d].ledger
FirstWritten(d) ==
  /\ tick[d].phase = "append"
  /\ \E w \in BOOLEAN :
       clone'[d].ledger = Append(clone[d].ledger, AsLine(Head(tick[d].found), w))

LEMMA FoundCases ==
  ASSUME IInv, Next, NEW d \in Clones
  PROVE  \/ tick'[d].found = <<>> \/ FoundSame(d) \/ FoundMore(d)
         \/ FirstWritten(d) /\ tick'[d].found = Tail(tick[d].found)
<1> USE DEF IInv
<1>1. /\ clone \in [Clones -> Clone] /\ tick \in [Clones -> Tick]
      /\ clone[d] \in Clone /\ tick[d] \in Tick
  BY DEF TypeOK, Clone, Tick
<1>2. Idle.found = <<>>
  BY DEF Idle
<1>3. CASE StartStep
  <2>1. PICK c \in Clones, since \in Nat, dry \in BOOLEAN : Start(c, since, dry)
    BY <1>3 DEF StartStep
  <2>2. CASE d = c
    <3> DEFINE t == [Idle EXCEPT !.phase = "query", !.dry = dry, !.since = since]
    <3>1. t.found = <<>>
      BY DEF Idle
    <3>2. tick' = [tick EXCEPT ![c] = t] \/ tick' = tick
      BY <2>1 DEF Start
    <3>3. tick[c].found = <<>>
      BY <2>1 DEF Start, FoundInv, Holds
    <3> HIDE DEF t
    <3> QED
      BY <1>1, <2>2, <3>1, <3>2, <3>3
  <2>3. CASE d # c
    BY <1>1, <2>1, <2>3 DEF Start, FoundSame
  <2> QED
    BY <2>2, <2>3
<1>4. CASE QueryStep
  <2>1. PICK c \in Clones : \E i \in DOMAIN clone[c].sessions : Query(c, i)
    BY <1>4 DEF QueryStep
  <2>2. PICK i \in DOMAIN clone[c].sessions : Query(c, i)
    BY <2>1
  <2>3. CASE d # c
    BY <1>1, <2>2, <2>3 DEF Query, FoundSame
  <2>4. CASE d = c
    <3> DEFINE a == clone[c].sessions[i]
               news == News(clone[c].ledger, a)
               e == [of |-> a, kind |-> news, head |-> github[a].head]
    <3>1. clone[c].sessions \in Seq(Artifacts)
      BY <1>1, <2>4 DEF Clone
    <3>2. a \in Artifacts
      BY <2>2, <3>1
    <3>3. ~Terminal(clone[c].ledger, a) /\ clone' = clone
      BY <2>2 DEF Query, NextPending, Pending
    <3>4. tick'[c].found = IF news = None THEN tick[c].found ELSE Append(tick[c].found, e)
      BY <1>1, <2>2, <2>4 DEF Query, Tick
    <3>5. CASE news = None
      BY <2>4, <3>3, <3>4, <3>5 DEF FoundSame
    <3>6. CASE news # None
      <4>1. tick'[d].found = Append(tick[d].found, e) /\ clone'[d].ledger = clone[d].ledger
        BY <2>4, <3>3, <3>4, <3>6
      <4> QED
        BY <2>4, <3>2, <3>3, <3>6, <4>1 DEF FoundMore
    <3> QED
      BY <3>5, <3>6
  <2> QED
    BY <2>3, <2>4
<1>5. CASE WrapStep
  <2>1. PICK c \in Clones : Wrapped(c) /\ UNCHANGED clone
    BY <1>5 DEF WrapStep
  <2>2. tick'[d] = tick[d] \/ tick'[d] = Idle \/ tick'[d] = [tick[d] EXCEPT !.phase = "append"]
    BY <1>1, <2>1 DEF Wrapped
  <2>3. tick'[d].found = tick[d].found \/ tick'[d].found = <<>>
    BY <1>1, <1>2, <2>2 DEF Tick
  <2> QED
    BY <2>1, <2>3 DEF FoundSame
<1>6. CASE AppendStep
  <2>1. PICK c \in Clones, w \in BOOLEAN :
          /\ tick[c].phase = "append"
          /\ clone' = [clone EXCEPT ![c].ledger = Append(@, AsLine(Head(tick[c].found), w))]
          /\ \/ tick' = [tick EXCEPT ![c].found = Tail(@),
                           ![c].phase = IF Len(tick[c].found) = 1 THEN "commit" ELSE @]
             \/ End(c)
    BY <1>6, Zenon DEF AppendStep
  <2>2. CASE d # c
    BY <1>1, <2>1, <2>2 DEF End, FoundSame
  <2>3. CASE d = c /\ End(c)
    BY <1>1, <1>2, <2>3 DEF End
  <2>4. CASE d = c /\ ~End(c)
    <3>1. tick'[c].found = Tail(tick[c].found)
      BY <1>1, <2>1, <2>4 DEF Tick
    <3>2. clone'[c].ledger = Append(clone[c].ledger, AsLine(Head(tick[c].found), w))
      BY <1>1, <2>1, <2>4 DEF Clone
    <3> QED
      BY <2>1, <2>4, <3>1, <3>2 DEF FirstWritten
  <2> QED
    BY <2>2, <2>3, <2>4
<1>7. CASE CommitStep
  <2>1. PICK c \in Clones : CommitLedger(c)
    BY <1>7 DEF CommitStep
  <2> QED
    BY <1>1, <2>1 DEF CommitLedger, FoundSame, Tick, Clone
<1>8. CASE PushStep \/ EndStep
  <2>1. PICK c \in Clones : End(c) /\ (Pushed(c) \/ UNCHANGED clone)
    BY <1>8 DEF PushStep, EndStep
  <2>2. clone'[d].ledger = clone[d].ledger
    BY <1>1, <2>1 DEF Pushed, Clone
  <2>3. tick'[d] = IF d = c THEN Idle ELSE tick[d]
    BY <1>1, <2>1 DEF End
  <2> QED
    BY <1>2, <2>2, <2>3 DEF FoundSame
<1>9. CASE ArchiveStep
  BY <1>1, <1>9 DEF ArchiveStep, Archive, FoundSame, Clone
<1>10. CASE PullStep
  <2>1. PICK c \in Clones : Pull(c)
    BY <1>10 DEF PullStep
  <2>2. tick' = tick
    BY <2>1 DEF Pull
  <2>3. CASE d = c
    BY <2>1, <2>2, <2>3 DEF Pull, FoundInv, Holds
  <2>4. CASE d # c
    BY <1>1, <2>1, <2>2, <2>4 DEF Pull, FoundSame
  <2> QED
    BY <2>3, <2>4
<1>11. CASE GitHubStep
  BY <1>11 DEF GitHubStep, FoundSame
<1> QED
  BY <1>3, <1>4, <1>5, <1>6, <1>7, <1>8, <1>9, <1>10, <1>11, StepCases

(* The projection of an artifact does not see lines about others.          *)
LEMMA OthersUnseen ==
  ASSUME NEW l \in Seq(Line), NEW x \in Line, NEW a,
         x.of # a \/ ~Readable(Append(l, x), Len(l) + 1)
  PROVE  /\ EventsOf(Append(l, x), a) = EventsOf(l, a)
         /\ LastOf(Append(l, x), a) = LastOf(l, a)
         /\ \A i \in EventsOf(l, a) : Append(l, x)[i] = l[i]
         /\ Known(l, a) => LastOf(l, a) \in EventsOf(l, a)
<1>1. \A i \in EventsOf(Append(l, x), a) : i \in EventsOf(l, a)
  BY AppendedEvents DEF EventsOf
<1>2. EventsOf(Append(l, x), a) = EventsOf(l, a)
  BY <1>1, AppendedEvents
<1>3. \A i \in EventsOf(l, a) : Append(l, x)[i] = l[i]
  BY AppendedEvents DEF EventsOf
<1> QED
  BY <1>2, <1>3, LastOfIsLast DEF LastOf

(* Hence neither does what is told of it.                                  *)
LEMMA OthersUntold ==
  ASSUME NEW l \in Seq(Line), NEW x \in Line, NEW a,
         x.of # a \/ ~Readable(Append(l, x), Len(l) + 1)
  PROVE  /\ Known(Append(l, x), a) <=> Known(l, a)
         /\ Terminal(Append(l, x), a) <=> Terminal(l, a)
         /\ Known(l, a) => HeadSha(Append(l, x), a) = HeadSha(l, a)
         /\ \A k : ReportedSincePush(Append(l, x), a, k) <=> ReportedSincePush(l, a, k)
<1> DEFINE m == Append(l, x)
<1>0. /\ EventsOf(m, a) = EventsOf(l, a) /\ LastOf(m, a) = LastOf(l, a)
      /\ \A i \in EventsOf(l, a) : m[i] = l[i]
      /\ Known(l, a) => LastOf(l, a) \in EventsOf(l, a)
  BY OthersUnseen
<1> HIDE DEF m
<1>1. Known(m, a) <=> Known(l, a)
  BY <1>0 DEF Known
<1>2. Known(l, a) => m[LastOf(m, a)] = l[LastOf(l, a)]
  BY <1>0
<1>3. \A k : ReportedSincePush(m, a, k) <=> ReportedSincePush(l, a, k)
  BY <1>0 DEF ReportedSincePush
<1>4. Terminal(m, a) <=> Terminal(l, a)
  BY <1>1, <1>2 DEF Terminal
<1>5. Known(l, a) => HeadSha(m, a) = HeadSha(l, a)
  BY <1>2 DEF HeadSha
<1> QED
  BY <1>1, <1>3, <1>4, <1>5 DEF m

(* What is found about a branch continues the life of the pull request.    *)
LEMMA NewsContinues ==
  ASSUME NEW l, NEW a \in Artifacts, News(l, a) # None
  PROVE  Continues(l, [of |-> a, kind |-> News(l, a), head |-> github[a].head])
<1> DEFINE e == [of |-> a, kind |-> News(l, a), head |-> github[a].head]
<1>1. e.of = a /\ e.kind = News(l, a) /\ e.head = github[a].head
  OBVIOUS
<1>2. ASSUME News(l, a) \in Life!Reports \cup {"pr_force_pushed"}
      PROVE  /\ a \in Prs /\ Known(l, a)
             /\ News(l, a) \in Life!Reports => github[a].head = HeadSha(l, a)
  BY <1>2 DEF News, PrNews, IssueNews, Life!Reports, Kinds, TerminalKinds
<1> HIDE DEF e
<1> QED
  BY <1>1, <1>2 DEF Continues, e

(* What continues a life goes on doing so when others' lines are appended. *)
LEMMA AppendKeepsContinues ==
  ASSUME NEW l \in Seq(Line), NEW x \in Line, NEW e, x.of # e.of, Continues(l, e)
  PROVE  Continues(Append(l, x), e)
<1>1. /\ Known(Append(l, x), e.of) <=> Known(l, e.of)
      /\ Known(l, e.of) => HeadSha(Append(l, x), e.of) = HeadSha(l, e.of)
  BY OthersUntold
<1> QED
  BY <1>1 DEF Continues

LEMMA LivesStep ==
  ASSUME IInv, LivesInv, Next
  PROVE  LivesInv'
<1> USE DEF IInv
<1> SUFFICES ASSUME NEW d \in Clones
             PROVE  \A k \in DOMAIN tick'[d].found :
                      Continues(clone'[d].ledger, tick'[d].found[k])
  BY DEF LivesInv, Continues, Life!Reports
<1> DEFINE f == tick[d].found
           l == clone[d].ledger
<1>1. f \in Seq(Event) /\ l \in Seq(Line)
  BY DEF TypeOK
<1>2. \A k \in DOMAIN f : Continues(l, f[k])
  BY DEF LivesInv
<1> HIDE DEF f, l
<1>3. CASE tick'[d].found = <<>>
  BY <1>3
<1>4. CASE FoundSame(d)
  <2>1. tick'[d].found = f /\ clone'[d].ledger = l
    BY <1>4 DEF FoundSame, f, l
  <2> QED
    BY <1>2, <2>1
<1>5. CASE FoundMore(d)
  <2>1. PICK a \in Artifacts :
          /\ News(l, a) # None /\ ~Terminal(l, a)
          /\ tick'[d].found = Append(f, [of |-> a, kind |-> News(l, a), head |-> github[a].head])
          /\ clone'[d].ledger = l
    BY <1>5 DEF FoundMore, f, l
  <2> DEFINE e == [of |-> a, kind |-> News(l, a), head |-> github[a].head]
             g == tick'[d].found
  <2>2. Continues(l, e)
    BY <2>1, NewsContinues
  <2>3. g = Append(f, e)
    BY <2>1
  <2>4. LedgerOK(l) /\ Seen(l)
    BY DEF LedgersInv, l
  <2>5. e \in Event
    BY <1>1, <2>1, <2>4, NewsFits
  <2> HIDE DEF e, g
  <2>6. \A k \in DOMAIN g : (k \in DOMAIN f /\ g[k] = f[k]) \/ g[k] = e
    BY <1>1, <2>3, <2>5
  <2>7. \A k \in DOMAIN g : Continues(l, g[k])
    BY <1>2, <2>2, <2>6
  <2> QED
    BY <2>1, <2>7 DEF g
<1>6. CASE FirstWritten(d) /\ tick'[d].found = Tail(tick[d].found)
  <2>1. PICK w \in BOOLEAN : clone'[d].ledger = Append(l, AsLine(Head(f), w))
    BY <1>6 DEF FirstWritten, f, l
  <2> DEFINE x == AsLine(Head(f), w)
             g == Tail(f)
  <2>2. f # <<>> /\ x \in Line
    BY <1>6, FoundHead DEF FirstWritten, f
  <2>3. x.of = f[1].of
    BY <1>1, <2>2 DEF AsLine
  <2>4. /\ DOMAIN f = 1..Len(f) /\ DOMAIN g = 1..(Len(f) - 1) /\ Len(f) \in Nat
        /\ \A k \in 1..(Len(f) - 1) : g[k] = f[k+1]
    BY <1>1, <2>2, TailOf
  <2>5. \A k, m \in DOMAIN f : f[k].of = f[m].of => k = m
    BY DEF FoundInv, Holds, f
  <2> HIDE DEF x, g
  <2>6. ASSUME NEW k \in DOMAIN g
        PROVE  Continues(Append(l, x), g[k])
    <3>1. g[k] = f[k+1] /\ k + 1 \in DOMAIN f /\ 1 \in DOMAIN f /\ k + 1 # 1
      BY <2>4
    <3>2. f[k+1].of # x.of /\ Continues(l, f[k+1])
      BY <1>2, <2>3, <2>5, <3>1
    <3> QED
      BY <1>1, <2>2, <3>1, <3>2, AppendKeepsContinues
  <2> QED
    BY <1>6, <2>1, <2>6 DEF x, g, f
<1> QED
  BY <1>3, <1>4, <1>5, <1>6, FoundCases

(* With one clone, what is on origin is a prefix of what it has committed. *)
LEMMA SoleWriterStep ==
  ASSUME IInv, SoleWriter, Next, NEW h, Clones = {h}
  PROVE  SoleWriter'
<1> USE DEF IInv
<1>1. /\ clone \in [Clones -> Clone] /\ clone' \in [Clones -> Clone]
      /\ origin \in [sessions : Seq(Artifacts), ledger : Seq(Line)] /\ h \in Clones
  BY TypeStep DEF TypeOK, Clone
<1>2. clone[h] \in Clone /\ clone[h].ledger \in Seq(Line) /\ clone[h].committed \in Seq(Line)
  BY <1>1 DEF Clone
<1>3. /\ IsAPrefix(origin.ledger, clone[h].committed)
      /\ IsAPrefix(clone[h].committed, clone[h].ledger)
  BY <1>1 DEF SoleWriter, PrefixInv
<1>4. /\ \A l \in Seq(Line) : IsAPrefix(l, l)
      /\ IsAPrefix(origin.ledger, clone[h].ledger)
  BY <1>1, <1>2, <1>3, PrefixReflexive, PrefixTransitive
<1> SUFFICES IsAPrefix(origin'.ledger, clone'[h].committed)
  BY DEF SoleWriter
<1>5. ASSUME NEW o \in Seq(Line), origin'.ledger = o,
             o = origin.ledger \/ o = clone[h].committed,
             clone'[h].committed \in {clone[h].committed, clone[h].ledger, o}
      PROVE  IsAPrefix(origin'.ledger, clone'[h].committed)
  BY <1>2, <1>3, <1>4, <1>5
<1>6. CASE StartStep
  BY <1>1, <1>2, <1>5, <1>6 DEF StartStep, Start, WorkingCopy
<1>7. CASE QueryStep \/ WrapStep \/ EndStep \/ GitHubStep
  <2>1. UNCHANGED <<origin, clone>>
    BY <1>7 DEF QueryStep, Query, WrapStep, EndStep, GitHubStep
  <2> QED
    BY <1>1, <1>5, <2>1
<1>8. CASE AppendStep
  <2>1. PICK c \in Clones, w \in BOOLEAN :
          /\ clone' = [clone EXCEPT ![c].ledger = Append(@, AsLine(Head(tick[c].found), w))]
          /\ UNCHANGED origin
    BY <1>8, Zenon DEF AppendStep
  <2>2. c = h
    OBVIOUS
  <2>3. clone'[h].committed = clone[h].committed
    BY <1>1, <1>2, <2>1, <2>2 DEF Clone
  <2> QED
    BY <1>1, <1>5, <2>1, <2>3
<1>9. CASE CommitStep
  BY <1>1, <1>2, <1>5, <1>9 DEF CommitStep, CommitLedger, Clone
<1>10. CASE PushStep
  <2>1. Pushed(h)
    BY <1>10 DEF PushStep
  <2>2. origin'.ledger = clone[h].committed
    BY <1>1, <2>1 DEF Pushed
  <2>3. clone'[h].committed = clone[h].committed
    BY <1>1, <1>2, <2>1 DEF Pushed, Clone
  <2> QED
    BY <1>2, <1>5, <2>2, <2>3
<1>11. CASE ArchiveStep
  <2>1. PICK a \in Artifacts : Archive(a)
    BY <1>11 DEF ArchiveStep
  <2>2. origin'.ledger = origin.ledger
    BY <1>1, <2>1 DEF Archive
  <2>3. clone'[h].committed = clone[h].committed
    BY <1>1, <1>2, <2>1 DEF Archive, Clone
  <2> QED
    BY <1>1, <1>5, <2>2, <2>3
<1>12. CASE PullStep
  BY <1>1, <1>2, <1>5, <1>12 DEF PullStep, Pull
<1> QED
  BY <1>6, <1>7, <1>8, <1>9, <1>10, <1>11, <1>12, StepCases

----------------------------------------------------------------------------
(* An append, seen as a step of the life of the artifact it is about.      *)
SameLife(l, m, a) ==
  /\ Told(m, a) = Told(l, a) /\ HeadTold(m, a) = HeadTold(l, a)
  /\ ReportsTold(m, a) = ReportsTold(l, a)
Begins(l, m, a) ==
  /\ Told(l, a) = "unseen" /\ Told(m, a) = "open"
  /\ ReportsTold(m, a) = ReportsTold(l, a)
IsReported(l, m, a, k) ==
  /\ Told(l, a) = "open" /\ Told(m, a) = "open" /\ k \notin ReportsTold(l, a)
  /\ ReportsTold(m, a) = ReportsTold(l, a) \cup {k} /\ HeadTold(m, a) = HeadTold(l, a)
Moves(l, m, a) ==
  /\ Told(l, a) = "open" /\ Told(m, a) = "open"
  /\ HeadTold(m, a) > HeadTold(l, a) /\ ReportsTold(m, a) = {}
Ends(l, m, a) ==
  /\ Told(l, a) # "ended" /\ Told(m, a) = "ended"
  /\ HeadTold(m, a) >= HeadTold(l, a) /\ ReportsTold(m, a) = ReportsTold(l, a)

(* A line that cannot be read tells nothing, nor does one about another.   *)
LEMMA SilentAppend ==
  ASSUME NEW l \in Seq(Line), NEW x \in Line, NEW a,
         x.of # a \/ ~Readable(Append(l, x), Len(l) + 1)
  PROVE  SameLife(l, Append(l, x), a)
<1> DEFINE m == Append(l, x)
<1>1. /\ Known(m, a) <=> Known(l, a)
      /\ Terminal(m, a) <=> Terminal(l, a)
      /\ Known(l, a) => HeadSha(m, a) = HeadSha(l, a)
      /\ \A k : ReportedSincePush(m, a, k) <=> ReportedSincePush(l, a, k)
  BY OthersUntold
<1> HIDE DEF m
<1> QED
  BY <1>1 DEF SameLife, Told, HeadTold, ReportsTold, m

(* A readable line that fits is the next step of the life of its artifact. *)
LEMMA AppendLives ==
  ASSUME NEW l \in Seq(Line), NEW e \in Event, NEW w \in BOOLEAN,
         Fits(l, e), Continues(l, e), Readable(Append(l, AsLine(e, w)), Len(l) + 1)
  PROVE  LET m == Append(l, AsLine(e, w))
         IN  \/ Begins(l, m, e.of) \/ Ends(l, m, e.of)
             \/ e.of \in Prs /\ Moves(l, m, e.of)
             \/ e.of \in Prs /\ \E k \in Life!Reports : IsReported(l, m, e.of, k)
<1> DEFINE x == AsLine(e, w)
           m == Append(l, x)
           a == e.of
           n == Len(l) + 1
<1>1. x \in Line /\ x.of = a /\ x.kind = e.kind /\ x.head = e.head
  BY DEF AsLine, Event, Line
<1>2. /\ e.kind \in Kinds /\ e.head \in Nat
      /\ \A i \in DOMAIN l : l[i].head \in Nat /\ l[i].kind \in Kinds
      /\ DOMAIN l = 1..Len(l) /\ Len(l) \in Nat
  <2>1. \A i \in DOMAIN l : l[i] \in Line
    OBVIOUS
  <2> QED
    BY <2>1 DEF Event, Line
<1>3. /\ m \in Seq(Line) /\ Len(m) = n /\ m[n] = x
      /\ \A i \in DOMAIN l : m[i] = l[i]
      /\ EventsOf(l, a) \subseteq EventsOf(m, a)
      /\ \A i \in EventsOf(m, a) : i \in EventsOf(l, a) \/ i = n
  BY <1>1, AppendedEvents
<1>4. Readable(m, n)
  OBVIOUS
<1>5. /\ EventsOf(l, a) \subseteq DOMAIN l
      /\ \A i \in EventsOf(l, a) : i \in Nat /\ i < n
  BY <1>2 DEF EventsOf
<1>6. Fits(l, e)
  OBVIOUS
<1>a. e.kind \in Life!Reports \cup {"pr_force_pushed"} =>
         /\ a \in Prs /\ Known(l, a)
         /\ e.kind \in Life!Reports => e.head = HeadSha(l, a)
  BY DEF Continues
<1> HIDE DEF x, m, a
<1>7. EventsOf(m, a) = EventsOf(l, a) \cup {n} /\ n \in Nat
  <2>1. n \in DOMAIN m
    BY <1>2, <1>3
  <2>2. n \in EventsOf(m, a)
    BY <1>1, <1>3, <1>4, <2>1 DEF EventsOf
  <2> QED
    BY <1>2, <1>3, <2>2
<1>8. LastOf(m, a) = n /\ Known(m, a)
  <2>1. Known(m, a)
    BY <1>7 DEF Known
  <2>2. LastOf(m, a) \in EventsOf(m, a) /\ \A j \in EventsOf(m, a) : j <= LastOf(m, a)
    BY <1>3, <2>1, LastOfIsLast
  <2>3. n <= LastOf(m, a)
    BY <1>7, <2>2
  <2>4. LastOf(m, a) \in Nat /\ LastOf(m, a) <= n
    BY <1>5, <1>7, <2>2
  <2> QED
    BY <1>7, <2>1, <2>3, <2>4
<1>9. /\ HeadTold(m, a) = e.head /\ HeadSha(m, a) = e.head
      /\ Told(m, a) = IF e.kind \in TerminalKinds THEN "ended" ELSE "open"
  BY <1>1, <1>3, <1>8 DEF HeadTold, HeadSha, Told, Terminal
<1>10. /\ \A i \in EventsOf(l, a) : /\ l[i].kind \notin TerminalKinds
                                    /\ e.kind \notin {"pr_open", "issue_open"}
                                    /\ l[i].head <= e.head
                                    /\ e.kind = "pr_force_pushed" => l[i].head < e.head
  BY <1>6 DEF Fits, a
<1>11. Known(l, a) => LastOf(l, a) \in EventsOf(l, a)
  BY LastOfIsLast
<1>12. Told(l, a) = IF Known(l, a) THEN "open" ELSE "unseen"
  BY <1>10, <1>11 DEF Told, Terminal
<1>13. /\ HeadTold(l, a) \in Nat /\ HeadTold(l, a) <= e.head
       /\ Known(l, a) /\ e.kind = "pr_force_pushed" => HeadTold(l, a) < e.head
  BY <1>2, <1>5, <1>10, <1>11 DEF HeadTold, HeadSha
<1> DEFINE push == "pr_force_pushed"
<1>14. ASSUME NEW k \in Life!Reports
       PROVE  ReportedSincePush(m, a, k) <=>
                e.kind = k \/ (e.kind # push /\ ReportedSincePush(l, a, k))
  <2>1. k # push
    BY DEF Life!Reports
  <2>2. \A i \in EventsOf(l, a) : m[i] = l[i] /\ i < n /\ i \in Nat
    BY <1>3, <1>5
  <2>3. m[n].kind = e.kind
    BY <1>1, <1>3
  <2>4. ASSUME ReportedSincePush(m, a, k)
        PROVE  e.kind = k \/ (e.kind # push /\ ReportedSincePush(l, a, k))
    <3>1. PICK i \in EventsOf(m, a) :
            m[i].kind = k /\ \A j \in EventsOf(m, a) : j > i => m[j].kind # push
      BY <2>4 DEF ReportedSincePush
    <3>2. CASE i = n
      BY <2>3, <3>1, <3>2
    <3>3. CASE i \in EventsOf(l, a)
      <4>1. e.kind # push
        BY <1>7, <2>2, <2>3, <3>1, <3>3
      <4>2. l[i].kind = k /\ \A j \in EventsOf(l, a) : j > i => l[j].kind # push
        BY <1>7, <2>2, <3>1, <3>3
      <4> QED
        BY <3>3, <4>1, <4>2 DEF ReportedSincePush
    <3> QED
      BY <1>7, <3>1, <3>2, <3>3
  <2>5. ASSUME e.kind = k
        PROVE  ReportedSincePush(m, a, k)
    <3>1. n \in EventsOf(m, a) /\ m[n].kind = k
      BY <1>7, <2>3, <2>5
    <3>2. \A j \in EventsOf(m, a) : ~(j > n)
      BY <1>7, <2>2
    <3> QED
      BY <3>1, <3>2 DEF ReportedSincePush
  <2>6. ASSUME e.kind # push, ReportedSincePush(l, a, k)
        PROVE  ReportedSincePush(m, a, k)
    <3>1. PICK i \in EventsOf(l, a) :
            l[i].kind = k /\ \A j \in EventsOf(l, a) : j > i => l[j].kind # push
      BY <2>6 DEF ReportedSincePush
    <3>2. i \in EventsOf(m, a) /\ m[i].kind = k
      BY <1>7, <2>2, <3>1
    <3>3. \A j \in EventsOf(m, a) : j > i => m[j].kind # push
      BY <1>7, <2>2, <2>3, <2>6, <3>1
    <3> QED
      BY <3>2, <3>3 DEF ReportedSincePush
  <2> QED
    BY <2>4, <2>5, <2>6
<1>15. Life!Reports = {"pr_stale", "pr_branch_deleted"}
  BY DEF Life!Reports
<1>16. CASE e.kind \in TerminalKinds
  <2>1. e.kind # push /\ e.kind \notin Life!Reports
    BY <1>15, <1>16 DEF TerminalKinds
  <2>2. ReportsTold(m, a) = ReportsTold(l, a)
    BY <1>14, <1>15, <2>1 DEF ReportsTold
  <2>3. Ends(l, m, a)
    BY <1>2, <1>9, <1>12, <1>13, <1>16, <2>2 DEF Ends
  <2> QED
    BY <2>3 DEF m, x, a
<1>17. CASE e.kind \in {"pr_open", "issue_open"}
  <2>1. e.kind # push /\ e.kind \notin Life!Reports /\ e.kind \notin TerminalKinds
    BY <1>15, <1>17 DEF TerminalKinds
  <2>2. ReportsTold(m, a) = ReportsTold(l, a)
    BY <1>14, <1>15, <2>1 DEF ReportsTold
  <2>3. ~Known(l, a)
    BY <1>10, <1>11, <1>17
  <2>4. Begins(l, m, a)
    BY <1>9, <1>12, <2>1, <2>2, <2>3 DEF Begins
  <2> QED
    BY <2>4 DEF m, x, a
<1>18. CASE e.kind = push
  <2>1. a \in Prs /\ Known(l, a) /\ e.kind \notin TerminalKinds /\ e.kind \notin Life!Reports
    BY <1>15, <1>18, <1>a DEF TerminalKinds
  <2>2. ReportsTold(m, a) = {}
    BY <1>14, <1>15, <1>18, <2>1 DEF ReportsTold
  <2>3. Moves(l, m, a)
    BY <1>2, <1>9, <1>12, <1>13, <1>18, <2>1, <2>2 DEF Moves
  <2> QED
    BY <2>1, <2>3 DEF m, x, a
<1>19. CASE e.kind \in Life!Reports
  <2>1. /\ a \in Prs /\ Known(l, a) /\ e.head = HeadSha(l, a)
        /\ e.kind \notin TerminalKinds /\ e.kind # push
    BY <1>15, <1>19, <1>a DEF TerminalKinds
  <2>2. ~ReportedSincePush(l, a, e.kind)
    <3>1. \A i \in EventsOf(l, a) : l[i].kind = e.kind
            => \E j \in EventsOf(l, a) : j > i /\ l[j].kind = push
      BY <1>6, <1>15, <1>19 DEF Fits, a
    <3> QED
      BY <3>1 DEF ReportedSincePush
  <2>3. e.kind \notin ReportsTold(l, a) /\ ReportsTold(m, a) = ReportsTold(l, a) \cup {e.kind}
    BY <1>14, <1>15, <1>19, <2>1, <2>2 DEF ReportsTold
  <2>4. HeadTold(l, a) = e.head
    BY <2>1 DEF HeadTold
  <2>5. IsReported(l, m, a, e.kind)
    BY <1>9, <1>12, <2>1, <2>3, <2>4 DEF IsReported
  <2> QED
    BY <1>19, <2>1, <2>5 DEF m, x, a
<1> QED
  BY <1>2, <1>15, <1>16, <1>17, <1>18, <1>19 DEF Kinds

(* The ledger of the one clone only grows by what its invocation held.     *)
LEMMA SoleLedgerSteps ==
  ASSUME IInv, SoleWriter, Next, NEW h, Clones = {h}, Runners = {}
  PROVE  clone'[h].ledger = clone[h].ledger \/ FirstWritten(h)
<1> USE DEF IInv
<1>1. /\ clone \in [Clones -> Clone] /\ tick \in [Clones -> Tick]
      /\ clone[h] \in Clone /\ h \in Clones
      /\ origin.ledger \in Seq(Line) /\ clone[h].committed \in Seq(Line)
  BY DEF TypeOK, Clone, Tick
<1>2. CASE StartStep
  BY <1>1, <1>2 DEF StartStep, Start, WorkingCopy
<1>3. CASE QueryStep \/ WrapStep \/ EndStep \/ GitHubStep
  <2>1. clone' = clone
    BY <1>3 DEF QueryStep, Query, WrapStep, EndStep, GitHubStep
  <2> QED
    BY <2>1
<1>4. CASE AppendStep
  <2>1. PICK c \in Clones, w \in BOOLEAN :
          /\ tick[c].phase = "append"
          /\ clone' = [clone EXCEPT ![c].ledger = Append(@, AsLine(Head(tick[c].found), w))]
    BY <1>4, Zenon DEF AppendStep
  <2>2. c = h
    OBVIOUS
  <2>3. clone'[h].ledger = Append(clone[h].ledger, AsLine(Head(tick[h].found), w))
    BY <1>1, <2>1, <2>2 DEF Clone
  <2> QED
    BY <2>1, <2>2, <2>3 DEF FirstWritten
<1>5. CASE CommitStep
  BY <1>1, <1>5 DEF CommitStep, CommitLedger, Clone
<1>6. CASE PushStep
  BY <1>1, <1>6 DEF PushStep, Pushed, Clone
<1>7. CASE ArchiveStep
  <2>1. PICK a \in Artifacts : Archive(a)
    BY <1>7 DEF ArchiveStep
  <2>2. clone'[h] = [clone[h] EXCEPT !.behind = TRUE]
    BY <1>1, <2>1 DEF Archive
  <2> QED
    BY <1>1, <2>2 DEF Clone
<1>8. CASE PullStep
  <2>1. Pull(h)
    BY <1>8 DEF PullStep
  <2> DEFINE o == origin.ledger
             k == clone[h].committed
  <2>2. /\ clone[h].ledger = k /\ clone'[h].ledger = o
        /\ \A i \in DOMAIN k : i \in DOMAIN o /\ o[i] = k[i]
    BY <1>1, <2>1 DEF Pull
  <2>3. IsAPrefix(o, k)
    BY <1>1 DEF SoleWriter
  <2>4. o \in Seq(Line) /\ k \in Seq(Line)
    BY <1>1
  <2> HIDE DEF o, k
  <2>5. Len(o) \in Nat /\ Len(k) \in Nat /\ DOMAIN o = 1..Len(o) /\ DOMAIN k = 1..Len(k)
    BY <2>4
  <2>6. Len(o) <= Len(k)
    BY <2>3 DEF IsAPrefix
  <2>7. Len(k) <= Len(o)
    <3>1. CASE Len(k) = 0
      BY <2>5, <3>1
    <3>2. CASE Len(k) # 0
      <4>1. Len(k) \in DOMAIN k
        BY <2>5, <3>2
      <4>2. Len(k) \in 1..Len(o)
        BY <2>2, <2>5, <4>1
      <4> QED
        BY <2>5, <4>2
    <3> QED
      BY <3>1, <3>2
  <2>8. Len(o) = Len(k)
    <3>1. Len(o) \in Int /\ Len(k) \in Int
      BY <2>5
    <3>2. \A p, q \in Int : p <= q /\ q <= p => p = q
      OBVIOUS
    <3> QED
      BY <2>6, <2>7, <3>1, <3>2
  <2>9. o = k
    <3>1. \A i \in 1..Len(o) : o[i] = k[i]
      BY <2>2, <2>5, <2>8
    <3> QED
      BY <2>4, <2>8, <3>1, SeqEqual
  <2> QED
    BY <2>2, <2>9
<1> QED
  BY <1>2, <1>3, <1>4, <1>5, <1>6, <1>7, <1>8, StepCases

(* A life step of one artifact, with the others as they were, is a step of *)
(* the lifecycles.                                                         *)
LEMMA LifeStep ==
  ASSUME IInv, LivesInv, SoleWriter, Next, NEW h, Clones = {h}, Runners = {}
  PROVE  \/ \A a \in Artifacts : SameLife(clone[h].ledger, clone'[h].ledger, a)
         \/ \E a \in Artifacts :
              /\ \A b \in Artifacts \ {a} : SameLife(clone[h].ledger, clone'[h].ledger, b)
              /\ \/ Begins(clone[h].ledger, clone'[h].ledger, a)
                 \/ Ends(clone[h].ledger, clone'[h].ledger, a)
                 \/ a \in Prs /\ Moves(clone[h].ledger, clone'[h].ledger, a)
                 \/ a \in Prs /\ \E k \in Life!Reports :
                                   IsReported(clone[h].ledger, clone'[h].ledger, a, k)
<1> USE DEF IInv
<1> DEFINE l == clone[h].ledger
           m == clone'[h].ledger
           e == Head(tick[h].found)
<1>1. l \in Seq(Line) /\ tick[h].found \in Seq(Event) /\ h \in Clones
  BY DEF TypeOK
<1>2. CASE m = l
  BY <1>2 DEF SameLife
<1>3. CASE FirstWritten(h)
  <2>1. PICK w \in BOOLEAN : m = Append(l, AsLine(e, w))
    BY <1>3 DEF FirstWritten
  <2>2. e \in Event /\ tick[h].found # <<>> /\ AsLine(e, w) \in Line
    BY <1>1, <1>3, FoundHead DEF FirstWritten
  <2>3. 1 \in DOMAIN tick[h].found /\ e = tick[h].found[1]
    BY <1>1, <2>2
  <2>4. Fits(l, e) /\ Continues(l, e)
    BY <1>1, <2>3 DEF FoundInv, Holds, LivesInv
  <2>5. AsLine(e, w).of = e.of /\ e.of \in Artifacts
    BY <2>2 DEF AsLine, Event
  <2> HIDE DEF l, m, e
  <2>6. \A b \in Artifacts \ {e.of} : SameLife(l, m, b)
    BY <1>1, <2>1, <2>2, <2>5, SilentAppend
  <2>7. CASE ~Readable(m, Len(l) + 1)
    <3>1. SameLife(l, m, e.of)
      BY <1>1, <2>1, <2>2, <2>7, SilentAppend
    <3> QED
      BY <2>6, <3>1 DEF l, m
  <2>8. CASE Readable(m, Len(l) + 1)
    <3>1. \/ Begins(l, m, e.of) \/ Ends(l, m, e.of)
          \/ e.of \in Prs /\ Moves(l, m, e.of)
          \/ e.of \in Prs /\ \E k \in Life!Reports : IsReported(l, m, e.of, k)
      BY <1>1, <2>1, <2>2, <2>4, <2>8, AppendLives
    <3> QED
      BY <2>5, <2>6, <3>1 DEF l, m
  <2> QED
    BY <2>7, <2>8
<1> QED
  BY <1>2, <1>3, SoleLedgerSteps

(* One artifact's step is a step of Lifecycle under the mapping.           *)
LEMMA LifeStepIsNext ==
  ASSUME IInv, LivesInv, SoleWriter, Next, NEW h, Clones = {h}, Runners = {}
  PROVE  [Life!Next]_<<[a \in Artifacts |-> Told(clone[Home].ledger, a)],
                       [a \in Artifacts |-> HeadTold(clone[Home].ledger, a)],
                       [a \in Artifacts |-> ReportsTold(clone[Home].ledger, a)]>>
<1> DEFINE l == clone[h].ledger
           m == clone'[h].ledger
           stage == [a \in Artifacts |-> Told(l, a)]
           head == [a \in Artifacts |-> HeadTold(l, a)]
           reported == [a \in Artifacts |-> ReportsTold(l, a)]
           stage1 == [a \in Artifacts |-> Told(m, a)]
           head1 == [a \in Artifacts |-> HeadTold(m, a)]
           reported1 == [a \in Artifacts |-> ReportsTold(m, a)]
<1>1. Home = h
  BY DEF Home
<1>2. CASE \A a \in Artifacts : SameLife(l, m, a)
  <2>1. stage1 = stage /\ head1 = head /\ reported1 = reported
    BY <1>2 DEF SameLife
  <2> QED
    BY <1>1, <2>1
<1>3. CASE \E a \in Artifacts :
              /\ \A b \in Artifacts \ {a} : SameLife(l, m, b)
              /\ \/ Begins(l, m, a) \/ Ends(l, m, a)
                 \/ a \in Prs /\ Moves(l, m, a)
                 \/ a \in Prs /\ \E k \in Life!Reports : IsReported(l, m, a, k)
  <2>1. PICK a \in Artifacts :
              /\ \A b \in Artifacts \ {a} : SameLife(l, m, b)
              /\ \/ Begins(l, m, a) \/ Ends(l, m, a)
                 \/ a \in Prs /\ Moves(l, m, a)
                 \/ a \in Prs /\ \E k \in Life!Reports : IsReported(l, m, a, k)
    BY <1>3
  <2>2. /\ stage1 = [stage EXCEPT ![a] = Told(m, a)]
        /\ head1 = [head EXCEPT ![a] = HeadTold(m, a)]
        /\ reported1 = [reported EXCEPT ![a] = ReportsTold(m, a)]
    BY <2>1 DEF SameLife
  <2>3. /\ stage[a] = Told(l, a) /\ head[a] = HeadTold(l, a) /\ head1[a] = HeadTold(m, a)
        /\ reported[a] = ReportsTold(l, a)
    OBVIOUS
  <2>4. /\ HeadTold(m, a) = HeadTold(l, a) => head1 = head
        /\ ReportsTold(m, a) = ReportsTold(l, a) => reported1 = reported
        /\ Told(m, a) = Told(l, a) => stage1 = stage
    BY <2>2
  <2>5. CASE Begins(l, m, a)
    <3>1. Life!FirstSeen(a, head1[a])
      BY <1>1, <2>2, <2>3, <2>4, <2>5 DEF Begins, Life!FirstSeen
    <3> QED
      BY <1>1, <3>1 DEF Life!Next, Life!Artifacts
  <2>6. CASE Ends(l, m, a)
    <3>1. Life!End(a, head1[a])
      BY <1>1, <2>2, <2>3, <2>4, <2>6 DEF Ends, Life!End
    <3> QED
      BY <1>1, <3>1 DEF Life!Next, Life!Artifacts
  <2>7. CASE a \in Prs /\ Moves(l, m, a)
    <3>1. Life!BranchMoved(a, head1[a])
      BY <1>1, <2>2, <2>3, <2>4, <2>7 DEF Moves, Life!BranchMoved
    <3> QED
      BY <1>1, <2>7, <3>1 DEF Life!Next
  <2>8. CASE a \in Prs /\ \E k \in Life!Reports : IsReported(l, m, a, k)
    <3>1. PICK k \in Life!Reports : IsReported(l, m, a, k)
      BY <2>8
    <3>2. Life!Report(a, k)
      BY <1>1, <2>2, <2>3, <2>4, <3>1 DEF IsReported, Life!Report
    <3> QED
      BY <2>8, <3>2 DEF Life!Next
  <2> QED
    BY <2>1, <2>5, <2>6, <2>7, <2>8
<1> QED
  BY <1>2, <1>3, LifeStep

(* Where maintain runs in one clone only, its ledger implements the        *)
(* lifecycles: whatever fails or is cut short, each append is the next     *)
(* step in the life of the artifact it is about, or cannot be read         *)
(* (derive_pr_event, derive_issue_event, append_event, read_all).          *)
THEOREM LedgerImplementsLives ==
  ASSUME NEW h, Clones = {h}, Runners = {}
  PROVE  Spec => LedgerTellsLives
<1> DEFINE Inv == IInv /\ LivesInv /\ SoleWriter
<1>1. Init => Inv
  <2> SUFFICES ASSUME Init PROVE LivesInv /\ SoleWriter
    BY InitIInv
  <2>1. LivesInv
    BY DEF Init, LivesInv, Idle
  <2>2. SoleWriter
    BY DEF Init, SoleWriter, IsAPrefix
  <2> QED
    BY <2>1, <2>2
<1>2. Inv /\ [Next]_vars => Inv'
  <2> SUFFICES ASSUME Inv, [Next]_vars PROVE Inv'
    OBVIOUS
  <2>1. CASE Next
    <3>1. IInv'
      BY <2>1, TypeStep, SessionsStep, LedgersStep, FoundStep, PrefixStep DEF IInv
    <3> QED
      BY <2>1, <3>1, LivesStep, SoleWriterStep
  <2>2. CASE UNCHANGED vars
    <3>1. LivesInv' /\ SoleWriter'
      BY <2>2 DEF vars, LivesInv, SoleWriter, Continues, Life!Reports
    <3> QED
      BY <2>2, <3>1, StutterIInv
  <2> QED
    BY <2>1, <2>2
<1>3. Init => Life!Init
  <2> SUFFICES ASSUME Init PROVE Life!Init
    OBVIOUS
  <2>1. Home = h /\ clone[Home].ledger = <<>>
    BY DEF Home, Init
  <2>2. \A a \in Artifacts : EventsOf(<<>>, a) = {}
    BY DEF EventsOf
  <2>3. \A a \in Artifacts : /\ Told(<<>>, a) = "unseen" /\ HeadTold(<<>>, a) = 0
                             /\ ReportsTold(<<>>, a) = {}
    BY <2>2 DEF Told, HeadTold, ReportsTold, Known, ReportedSincePush
  <2> QED
    BY <2>1, <2>3 DEF Life!Init, Life!Artifacts
<1>4. Inv /\ [Next]_vars =>
        [Life!Next]_<<[a \in Artifacts |-> Told(clone[Home].ledger, a)],
                      [a \in Artifacts |-> HeadTold(clone[Home].ledger, a)],
                      [a \in Artifacts |-> ReportsTold(clone[Home].ledger, a)]>>
  <2>1. CASE Next
    BY <2>1, LifeStepIsNext
  <2>2. CASE UNCHANGED vars
    BY <2>2 DEF vars
  <2> QED
    BY <2>1, <2>2
<1> HIDE DEF Inv
<1> QED
  BY <1>1, <1>2, <1>3, <1>4, PTL DEF Spec, LedgerTellsLives, Life!Spec

----------------------------------------------------------------------------
(* What the loop of project_events computes.                               *)

(* Induction, for a set of numbers.                                        *)
LEMMA AllNumbers ==
  ASSUME NEW T \in SUBSET Nat, 0 \in T, \A n \in T : n + 1 \in T
  PROVE  T = Nat
<1> DEFINE R == OpToRel(<, Nat)
           F == Nat \ T
<1>1. IsWellFoundedOn(R, Nat)
  BY NatLessThanWellFounded
<1>2. \A y, z \in Nat : y < z => <<y, z>> \in R
  BY DEF OpToRel
<1>3. F \subseteq Nat
  OBVIOUS
<1> HIDE DEF R, F
<1>4. ASSUME F # {} PROVE FALSE
  <2>1. PICK x \in F : \A y \in F : ~ (<<y, x>> \in R)
    BY <1>1, <1>3, <1>4, WFMin
  <2>2. x \in Nat /\ x # 0
    BY DEF F
  <2>3. x - 1 \in Nat /\ x - 1 < x /\ (x - 1) + 1 = x
    BY <2>2
  <2>4. x - 1 \notin F
    BY <1>2, <2>1, <2>2, <2>3
  <2>5. x - 1 \in T
    BY <2>3, <2>4 DEF F
  <2> QED
    BY <2>1, <2>3, <2>5 DEF F
<1> QED
  BY <1>4 DEF F

(* The loop's variable has a value after every line.                       *)
Run(l, a, f, n) ==
  f = [k \in 0..n |-> IF k = 0 THEN NoProjection
                      ELSE IF k \in EventsOf(l, a) THEN Apply(f[k-1], l[k]) ELSE f[k-1]]

LEMMA LoopRuns ==
  ASSUME NEW l \in Seq(Line), NEW a
  PROVE  Run(l, a, Projection(l, a), Len(l))
<1> DEFINE T == {n \in Nat : \E f : Run(l, a, f, n)}
<1>1. 0 \in T
  <2> DEFINE f == [k \in 0..0 |-> NoProjection]
  <2>1. f = [k \in 0..0 |-> IF k = 0 THEN NoProjection
                  ELSE IF k \in EventsOf(l, a) THEN Apply(f[k-1], l[k]) ELSE f[k-1]]
    OBVIOUS
  <2>2. Run(l, a, f, 0)
    BY <2>1 DEF Run
  <2> QED
    BY <2>2
<1>2. ASSUME NEW n \in T PROVE n + 1 \in T
  <2>1. n \in Nat /\ n + 1 \in Nat /\ n + 1 # 0
    OBVIOUS
  <2>2. PICK f : Run(l, a, f, n)
    OBVIOUS
  <2> DEFINE G(p, k) == IF k = 0 THEN NoProjection
                        ELSE IF k \in EventsOf(l, a) THEN Apply(p, l[k]) ELSE p
             g == [k \in 0..(n+1) |-> IF k = n + 1 THEN G(f[n], n + 1) ELSE f[k]]
  <2>3. \A k \in 0..n : f[k] = G(f[k-1], k)
    BY <2>2 DEF Run
  <2> HIDE DEF G
  <2>4. \A k \in 0..(n+1) : g[k] = IF k = n + 1 THEN G(f[n], n + 1) ELSE f[k]
    OBVIOUS
  <2>5. ASSUME NEW k \in 0..(n+1) PROVE g[k] = G(g[k-1], k)
    <3>1. CASE k = n + 1
      <4>1. k - 1 = n /\ n \in 0..(n+1) /\ n # n + 1
        BY <2>1, <3>1
      <4>2. g[k-1] = f[n]
        BY <2>4, <4>1
      <4> QED
        BY <2>4, <3>1, <4>2
    <3>2. CASE k # n + 1 /\ k # 0
      <4>1. k \in 0..n /\ k - 1 \in 0..(n+1) /\ k - 1 # n + 1
        BY <2>1, <3>2
      <4>2. g[k-1] = f[k-1] /\ g[k] = f[k]
        BY <2>4, <3>2, <4>1
      <4> QED
        BY <2>3, <4>1, <4>2
    <3>3. CASE k = 0
      <4>1. g[0] = f[0] /\ 0 \in 0..n
        BY <2>1, <2>4, <3>3
      <4>2. \A p : G(p, 0) = NoProjection
        BY DEF G
      <4> QED
        BY <2>3, <3>3, <4>1, <4>2
    <3> QED
      BY <3>1, <3>2, <3>3
  <2>6. g = [k \in 0..(n+1) |-> G(g[k-1], k)]
    BY <2>5
  <2> HIDE DEF g
  <2>7. Run(l, a, g, n + 1)
    BY <2>6 DEF Run, G
  <2> QED
    BY <2>1, <2>7
<1>3. T = Nat
  BY <1>1, <1>2, AllNumbers
<1>4. Len(l) \in T
  BY <1>3
<1>5. PICK f : Run(l, a, f, Len(l))
  BY <1>4
<1>6. Projection(l, a) = CHOOSE g : Run(l, a, g, Len(l))
  BY DEF Projection, Run
<1> QED
  BY <1>5, <1>6

(* What the first n lines tell of an artifact.                             *)
Upto(l, a, n) == {i \in EventsOf(l, a) : i <= n}
ReportedUpto(l, a, n, k) ==
  \E i \in Upto(l, a, n) :
    l[i].kind = k /\ \A j \in Upto(l, a, n) : j > i => l[j].kind # "pr_force_pushed"
Agrees(l, a, n, p) ==
  /\ p \in [known : BOOLEAN, terminal : BOOLEAN, head : Nat, gone : BOOLEAN, stale : BOOLEAN]
  /\ p.known <=> Upto(l, a, n) # {}
  /\ Upto(l, a, n) = {} => p = NoProjection
  /\ \A i \in Upto(l, a, n) : (\A j \in Upto(l, a, n) : j <= i) =>
       (p.terminal <=> l[i].kind \in TerminalKinds) /\ p.head = l[i].head
  /\ p.gone <=> ReportedUpto(l, a, n, "pr_branch_deleted")
  /\ p.stale <=> ReportedUpto(l, a, n, "pr_stale")

(* One more event: a report holds if it is this one, or held and is not    *)
(* reset by a push.                                                        *)
LEMMA ReportedOneMore ==
  ASSUME NEW l \in Seq(Line), NEW a, NEW n \in Nat, n + 1 \in EventsOf(l, a),
         NEW k, k # "pr_force_pushed"
  PROVE  ReportedUpto(l, a, n + 1, k) <=>
           /\ l[n+1].kind # "pr_force_pushed"
           /\ ReportedUpto(l, a, n, k) \/ l[n+1].kind = k
<1> DEFINE U == Upto(l, a, n)
           V == Upto(l, a, n + 1)
           push == "pr_force_pushed"
<1>1. \A i \in EventsOf(l, a) : i \in Nat
  BY DEF EventsOf
<1>2. V = U \cup {n + 1} /\ \A i \in U : i \in Nat /\ i < n + 1
  BY <1>1 DEF Upto
<1> HIDE DEF U, V
<1>3. ASSUME NEW i \in V, l[i].kind = k, \A j \in V : j > i => l[j].kind # push
      PROVE  l[n+1].kind # push /\ (ReportedUpto(l, a, n, k) \/ l[n+1].kind = k)
  <2>1. CASE i = n + 1
    BY <1>3, <2>1
  <2>2. CASE i \in U
    <3>1. l[n+1].kind # push
      BY <1>2, <1>3, <2>2
    <3>2. \A j \in U : j > i => l[j].kind # push
      BY <1>2, <1>3
    <3> QED
      BY <1>3, <2>2, <3>1, <3>2 DEF ReportedUpto, U
  <2> QED
    BY <1>2, <2>1, <2>2
<1>4. ASSUME l[n+1].kind = k
      PROVE  ReportedUpto(l, a, n + 1, k)
  <2>1. n + 1 \in V /\ \A j \in V : ~(j > n + 1)
    BY <1>2
  <2> QED
    BY <1>4, <2>1 DEF ReportedUpto, V
<1>5. ASSUME l[n+1].kind # push, ReportedUpto(l, a, n, k)
      PROVE  ReportedUpto(l, a, n + 1, k)
  <2>1. PICK i \in U : l[i].kind = k /\ \A j \in U : j > i => l[j].kind # push
    BY <1>5 DEF ReportedUpto, U
  <2>2. i \in V /\ \A j \in V : j > i => l[j].kind # push
    BY <1>2, <1>5, <2>1
  <2> QED
    BY <2>1, <2>2 DEF ReportedUpto, V
<1>6. ReportedUpto(l, a, n + 1, k) =>
        \E i \in V : l[i].kind = k /\ \A j \in V : j > i => l[j].kind # push
  BY DEF ReportedUpto, V
<1> QED
  BY <1>3, <1>4, <1>5, <1>6

(* An event is applied as its readers expect.                              *)
LEMMA ApplyAgrees ==
  ASSUME NEW l \in Seq(Line), NEW a, NEW n \in Nat, n + 1 \in EventsOf(l, a),
         NEW p, Agrees(l, a, n, p)
  PROVE  Agrees(l, a, n + 1, Apply(p, l[n+1]))
<1> DEFINE q == Apply(p, l[n+1])
           e == l[n+1]
<1>1. e \in Line /\ e.head \in Nat
  <2>1. n + 1 \in DOMAIN l
    BY DEF EventsOf
  <2>2. e \in Line
    BY <2>1
  <2> QED
    BY <2>2 DEF Line
<1>2. /\ Upto(l, a, n + 1) # {}
      /\ n + 1 \in Upto(l, a, n + 1)
      /\ \A i \in Upto(l, a, n + 1) : i \in Nat /\ i <= n + 1
  BY DEF Upto, EventsOf
<1>3. /\ q \in [known : BOOLEAN, terminal : BOOLEAN, head : Nat, gone : BOOLEAN,
                stale : BOOLEAN]
      /\ q.known /\ q.head = e.head
      /\ q.terminal <=> e.kind \in TerminalKinds
      /\ q.gone <=> e.kind # "pr_force_pushed" /\ (p.gone \/ e.kind = "pr_branch_deleted")
      /\ q.stale <=> e.kind # "pr_force_pushed" /\ (p.stale \/ e.kind = "pr_stale")
  <2>1. /\ q.known = TRUE /\ q.head = e.head /\ q.terminal = (e.kind \in TerminalKinds)
        /\ q.gone = (e.kind # "pr_force_pushed" /\ (p.gone \/ e.kind = "pr_branch_deleted"))
        /\ q.stale = (e.kind # "pr_force_pushed" /\ (p.stale \/ e.kind = "pr_stale"))
    BY Zenon DEF Apply
  <2>2. q \in [known : BOOLEAN, terminal : BOOLEAN, head : Nat, gone : BOOLEAN,
               stale : BOOLEAN]
    BY <1>1 DEF Apply
  <2> QED
    BY <2>1, <2>2
<1> HIDE DEF q, e
<1>4. q.gone <=> ReportedUpto(l, a, n + 1, "pr_branch_deleted")
  BY <1>3, ReportedOneMore DEF Agrees, e
<1>5. q.stale <=> ReportedUpto(l, a, n + 1, "pr_stale")
  BY <1>3, ReportedOneMore DEF Agrees, e
<1>6. ASSUME NEW i \in Upto(l, a, n + 1), \A j \in Upto(l, a, n + 1) : j <= i
      PROVE  l[i] = e
  <2>1. i = n + 1
    BY <1>2, <1>6
  <2> QED
    BY <2>1 DEF e
<1>7. \A i \in Upto(l, a, n + 1) : (\A j \in Upto(l, a, n + 1) : j <= i) =>
        (q.terminal <=> l[i].kind \in TerminalKinds) /\ q.head = l[i].head
  BY <1>3, <1>6
<1> QED
  BY <1>2, <1>3, <1>4, <1>5, <1>7 DEF Agrees, q

(* A line that tells nothing of the artifact leaves its projection.        *)
LEMMA SkipAgrees ==
  ASSUME NEW l \in Seq(Line), NEW a, NEW n \in Nat, n + 1 \notin EventsOf(l, a),
         NEW p, Agrees(l, a, n, p)
  PROVE  Agrees(l, a, n + 1, p)
<1>1. \A i \in EventsOf(l, a) : i \in Nat /\ i # n + 1
  BY DEF EventsOf
<1>2. Upto(l, a, n + 1) = Upto(l, a, n)
  BY <1>1 DEF Upto
<1> QED
  BY <1>2 DEF Agrees, ReportedUpto

(* Induction over the lines: the loop computes what its readers expect.    *)
LEMMA LoopAgrees ==
  ASSUME NEW l \in Seq(Line), NEW a
  PROVE  Agrees(l, a, Len(l), Projection(l, a)[Len(l)])
<1> DEFINE f == Projection(l, a)
           T == {n \in Nat : n <= Len(l) => Agrees(l, a, n, f[n])}
<1>1. Len(l) \in Nat
  OBVIOUS
<1>2. \A k \in 0..Len(l) :
        f[k] = IF k = 0 THEN NoProjection
               ELSE IF k \in EventsOf(l, a) THEN Apply(f[k-1], l[k]) ELSE f[k-1]
  BY LoopRuns DEF Run
<1> HIDE DEF f
<1>3. 0 \in T
  <2>1. f[0] = NoProjection
    BY <1>1, <1>2
  <2>2. Upto(l, a, 0) = {}
    BY DEF Upto, EventsOf
  <2>3. NoProjection \in [known : BOOLEAN, terminal : BOOLEAN, head : Nat, gone : BOOLEAN,
                          stale : BOOLEAN]
        /\ ~NoProjection.known /\ ~NoProjection.gone /\ ~NoProjection.stale
    BY DEF NoProjection
  <2>4. Agrees(l, a, 0, NoProjection)
    BY <2>2, <2>3 DEF Agrees, ReportedUpto
  <2> QED
    BY <2>1, <2>4
<1>4. ASSUME NEW n \in T PROVE n + 1 \in T
  <2>1. SUFFICES ASSUME n + 1 <= Len(l) PROVE Agrees(l, a, n + 1, f[n+1])
    OBVIOUS
  <2>2. n \in Nat /\ n <= Len(l) /\ n + 1 \in 0..Len(l) /\ n + 1 # 0 /\ (n + 1) - 1 = n
    BY <1>1, <2>1
  <2>3. Agrees(l, a, n, f[n])
    BY <2>2
  <2>4. f[n+1] = IF n + 1 \in EventsOf(l, a) THEN Apply(f[n], l[n+1]) ELSE f[n]
    BY <1>2, <2>2
  <2> QED
    BY <2>2, <2>3, <2>4, ApplyAgrees, SkipAgrees
<1>5. T = Nat
  BY <1>3, <1>4, AllNumbers
<1>6. Len(l) \in T
  BY <1>1, <1>5
<1> QED
  BY <1>1, <1>6 DEF f

(* At the end of the ledger that is the definition by what is found.       *)
LEMMA LoopIsProjection ==
  ASSUME NEW l \in Seq(Line), NEW a
  PROVE  Projection(l, a)[Len(l)] =
           [known |-> Known(l, a), terminal |-> Terminal(l, a),
            head |-> IF Known(l, a) THEN HeadSha(l, a) ELSE 0,
            gone |-> ReportedSincePush(l, a, "pr_branch_deleted"),
            stale |-> ReportedSincePush(l, a, "pr_stale")]
<1> DEFINE p == Projection(l, a)[Len(l)]
           h == IF Known(l, a) THEN HeadSha(l, a) ELSE 0
<1>1. Agrees(l, a, Len(l), p)
  BY LoopAgrees
<1>2. Upto(l, a, Len(l)) = EventsOf(l, a)
  BY DEF Upto, EventsOf
<1> HIDE DEF p
<1>3. p \in [known : BOOLEAN, terminal : BOOLEAN, head : Nat, gone : BOOLEAN,
             stale : BOOLEAN]
  BY <1>1 DEF Agrees
<1>4. p.known <=> Known(l, a)
  BY <1>1, <1>2 DEF Agrees, Known
<1>5. (p.terminal <=> Terminal(l, a)) /\ p.head = h
  <2>1. CASE Known(l, a)
    <3>1. LastOf(l, a) \in EventsOf(l, a) /\ \A j \in EventsOf(l, a) : j <= LastOf(l, a)
      BY <2>1, LastOfIsLast
    <3>2. /\ p.terminal <=> l[LastOf(l, a)].kind \in TerminalKinds
          /\ p.head = l[LastOf(l, a)].head
      BY <1>1, <1>2, <3>1 DEF Agrees
    <3> QED
      BY <2>1, <3>2 DEF Terminal, HeadSha
  <2>2. CASE ~Known(l, a)
    <3>1. p = NoProjection
      BY <1>1, <1>2, <2>2 DEF Agrees, Known
    <3>2. ~p.terminal /\ p.head = 0
      BY <3>1 DEF NoProjection
    <3> QED
      BY <2>2, <3>2 DEF Terminal
  <2> QED
    BY <2>1, <2>2
<1>6. /\ p.gone <=> ReportedSincePush(l, a, "pr_branch_deleted")
      /\ p.stale <=> ReportedSincePush(l, a, "pr_stale")
  BY <1>1, <1>2 DEF Agrees, ReportedUpto, ReportedSincePush
<1> HIDE DEF h
<1>7. /\ Known(l, a) \in BOOLEAN /\ Terminal(l, a) \in BOOLEAN
      /\ ReportedSincePush(l, a, "pr_branch_deleted") \in BOOLEAN
      /\ ReportedSincePush(l, a, "pr_stale") \in BOOLEAN
  BY DEF Known, Terminal, ReportedSincePush
<1>8. /\ p.known = Known(l, a) /\ p.terminal = Terminal(l, a)
      /\ p.gone = ReportedSincePush(l, a, "pr_branch_deleted")
      /\ p.stale = ReportedSincePush(l, a, "pr_stale")
  BY <1>3, <1>4, <1>5, <1>6, <1>7
<1>9. p = [known |-> p.known, terminal |-> p.terminal, head |-> p.head, gone |-> p.gone,
           stale |-> p.stale]
  BY <1>3
<1> QED
  BY <1>5, <1>8, <1>9, Zenon DEF p, h

(* What maintain decides by is what the loop of project_events computes,   *)
(* for every ledger and not only for those that arise in a small instance. *)
THEOREM ProjectionComputed == Spec => []ProjectionIsTheLoop
<1>1. IInv => ProjectionIsTheLoop
  <2> SUFFICES ASSUME IInv, NEW l \in Ledgers PROVE l \in Seq(Line)
    BY LoopIsProjection, Zenon DEF ProjectionIsTheLoop
  <2> QED
    BY DEF IInv, TypeOK, Ledgers
<1> QED
  BY <1>1, MaintainInductive, PTL
=============================================================================
