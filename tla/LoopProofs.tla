----------------------------- MODULE LoopProofs -----------------------------
(***************************************************************************)
(* Theorems about Loop, for any number of sessions, signatures and running *)
(* processes.  First what the functions of History say of ledgers that     *)
(* hold the invariant, then the steps of sessions, reviewers and maintain. *)
(***************************************************************************)
EXTENDS LoopInvariants, FiniteSetTheorems, TLAPS

USE HistoryBounds, NoneIsNoReason, LoopBounds, CandidatesAssumption DEF Urls

(* Induction, for a set of numbers.                                        *)
LEMMA AllNumbers ==
  ASSUME NEW T \in SUBSET Nat, 0 \in T, \A n \in T : n + 1 \in T
  PROVE  T = Nat
<1> DEFINE R == OpToRel(<, Nat)
           F == Nat \ T
<1>1. IsWellFoundedOn(R, Nat)
  BY NatLessThanWellFounded
<1>2. \A y, z \in Nat : y < z => <<y, z>> \in R
  BY DEF OpToRel
<1>3. F \subseteq Nat
  OBVIOUS
<1> HIDE DEF R, F
<1>4. ASSUME F # {} PROVE FALSE
  <2>1. PICK x \in F : \A y \in F : ~ (<<y, x>> \in R)
    BY <1>1, <1>3, <1>4, WFMin
  <2>2. x \in Nat /\ x # 0
    BY DEF F
  <2>3. x - 1 \in Nat /\ x - 1 < x /\ (x - 1) + 1 = x
    BY <2>2
  <2>4. x - 1 \notin F
    BY <1>2, <2>1, <2>2, <2>3
  <2>5. x - 1 \in T
    BY <2>3, <2>4 DEF F
  <2> QED
    BY <2>1, <2>3, <2>5 DEF F
<1> QED
  BY <1>4 DEF F

(* A set of numbers with a bound has a greatest one.                       *)
LEMMA Greatest ==
  ASSUME NEW n \in Nat, NEW S \in SUBSET (0..n), S # {}
  PROVE  \E x \in S : \A y \in S : y <= x
<1> DEFINE T == {k \in Nat : \E i \in S : k = n - i}
<1> DEFINE R == OpToRel(<, Nat)
<1>1. T \subseteq Nat /\ T # {}
  <2>1. PICK i \in S : TRUE
    OBVIOUS
  <2>2. n - i \in T
    BY <2>1
  <2> QED
    BY <2>2
<1>2. IsWellFoundedOn(R, Nat)
  BY NatLessThanWellFounded
<1>3. \A y, z \in Nat : y < z => <<y, z>> \in R
  BY DEF OpToRel
<1> HIDE DEF R, T
<1>4. PICK x \in T : \A y \in T : ~ (<<y, x>> \in R)
  BY <1>1, <1>2, WFMin
<1>5. ASSUME NEW y \in T PROVE x <= y
  <2>1. x \in Nat /\ y \in Nat
    BY <1>1
  <2>2. ~(y < x)
    BY <1>3, <1>4, <2>1
  <2> QED
    BY <2>1, <2>2
<1>6. PICK i \in S : x = n - i
  BY <1>4 DEF T
<1>7. ASSUME NEW y \in S PROVE y <= i
  <2>1. n - y \in T
    BY DEF T
  <2>2. x <= n - y
    BY <1>5, <2>1
  <2> QED
    BY <1>6, <2>2
<1> QED
  BY <1>7

(* Finitely many numbers have a bound.                                     *)
LEMMA Bounded ==
  ASSUME NEW n \in Nat, NEW f, \A i \in 1..n : f[i] \in Nat
  PROVE  \E b \in Nat : \A i \in 1..n : f[i] <= b
<1> DEFINE Good(m) == \E b \in Nat : \A i \in 1..n : i <= m => f[i] <= b
           T == {m \in Nat : Good(m)}
<1>1. Good(0)
  <2>1. \A i \in 1..n : ~(i <= 0)
    OBVIOUS
  <2> QED
    BY <2>1
<1>2. ASSUME NEW m \in T PROVE Good(m + 1) /\ m + 1 \in Nat
  <2>1. m \in Nat /\ m + 1 \in Nat
    OBVIOUS
  <2>2. PICK b \in Nat : \A i \in 1..n : i <= m => f[i] <= b
    OBVIOUS
  <2> HIDE DEF T
  <2>3. CASE m + 1 \in 1..n
    <3>1. f[m + 1] \in Nat
      BY <2>3
    <3>2. PICK c \in Nat : b <= c /\ f[m + 1] <= c
      <4>1. CASE b <= f[m + 1]
        BY <3>1, <4>1
      <4>2. CASE ~(b <= f[m + 1])
        BY <3>1, <4>2
      <4> QED
        BY <4>1, <4>2
    <3>3. ASSUME NEW i \in 1..n, i <= m + 1 PROVE f[i] <= c
      <4>1. CASE i = m + 1
        BY <3>2, <4>1
      <4>2. CASE i # m + 1
        <5>1. i <= m
          BY <2>1, <3>3, <4>2
        <5>2. f[i] <= b /\ f[i] \in Nat
          BY <2>2, <5>1
        <5> QED
          BY <3>2, <5>2
      <4> QED
        BY <4>1, <4>2
    <3> QED
      BY <2>1, <3>3
  <2>4. CASE m + 1 \notin 1..n
    <3>1. \A i \in 1..n : i <= m + 1 => i <= m
      BY <2>1, <2>4
    <3> QED
      BY <2>1, <2>2, <3>1
  <2> QED
    BY <2>3, <2>4
<1>3. T = Nat
  <2>1. T \in SUBSET Nat /\ 0 \in T /\ \A m \in T : m + 1 \in T
    BY <1>1, <1>2
  <2> HIDE DEF T
  <2> QED
    BY <2>1, AllNumbers
<1> HIDE DEF Good
<1>4. Good(n)
  BY <1>3
<1> QED
  BY <1>4 DEF Good

(* The lines of a URL.                                                     *)
Lines(u) == {i \in DOMAIN events : events[i].url = u}

(* Lines, entries and inquiries, one by one.                               *)
LEMMA LinesAreTyped ==
  ASSUME IInv
  PROVE  /\ Len(events) \in Nat /\ DOMAIN events = 1..Len(events)
         /\ \A i \in DOMAIN events :
              events[i] \in Event /\ events[i].kind \in Kinds /\ events[i].url \in Objects /\ events[i].at \in Nat
         /\ Len(ledger) \in Nat /\ DOMAIN ledger = 1..Len(ledger)
         /\ \A i \in DOMAIN ledger : ledger[i] \in Entry /\ ledger[i].rows \subseteq Row
<1>1. events \in Seq(Event) /\ ledger \in Seq(Entry)
  BY DEF IInv, TypeOK
<1>2. \A e \in Event : e.kind \in Kinds /\ e.url \in Objects /\ e.at \in Nat
  BY DEF Event
<1>3. \A e \in Entry : e.rows \subseteq Row
  BY DEF Entry
<1> QED
  BY <1>1, <1>2, <1>3

(* The projection of a URL that has lines is that of one of them: no other *)
(* is stamped later, nor does one of the same second come after it.        *)
LEMMA LatestIsLast ==
  ASSUME IInv, NEW u, NEW k \in DOMAIN events, events[k].url = u
  PROVE  \E i \in DOMAIN events :
           /\ events[i].url = u /\ latest_artifact_state(events, u) = events[i].kind
           /\ \A j \in DOMAIN events : events[j].url = u =>
                events[i].at > events[j].at \/ (events[i].at = events[j].at /\ i >= j)
<1> DEFINE of == Lines(u)
           Later(i, j) == events[i].at > events[j].at \/ (events[i].at = events[j].at /\ i >= j)
           f == [i \in 1..Len(events) |-> events[i].at]
           ats == {events[i].at : i \in of}
<1>1. Len(events) \in Nat /\ DOMAIN events = 1..Len(events)
      /\ \A i \in DOMAIN events : events[i].at \in Nat
  BY LinesAreTyped
<1>2. PICK n \in Nat : \A i \in 1..Len(events) : f[i] <= n
  <2>1. \A i \in 1..Len(events) : f[i] \in Nat
    BY <1>1
  <2> HIDE DEF f
  <2> QED
    BY <1>1, <2>1, Bounded
<1>3. \A i \in of : events[i].at <= n
  BY <1>1, <1>2 DEF Lines
<1>4. ats \in SUBSET (0..n) /\ ats # {}
  <2>1. \A i \in of : events[i].at \in 0..n
    BY <1>1, <1>2, <1>3 DEF Lines
  <2>2. k \in of
    BY DEF Lines
  <2> QED
    BY <2>1, <2>2
<1>5. PICK m \in ats : \A y \in ats : y <= m
  <2> HIDE DEF ats
  <2> QED
    BY <1>2, <1>4, Greatest
<1> DEFINE last == {i \in of : events[i].at = m}
<1>6. last \in SUBSET (0..Len(events)) /\ last # {}
  BY <1>1, <1>5 DEF Lines
<1>7. PICK x \in last : \A y \in last : y <= x
  <2> HIDE DEF last
  <2> QED
    BY <1>1, <1>6, Greatest
<1>8. \A j \in of : events[j].at <= m
  BY <1>5
<1>9. ASSUME NEW j \in of PROVE Later(x, j)
  <2>1. events[j].at \in Nat /\ m \in Nat /\ events[x].at = m /\ j \in Nat /\ x \in Nat
    BY <1>1, <1>5, <1>7 DEF Lines
  <2>2. CASE events[j].at = m
    BY <1>7, <2>1, <2>2
  <2>3. CASE events[j].at # m
    BY <1>8, <2>1, <2>3
  <2> QED
    BY <2>2, <2>3
<1> DEFINE c == CHOOSE i \in of : \A j \in of : Later(i, j)
<1>10. c \in of /\ \A j \in of : Later(c, j)
  BY <1>7, <1>9
<1>11. latest_artifact_state(events, u) = events[c].kind
  <2>1. of # {} /\ of = {i \in DOMAIN events : events[i].url = u}
    BY DEF Lines
  <2> QED
    BY <2>1 DEF latest_artifact_state
<1> HIDE DEF c
<1> QED
  BY <1>10, <1>11 DEF Lines

(* A URL without a line has no state.                                      *)
LEMMA NoLineNoState ==
  ASSUME NEW u, \A i \in DOMAIN events : events[i].url # u
  PROVE  latest_artifact_state(events, u) = None
<1>1. {i \in DOMAIN events : events[i].url = u} = {}
  OBVIOUS
<1> QED
  BY <1>1 DEF latest_artifact_state

(* What lines and observations say of final states is so, and of two lines *)
(* that tell of an object's end both tell of the same.                     *)
LEMMA LinesAreTrue ==
  ASSUME IInv, NEW i \in DOMAIN events
  PROVE  /\ events[i].kind \in PrKinds <=> github[events[i].url].kind \in PrKinds
         /\ events[i].kind \in Terminal => github[events[i].url].kind = events[i].kind
<1>1. events[i] \in Seen
  BY DEF Seen, Rng
<1> QED
  BY <1>1 DEF IInv, Observed, True

(* The final state of an object, once a line has it, is what is read, or   *)
(* else the line of an invocation that overlapped another one.             *)
LEMMA FinalWord ==
  ASSUME IInv, NEW i \in DOMAIN events, events[i].kind \in Terminal
  PROVE  \/ latest_artifact_state(events, events[i].url) = events[i].kind
         \/ \E k \in DOMAIN events :
              /\ events[k].url = events[i].url /\ events[k].overlap
              /\ latest_artifact_state(events, events[i].url) = events[k].kind
<1>1. PICK k \in DOMAIN events :
        /\ events[k].url = events[i].url
        /\ latest_artifact_state(events, events[i].url) = events[k].kind
        /\ events[k].at > events[i].at \/ (events[k].at = events[i].at /\ k >= i)
  BY LatestIsLast
<1>2. i \in Nat /\ k \in Nat /\ events[i].at \in Nat /\ events[k].at \in Nat
  BY LinesAreTyped
<1>3. ASSUME ~events[k].overlap PROVE events[k].kind = events[i].kind
  <2>1. CASE i < k
    BY <1>1, <1>3, <2>1 DEF IInv, Observed
  <2>2. CASE k < i
    <3>1. events[k].at <= events[i].at
      BY <1>1, <1>3, <2>2 DEF IInv, Observed
    <3> QED
      BY <1>1, <1>2, <2>2, <3>1
  <2>3. CASE i = k
    BY <2>3
  <2> QED
    BY <1>2, <2>1, <2>2, <2>3
<1> QED
  BY <1>1, <1>3

(* An object whose lines call it neither final nor stale counts as open.   *)
LEMMA ReadsOpen ==
  ASSUME IInv, NEW v,
         \A i \in DOMAIN events :
           events[i].url = v => events[i].kind \notin Terminal \union {"pr_stale", "pr_branch_deleted"}
  PROVE  artifact_state(events, v) = "open"
<1>1. CASE \A i \in DOMAIN events : events[i].url # v
  <2>1. latest_artifact_state(events, v) = None
    BY <1>1, NoLineNoState
  <2>2. None # "pr_merged" /\ None \notin {"pr_closed_unmerged", "issue_closed"}
    BY DEF Kinds, PrKinds, IssueKinds
  <2> QED
    BY <2>1, <2>2 DEF artifact_state
<1>2. CASE \E k \in DOMAIN events : events[k].url = v
  <2>1. PICK i \in DOMAIN events : events[i].url = v /\ latest_artifact_state(events, v) = events[i].kind
    BY <1>2, LatestIsLast
  <2>2. events[i].kind \in {"pr_open", "pr_force_pushed", "issue_open"}
    BY <2>1, LinesAreTyped DEF Kinds, PrKinds, IssueKinds, Terminal
  <2> QED
    BY <2>1, <2>2 DEF artifact_state
<1> QED
  BY <1>1, <1>2

(* One that some line calls merged, or closed, counts as that or as open,  *)
(* unless there is doubt of it.                                            *)
LEMMA ReadsFinal ==
  ASSUME IInv, NEW i \in DOMAIN events, events[i].kind \in Terminal,
         ~Doubted(<<Len(ledger), Len(events)>>, events[i].url),
         artifact_state(events, events[i].url) # "open"
  PROVE  /\ events[i].kind = "pr_merged" => artifact_state(events, events[i].url) = "merged"
         /\ events[i].kind \in {"pr_closed_unmerged", "issue_closed"} =>
              artifact_state(events, events[i].url) = "closed"
<1> DEFINE u == events[i].url
           read == latest_artifact_state(events, u)
<1>1. None \notin Kinds /\ "pr_merged" \in Kinds /\ "pr_closed_unmerged" \in Kinds /\ "issue_closed" \in Kinds
  BY DEF Kinds, PrKinds, IssueKinds
<1>2. read = events[i].kind
  <2>1. SUFFICES ASSUME NEW k \in DOMAIN events, events[k].url = u, events[k].overlap, read = events[k].kind
                 PROVE  events[k].kind = events[i].kind
    BY FinalWord
  <2>2. CASE events[k].kind \in Terminal
    BY <2>1, <2>2, LinesAreTrue
  <2>3. CASE events[k].kind \in {"pr_stale", "pr_branch_deleted"}
    <3>1. k \in 1..Len(events)
      BY LinesAreTyped
    <3> QED
      BY <2>1, <2>3, <3>1 DEF Doubted
  <2>4. CASE events[k].kind \in {"pr_open", "pr_force_pushed", "issue_open"}
    BY <2>1, <2>4 DEF artifact_state
  <2> QED
    BY <2>2, <2>3, <2>4, LinesAreTyped DEF Kinds, PrKinds, IssueKinds, Terminal
<1> QED
  BY <1>1, <1>2 DEF artifact_state, Terminal

(* What decision_for lets through has no object under review or merged,    *)
(* and has not failed too often.                                           *)
LEMMA LetThrough ==
  ASSUME NEW L, NEW E, NEW sig, decision_for(L, E, sig) = None
  PROVE  /\ \A a \in attempts_for_signature(L, sig) :
              /\ a.pr # None => artifact_state(E, a.pr) \notin {"open", "merged"}
              /\ a.issue # None => artifact_state(E, a.issue) # "open"
         /\ Threshold > 0 => ~(Cardinality(Unsuccessful(L, E, sig)) >= Threshold)
<1> DEFINE tries == attempts_for_signature(L, sig)
           op == \E a \in tries : In(E, a.pr, "open")
           oi == \E a \in tries : In(E, a.issue, "open")
           mp == \E a \in tries : In(E, a.pr, "merged")
           n == Cardinality(Unsuccessful(L, E, sig))
           state == from_history_projection(L, E, sig)
<1>1. state.open_pr = op /\ state.open_issue = oi /\ state.merged_pr = mp /\ state.unsuccessful = n
  BY DEF from_history_projection
<1> HIDE DEF op, oi, mp, n, state
<1>2. ~state.open_pr
  BY DEF decision_for, state
<1>3. ~state.open_issue
  BY <1>2 DEF decision_for, state
<1>4. ~state.merged_pr
  BY <1>2, <1>3 DEF decision_for, state
<1>5. Threshold > 0 => ~(state.unsuccessful >= Threshold)
  BY <1>2, <1>3, <1>4 DEF decision_for, state
<1>6. ~op /\ ~oi /\ ~mp /\ (Threshold > 0 => ~(n >= Threshold))
  BY <1>1, <1>2, <1>3, <1>4, <1>5
<1> QED
  BY <1>6 DEF op, oi, mp, n, In

(* What a function makes of a finite set is finite and no larger.          *)
LEMMA ImageIsFinite ==
  ASSUME NEW S, IsFiniteSet(S), NEW f
  PROVE  /\ IsFiniteSet({f[x] : x \in S})
         /\ Cardinality({f[x] : x \in S}) <= Cardinality(S)
<1> DEFINE T == {f[x] : x \in S}
           g == [x \in S |-> f[x]]
<1>1. g \in [S -> T] /\ \A t \in T : \E x \in S : g[x] = t
  OBVIOUS
<1>2. g \in Surjection(S, T)
  BY <1>1 DEF Surjection
<1> HIDE DEF T, g
<1>3. IsFiniteSet(T) /\ Cardinality(T) <= Cardinality(S)
  BY <1>2, FS_Surjection
<1> QED
  BY <1>3 DEF T

(* The attempts at a signature are as many as rows at most.                *)
LEMMA AttemptsAreFinite ==
  ASSUME IInv PROVE IsFiniteSet(Attempts(ledger))
<1> DEFINE D == (1..Len(ledger)) \X Rows
           P == {p \in D : p[2] \in ledger[p[1]].rows}
           f == [p \in D |-> Attempt(ledger[p[1]], p[2])]
           T == {f[p] : p \in P}
<1>1. IsFiniteSet(D)
  <2>1. IsFiniteSet(1..Len(ledger)) /\ IsFiniteSet(Rows)
    BY LinesAreTyped, FS_Interval DEF IInv, Traced
  <2> QED
    BY <2>1, FS_Product
<1>2. IsFiniteSet(P)
  <2>1. P \subseteq D
    OBVIOUS
  <2> HIDE DEF P, D
  <2> QED
    BY <1>1, <2>1, FS_Subset
<1>3. IsFiniteSet(T)
  <2> HIDE DEF P, f
  <2> QED
    BY <1>2, ImageIsFinite
<1>4. ASSUME NEW i \in DOMAIN ledger, NEW r \in ledger[i].rows
      PROVE  Attempt(ledger[i], r) \in T
  <2> DEFINE p == <<i, r>>
  <2>1. r \in Rows /\ i \in 1..Len(ledger)
    BY LinesAreTyped DEF Rows, Rng
  <2>2. p \in P /\ p \in D
    BY <2>1
  <2>3. f[p] = Attempt(ledger[i], r)
    BY <2>2
  <2> HIDE DEF p, f, P
  <2> QED
    BY <2>2, <2>3
<1> HIDE DEF T
<1>5. Attempts(ledger) \subseteq T
  BY <1>4 DEF Attempts
<1> QED
  BY <1>3, <1>5, FS_Subset

(* Every archived row of a signature is one of its attempts.               *)
LEMMA RowsAreAttempts ==
  ASSUME NEW L, NEW i \in DOMAIN L, NEW r \in L[i].rows
  PROVE  LET a == Attempt(L[i], r)
         IN  /\ a \in attempts_for_signature(L, r.sig) /\ a.session = L[i].id
             /\ a.family = r.family /\ a.status = r.status /\ a.pr = r.pr /\ a.issue = r.issue
<1> DEFINE a == Attempt(L[i], r)
<1>1. a \in Attempts(L)
  BY DEF Attempts
<1>2. a.sig = r.sig /\ a.session = L[i].id
      /\ a.family = r.family /\ a.status = r.status /\ a.pr = r.pr /\ a.issue = r.issue
  BY DEF Attempt
<1> HIDE DEF a
<1>3. a \in attempts_for_signature(L, r.sig)
  BY <1>1, <1>2 DEF attempts_for_signature
<1> QED
  BY <1>2, <1>3 DEF a

(* The failures counted for a signature are finitely many.                 *)
LEMMA FailuresAreFinite ==
  ASSUME IInv, NEW sig PROVE IsFiniteSet(Unsuccessful(ledger, events, sig))
<1> DEFINE A == attempts_for_signature(ledger, sig)
           F == FamiliesOf(ledger, sig)
           W == {"status", "pr", "issue"}
           Q == (F \X A) \X W
           U == Unsuccessful(ledger, events, sig)
           h == [t \in U |-> <<<<t[1], t[2]>>, t[3]>>]
<1>1. IsFiniteSet(A)
  <2>1. A \subseteq Attempts(ledger)
    BY DEF attempts_for_signature
  <2> HIDE DEF A
  <2> QED
    BY <2>1, AttemptsAreFinite, FS_Subset
<1>2. IsFiniteSet(F)
  <2> DEFINE g == [a \in A |-> a.family]
             T == {g[a] : a \in A}
  <2>1. F = T
    BY DEF FamiliesOf
  <2>2. IsFiniteSet(T)
    <3> HIDE DEF g, A
    <3> QED
      BY <1>1, ImageIsFinite
  <2> QED
    BY <2>1, <2>2
<1>3. IsFiniteSet(W)
  <2>1. IsFiniteSet({"status"}) /\ W = ({"status"} \union {"pr"}) \union {"issue"}
    BY FS_Singleton
  <2>2. IsFiniteSet({"status"} \union {"pr"})
    BY <2>1, FS_AddElement
  <2> QED
    BY <2>1, <2>2, FS_AddElement
<1>4. ASSUME NEW t \in U PROVE t = <<t[1], t[2], t[3]>> /\ t[1] \in F /\ t[2] \in A /\ t[3] \in W
  <2>1. PICK a \in A : t \in {<<f, a, why>> : f \in F, why \in Failures(events, a)}
    BY DEF Unsuccessful
  <2>2. PICK f \in F, why \in Failures(events, a) : t = <<f, a, why>>
    BY <2>1
  <2>3. why \in W
    BY <2>2 DEF Failures
  <2> QED
    BY <2>2, <2>3
<1> HIDE DEF A, F, W, U
<1>5. IsFiniteSet(Q)
  <2>1. IsFiniteSet(F \X A)
    BY <1>1, <1>2, FS_Product
  <2> QED
    BY <1>3, <2>1, FS_Product
<1>6. h \in Injection(U, Q)
  <2>1. h \in [U -> Q]
    BY <1>4
  <2>2. ASSUME NEW s \in U, NEW t \in U, h[s] = h[t] PROVE s = t
    <3>1. s[1] = t[1] /\ s[2] = t[2] /\ s[3] = t[3]
      BY <2>2
    <3> QED
      BY <1>4, <3>1
  <2> QED
    <3>1. DOMAIN h = U
      OBVIOUS
    <3> HIDE DEF h
    <3> QED
      BY <2>1, <2>2, <3>1 DEF Injection, IsInjective
<1>7. IsFiniteSet(U)
  <2> HIDE DEF h, Q
  <2> QED
    BY <1>5, <1>6, FS_Injection
<1> QED
  BY <1>7 DEF U

(* A session that failed at a signature is counted at least once, when     *)
(* nothing of the signature reads as open.                                 *)
LEMMA FailuresAreCounted ==
  ASSUME IInv, NEW sig, decision_for(ledger, events, sig) = None
  PROVE  LET knew == <<Len(ledger), Len(events)>>
         IN  /\ Cardinality(KnownFailures(knew, sig)) \in Nat
             /\ Cardinality(Unsuccessful(ledger, events, sig)) \in Nat
             /\ Cardinality(KnownFailures(knew, sig)) <= Cardinality(Unsuccessful(ledger, events, sig))
<1> DEFINE knew == <<Len(ledger), Len(events)>>
           B == KnownFailures(knew, sig)
           U == Unsuccessful(ledger, events, sig)
           h == [i \in B |-> CHOOSE t \in U : t[2].session = ledger[i].id]
           Closed(v) == Said(knew, v, {"pr_closed_unmerged", "issue_closed"}) /\ ~Doubted(knew, v)
<1>0. ASSUME NEW v, v # None, Closed(v), artifact_state(events, v) # "open"
      PROVE  artifact_state(events, v) = "closed"
  <2>1. PICK j \in 1..Len(events) :
          events[j].url = v /\ events[j].kind \in {"pr_closed_unmerged", "issue_closed"}
    BY <1>0 DEF Said
  <2>2. j \in DOMAIN events /\ events[j].kind \in Terminal
    BY <2>1, LinesAreTyped DEF Terminal
  <2> QED
    BY <1>0, <2>1, <2>2, ReadsFinal
<1>1. knew[1] = Len(ledger) /\ knew[2] = Len(events)
  OBVIOUS
<1>2. DOMAIN ledger = 1..Len(ledger) /\ DOMAIN events = 1..Len(events)
      /\ Len(ledger) \in Nat /\ Len(events) \in Nat
  BY LinesAreTyped
<1> HIDE DEF knew
<1>3. ASSUME NEW i \in B PROVE i \in DOMAIN ledger /\ \E t \in U : t[2].session = ledger[i].id
  <2>1. i \in 1..Len(ledger) /\ i \in DOMAIN ledger
    BY <1>1, <1>2 DEF KnownFailures
  <2>2. PICK r \in ledger[i].rows :
          /\ r.sig = sig
          /\ r.status # "accepted" \/ Closed(r.pr) \/ Closed(r.issue)
    BY DEF KnownFailures
  <2> DEFINE a == Attempt(ledger[i], r)
  <2>3. /\ a \in attempts_for_signature(ledger, sig) /\ a.session = ledger[i].id
        /\ a.family = r.family /\ a.status = r.status /\ a.pr = r.pr /\ a.issue = r.issue
    BY <2>1, <2>2, RowsAreAttempts
  <2> HIDE DEF a
  <2>4. ASSUME NEW v \in {r.pr, r.issue}, Closed(v)
        PROVE  v # None /\ artifact_state(events, v) = "closed"
    <3>1. PICK j \in DOMAIN events : events[j].url = v
      BY <1>1, <1>2, <2>4 DEF Said
    <3>2. v \in Objects /\ v # None
      BY <3>1, LinesAreTyped
    <3>3. artifact_state(events, v) # "open"
      BY <2>3, <3>2, LetThrough
    <3> QED
      BY <1>0, <2>4, <3>2, <3>3
  <2>5. \E why : why \in Failures(events, a)
    <3>1. CASE r.status # "accepted"
      <4>1. r.status \in TargetStatuses
        BY <2>1, LinesAreTyped DEF Row
      <4> QED
        BY <2>3, <3>1, <4>1 DEF Failures, unsuccessful_from_archived_status, TargetStatuses
    <3>2. CASE Closed(r.pr)
      BY <2>3, <2>4, <3>2 DEF Failures, In
    <3>3. CASE Closed(r.issue)
      BY <2>3, <2>4, <3>3 DEF Failures, In
    <3> QED
      BY <2>2, <3>1, <3>2, <3>3
  <2>6. PICK why : why \in Failures(events, a)
    BY <2>5
  <2>7. a.family \in FamiliesOf(ledger, sig)
    BY <2>3 DEF FamiliesOf
  <2> DEFINE t == <<a.family, a, why>>
  <2>8. t \in U /\ t[2] = a
    BY <2>3, <2>6, <2>7 DEF Unsuccessful
  <2> HIDE DEF t, U
  <2> QED
    BY <2>1, <2>3, <2>8
<1>4. IsFiniteSet(U) /\ Cardinality(U) \in Nat
  BY FailuresAreFinite, FS_CardinalityType
<1> HIDE DEF B, U
<1>5. h \in Injection(B, U)
  <2>1. \A i \in B : h[i] \in U /\ h[i][2].session = ledger[i].id
    BY <1>3
  <2>2. h \in [B -> U]
    BY <2>1
  <2> HIDE DEF h
  <2>3. ASSUME NEW i \in B, NEW j \in B, h[i] = h[j] PROVE i = j
    <3>1. ledger[i].id = ledger[j].id
      BY <2>1, <2>3
    <3> QED
      BY <1>3, <3>1 DEF IInv, TypeOK
  <2> QED
    BY <2>2, <2>3 DEF Injection, IsInjective
<1> HIDE DEF h
<1>6. IsFiniteSet(B) /\ Cardinality(B) <= Cardinality(U)
  BY <1>4, <1>5, FS_Injection
<1>7. Cardinality(B) \in Nat
  BY <1>6, FS_CardinalityType
<1> QED
  BY <1>4, <1>6, <1>7 DEF B, U, knew

(* What decision_for lets through, with the ledgers as they are now, is    *)
(* not known work and has not failed too often.                            *)
LEMMA LetThroughIsInformed ==
  ASSUME IInv, NEW sig, decision_for(ledger, events, sig) = None
  PROVE  Informed(<<Len(ledger), Len(events)>>, sig)
<1> DEFINE knew == <<Len(ledger), Len(events)>>
<1>1. knew[1] = Len(ledger) /\ knew[2] = Len(events)
  OBVIOUS
<1>2. DOMAIN ledger = 1..Len(ledger) /\ DOMAIN events = 1..Len(events)
      /\ Len(ledger) \in Nat /\ Len(events) \in Nat
  BY LinesAreTyped
<1>3. Threshold > 0 => Cardinality(KnownFailures(knew, sig)) < Threshold
  <2> DEFINE b == Cardinality(KnownFailures(knew, sig))
             n == Cardinality(Unsuccessful(ledger, events, sig))
  <2>1. b \in Nat /\ n \in Nat /\ b <= n
    BY FailuresAreCounted
  <2>2. Threshold > 0 => ~(n >= Threshold)
    BY LetThrough
  <2> HIDE DEF b, n
  <2>3. Threshold > 0 => b < Threshold
    BY <2>1, <2>2
  <2> QED
    BY <2>3 DEF b
<1> HIDE DEF knew
<1>4. ASSUME NEW v \in KnownWork(knew, sig) PROVE FALSE
  <2>1. v \in Objects /\ v # None
    BY DEF KnownWork
  <2>2. PICK i \in DOMAIN ledger : \E r \in ledger[i].rows : r.sig = sig /\ v \in {r.pr, r.issue}
    BY <1>1, <1>2 DEF KnownWork, Filed
  <2>3. PICK r \in ledger[i].rows : r.sig = sig /\ v \in {r.pr, r.issue}
    BY <2>2
  <2>4. /\ r.pr # None => artifact_state(events, r.pr) \notin {"open", "merged"}
        /\ r.issue # None => artifact_state(events, r.issue) # "open"
    <3> DEFINE a == Attempt(ledger[i], r)
    <3>1. a \in attempts_for_signature(ledger, sig) /\ a.pr = r.pr /\ a.issue = r.issue
      BY <2>3, RowsAreAttempts
    <3> HIDE DEF a
    <3> QED
      BY <3>1, LetThrough
  <2>5. CASE Said(knew, v, {"pr_merged"}) /\ ~Doubted(knew, v)
    <3>1. PICK j \in DOMAIN events : events[j].url = v /\ events[j].kind = "pr_merged"
      BY <1>1, <1>2, <2>5 DEF Said
    <3>2. artifact_state(events, v) = "merged"
      <4>1. artifact_state(events, v) # "open" /\ events[j].kind \in Terminal
        BY <2>1, <2>3, <2>4, <3>1 DEF Terminal
      <4> QED
        BY <2>5, <3>1, <4>1, ReadsFinal DEF knew
    <3>3. v # r.pr
      BY <2>1, <2>4, <3>2
    <3>4. r \in Rows /\ v = r.issue
      BY <2>3, <3>3 DEF Rows, Rng
    <3>5. github[v].kind \in IssueKinds
      BY <2>1, <3>4 DEF IInv, Traced
    <3>6. github[v].kind \in PrKinds
      <4>1. events[j].kind \in PrKinds
        BY <3>1 DEF PrKinds
      <4> QED
        BY <3>1, <4>1, LinesAreTrue
    <3> QED
      BY <3>5, <3>6 DEF IssueKinds, PrKinds
  <2>6. CASE ~Said(knew, v, Terminal \union {"pr_stale", "pr_branch_deleted"})
    <3>1. \A j \in DOMAIN events :
            events[j].url = v => events[j].kind \notin Terminal \union {"pr_stale", "pr_branch_deleted"}
      BY <1>1, <1>2, <2>6 DEF Said
    <3>2. artifact_state(events, v) = "open"
      BY <3>1, ReadsOpen
    <3> QED
      BY <2>1, <2>3, <2>4, <3>2
  <2> QED
    BY <2>5, <2>6 DEF KnownWork
<1>5. KnownWork(knew, sig) = {}
  BY <1>4
<1> QED
  BY <1>1, <1>2, <1>3, <1>5 DEF Informed, knew

-----------------------------------------------------------------------------
(* Arithmetic: a product of numbers grows with its factor.                 *)
LEMMA TimesGrows ==
  ASSUME NEW m \in Nat, NEW a \in Nat, NEW b \in Nat, a <= b
  PROVE  m * a <= m * b /\ m * a \in Nat /\ m * b \in Nat
<1>1. PICK d \in Nat : b = a + d
  <2>1. b - a \in Nat /\ b = a + (b - a)
    OBVIOUS
  <2> QED
    BY <2>1
<1>2. m * b = m * a + m * d
  BY <1>1
<1>3. m * a \in Nat /\ m * d \in Nat
  OBVIOUS
<1> QED
  BY <1>2, <1>3

(* The pull requests under review that the ledger names.                   *)
Archived == {u \in Urls : github[u].kind \in PrKinds \ Terminal /\ \E r \in Rows : r.pr = u}
(* They are finitely many.                                                 *)
LEMMA ArchivedIsFinite ==
  ASSUME IInv PROVE IsFiniteSet(Archived) /\ Cardinality(Archived) \in Nat
<1> DEFINE f == [r \in Rows |-> r.pr]
           T == {f[r] : r \in Rows}
<1>1. Archived \subseteq T
  BY DEF Archived
<1>2. IsFiniteSet(T)
  <2> HIDE DEF f
  <2> QED
    BY ImageIsFinite DEF IInv, Traced
<1> HIDE DEF T
<1>3. IsFiniteSet(Archived)
  BY <1>1, <1>2, FS_Subset
<1> QED
  BY <1>3, FS_CardinalityType

(* The queue does not grow when neither part of it does.                   *)
LEMMA QueueShrinks ==
  ASSUME IInv, Archived' \subseteq Archived,
         Cardinality(running') \in Nat, Cardinality(running') <= Cardinality(running)
  PROVE  ReviewQueueBounded'
<1> DEFINE a == Cardinality(Archived)
           b == Cardinality(Archived')
           n == Cardinality(running)
           k == Cardinality(running')
<1>1. a \in Nat /\ b \in Nat /\ b <= a
  <2>1. IsFiniteSet(Archived')  /\ b <= a
    BY ArchivedIsFinite, FS_Subset
  <2> QED
    BY <2>1, ArchivedIsFinite, FS_CardinalityType
<1>2. n \in Nat
  BY FS_CardinalityType DEF IInv, Numbered
<1>3. MaxOpenPrs > 0 => a + MaxRows * n <= MaxOpenPrs - 1 + MaxRows * Parallel
  BY DEF IInv, ReviewQueueBounded, Archived
<1> HIDE DEF a, b, n, k
<1>4. MaxRows * k <= MaxRows * n /\ MaxRows * k \in Nat /\ MaxRows * n \in Nat
  BY <1>2, TimesGrows DEF n, k
<1>5. MaxRows * Parallel \in Nat
  OBVIOUS
<1>6. MaxOpenPrs > 0 => b + MaxRows * k <= MaxOpenPrs - 1 + MaxRows * Parallel
  BY <1>1, <1>3, <1>4, <1>5
<1> QED
  BY <1>6 DEF b, k, ReviewQueueBounded, Archived

(* Ledgers that only grow keep what anyone knew.                           *)
Grows(s, t) == Len(s) <= Len(t) /\ \A i \in 1..Len(s) : t[i] = s[i]
LEMMA StaysInformed ==
  ASSUME IInv, Len(ledger') \in Nat, Len(events') \in Nat,
         Grows(ledger, ledger'), Grows(events, events'),
         NEW knew \in Nat \X Nat, NEW sig, Informed(knew, sig)
  PROVE  Informed(knew, sig)'
<1>1. knew[1] \in Nat /\ knew[2] \in Nat /\ Len(ledger) \in Nat /\ Len(events) \in Nat
  BY LinesAreTyped
<1>2. /\ knew[1] <= Len(ledger) /\ knew[2] <= Len(events)
      /\ KnownWork(knew, sig) = {}
      /\ Threshold > 0 => Cardinality(KnownFailures(knew, sig)) < Threshold
  BY DEF Informed
<1>3. /\ \A i \in 1..knew[1] : ledger'[i] = ledger[i]
      /\ \A i \in 1..knew[2] : events'[i] = events[i]
  BY <1>1, <1>2 DEF Grows
<1>4. /\ \A v, K : Said(knew, v, K)' <=> Said(knew, v, K)
      /\ \A v : Doubted(knew, v)' <=> Doubted(knew, v)
  BY <1>3 DEF Said, Doubted
<1>5. Filed(knew, sig)' = Filed(knew, sig)
  BY <1>3 DEF Filed
<1>6. KnownWork(knew, sig)' = KnownWork(knew, sig)
  BY <1>4, <1>5 DEF KnownWork
<1>7. KnownFailures(knew, sig)' = KnownFailures(knew, sig)
  BY <1>3, <1>4 DEF KnownFailures
<1>8. knew[1] <= Len(ledger') /\ knew[2] <= Len(events')
  BY <1>1, <1>2 DEF Grows
<1> QED
  BY <1>2, <1>6, <1>7, <1>8 DEF Informed

(* Sessions and objects are informed after a step that makes no plan: what *)
(* is published is what some session had prepared.                         *)
LEMMA StaysPrepared ==
  ASSUME IInv, Len(ledger') \in Nat, Len(events') \in Nat,
         Grows(ledger, ledger'), Grows(events, events'),
         \A s \in running' : s.pc = "publish" => s \in running,
         \A u \in Urls' :
           \/ u \in Urls /\ github'[u].knew = github[u].knew /\ github'[u].sig = github[u].sig
           \/ \E s \in running : /\ s.pc = "publish" /\ github'[u].knew = s.knew
                                 /\ \E t \in s.rows : github'[u].sig = t.sig
  PROVE  Prepared'
<1>1. \A knew \in Nat \X Nat : \A sig : Informed(knew, sig) => Informed(knew, sig)'
  BY StaysInformed
<1>2. ASSUME NEW s \in running, s.pc = "publish"
      PROVE  /\ s.knew \in Nat \X Nat /\ IsFiniteSet(s.rows) /\ Cardinality(s.rows) <= MaxRows
             /\ \A t, q \in s.rows : t.sig = q.sig => t = q
             /\ \A t \in s.rows : Informed(s.knew, t.sig)
  <2>1. s \in Publishing
    BY <1>2 DEF IInv, TypeOK, Planning
  <2> QED
    BY <1>2, <2>1 DEF IInv, Prepared, Publishing
<1>3. ASSUME NEW u \in Urls PROVE github[u].knew \in Nat \X Nat /\ Informed(github[u].knew, github[u].sig)
  BY DEF IInv, TypeOK, Prepared
<1>4. ASSUME NEW s \in running', s.pc = "publish"
      PROVE  /\ IsFiniteSet(s.rows) /\ Cardinality(s.rows) <= MaxRows
             /\ \A t, q \in s.rows : t.sig = q.sig => t = q
             /\ \A t \in s.rows : Informed(s.knew, t.sig)'
  <2>1. s \in running
    BY <1>4
  <2>2. \A t \in s.rows : Informed(s.knew, t.sig)'
    BY <1>1, <1>2, <1>4, <2>1
  <2> QED
    BY <1>2, <1>4, <2>1, <2>2
<1>5. ASSUME NEW u \in Urls' PROVE Informed(github[u].knew, github[u].sig)'
  <2>1. PICK k, g : k \in Nat \X Nat /\ k = github'[u].knew /\ g = github'[u].sig /\ Informed(k, g)
    BY <1>2, <1>3
  <2>2. Informed(k, g)'
    BY <1>1, <2>1
  <2> QED
    BY <2>1, <2>2
<1> QED
  BY <1>4, <1>5 DEF Prepared

(* Nothing about maintain's work changes while lines, observations and the *)
(* state of what there is stay.                                            *)
LEMMA StaysObserved ==
  ASSUME IInv, UNCHANGED <<events, watch>>,
         \A u \in Urls : /\ u \in Urls'
                         /\ github[u].kind \in PrKinds <=> github'[u].kind \in PrKinds
                         /\ github[u].kind \in Terminal => github'[u].kind = github[u].kind
  PROVE  Observed'
<1>1. Seen' = Seen /\ \A u : About(u)' = About(u)
  BY DEF Seen, Rng, About
<1>2. \A e \in Seen : e.url \in Urls /\ True(e)
  BY DEF IInv, TypeOK, Observed, Seen
<1>3. ASSUME NEW e \in Seen PROVE True(e)'
  BY <1>2 DEF True
<1>4. \A w \in watch' : w.url \in Urls'
  BY DEF IInv, Observed
<1> QED
  BY <1>1, <1>3, <1>4 DEF IInv, Observed

(* The rows of a ledger that stays.                                        *)
LEMMA StaysTraced ==
  ASSUME IInv, UNCHANGED ledger,
         \A u \in Urls : /\ u \in Urls'
                         /\ github[u].kind \in PrKinds => github'[u].kind \in PrKinds
                         /\ github[u].kind \in IssueKinds => github'[u].kind \in IssueKinds
  PROVE  Traced' /\ Rows' = Rows
<1>1. Rows' = Rows
  BY DEF Rows, Rng
<1>2. \A r \in Rows : /\ r.pr # None => r.pr \in Urls' /\ github'[r.pr].kind \in PrKinds
                      /\ r.issue # None => r.issue \in Urls' /\ github'[r.issue].kind \in IssueKinds
  BY DEF IInv, Traced
<1> QED
  BY <1>1, <1>2 DEF IInv, Traced

(* Pause file, site problems, the clock: the sessions do not notice.       *)
LEMMA Aside ==
  ASSUME IInv, UNCHANGED <<ledger, events, github, running, watch, started>>,
         paused' \in BOOLEAN, site' \subseteq Problems, faults' \in 0..MaxFaults,
         clock' \in Instants, clock <= clock', clock' <= Len(ledger) * MinInterval
  PROVE  IInv'
<1>1. TypeOK'
  BY DEF IInv, TypeOK, Rng
<1>2. Numbered'
  BY DEF IInv, Numbered
<1>3. Timed'
  <2>1. clock \in Int /\ clock' \in Int /\ DOMAIN ledger = 1..Len(ledger)
        /\ \A i \in DOMAIN ledger : ledger[i].finished \in Int
    BY LinesAreTyped DEF IInv, TypeOK, Instants, Entry
  <2> QED
    BY <2>1 DEF IInv, Timed
<1>4. Len(ledger') \in Nat /\ Len(events') \in Nat /\ Grows(ledger, ledger') /\ Grows(events, events')
  BY LinesAreTyped DEF Grows
<1>5. Prepared'
  BY <1>4, StaysPrepared
<1>6. Observed' /\ Traced' /\ Rows' = Rows
  BY StaysObserved, StaysTraced
<1>7. Archived' = Archived
  BY <1>6 DEF Archived
<1>8. ReviewQueueBounded'
  <2>1. Cardinality(running') \in Nat /\ Cardinality(running') <= Cardinality(running)
    BY FS_CardinalityType DEF IInv, Numbered
  <2> QED
    BY <1>7, <2>1, QueueShrinks
<1> QED
  BY <1>1, <1>2, <1>3, <1>5, <1>6, <1>8 DEF IInv

(* The latest session is the last of the ledger.                           *)
LEMMA LatestSession ==
  ASSUME IInv, ledger # <<>>
  PROVE  \E k \in DOMAIN ledger : latest_session_time = ledger[k].finished
<1> DEFINE S == {e.finished : e \in Rng(ledger)}
           Good(t) == \A e \in Rng(ledger) : e.finished <= t
           n == Len(ledger)
<1>1. n \in Nat /\ DOMAIN ledger = 1..n /\ n \in DOMAIN ledger
  BY LinesAreTyped
<1>2. ledger[n].finished \in S
  BY <1>1 DEF Rng
<1>3. Good(ledger[n].finished)
  BY <1>1 DEF IInv, Timed, Rng
<1>4. latest_session_time = CHOOSE t \in S : Good(t)
  BY DEF latest_session_time
<1> HIDE DEF S, Good
<1>5. latest_session_time \in S
  BY <1>2, <1>3, <1>4
<1> QED
  BY <1>5 DEF S, Rng

(* An hour passes, within the interval after the last session.             *)
LEMMA TickKeeps ==
  ASSUME IInv, Tick PROVE IInv'
<1>1. /\ MinInterval > 0 /\ ledger # <<>> /\ clock - latest_session_time < MinInterval
      /\ clock' = clock + 1
      /\ UNCHANGED <<ledger, events, github, paused, site, running, watch, started, faults>>
  BY DEF Tick, check_session_interval
<1>2. PICK k \in DOMAIN ledger : latest_session_time = ledger[k].finished
  BY <1>1, LatestSession
<1> DEFINE n == Len(ledger)
           m == ledger[k].finished
<1>3. n \in Nat /\ k \in 1..n /\ clock \in Nat
  BY LinesAreTyped DEF IInv, TypeOK, Instants
<1>4. m \in Nat /\ m <= (k - 1) * MinInterval
  BY LinesAreTyped DEF IInv, Timed, Entry, Instants
<1>5. n <= MaxSessions
  <2>1. n + Cardinality(running) <= started /\ started \in 0..MaxSessions /\ Cardinality(running) \in Nat
    BY FS_CardinalityType DEF IInv, TypeOK, Numbered
  <2> QED
    BY <1>3, <2>1
<1> HIDE DEF n, m
<1>6. MinInterval * (k - 1) <= MinInterval * (n - 1)
  <2>1. k - 1 \in Nat /\ n - 1 \in Nat /\ k - 1 <= n - 1
    BY <1>3
  <2> QED
    BY <2>1, TimesGrows
<1>7. /\ (k - 1) * MinInterval = MinInterval * (k - 1) /\ MinInterval * (k - 1) \in Int
      /\ MinInterval * (n - 1) + MinInterval = n * MinInterval /\ n * MinInterval \in Int
      /\ MinInterval * (n - 1) \in Int
  BY <1>3
<1>8. clock < m + MinInterval
  BY <1>1, <1>2, <1>3, <1>4 DEF m
<1>9. clock' \in Nat /\ clock <= clock' /\ clock' <= n * MinInterval
  BY <1>1, <1>3, <1>4, <1>6, <1>7, <1>8
<1>10. n * MinInterval <= MaxSessions * MinInterval /\ MaxSessions * MinInterval \in Nat
  <2>1. MinInterval * n <= MinInterval * MaxSessions /\ MinInterval * MaxSessions \in Nat
    BY <1>3, <1>5, TimesGrows
  <2>2. MinInterval * n = n * MinInterval /\ MinInterval * MaxSessions = MaxSessions * MinInterval
    BY <1>3
  <2> QED
    BY <2>1, <2>2
<1>11. clock' \in Instants
  BY <1>7, <1>9, <1>10 DEF Instants
<1>12. paused' \in BOOLEAN /\ site' \subseteq Problems /\ faults' \in 0..MaxFaults
  BY <1>1 DEF IInv, TypeOK
<1> QED
  BY <1>1, <1>9, <1>11, <1>12, Aside DEF n

(* Preflight that refuses, problems of the site and the operator's part.   *)
LEMMA AsideKeeps ==
  ASSUME IInv, Refuse \/ Spoil \/ Repair \/ RemovePause PROVE IInv'
<1>1. /\ UNCHANGED <<ledger, events, github, running, watch, clock, started>>
      /\ site' \subseteq Problems /\ faults' \in 0..MaxFaults
  BY DEF IInv, TypeOK, Refuse, Spoil, Repair, RemovePause
<1>2. paused' \in BOOLEAN
  <2>1. CASE Refuse
    <3>1. paused' = (paused \/ check_zero_accepted_breaker)
      BY <2>1 DEF Refuse
    <3> HIDE DEF Urls
    <3> QED
      BY <3>1
  <2>2. CASE Spoil \/ Repair \/ RemovePause
    BY <2>2 DEF IInv, TypeOK, Spoil, Repair, RemovePause
  <2> QED
    BY <2>1, <2>2
<1>3. clock' \in Instants /\ clock <= clock' /\ clock' <= Len(ledger) * MinInterval
  <2>1. clock \in Instants /\ clock <= Len(ledger) * MinInterval
    BY DEF IInv, TypeOK, Timed
  <2>2. clock \in Nat
    BY <2>1 DEF Instants
  <2> QED
    BY <1>1, <2>1, <2>2
<1> QED
  BY <1>1, <1>2, <1>3, Aside

(* An object that is not final moves on and stays what it is.              *)
LEMMA ObjectMoves ==
  ASSUME IInv, NEW u \in Urls, github[u].kind \notin Terminal, NEW k \in Kinds,
         k \in PrKinds <=> github[u].kind \in PrKinds,
         github' = [github EXCEPT ![u].kind = k], faults' \in 0..MaxFaults,
         UNCHANGED <<ledger, events, paused, site, running, watch, clock, started>>
  PROVE  IInv'
<1>1. github[u] \in [kind : Kinds, sig : Sigs, knew : Nat \X Nat]
  BY DEF IInv, TypeOK
<1> DEFINE g == [github[u] EXCEPT !.kind = k]
<1>2. /\ g \in [kind : Kinds, sig : Sigs, knew : Nat \X Nat]
      /\ g.kind = k /\ g.sig = github[u].sig /\ g.knew = github[u].knew
  BY <1>1
<1> HIDE DEF g
<1>3. DOMAIN github' = DOMAIN github /\ github'[u] = g /\ \A v \in Urls \ {u} : github'[v] = github[v]
  BY DEF g
<1>4. TypeOK'
  <2>1. \A v \in Urls' : github'[v] \in [kind : Kinds, sig : Sigs, knew : Nat \X Nat]
    BY <1>2, <1>3 DEF IInv, TypeOK
  <2>2. /\ Urls' = Urls /\ Urls \subseteq Objects
        /\ \A e \in Rng(events) : e.url \in Urls
        /\ Rng(events)' = Rng(events)
    BY <1>3 DEF IInv, TypeOK, Rng
  <2> HIDE DEF Urls
  <2> QED
    BY <2>1, <2>2 DEF IInv, TypeOK, Urls
<1>5. Numbered' /\ Timed'
  BY <1>3 DEF IInv, Numbered, Timed
<1>6. Len(ledger') \in Nat /\ Len(events') \in Nat /\ Grows(ledger, ledger') /\ Grows(events, events')
  BY LinesAreTyped DEF Grows
<1>7. \A v \in Urls' : v \in Urls /\ github'[v].knew = github[v].knew /\ github'[v].sig = github[v].sig
  BY <1>2, <1>3
<1>8. Prepared'
  BY <1>6, <1>7, StaysPrepared
<1>9. \A v \in Urls : /\ v \in Urls'
                      /\ github[v].kind \in PrKinds <=> github'[v].kind \in PrKinds
                      /\ github[v].kind \in Terminal => github'[v].kind = github[v].kind
                      /\ github'[v].kind \in Kinds
  BY <1>2, <1>3, <1>4 DEF TypeOK
<1>10. Traced' /\ Rows' = Rows
  <2>1. \A v \in Urls : github[v].kind \in IssueKinds => github'[v].kind \in IssueKinds
    BY <1>9 DEF Kinds, IssueKinds, PrKinds
  <2> QED
    BY <1>9, <2>1, StaysTraced
<1>11. Observed'
  BY <1>9, StaysObserved
<1>12. Archived' \subseteq Archived
  BY <1>2, <1>3, <1>10 DEF Archived
<1>13. ReviewQueueBounded'
  <2>1. Cardinality(running') \in Nat /\ Cardinality(running') <= Cardinality(running)
    BY FS_CardinalityType DEF IInv, Numbered
  <2> QED
    BY <1>12, <2>1, QueueShrinks
<1> QED
  BY <1>4, <1>5, <1>8, <1>10, <1>11, <1>13 DEF IInv

(* Reviewers merge and close; pull requests are neglected.                 *)
LEMMA WorldKeeps ==
  ASSUME IInv, NEW u \in Urls, Settle(u) \/ Neglect(u) PROVE IInv'
<1>1. github[u].kind \in Kinds
  BY DEF IInv, TypeOK
<1>2. CASE Settle(u)
  <2>1. PICK k \in Terminal : /\ (k \in IssueKinds) <=> (github[u].kind \in IssueKinds)
                              /\ github' = [github EXCEPT ![u].kind = k]
    BY <1>2 DEF Settle
  <2>2. k \in Kinds /\ (k \in PrKinds <=> github[u].kind \in PrKinds)
    BY <1>1, <2>1 DEF Kinds, PrKinds, IssueKinds, Terminal
  <2>3. /\ github[u].kind \notin Terminal /\ faults' \in 0..MaxFaults
        /\ UNCHANGED <<ledger, events, paused, site, running, watch, clock, started>>
    BY <1>2 DEF Settle, IInv, TypeOK
  <2> QED
    BY <2>1, <2>2, <2>3, ObjectMoves
<1>3. CASE Neglect(u)
  <2>1. PICK k \in {"pr_stale", "pr_branch_deleted", "pr_force_pushed"} :
          github' = [github EXCEPT ![u].kind = k]
    BY <1>3 DEF Neglect
  <2>2. github[u].kind \in {"pr_open", "pr_force_pushed", "pr_stale"}
    BY <1>3 DEF Neglect
  <2>3. k \in Kinds /\ (k \in PrKinds <=> github[u].kind \in PrKinds) /\ github[u].kind \notin Terminal
    BY <2>1, <2>2 DEF Kinds, PrKinds, IssueKinds, Terminal
  <2>4. /\ faults' \in 0..MaxFaults
        /\ UNCHANGED <<ledger, events, paused, site, running, watch, clock, started>>
    <3>1. faults \in 0..MaxFaults
      BY DEF IInv, TypeOK
    <3>2. /\ faults < MaxFaults /\ faults' = faults + 1
          /\ UNCHANGED <<ledger, events, paused, site, running, watch, clock, started>>
      BY <1>3 DEF Neglect
    <3> QED
      BY <3>1, <3>2
  <2> QED
    BY <2>1, <2>3, <2>4, ObjectMoves
<1> QED
  BY <1>2, <1>3

(* A pull request under review is open for the limit too: what the history *)
(* calls merged or closed is.                                              *)
LEMMA ArchivedIsOpen ==
  ASSUME IInv PROVE Archived \subseteq open_pr_urls
<1>1. ASSUME NEW u \in Archived PROVE u \in open_pr_urls
  <2>1. PICK r \in Rows : r.pr = u
    BY DEF Archived
  <2>2. u \in Urls /\ github[u].kind \notin Terminal /\ u # None
    BY DEF Archived, IInv, TypeOK
  <2>3. latest_artifact_state(events, u) \notin {"pr_merged", "pr_closed_unmerged"}
    <3>1. CASE \A i \in DOMAIN events : events[i].url # u
      <4>1. None \notin {"pr_merged", "pr_closed_unmerged"}
        BY DEF Kinds, PrKinds
      <4> QED
        BY <3>1, <4>1, NoLineNoState
    <3>2. CASE \E k \in DOMAIN events : events[k].url = u
      <4>1. PICK i \in DOMAIN events : events[i].url = u /\ latest_artifact_state(events, u) = events[i].kind
        BY <3>2, LatestIsLast
      <4>2. events[i].kind \notin Terminal
        BY <2>2, <4>1, LinesAreTrue
      <4> QED
        BY <4>1, <4>2 DEF Terminal
    <3> QED
      BY <3>1, <3>2
  <2> QED
    BY <2>1, <2>2, <2>3 DEF open_pr_urls
<1> QED
  BY <1>1

(* Preflight lets a session start only while the queue has room.           *)
LEMMA RoomToStart ==
  ASSUME IInv, ~has_failures
  PROVE  MaxOpenPrs > 0 /\ Cardinality(Archived) <= MaxOpenPrs - 1
<1>1. ~check_open_pr_limit
  <2>1. check_operator_gates = {}
    BY DEF has_failures
  <2>2. check_open_pr_limit => "max-open-agent-prs" \in check_operator_gates
    BY DEF check_operator_gates
  <2> QED
    BY <2>1, <2>2
<1> DEFINE f == [r \in Rows |-> r.pr]
           T == {f[r] : r \in Rows}
           n == Cardinality(open_pr_urls)
           a == Cardinality(Archived)
<1>2. open_pr_urls \subseteq T
  BY DEF open_pr_urls
<1>3. IsFiniteSet(T)
  <2> HIDE DEF f
  <2> QED
    BY ImageIsFinite DEF IInv, Traced
<1> HIDE DEF T
<1>4. IsFiniteSet(open_pr_urls)
  BY <1>2, <1>3, FS_Subset
<1>5. n \in Nat /\ a \in Nat /\ a <= n
  BY <1>4, ArchivedIsOpen, ArchivedIsFinite, FS_Subset, FS_CardinalityType
<1>6. ~(n >= MaxOpenPrs)
  BY <1>1 DEF check_open_pr_limit
<1> HIDE DEF n, a
<1>7. MaxOpenPrs > 0 /\ a <= MaxOpenPrs - 1
  BY <1>5, <1>6
<1> QED
  BY <1>7 DEF a

(* A session starts.                                                       *)
LEMMA StartKeeps ==
  ASSUME IInv, Start PROVE IInv'
<1> DEFINE s == [id |-> started + 1, pc |-> "plan"]
<1>1. /\ started < MaxSessions /\ Cardinality(running) < Parallel /\ ~has_failures
      /\ started' = started + 1 /\ running' = running \union {s}
      /\ UNCHANGED <<ledger, events, github, paused, site, watch, clock, faults>>
  BY DEF Start
<1>2. started \in Nat /\ started + 1 \in 1..MaxSessions
  BY <1>1 DEF IInv, TypeOK
<1>3. s.id = started + 1 /\ s.pc = "plan" /\ s \in Planning
  BY <1>2 DEF Planning
<1> HIDE DEF s
<1>4. TypeOK'
  BY <1>1, <1>2, <1>3 DEF IInv, TypeOK, Rng
<1>5. /\ \A t \in running : t.id \in Nat /\ t.id <= started
      /\ \A i \in DOMAIN ledger : ledger[i].id \in Nat /\ ledger[i].id <= started
      /\ \A u \in Urls : u[1] \in Nat /\ u[1] <= started
  <2>1. \A t \in running : t.id \in Nat
    BY DEF IInv, TypeOK, Planning, Publishing
  <2>2. \A i \in DOMAIN ledger : ledger[i].id \in Nat
    BY LinesAreTyped DEF Entry
  <2>3. \A u \in Urls : u[1] \in Nat
    BY DEF IInv, TypeOK, Objects
  <2> QED
    BY <2>1, <2>2, <2>3 DEF IInv, Numbered
<1>6. s \notin running
  BY <1>2, <1>3, <1>5
<1>7. /\ IsFiniteSet(running') /\ Cardinality(running') = Cardinality(running) + 1
      /\ Cardinality(running) \in Nat /\ Cardinality(running') \in Nat
      /\ Cardinality(running') <= Parallel
  <2>1. IsFiniteSet(running) /\ Cardinality(running) \in Nat
    BY FS_CardinalityType DEF IInv, Numbered
  <2>2. IsFiniteSet(running \union {s}) /\ Cardinality(running \union {s}) = Cardinality(running) + 1
    BY <1>6, <2>1, FS_AddElement
  <2>3. IsFiniteSet(running') /\ Cardinality(running') = Cardinality(running) + 1
    BY <1>1, <2>2
  <2> QED
    BY <1>1, <2>1, <2>3
<1>8. Numbered'
  <2>1. Len(ledger') + Cardinality(running') <= started'
    BY <1>1, <1>2, <1>7, LinesAreTyped DEF IInv, Numbered
  <2>2. \A t \in running' : t.id <= started'
    BY <1>1, <1>2, <1>3, <1>5
  <2>3. \A t, q \in running' : t.id = q.id => t = q
    BY <1>1, <1>2, <1>3, <1>5 DEF IInv, Numbered
  <2>4. \A i \in DOMAIN ledger' : ledger'[i].id <= started' /\ \A t \in running' : t.id # ledger'[i].id
    BY <1>1, <1>2, <1>3, <1>5 DEF IInv, Numbered
  <2>5. \A u \in Urls' : u[1] <= started' /\ \A t \in running' : t.id # u[1]
    BY <1>1, <1>2, <1>3, <1>5 DEF IInv, Numbered
  <2> QED
    BY <1>7, <2>1, <2>2, <2>3, <2>4, <2>5 DEF Numbered
<1>9. Timed'
  BY <1>1 DEF IInv, Timed
<1>10. Observed' /\ Traced' /\ Rows' = Rows
  BY <1>1, StaysObserved, StaysTraced
<1>11. Prepared'
  <2>1. Len(ledger') \in Nat /\ Len(events') \in Nat /\ Grows(ledger, ledger') /\ Grows(events, events')
    BY <1>1, LinesAreTyped DEF Grows
  <2>2. \A t \in running' : t.pc = "publish" => t \in running
    BY <1>1, <1>3
  <2>3. \A u \in Urls' : u \in Urls /\ github'[u].knew = github[u].knew /\ github'[u].sig = github[u].sig
    BY <1>1
  <2> QED
    BY <2>1, <2>2, <2>3, StaysPrepared
<1>12. ReviewQueueBounded'
  <2> DEFINE a == Cardinality(Archived)
             k == Cardinality(running')
  <2>1. Archived' = Archived
    BY <1>1, <1>10 DEF Archived
  <2>2. a \in Nat /\ MaxOpenPrs > 0 /\ a <= MaxOpenPrs - 1
    BY <1>1, RoomToStart, ArchivedIsFinite
  <2>3. MaxRows * k <= MaxRows * Parallel /\ MaxRows * k \in Nat /\ MaxRows * Parallel \in Nat
    BY <1>7, TimesGrows
  <2>4. Cardinality(Archived') = a
    BY <2>1
  <2> HIDE DEF a, k
  <2>5. a + MaxRows * k <= MaxOpenPrs - 1 + MaxRows * Parallel
    BY <2>2, <2>3
  <2> QED
    BY <2>4, <2>5 DEF k, ReviewQueueBounded, Archived
<1> QED
  BY <1>4, <1>8, <1>9, <1>10, <1>11, <1>12 DEF IInv

(* A session reads the history and makes its plan.                         *)
LEMMA PlanKeeps ==
  ASSUME IInv, NEW s \in running, Plan(s) PROVE IInv'
<1>1. s.pc = "plan" /\ UNCHANGED <<ledger, events, github, paused, site, watch, clock, started, faults>>
  BY DEF Plan
<1>2. PICK chosen \in SUBSET {c \in Candidates : decision_for(ledger, events, c.sig) = None} :
        /\ Cardinality(chosen) <= MaxRows
        /\ \A c, d \in chosen : c.sig = d.sig => c = d
        /\ \E ends \in [chosen -> {"pr", "issue", "rejected"}] :
             LET rows == {[sig |-> c.sig, family |-> c.family, end |-> ends[c]] : c \in chosen}
             IN  running' = (running \ {s}) \union
                              {[id |-> s.id, pc |-> "publish", rows |-> rows,
                                knew |-> <<Len(ledger), Len(events)>>]}
  BY DEF Plan
<1>3. PICK ends \in [chosen -> {"pr", "issue", "rejected"}] :
        running' = (running \ {s}) \union
                     {[id |-> s.id, pc |-> "publish",
                       rows |-> {[sig |-> c.sig, family |-> c.family, end |-> ends[c]] : c \in chosen},
                       knew |-> <<Len(ledger), Len(events)>>]}
  BY <1>2
<1> DEFINE rows == {[sig |-> c.sig, family |-> c.family, end |-> ends[c]] : c \in chosen}
           knew == <<Len(ledger), Len(events)>>
           p == [id |-> s.id, pc |-> "publish", rows |-> rows, knew |-> knew]
<1>4. running' = (running \ {s}) \union {p}
  BY <1>3
<1>5. ASSUME NEW t \in rows
      PROVE  t \in Target /\ \E c \in chosen : t = [sig |-> c.sig, family |-> c.family, end |-> ends[c]]
                                              /\ t.sig = c.sig
  BY DEF Target, Sigs, Families
<1>6. IsFiniteSet(rows) /\ Cardinality(rows) <= MaxRows
  <2> DEFINE f == [c \in chosen |-> [sig |-> c.sig, family |-> c.family, end |-> ends[c]]]
             T == {f[c] : c \in chosen}
  <2>1. rows = T
    OBVIOUS
  <2>2. IsFiniteSet(chosen) /\ Cardinality(chosen) \in Nat
    <3>1. chosen \subseteq Candidates
      OBVIOUS
    <3> QED
      BY <3>1, FS_Subset, FS_CardinalityType
  <2>3. IsFiniteSet(T) /\ Cardinality(T) <= Cardinality(chosen)
    <3> HIDE DEF f
    <3> QED
      BY <2>2, ImageIsFinite
  <2> HIDE DEF T, rows
  <2>4. Cardinality(T) \in Nat
    BY <2>3, FS_CardinalityType
  <2> QED
    BY <1>2, <2>1, <2>2, <2>3, <2>4
<1>7. \A t, q \in rows : t.sig = q.sig => t = q
  <2>1. SUFFICES ASSUME NEW t \in rows, NEW q \in rows, t.sig = q.sig PROVE t = q
    OBVIOUS
  <2>2. PICK c \in chosen : t = [sig |-> c.sig, family |-> c.family, end |-> ends[c]] /\ t.sig = c.sig
    BY <1>5
  <2>3. PICK d \in chosen : q = [sig |-> d.sig, family |-> d.family, end |-> ends[d]] /\ q.sig = d.sig
    BY <1>5
  <2>4. c = d
    BY <1>2, <2>1, <2>2, <2>3
  <2> QED
    BY <2>2, <2>3, <2>4
<1>8. \A t \in rows : Informed(knew, t.sig)
  <2>1. ASSUME NEW t \in rows PROVE Informed(knew, t.sig)
    <3>1. PICK c \in chosen : t.sig = c.sig
      BY <1>5
    <3>2. decision_for(ledger, events, t.sig) = None
      BY <3>1
    <3> QED
      BY <3>2, LetThroughIsInformed
  <2> QED
    BY <2>1
<1>9. knew \in Nat \X Nat
  BY LinesAreTyped
<1>10. rows \subseteq Target
  BY <1>5
<1>11. s \in Planning /\ s.id \in 1..MaxSessions
  BY <1>1 DEF IInv, TypeOK, Planning, Publishing
<1> HIDE DEF rows, knew
<1>12. p \in Publishing /\ p.id = s.id /\ p.pc = "publish" /\ p.rows = rows /\ p.knew = knew
  BY <1>9, <1>10, <1>11 DEF Publishing
<1> HIDE DEF p
<1>13. \A t \in running : t.id = s.id => t = s
  BY DEF IInv, Numbered
<1>14. p \notin running \ {s}
  BY <1>12, <1>13
<1>15. /\ IsFiniteSet(running') /\ Cardinality(running') = Cardinality(running)
       /\ Cardinality(running) \in Nat
  <2> DEFINE rest == running \ {s}
  <2>1. IsFiniteSet(running) /\ Cardinality(running) \in Nat
    BY FS_CardinalityType DEF IInv, Numbered
  <2>2. IsFiniteSet(rest) /\ Cardinality(rest) = Cardinality(running) - 1
    BY <2>1, FS_RemoveElement
  <2>3. p \notin rest /\ running' = rest \union {p}
    BY <1>4, <1>14
  <2> HIDE DEF rest
  <2>4. IsFiniteSet(rest \union {p}) /\ Cardinality(rest \union {p}) = Cardinality(rest) + 1
    BY <2>2, <2>3, FS_AddElement
  <2> QED
    BY <2>1, <2>2, <2>3, <2>4
<1>16. TypeOK'
  <2>1. running' \subseteq Planning \union Publishing
    BY <1>4, <1>12 DEF IInv, TypeOK
  <2> QED
    BY <1>1, <2>1 DEF IInv, TypeOK, Rng
<1>17. \A t \in running' : \E q \in running : t.id = q.id
  BY <1>4, <1>12
<1>18. Numbered'
  <2>1. \A t, q \in running' : t.id = q.id => t = q
    BY <1>4, <1>12, <1>13 DEF IInv, Numbered
  <2>2. /\ Cardinality(running') <= Parallel
        /\ Len(ledger') + Cardinality(running') <= started'
    BY <1>1, <1>15 DEF IInv, Numbered
  <2>3. /\ \A t \in running' : t.id <= started'
        /\ \A i \in DOMAIN ledger' : ledger'[i].id <= started' /\ \A t \in running' : t.id # ledger'[i].id
        /\ \A u \in Urls' : u[1] <= started' /\ \A t \in running' : t.id # u[1]
    BY <1>1, <1>17 DEF IInv, Numbered
  <2> QED
    BY <1>15, <2>1, <2>2, <2>3 DEF Numbered
<1>19. Timed'
  BY <1>1 DEF IInv, Timed
<1>20. Observed' /\ Traced' /\ Rows' = Rows
  BY <1>1, StaysObserved, StaysTraced
<1>21. Prepared'
  <2>1. \A k, g : Informed(k, g)' <=> Informed(k, g)
    BY <1>1 DEF Informed, KnownWork, KnownFailures, Said, Doubted, Filed
  <2>2. ASSUME NEW t \in running', t.pc = "publish"
        PROVE  /\ IsFiniteSet(t.rows) /\ Cardinality(t.rows) <= MaxRows
               /\ \A x, y \in t.rows : x.sig = y.sig => x = y
               /\ \A x \in t.rows : Informed(t.knew, x.sig)
    <3>1. CASE t = p
      BY <1>6, <1>7, <1>8, <1>12, <3>1
    <3>2. CASE t \in running
      BY <2>2, <3>2 DEF IInv, Prepared
    <3> QED
      BY <1>4, <3>1, <3>2
  <2>3. ASSUME NEW u \in Urls' PROVE Informed(github'[u].knew, github'[u].sig)
    BY <1>1 DEF IInv, Prepared
  <2> QED
    BY <2>1, <2>2, <2>3 DEF Prepared
<1>22. ReviewQueueBounded'
  <2>1. Archived' = Archived
    BY <1>1, <1>20 DEF Archived
  <2> QED
    BY <1>15, <2>1, QueueShrinks
<1> QED
  BY <1>16, <1>18, <1>19, <1>20, <1>21, <1>22 DEF IInv

(* A session ends: it may leave an entry and objects of its own.           *)
Ends(s) ==
  /\ running' = running \ {s} /\ faults' \in 0..MaxFaults
  /\ UNCHANGED <<events, paused, site, watch, clock, started>>
Files(s, e) ==
  /\ e.id = s.id /\ e.finished = clock /\ ledger' \in {ledger, Append(ledger, e)}
  /\ IsFiniteSet(e.rows) /\ Cardinality(e.rows) <= MaxRows
  /\ \A r \in e.rows : /\ r.pr # None => r.pr \in Urls' /\ github'[r.pr].kind \in PrKinds
                       /\ r.issue # None => r.issue \in Urls' /\ github'[r.issue].kind \in IssueKinds
Opens(s) ==
  /\ Urls' \subseteq Objects
  /\ \A u \in Urls : u \in Urls' /\ github'[u] = github[u]
  /\ \A u \in Urls' : github'[u] \in [kind : Kinds, sig : Sigs, knew : Nat \X Nat]
  /\ \A u \in Urls' : u \notin Urls =>
       /\ u[1] = s.id /\ s.pc = "publish" /\ github'[u].knew = s.knew
       /\ \E t \in s.rows : github'[u].sig = t.sig

(* The ledger it leaves.                                                   *)
LEMMA LedgerAfter ==
  ASSUME IInv, NEW s, NEW e \in Entry, Files(s, e)
  PROVE  /\ Len(ledger') \in Nat /\ DOMAIN ledger' = 1..Len(ledger') /\ ledger' \in Seq(Entry)
         /\ Len(ledger) <= Len(ledger') /\ Len(ledger') <= Len(ledger) + 1
         /\ \A i \in 1..Len(ledger) : ledger'[i] = ledger[i]
         /\ \A i \in DOMAIN ledger' :
              (i \in 1..Len(ledger) /\ ledger'[i] = ledger[i]) \/ (i = Len(ledger) + 1 /\ ledger'[i] = e)
<1>1. ledger \in Seq(Entry) /\ ledger' \in {ledger, Append(ledger, e)}
  BY DEF IInv, TypeOK, Files
<1>2. CASE ledger' = ledger
  BY <1>1, <1>2
<1>3. CASE ledger' = Append(ledger, e)
  BY <1>1, <1>3
<1> QED
  BY <1>1, <1>2, <1>3

(* The invariant holds after it.                                           *)
LEMMA Leaves ==
  ASSUME IInv, NEW s \in running, NEW e \in Entry, Ends(s), Files(s, e), Opens(s)
  PROVE  IInv'
<1> DEFINE n == Len(ledger)
           m == Len(ledger')
<1>1. /\ n \in Nat /\ m \in Nat /\ n <= m /\ m <= n + 1
      /\ DOMAIN ledger = 1..n /\ DOMAIN ledger' = 1..m
  BY LinesAreTyped, LedgerAfter
<1>new. \A i \in DOMAIN ledger' :
          (i \in 1..n /\ ledger'[i] = ledger[i]) \/ (i = n + 1 /\ ledger'[i] = e)
  BY LedgerAfter
<1>old. \A i \in 1..n : ledger'[i] = ledger[i]
  BY LedgerAfter
<1>e. e.id = s.id /\ e.finished = clock
  BY DEF Files
<1>same. UNCHANGED <<events, paused, site, watch, clock, started>> /\ running' = running \ {s}
  BY DEF Ends
<1> HIDE DEF n, m
<1>2. \A i \in 1..n : /\ ledger[i].id <= started /\ (\A t \in running : t.id # ledger[i].id)
                      /\ ledger[i].finished <= clock /\ ledger[i].finished <= (i - 1) * MinInterval
                      /\ ledger[i].finished \in Nat
  <2>1. \A i \in 1..n : ledger[i] \in Entry
    BY <1>1, LinesAreTyped
  <2>2. \A d \in Entry : d.finished \in Nat
    BY DEF Entry, Instants
  <2> QED
    BY <1>1, <2>1, <2>2 DEF IInv, Numbered, Timed
<1>3. clock \in Nat /\ clock <= n * MinInterval
  BY DEF IInv, TypeOK, Timed, Instants, n
<1>4. \A t \in running : t.id = s.id => t = s
  BY DEF IInv, Numbered
<1>5. /\ IsFiniteSet(running') /\ Cardinality(running') = Cardinality(running) - 1
      /\ Cardinality(running) \in Nat /\ Cardinality(running') \in Nat
  <2>1. IsFiniteSet(running) /\ Cardinality(running) \in Nat
    BY FS_CardinalityType DEF IInv, Numbered
  <2>2. IsFiniteSet(running \ {s}) /\ Cardinality(running \ {s}) = Cardinality(running) - 1
    BY <2>1, FS_RemoveElement
  <2>3. Cardinality(running \ {s}) \in Nat
    BY <2>2, FS_CardinalityType
  <2> QED
    BY <1>same, <2>1, <2>2, <2>3
<1>6. TypeOK'
  <2>1. \A i, j \in DOMAIN ledger' : ledger'[i].id = ledger'[j].id => i = j
    <3>1. \A i, j \in 1..n : ledger[i].id = ledger[j].id => i = j
      BY <1>1 DEF IInv, TypeOK
    <3>2. SUFFICES ASSUME NEW i \in DOMAIN ledger', NEW j \in DOMAIN ledger', ledger'[i].id = ledger'[j].id
                   PROVE  i = j
      OBVIOUS
    <3>3. CASE i \in 1..n /\ j \in 1..n
      BY <1>old, <3>1, <3>2, <3>3
    <3>4. CASE i \in 1..n /\ j = n + 1 /\ ledger'[j] = e
      BY <1>old, <1>2, <1>e, <3>2, <3>4
    <3>5. CASE i = n + 1 /\ ledger'[i] = e /\ j \in 1..n
      BY <1>old, <1>2, <1>e, <3>2, <3>5
    <3>6. CASE i = n + 1 /\ j = n + 1
      BY <3>6
    <3> QED
      BY <1>new, <3>3, <3>4, <3>5, <3>6
  <2>2. \A d \in Rng(events') : d.url \in Urls'
    BY <1>same DEF IInv, TypeOK, Rng, Opens
  <2>3. /\ events' \in Seq(Event) /\ watch' \subseteq Inquiry
        /\ running' \subseteq Planning \union Publishing
        /\ paused' \in BOOLEAN /\ site' \subseteq Problems
        /\ clock' \in Instants /\ started' \in 0..MaxSessions /\ faults' \in 0..MaxFaults
    BY <1>same DEF IInv, TypeOK, Ends
  <2>4. /\ DOMAIN github' \subseteq Objects
        /\ \A u \in Urls' : github'[u] \in [kind : Kinds, sig : Sigs, knew : Nat \X Nat]
    BY DEF Opens
  <2>5. ledger' \in Seq(Entry)
    BY LedgerAfter
  <2> QED
    BY <2>5, <2>1, <2>2, <2>3, <2>4 DEF TypeOK, Rng
<1>7. Numbered'
  <2>1. started \in Nat /\ s.id <= started
    BY DEF IInv, TypeOK, Numbered
  <2>2. n + Cardinality(running) <= started /\ Cardinality(running) <= Parallel
    BY DEF IInv, Numbered, n
  <2>3. m + Cardinality(running') <= started' /\ Cardinality(running') <= Parallel
    <3> DEFINE a == Cardinality(running)
               b == Cardinality(running')
    <3>1. a \in Nat /\ b = a - 1 /\ n + a <= started /\ a <= Parallel /\ started' = started
      BY <1>5, <1>same, <2>2
    <3> HIDE DEF a, b
    <3>2. m + b <= started' /\ b <= Parallel
      BY <1>1, <2>1, <3>1
    <3> QED
      BY <3>2 DEF b
  <2>4. \A t \in running' : t \in running /\ t.id # s.id /\ t.id <= started'
    BY <1>4, <1>same DEF IInv, Numbered
  <2>5. \A i \in DOMAIN ledger' : ledger'[i].id <= started' /\ \A t \in running' : t.id # ledger'[i].id
    BY <1>new, <1>2, <1>e, <1>same, <2>1, <2>4
  <2>6. \A u \in Urls' : u[1] <= started' /\ \A t \in running' : t.id # u[1]
    <3>1. \A u \in Urls : u[1] <= started /\ \A t \in running : t.id # u[1]
      BY DEF IInv, Numbered
    <3> QED
      BY <1>same, <2>1, <2>4, <3>1 DEF Opens
  <2>7. \A t, q \in running' : t.id = q.id => t = q
    BY <2>4 DEF IInv, Numbered
  <2> QED
    BY <1>5, <2>3, <2>4, <2>5, <2>6, <2>7 DEF Numbered, m
<1>8. Timed'
  <2>1. MinInterval * n <= MinInterval * m /\ MinInterval * m \in Nat /\ MinInterval * n \in Nat
    BY <1>1, TimesGrows
  <2>2. MinInterval * n = n * MinInterval /\ MinInterval * m = m * MinInterval
    BY <1>1
  <2>3. clock' <= m * MinInterval
    BY <1>3, <1>same, <2>1, <2>2
  <2>4. \A i \in DOMAIN ledger' : ledger'[i].finished <= clock' /\ ledger'[i].finished <= (i - 1) * MinInterval
    <3>1. SUFFICES ASSUME NEW i \in DOMAIN ledger'
                   PROVE  ledger'[i].finished <= clock' /\ ledger'[i].finished <= (i - 1) * MinInterval
      OBVIOUS
    <3>2. CASE i \in 1..n /\ ledger'[i] = ledger[i]
      BY <1>2, <1>same, <3>2
    <3>3. CASE i = n + 1 /\ ledger'[i] = e
      <4>1. i - 1 = n
        BY <1>1, <3>3
      <4> QED
        BY <1>3, <1>e, <1>same, <3>3, <4>1
    <3> QED
      BY <1>new, <3>2, <3>3
  <2>5. \A i, j \in DOMAIN ledger' : i <= j => ledger'[i].finished <= ledger'[j].finished
    <3>1. SUFFICES ASSUME NEW i \in DOMAIN ledger', NEW j \in DOMAIN ledger', i <= j
                   PROVE  ledger'[i].finished <= ledger'[j].finished
      OBVIOUS
    <3>2. CASE j \in 1..n
      <4>1. i \in 1..n
        <5>1. i \in 1..m /\ j \in 1..m
          BY <1>1
        <5> QED
          BY <1>1, <3>1, <3>2, <5>1
      <4>2. ledger[i].finished <= ledger[j].finished
        BY <1>1, <3>1, <3>2, <4>1 DEF IInv, Timed
      <4> QED
        BY <1>old, <3>2, <4>1, <4>2
    <3>3. CASE j = n + 1 /\ ledger'[j] = e
      BY <1>e, <1>same, <2>4, <3>3
    <3> QED
      BY <1>new, <3>2, <3>3
  <2> QED
    BY <2>3, <2>4, <2>5 DEF Timed, m
<1>9. Observed'
  BY <1>same, StaysObserved DEF Opens
<1>10. \A r \in Rows' : r \in Rows \/ r \in e.rows
  <2>1. SUFFICES ASSUME NEW r \in Rows' PROVE r \in Rows \/ r \in e.rows
    OBVIOUS
  <2>2. PICK i \in DOMAIN ledger' : r \in ledger'[i].rows
    BY DEF Rows, Rng
  <2> QED
    BY <1>1, <1>new, <2>2 DEF Rows, Rng
<1>11. \A r \in Rows : /\ r.pr # None => r.pr \in Urls /\ github[r.pr].kind \in PrKinds
                       /\ r.issue # None => r.issue \in Urls /\ github[r.issue].kind \in IssueKinds
  BY DEF IInv, Traced
<1>12. Traced'
  <2>1. IsFiniteSet(Rows \union e.rows)
    BY FS_Union DEF IInv, Traced, Files
  <2>2. Rows' \subseteq Rows \union e.rows
    BY <1>10
  <2>3. IsFiniteSet(Rows')
    BY <2>1, <2>2, FS_Subset
  <2>4. \A r \in Rows' : /\ r.pr # None => r.pr \in Urls' /\ github'[r.pr].kind \in PrKinds
                         /\ r.issue # None => r.issue \in Urls' /\ github'[r.issue].kind \in IssueKinds
    BY <1>10, <1>11 DEF Files, Opens
  <2> QED
    BY <2>3, <2>4 DEF Traced
<1>13. Prepared'
  <2>1. Len(ledger') \in Nat /\ Grows(ledger, ledger')
    BY <1>1, <1>old DEF Grows, n, m
  <2>events. Len(events') \in Nat /\ Grows(events, events')
    BY <1>same, LinesAreTyped DEF Grows
  <2>2. \A t \in running' : t.pc = "publish" => t \in running
    BY <1>same
  <2>3. \A u \in Urls' :
          \/ u \in Urls /\ github'[u].knew = github[u].knew /\ github'[u].sig = github[u].sig
          \/ \E t \in running : /\ t.pc = "publish" /\ github'[u].knew = t.knew
                                /\ \E q \in t.rows : github'[u].sig = q.sig
    BY DEF Opens
  <2> QED
    BY <2>1, <2>events, <2>2, <2>3, StaysPrepared
<1>14. ReviewQueueBounded'
  <2> DEFINE f == [r \in e.rows |-> r.pr]
             N == {f[r] : r \in e.rows}
             a == Cardinality(Archived)
             b == Cardinality(Archived')
             x == Cardinality(N)
             k == Cardinality(running)
             j == Cardinality(running')
  <2>1. \A u \in Archived' : u \in Archived \/ u \in N
    <3>1. SUFFICES ASSUME NEW u \in Archived' PROVE u \in Archived \/ u \in N
      OBVIOUS
    <3>2. u \in Urls' /\ u # None /\ github'[u].kind \in PrKinds \ Terminal /\ \E r \in Rows' : r.pr = u
      BY DEF Archived, Opens
    <3>3. PICK r \in Rows' : r.pr = u
      BY <3>2
    <3>4. CASE r \in Rows
      <4>1. u \in Urls /\ github'[u] = github[u]
        BY <1>11, <3>2, <3>3, <3>4 DEF Opens
      <4> QED
        BY <3>2, <3>3, <3>4, <4>1 DEF Archived
    <3>5. CASE r \in e.rows
      BY <3>3, <3>5
    <3> QED
      BY <1>10, <3>4, <3>5
  <2>2. IsFiniteSet(N) /\ x <= Cardinality(e.rows)
    <3> HIDE DEF f
    <3> QED
      BY ImageIsFinite DEF Files
  <2> HIDE DEF N
  <2>3. x \in Nat /\ x <= MaxRows /\ Cardinality(e.rows) \in Nat
    <3>1. x \in Nat /\ Cardinality(e.rows) \in Nat /\ Cardinality(e.rows) <= MaxRows
      BY <2>2, FS_CardinalityType DEF Files
    <3> HIDE DEF x
    <3> QED
      BY <2>2, <3>1
  <2>4. IsFiniteSet(Archived \union N) /\ Cardinality(Archived \union N) \in Nat
        /\ Cardinality(Archived \union N) <= a + x
    <3>1. Cardinality(Archived \intersect N) \in Nat
      BY <2>2, ArchivedIsFinite, FS_Intersection, FS_CardinalityType
    <3>2. /\ IsFiniteSet(Archived \union N) /\ Cardinality(Archived \union N) \in Nat
          /\ Cardinality(Archived \union N) = a + x - Cardinality(Archived \intersect N)
      BY <2>2, ArchivedIsFinite, FS_Union, FS_CardinalityType
    <3> QED
      BY <2>3, <3>1, <3>2, ArchivedIsFinite
  <2>5. b \in Nat /\ b <= Cardinality(Archived \union N)
    <3>1. Archived' \subseteq Archived \union N
      BY <2>1
    <3> QED
      BY <2>4, <3>1, FS_Subset, FS_CardinalityType
  <2>6. a \in Nat /\ k \in Nat /\ j \in Nat /\ j = k - 1
    BY <1>5, ArchivedIsFinite
  <2>7. MaxOpenPrs > 0 => a + MaxRows * k <= MaxOpenPrs - 1 + MaxRows * Parallel
    BY DEF IInv, ReviewQueueBounded, Archived
  <2> HIDE DEF a, b, x, k, j
  <2>8. MaxRows * k = MaxRows * j + MaxRows /\ MaxRows * j \in Nat /\ MaxRows * Parallel \in Nat
    BY <2>6
  <2>9. MaxOpenPrs > 0 => b + MaxRows * j <= MaxOpenPrs - 1 + MaxRows * Parallel
    BY <2>3, <2>4, <2>5, <2>6, <2>7, <2>8
  <2> QED
    BY <2>9 DEF b, j, ReviewQueueBounded, Archived
<1> QED
  BY <1>6, <1>7, <1>8, <1>9, <1>12, <1>13, <1>14 DEF IInv

(* Every accepted target of a session gets an object of its own, which no  *)
(* session had before.                                                     *)
LEMMA PublishedIs ==
  ASSUME IInv, NEW s \in running, s.pc = "publish", github' = Published(s)
  PROVE  /\ Opens(s)
         /\ \A t \in s.rows : t.end # "rejected" =>
              /\ Url(s.id, t.sig) \in Urls'
              /\ github'[Url(s.id, t.sig)].kind = IF t.end = "pr" THEN "pr_open" ELSE "issue_open"
<1>1. s \in Publishing
  BY DEF IInv, TypeOK, Planning
<1>2. s.id \in 1..MaxSessions /\ s.rows \subseteq Target /\ s.knew \in Nat \X Nat
  BY <1>1 DEF Publishing
<1>3. \A t \in Target : t.sig \in Sigs /\ t.end \in {"pr", "issue", "rejected"}
  BY DEF Target
<1> DEFINE accepted == {t \in s.rows : t.end # "rejected"}
           new == {Url(s.id, t.sig) : t \in accepted}
           Of(u) == CHOOSE q \in accepted : Url(s.id, q.sig) = u
<1>4. \A t, q \in s.rows : t.sig = q.sig => t = q
  BY DEF IInv, Prepared
<1>5. \A u \in Urls : u[1] # s.id /\ u \in Objects /\ github[u] \in [kind : Kinds, sig : Sigs, knew : Nat \X Nat]
  BY DEF IInv, TypeOK, Numbered
<1>6. \A t \in accepted : Url(s.id, t.sig) \in Objects /\ Url(s.id, t.sig)[1] = s.id
  BY <1>2, <1>3 DEF Url, Objects
<1>7. ASSUME NEW t \in accepted PROVE Of(Url(s.id, t.sig)) = t
  <2>1. Of(Url(s.id, t.sig)) \in accepted /\ Url(s.id, Of(Url(s.id, t.sig)).sig) = Url(s.id, t.sig)
    OBVIOUS
  <2> HIDE DEF Of
  <2>2. Of(Url(s.id, t.sig)).sig = t.sig
    BY <2>1 DEF Url
  <2> QED
    BY <1>4, <2>1, <2>2
<1>8. DOMAIN github' = Urls \union new
  BY DEF Published
<1>9. \A u \in Urls : github'[u] = github[u]
  BY DEF Published
<1>10. ASSUME NEW t \in accepted
       PROVE  /\ Url(s.id, t.sig) \in Urls' /\ Url(s.id, t.sig) \notin Urls
              /\ github'[Url(s.id, t.sig)] = [kind |-> IF t.end = "pr" THEN "pr_open" ELSE "issue_open",
                                             sig |-> t.sig, knew |-> s.knew]
  <2> DEFINE u == Url(s.id, t.sig)
  <2>1. u \in new /\ u \notin Urls
    BY <1>5, <1>6
  <2>2. Of(u) = t
    BY <1>7
  <2> HIDE DEF u, Of
  <2>3. github'[u] = [kind |-> IF Of(u).end = "pr" THEN "pr_open" ELSE "issue_open",
                      sig |-> Of(u).sig, knew |-> s.knew]
    BY <2>1 DEF Published, Of
  <2> QED
    BY <1>8, <2>1, <2>2, <2>3 DEF u
<1>11. ASSUME NEW t \in accepted
       PROVE  LET u == Url(s.id, t.sig)
              IN  /\ github'[u] \in [kind : Kinds, sig : Sigs, knew : Nat \X Nat]
                  /\ github'[u].knew = s.knew /\ github'[u].sig = t.sig
                  /\ github'[u].kind = IF t.end = "pr" THEN "pr_open" ELSE "issue_open"
  <2>1. t.sig \in Sigs
    BY <1>2, <1>3
  <2> DEFINE u == Url(s.id, t.sig)
             k == IF t.end = "pr" THEN "pr_open" ELSE "issue_open"
  <2>2. k \in Kinds
    BY DEF Kinds, PrKinds, IssueKinds
  <2>3. github'[u] = [kind |-> k, sig |-> t.sig, knew |-> s.knew]
    BY <1>10
  <2> HIDE DEF u, k
  <2>4. /\ github'[u] \in [kind : Kinds, sig : Sigs, knew : Nat \X Nat]
        /\ github'[u].knew = s.knew /\ github'[u].sig = t.sig /\ github'[u].kind = k
    BY <1>2, <2>1, <2>2, <2>3
  <2> QED
    BY <2>4 DEF u, k
<1>12. Opens(s)
  <2>1. \A u \in Urls' : u \in Urls \/ \E t \in accepted : u = Url(s.id, t.sig)
    BY <1>8
  <2>2. Urls' \subseteq Objects
    BY <1>5, <1>6, <2>1
  <2>3. \A u \in Urls : u \in Urls' /\ github'[u] = github[u]
    BY <1>8, <1>9
  <2>4. \A u \in Urls' : github'[u] \in [kind : Kinds, sig : Sigs, knew : Nat \X Nat]
    BY <1>5, <1>9, <1>11, <2>1
  <2>5. \A u \in Urls' : u \notin Urls =>
          /\ u[1] = s.id /\ github'[u].knew = s.knew
          /\ \E t \in s.rows : github'[u].sig = t.sig
    BY <1>6, <1>11, <2>1
  <2> QED
    BY <2>2, <2>3, <2>4, <2>5 DEF Opens
<1>13. \A t \in s.rows : t.end # "rejected" => t \in accepted
  OBVIOUS
<1> HIDE DEF accepted
<1> QED
  BY <1>10, <1>11, <1>12, <1>13

(* The entry of a session whose feedback can be read is what it published. *)
LEMMA ArchivesKeeps ==
  ASSUME IInv, NEW s \in running, PublishAndArchive(s) PROVE IInv'
<1>1. /\ s.pc = "publish" /\ github' = Published(s)
      /\ ledger' = Append(ledger, Record(s, "succeeded", TRUE))
      /\ running' = running \ {s}
      /\ UNCHANGED <<events, paused, site, watch, clock, started, faults>>
  BY DEF PublishAndArchive
<1>2. s \in Publishing
  BY <1>1 DEF IInv, TypeOK, Planning
<1>3. s.id \in 1..MaxSessions /\ s.rows \subseteq Target
  BY <1>2 DEF Publishing
<1> DEFINE RowOf(t) == [sig |-> t.sig, family |-> t.family,
                        status |-> derive_target_status(t.end),
                        pr |-> IF t.end = "pr" THEN Url(s.id, t.sig) ELSE None,
                        issue |-> IF t.end = "issue" THEN Url(s.id, t.sig) ELSE None]
           rows == {RowOf(t) : t \in s.rows}
           e == Record(s, "succeeded", TRUE)
<1>4. e = [id |-> s.id, finished |-> clock, status |-> "succeeded", rows |-> rows]
  BY DEF Record
<1>5. ASSUME NEW t \in s.rows
      PROVE  /\ RowOf(t) \in Row
             /\ RowOf(t).pr # None => RowOf(t).pr \in Urls' /\ github'[RowOf(t).pr].kind \in PrKinds
             /\ RowOf(t).issue # None => RowOf(t).issue \in Urls' /\ github'[RowOf(t).issue].kind \in IssueKinds
  <2>1. t.sig \in Sigs /\ t.family \in Families /\ t.end \in {"pr", "issue", "rejected"}
    BY <1>3 DEF Target
  <2>2. Url(s.id, t.sig) \in Objects /\ derive_target_status(t.end) \in TargetStatuses
    BY <1>3, <2>1 DEF Url, Objects, derive_target_status, TargetStatuses
  <2>3. t.end # "rejected" =>
          /\ Url(s.id, t.sig) \in Urls'
          /\ github'[Url(s.id, t.sig)].kind = IF t.end = "pr" THEN "pr_open" ELSE "issue_open"
    BY <1>1, PublishedIs
  <2>4. RowOf(t) \in Row
    BY <2>1, <2>2 DEF Row
  <2>5. CASE t.end = "pr"
    BY <2>3, <2>4, <2>5 DEF PrKinds
  <2>6. CASE t.end = "issue"
    BY <2>3, <2>4, <2>6 DEF IssueKinds
  <2>7. CASE t.end = "rejected"
    BY <2>4, <2>7
  <2> QED
    BY <2>1, <2>5, <2>6, <2>7
<1>6. IsFiniteSet(rows) /\ Cardinality(rows) <= MaxRows
  <2> DEFINE f == [t \in s.rows |-> RowOf(t)]
             T == {f[t] : t \in s.rows}
  <2>1. rows = T
    OBVIOUS
  <2>2. IsFiniteSet(s.rows) /\ Cardinality(s.rows) \in Nat /\ Cardinality(s.rows) <= MaxRows
    BY <1>1, FS_CardinalityType DEF IInv, Prepared
  <2>3. IsFiniteSet(T) /\ Cardinality(T) <= Cardinality(s.rows)
    <3> HIDE DEF f
    <3> QED
      BY <2>2, ImageIsFinite
  <2> HIDE DEF T, rows
  <2>4. Cardinality(T) \in Nat
    BY <2>3, FS_CardinalityType
  <2> QED
    BY <2>1, <2>2, <2>3, <2>4
<1>7. rows \subseteq Row
  BY <1>5
<1>8. \A r \in rows : /\ r.pr # None => r.pr \in Urls' /\ github'[r.pr].kind \in PrKinds
                      /\ r.issue # None => r.issue \in Urls' /\ github'[r.issue].kind \in IssueKinds
  BY <1>5
<1>9. clock \in Instants
  BY DEF IInv, TypeOK
<1> HIDE DEF rows, e
<1>10. e \in Entry /\ e.id = s.id /\ e.finished = clock /\ e.rows = rows
  BY <1>3, <1>4, <1>7, <1>9 DEF Entry
<1>11. Files(s, e)
  BY <1>1, <1>6, <1>8, <1>10 DEF Files, e
<1>12. Ends(s)
  BY <1>1 DEF Ends, IInv, TypeOK
<1>13. Opens(s)
  BY <1>1, PublishedIs
<1> QED
  BY <1>10, <1>11, <1>12, <1>13, Leaves

(* One that dies, or whose feedback cannot be read, leaves an entry        *)
(* without rows or none.                                                   *)
LEMMA DiesKeeps ==
  ASSUME IInv, NEW s \in running, PublishOnly(s) \/ Die(s) PROVE IInv'
<1>1. PICK st \in {"succeeded", "aborted"} : ledger' \in {ledger, Append(ledger, Record(s, st, FALSE))}
  BY DEF PublishOnly, Die
<1> DEFINE e == Record(s, st, FALSE)
<1>2. e = [id |-> s.id, finished |-> clock, status |-> st, rows |-> {}]
  BY DEF Record
<1>3. s.id \in 1..MaxSessions /\ clock \in Instants
  BY DEF IInv, TypeOK, Planning, Publishing
<1>last. ledger' \in {ledger, Append(ledger, e)}
  BY <1>1
<1> HIDE DEF e
<1>4. e \in Entry /\ e.id = s.id /\ e.finished = clock /\ e.rows = {}
  BY <1>2, <1>3 DEF Entry
<1>5. IsFiniteSet({}) /\ Cardinality({}) = 0
  BY FS_EmptySet
<1>6. Files(s, e)
  <2>1. IsFiniteSet(e.rows) /\ Cardinality(e.rows) <= MaxRows
    BY <1>4, <1>5
  <2> QED
    BY <1>last, <1>4, <2>1 DEF Files
<1>7. Ends(s)
  <2>1. faults < MaxFaults /\ faults' = faults + 1 /\ running' = running \ {s}
    BY DEF PublishOnly, Die
  <2>2. UNCHANGED <<events, paused, site, watch, clock, started>>
    BY DEF PublishOnly, Die
  <2>3. faults' \in 0..MaxFaults
    BY <2>1 DEF IInv, TypeOK
  <2> QED
    BY <2>1, <2>2, <2>3 DEF Ends
<1>8. Opens(s)
  <2>1. CASE PublishOnly(s)
    BY <2>1, PublishedIs DEF PublishOnly
  <2>2. CASE Die(s)
    BY <2>2 DEF Die, Opens, IInv, TypeOK
  <2> QED
    BY <2>1, <2>2
<1> QED
  BY <1>4, <1>6, <1>7, <1>8, Leaves

(* What maintain does changes nothing but its own state and the events.    *)
LEMMA MaintainKeeps ==
  ASSUME IInv, UNCHANGED <<ledger, github, paused, site, running, clock, started>>,
         faults' \in 0..MaxFaults, watch' \subseteq Inquiry, events' \in Seq(Event), Grows(events, events'),
         \A e \in Rng(events)' : e.url \in Urls, Observed'
  PROVE  IInv'
<1>1. TypeOK'
  BY DEF IInv, TypeOK
<1>2. Numbered' /\ Timed'
  BY DEF IInv, Numbered, Timed
<1>3. Traced' /\ Rows' = Rows
  BY StaysTraced
<1>4. Prepared'
  <2>1. Len(ledger') \in Nat /\ Grows(ledger, ledger')
    BY LinesAreTyped DEF Grows
  <2>2. Len(events') \in Nat
    OBVIOUS
  <2> QED
    BY <2>1, <2>2, StaysPrepared
<1>5. ReviewQueueBounded'
  <2>1. Archived' = Archived
    BY <1>3 DEF Archived
  <2>2. Cardinality(running') \in Nat /\ Cardinality(running') <= Cardinality(running)
    BY FS_CardinalityType DEF IInv, Numbered
  <2> QED
    BY <2>1, <2>2, QueueShrinks
<1> QED
  BY <1>1, <1>2, <1>3, <1>4, <1>5 DEF IInv

(* The fields of inquiries.                                                *)
LEMMA InquiriesAreTyped ==
  ASSUME IInv, NEW w \in watch
  PROVE  /\ w \in Inquiry /\ w.by \in Maintainers /\ w.url \in Objects /\ w.url \in Urls /\ w.at \in Nat
         /\ w.known \in Kinds \union {None} /\ w.kind \in Kinds \union {None} /\ w.overlap \in BOOLEAN
<1>1. w \in Inquiry /\ w.url \in Urls
  BY DEF IInv, TypeOK, Observed
<1>2. \A x \in Inquiry : /\ x.by \in Maintainers /\ x.url \in Objects /\ x.at \in Nat
                         /\ x.known \in Kinds \union {None} /\ x.kind \in Kinds \union {None}
  BY DEF Inquiry
<1>3. \A x \in Inquiry : x.overlap \in BOOLEAN
  BY Zenon DEF Inquiry
<1> QED
  BY <1>1, <1>2, <1>3

(* A URL's last line is one of those there may be.                         *)
LEMMA LastLineIsTyped ==
  ASSUME IInv, NEW u PROVE LastLine(u) \in Kinds \union {None}
<1> DEFINE of == {i \in DOMAIN events : events[i].url = u}
<1>1. CASE of = {}
  BY <1>1 DEF LastLine
<1>2. CASE of # {}
  <2>1. of \in SUBSET (0..Len(events))
    BY LinesAreTyped
  <2>2. PICK x \in of : \A y \in of : y <= x
    <3> HIDE DEF of
    <3> QED
      BY <1>2, <2>1, Greatest, LinesAreTyped
  <2> DEFINE c == CHOOSE i \in of : \A j \in of : j <= i
  <2>3. c \in of
    BY <2>2
  <2>4. LastLine(u) = events[c].kind
    BY <1>2 DEF LastLine
  <2> HIDE DEF c
  <2> QED
    BY <2>3, <2>4, LinesAreTyped
<1> QED
  BY <1>1, <1>2

(* A stamp is a time, no earlier than those of the URL's lines and of the  *)
(* invocations that ask about it.                                          *)
LEMMA StampsFollow ==
  ASSUME IInv, NEW u, NEW at \in Stamps(u)
  PROVE  /\ at \in Nat
         /\ \A i \in DOMAIN events : events[i].url = u => events[i].at <= at
<1> DEFINE before == {e \in Rng(events) \union watch : e.url = u}
<1>1. \A e \in before : e.at \in Nat
  BY LinesAreTyped, InquiriesAreTyped DEF Rng
<1>2. CASE before = {}
  <2>1. \A i \in DOMAIN events : events[i].url # u
    BY <1>2 DEF Rng
  <2>2. at = 0
    BY <1>2 DEF Stamps
  <2> QED
    BY <2>1, <2>2
<1>3. CASE before # {}
  <2>1. /\ at \in UNION {{e.at + gap : gap \in Gaps} : e \in before}
        /\ \A e \in before : e.at <= at
    BY <1>3 DEF Stamps
  <2>2. PICK e \in before, gap \in Gaps : at = e.at + gap
    BY <2>1
  <2>3. at \in Nat
    BY <1>1, <2>2
  <2>4. \A i \in DOMAIN events : events[i].url = u => events[i] \in before
    BY DEF Rng
  <2> HIDE DEF before
  <2> QED
    BY <2>1, <2>3, <2>4
<1> QED
  BY <1>2, <1>3

(* An invocation starts: those that ask about the URL overlap from now on, *)
(* and its stamp is no earlier than what the ledger has.                   *)
LEMMA AskKeeps ==
  ASSUME IInv, NEW u \in Urls, Ask(u) PROVE IInv'
<1>1. /\ u \in Urls /\ UNCHANGED <<ledger, events, github, paused, site, running, clock, started>>
      /\ \E m \in Maintainers : Free(m)
      /\ (About(u) = {} /\ faults' = faults) \/ (About(u) # {} /\ faults < MaxFaults /\ faults' = faults + 1)
  BY DEF Ask
<1>2. PICK at \in Stamps(u) :
        watch' = Overlapping(u) \union
                   {[by |-> CHOOSE m \in Maintainers : Free(m), url |-> u, known |-> LastLine(u), at |-> at,
                     kind |-> None, overlap |-> About(u) # {}]}
  BY DEF Ask
<1> DEFINE by == CHOOSE m \in Maintainers : Free(m)
           late == About(u) # {}
           x == [by |-> by, url |-> u, known |-> LastLine(u), at |-> at, kind |-> None, overlap |-> late]
           Marked(w) == [w EXCEPT !.overlap = TRUE]
<1>3. watch' = Overlapping(u) \union {x}
  BY <1>2
<1>4. /\ by \in Maintainers /\ u \in Objects /\ LastLine(u) \in Kinds \union {None} /\ at \in Nat
      /\ \A i \in DOMAIN events : events[i].url = u => events[i].at <= at
  BY <1>1, LastLineIsTyped, StampsFollow DEF IInv, TypeOK
<1> HIDE DEF by
<1>5. x \in Inquiry
  <2>1. late \in BOOLEAN
    OBVIOUS
  <2> HIDE DEF late
  <2> QED
    BY <1>4, <2>1, Zenon DEF Inquiry
<1>6. /\ x.url = u /\ x.at = at /\ x.kind = None
      /\ x.overlap <=> late
  OBVIOUS
<1> HIDE DEF x
<1>7. ASSUME NEW w \in watch
      PROVE  /\ Marked(w) \in Inquiry /\ Marked(w).url = w.url /\ Marked(w).at = w.at
             /\ Marked(w).kind = w.kind /\ Marked(w).overlap
  <2>1. w \in Inquiry
    BY InquiriesAreTyped
  <2>2. Marked(w) \in Inquiry
    BY <2>1 DEF Inquiry
  <2>3. Marked(w).url = w.url /\ Marked(w).at = w.at /\ Marked(w).kind = w.kind
    BY <2>1 DEF Inquiry
  <2>4. Marked(w).overlap
    BY <2>1 DEF Inquiry
  <2> QED
    BY <2>2, <2>3, <2>4
<1>8. ASSUME NEW y \in watch', y # x
      PROVE  \E w \in watch : y = IF w.url = u THEN Marked(w) ELSE w
  BY <1>3, <1>8 DEF Overlapping
<1> HIDE DEF Marked
<1>9. ASSUME NEW y \in watch', y # x
      PROVE  \E w \in watch : /\ y \in Inquiry /\ y.url = w.url /\ y.at = w.at /\ y.kind = w.kind
                              /\ w.url = u => y.overlap
                              /\ w.url # u => y = w
  <2>1. PICK w \in watch : y = IF w.url = u THEN Marked(w) ELSE w
    BY <1>8, <1>9
  <2>2. CASE w.url = u
    BY <1>7, <2>1, <2>2
  <2>3. CASE w.url # u
    BY <2>1, <2>3, InquiriesAreTyped
  <2> QED
    BY <2>2, <2>3
<1>10. ASSUME NEW w \in watch, w.url # u PROVE w \in watch'
  BY <1>3, <1>10 DEF Overlapping
<1>11. watch' \subseteq Inquiry
  BY <1>5, <1>9
<1>12. Observed'
  <2>1. \A y \in watch' : y.url \in Urls'
    BY <1>1, <1>6, <1>9, InquiriesAreTyped
  <2>2. \A e \in Seen' : True(e)'
    <3>1. SUFFICES ASSUME NEW e \in Seen' PROVE True(e)
      BY <1>1 DEF True
    <3>2. CASE e \in Rng(events)
      BY <3>2 DEF IInv, Observed, Seen
    <3>3. CASE e \in watch' /\ e.kind # None
      <4>1. PICK w \in watch : e.url = w.url /\ e.kind = w.kind
        BY <1>6, <1>9, <3>3
      <4>2. True(w)
        BY <3>3, <4>1 DEF IInv, Observed, Seen
      <4> QED
        BY <4>1, <4>2 DEF True
    <3> QED
      BY <1>1, <3>2, <3>3 DEF Seen, Rng
  <2>3. ASSUME NEW y \in watch', ~y.overlap PROVE About(y.url)' = {y}
    <3>1. CASE y = x
      <4>1. About(u) = {}
        BY <1>6, <2>3, <3>1
      <4>2. \A z \in watch' : z.url = u => z = x
        BY <1>9, <4>1 DEF About
      <4> QED
        BY <1>6, <3>1, <4>2 DEF About
    <3>2. CASE y # x
      <4>1. PICK w \in watch : /\ y.url = w.url /\ y.at = w.at /\ y.kind = w.kind
                               /\ w.url = u => y.overlap
                               /\ w.url # u => y = w
        BY <1>9, <3>2
      <4>2. y.url # u /\ y \in watch
        BY <2>3, <4>1
      <4>3. About(y.url) = {y}
        BY <2>3, <4>2 DEF IInv, Observed
      <4>4. ASSUME NEW z \in watch', z.url = y.url PROVE z = y
        <5>1. z # x
          BY <1>6, <4>2, <4>4
        <5>2. z \in watch
          BY <1>9, <4>2, <4>4, <5>1
        <5> QED
          BY <4>3, <4>4, <5>2 DEF About
      <4> QED
        BY <4>4 DEF About
    <3> QED
      BY <3>1, <3>2
  <2>4. ASSUME NEW i \in DOMAIN events, NEW y \in watch', y.url = events[i].url
        PROVE  /\ ~events[i].overlap => events[i].at <= y.at
               /\ events[i].kind \in Terminal /\ y.kind # None /\ ~y.overlap => y.kind = events[i].kind
    <3>1. CASE y = x
      BY <1>4, <1>6, <2>4, <3>1
    <3>2. CASE y # x
      <4>1. PICK w \in watch : /\ y.url = w.url /\ y.at = w.at /\ y.kind = w.kind
                               /\ w.url = u => y.overlap
                               /\ w.url # u => y = w
        BY <1>9, <3>2
      <4>2. w \in About(events[i].url)
        BY <2>4, <4>1 DEF About
      <4>3. /\ ~events[i].overlap => events[i].at <= w.at
            /\ events[i].kind \in Terminal /\ w.kind # None /\ ~w.overlap => w.kind = events[i].kind
        BY <4>2 DEF IInv, Observed
      <4> QED
        BY <4>1, <4>3
    <3> QED
      BY <3>1, <3>2
  <2>5. \A i \in DOMAIN events' : \A y \in {z \in watch' : z.url = events'[i].url} :
          /\ ~events'[i].overlap => events'[i].at <= y.at
          /\ events'[i].kind \in Terminal /\ y.kind # None /\ ~y.overlap => y.kind = events'[i].kind
    BY <1>1, <2>4
  <2>6. \A i, j \in DOMAIN events' : events'[i].url = events'[j].url /\ i < j =>
          /\ ~events'[i].overlap => events'[i].at <= events'[j].at
          /\ events'[i].kind \in Terminal /\ ~events'[j].overlap => events'[j].kind = events'[i].kind
    BY <1>1 DEF IInv, Observed
  <2> QED
    BY <2>1, <2>2, <2>3, <2>5, <2>6 DEF Observed, About
<1>13. faults' \in 0..MaxFaults
  <2>1. faults \in 0..MaxFaults
    BY DEF IInv, TypeOK
  <2> QED
    BY <1>1, <2>1
<1>14. events' \in Seq(Event) /\ Grows(events, events') /\ \A e \in Rng(events)' : e.url \in Urls
  BY <1>1, LinesAreTyped DEF IInv, TypeOK, Grows, Rng
<1> QED
  BY <1>1, <1>11, <1>12, <1>13, <1>14, MaintainKeeps

(* An inquiry leaves: those that remain are as they were.                  *)
LEMMA InquiryLeaves ==
  ASSUME IInv, NEW w \in watch, NEW y \in watch, y # w, ~y.overlap
  PROVE  y.url # w.url /\ \A z \in watch : z.url = y.url => z = y
<1>1. About(y.url) = {y}
  BY DEF IInv, Observed
<1>2. \A z \in watch : z.url = y.url => z \in About(y.url)
  BY DEF About
<1> QED
  BY <1>1, <1>2

(* GitHub answers: what is final is told as it is, and what a line calls   *)
(* final is so.                                                            *)
LEMMA ObserveKeeps ==
  ASSUME IInv, NEW w \in watch, Observe(w) PROVE IInv'
<1> DEFINE k == github[w.url].kind
           news == News(w.known, k)
           x == [w EXCEPT !.kind = news]
<1>1. /\ w.kind = None /\ watch' = (watch \ {w}) \union (IF news = w.known THEN {} ELSE {x})
      /\ UNCHANGED <<ledger, events, github, paused, site, running, clock, started, faults>>
  BY DEF Observe
<1>2. k \in Kinds /\ w \in Inquiry /\ w.url \in Urls
  BY InquiriesAreTyped DEF IInv, TypeOK
<1>3. /\ news \in Kinds /\ (news \in PrKinds <=> k \in PrKinds)
      /\ news \in Terminal => news = k
      /\ k \in Terminal => news = k
  BY <1>2 DEF News, Kinds, PrKinds, IssueKinds, Terminal
<1> HIDE DEF news
<1>4. x \in Inquiry /\ x.url = w.url /\ x.at = w.at /\ x.kind = news /\ x.overlap = w.overlap
  <2>1. w = [by |-> w.by, url |-> w.url, known |-> w.known, at |-> w.at, kind |-> w.kind, overlap |-> w.overlap]
    BY <1>2 DEF Inquiry
  <2>2. x = [by |-> w.by, url |-> w.url, known |-> w.known, at |-> w.at, kind |-> news, overlap |-> w.overlap]
    BY <2>1
  <2> HIDE DEF x
  <2>3. x \in Inquiry
    BY <1>3, <2>2, InquiriesAreTyped, Zenon DEF Inquiry
  <2> QED
    BY <2>2, <2>3
<1> HIDE DEF x
<1>5. \A y \in watch' : y = x \/ (y \in watch /\ y # w)
  BY <1>1
<1>6. watch' \subseteq Inquiry
  BY <1>4, <1>5, InquiriesAreTyped
<1>7. Observed'
  <2>1. \A y \in watch' : y.url \in Urls'
    BY <1>1, <1>2, <1>4, <1>5, InquiriesAreTyped
  <2>2. \A e \in Seen' : True(e)'
    <3>1. SUFFICES ASSUME NEW e \in Seen' PROVE True(e)
      BY <1>1 DEF True
    <3>2. CASE e \in Seen
      BY <3>2 DEF IInv, Observed
    <3>3. CASE e = x
      BY <1>3, <1>4, <3>3 DEF True
    <3> QED
      BY <1>1, <1>5, <3>2, <3>3 DEF Seen, Rng
  <2>3. ASSUME NEW y \in watch', ~y.overlap PROVE About(y.url)' = {y}
    <3>1. CASE y = x
      <4>1. \A z \in watch : z.url = w.url => z = w
        <5>1. About(w.url) = {w}
          BY <1>4, <2>3, <3>1 DEF IInv, Observed
        <5> QED
          BY <5>1 DEF About
      <4>2. \A z \in watch' : z.url = w.url => z = x
        BY <1>5, <4>1
      <4> QED
        BY <1>4, <3>1, <4>2 DEF About
    <3>2. CASE y # x
      <4>1. y \in watch /\ y # w
        BY <1>5, <3>2
      <4>2. y.url # w.url /\ \A z \in watch : z.url = y.url => z = y
        BY <2>3, <4>1, InquiryLeaves
      <4>3. \A z \in watch' : z.url = y.url => z = y
        BY <1>4, <1>5, <4>2
      <4> QED
        BY <4>3 DEF About
    <3> QED
      BY <3>1, <3>2
  <2>4. ASSUME NEW i \in DOMAIN events, NEW y \in watch', y.url = events[i].url
        PROVE  /\ ~events[i].overlap => events[i].at <= y.at
               /\ events[i].kind \in Terminal /\ y.kind # None /\ ~y.overlap => y.kind = events[i].kind
    <3>1. ASSUME NEW z \in watch, z.url = events[i].url
          PROVE  /\ ~events[i].overlap => events[i].at <= z.at
                 /\ events[i].kind \in Terminal /\ z.kind # None /\ ~z.overlap => z.kind = events[i].kind
      <4>1. z \in About(events[i].url)
        BY <3>1 DEF About
      <4> QED
        BY <4>1 DEF IInv, Observed
    <3>2. CASE y = x
      <4>1. ~events[i].overlap => events[i].at <= y.at
        BY <1>4, <2>4, <3>1, <3>2
      <4>2. events[i].kind \in Terminal => y.kind = events[i].kind
        BY <1>3, <1>4, <2>4, <3>2, LinesAreTrue
      <4> QED
        BY <4>1, <4>2
    <3>3. CASE y \in watch
      BY <2>4, <3>1, <3>3
    <3> QED
      BY <1>5, <3>2, <3>3
  <2>5. \A i \in DOMAIN events' : \A y \in {z \in watch' : z.url = events'[i].url} :
          /\ ~events'[i].overlap => events'[i].at <= y.at
          /\ events'[i].kind \in Terminal /\ y.kind # None /\ ~y.overlap => y.kind = events'[i].kind
    BY <1>1, <2>4
  <2>6. \A i, j \in DOMAIN events' : events'[i].url = events'[j].url /\ i < j =>
          /\ ~events'[i].overlap => events'[i].at <= events'[j].at
          /\ events'[i].kind \in Terminal /\ ~events'[j].overlap => events'[j].kind = events'[i].kind
    BY <1>1 DEF IInv, Observed
  <2> QED
    BY <2>1, <2>2, <2>3, <2>5, <2>6 DEF Observed, About
<1>8. faults' \in 0..MaxFaults
  BY <1>1 DEF IInv, TypeOK
<1>9. events' \in Seq(Event) /\ Grows(events, events') /\ \A e \in Rng(events)' : e.url \in Urls
  BY <1>1, LinesAreTyped DEF IInv, TypeOK, Grows, Rng
<1> QED
  BY <1>1, <1>6, <1>7, <1>8, <1>9, MaintainKeeps

(* An observation becomes a line.  While another invocation asks about its *)
(* URL the line is marked, and so are the lines of that one.               *)
LEMMA RecordKeeps ==
  ASSUME IInv, NEW w \in watch, RecordEvent(w) PROVE IInv'
<1> DEFINE n == Len(events)
           e == [url |-> w.url, kind |-> w.kind, at |-> w.at, overlap |-> w.overlap]
<1>1. /\ w.kind # None /\ events' = Append(events, e) /\ watch' = watch \ {w}
      /\ UNCHANGED <<ledger, github, paused, site, running, clock, started, faults>>
  BY DEF RecordEvent
<1>2. events \in Seq(Event) /\ n \in Nat /\ DOMAIN events = 1..n
  BY DEF IInv, TypeOK
<1>3. e \in Event
  <2>1. w.kind \in Kinds /\ w.url \in Objects /\ w.at \in Nat /\ w.overlap \in BOOLEAN
    BY <1>1, InquiriesAreTyped
  <2> QED
    BY <2>1, Zenon DEF Event
<1>4. e.url = w.url /\ e.kind = w.kind /\ e.at = w.at /\ e.overlap = w.overlap
  OBVIOUS
<1> HIDE DEF e
<1>5. /\ events' \in Seq(Event) /\ Len(events') = n + 1 /\ DOMAIN events' = 1..(n + 1)
      /\ (\A i \in 1..n : events'[i] = events[i]) /\ events'[n + 1] = e
  BY <1>1, <1>2, <1>3
<1> HIDE DEF n
<1>6. \A d \in Rng(events)' : d \in Rng(events) \/ d = e
  BY <1>2, <1>5 DEF Rng
<1>7. \A i \in DOMAIN events' :
        (i \in DOMAIN events /\ events'[i] = events[i]) \/ (i = n + 1 /\ events'[i] = e)
  BY <1>2, <1>5
<1>8. Observed'
  <2>1. \A y \in watch' : y.url \in Urls'
    BY <1>1, InquiriesAreTyped
  <2>2. \A d \in Seen' : True(d)'
    <3>1. SUFFICES ASSUME NEW d \in Seen' PROVE True(d)
      BY <1>1 DEF True
    <3>2. CASE d \in Seen
      BY <3>2 DEF IInv, Observed
    <3>3. CASE d = e
      <4>1. True(w)
        BY <1>1 DEF IInv, Observed, Seen
      <4> QED
        BY <1>4, <3>3, <4>1 DEF True
    <3> QED
      BY <1>1, <1>6, <3>2, <3>3 DEF Seen
  <2>3. ASSUME NEW y \in watch', ~y.overlap PROVE About(y.url)' = {y}
    <3>1. \A z \in watch : z.url = y.url => z = y
      BY <1>1, <2>3, InquiryLeaves
    <3> QED
      BY <1>1, <3>1 DEF About
  <2>4. ASSUME NEW i \in DOMAIN events', NEW y \in watch', y.url = events'[i].url
        PROVE  /\ ~events'[i].overlap => events'[i].at <= y.at
               /\ events'[i].kind \in Terminal /\ y.kind # None /\ ~y.overlap => y.kind = events'[i].kind
    <3>1. y \in watch /\ y # w
      BY <1>1
    <3>2. CASE i \in DOMAIN events /\ events'[i] = events[i]
      <4>1. y \in About(events[i].url)
        BY <2>4, <3>1, <3>2 DEF About
      <4> QED
        BY <3>2, <4>1 DEF IInv, Observed
    <3>3. CASE events'[i] = e
      <4>1. y.url = w.url
        BY <1>4, <2>4, <3>3
      <4>2. y.overlap /\ w.overlap
        BY <3>1, <4>1, InquiryLeaves
      <4> QED
        BY <1>4, <3>3, <4>2
    <3> QED
      BY <1>7, <3>2, <3>3
  <2>5. \A i \in DOMAIN events' : \A y \in {z \in watch' : z.url = events'[i].url} :
          /\ ~events'[i].overlap => events'[i].at <= y.at
          /\ events'[i].kind \in Terminal /\ y.kind # None /\ ~y.overlap => y.kind = events'[i].kind
    BY <2>4
  <2>6. ASSUME NEW i \in DOMAIN events', NEW j \in DOMAIN events', events'[i].url = events'[j].url, i < j
        PROVE  /\ ~events'[i].overlap => events'[i].at <= events'[j].at
               /\ events'[i].kind \in Terminal /\ ~events'[j].overlap => events'[j].kind = events'[i].kind
    <3>1. i \in DOMAIN events /\ events'[i] = events[i]
      BY <1>2, <1>5, <2>6
    <3>2. CASE j \in DOMAIN events /\ events'[j] = events[j]
      BY <2>6, <3>1, <3>2 DEF IInv, Observed
    <3>3. CASE events'[j] = e
      <4>1. w \in About(events[i].url)
        BY <1>4, <2>6, <3>1, <3>3 DEF About
      <4>2. i \in DOMAIN events
        BY <3>1
      <4>3. ~events[i].overlap => events[i].at <= w.at
        BY <4>1, <4>2 DEF IInv, Observed
      <4>4. events[i].kind \in Terminal /\ w.kind # None /\ ~w.overlap => w.kind = events[i].kind
        BY <4>1, <4>2 DEF IInv, Observed
      <4> QED
        BY <1>1, <1>4, <3>1, <3>3, <4>3, <4>4
    <3> QED
      BY <1>7, <3>2, <3>3
  <2> QED
    BY <2>1, <2>2, <2>3, <2>5, <2>6 DEF Observed, About
<1>9. faults' \in 0..MaxFaults /\ watch' \subseteq Inquiry
  BY <1>1 DEF IInv, TypeOK
<1>10. Grows(events, events')
  BY <1>2, <1>5 DEF Grows, n
<1>11. \A d \in Rng(events)' : d.url \in Urls
  <2>1. w.url \in Urls
    BY InquiriesAreTyped
  <2> QED
    BY <1>4, <1>6, <2>1 DEF IInv, TypeOK
<1> QED
  BY <1>1, <1>5, <1>8, <1>9, <1>10, <1>11, MaintainKeeps

(* An invocation fails and records nothing.                                *)
LEMMA FailsKeeps ==
  ASSUME IInv, NEW w \in watch, MaintainFails(w) PROVE IInv'
<1>1. /\ faults < MaxFaults /\ faults' = faults + 1 /\ watch' = watch \ {w}
      /\ UNCHANGED <<ledger, events, github, paused, site, running, clock, started>>
  BY DEF MaintainFails
<1>2. Observed'
  <2>1. Seen' \subseteq Seen /\ \A u : About(u)' \subseteq About(u)
    BY <1>1 DEF Seen, Rng, About
  <2>2. \A e \in Seen' : True(e)'
    <3>1. \A e \in Seen : True(e)
      BY DEF IInv, Observed
    <3> QED
      BY <1>1, <2>1, <3>1 DEF True
  <2>3. ASSUME NEW y \in watch', ~y.overlap PROVE About(y.url)' = {y}
    <3>1. \A z \in watch : z.url = y.url => z = y
      BY <1>1, <2>3, InquiryLeaves
    <3> QED
      BY <1>1, <3>1 DEF About
  <2>4. \A y \in watch' : y.url \in Urls'
    BY <1>1, InquiriesAreTyped
  <2>5. \A i \in DOMAIN events' : \A y \in {z \in watch' : z.url = events'[i].url} :
          /\ ~events'[i].overlap => events'[i].at <= y.at
          /\ events'[i].kind \in Terminal /\ y.kind # None /\ ~y.overlap => y.kind = events'[i].kind
    BY <1>1 DEF IInv, Observed, About
  <2>6. \A i, j \in DOMAIN events' : events'[i].url = events'[j].url /\ i < j =>
          /\ ~events'[i].overlap => events'[i].at <= events'[j].at
          /\ events'[i].kind \in Terminal /\ ~events'[j].overlap => events'[j].kind = events'[i].kind
    BY <1>1 DEF IInv, Observed
  <2> QED
    BY <2>2, <2>3, <2>4, <2>5, <2>6 DEF Observed, About
<1>3. faults' \in 0..MaxFaults /\ watch' \subseteq Inquiry
  <2>1. faults \in 0..MaxFaults /\ watch \subseteq Inquiry
    BY DEF IInv, TypeOK
  <2> QED
    BY <1>1, <2>1
<1>4. events' \in Seq(Event) /\ Grows(events, events') /\ \A e \in Rng(events)' : e.url \in Urls
  BY <1>1, LinesAreTyped DEF IInv, TypeOK, Grows, Rng
<1> QED
  BY <1>1, <1>2, <1>3, <1>4, MaintainKeeps

-----------------------------------------------------------------------------
(* The invariant holds at first ...                                        *)
LEMMA InitHolds == Init => IInv
<1> SUFFICES ASSUME Init PROVE IInv
  OBVIOUS
<1>1. /\ ledger = <<>> /\ events = <<>> /\ github = <<>> /\ paused = FALSE /\ site = {}
      /\ running = {} /\ watch = {} /\ clock = 0 /\ started = 0 /\ faults = 0
  BY DEF Init
<1>2. /\ DOMAIN ledger = {} /\ DOMAIN events = {} /\ DOMAIN github = {} /\ Len(ledger) = 0 /\ Len(events) = 0
      /\ ledger \in Seq(Entry) /\ events \in Seq(Event)
  BY <1>1
<1>3. Rng(ledger) = {} /\ Rng(events) = {} /\ Rows = {} /\ Seen = {}
  BY <1>1, <1>2 DEF Rows, Rng, Seen
<1>4. IsFiniteSet({}) /\ Cardinality({}) = 0
  BY FS_EmptySet
<1>5. MaxSessions * MinInterval \in Nat /\ MaxRows * Parallel \in Nat
  OBVIOUS
<1>6. TypeOK
  <2>1. clock \in Instants /\ started \in 0..MaxSessions /\ faults \in 0..MaxFaults
    BY <1>1, <1>5 DEF Instants
  <2>2. paused \in BOOLEAN /\ site \subseteq Problems /\ running \subseteq Planning \union Publishing
        /\ watch \subseteq Inquiry
    BY <1>1
  <2>3. DOMAIN github \subseteq Objects /\ Urls = {}
    BY <1>2
  <2> QED
    BY <1>2, <1>3, <2>1, <2>2, <2>3 DEF TypeOK
<1>7. Numbered
  BY <1>1, <1>2, <1>4 DEF Numbered
<1>8. Timed
  BY <1>1, <1>2 DEF Timed
<1>9. Observed /\ Traced
  BY <1>1, <1>2, <1>3, <1>4 DEF Observed, Traced
<1>10. Prepared
  BY <1>1, <1>2 DEF Prepared
<1>11. ReviewQueueBounded
  <2>1. Archived = {}
    BY <1>2 DEF Archived
  <2>2. Cardinality(Archived) = 0 /\ Cardinality(running) = 0
    BY <1>1, <1>4, <2>1
  <2>3. MaxOpenPrs > 0 => 0 + MaxRows * 0 <= MaxOpenPrs - 1 + MaxRows * Parallel
    BY <1>5
  <2> QED
    BY <2>2, <2>3 DEF ReviewQueueBounded, Archived
<1> QED
  BY <1>6, <1>7, <1>8, <1>9, <1>10, <1>11 DEF IInv

(* ... and after every step.                                               *)
LEMMA NextKeeps ==
  IInv /\ [Next]_vars => IInv'
<1> SUFFICES ASSUME IInv, [Next]_vars PROVE IInv'
  OBVIOUS
<1>1. CASE Start
  BY <1>1, StartKeeps
<1>2. CASE Refuse \/ Spoil \/ Repair \/ RemovePause
  BY <1>2, AsideKeeps
<1>3. CASE \E s \in running : Work(s) \/ PublishOnly(s) \/ Die(s)
  <2>1. PICK s \in running : Work(s) \/ PublishOnly(s) \/ Die(s)
    BY <1>3
  <2> QED
    BY <2>1, PlanKeeps, ArchivesKeeps, DiesKeeps DEF Work
<1>4. CASE \E w \in watch : Observe(w) \/ RecordEvent(w) \/ MaintainFails(w)
  <2>1. PICK w \in watch : Observe(w) \/ RecordEvent(w) \/ MaintainFails(w)
    BY <1>4
  <2> QED
    BY <2>1, ObserveKeeps, RecordKeeps, FailsKeeps
<1>5. CASE \E u \in Urls : Ask(u) \/ Settle(u) \/ Neglect(u)
  <2>1. PICK u \in Urls : Ask(u) \/ Settle(u) \/ Neglect(u)
    BY <1>5
  <2> QED
    BY <2>1, AskKeeps, WorldKeeps
<1>6. CASE Tick
  BY <1>6, TickKeeps
<1>7. CASE UNCHANGED vars
  <2>1. UNCHANGED <<ledger, events, github, running, watch, started, paused, site, clock, faults>>
    BY <1>7 DEF vars
  <2>2. /\ paused' \in BOOLEAN /\ site' \subseteq Problems /\ faults' \in 0..MaxFaults
        /\ clock' \in Instants /\ clock \in Nat /\ clock <= Len(ledger) * MinInterval
    BY <2>1 DEF IInv, TypeOK, Timed, Instants
  <2>3. clock <= clock' /\ clock' <= Len(ledger) * MinInterval
    BY <2>1, <2>2
  <2> QED
    BY <2>1, <2>2, <2>3, Aside
<1> QED
  BY <1>1, <1>2, <1>3, <1>4, <1>5, <1>6, <1>7 DEF Next

(* In every state of the loop, with any number of sessions and maintain    *)
(* invocations at a time, the invariant holds: what lines say of final     *)
(* states is so, and stamps, which are the starts of invocations, follow   *)
(* the lines as long as no invocations overlap.                            *)
THEOREM LoopInvariant == Spec => []IInv
<1> QED
  BY InitHolds, NextKeeps, PTL DEF Spec

(* The ledgers, the objects on GitHub and the sessions are what build_     *)
(* session_record, publish and maintain make of them.                      *)
THEOREM LoopTypes == Spec => []TypeOK
<1>1. IInv => TypeOK
  BY DEF IInv
<1> QED
  BY <1>1, LoopInvariant, PTL

(* decision_for: what the history a session read shows as under review or  *)
(* merged is not published again, unless the line of an overlapping        *)
(* maintain invocation told otherwise.                                     *)
THEOREM WorkIsNeverRepeated == Spec => []NeverRepeatsKnownWork
<1>1. IInv => NeverRepeatsKnownWork
  BY DEF IInv, Prepared, Informed, NeverRepeatsKnownWork
<1> QED
  BY <1>1, LoopInvariant, PTL

(* from_history_projection and the repeated-failure threshold: what failed *)
(* Threshold times, by the session records or by closings that no          *)
(* overlapping invocation left in doubt, is not published again.           *)
THEOREM FailuresEndAttempts == Spec => []GivesUpAfterThreshold
<1>1. IInv => GivesUpAfterThreshold
  BY DEF IInv, Prepared, Informed, GivesUpAfterThreshold
<1> QED
  BY <1>1, LoopInvariant, PTL

(* latest_artifact_state: a recorded merge or closing is what every later  *)
(* reader sees, however many invocations start in one second, or it reads  *)
(* the line of an invocation that overlapped another one.                  *)
THEOREM FinalWordsStand == Spec => []FinalWordStands
<1>1. IInv => FinalWordStands
  BY FinalWord DEF FinalWordStands
<1> QED
  BY <1>1, LoopInvariant, PTL

(* check_open_pr_limit: parallel sessions exceed the limit by no more than *)
(* what they may publish themselves.                                       *)
THEOREM QueueIsBounded == Spec => []ReviewQueueBounded
<1>1. IInv => ReviewQueueBounded
  BY DEF IInv
<1> QED
  BY <1>1, LoopInvariant, PTL

----------------------------------------------------------------------------
(* The optimizer memory: sorting.                                          *)

(* R compares any two elements of S, consistently.                         *)
Orders(R, S) ==
  /\ \A a, b \in S : <<a, b>> \in R \/ <<b, a>> \in R
  /\ \A a, b, c \in S : <<a, b>> \in R /\ <<b, c>> \in R => <<a, c>> \in R

(* s lists Q from the top down.                                            *)
Lists(s, Q, R) ==
  /\ s \in [1..Cardinality(Q) -> Q]
  /\ \A i, j \in DOMAIN s : i < j => s[i] # s[j] /\ <<s[i], s[j]>> \in R

(* A finite set has an element that is below all others.                   *)
LEMMA HasBottom ==
  ASSUME NEW S, NEW R, Orders(R, S), NEW P \in SUBSET S, IsFiniteSet(P), P # {}
  PROVE  \E x \in P : \A y \in P : <<y, x>> \in R
<1> DEFINE Low(Q) == \E x \in Q : \A y \in Q : <<y, x>> \in R
           T == {n \in Nat : \A Q \in SUBSET S :
                   IsFiniteSet(Q) /\ Cardinality(Q) = n /\ Q # {} => Low(Q)}
<1>1. 0 \in T
  BY FS_EmptySet
<1>2. ASSUME NEW n \in T PROVE n + 1 \in T
  <2> SUFFICES ASSUME NEW Q \in SUBSET S, IsFiniteSet(Q), Cardinality(Q) = n + 1, Q # {}
               PROVE  Low(Q)
    OBVIOUS
  <2>1. PICK z \in Q : TRUE
    OBVIOUS
  <2> DEFINE B == Q \ {z}
  <2>2. IsFiniteSet(B) /\ Cardinality(B) = n /\ B \in SUBSET S
    <3>1. IsFiniteSet(B) /\ Cardinality(B) = Cardinality(Q) - 1
      BY <2>1, FS_RemoveElement
    <3>2. n \in Nat /\ (n + 1) - 1 = n
      OBVIOUS
    <3> QED
      BY <3>1, <3>2
  <2>3. \A y \in Q : y \in B \/ y = z
    OBVIOUS
  <2>4. z \in S /\ <<z, z>> \in R
    BY <2>1 DEF Orders
  <2>5. B # {} => Low(B)
    <3> HIDE DEF Low, B
    <3> QED
      BY <2>2
  <2>6. B \subseteq Q
    OBVIOUS
  <2> HIDE DEF B
  <2>7. CASE B = {}
    BY <2>1, <2>3, <2>4, <2>7
  <2>8. CASE B # {}
    <3>1. PICK x \in B : \A y \in B : <<y, x>> \in R
      BY <2>5, <2>8
    <3>2. x \in S /\ x \in Q /\ \A y \in B : y \in S
      BY <2>2, <2>6, <3>1
    <3>3. CASE <<x, z>> \in R
      <4>1. \A y \in B : <<y, z>> \in R
        BY <2>4, <3>1, <3>2, <3>3 DEF Orders
      <4> QED
        BY <2>1, <2>3, <2>4, <4>1
    <3>4. CASE <<z, x>> \in R
      BY <2>3, <3>1, <3>2, <3>4
    <3> QED
      BY <2>4, <3>2, <3>3, <3>4 DEF Orders
  <2> QED
    BY <2>7, <2>8
<1>3. T = Nat
  <2> HIDE DEF T
  <2>1. T \in SUBSET Nat
    BY DEF T
  <2> QED
    BY <1>1, <1>2, <2>1, AllNumbers
<1>4. Cardinality(P) \in T
  BY <1>3, FS_CardinalityType
<1> QED
  BY <1>4

(* Hence it can be listed.                                                 *)
LEMMA CanBeListed ==
  ASSUME NEW S, NEW R, Orders(R, S), IsFiniteSet(S)
  PROVE  \E s : Lists(s, S, R)
<1> DEFINE T == {n \in Nat : \A Q \in SUBSET S :
                   IsFiniteSet(Q) /\ Cardinality(Q) = n => \E s : Lists(s, Q, R)}
<1>1. 0 \in T
  <2> SUFFICES ASSUME NEW Q \in SUBSET S, IsFiniteSet(Q), Cardinality(Q) = 0
               PROVE  \E s : Lists(s, Q, R)
    OBVIOUS
  <2>1. Lists([i \in 1..0 |-> i], Q, R)
    BY DEF Lists
  <2> QED
    BY <2>1
<1>2. ASSUME NEW n \in T PROVE n + 1 \in T
  <2> SUFFICES ASSUME NEW Q \in SUBSET S, IsFiniteSet(Q), Cardinality(Q) = n + 1
               PROVE  \E s : Lists(s, Q, R)
    OBVIOUS
  <2>0. n \in Nat
    OBVIOUS
  <2>1. Q # {}
    BY <2>0, FS_EmptySet
  <2>2. PICK x \in Q : \A y \in Q : <<y, x>> \in R
    BY <2>1, HasBottom
  <2> DEFINE B == Q \ {x}
  <2>3. IsFiniteSet(B) /\ Cardinality(B) = n /\ B \in SUBSET S
    <3>1. IsFiniteSet(B) /\ Cardinality(B) = Cardinality(Q) - 1
      BY <2>2, FS_RemoveElement
    <3>2. (n + 1) - 1 = n
      OBVIOUS
    <3> QED
      BY <3>1, <3>2
  <2>4. PICK s : Lists(s, B, R)
    <3> HIDE DEF B
    <3> QED
      BY <2>3
  <2>5. /\ s \in [1..n -> B]
        /\ \A i, j \in 1..n : i < j => s[i] # s[j] /\ <<s[i], s[j]>> \in R
    BY <2>3, <2>4 DEF Lists
  <2> DEFINE t == [i \in 1..(n+1) |-> IF i = n + 1 THEN x ELSE s[i]]
  <2>6. ASSUME NEW i \in 1..(n+1)
        PROVE  /\ i # n + 1 => i \in 1..n /\ t[i] = s[i] /\ s[i] \in Q /\ s[i] # x
               /\ i = n + 1 => t[i] = x
    <3>1. i # n + 1 => i \in 1..n
      BY <2>0
    <3> QED
      BY <2>5, <3>1
  <2>7. t \in [1..(n+1) -> Q]
    BY <2>2, <2>6
  <2>8. DOMAIN t = 1..(n+1)
    OBVIOUS
  <2> HIDE DEF t, B
  <2>9. ASSUME NEW i \in 1..(n+1), NEW j \in 1..(n+1), i < j
        PROVE  t[i] # t[j] /\ <<t[i], t[j]>> \in R
    <3>1. i # n + 1
      BY <2>0, <2>9
    <3>2. CASE j = n + 1
      BY <2>2, <2>6, <3>1, <3>2
    <3>3. CASE j # n + 1
      BY <2>5, <2>6, <2>9, <3>1, <3>3
    <3> QED
      BY <3>2, <3>3
  <2>10. Lists(t, Q, R)
    BY <2>7, <2>8, <2>9 DEF Lists
  <2> QED
    BY <2>10
<1>3. T = Nat
  <2> HIDE DEF T
  <2>1. T \in SUBSET Nat
    BY DEF T
  <2> QED
    BY <1>1, <1>2, <2>1, AllNumbers
<1>4. Cardinality(S) \in T
  BY <1>3, FS_CardinalityType
<1> QED
  BY <1>4

(* What SortedBy makes of a set: all of it, each element once, in order.   *)
LEMMA SortedByLists ==
  ASSUME NEW S, NEW R, Orders(R, S), IsFiniteSet(S)
  PROVE  LET s == SortedBy(S, R)
         IN  /\ s \in Seq(S) /\ Len(s) = Cardinality(S)
             /\ \A i, j \in 1..Len(s) : i < j => <<s[i], s[j]>> \in R
             /\ \A x \in S : \E i \in 1..Len(s) : s[i] = x
<1> DEFINE s == SortedBy(S, R)
           n == Cardinality(S)
<1>1. n \in Nat
  BY FS_CardinalityType
<1>2. /\ s \in [1..n -> S]
      /\ \A i, j \in DOMAIN s : i < j => s[i] # s[j] /\ <<s[i], s[j]>> \in R
  <2>1. \E t \in [1..n -> S] : \A i, j \in DOMAIN t : i < j => t[i] # t[j] /\ <<t[i], t[j]>> \in R
    BY CanBeListed DEF Lists
  <2> QED
    BY <2>1, Zenon DEF SortedBy
<1> HIDE DEF s, n
<1>3. DOMAIN s = 1..n
  BY <1>2
<1>4. s \in Seq(S) /\ Len(s) = n
  BY <1>1, <1>2
<1>5. s \in Surjection(1..n, S)
  <2>1. s \in Injection(1..n, S)
    <3>1. ASSUME NEW i \in 1..n, NEW j \in 1..n, s[i] = s[j] PROVE i = j
      <4>1. i < j \/ j < i \/ i = j
        BY <1>1
      <4> QED
        BY <1>2, <1>3, <3>1, <4>1
    <3> QED
      BY <1>2, <3>1 DEF Injection, IsInjective
  <2>2. Cardinality(1..n) = n
    BY <1>1, FS_Interval
  <2> QED
    BY <2>1, <2>2, FS_Injection DEF n
<1>6. \A x \in S : \E i \in 1..n : s[i] = x
  BY <1>5 DEF Surjection
<1>7. \A i, j \in 1..n : i < j => <<s[i], s[j]>> \in R
  BY <1>2, <1>3
<1> QED
  BY <1>4, <1>6, <1>7 DEF s, n

(* What truncation leaves of a sequence.                                   *)
LEMMA Truncated ==
  ASSUME NEW S, NEW s \in Seq(S), NEW n \in Nat
  PROVE  LET t == Truncate(s, n)
         IN  /\ t \in Seq(S) /\ Len(t) <= n /\ Len(t) <= Len(s)
             /\ Len(t) < n => Len(t) = Len(s)
             /\ \A i \in 1..Len(t) : t[i] = s[i]
<1> DEFINE m == IF Len(s) < n THEN Len(s) ELSE n
<1>1. m \in Nat /\ m <= n /\ m <= Len(s) /\ (m < n => m = Len(s))
  OBVIOUS
<1> HIDE DEF m
<1>2. SubSeq(s, 1, m) = [i \in 1..m |-> s[i]]
  BY <1>1
<1>3. Truncate(s, n) = SubSeq(s, 1, m)
  BY DEF Truncate, m
<1> DEFINE t == [i \in 1..m |-> s[i]]
<1>4. t \in Seq(S) /\ Len(t) = m /\ \A i \in 1..m : t[i] = s[i]
  BY <1>1
<1> HIDE DEF t
<1>5. Truncate(s, n) = t
  BY <1>2, <1>3 DEF t
<1> QED
  BY <1>1, <1>4, <1>5

(* Attempts have times and session numbers.                                *)
LEMMA AttemptsAreTimed ==
  ASSUME IInv
  PROVE  \A a \in Attempts(ledger) : a.finished \in Nat /\ a.session \in Nat
<1>1. \A e \in Entry : e.finished \in Nat /\ e.id \in Nat
  BY DEF Entry, Instants
<1>2. ASSUME NEW i \in DOMAIN ledger, NEW r
      PROVE  /\ Attempt(ledger[i], r).finished = ledger[i].finished
             /\ Attempt(ledger[i], r).session = ledger[i].id
  BY DEF Attempt
<1>3. \A i \in DOMAIN ledger : ledger[i].finished \in Nat /\ ledger[i].id \in Nat
  BY <1>1, LinesAreTyped
<1> QED
  BY <1>2, <1>3 DEF Attempts

(* Any of them can be sorted, newest first.                                *)
LEMMA AttemptsSorted ==
  ASSUME IInv, NEW S \in SUBSET Attempts(ledger)
  PROVE  LET s == sort_attempts_newest_first(S)
         IN  /\ s \in Seq(S)
             /\ \A i, j \in 1..Len(s) : i <= j => s[i].finished >= s[j].finished
             /\ \A x \in S : \E i \in 1..Len(s) : s[i] = x
<1> DEFINE R == {p \in S \X S :
                   \/ p[1].finished > p[2].finished
                   \/ p[1].finished = p[2].finished /\ p[1].session >= p[2].session}
           s == SortedBy(S, R)
<1>1. IsFiniteSet(S)
  BY AttemptsAreFinite, FS_Subset
<1>2. \A x \in S : x.finished \in Nat /\ x.session \in Nat
  BY AttemptsAreTimed
<1>3. \A x, y \in S : <<x, y>> \in R <=>
        \/ x.finished > y.finished
        \/ x.finished = y.finished /\ x.session >= y.session
  OBVIOUS
<1>4. sort_attempts_newest_first(S) = s
  BY Zenon DEF sort_attempts_newest_first
<1> HIDE DEF R
<1>5. Orders(R, S)
  <2>1. ASSUME NEW x \in S, NEW y \in S PROVE <<x, y>> \in R \/ <<y, x>> \in R
    BY <1>2, <1>3
  <2>2. ASSUME NEW x \in S, NEW y \in S, NEW z \in S, <<x, y>> \in R, <<y, z>> \in R
        PROVE  <<x, z>> \in R
    BY <1>2, <1>3, <2>2
  <2> QED
    BY <2>1, <2>2 DEF Orders
<1>6. /\ s \in Seq(S)
      /\ \A i, j \in 1..Len(s) : i < j => <<s[i], s[j]>> \in R
      /\ \A x \in S : \E i \in 1..Len(s) : s[i] = x
  BY <1>1, <1>5, SortedByLists
<1> HIDE DEF s
<1>7. ASSUME NEW i \in 1..Len(s), NEW j \in 1..Len(s), i <= j
      PROVE  s[i].finished >= s[j].finished
  <2>1. s[i] \in S /\ s[j] \in S
    <3>1. s \in Seq(S)
      BY <1>6
    <3> QED
      BY <3>1
  <2>2. i < j \/ i = j
    BY <1>6, <1>7
  <2>3. s[i].finished \in Nat /\ s[j].finished \in Nat
    BY <1>2, <2>1
  <2>4. i < j => s[i].finished > s[j].finished \/ s[i].finished = s[j].finished
    <3>1. i < j => <<s[i], s[j]>> \in R
      BY <1>6
    <3> QED
      BY <1>3, <2>1, <3>1, Zenon
  <2> QED
    BY <2>2, <2>3, <2>4
<1> QED
  BY <1>4, <1>6, <1>7

(* The newest attempt at a fix of the family.                              *)
LEMMA LatestIsNewest ==
  ASSUME IInv, NEW f, NEW g \in SigsIn(ledger, f)
  PROVE  LET A == AttemptsIn(ledger, f, g)
             s == sort_attempts_newest_first(A)
         IN  /\ 1 \in 1..Len(s) /\ s[1] \in A
             /\ latest_finished_at(ledger, f, g) = s[1].finished
             /\ latest_finished_at(ledger, f, g) \in Nat
             /\ \A x \in A : x.finished <= latest_finished_at(ledger, f, g)
<1> DEFINE A == AttemptsIn(ledger, f, g)
           s == sort_attempts_newest_first(A)
<1>1. A \in SUBSET Attempts(ledger)
  BY DEF AttemptsIn
<1>2. PICK a \in A : TRUE
  <2>1. PICK b \in Attempts(ledger) : b.family = f /\ b.sig = g
    BY DEF SigsIn
  <2>2. b \in A
    BY <2>1 DEF AttemptsIn
  <2> QED
    BY <2>2
<1>3. latest_finished_at(ledger, f, g) = s[1].finished
  BY DEF latest_finished_at
<1>4. /\ s \in Seq(A)
      /\ \A i, j \in 1..Len(s) : i <= j => s[i].finished >= s[j].finished
      /\ \A x \in A : \E i \in 1..Len(s) : s[i] = x
  BY <1>1, AttemptsSorted
<1>5. \A x \in A : x.finished \in Nat
  BY <1>1, AttemptsAreTimed
<1> HIDE DEF A, s
<1>6. 1 \in 1..Len(s)
  BY <1>2, <1>4
<1>7. s[1] \in A
  BY <1>4, <1>6
<1>8. ASSUME NEW x \in A PROVE x.finished <= s[1].finished
  <2>1. PICK i \in 1..Len(s) : s[i] = x
    BY <1>4
  <2>2. 1 <= i
    OBVIOUS
  <2> QED
    BY <1>4, <1>5, <1>6, <1>7, <2>1, <2>2
<1>9. s[1].finished \in Nat
  BY <1>5, <1>7
<1> QED
  BY <1>3, <1>6, <1>7, <1>8, <1>9 DEF A, s

(* The fixes of a family, last tried first, each with its attempts.        *)
LEMMA SignaturesSorted ==
  ASSUME IInv, NEW f
  PROVE  LET q == signatures_for_family(ledger, f)
         IN  /\ Len(q) \in Nat /\ DOMAIN q = 1..Len(q) /\ q \in Seq(Rng(q))
             /\ \A i \in 1..Len(q) :
                  /\ q[i].sig \in SigsIn(ledger, f)
                  /\ q[i].attempts = sort_attempts_newest_first(AttemptsIn(ledger, f, q[i].sig))
             /\ \A i, j \in 1..Len(q) : i < j =>
                  latest_finished_at(ledger, f, q[i].sig) >= latest_finished_at(ledger, f, q[j].sig)
             /\ \A g \in SigsIn(ledger, f) : \E i \in 1..Len(q) : q[i].sig = g
<1> DEFINE S == SigsIn(ledger, f)
           At(g) == latest_finished_at(ledger, f, g)
           R == {p \in S \X S : At(p[1]) >= At(p[2])}
           s == SortedBy(S, R)
           Tries(g) == sort_attempts_newest_first(AttemptsIn(ledger, f, g))
           q == [i \in DOMAIN s |-> [sig |-> s[i], attempts |-> Tries(s[i])]]
<1>1. IsFiniteSet(S)
  <2> DEFINE B == {b \in Attempts(ledger) : b.family = f}
             h == [b \in Attempts(ledger) |-> b.sig]
  <2>1. IsFiniteSet(B)
    BY AttemptsAreFinite, FS_Subset
  <2>2. S = {h[b] : b \in B}
    BY DEF SigsIn
  <2> HIDE DEF B, h, S
  <2> QED
    BY <2>1, <2>2, ImageIsFinite
<1>2. \A x \in S : At(x) \in Nat
  BY LatestIsNewest
<1>3. \A x, y \in S : <<x, y>> \in R <=> At(x) >= At(y)
  OBVIOUS
<1>4. signatures_for_family(ledger, f) = q
  BY Zenon DEF signatures_for_family
<1> HIDE DEF R, S, At, Tries
<1>5. Orders(R, S)
  BY <1>2, <1>3 DEF Orders
<1>6. /\ s \in Seq(S)
      /\ \A i, j \in 1..Len(s) : i < j => <<s[i], s[j]>> \in R
      /\ \A x \in S : \E i \in 1..Len(s) : s[i] = x
  BY <1>1, <1>5, SortedByLists
<1> HIDE DEF s
<1>7. Len(s) \in Nat /\ DOMAIN s = 1..Len(s) /\ \A i \in 1..Len(s) : s[i] \in S
  BY <1>6
<1>8. DOMAIN q = 1..Len(s) /\ \A i \in 1..Len(s) : q[i].sig = s[i] /\ q[i].attempts = Tries(s[i])
  BY <1>7
<1>9. q \in [1..Len(s) -> Rng(q)]
  BY <1>7 DEF Rng
<1> HIDE DEF q
<1>10. q \in Seq(Rng(q)) /\ Len(q) = Len(s)
  BY <1>7, <1>9
<1>11. ASSUME NEW i \in 1..Len(q), NEW j \in 1..Len(q), i < j
       PROVE  At(q[i].sig) >= At(q[j].sig)
  <2>1. i \in 1..Len(s) /\ j \in 1..Len(s)
    BY <1>10
  <2>2. <<s[i], s[j]>> \in R /\ s[i] \in S /\ s[j] \in S
    BY <1>6, <1>7, <1>11, <2>1
  <2>3. At(s[i]) >= At(s[j])
    BY <1>3, <2>2, Zenon
  <2> QED
    BY <1>8, <2>1, <2>3
<1>12. \A g \in S : \E i \in 1..Len(q) : q[i].sig = g
  BY <1>6, <1>8, <1>10
<1>13. \A i \in 1..Len(q) : q[i].sig \in S /\ q[i].attempts = Tries(q[i].sig)
  BY <1>7, <1>8, <1>10
<1>14. Len(q) \in Nat /\ DOMAIN q = 1..Len(q)
  BY <1>7, <1>8, <1>10
<1> QED
  BY <1>4, <1>10, <1>11, <1>12, <1>13, <1>14 DEF S, At, Tries

USE MemoryBounds

(* The rows of a family's memory: the first of its fixes, in order.        *)
LEMMA MemoryRows ==
  ASSUME IInv, NEW f
  PROVE  LET q == signatures_for_family(ledger, f)
             shown == build_for_family(ledger, events, f).signatures
         IN  /\ Len(shown) \in Nat /\ DOMAIN shown = 1..Len(shown)
             /\ Len(shown) <= MaxSignatures /\ Len(shown) <= Len(q)
             /\ Len(shown) < MaxSignatures => Len(shown) = Len(q)
             /\ \A i \in 1..Len(shown) : shown[i] = signature_row(events, q[i])
<1> DEFINE q == signatures_for_family(ledger, f)
           t == Truncate(q, MaxSignatures)
           shown == [i \in DOMAIN t |-> signature_row(events, t[i])]
<1>1. q \in Seq(Rng(q)) /\ Len(q) \in Nat
  BY SignaturesSorted
<1>2. build_for_family(ledger, events, f).signatures = shown
  BY DEF build_for_family
<1>3. /\ t \in Seq(Rng(q)) /\ Len(t) <= MaxSignatures /\ Len(t) <= Len(q)
      /\ Len(t) < MaxSignatures => Len(t) = Len(q)
      /\ \A i \in 1..Len(t) : t[i] = q[i]
  BY <1>1, Truncated
<1> HIDE DEF t
<1>4. Len(t) \in Nat /\ DOMAIN t = 1..Len(t)
  BY <1>3
<1>5. DOMAIN shown = 1..Len(t) /\ \A i \in 1..Len(t) : shown[i] = signature_row(events, q[i])
  BY <1>3, <1>4
<1>6. shown \in [1..Len(t) -> Rng(shown)]
  BY <1>4 DEF Rng
<1> HIDE DEF shown, q
<1>7. shown \in Seq(Rng(shown)) /\ Len(shown) = Len(t)
  BY <1>4, <1>6
<1> QED
  BY <1>2, <1>3, <1>4, <1>5, <1>7 DEF q

(* A row shows the first of the attempts at its fix.                       *)
LEMMA MemoryRow ==
  ASSUME NEW S, NEW w, w.attempts \in Seq(S)
  PROVE  LET row == signature_row(events, w)
         IN  /\ row.sig = w.sig
             /\ Len(row.attempts) \in Nat /\ DOMAIN row.attempts = 1..Len(row.attempts)
             /\ Len(row.attempts) <= MaxAttempts /\ Len(row.attempts) <= Len(w.attempts)
             /\ Len(row.attempts) < MaxAttempts => Len(row.attempts) = Len(w.attempts)
             /\ \A i \in 1..Len(row.attempts) :
                  row.attempts[i] = attempt_from_projection(events, w.attempts[i])
<1> DEFINE t == Truncate(w.attempts, MaxAttempts)
           shown == [i \in DOMAIN t |-> attempt_from_projection(events, t[i])]
<1>1. signature_row(events, w).sig = w.sig /\ signature_row(events, w).attempts = shown
  BY DEF signature_row
<1>2. /\ t \in Seq(S) /\ Len(t) <= MaxAttempts /\ Len(t) <= Len(w.attempts)
      /\ Len(t) < MaxAttempts => Len(t) = Len(w.attempts)
      /\ \A i \in 1..Len(t) : t[i] = w.attempts[i]
  BY Truncated
<1> HIDE DEF t
<1>3. Len(t) \in Nat /\ DOMAIN t = 1..Len(t)
  BY <1>2
<1>4. /\ DOMAIN shown = 1..Len(t)
      /\ \A i \in 1..Len(t) : shown[i] = attempt_from_projection(events, w.attempts[i])
  BY <1>2, <1>3
<1>5. shown \in [1..Len(t) -> Rng(shown)]
  BY <1>3 DEF Rng
<1> HIDE DEF shown
<1>6. shown \in Seq(Rng(shown)) /\ Len(shown) = Len(t)
  BY <1>3, <1>5
<1> QED
  BY <1>1, <1>2, <1>3, <1>4, <1>6

(* The memory leaves out nothing newer than what it shows.                 *)
LEMMA MemoryIsNewest ==
  ASSUME IInv PROVE MemoryHoldsNewest
<1> SUFFICES ASSUME NEW f \in Families, NEW a \in Attempts(ledger), a.family = f
             PROVE  LET shown == build_for_family(ledger, events, f).signatures
                        NoNewer(row) == \A k \in DOMAIN row : row[k].finished >= a.finished
                    IN  \/ \E i \in DOMAIN shown :
                             /\ shown[i].sig = a.sig
                             /\ \/ attempt_from_projection(events, a) \in Rng(shown[i].attempts)
                                \/ Len(shown[i].attempts) = MaxAttempts /\ NoNewer(shown[i].attempts)
                        \/ /\ Len(shown) = MaxSignatures
                           /\ \A i \in DOMAIN shown : shown[i].attempts[1].finished >= a.finished
  BY Zenon DEF MemoryHoldsNewest
<1> DEFINE q == signatures_for_family(ledger, f)
           shown == build_for_family(ledger, events, f).signatures
           A(g) == AttemptsIn(ledger, f, g)
           Tries(g) == sort_attempts_newest_first(A(g))
           At(g) == latest_finished_at(ledger, f, g)
<1>1. a.sig \in SigsIn(ledger, f) /\ a \in A(a.sig)
  BY DEF SigsIn, AttemptsIn
<1>2. /\ Len(q) \in Nat
      /\ \A i \in 1..Len(q) : q[i].sig \in SigsIn(ledger, f) /\ q[i].attempts = Tries(q[i].sig)
      /\ \A i, j \in 1..Len(q) : i < j => At(q[i].sig) >= At(q[j].sig)
      /\ \A g \in SigsIn(ledger, f) : \E i \in 1..Len(q) : q[i].sig = g
  BY SignaturesSorted
<1>3. /\ Len(shown) \in Nat /\ DOMAIN shown = 1..Len(shown)
      /\ Len(shown) <= MaxSignatures /\ Len(shown) <= Len(q)
      /\ Len(shown) < MaxSignatures => Len(shown) = Len(q)
      /\ \A i \in 1..Len(shown) : shown[i] = signature_row(events, q[i])
  BY MemoryRows
<1>4. \A x : attempt_from_projection(events, x).finished = x.finished
  BY DEF attempt_from_projection
<1>5. ASSUME NEW i \in 1..Len(q)
      PROVE  LET s == q[i].attempts
                 row == signature_row(events, q[i])
             IN  /\ s = Tries(q[i].sig) /\ s \in Seq(A(q[i].sig))
                 /\ row.sig = q[i].sig
                 /\ Len(row.attempts) \in Nat /\ DOMAIN row.attempts = 1..Len(row.attempts)
                 /\ Len(row.attempts) <= MaxAttempts /\ Len(row.attempts) <= Len(s)
                 /\ Len(row.attempts) < MaxAttempts => Len(row.attempts) = Len(s)
                 /\ \A k \in 1..Len(row.attempts) :
                      row.attempts[k] = attempt_from_projection(events, s[k])
  <2>1. A(q[i].sig) \in SUBSET Attempts(ledger)
    BY DEF AttemptsIn
  <2>2. Tries(q[i].sig) \in Seq(A(q[i].sig))
    BY <2>1, AttemptsSorted
  <2>3. q[i].attempts = Tries(q[i].sig)
    BY <1>2
  <2> HIDE DEF A, Tries, q
  <2>4. q[i].attempts \in Seq(A(q[i].sig))
    BY <2>2, <2>3
  <2> QED
    BY <2>3, <2>4, MemoryRow
<1>6. PICK j \in 1..Len(q) : q[j].sig = a.sig
  BY <1>1, <1>2
<1>7. a.finished \in Nat /\ a.finished <= At(a.sig) /\ At(a.sig) \in Nat
  BY <1>1, LatestIsNewest, AttemptsAreTimed
(* Its fix has a row: it is shown there or as many that are as new are.    *)
<1>8. CASE j \in 1..Len(shown)
  <2> DEFINE s == q[j].attempts
             row == shown[j].attempts
  <2>1. /\ s = Tries(a.sig) /\ shown[j].sig = a.sig
        /\ Len(row) \in Nat /\ DOMAIN row = 1..Len(row)
        /\ Len(row) <= MaxAttempts /\ Len(row) <= Len(s)
        /\ Len(row) < MaxAttempts => Len(row) = Len(s)
        /\ \A k \in 1..Len(row) : row[k] = attempt_from_projection(events, s[k])
    <3>1. shown[j] = signature_row(events, q[j])
      BY <1>3, <1>8
    <3> HIDE DEF q, shown, Tries, A
    <3> QED
      BY <1>5, <1>6, <3>1
  <2>2. /\ s \in Seq(A(a.sig))
        /\ \A i, k \in 1..Len(s) : i <= k => s[i].finished >= s[k].finished
        /\ \A x \in A(a.sig) : \E i \in 1..Len(s) : s[i] = x
    <3>1. A(a.sig) \in SUBSET Attempts(ledger)
      BY DEF AttemptsIn
    <3>2. /\ Tries(a.sig) \in Seq(A(a.sig))
          /\ \A i, k \in 1..Len(Tries(a.sig)) : i <= k => Tries(a.sig)[i].finished >= Tries(a.sig)[k].finished
          /\ \A x \in A(a.sig) : \E i \in 1..Len(Tries(a.sig)) : Tries(a.sig)[i] = x
      BY <3>1, AttemptsSorted
    <3> HIDE DEF A, Tries, s
    <3> QED
      BY <2>1, <3>2
  <2> HIDE DEF q, shown, Tries, A, At, s, row
  <2>3. PICK k \in 1..Len(s) : s[k] = a
    BY <1>1, <2>2
  <2>4. CASE k \in 1..Len(row)
    <3>1. attempt_from_projection(events, a) \in Rng(row)
      BY <2>1, <2>3, <2>4 DEF Rng
    <3> QED
      BY <1>3, <1>8, <2>1, <3>1 DEF row, shown
  <2>5. CASE k \notin 1..Len(row)
    <3>1. Len(row) = MaxAttempts
      <4>1. Len(row) # Len(s)
        BY <2>5
      <4>2. ~ (Len(row) < MaxAttempts) /\ Len(row) <= MaxAttempts /\ Len(row) \in Nat
        BY <2>1, <4>1
      <4> QED
        BY <4>2
    <3>2. ASSUME NEW i \in 1..Len(row) PROVE row[i].finished >= a.finished
      <4>1. i \in 1..Len(s) /\ i <= k
        BY <2>1, <2>2, <2>5
      <4>2. s[i].finished >= a.finished
        BY <2>2, <2>3, <4>1
      <4>3. row[i] = attempt_from_projection(events, s[i])
        BY <2>1
      <4>4. row[i].finished = s[i].finished
        BY <1>4, <4>3
      <4> QED
        BY <4>2, <4>4
    <3> QED
      BY <1>3, <1>8, <2>1, <3>1, <3>2 DEF row, shown
  <2> QED
    BY <2>4, <2>5
(* There is no room for it: the fixes that are shown were tried as lately. *)
<1>9. CASE j \notin 1..Len(shown)
  <2> HIDE DEF q, shown, Tries, A, At
  <2>1. Len(shown) = MaxSignatures
    <3>1. Len(shown) # Len(q)
      BY <1>9
    <3>2. ~ (Len(shown) < MaxSignatures) /\ Len(shown) <= MaxSignatures /\ Len(shown) \in Nat
      BY <1>3, <3>1
    <3> QED
      BY <3>2
  <2>2. ASSUME NEW i \in 1..Len(shown) PROVE shown[i].attempts[1].finished >= a.finished
    <3>1. i \in 1..Len(q) /\ i < j
      BY <1>2, <1>3, <1>9
    <3> DEFINE g == q[i].sig
    <3>2. At(g) >= At(a.sig) /\ g \in SigsIn(ledger, f)
      <4>1. At(q[i].sig) >= At(q[j].sig) /\ q[i].sig \in SigsIn(ledger, f)
        BY <1>2, <3>1
      <4> QED
        BY <1>6, <4>1
    <3> HIDE DEF g
    <3>3. /\ 1 \in 1..Len(Tries(g)) /\ At(g) = Tries(g)[1].finished /\ At(g) \in Nat
      BY <3>2, LatestIsNewest DEF At, Tries, A
    <3> DEFINE s == q[i].attempts
               row == shown[i].attempts
    <3>4. /\ s = Tries(g) /\ s \in Seq(A(g))
          /\ Len(row) \in Nat
          /\ Len(row) < MaxAttempts => Len(row) = Len(s)
          /\ \A k \in 1..Len(row) : row[k] = attempt_from_projection(events, s[k])
      <4>1. shown[i] = signature_row(events, q[i])
        BY <1>3
      <4> QED
        BY <1>5, <3>1, <4>1 DEF g
    <3> HIDE DEF s, row
    <3>5. 1 \in 1..Len(row)
      BY <3>3, <3>4
    <3>6. row[1].finished = At(g)
      BY <1>4, <3>3, <3>4, <3>5
    <3> QED
      BY <1>7, <3>2, <3>3, <3>6 DEF row
  <2> QED
    BY <1>3, <2>1, <2>2 DEF shown
<1> QED
  BY <1>8, <1>9

(* What an agent is told about a family is the newest of what the ledger   *)
(* has: build_for_family sorts and then truncates, at both levels, for any *)
(* bounds on attempts and signatures and any ledger the loop can write.    *)
THEOREM MemoryShowsNewest == Spec => []MemoryHoldsNewest
<1>1. IInv => MemoryHoldsNewest
  BY MemoryIsNewest
<1> QED
  BY <1>1, LoopInvariant, PTL
=============================================================================
