-------------------------- MODULE DiscoveryProofs --------------------------
(***************************************************************************)
(* Theorems about Discovery, for any families, findings and bounds.  The   *)
(* first part is about the functions of Merge alone: which answers of the  *)
(* merge agent pass validate_merge_output_with_dedup.  The second follows  *)
(* the commands.                                                           *)
(***************************************************************************)
EXTENDS DiscoveryInvariants, FiniteSetTheorems, TLAPS

USE DiscoveryBounds, AnalysesAssumption, NoneIsNothing

Files == [Families -> AnalysisFile \union {None}]
(* How many findings of f are left up to position i.                       *)
Upto(A, K, f, i) == {j \in Kept(A, K, f) : j <= i}

(* Positions of an accepted family are numbers from 1 on, finitely many.   *)
LEMMA KeptIsFinite ==
  ASSUME NEW A \in Files, NEW K, NEW f \in accepted(A)
  PROVE  /\ f \in Families /\ A[f] \in AnalysisFile
         /\ DOMAIN A[f].targets = 1..Len(A[f].targets) /\ Len(A[f].targets) \in Nat
         /\ Kept(A, K, f) \subseteq 1..Len(A[f].targets)
         /\ IsFiniteSet(Kept(A, K, f)) /\ Cardinality(Kept(A, K, f)) \in Nat
<1>1. f \in Families /\ A[f] \in AnalysisFile
  BY DEF accepted, Files
<1>2. A[f].targets \in Seq([sig : Signatures, class : {1, 2}])
  BY <1>1 DEF AnalysisFile
<1>3. DOMAIN A[f].targets = 1..Len(A[f].targets) /\ Len(A[f].targets) \in Nat
  BY <1>2
<1>4. Kept(A, K, f) \subseteq 1..Len(A[f].targets)
  BY <1>3 DEF Kept
<1>5. IsFiniteSet(1..Len(A[f].targets))
  BY <1>3, FS_Interval
<1> QED
  BY <1>1, <1>3, <1>4, <1>5, FS_Subset, FS_CardinalityType

(* A position that is left has a rank among them.                          *)
LEMMA RankOf ==
  ASSUME NEW A \in Files, NEW K, NEW f \in accepted(A), NEW i \in Kept(A, K, f)
  PROVE  /\ IsFiniteSet(Upto(A, K, f, i))
         /\ Cardinality(Upto(A, K, f, i)) \in 1..Cardinality(Kept(A, K, f))
<1>1. Upto(A, K, f, i) \subseteq Kept(A, K, f) /\ i \in Upto(A, K, f, i)
  BY KeptIsFinite DEF Upto
<1>2. /\ IsFiniteSet(Upto(A, K, f, i))
      /\ Cardinality(Upto(A, K, f, i)) <= Cardinality(Kept(A, K, f))
  BY <1>1, KeptIsFinite, FS_Subset
<1>3. Cardinality(Upto(A, K, f, i)) \in Nat /\ Cardinality(Upto(A, K, f, i)) # 0
  BY <1>1, <1>2, FS_CardinalityType, FS_EmptySet
<1> QED
  BY <1>2, <1>3, KeptIsFinite

(* Two positions never have the same rank.                                 *)
LEMMA RanksGrow ==
  ASSUME NEW A \in Files, NEW K, NEW f \in accepted(A),
         NEW i \in Kept(A, K, f), NEW j \in Kept(A, K, f), i < j
  PROVE  Cardinality(Upto(A, K, f, i)) # Cardinality(Upto(A, K, f, j))
<1>1. i \in Nat /\ j \in Nat /\ Kept(A, K, f) \subseteq Nat
  BY KeptIsFinite
<1>2. Upto(A, K, f, i) \subseteq Upto(A, K, f, j)
  BY <1>1 DEF Upto
<1>3. j \in Upto(A, K, f, j) /\ j \notin Upto(A, K, f, i)
  BY <1>1 DEF Upto
<1> QED
  BY <1>2, <1>3, RankOf, FS_Subset

(* The finding shown at the rank of position i is that of position i: the  *)
(* agent can name every finding that is left.                              *)
LEMMA OriginalOfRank ==
  ASSUME NEW A \in Files, NEW K, NEW f \in accepted(A), NEW i \in Kept(A, K, f)
  PROVE  Original(A, K, f, Cardinality(Upto(A, K, f, i))) = i
<1> DEFINE n == Cardinality(Upto(A, K, f, i))
           o == Original(A, K, f, n)
<1>1. o \in Kept(A, K, f) /\ Cardinality(Upto(A, K, f, o)) = n
  BY DEF Original, Upto
<1>2. o \in Nat /\ i \in Nat
  BY <1>1, KeptIsFinite
<1>3. ~(o < i) /\ ~(i < o)
  BY <1>1, RanksGrow
<1> QED
  BY <1>2, <1>3

-----------------------------------------------------------------------------
(* The pairs of the original arrays, of the blocked ones and of the ones   *)
(* the prompt shows.                                                       *)
LEMMA ExpectedPairs ==
  ASSUME NEW A \in Files, NEW K, NEW f, NEW i
  PROVE  /\ <<f, i>> \in expected_pairs(A) <=> f \in accepted(A) /\ i \in DOMAIN A[f].targets
         /\ <<f, i>> \in dedup_decisions(A, K) <=>
              <<f, i>> \in expected_pairs(A) /\ i \notin Kept(A, K, f)
         /\ <<f, i>> \in Shown(A, K) <=>
              f \in accepted(A) /\ i \in 1..Cardinality(Kept(A, K, f))
<1>1. <<f, i>> \in expected_pairs(A) <=> f \in accepted(A) /\ i \in DOMAIN A[f].targets
  BY DEF expected_pairs
<1>2. <<f, i>> \in expected_pairs(A) =>
        (<<f, i>> \in dedup_decisions(A, K) <=> i \notin Kept(A, K, f))
  BY <1>1 DEF dedup_decisions, Finding, Kept
<1>3. <<f, i>> \in dedup_decisions(A, K) => <<f, i>> \in expected_pairs(A)
  BY DEF dedup_decisions
<1> DEFINE arrays == filter_accepted_for_dedup(A, K)
<1>4. DOMAIN arrays = accepted(A)
  BY DEF filter_accepted_for_dedup
<1>5. ASSUME NEW g \in accepted(A) PROVE DOMAIN arrays[g] = 1..Cardinality(Kept(A, K, g))
  BY DEF filter_accepted_for_dedup
<1>6. Shown(A, K) = UNION {{<<g, k>> : k \in DOMAIN arrays[g]} : g \in DOMAIN arrays}
  BY DEF Shown
<1> HIDE DEF arrays
<1>7. <<f, i>> \in Shown(A, K) <=> \E g \in accepted(A) : \E k \in DOMAIN arrays[g] : <<f, i>> = <<g, k>>
  BY <1>4, <1>6
<1>8. <<f, i>> \in Shown(A, K) <=>
        f \in accepted(A) /\ i \in 1..Cardinality(Kept(A, K, f))
  BY <1>5, <1>7
<1> QED
  BY <1>1, <1>2, <1>3, <1>8

(* They are pairs.                                                         *)
LEMMA PairsArePairs ==
  ASSUME NEW A \in Files, NEW K
  PROVE  \A p \in expected_pairs(A) \union Shown(A, K) : p = <<p[1], p[2]>>
<1>1. \A p \in expected_pairs(A) : p = <<p[1], p[2]>>
  BY DEF expected_pairs
<1>2. \A p \in Shown(A, K) : p = <<p[1], p[2]>>
  BY DEF Shown
<1> QED
  BY <1>1, <1>2

(* When every number the agent may use stands for a finding that is not    *)
(* blocked, the arrays were not closed up at all: the numbers are the      *)
(* original ones.                                                          *)
LEMMA NotClosedUp ==
  ASSUME NEW A \in Files, NEW K, NEW f \in accepted(A),
         1..Cardinality(Kept(A, K, f)) \subseteq Kept(A, K, f)
  PROVE  /\ Kept(A, K, f) = 1..Cardinality(Kept(A, K, f))
         /\ \A k \in 1..Cardinality(Kept(A, K, f)) : Original(A, K, f, k) = k
<1> DEFINE n == Cardinality(Kept(A, K, f))
<1>1. n \in Nat /\ IsFiniteSet(Kept(A, K, f)) /\ Kept(A, K, f) \subseteq Nat
  BY KeptIsFinite
<1>2. IsFiniteSet(1..n) /\ Cardinality(1..n) = n
  BY <1>1, FS_Interval
<1>3. Kept(A, K, f) = 1..n
  BY <1>1, <1>2, FS_Subset
<1>4. ASSUME NEW k \in 1..n PROVE Original(A, K, f, k) = k
  <2>1. k \in Kept(A, K, f) /\ k \in Nat
    BY <1>1, <1>3
  <2>2. Upto(A, K, f, k) = 1..k
    BY <1>1, <1>3, <1>4 DEF Upto
  <2>3. Cardinality(1..k) = k
    BY <2>1, FS_Interval
  <2> QED
    BY <2>1, <2>2, <2>3, OriginalOfRank
<1> QED
  BY <1>3, <1>4

(* There are as many numbers as findings that are left: the latter are     *)
(* never all among the numbers but one.                                    *)
LEMMA NoneToSpare ==
  ASSUME NEW A \in Files, NEW K, NEW f \in accepted(A), NEW k \in 1..Cardinality(Kept(A, K, f))
  PROVE  ~(Kept(A, K, f) \subseteq (1..Cardinality(Kept(A, K, f))) \ {k})
<1> DEFINE n == Cardinality(Kept(A, K, f))
           S == 1..n
<1>1. n \in Nat /\ IsFiniteSet(S) /\ Cardinality(S) = n /\ k \in S
  BY KeptIsFinite, FS_Interval
<1> HIDE DEF S
<1>2. IsFiniteSet(S \ {k}) /\ Cardinality(S \ {k}) = n - 1
  BY <1>1, FS_RemoveElement
<1>3. ASSUME Kept(A, K, f) \subseteq S \ {k} PROVE n <= n - 1
  BY <1>2, <1>3, FS_Subset
<1>4. ~(Kept(A, K, f) \subseteq S \ {k})
  BY <1>1, <1>3
<1> QED
  BY <1>4 DEF S

-----------------------------------------------------------------------------
(* An answer that keeps to the template, made of the groups gs, and the    *)
(* ways it may slip, in terms of targets, rejected rows and lenses.        *)
Answer(A, K, r, gs, T, R) ==
  /\ \A g \in gs : g # {} /\ g \subseteq Shown(A, K)
  /\ \A g, h \in gs : g # h => g \intersect h = {}
  /\ T = {MergedTarget(A, K, r, g) : g \in gs}
  /\ R = {[pair |-> Number(A, K, r, p), reason |-> "agent"] : p \in Shown(A, K) \ UNION gs}

Forgets(T, R, T2, R2) == R2 = R /\ \E t \in T : T2 = T \ {t}
Dedups(T, R, T2, R2) ==
  T2 = T /\ \E r \in R : R2 = (R \ {r}) \union {[r EXCEPT !.reason = "dedup"]}
Claims(A, T, R, T2, R2) ==
  R2 = R /\ \E t \in T : \E p \in expected_pairs(A) \ t.from :
              T2 = (T \ {t}) \union {[t EXCEPT !.from = @ \union {p}]}

(* The compliant answers are answers in this sense ...                     *)
LEMMA CompliantAnswers ==
  ASSUME NEW A, NEW K, NEW r, NEW out \in Compliant(A, K, r)
  PROVE  \E gs, T, R : Answer(A, K, r, gs, T, R)
                       /\ out = [targets |-> T, rejected |-> R, lens |-> accepted(A)]
<1>1. PICK gs \in Groupings(A, K) :
        out = [targets |-> {MergedTarget(A, K, r, g) : g \in gs},
               rejected |-> {[pair |-> Number(A, K, r, p), reason |-> "agent"] :
                               p \in Shown(A, K) \ UNION gs},
               lens |-> accepted(A)]
  BY DEF Compliant
<1>2. \A g \in gs : g # {} /\ g \subseteq Shown(A, K)
  BY DEF Groupings
<1>3. \A g, h \in gs : g # h => g \intersect h = {}
  BY DEF Groupings
<1> DEFINE T == {MergedTarget(A, K, r, g) : g \in gs}
           R == {[pair |-> Number(A, K, r, p), reason |-> "agent"] : p \in Shown(A, K) \ UNION gs}
<1>4. Answer(A, K, r, gs, T, R)
  BY <1>2, <1>3 DEF Answer
<1>5. out = [targets |-> T, rejected |-> R, lens |-> accepted(A)]
  BY <1>1
<1> QED
  BY <1>4, <1>5

(* ... and the slips are slips.                                            *)
LEMMA SlipForms ==
  ASSUME NEW A, NEW T, NEW R, NEW L,
         NEW slip \in Slips(A, [targets |-> T, rejected |-> R, lens |-> L])
  PROVE  \E T2, R2, L2 :
           /\ slip = [targets |-> T2, rejected |-> R2, lens |-> L2]
           /\ \/ Forgets(T, R, T2, R2) /\ L2 = L
              \/ T2 = T /\ R2 = R /\ L2 # L
              \/ Dedups(T, R, T2, R2) /\ L2 = L
              \/ Claims(A, T, R, T2, R2) /\ L2 = L
<1> DEFINE out == [targets |-> T, rejected |-> R, lens |-> L]
<1>1. CASE \E t \in T : slip = [out EXCEPT !.targets = @ \ {t}]
  <2>1. PICK t \in T : slip = [out EXCEPT !.targets = @ \ {t}]
    BY <1>1
  <2>2. slip = [targets |-> T \ {t}, rejected |-> R, lens |-> L] /\ Forgets(T, R, T \ {t}, R)
    BY <2>1 DEF Forgets
  <2> QED
    BY <2>2
<1>2. CASE \E f \in L : slip = [out EXCEPT !.lens = @ \ {f}]
  <2>1. PICK f \in L : slip = [out EXCEPT !.lens = @ \ {f}]
    BY <1>2
  <2>2. slip = [targets |-> T, rejected |-> R, lens |-> L \ {f}] /\ L \ {f} # L
    BY <2>1
  <2> QED
    BY <2>2
<1>3. CASE \E r \in R : slip = [out EXCEPT !.rejected = (@ \ {r}) \union {[r EXCEPT !.reason = "dedup"]}]
  <2>1. PICK r \in R : slip = [out EXCEPT !.rejected = (@ \ {r}) \union {[r EXCEPT !.reason = "dedup"]}]
    BY <1>3
  <2> DEFINE R2 == (R \ {r}) \union {[r EXCEPT !.reason = "dedup"]}
  <2>2. slip = [targets |-> T, rejected |-> R2, lens |-> L] /\ Dedups(T, R, T, R2)
    BY <2>1 DEF Dedups
  <2> QED
    BY <2>2
<1>4. CASE \E t \in T : \E p \in expected_pairs(A) \ t.from :
             slip = [out EXCEPT !.targets = (@ \ {t}) \union {[t EXCEPT !.from = @ \union {p}]}]
  <2>1. PICK t \in T : \E p \in expected_pairs(A) \ t.from :
          slip = [out EXCEPT !.targets = (@ \ {t}) \union {[t EXCEPT !.from = @ \union {p}]}]
    BY <1>4
  <2>2. PICK p \in expected_pairs(A) \ t.from :
          slip = [out EXCEPT !.targets = (@ \ {t}) \union {[t EXCEPT !.from = @ \union {p}]}]
    BY <2>1
  <2> DEFINE T2 == (T \ {t}) \union {[t EXCEPT !.from = @ \union {p}]}
  <2>3. slip = [targets |-> T2, rejected |-> R, lens |-> L] /\ Claims(A, T, R, T2, R)
    BY <2>2 DEF Claims
  <2> QED
    BY <2>3
<1> QED
  BY <1>1, <1>2, <1>3, <1>4 DEF Slips

-----------------------------------------------------------------------------
(* What validate_merge_output_with_dedup asks of an answer together with   *)
(* the coordinator's rows.                                                 *)
Rows(A, K, R) == R \union dedup_rejections(A, K)
Passes(A, K, T, R, L) ==
  /\ \A s, t \in T : s # t => s.from \intersect t.from = {}
  /\ \A q, r \in Rows(A, K, R) : q # r => q.pair # r.pair
  /\ \A t \in T, r \in Rows(A, K, R) : r.pair \notin t.from
  /\ \A p : p \in expected_pairs(A) <=>
         (\E t \in T : p \in t.from) \/ (\E r \in Rows(A, K, R) : r.pair = p)
  /\ \A r \in Rows(A, K, R) : r.reason = "dedup" => r.pair \in dedup_decisions(A, K)
  /\ \A p \in dedup_decisions(A, K) : [pair |-> p, reason |-> "dedup"] \in Rows(A, K, R)
  /\ L = accepted(A)

(* Validation asks for all of Passes.                                      *)
LEMMA ValidPasses ==
  ASSUME NEW A, NEW K, NEW T, NEW R, NEW L,
         validate_merge_output_with_dedup([targets |-> T, rejected |-> Rows(A, K, R), lens |-> L],
                                          A, dedup_decisions(A, K))
  PROVE  Passes(A, K, T, R, L)
<1> DEFINE Q == Rows(A, K, R)
           full == [targets |-> T, rejected |-> Q, lens |-> L]
<1>1. full.targets = T /\ full.rejected = Q /\ full.lens = L
  OBVIOUS
<1>2. /\ covered(full, A) /\ dedup_rows_match(full, dedup_decisions(A, K))
      /\ lens_covered(full, A)
  BY DEF validate_merge_output_with_dedup
<1>3. \A p \in dedup_decisions(A, K) : [pair |-> p, reason |-> "dedup"] \in Q
  BY DEF Rows, dedup_rejections
<1> HIDE DEF full, Q
<1> DEFINE M == UNION {t.from : t \in T}
           N == {r.pair : r \in Q}
           Twice == \/ \E s, t \in T : s # t /\ s.from \intersect t.from # {}
                    \/ \E r, s \in Q : r # s /\ r.pair = s.pair
                    \/ M \intersect N # {}
<1>4. ~Twice /\ M \union N = expected_pairs(A)
  BY <1>1, <1>2, Zenon DEF covered
<1>merged. \A p : p \in M <=> \E t \in T : p \in t.from
  OBVIOUS
<1>rejected. \A p : p \in N <=> \E r \in Q : r.pair = p
  OBVIOUS
<1> HIDE DEF M, N
<1>5. {r.pair : r \in {q \in Q : q.reason = "dedup"}} = dedup_decisions(A, K)
  BY <1>1, <1>2 DEF dedup_rows_match
<1>6. L = accepted(A)
  BY <1>1, <1>2 DEF lens_covered
<1>7. ASSUME NEW r \in Q, r.reason = "dedup" PROVE r.pair \in dedup_decisions(A, K)
  <2>1. r \in {q \in Q : q.reason = "dedup"}
    BY <1>7
  <2>2. r.pair \in {s.pair : s \in {q \in Q : q.reason = "dedup"}}
    BY <2>1
  <2> QED
    BY <1>5, <2>2
<1>8. \A t \in T, r \in Q : r.pair \notin t.from
  BY <1>4, <1>merged, <1>rejected
<1>9. \A p : p \in expected_pairs(A) <=>
         (\E t \in T : p \in t.from) \/ (\E r \in Q : r.pair = p)
  BY <1>4, <1>merged, <1>rejected
<1>10. \A s, t \in T : s # t => s.from \intersect t.from = {}
  BY <1>4, Zenon
<1>11. \A q, r \in Q : q # r => q.pair # r.pair
  BY <1>4, Zenon
<1> QED
  BY <1>3, <1>6, <1>7, <1>8, <1>9, <1>10, <1>11 DEF Passes, Q

(* A finding that a target or an agent's row claims is not blocked.        *)
LEMMA ClaimedIsOpen ==
  ASSUME NEW A, NEW K, NEW T, NEW R, NEW L, Passes(A, K, T, R, L), NEW p,
         (\E t \in T : p \in t.from) \/ (\E r \in R : r.pair = p /\ r.reason = "agent")
  PROVE  p \in expected_pairs(A) /\ p \notin dedup_decisions(A, K)
<1>1. R \subseteq Rows(A, K, R)
  BY DEF Rows
<1>2. p \in expected_pairs(A)
  BY <1>1 DEF Passes
<1>3. ASSUME p \in dedup_decisions(A, K) PROVE FALSE
  <2> DEFINE row == [pair |-> p, reason |-> "dedup"]
  <2>1. row \in Rows(A, K, R) /\ row.pair = p /\ row.reason = "dedup"
    BY <1>3 DEF Passes
  <2> HIDE DEF row
  <2>2. ~\E t \in T : p \in t.from
    BY <2>1 DEF Passes
  <2>3. ASSUME NEW r \in R, r.pair = p, r.reason = "agent" PROVE FALSE
    BY <1>1, <2>1, <2>3 DEF Passes
  <2> QED
    BY <2>2, <2>3
<1> QED
  BY <1>2, <1>3

(* A finding that is neither is claimed.                                   *)
LEMMA OpenIsClaimed ==
  ASSUME NEW A, NEW K, NEW T, NEW R, NEW L, Passes(A, K, T, R, L),
         NEW p \in expected_pairs(A) \ dedup_decisions(A, K)
  PROVE  (\E t \in T : p \in t.from) \/ (\E r \in R : r.pair = p)
<1>1. \A r \in dedup_rejections(A, K) : r.pair # p
  BY DEF dedup_rejections
<1> QED
  BY <1>1 DEF Passes, Rows

(* If all that is shown is open, the numbers are the original ones, and    *)
(* all that is open is shown.                                              *)
LEMMA StraightNumbers ==
  ASSUME NEW A \in Files, NEW K,
         \A p \in Shown(A, K) : p \in expected_pairs(A) /\ p \notin dedup_decisions(A, K)
  PROVE  /\ \A p \in Shown(A, K) : Meant(A, K, p) = p
         /\ \A p \in expected_pairs(A) \ dedup_decisions(A, K) : p \in Shown(A, K)
<1>1. ASSUME NEW f \in accepted(A)
      PROVE  1..Cardinality(Kept(A, K, f)) \subseteq Kept(A, K, f)
  <2> SUFFICES ASSUME NEW k \in 1..Cardinality(Kept(A, K, f)) PROVE k \in Kept(A, K, f)
    OBVIOUS
  <2>1. <<f, k>> \in Shown(A, K)
    BY <1>1, ExpectedPairs
  <2>2. <<f, k>> \in expected_pairs(A) /\ <<f, k>> \notin dedup_decisions(A, K)
    BY <2>1
  <2> QED
    BY <2>2, ExpectedPairs
<1>2. ASSUME NEW p \in Shown(A, K) PROVE Meant(A, K, p) = p
  <2>1. p = <<p[1], p[2]>>
    BY <1>2, PairsArePairs
  <2>2. p[1] \in accepted(A) /\ p[2] \in 1..Cardinality(Kept(A, K, p[1]))
    BY <1>2, <2>1, ExpectedPairs
  <2>3. Original(A, K, p[1], p[2]) = p[2]
    BY <1>1, <2>2, NotClosedUp
  <2> QED
    BY <2>1, <2>3 DEF Meant
<1>3. ASSUME NEW p \in expected_pairs(A) \ dedup_decisions(A, K) PROVE p \in Shown(A, K)
  <2>1. p = <<p[1], p[2]>>
    BY <1>3, PairsArePairs
  <2>2. p[1] \in accepted(A) /\ p[2] \in Kept(A, K, p[1])
    BY <1>3, <2>1, ExpectedPairs
  <2>3. p[2] \in 1..Cardinality(Kept(A, K, p[1]))
    BY <1>1, <2>2, NotClosedUp
  <2> QED
    BY <2>1, <2>2, <2>3, ExpectedPairs
<1> QED
  BY <1>2, <1>3

(* What is open is never all that is shown but one.                        *)
LEMMA TooFew ==
  ASSUME NEW A \in Files, NEW K, NEW q \in Shown(A, K),
         \A p \in expected_pairs(A) \ dedup_decisions(A, K) : p \in Shown(A, K) /\ p # q
  PROVE  FALSE
<1>1. q = <<q[1], q[2]>>
  BY PairsArePairs
<1>2. q[1] \in accepted(A) /\ q[2] \in 1..Cardinality(Kept(A, K, q[1]))
  BY <1>1, ExpectedPairs
<1>3. ASSUME NEW j \in Kept(A, K, q[1])
      PROVE  j \in (1..Cardinality(Kept(A, K, q[1]))) \ {q[2]}
  <2>1. j \in DOMAIN A[q[1]].targets
    BY DEF Kept
  <2>2. <<q[1], j>> \in expected_pairs(A) /\ <<q[1], j>> \notin dedup_decisions(A, K)
    BY <1>2, <2>1, ExpectedPairs
  <2>3. <<q[1], j>> \in Shown(A, K) /\ <<q[1], j>> # q
    BY <2>2
  <2> QED
    BY <1>1, <2>3, ExpectedPairs
<1> QED
  BY <1>2, <1>3, NoneToSpare

(* A target of an answer names its group in from and in means.             *)
LEMMA TargetFields ==
  ASSUME NEW A, NEW K, NEW r, NEW g
  PROVE  /\ MergedTarget(A, K, r, g).from = {Number(A, K, r, p) : p \in g}
         /\ MergedTarget(A, K, r, g).means = {Meant(A, K, p) : p \in g}
  BY DEF MergedTarget

(* A claim of more changes from, and not means.                            *)
LEMMA ClaimFields ==
  ASSUME NEW A, NEW K, NEW r, NEW g, NEW t, t = MergedTarget(A, K, r, g), NEW more
  PROVE  /\ [t EXCEPT !.from = @ \union more].from = t.from \union more
         /\ [t EXCEPT !.from = @ \union more].means = t.means
  BY DEF MergedTarget

(* An agent that numbers as it sees, without and with a slip: if the       *)
(* answer passes, its numbers are the original ones.                       *)
LEMMA AsShown ==
  ASSUME NEW A \in Files, NEW K, NEW n, \A p : Number(A, K, n, p) = p,
         NEW gs, NEW T, NEW R, Answer(A, K, n, gs, T, R),
         NEW T2, NEW R2, Passes(A, K, T2, R2, accepted(A)),
         \/ T2 = T /\ R2 = R
         \/ Forgets(T, R, T2, R2)
         \/ Dedups(T, R, T2, R2)
         \/ Claims(A, T, R, T2, R2)
  PROVE  \A t \in T2 : t.from = t.means
<1> DEFINE tg(g) == MergedTarget(A, K, n, g)
<1>1. ASSUME NEW g PROVE tg(g).from = g /\ tg(g).means = {Meant(A, K, p) : p \in g}
  <2>1. tg(g).from = {Number(A, K, n, p) : p \in g}
        /\ tg(g).means = {Meant(A, K, p) : p \in g}
    BY TargetFields
  <2>2. {Number(A, K, n, p) : p \in g} = g
    OBVIOUS
  <2> QED
    BY <2>1, <2>2
<1>2. /\ \A g \in gs : g # {} /\ g \subseteq Shown(A, K)
      /\ \A g, h \in gs : g # h => g \intersect h = {}
      /\ T = {tg(g) : g \in gs}
  BY DEF Answer
<1>3. R = {[pair |-> p, reason |-> "agent"] : p \in Shown(A, K) \ UNION gs}
  BY DEF Answer, Number
<1>4. \A r \in R : r.reason = "agent" /\ r.pair \in Shown(A, K) \ UNION gs
  BY <1>3
<1>5. \A p \in Shown(A, K) : (\E g \in gs : p \in g) \/ [pair |-> p, reason |-> "agent"] \in R
  BY <1>3
<1> HIDE DEF tg
<1>6. CASE T2 = T /\ R2 = R
  <2>1. ASSUME NEW p \in Shown(A, K)
        PROVE  (\E t \in T2 : p \in t.from) \/ (\E r \in R2 : r.pair = p /\ r.reason = "agent")
    <3>1. ASSUME NEW g \in gs, p \in g PROVE tg(g) \in T2 /\ p \in tg(g).from
      BY <1>1, <1>2, <1>6, <3>1
    <3> QED
      BY <1>5, <1>6, <2>1, <3>1
  <2>2. \A p \in Shown(A, K) : Meant(A, K, p) = p
    BY <2>1, ClaimedIsOpen, StraightNumbers
  <2>3. ASSUME NEW g \in gs PROVE tg(g).means = tg(g).from
    <3>1. {Meant(A, K, p) : p \in g} = g
      BY <1>2, <2>2, <2>3
    <3> QED
      BY <1>1, <3>1
  <2> QED
    BY <1>2, <1>6, <2>3
<1>7. CASE Forgets(T, R, T2, R2)
  <2>1. PICK t \in T : T2 = T \ {t} /\ R2 = R
    BY <1>7 DEF Forgets
  <2>2. PICK g \in gs : t = tg(g)
    BY <1>2
  <2>3. PICK q \in g : q \in Shown(A, K)
    BY <1>2
  <2>4. ASSUME NEW p \in expected_pairs(A) \ dedup_decisions(A, K)
        PROVE  p \in Shown(A, K) /\ p # q
    <3>1. CASE \E s \in T2 : p \in s.from
      <4>1. PICK h \in gs : p \in tg(h).from /\ tg(h) # tg(g)
        BY <1>2, <2>1, <2>2, <3>1
      <4> QED
        BY <1>1, <1>2, <2>3, <4>1
    <3>2. CASE \E r \in R2 : r.pair = p
      BY <1>4, <2>1, <2>2, <2>3, <3>2
    <3> QED
      BY <3>1, <3>2, OpenIsClaimed
  <2> QED
    BY <2>3, <2>4, TooFew
<1>8. CASE Dedups(T, R, T2, R2)
  <2>1. PICK r \in R : R2 = (R \ {r}) \union {[r EXCEPT !.reason = "dedup"]} /\ T2 = T
    BY <1>8 DEF Dedups
  <2>2. PICK q \in Shown(A, K) : r = [pair |-> q, reason |-> "agent"]
    BY <1>3
  <2> DEFINE d == [r EXCEPT !.reason = "dedup"]
  <2>3. d.pair = q /\ d.reason = "dedup" /\ d \in R2
    BY <2>1, <2>2
  <2> HIDE DEF d
  <2>4. q \in dedup_decisions(A, K)
    BY <2>3 DEF Passes, Rows
  <2>5. ASSUME NEW p \in expected_pairs(A) \ dedup_decisions(A, K)
        PROVE  p \in Shown(A, K) /\ p # q
    <3>1. CASE \E s \in T2 : p \in s.from
      BY <1>1, <1>2, <2>1, <2>4, <3>1
    <3>2. CASE \E s \in R2 : s.pair = p
      BY <1>4, <2>1, <2>3, <2>4, <3>2 DEF d
    <3> QED
      BY <3>1, <3>2, OpenIsClaimed
  <2> QED
    BY <2>5, TooFew
<1>9. CASE Claims(A, T, R, T2, R2)
  <2>1. PICK t \in T : /\ R2 = R
                      /\ \E q \in expected_pairs(A) \ t.from :
                           T2 = (T \ {t}) \union {[t EXCEPT !.from = @ \union {q}]}
    BY <1>9 DEF Claims
  <2>2. PICK q \in expected_pairs(A) \ t.from :
          T2 = (T \ {t}) \union {[t EXCEPT !.from = @ \union {q}]}
    BY <2>1
  <2>3. PICK g \in gs : t = tg(g)
    BY <1>2
  <2> DEFINE u == [t EXCEPT !.from = @ \union {q}]
  <2>4. u \in T2 /\ u.from = g \union {q} /\ q \notin g
    <3>1. u.from = t.from \union {q}
      BY <2>3, ClaimFields DEF tg
    <3> QED
      BY <1>1, <2>2, <2>3, <3>1
  <2>5. \A h \in gs : h = g \/ tg(h) \in T2
    <3>1. \A h \in gs : tg(h) = tg(g) => h = g
      BY <1>1
    <3> QED
      BY <1>2, <2>2, <2>3, <3>1
  <2> HIDE DEF u
  <2>6. ASSUME NEW p \in Shown(A, K)
        PROVE  (\E s \in T2 : p \in s.from) \/ (\E r \in R2 : r.pair = p /\ r.reason = "agent")
    <3>1. ASSUME NEW h \in gs, p \in h PROVE \E s \in T2 : p \in s.from
      BY <1>1, <2>4, <2>5, <3>1
    <3> QED
      BY <1>5, <2>1, <2>6, <3>1
  <2>7. q \in expected_pairs(A) /\ q \notin dedup_decisions(A, K)
    BY <2>4, ClaimedIsOpen
  <2>8. q \in Shown(A, K)
    BY <2>6, <2>7, ClaimedIsOpen, StraightNumbers
  <2>9. CASE \E h \in gs : q \in h
    <3>1. PICK h \in gs : q \in h
      BY <2>9
    <3>2. h # g /\ tg(h) \in T2 /\ tg(h).from = h
      BY <1>1, <2>4, <2>5, <3>1
    <3>3. tg(h) # u
      BY <1>2, <2>4, <3>1, <3>2
    <3> QED
      BY <2>4, <3>1, <3>2, <3>3 DEF Passes
  <2>10. CASE [pair |-> q, reason |-> "agent"] \in R
    <3>1. [pair |-> q, reason |-> "agent"] \in Rows(A, K, R2)
      BY <2>1, <2>10 DEF Rows
    <3> QED
      BY <2>4, <3>1 DEF Passes
  <2> QED
    BY <1>5, <2>8, <2>9, <2>10
<1> QED
  BY <1>6, <1>7, <1>8, <1>9

(* An agent that works the original positions out claims no other finding  *)
(* and passes.                                                             *)
LEMMA AsTheyWere ==
  ASSUME NEW A \in Files, NEW K, NEW n, \A p : Number(A, K, n, p) = Meant(A, K, p),
         NEW gs, NEW T, NEW R, Answer(A, K, n, gs, T, R),
         NEW T2, NEW R2, Passes(A, K, T2, R2, accepted(A)),
         \/ T2 = T /\ R2 = R
         \/ Forgets(T, R, T2, R2)
         \/ Dedups(T, R, T2, R2)
         \/ Claims(A, T, R, T2, R2)
  PROVE  \A t \in T2 : t.from = t.means
<1> DEFINE tg(g) == MergedTarget(A, K, n, g)
<1>1. ASSUME NEW g
      PROVE  tg(g).from = {Number(A, K, n, p) : p \in g} /\ tg(g).means = {Meant(A, K, p) : p \in g}
  BY TargetFields
<1>2. ASSUME NEW g PROVE /\ tg(g).from = tg(g).means
                         /\ tg(g).from = {Meant(A, K, p) : p \in g}
  <2>1. {Number(A, K, n, p) : p \in g} = {Meant(A, K, p) : p \in g}
    OBVIOUS
  <2> QED
    BY <1>1, <2>1
<1>3. T = {tg(g) : g \in gs}
  BY DEF Answer
<1>4. \A p \in Shown(A, K) : \/ (\E g \in gs : p \in g)
                               \/ [pair |-> Meant(A, K, p), reason |-> "agent"] \in R
  <2>1. R = {[pair |-> Number(A, K, n, p), reason |-> "agent"] : p \in Shown(A, K) \ UNION gs}
    BY DEF Answer
  <2>2. ASSUME NEW p \in Shown(A, K) \ UNION gs
        PROVE  [pair |-> Meant(A, K, p), reason |-> "agent"] \in R
    BY <2>1, <2>2, Zenon
  <2> QED
    BY <2>2
<1> HIDE DEF tg
<1>5. \A t \in T : t.from = t.means
  BY <1>2, <1>3
<1>6. CASE T2 = T \/ Forgets(T, R, T2, R2) \/ Dedups(T, R, T2, R2)
  BY <1>5, <1>6 DEF Forgets, Dedups
<1>7. CASE Claims(A, T, R, T2, R2)
  <2>1. PICK t \in T : /\ R2 = R
                      /\ \E q \in expected_pairs(A) \ t.from :
                           T2 = (T \ {t}) \union {[t EXCEPT !.from = @ \union {q}]}
    BY <1>7 DEF Claims
  <2>2. PICK q \in expected_pairs(A) \ t.from :
          T2 = (T \ {t}) \union {[t EXCEPT !.from = @ \union {q}]}
    BY <2>1
  <2>3. PICK g \in gs : t = tg(g)
    BY <1>3
  <2> DEFINE u == [t EXCEPT !.from = @ \union {q}]
  <2>4. u \in T2 /\ u.from = t.from \union {q} /\ u.means = t.means
    BY <2>2, <2>3, ClaimFields DEF tg
  <2>5. \A s \in T : s = t \/ s \in T2
    BY <2>2
  <2> HIDE DEF u
  <2>6. q \in expected_pairs(A) /\ q \notin dedup_decisions(A, K)
    BY <2>4, ClaimedIsOpen
  <2>7. PICK p \in Shown(A, K) : Meant(A, K, p) = q
    <3>1. q = <<q[1], q[2]>>
      BY <2>6, PairsArePairs
    <3>2. q[1] \in accepted(A) /\ q[2] \in Kept(A, K, q[1])
      BY <2>6, <3>1, ExpectedPairs
    <3> DEFINE k == Cardinality(Upto(A, K, q[1], q[2]))
    <3>3. k \in 1..Cardinality(Kept(A, K, q[1])) /\ Original(A, K, q[1], k) = q[2]
      BY <3>2, RankOf, OriginalOfRank
    <3> HIDE DEF k
    <3>4. <<q[1], k>> \in Shown(A, K)
      BY <3>2, <3>3, ExpectedPairs
    <3>5. Meant(A, K, <<q[1], k>>) = q
      BY <3>1, <3>3 DEF Meant
    <3> QED
      BY <3>4, <3>5
  <2>8. CASE \E h \in gs : p \in h
    <3>1. PICK h \in gs : p \in h
      BY <2>8
    <3>2. q \in tg(h).from
      BY <1>2, <2>7, <3>1
    <3>3. tg(h) \in T /\ tg(h) # t
      BY <1>3, <2>2, <3>1, <3>2
    <3>4. tg(h) # u
      BY <1>2, <1>5, <2>2, <2>4, <3>2
    <3> QED
      BY <2>4, <2>5, <3>2, <3>3, <3>4 DEF Passes
  <2>9. CASE [pair |-> Meant(A, K, p), reason |-> "agent"] \in R
    <3>1. [pair |-> q, reason |-> "agent"] \in Rows(A, K, R2)
      BY <2>1, <2>7, <2>9 DEF Rows
    <3> QED
      BY <2>4, <3>1 DEF Passes
  <2> QED
    BY <1>4, <2>8, <2>9
<1> QED
  BY <1>6, <1>7

-----------------------------------------------------------------------------
(* With the coordinator's rows, an answer or a slip of it that passes      *)
(* credits every target to the findings the agent meant.                   *)
Full(out, A, K) == [out EXCEPT !.rejected = @ \union dedup_rejections(A, K)]
LEMMA NumberingIsNeverSilent ==
  ASSUME NEW A \in Files, NEW K, NEW n, NEW out \in Compliant(A, K, n),
         NEW slip \in {out} \union Slips(A, out),
         validate_merge_output_with_dedup(Full(slip, A, K), A, dedup_decisions(A, K))
  PROVE  \E T, R : /\ Full(slip, A, K) = [targets |-> T, rejected |-> Rows(A, K, R), lens |-> accepted(A)]
                   /\ Passes(A, K, T, R, accepted(A))
                   /\ \A t \in T : t.from = t.means
<1>1. PICK gs, T, R : Answer(A, K, n, gs, T, R)
                      /\ out = [targets |-> T, rejected |-> R, lens |-> accepted(A)]
  BY CompliantAnswers
<1>2. PICK T2, R2, L2 :
        /\ slip = [targets |-> T2, rejected |-> R2, lens |-> L2]
        /\ \/ T2 = T /\ R2 = R
           \/ Forgets(T, R, T2, R2)
           \/ Dedups(T, R, T2, R2)
           \/ Claims(A, T, R, T2, R2)
  BY <1>1, SlipForms
<1>3. Full(slip, A, K) = [targets |-> T2, rejected |-> Rows(A, K, R2), lens |-> L2]
  <2>1. slip = [targets |-> T2, rejected |-> R2, lens |-> L2]
    BY <1>2
  <2> DEFINE D == dedup_rejections(A, K)
  <2> HIDE DEF D
  <2>2. [slip EXCEPT !.rejected = @ \union D] = [targets |-> T2, rejected |-> R2 \union D, lens |-> L2]
    <3>1. [[targets |-> T2, rejected |-> R2, lens |-> L2] EXCEPT !.rejected = @ \union D]
            = [targets |-> T2, rejected |-> R2 \union D, lens |-> L2]
      OBVIOUS
    <3> QED
      BY <2>1, <3>1, Zenon
  <2> QED
    BY <2>2 DEF D, Full, Rows
<1>4. Passes(A, K, T2, R2, L2)
  BY <1>3, ValidPasses
<1>5. L2 = accepted(A)
  BY <1>4 DEF Passes
<1>6. (\A p : Number(A, K, n, p) = p) \/ (\A p : Number(A, K, n, p) = Meant(A, K, p))
  BY DEF Number
<1>7. \A t \in T2 : t.from = t.means
  <2>1. Answer(A, K, n, gs, T, R) /\ Passes(A, K, T2, R2, accepted(A))
    BY <1>1, <1>4, <1>5
  <2>2. CASE \A p : Number(A, K, n, p) = p
    BY <1>2, <2>1, <2>2, AsShown, SMTT(30)
  <2>3. CASE \A p : Number(A, K, n, p) = Meant(A, K, p)
    BY <1>2, <2>1, <2>3, AsTheyWere
  <2> QED
    BY <1>6, <2>2, <2>3
<1> QED
  BY <1>3, <1>4, <1>5, <1>7

(* What PlanIsSound and the coverage checks of `session validate` ask of   *)
(* an output.                                                              *)
SoundOutput(A, K, out) ==
  /\ \A p \in expected_pairs(A) :
       Cardinality({t \in out.targets : p \in t.from})
         + Cardinality({r \in out.rejected : r.pair = p}) = 1
  /\ \A t \in out.targets : t.from = t.means
  /\ \A p \in expected_pairs(A) :
       Finding(A, p).sig \in K <=> [pair |-> p, reason |-> "dedup"] \in out.rejected
  /\ check_target_coverage(A, out) /\ check_lens_disposition_coverage(A, out)

(* The second coverage check, element by element.                          *)
LEMMA ChecksCoverage ==
  ASSUME NEW A, NEW out,
         \A s, t \in out.targets : s # t => s.from \intersect t.from = {},
         \A q, r \in out.rejected : q # r => q.pair # r.pair,
         \A t \in out.targets, r \in out.rejected : r.pair \notin t.from,
         \A p : p \in expected_pairs(A) <=>
                  (\E t \in out.targets : p \in t.from) \/ (\E r \in out.rejected : r.pair = p)
  PROVE  check_target_coverage(A, out)
<1> DEFINE M == UNION {t.from : t \in out.targets}
           N == {r.pair : r \in out.rejected}
           Twice == \/ \E s, t \in out.targets : s # t /\ s.from \intersect t.from # {}
                    \/ \E t \in out.targets, r \in out.rejected : r.pair \in t.from
                    \/ \E r, s \in out.rejected : r # s /\ r.pair = s.pair
<1>1. \A p : p \in M <=> \E t \in out.targets : p \in t.from
  OBVIOUS
<1>2. \A p : p \in N <=> \E r \in out.rejected : r.pair = p
  OBVIOUS
<1> HIDE DEF M, N
<1>3. M \union N = expected_pairs(A)
  BY <1>1, <1>2
<1>4. ~Twice
  OBVIOUS
<1> HIDE DEF Twice
<1> QED
  BY <1>3, <1>4 DEF M, N, Twice, check_target_coverage

(* What passes is sound.                                                   *)
LEMMA PassingIsSound ==
  ASSUME NEW A, NEW K, NEW T, NEW R, Passes(A, K, T, R, accepted(A)), \A t \in T : t.from = t.means
  PROVE  SoundOutput(A, K, [targets |-> T, rejected |-> Rows(A, K, R), lens |-> accepted(A)])
<1> DEFINE Q == Rows(A, K, R)
           out == [targets |-> T, rejected |-> Q, lens |-> accepted(A)]
<1>1. out.targets = T /\ out.rejected = Q /\ out.lens = accepted(A)
  OBVIOUS
<1>2. /\ \A s, t \in T : s # t => s.from \intersect t.from = {}
      /\ \A q, r \in Q : q # r => q.pair # r.pair
      /\ \A t \in T, r \in Q : r.pair \notin t.from
      /\ \A p : p \in expected_pairs(A) <=>
                  (\E t \in T : p \in t.from) \/ (\E r \in Q : r.pair = p)
      /\ \A r \in Q : r.reason = "dedup" => r.pair \in dedup_decisions(A, K)
      /\ \A p \in dedup_decisions(A, K) : [pair |-> p, reason |-> "dedup"] \in Q
  BY DEF Passes
<1> HIDE DEF Q, out
<1>3. ASSUME NEW p \in expected_pairs(A)
      PROVE  Cardinality({t \in T : p \in t.from}) + Cardinality({r \in Q : r.pair = p}) = 1
  <2> DEFINE Ts == {t \in T : p \in t.from}
             Rs == {r \in Q : r.pair = p}
  <2>1. CASE \E t \in T : p \in t.from
    <3>1. PICK t \in T : p \in t.from
      BY <2>1
    <3>2. Ts = {t} /\ Rs = {}
      BY <1>2, <3>1
    <3> HIDE DEF Ts, Rs
    <3>3. Cardinality({t}) = 1 /\ Cardinality({}) = 0
      BY FS_Singleton, FS_EmptySet
    <3>4. Cardinality(Ts) + Cardinality(Rs) = 1
      BY <3>2, <3>3
    <3> QED
      BY <3>4 DEF Ts, Rs
  <2>2. CASE \E r \in Q : r.pair = p
    <3>1. PICK r \in Q : r.pair = p
      BY <2>2
    <3>2. Ts = {} /\ Rs = {r}
      BY <1>2, <3>1
    <3> HIDE DEF Ts, Rs
    <3>3. Cardinality({r}) = 1 /\ Cardinality({}) = 0
      BY FS_Singleton, FS_EmptySet
    <3>4. Cardinality(Ts) + Cardinality(Rs) = 1
      BY <3>2, <3>3
    <3> QED
      BY <3>4 DEF Ts, Rs
  <2> QED
    BY <1>2, <1>3, <2>1, <2>2
<1>4. ASSUME NEW p \in expected_pairs(A)
      PROVE  Finding(A, p).sig \in K <=> [pair |-> p, reason |-> "dedup"] \in Q
  <2>1. Finding(A, p).sig \in K <=> p \in dedup_decisions(A, K)
    BY <1>4 DEF dedup_decisions
  <2>2. [pair |-> p, reason |-> "dedup"] \in Q => p \in dedup_decisions(A, K)
    BY <1>2
  <2> QED
    BY <1>2, <2>1, <2>2
<1>5. check_target_coverage(A, out)
  BY <1>1, <1>2, ChecksCoverage
<1>6. check_lens_disposition_coverage(A, out)
  BY <1>1 DEF check_lens_disposition_coverage
<1>7. SoundOutput(A, K, out)
  BY <1>1, <1>3, <1>4, <1>5, <1>6 DEF SoundOutput
<1> QED
  BY <1>7 DEF out, Q

(* When all is blocked, the coordinator's rows alone are the output.       *)
LEMMA NothingShownPasses ==
  ASSUME NEW A \in Files, NEW K, Shown(A, K) = {}
  PROVE  Passes(A, K, {}, {}, accepted(A))
<1> DEFINE D == dedup_rejections(A, K)
<1>1. Rows(A, K, {}) = D
  BY DEF Rows
<1>2. \A r \in D : r.pair \in dedup_decisions(A, K) /\ r = [pair |-> r.pair, reason |-> "dedup"]
  BY DEF dedup_rejections
<1>3. \A p \in dedup_decisions(A, K) : [pair |-> p, reason |-> "dedup"] \in D
  BY DEF dedup_rejections
<1>4. ASSUME NEW p \in expected_pairs(A), p \notin dedup_decisions(A, K) PROVE FALSE
  <2>1. p = <<p[1], p[2]>>
    BY <1>4, PairsArePairs
  <2>2. p[1] \in accepted(A) /\ p[2] \in Kept(A, K, p[1])
    BY <1>4, <2>1, ExpectedPairs
  <2>3. Cardinality(Kept(A, K, p[1])) \in Nat \ {0}
    BY <2>2, KeptIsFinite, FS_EmptySet
  <2>4. 1 \in 1..Cardinality(Kept(A, K, p[1]))
    BY <2>3
  <2>5. <<p[1], 1>> \in Shown(A, K)
    BY <2>2, <2>4, ExpectedPairs
  <2> QED
    BY <2>5
<1> HIDE DEF D
<1>5. dedup_decisions(A, K) = expected_pairs(A)
  BY <1>4 DEF dedup_decisions
<1>6. ASSUME NEW p PROVE p \in expected_pairs(A) <=> \E r \in D : r.pair = p
  <2>1. [pair |-> p, reason |-> "dedup"].pair = p
    OBVIOUS
  <2>2. p \in expected_pairs(A) => \E r \in D : r.pair = p
    BY <1>3, <1>5, <2>1
  <2>3. ASSUME NEW r \in D, r.pair = p PROVE p \in expected_pairs(A)
    BY <1>2, <1>5, <2>3
  <2> QED
    BY <2>2, <2>3
<1> QED
  BY <1>1, <1>2, <1>3, <1>6 DEF Passes

-----------------------------------------------------------------------------
(* The commands.                                                           *)

Plans == Planned /\ PlanIsSound /\ ValidateAgreesWithMerge /\ PlanIsOfOneBaseline

(* Without a plan nothing is vouched for, and while a command runs there   *)
(* is no plan.                                                             *)
LEMMA NoPlan ==
  ASSUME plan' = None PROVE Plans'
  BY DEF Plans, Planned, PlanIsSound, ValidateAgreesWithMerge, PlanIsOfOneBaseline

(* While a command runs there is no plan.                                  *)
LEMMA RunningIsUnplanned ==
  ASSUME IInv, cmd # None PROVE plan = None
  BY DEF IInv, Planned

(* A plan stays what it is while its files stay.                           *)
LEMMA SamePlan ==
  ASSUME IInv, UNCHANGED <<base, cand, ana, merged, cmd, mine, plan>>
  PROVE  Plans'
<1>1. Planned'
  BY DEF IInv, Planned
<1>2. PlanIsSound'
  BY DEF IInv, PlanIsSound
<1>3. ValidateAgreesWithMerge'
  BY DEF IInv, ValidateAgreesWithMerge, validate
<1>4. PlanIsOfOneBaseline'
  BY DEF IInv, PlanIsOfOneBaseline
<1> QED
  BY <1>1, <1>2, <1>3, <1>4 DEF Plans

(* A command that ends leaves little to say.                               *)
LEMMA Ends ==
  ASSUME TypeOK', cmd' = None, tasks' = <<>>, RunIdIsOwn', Plans'
  PROVE  IInv'
<1>1. Control'
  BY DEF Control, At
<1>2. OwnIds'
  BY DEF OwnIds, At
<1>3. FreshChain'
  BY DEF FreshChain
<1> QED
  BY <1>1, <1>2, <1>3 DEF IInv, Plans

(* What Proceed leads to.                                                  *)
LEMMA Proceeds ==
  ASSUME IInv, cmd # None, Proceed
  PROVE  \/ cmd' = None /\ cmd.pc = cmd.last
         \/ /\ cmd' # None /\ cmd' \in Command /\ cmd.pc # cmd.last
            /\ cmd'.last = cmd.last /\ cmd'.id = cmd.id
            /\ cmd'.knew = cmd.knew /\ cmd'.fresh = cmd.fresh
            /\ cmd'.pc \in StepsOf(cmd.last)
            /\ cmd.pc = "bin" => cmd'.pc = IF cmd.id = None THEN "bench" ELSE "show"
            /\ cmd.pc = "bench" => cmd'.pc = "ids"
            /\ cmd.pc = "ids" => cmd'.pc = "shows"
            /\ cmd.pc = "show" => cmd'.pc = "import"
            /\ cmd.pc = "import" => cmd'.pc = "noise"
            /\ cmd.pc \in {"shows", "noise"} => cmd'.pc = "triage"
            /\ cmd.pc = "triage" => cmd'.pc = "memory"
            /\ cmd.pc = "memory" => cmd'.pc = "spawn"
            /\ cmd.pc = "spawn" => cmd'.pc = "join"
            /\ cmd.pc = "join" => cmd'.pc = "merge"
            /\ cmd.pc # "merge"
<1>1. cmd \in Command /\ cmd.pc \in StepsOf(cmd.last) /\ (cmd.id = None => cmd.last # "noise")
      /\ (cmd.id # None => cmd.last \in {"merge", "noise"})
  BY DEF IInv, TypeOK, Control
<1>2. cmd.pc = "merge" => cmd.last = "merge"
  BY <1>1 DEF StepsOf, Command
<1>3. CASE cmd.pc = cmd.last
  BY <1>3 DEF Proceed
<1>4. CASE cmd.pc # cmd.last
  <2> DEFINE x == After[cmd.pc]
  <2>1. cmd' = [cmd EXCEPT !.pc = x]
    BY <1>4 DEF Proceed
  <2>2. /\ cmd.pc = "bin" => x = IF cmd.id = None THEN "bench" ELSE "show"
        /\ cmd.pc = "bench" => x = "ids"
        /\ cmd.pc = "ids" => x = "shows"
        /\ cmd.pc = "show" => x = "import"
        /\ cmd.pc = "import" => x = "noise"
        /\ cmd.pc \in {"shows", "noise"} => x = "triage"
        /\ cmd.pc = "triage" => x = "memory"
        /\ cmd.pc = "memory" => x = "spawn"
        /\ cmd.pc = "spawn" => x = "join"
        /\ cmd.pc = "join" => x = "merge"
    BY DEF After
  <2> HIDE DEF x
  <2>3. cmd.pc \in Pcs \ {"merge"}
    BY <1>1, <1>2, <1>4 DEF Command
  <2>4. x \in StepsOf(cmd.last) /\ x \in Pcs
    BY <1>1, <1>4, <2>2, <2>3 DEF StepsOf, Pcs, Command
  <2>5. /\ cmd' \in Command /\ cmd'.pc = x
        /\ cmd'.last = cmd.last /\ cmd'.id = cmd.id
        /\ cmd'.knew = cmd.knew /\ cmd'.fresh = cmd.fresh
    BY <1>1, <2>1, <2>4 DEF Command
  <2> QED
    BY <1>4, <2>2, <2>3, <2>4, <2>5
<1> QED
  BY <1>3, <1>4

(* A command on an empty session is fresh, and finds what FreshChain says. *)
LEMMA BeginKeeps ==
  ASSUME IInv, NEW name \in DOMAIN First, Begin(name) PROVE IInv'
<1>1. /\ cmd = None /\ plan' = None /\ commands' \in 0..MaxCommands
      /\ UNCHANGED <<db, lock, base, cand, memory, ana, merged, recorded, blocked, tasks, faults, mine>>
  BY DEF IInv, TypeOK, Begin, files
<1>2. PICK id \in ImportId(name) :
        cmd' = [pc |-> First[name], last |-> Last[name], id |-> id,
                knew |-> IF name \in {"run", "import"} THEN blocked ELSE None,
                fresh |-> <<base, cand, merged>> = <<Empty, None, NoTargets>>
                          /\ \A f \in Families : ana[f] = None]
  BY DEF Begin
<1>3. /\ name \in {"run", "import", "baseline_run", "baseline_import", "triage", "analysis", "merge"}
      /\ First[name] \in {"bin", "triage", "spawn", "merge"}
      /\ Last[name] \in {"merge", "shows", "noise", "triage", "join"}
      /\ First[name] \in StepsOf(Last[name])
      /\ name \in {"import", "baseline_import"} => Last[name] \in {"merge", "noise"}
      /\ name \notin {"import", "baseline_import"} => Last[name] # "noise"
  BY DEF First, Last, StepsOf, Pcs
<1>4. /\ id # None => id \in 1..db /\ id \in Ids /\ name \in {"import", "baseline_import"}
      /\ id = None => name \notin {"import", "baseline_import"}
  BY DEF ImportId, IInv, TypeOK, Ids
<1> DEFINE k == IF name \in {"run", "import"} THEN blocked ELSE None
           b == <<base, cand, merged>> = <<Empty, None, NoTargets>> /\ \A f \in Families : ana[f] = None
<1>5. k \in {None} \union SUBSET Signatures /\ b \in BOOLEAN
  BY DEF IInv, TypeOK
<1>6. b => base = Empty /\ cand = None /\ NoAnalyses
  BY DEF NoAnalyses
<1> HIDE DEF k, b
<1>7. cmd' = [pc |-> First[name], last |-> Last[name], id |-> id, knew |-> k, fresh |-> b]
  BY <1>2 DEF k, b
<1>8. /\ cmd' \in Command /\ cmd' # None
      /\ cmd'.pc = First[name] /\ cmd'.last = Last[name] /\ cmd'.id = id /\ cmd'.fresh = b
  BY <1>3, <1>4, <1>5, <1>7 DEF Command, Pcs
<1>9. TypeOK'
  BY <1>1, <1>8 DEF IInv, TypeOK, At
<1>10. Control'
  BY <1>1, <1>3, <1>4, <1>8 DEF IInv, Control, At
<1>11. OwnIds'
  BY <1>1, <1>3, <1>8 DEF IInv, OwnIds, RunIdIsOwn, At
<1>12. FreshChain'
  BY <1>1, <1>3, <1>6, <1>8 DEF FreshChain, NoAnalyses, TriageReady, Empty
<1> QED
  BY <1>1, <1>9, <1>10, <1>11, <1>12, NoPlan DEF IInv, Plans

(* A step of Phases 0a and 0: what it has to see to before the next one.   *)
LEMMA BaselineStep ==
  ASSUME IInv, cmd # None, Proceed \/ cmd' = None,
         cmd.pc \in {"bin", "bench", "ids", "shows", "show", "import", "noise"},
         UNCHANGED <<cand, memory, ana, merged, recorded, blocked, tasks, commands, plan>>,
         db' \in db..MaxRuns, lock' \in {None, "other"}, faults' \in 0..MaxFaults,
         base' \in BaselineFiles, mine \subseteq mine', mine' \subseteq 1..db', RunIdIsOwn',
         cmd' # None =>
           /\ cmd.pc = "bench" => base'.json \in mine'
           /\ cmd.pc = "show" => cmd.id \in mine'
           /\ cmd.pc = "ids" => Measured'
           /\ cmd.pc = "shows" => base' = base
           /\ cmd.pc = "import" => base'.run # None /\ base'.rerun # None
           /\ cmd.pc = "noise" => base'.json # None /\ base'.run = base.run /\ base'.rerun = base.rerun
  PROVE  IInv'
<1>1. plan' = None /\ tasks = <<>> /\ tasks' = <<>>
  BY RunningIsUnplanned DEF IInv, Control, At
<1>2. Plans'
  BY <1>1, NoPlan
<1>3. CASE cmd' = None
  <2>1. TypeOK'
    BY <1>1, <1>3 DEF IInv, TypeOK
  <2> QED
    BY <1>1, <1>2, <1>3, <2>1, Ends
<1>4. CASE cmd' # None
  <2>1. /\ cmd' \in Command /\ cmd'.last = cmd.last /\ cmd'.id = cmd.id /\ cmd'.fresh = cmd.fresh
        /\ cmd'.pc \in StepsOf(cmd.last)
        /\ cmd.pc = "bin" => cmd'.pc = IF cmd.id = None THEN "bench" ELSE "show"
        /\ cmd.pc = "bench" => cmd'.pc = "ids"
        /\ cmd.pc = "ids" => cmd'.pc = "shows"
        /\ cmd.pc = "show" => cmd'.pc = "import"
        /\ cmd.pc = "import" => cmd'.pc = "noise"
        /\ cmd.pc \in {"shows", "noise"} => cmd'.pc = "triage"
    BY <1>4, Proceeds
  <2>2. TypeOK'
    BY <1>1, <2>1 DEF IInv, TypeOK
  <2>3. Control'
    BY <1>1, <2>1 DEF IInv, TypeOK, Control, At
  <2>4. OwnIds'
    BY <1>4, <2>1 DEF OwnIds, At
  <2>5. FreshChain'
    <3> SUFFICES ASSUME cmd.fresh PROVE FreshChain'
      BY <2>1 DEF FreshChain
    <3>1. /\ cand = None /\ NoAnalyses
          /\ cmd.pc = "shows" => Measured
          /\ cmd.pc = "noise" => base.run # None /\ base.rerun # None
      BY DEF IInv, FreshChain, Pcs
    <3>2. cand' = None /\ NoAnalyses' /\ (cmd'.pc = "shows" => Measured')
          /\ (cmd'.pc = "triage" => Measured')
          /\ (cmd'.pc = "noise" => base'.run # None /\ base'.rerun # None)
          /\ cmd'.pc \notin {"join", "merge"}
      BY <1>4, <2>1, <3>1 DEF NoAnalyses, Measured
    <3> QED
      BY <3>2 DEF FreshChain
  <2> QED
    BY <1>2, <2>2, <2>3, <2>4, <2>5 DEF IInv, Plans
<1> QED
  BY <1>3, <1>4

(* The binary is archived, or the build fails.                             *)
LEMMA ArchiveBinaryKeeps ==
  ASSUME IInv, ArchiveBinary PROVE IInv'
<1>1. /\ cmd # None /\ cmd.pc = "bin" /\ (Proceed \/ cmd' = None)
      /\ UNCHANGED <<db, lock, cand, memory, ana, merged, recorded, blocked, tasks, commands, mine, plan>>
      /\ faults' \in 0..MaxFaults
  BY DEF IInv, TypeOK, ArchiveBinary, At, Fail, Fault
<1>2. /\ base' \in BaselineFiles
      /\ base'.json = base.json /\ base'.run = base.run /\ base'.rerun = base.rerun
  BY DEF IInv, TypeOK, ArchiveBinary, BaselineFiles
<1>3. lock \in {None, "other"} /\ db \in 0..MaxRuns /\ mine \subseteq 1..db /\ RunIdIsOwn
  BY <1>1 DEF IInv, TypeOK, OwnIds, At
<1> QED
  BY <1>1, <1>2, <1>3, BaselineStep DEF RunIdIsOwn

(* The lock is free, the command's own from here on.                       *)
LEMMA BenchStartKeeps ==
  ASSUME IInv, BenchStart PROVE IInv'
<1>1. /\ cmd # None /\ cmd.pc = "bench" /\ lock' = "session"
      /\ UNCHANGED <<db, cand, memory, ana, merged, recorded, blocked, cmd, tasks, commands, faults, mine, plan>>
  BY DEF BenchStart, At
<1>2. base' \in BaselineFiles /\ base'.run = base.run
  BY DEF IInv, TypeOK, BenchStart, BaselineFiles
<1>3. TypeOK'
  BY <1>1, <1>2 DEF IInv, TypeOK, At
<1>4. Control'
  BY <1>1 DEF IInv, Control, At
<1>5. OwnIds'
  BY <1>1, <1>2 DEF IInv, OwnIds, RunIdIsOwn, At
<1>6. FreshChain'
  BY <1>1 DEF IInv, FreshChain, NoAnalyses, Pcs
<1>7. Plans'
  BY <1>1, RunningIsUnplanned, NoPlan
<1> QED
  BY <1>3, <1>4, <1>5, <1>6, <1>7 DEF IInv, Plans

(* The run's id is in its own output.                                      *)
LEMMA BenchEndsKeeps ==
  ASSUME IInv, BenchEnds PROVE IInv'
<1>1. /\ cmd # None /\ cmd.pc = "bench" /\ lock' = None
      /\ UNCHANGED <<cand, memory, ana, merged, recorded, blocked, tasks, commands, plan>>
  BY DEF BenchEnds, At
<1>2. db \in 0..MaxRuns /\ mine \subseteq 1..db /\ RunIdIsOwn /\ base \in BaselineFiles
      /\ faults \in 0..MaxFaults
  BY DEF IInv, TypeOK, OwnIds
<1>3. CASE /\ db < MaxRuns /\ db' = db + 1 /\ mine' = mine \union {db + 1}
           /\ base' = [base EXCEPT !.json = db + 1]
           /\ Proceed /\ UNCHANGED faults
  <2>1. db + 1 \in Ids
    BY <1>2, <1>3 DEF Ids
  <2>2. base' \in BaselineFiles /\ base'.json = db + 1 /\ base'.run = base.run
    BY <1>2, <1>3, <2>1 DEF BaselineFiles
  <2>3. db' \in db..MaxRuns /\ mine' \subseteq 1..db' /\ mine \subseteq mine' /\ RunIdIsOwn'
    BY <1>2, <1>3, <2>2 DEF RunIdIsOwn
  <2> QED
    BY <1>1, <1>2, <1>3, <2>2, <2>3, BaselineStep
<1>4. CASE cmd' = None /\ UNCHANGED <<db, base, mine>> /\ faults' \in 0..MaxFaults
  BY <1>1, <1>2, <1>4, BaselineStep DEF RunIdIsOwn
<1> QED
  BY <1>2, <1>3, <1>4 DEF BenchEnds, Fault, Fail

(* The ids written are those of the run's own output.                      *)
LEMMA WriteIdsKeeps ==
  ASSUME IInv, WriteIds PROVE IInv'
<1>1. /\ cmd # None /\ cmd.pc = "ids" /\ Proceed
      /\ UNCHANGED <<db, lock, cand, memory, ana, merged, recorded, blocked, tasks, commands, faults, mine, plan>>
  BY DEF WriteIds, At
<1>2. base \in BaselineFiles /\ base.json \in mine /\ mine \subseteq 1..db /\ db \in 0..MaxRuns
      /\ faults \in 0..MaxFaults /\ lock \in {None, "other"}
  BY <1>1 DEF IInv, TypeOK, OwnIds, At
<1>3. base.json \in Ids /\ base.json # None
  <2>1. base.json \in 1..db
    BY <1>2
  <2>2. base.json \in 1..MaxRuns /\ base.json \in Nat
    BY <1>2, <2>1
  <2> QED
    BY <2>2 DEF Ids
<1>4. /\ base' \in BaselineFiles
      /\ base'.json = base.json /\ base'.run = base.json /\ base'.rerun = base.json
  <2> DEFINE id == base.json
  <2>1. base' = [base EXCEPT !.run = id, !.rerun = id, !.noise = "configured"]
    BY DEF WriteIds, extract_run_id
  <2>2. id \in Ids
    BY <1>3
  <2> QED
    BY <1>2, <2>1, <2>2 DEF BaselineFiles
<1>5. RunIdIsOwn' /\ Measured'
  BY <1>1, <1>2, <1>3, <1>4 DEF RunIdIsOwn, Measured
<1> QED
  BY <1>1, <1>2, <1>4, <1>5, BaselineStep

(* `bench list` and `bench show` change nothing here.                      *)
LEMMA ShowsKeeps ==
  ASSUME IInv, Shows PROVE IInv'
<1>1. /\ cmd # None /\ cmd.pc = "shows" /\ (Proceed \/ cmd' = None) /\ lock = None
      /\ UNCHANGED <<db, lock, base, cand, memory, ana, merged, recorded, blocked, tasks, commands, mine, plan>>
      /\ faults' \in 0..MaxFaults
  BY DEF IInv, TypeOK, Shows, At, Fail, Fault, files
<1>2. db \in 0..MaxRuns /\ mine \subseteq 1..db /\ RunIdIsOwn /\ base \in BaselineFiles
  BY DEF IInv, TypeOK, OwnIds
<1> QED
  BY <1>1, <1>2, BaselineStep DEF RunIdIsOwn

(* An import makes the run it names the session's own.                     *)
LEMMA ImportShowKeeps ==
  ASSUME IInv, ImportShow PROVE IInv'
<1>1. /\ cmd # None /\ cmd.pc = "show" /\ lock = None
      /\ UNCHANGED <<db, lock, cand, memory, ana, merged, recorded, blocked, tasks, commands, plan>>
  BY DEF ImportShow, At
<1>2. db \in 0..MaxRuns /\ mine \subseteq 1..db /\ RunIdIsOwn /\ base \in BaselineFiles
      /\ faults \in 0..MaxFaults
  BY DEF IInv, TypeOK, OwnIds
<1>3. cmd.id \in 1..db /\ cmd.id \in Ids
  BY <1>1, <1>2 DEF IInv, Control, Ids
<1>4. CASE /\ base' = [base EXCEPT !.json = cmd.id] /\ mine' = mine \union {cmd.id}
           /\ Proceed /\ UNCHANGED faults
  <2>1. base' \in BaselineFiles /\ base'.run = base.run
    BY <1>2, <1>3, <1>4 DEF BaselineFiles
  <2>2. mine \subseteq mine' /\ mine' \subseteq 1..db' /\ cmd.id \in mine' /\ RunIdIsOwn'
    BY <1>1, <1>2, <1>3, <1>4, <2>1 DEF RunIdIsOwn
  <2> QED
    BY <1>1, <1>2, <1>4, <2>1, <2>2, BaselineStep
<1>5. CASE base' = [base EXCEPT !.json = None] /\ Fault /\ Fail /\ UNCHANGED mine
  <2>1. base' \in BaselineFiles /\ base'.run = base.run
    BY <1>2, <1>5 DEF BaselineFiles
  <2>2. cmd' = None /\ faults' \in 0..MaxFaults
    BY <1>2, <1>5 DEF Fault, Fail
  <2> QED
    BY <1>1, <1>2, <1>5, <2>1, <2>2, BaselineStep DEF RunIdIsOwn
<1> QED
  BY <1>4, <1>5 DEF ImportShow

(* It writes both ids, the rerun's perhaps of another run.                 *)
LEMMA ImportIdsKeeps ==
  ASSUME IInv, ImportIds PROVE IInv'
<1>1. /\ cmd # None /\ cmd.pc = "import" /\ lock = None /\ (Proceed \/ cmd' = None)
      /\ UNCHANGED <<db, lock, cand, memory, ana, merged, recorded, blocked, tasks, commands, mine, plan>>
      /\ faults' \in 0..MaxFaults
  BY DEF IInv, TypeOK, ImportIds, At, Fail, Fault
<1>2. db \in 0..MaxRuns /\ mine \subseteq 1..db /\ base \in BaselineFiles
  BY DEF IInv, TypeOK
<1>3. cmd.id \in 1..db /\ cmd.id \in mine
  BY <1>1 DEF IInv, Control, OwnIds, At
<1>4. PICK rerun \in {cmd.id, 1} : base' = [base EXCEPT !.run = cmd.id, !.rerun = rerun]
  BY DEF ImportIds
<1>5. cmd.id \in Ids /\ rerun \in Ids
  BY <1>2, <1>3 DEF Ids
<1>6. base' \in BaselineFiles /\ base'.run = cmd.id /\ base'.rerun = rerun
  BY <1>2, <1>4, <1>5 DEF BaselineFiles
<1>7. base'.run # None /\ base'.rerun # None /\ RunIdIsOwn'
  BY <1>1, <1>3, <1>5, <1>6 DEF RunIdIsOwn, Ids
<1> QED
  BY <1>1, <1>2, <1>6, <1>7, BaselineStep

(* It goes on only with the output of the run it names.                    *)
LEMMA ImportNoiseKeeps ==
  ASSUME IInv, ImportNoise PROVE IInv'
<1>1. /\ cmd # None /\ cmd.pc = "noise" /\ (Proceed \/ cmd' = None)
      /\ UNCHANGED <<db, lock, cand, memory, ana, merged, recorded, blocked, tasks, commands, faults, mine, plan>>
  BY DEF ImportNoise, At, Fail
<1>2. db \in 0..MaxRuns /\ mine \subseteq 1..db /\ RunIdIsOwn /\ base \in BaselineFiles
      /\ faults \in 0..MaxFaults /\ lock \in {None, "other"}
  BY <1>1 DEF IInv, TypeOK, OwnIds, At
<1>3. cmd.id # None
  BY <1>1 DEF IInv, Control
<1>4. /\ base' \in BaselineFiles
      /\ base'.json = base.json /\ base'.run = base.run /\ base'.rerun = base.rerun
  BY <1>2 DEF ImportNoise, BaselineFiles
<1>5. cmd' # None => base.json = cmd.id
  BY DEF ImportNoise, Fail
<1> QED
  BY <1>1, <1>2, <1>3, <1>4, <1>5, BaselineStep DEF RunIdIsOwn

(* Triage goes on with a candidates.json only, and on an empty session     *)
(* with its own.                                                           *)
LEMMA TriageKeeps ==
  ASSUME IInv, Triage PROVE IInv'
<1>1. /\ cmd # None /\ cmd.pc = "triage" /\ (Proceed \/ cmd' = None)
      /\ UNCHANGED <<db, lock, base, memory, ana, merged, recorded, blocked, tasks, commands, mine, plan>>
      /\ faults' \in 0..MaxFaults
  BY DEF IInv, TypeOK, Triage, At, Fail, Fault
<1>2. base \in BaselineFiles /\ cand \in CandidatesFile \union {None}
  BY DEF IInv, TypeOK
<1>3. \/ UNCHANGED cand /\ (cmd' = None \/ cand # None)
      \/ /\ TriageReady /\ cand' \in CandidatesFile /\ cand'.run = base.run
  <2>1. ASSUME TriageReady, NEW fams \in SUBSET Families
        PROVE  Candidates(fams) \in CandidatesFile /\ Candidates(fams).run = base.run
    BY <1>2, <2>1 DEF Candidates, CandidatesFile, TriageReady, BaselineFiles
  <2> QED
    BY <2>1 DEF Triage, Fail
<1>4. cand' \in CandidatesFile \union {None} /\ (cmd' # None => cand' # None)
  BY <1>2, <1>3
<1>5. plan' = None /\ tasks = <<>> /\ tasks' = <<>> /\ Plans'
  BY <1>1, RunningIsUnplanned, NoPlan DEF IInv, Control, At
<1>6. RunIdIsOwn'
  BY <1>1 DEF IInv, OwnIds, RunIdIsOwn
<1>7. CASE cmd' = None
  <2>1. TypeOK'
    BY <1>1, <1>4, <1>5, <1>7 DEF IInv, TypeOK, At
  <2> QED
    BY <1>5, <1>6, <1>7, <2>1, Ends
<1>8. CASE cmd' # None
  <2>1. /\ cmd' \in Command /\ cmd'.last = cmd.last /\ cmd'.id = cmd.id /\ cmd'.fresh = cmd.fresh
        /\ cmd'.pc \in StepsOf(cmd.last) /\ cmd'.pc = "memory"
    BY <1>1, <1>8, Proceeds
  <2>2. TypeOK'
    BY <1>1, <1>4, <1>5, <2>1 DEF IInv, TypeOK, At
  <2>3. Control'
    BY <1>1, <1>4, <1>5, <1>8, <2>1 DEF IInv, Control, At
  <2>4. OwnIds'
    BY <1>6, <2>1 DEF OwnIds, At
  <2>5. FreshChain'
    <3> SUFFICES ASSUME cmd.fresh PROVE FreshChain'
      BY <2>1 DEF FreshChain
    <3>1. cand = None /\ NoAnalyses /\ (TriageReady => Measured)
      BY <1>1 DEF IInv, FreshChain, Pcs
    <3>2. NoAnalyses' /\ Measured' /\ cand'.run = base'.run
      BY <1>1, <1>3, <1>8, <3>1 DEF NoAnalyses, Measured
    <3> QED
      BY <2>1, <3>2 DEF FreshChain
  <2> QED
    BY <1>5, <2>2, <2>3, <2>4, <2>5 DEF IInv, Plans
<1> QED
  BY <1>7, <1>8

(* Optimizer memory is for the families of the candidates.                 *)
LEMMA OptimizerMemoryKeeps ==
  ASSUME IInv, OptimizerMemory PROVE IInv'
<1>1. /\ cmd # None /\ cmd.pc = "memory" /\ Proceed /\ memory' = cand.fams
      /\ UNCHANGED <<db, lock, base, cand, ana, merged, recorded, blocked, tasks, commands, faults, mine, plan>>
  BY DEF OptimizerMemory, At
<1>2. cand \in CandidatesFile /\ memory' \subseteq Families
  BY <1>1 DEF IInv, TypeOK, Control, CandidatesFile
<1>3. plan' = None /\ tasks = <<>> /\ tasks' = <<>> /\ Plans'
  BY <1>1, RunningIsUnplanned, NoPlan DEF IInv, Control, At
<1>4. RunIdIsOwn'
  BY <1>1 DEF IInv, OwnIds, RunIdIsOwn
<1>5. CASE cmd' = None
  <2>1. TypeOK'
    BY <1>1, <1>2, <1>3, <1>5 DEF IInv, TypeOK, At
  <2> QED
    BY <1>3, <1>4, <1>5, <2>1, Ends
<1>6. CASE cmd' # None
  <2>1. /\ cmd' \in Command /\ cmd'.last = cmd.last /\ cmd'.id = cmd.id /\ cmd'.fresh = cmd.fresh
        /\ cmd'.pc \in StepsOf(cmd.last) /\ cmd'.pc = "spawn"
    BY <1>1, <1>6, Proceeds
  <2>2. TypeOK'
    BY <1>1, <1>2, <1>3, <2>1 DEF IInv, TypeOK, At
  <2>3. Control'
    BY <1>1, <1>3, <1>6, <2>1 DEF IInv, Control, At
  <2>4. OwnIds'
    BY <1>4, <2>1 DEF OwnIds, At
  <2>5. FreshChain'
    BY <1>1, <2>1 DEF IInv, FreshChain, NoAnalyses, Measured
  <2> QED
    BY <1>3, <2>2, <2>3, <2>4, <2>5 DEF IInv, Plans
<1> QED
  BY <1>5, <1>6

(* One waiting task per family of the candidates.                          *)
LEMMA SpawnAnalyzersKeeps ==
  ASSUME IInv, SpawnAnalyzers PROVE IInv'
<1>1. /\ cmd # None /\ cmd.pc = "spawn"
      /\ UNCHANGED <<db, lock, base, cand, memory, ana, merged, recorded, blocked, commands, faults, mine, plan>>
  BY DEF SpawnAnalyzers, At, files
<1>2. plan' = None /\ tasks = <<>> /\ Plans'
  BY <1>1, RunningIsUnplanned, NoPlan DEF IInv, Control, At
<1>3. RunIdIsOwn'
  BY <1>1 DEF IInv, OwnIds, RunIdIsOwn
<1>4. CASE cand = None
  <2>1. cmd' = None /\ tasks' = <<>>
    BY <1>2, <1>4 DEF SpawnAnalyzers, Fail
  <2>2. TypeOK'
    BY <1>1, <1>2, <2>1 DEF IInv, TypeOK, At
  <2> QED
    BY <1>2, <1>3, <2>1, <2>2, Ends
<1>5. CASE cand # None
  <2>1. Proceed /\ tasks' = [f \in cand.fams |-> "waiting"]
    BY <1>5 DEF SpawnAnalyzers
  <2>2. cmd.last # "spawn"
    BY <1>1 DEF IInv, TypeOK, Command
  <2>3. /\ cmd' # None
        /\ cmd' \in Command /\ cmd'.last = cmd.last /\ cmd'.id = cmd.id /\ cmd'.fresh = cmd.fresh
        /\ cmd'.pc \in StepsOf(cmd.last) /\ cmd'.pc = "join"
    BY <1>1, <2>1, <2>2, Proceeds
  <2>4. cand.fams \subseteq Families
    BY <1>5 DEF IInv, TypeOK, CandidatesFile
  <2>5. /\ DOMAIN tasks' = cand.fams
        /\ \A f \in DOMAIN tasks' : tasks'[f] = "waiting"
    BY <2>1
  <2>6. TypeOK'
    BY <1>1, <1>2, <2>3, <2>4, <2>5 DEF IInv, TypeOK, At
  <2>7. Control'
    BY <1>1, <1>5, <2>3, <2>5 DEF IInv, Control, At
  <2>8. OwnIds'
    BY <1>3, <2>3 DEF OwnIds, At
  <2>9. FreshChain'
    BY <1>1, <2>3, <2>5 DEF IInv, FreshChain, NoAnalyses, Measured
  <2> QED
    BY <1>2, <2>6, <2>7, <2>8, <2>9 DEF IInv, Plans
<1> QED
  BY <1>4, <1>5

(* A task that gets its permit is still waited for.                        *)
LEMMA AcquirePermitKeeps ==
  ASSUME IInv, NEW f \in Families, AcquirePermit(f) PROVE IInv'
<1>1. /\ f \in DOMAIN tasks /\ tasks' = [tasks EXCEPT ![f] = "running"]
      /\ UNCHANGED <<db, lock, base, cand, memory, ana, merged, recorded, blocked, cmd, commands, faults, mine, plan>>
  BY DEF AcquirePermit, files
<1>2. /\ DOMAIN tasks' = DOMAIN tasks
      /\ \A g \in DOMAIN tasks : tasks'[g] = tasks[g] \/ tasks'[g] = "running"
  BY <1>1
<1>3. cmd # None /\ cmd.pc = "join" /\ tasks # <<>>
  BY <1>1 DEF IInv, Control, At
<1>4. TypeOK'
  BY <1>1, <1>2 DEF IInv, TypeOK, At
<1>5. Control'
  BY <1>1, <1>2, <1>3 DEF IInv, Control, At
<1>6. OwnIds'
  BY <1>1 DEF IInv, OwnIds, RunIdIsOwn, At
<1>7. FreshChain'
  BY <1>1, <1>2, <1>3 DEF IInv, FreshChain, NoAnalyses, Measured
<1>8. Plans'
  BY <1>1, <1>3, RunningIsUnplanned, NoPlan
<1> QED
  BY <1>4, <1>5, <1>6, <1>7, <1>8 DEF IInv, Plans

(* An analyzer that counts as done has left an analysis; what it writes is *)
(* about the run of the candidates.                                        *)
LEMMA run_oneKeeps ==
  ASSUME IInv, NEW f \in Families, run_one(f) PROVE IInv'
<1>1. /\ f \in DOMAIN tasks
      /\ UNCHANGED <<db, lock, base, cand, memory, merged, blocked, cmd, commands, mine, plan>>
  BY DEF run_one, Running
<1>2. cmd # None /\ cmd.pc = "join" /\ cand \in CandidatesFile
  BY <1>1 DEF IInv, TypeOK, Control, At
<1>3. ASSUME NEW a \in Analyses[f]
      PROVE  Analysis(a) \in AnalysisFile /\ Analysis(a).run = cand.run
  <2>1. a \in Findings /\ cand.run \in Ids
    BY <1>2 DEF CandidatesFile
  <2> QED
    BY <2>1 DEF Analysis, AnalysisFile, Findings
<1>4. \/ \E new \in AnalysisFile : new.run = cand.run /\ ana' = [ana EXCEPT ![f] = new]
      \/ UNCHANGED ana
  BY <1>3 DEF run_one
<1>5. ana \in [Families -> AnalysisFile \union {None}]
  BY DEF IInv, TypeOK
<1>6. /\ ana' \in [Families -> AnalysisFile \union {None}]
      /\ \A g \in Families : ana'[g] = ana[g] \/ (g = f /\ ana'[g] \in AnalysisFile /\ ana'[g].run = cand.run)
  BY <1>4, <1>5
<1>7. \E end \in {"done", "failed"} :
        tasks' = [tasks EXCEPT ![f] = end] /\ (end = "done" => ana'[f] # None)
  BY <1>3, <1>5 DEF run_one, Settle
<1>8. /\ DOMAIN tasks' = DOMAIN tasks
      /\ \A g \in DOMAIN tasks : tasks'[g] = tasks[g] \/ (g = f /\ tasks'[g] \in {"done", "failed"})
      /\ tasks'[f] = "done" => ana'[f] # None
  BY <1>1, <1>7
<1>9. recorded' \subseteq Families /\ faults' \in 0..MaxFaults
  BY DEF run_one, Settle, Fault, IInv, TypeOK
<1>10. TypeOK'
  BY <1>1, <1>6, <1>8, <1>9 DEF IInv, TypeOK, At
<1>11. Control'
  BY <1>1, <1>2, <1>8 DEF IInv, Control, At
<1>12. OwnIds'
  BY <1>1 DEF IInv, OwnIds, RunIdIsOwn, At
<1>13. FreshChain'
  <2> SUFFICES ASSUME cmd.fresh PROVE FreshChain'
    BY <1>1 DEF FreshChain
  <2>1. /\ DOMAIN tasks = cand.fams /\ cand # None /\ Measured /\ cand.run = base.run
        /\ \A g \in Families : ana[g] # None => g \in cand.fams /\ ana[g].run = cand.run
        /\ \A g \in DOMAIN tasks : tasks[g] = "done" => ana[g] # None
    BY <1>2 DEF IInv, Control, FreshChain
  <2>2. Measured'
    BY <1>1, <2>1 DEF Measured
  <2>3. \A g \in Families : ana'[g] # None => g \in cand.fams /\ ana'[g].run = cand.run
    BY <1>1, <1>6, <2>1
  <2>4. DOMAIN tasks \subseteq Families
    BY DEF IInv, TypeOK
  <2>5. \A g \in DOMAIN tasks' : tasks'[g] = "done" => ana'[g] # None
    BY <1>6, <1>8, <2>1, <2>4
  <2> QED
    BY <1>1, <1>2, <2>1, <2>2, <2>3, <2>5 DEF FreshChain
<1>14. Plans'
  BY <1>1, <1>2, RunningIsUnplanned, NoPlan
<1> QED
  BY <1>10, <1>11, <1>12, <1>13, <1>14 DEF IInv, Plans

(* Every task has ended; if none failed, every family has its analysis.    *)
LEMMA JoinAnalyzersKeeps ==
  ASSUME IInv, JoinAnalyzers PROVE IInv'
<1>1. /\ cmd # None /\ cmd.pc = "join" /\ tasks' = <<>> /\ (Proceed \/ cmd' = None)
      /\ UNCHANGED <<db, lock, base, cand, memory, ana, merged, recorded, blocked, commands, faults, mine, plan>>
  BY DEF JoinAnalyzers, At, files, Fail
<1>2. plan' = None /\ Plans'
  BY <1>1, RunningIsUnplanned, NoPlan
<1>3. RunIdIsOwn'
  BY <1>1 DEF IInv, OwnIds, RunIdIsOwn
<1>4. DOMAIN tasks' = {}
  BY <1>1
<1>5. CASE cmd' = None
  <2>1. TypeOK'
    BY <1>1, <1>2, <1>4, <1>5 DEF IInv, TypeOK, At
  <2> QED
    BY <1>1, <1>2, <1>3, <1>5, <2>1, Ends
<1>6. CASE cmd' # None
  <2>1. /\ cmd' \in Command /\ cmd'.last = cmd.last /\ cmd'.id = cmd.id /\ cmd'.fresh = cmd.fresh
        /\ cmd'.pc \in StepsOf(cmd.last) /\ cmd'.pc = "merge"
    BY <1>1, <1>6, Proceeds
  <2>2. \A f \in DOMAIN tasks : tasks[f] = "done"
    BY <1>6 DEF JoinAnalyzers, Fail
  <2>3. TypeOK'
    BY <1>1, <1>2, <1>4, <2>1 DEF IInv, TypeOK, At
  <2>4. Control'
    BY <1>1, <1>6, <2>1 DEF IInv, Control, At
  <2>5. OwnIds'
    BY <1>3, <2>1 DEF OwnIds, At
  <2>6. DOMAIN tasks = cand.fams /\ cand # None
    BY <1>1 DEF IInv, Control
  <2>7. FreshChain'
    BY <1>1, <2>1, <2>2, <2>6 DEF IInv, FreshChain, Measured
  <2> QED
    BY <1>2, <2>3, <2>4, <2>5, <2>7 DEF IInv, Plans
<1> QED
  BY <1>5, <1>6

-----------------------------------------------------------------------------
(* A merge reads some history.                                             *)
LEMMA HistoryIsKnown ==
  ASSUME IInv, cmd # None PROVE History \in SUBSET Signatures
  BY DEF IInv, TypeOK, History, Command

(* A merge ends its command, with whatever it leaves and vouches for.      *)
LEMMA MergeEnds ==
  ASSUME IInv, At("merge"), cmd' = None, faults' \in 0..MaxFaults,
         UNCHANGED <<db, lock, base, cand, memory, ana, recorded, blocked, tasks, commands, mine>>,
         merged'.run \in Ids \union {None}, plan' \in Vouched \union {None}, Plans'
  PROVE  IInv'
<1>1. tasks' = <<>>
  BY DEF IInv, Control, At
<1>2. TypeOK'
  BY DEF IInv, TypeOK, At
<1>3. RunIdIsOwn'
  BY DEF IInv, OwnIds, RunIdIsOwn
<1> QED
  BY <1>1, <1>2, <1>3, Ends

(* A merge that vouches for a sound output may: on a fresh chain the rest  *)
(* of the session agrees with it.                                          *)
LEMMA VouchedFor ==
  ASSUME IInv, At("merge"), cand # None, Vouch, cmd' = None,
         UNCHANGED <<base, cand, ana, mine>>,
         NEW out, merged' = [run |-> cand.run, out |-> out], SoundOutput(ana, History, out)
  PROVE  Plans' /\ plan' \in Vouched /\ merged'.run \in Ids
<1>1. cmd # None /\ cmd \in Command /\ cmd.fresh \in BOOLEAN /\ cand \in CandidatesFile
  BY DEF At, IInv, TypeOK, Command
<1>2. History \in SUBSET Signatures
  BY <1>1, HistoryIsKnown
<1>3. /\ plan' \in Vouched /\ plan' # None /\ plan'.knew = History /\ plan'.how # "refused"
      /\ plan'.how = "fresh" => cmd.fresh
  BY <1>1, <1>2 DEF Vouch, Vouched
<1>4. merged'.run = cand.run /\ merged'.out = out /\ cand.run \in Ids
  BY <1>1 DEF CandidatesFile
<1>5. merged' # NoTargets
  BY <1>4 DEF NoTargets, Ids
<1>6. Planned'
  BY DEF Planned
<1>7. PlanIsSound'
  BY <1>3, <1>4 DEF PlanIsSound, SoundOutput
<1>8. /\ cmd.fresh => /\ Measured /\ cand.run = base.run
                      /\ \A f \in cand.fams : ana[f] # None
                      /\ \A f \in Families : ana[f] # None => f \in cand.fams /\ ana[f].run = cand.run
  BY <1>1 DEF At, IInv, FreshChain
<1>9. cand.fams \subseteq Families
  BY <1>1 DEF CandidatesFile
<1>10. check_target_coverage(ana', merged'.out) /\ check_lens_disposition_coverage(ana', merged'.out)
  BY <1>4 DEF SoundOutput
<1>11. plan'.how = "fresh" => validate'
  BY <1>3, <1>5, <1>8, <1>10 DEF validate, Measured
<1>12. ValidateAgreesWithMerge'
  BY <1>10, <1>11 DEF ValidateAgreesWithMerge
<1>13. base.run # None => base.run \in mine
  BY DEF IInv, OwnIds, RunIdIsOwn
<1>14. PlanIsOfOneBaseline'
  BY <1>3, <1>4, <1>8, <1>9, <1>13 DEF PlanIsOfOneBaseline, Measured
<1> QED
  BY <1>3, <1>4, <1>6, <1>7, <1>12, <1>14 DEF Plans

(* Nothing to show: the coordinator writes the dedup rows itself.          *)
LEMMA MergeNothingKeeps ==
  ASSUME IInv, MergeNothing PROVE IInv'
<1>1. /\ At("merge") /\ cmd # None
      /\ UNCHANGED <<db, lock, base, cand, memory, ana, recorded, blocked, tasks, commands, faults, mine>>
      /\ faults' \in 0..MaxFaults
  BY DEF MergeNothing, At, IInv, TypeOK
<1>2. CASE cand = None /\ Fail /\ UNCHANGED <<merged, plan>>
  <2>1. cmd' = None /\ plan' = None /\ merged'.run \in Ids \union {None}
    BY <1>1, <1>2, RunningIsUnplanned DEF Fail, IInv, TypeOK
  <2> QED
    BY <1>1, <2>1, NoPlan, MergeEnds
<1>3. CASE /\ cand # None /\ Shown(ana, History) = {} /\ Vouch /\ Proceed
           /\ WriteTargets([targets |-> {}, rejected |-> dedup_rejections(ana, History),
                            lens |-> accepted(ana)])
  <2> DEFINE out == [targets |-> {}, rejected |-> Rows(ana, History, {}), lens |-> accepted(ana)]
  <2>1. ana \in Files
    BY DEF IInv, TypeOK, Files
  <2>2. SoundOutput(ana, History, out)
    BY <1>3, <2>1, NothingShownPasses, PassingIsSound
  <2>3. merged' = [run |-> cand.run, out |-> out]
    BY <1>3 DEF WriteTargets, Rows
  <2>4. cmd' = None
    BY <1>1, <1>3, Proceeds DEF At
  <2> HIDE DEF out
  <2>5. Plans' /\ plan' \in Vouched /\ merged'.run \in Ids
    BY <1>1, <1>3, <2>2, <2>3, <2>4, VouchedFor
  <2> QED
    BY <1>1, <2>4, <2>5, MergeEnds
<1> QED
  BY <1>2, <1>3 DEF MergeNothing

(* An answer is vouched for if it passes, and then it is sound; a refusal  *)
(* leaves no plan that anyone may rely on.                                 *)
LEMMA MergeWithKeeps ==
  ASSUME IInv, At("merge"), cand # None, faults' \in 0..MaxFaults,
         UNCHANGED <<db, lock, base, cand, memory, ana, recorded, blocked, tasks, commands, mine>>,
         NEW n, NEW out \in Compliant(ana, History, n), NEW slip \in {out} \union Slips(ana, out),
         NEW compliant, MergeWith(slip, compliant)
  PROVE  IInv'
<1> DEFINE full == Full(slip, ana, History)
           ok == validate_merge_output_with_dedup(full, ana, dedup_decisions(ana, History))
<1>1. cmd # None /\ cand \in CandidatesFile /\ cand.run \in Ids /\ ana \in Files
  BY DEF At, IInv, TypeOK, CandidatesFile, Files
<1>2. IF ok THEN WriteTargets(full) /\ Vouch /\ Proceed
      ELSE /\ WriteTargets(None) /\ Fail
           /\ plan' = IF compliant THEN [knew |-> History, how |-> "refused"] ELSE None
  BY DEF MergeWith, Full, Decisions
<1>3. CASE ok
  <2>1. PICK T, R : /\ full = [targets |-> T, rejected |-> Rows(ana, History, R), lens |-> accepted(ana)]
                    /\ Passes(ana, History, T, R, accepted(ana))
                    /\ \A t \in T : t.from = t.means
    BY <1>1, <1>3, NumberingIsNeverSilent
  <2>2. SoundOutput(ana, History, full)
    BY <2>1, PassingIsSound
  <2> HIDE DEF full
  <2>3. merged' = [run |-> cand.run, out |-> full] /\ Vouch /\ Proceed
    BY <1>2, <1>3 DEF WriteTargets
  <2>4. cmd' = None
    BY <1>1, <2>3, Proceeds DEF At
  <2>5. Plans' /\ plan' \in Vouched /\ merged'.run \in Ids
    BY <2>2, <2>3, <2>4, VouchedFor
  <2> QED
    BY <2>4, <2>5, MergeEnds
<1>4. CASE ~ok
  <2>1. cmd' = None /\ merged'.run \in Ids
    BY <1>1, <1>2, <1>4 DEF Fail, WriteTargets
  <2>2. History \in SUBSET Signatures
    BY <1>1, HistoryIsKnown
  <2> DEFINE refused == [knew |-> History, how |-> "refused"]
  <2>3. refused \in Vouched /\ refused.how = "refused"
    BY <2>2 DEF Vouched
  <2> HIDE DEF refused
  <2>4. plan' = refused \/ plan' = None
    BY <1>2, <1>4 DEF refused
  <2>5. Plans'
    BY <2>1, <2>3, <2>4
       DEF Plans, Planned, PlanIsSound, ValidateAgreesWithMerge, PlanIsOfOneBaseline
  <2> QED
    BY <2>1, <2>3, <2>4, <2>5, MergeEnds
<1> QED
  BY <1>3, <1>4

(* The merge agent answers, slips, or is killed after writing.             *)
LEMMA MergeAgentKeeps ==
  ASSUME IInv, NEW n \in BOOLEAN, MergeAgent(n) PROVE IInv'
<1>1. /\ At("merge") /\ cand # None /\ cmd # None
      /\ UNCHANGED <<db, lock, base, cand, memory, ana, recorded, blocked, tasks, commands, mine>>
  BY DEF MergeAgent, At
<1>2. PICK out \in Compliant(ana, History, n) :
        \/ MergeWith(out, ~n) /\ UNCHANGED faults
        \/ Fault /\ \E slip \in Slips(ana, out) : MergeWith(slip, FALSE)
        \/ Fault /\ WriteTargets(None) /\ Fail /\ plan' = None
  BY DEF MergeAgent
<1>3. CASE MergeWith(out, ~n) /\ UNCHANGED faults
  <2>1. faults' \in 0..MaxFaults
    BY <1>3 DEF IInv, TypeOK
  <2> QED
    BY <1>1, <1>3, <2>1, MergeWithKeeps
<1>4. CASE Fault /\ \E slip \in Slips(ana, out) : MergeWith(slip, FALSE)
  <2>1. faults' \in 0..MaxFaults
    BY <1>4 DEF IInv, TypeOK, Fault
  <2>2. PICK slip \in Slips(ana, out) : MergeWith(slip, FALSE)
    BY <1>4
  <2> QED
    BY <1>1, <2>1, <2>2, MergeWithKeeps
<1>5. CASE Fault /\ WriteTargets(None) /\ Fail /\ plan' = None
  <2>1. faults' \in 0..MaxFaults /\ cmd' = None /\ merged'.run \in Ids
    BY <1>1, <1>5 DEF IInv, TypeOK, Fault, Fail, WriteTargets, CandidatesFile
  <2> QED
    BY <1>1, <1>5, <2>1, NoPlan, MergeEnds
<1> QED
  BY <1>2, <1>3, <1>4, <1>5

(* The merge agent fails: the file of an earlier attempt stays, unvouched. *)
LEMMA MergeAgentFailsKeeps ==
  ASSUME IInv, MergeAgentFails PROVE IInv'
<1>1. /\ At("merge") /\ cmd # None /\ cmd' = None /\ faults' \in 0..MaxFaults
      /\ UNCHANGED <<db, lock, base, cand, memory, ana, merged, recorded, blocked, tasks, commands, mine, plan>>
      /\ merged.run \in Ids \union {None}
  BY DEF MergeAgentFails, At, Fail, Fault, files, IInv, TypeOK
<1>2. plan' = None
  BY <1>1, RunningIsUnplanned
<1> QED
  BY <1>1, <1>2, NoPlan, MergeEnds

-----------------------------------------------------------------------------
(* The clean commands run between commands and end the plan.               *)
LEMMA CleanKeeps ==
  ASSUME IInv, Clean PROVE IInv'
<1>1. /\ cmd = None /\ cmd' = None /\ plan' = None /\ commands' \in 0..MaxCommands
      /\ UNCHANGED <<db, lock, memory, recorded, blocked, tasks, faults, mine>>
  BY DEF Clean, IInv, TypeOK
<1>2. Empty \in BaselineFiles /\ Empty.run = None /\ NoTargets.run = None
  BY DEF Empty, BaselineFiles, NoTargets
<1>3. /\ base' \in BaselineFiles /\ (base'.run # None => base' = base)
      /\ cand' \in CandidatesFile \union {None}
      /\ ana' \in [Families -> AnalysisFile \union {None}]
      /\ merged'.run \in Ids \union {None}
  BY <1>2 DEF Clean, BaselineClean, TriageClean, AnalysisClean, IInv, TypeOK
<1>4. tasks' = <<>>
  BY <1>1 DEF IInv, Control, At
<1>5. TypeOK'
  BY <1>1, <1>3, <1>4 DEF IInv, TypeOK, At
<1>6. RunIdIsOwn'
  BY <1>1, <1>3 DEF IInv, OwnIds, RunIdIsOwn
<1> QED
  BY <1>1, <1>4, <1>5, <1>6, NoPlan, Ends

(* A killed command leaves its files, no tasks, and no lock.               *)
LEMMA KillKeeps ==
  ASSUME IInv, Kill PROVE IInv'
<1>1. /\ cmd # None /\ cmd' = None /\ tasks' = <<>> /\ faults' \in 0..MaxFaults
      /\ lock' \in {None, "other"}
      /\ UNCHANGED <<db, base, cand, memory, ana, merged, recorded, blocked, commands, mine, plan>>
  BY DEF Kill, Fail, Fault, files, IInv, TypeOK
<1>2. plan' = None
  BY <1>1, RunningIsUnplanned
<1>3. DOMAIN tasks' = {}
  BY <1>1
<1>4. TypeOK'
  BY <1>1, <1>2, <1>3 DEF IInv, TypeOK, At
<1>5. RunIdIsOwn'
  BY <1>1 DEF IInv, OwnIds, RunIdIsOwn
<1> QED
  BY <1>1, <1>2, <1>4, <1>5, NoPlan, Ends

(* What others do, to the lock, the database and the history, touches      *)
(* nothing of this session.                                                *)
LEMMA OthersKeep ==
  ASSUME IInv, lock # "session", lock' \in {None, "other"} \/ UNCHANGED lock,
         db' \in db..MaxRuns, blocked' \subseteq Signatures, faults' \in 0..MaxFaults,
         UNCHANGED <<base, cand, memory, ana, merged, recorded, cmd, tasks, commands, mine, plan>>
  PROVE  IInv'
<1>1. db \in 0..MaxRuns /\ 1..db \subseteq 1..db'
  BY DEF IInv, TypeOK
<1>2. TypeOK'
  BY <1>1 DEF IInv, TypeOK, At
<1>3. Control'
  BY <1>1 DEF IInv, Control, At
<1>4. OwnIds'
  BY DEF IInv, OwnIds, RunIdIsOwn, At
<1>5. FreshChain'
  BY DEF IInv, FreshChain, NoAnalyses, Measured, TriageReady
<1> QED
  BY <1>2, <1>3, <1>4, <1>5, SamePlan DEF IInv, Plans

(* The history may move while this session holds the lock.                 *)
LEMMA HistoryMovesKeeps ==
  ASSUME IInv, HistoryMoves PROVE IInv'
<1>1. /\ faults' \in 0..MaxFaults /\ blocked' \subseteq Signatures
      /\ UNCHANGED <<db, lock, base, cand, memory, ana, merged, recorded, cmd, tasks, commands, mine, plan>>
  BY DEF HistoryMoves, Fault, files, IInv, TypeOK
<1>2. TypeOK'
  BY <1>1 DEF IInv, TypeOK, At
<1>3. Control'
  BY <1>1 DEF IInv, Control, At
<1>4. OwnIds'
  BY <1>1 DEF IInv, OwnIds, RunIdIsOwn, At
<1>5. FreshChain'
  BY <1>1 DEF IInv, FreshChain, NoAnalyses, Measured, TriageReady
<1> QED
  BY <1>1, <1>2, <1>3, <1>4, <1>5, SamePlan DEF IInv, Plans

(* A session starts empty.                                                 *)
LEMMA InitHolds == Init => IInv
<1> SUFFICES ASSUME Init PROVE IInv
  OBVIOUS
<1>1. Empty \in BaselineFiles /\ Empty.run = None /\ NoTargets.run = None /\ DOMAIN <<>> = {}
  BY DEF Empty, BaselineFiles, NoTargets
<1>2. TypeOK
  BY <1>1 DEF Init, TypeOK, At
<1>3. Control
  BY DEF Init, Control, At
<1>4. OwnIds /\ FreshChain
  BY <1>1 DEF Init, OwnIds, RunIdIsOwn, FreshChain, At
<1>5. Planned /\ PlanIsSound /\ ValidateAgreesWithMerge /\ PlanIsOfOneBaseline
  BY DEF Init, Planned, PlanIsSound, ValidateAgreesWithMerge, PlanIsOfOneBaseline
<1> QED
  BY <1>2, <1>3, <1>4, <1>5 DEF IInv

(* Every step of every command, and of everybody else, keeps IInv.         *)
LEMMA StepKeeps == IInv /\ [Next]_vars => IInv'
<1> SUFFICES ASSUME IInv, [Next]_vars PROVE IInv'
  OBVIOUS
<1>1. CASE UNCHANGED vars
  <2>1. UNCHANGED <<db, lock, base, cand, memory, ana, merged, recorded, blocked, cmd, tasks,
                    commands, faults, mine, plan>>
    BY <1>1 DEF vars
  <2>2. TypeOK'
    BY <2>1 DEF IInv, TypeOK, At
  <2>3. Control'
    BY <2>1 DEF IInv, Control, At
  <2>4. OwnIds'
    BY <2>1 DEF IInv, OwnIds, RunIdIsOwn, At
  <2>5. FreshChain'
    BY <2>1 DEF IInv, FreshChain, NoAnalyses, Measured, TriageReady
  <2> QED
    BY <2>1, <2>2, <2>3, <2>4, <2>5, SamePlan DEF IInv, Plans
<1>2. CASE \E name \in DOMAIN First : Begin(name)
  BY <1>2, BeginKeeps
<1>3. CASE Work
  BY <1>3, ArchiveBinaryKeeps, BenchEndsKeeps, WriteIdsKeeps, ImportNoiseKeeps, TriageKeeps,
     OptimizerMemoryKeeps, SpawnAnalyzersKeeps, JoinAnalyzersKeeps, MergeNothingKeeps,
     MergeAgentKeeps, MergeAgentFailsKeeps
     DEF Work
<1>4. CASE WaitForLock
  BY <1>4, BenchStartKeeps, ShowsKeeps, ImportShowKeeps, ImportIdsKeeps DEF WaitForLock
<1>5. CASE \E f \in Families : AcquirePermit(f) \/ run_one(f)
  BY <1>5, AcquirePermitKeeps, run_oneKeeps
<1>6. CASE Clean
  BY <1>6, CleanKeeps
<1>7. CASE Kill
  BY <1>7, KillKeeps
<1>8. CASE OtherStarts
  <2>1. /\ lock # "session" /\ lock' \in {None, "other"} /\ db' \in db..MaxRuns
        /\ blocked' \subseteq Signatures /\ faults' \in 0..MaxFaults
        /\ UNCHANGED <<base, cand, memory, ana, merged, recorded, cmd, tasks, commands, mine, plan>>
    BY <1>8 DEF OtherStarts, files, IInv, TypeOK
  <2> QED
    BY <2>1, OthersKeep
<1>9. CASE OtherEnds
  <2>1. /\ lock # "session" /\ lock' \in {None, "other"} /\ db' \in db..MaxRuns
        /\ blocked' \subseteq Signatures /\ faults' \in 0..MaxFaults
        /\ UNCHANGED <<base, cand, memory, ana, merged, recorded, cmd, tasks, commands, mine, plan>>
    BY <1>9 DEF OtherEnds, files, IInv, TypeOK
  <2> QED
    BY <2>1, OthersKeep
<1>10. CASE HistoryMoves
  BY <1>10, HistoryMovesKeeps
<1> QED
  BY <1>1, <1>2, <1>3, <1>4, <1>5, <1>6, <1>7, <1>8, <1>9, <1>10 DEF Next

-----------------------------------------------------------------------------
(* The inductive invariant of Phases 0a to 1.7: how far a command has      *)
(* come, what it has in hand, and what its merge vouches for.              *)
THEOREM DiscoveryInvariant == Spec => []IInv
  BY InitHolds, StepKeeps, PTL DEF Spec

(* The files, the process and the lock hold what they may hold, and the    *)
(* bench lock is this session's only while its benchmark runs.             *)
THEOREM DiscoveryTypes == Spec => []TypeOK
<1>1. IInv => TypeOK
  BY DEF IInv
<1> QED
  BY <1>1, DiscoveryInvariant, PTL

(* Whoever else benchmarks on the machine, baseline/run-id names a run the *)
(* session executed or was told to import: extract_run_id reads the run's  *)
(* own output.                                                             *)
THEOREM RunIdsAreOwn == Spec => []RunIdIsOwn
<1>1. IInv => RunIdIsOwn
  BY DEF IInv, OwnIds
<1> QED
  BY <1>1, DiscoveryInvariant, PTL

(* A merge that validate_merge_output_with_dedup lets pass accounts for    *)
(* every finding once, plans nothing the history blocks, and credits each  *)
(* target to the findings the agent meant, for any analyses and history.   *)
THEOREM PlansAreSound == Spec => []PlanIsSound
<1>1. IInv => PlanIsSound
  BY DEF IInv
<1> QED
  BY <1>1, DiscoveryInvariant, PTL

(* What the merge accepts, the coverage checks of `session validate`       *)
(* accept, and after a chain on an empty session all it asks.              *)
THEOREM ValidationAgrees == Spec => []ValidateAgreesWithMerge
<1>1. IInv => ValidateAgreesWithMerge
  BY DEF IInv
<1> QED
  BY <1>1, DiscoveryInvariant, PTL

(* The plan of a chain on an empty session is about one baseline run of    *)
(* its own, and every family of its triage has been analysed.              *)
THEOREM PlansAreOfOneBaseline == Spec => []PlanIsOfOneBaseline
<1>1. IInv => PlanIsOfOneBaseline
  BY DEF IInv
<1> QED
  BY <1>1, DiscoveryInvariant, PTL
=============================================================================
