-------------------------- MODULE RejectionsProofs --------------------------
(***************************************************************************)
(* Theorems about Rejections, for any number of processes, records and     *)
(* kills.  First what picking from and sorting a sequence does, then what  *)
(* reading, writing and filtering the ledger does, then the steps.         *)
(***************************************************************************)
EXTENDS RejectionsInvariants, FiniteSetTheorems, TLAPS

Distinct(s) == \A i, j \in DOMAIN s : s[i] = s[j] => i = j

(* Nested sets of different size number the elements of a finite set.      *)
LEMMA RanksCover ==
  ASSUME NEW K, IsFiniteSet(K), NEW below \in [K -> SUBSET K],
         \A i \in K : i \in below[i],
         \A i, j \in K : i # j => \/ below[i] \subseteq below[j] /\ below[i] # below[j]
                                  \/ below[j] \subseteq below[i] /\ below[i] # below[j]
  PROVE  /\ Cardinality(K) \in Nat
         /\ \A i \in K : Cardinality(below[i]) \in 1..Cardinality(K)
         /\ \A i, j \in K : Cardinality(below[i]) = Cardinality(below[j]) => i = j
         /\ \A k \in 1..Cardinality(K) : \E i \in K : Cardinality(below[i]) = k
<1>1. Cardinality(K) \in Nat
  BY FS_CardinalityType
<1>2. ASSUME NEW i \in K
      PROVE  /\ IsFiniteSet(below[i]) /\ Cardinality(below[i]) \in Nat
             /\ Cardinality(below[i]) <= Cardinality(K) /\ Cardinality(below[i]) # 0
  <2>1. below[i] \in SUBSET K
    OBVIOUS
  <2>2. IsFiniteSet(below[i]) /\ Cardinality(below[i]) <= Cardinality(K)
    BY <2>1, FS_Subset
  <2> QED
    BY <2>2, FS_CardinalityType, FS_EmptySet
<1>3. \A i \in K : Cardinality(below[i]) \in 1..Cardinality(K)
  BY <1>1, <1>2
<1>4. ASSUME NEW i \in K, NEW j \in K, i # j, below[i] \subseteq below[j], below[i] # below[j]
      PROVE  Cardinality(below[i]) # Cardinality(below[j])
  BY <1>2, <1>4, FS_Subset
<1>5. ASSUME NEW i \in K, NEW j \in K, Cardinality(below[i]) = Cardinality(below[j])
      PROVE  i = j
  BY <1>4, <1>5
<1> DEFINE rank == [i \in K |-> Cardinality(below[i])]
<1>6. rank \in Injection(K, 1..Cardinality(K))
  BY <1>3, <1>5 DEF Injection, IsInjective
<1>7. IsFiniteSet(1..Cardinality(K)) /\ Cardinality(1..Cardinality(K)) = Cardinality(K)
  BY <1>1, FS_Interval
<1> HIDE DEF rank
<1>8. rank \in Surjection(K, 1..Cardinality(K))
  BY <1>6, <1>7, FS_Injection
<1>9. ASSUME NEW k \in 1..Cardinality(K) PROVE \E i \in K : Cardinality(below[i]) = k
  BY <1>8 DEF Surjection, rank
<1> QED
  BY <1>1, <1>3, <1>5, <1>9

(* Pick has what stands at the places kept, each once.                     *)
LEMMA PickIs ==
  ASSUME NEW S, NEW s \in Seq(S), NEW keep \in SUBSET DOMAIN s
  PROVE  /\ Pick(s, keep) \in Seq(S)
         /\ Rng(Pick(s, keep)) = {s[i] : i \in keep}
         /\ (\A i, j \in keep : s[i] = s[j] => i = j) => Distinct(Pick(s, keep))
         /\ Distinct(s) => Distinct(Pick(s, keep))
<1>1. Len(s) \in Nat /\ DOMAIN s = 1..Len(s) /\ \A i \in DOMAIN s : s[i] \in S
  OBVIOUS
<1>2. IsFiniteSet(keep) /\ keep \subseteq Nat
  <2>1. IsFiniteSet(DOMAIN s)
    BY <1>1, FS_Interval
  <2> QED
    BY <1>1, <2>1, FS_Subset
<1> DEFINE n == Cardinality(keep)
<1> DEFINE below == [i \in keep |-> {j \in keep : j <= i}]
<1> DEFINE Nth(k) == CHOOSE i \in keep : Cardinality({j \in keep : j <= i}) = k
<1>3. below \in [keep -> SUBSET keep] /\ \A i \in keep : i \in below[i]
  BY <1>2
<1>4. ASSUME NEW i \in keep, NEW j \in keep, i # j
      PROVE  \/ below[i] \subseteq below[j] /\ below[i] # below[j]
             \/ below[j] \subseteq below[i] /\ below[i] # below[j]
  <2>1. i \in Nat /\ j \in Nat
    BY <1>2
  <2>2. CASE i < j
    <3>1. below[i] \subseteq below[j]
      BY <1>2, <2>1, <2>2
    <3>2. j \in below[j] /\ j \notin below[i]
      BY <2>1, <2>2
    <3> QED
      BY <3>1, <3>2
  <2>3. CASE j < i
    <3>1. below[j] \subseteq below[i]
      BY <1>2, <2>1, <2>3
    <3>2. i \in below[i] /\ i \notin below[j]
      BY <2>1, <2>3
    <3> QED
      BY <3>1, <3>2
  <2> QED
    BY <1>4, <2>1, <2>2, <2>3
<1> HIDE DEF n
<1>5. /\ n \in Nat
      /\ \A i \in keep : Cardinality(below[i]) \in 1..n
      /\ \A i, j \in keep : Cardinality(below[i]) = Cardinality(below[j]) => i = j
      /\ \A k \in 1..n : \E i \in keep : Cardinality(below[i]) = k
  <2> HIDE DEF below
  <2> QED
    BY <1>2, <1>3, <1>4, RanksCover DEF n
<1>6. ASSUME NEW k \in 1..n PROVE Nth(k) \in keep /\ Cardinality(below[Nth(k)]) = k
  BY <1>5
<1>7. ASSUME NEW i \in keep PROVE \E k \in 1..n : Nth(k) = i
  <2> DEFINE k == Cardinality(below[i])
  <2>1. k \in 1..n
    BY <1>5
  <2>2. Nth(k) \in keep /\ Cardinality(below[Nth(k)]) = k
    BY <1>6, <2>1
  <2>3. Nth(k) = i
    BY <1>5, <2>2
  <2> QED
    BY <2>1, <2>3
<1>8. Pick(s, keep) = [k \in 1..n |-> s[Nth(k)]]
  BY DEF Pick, n
<1> HIDE DEF Nth, below
<1>9. ASSUME NEW k \in 1..n PROVE s[Nth(k)] \in S
  BY <1>1, <1>6
<1>10. Pick(s, keep) \in Seq(S) /\ DOMAIN Pick(s, keep) = 1..n
  BY <1>5, <1>8, <1>9
<1>11. Rng(Pick(s, keep)) = {s[i] : i \in keep}
  <2>1. Rng(Pick(s, keep)) = {s[Nth(k)] : k \in 1..n}
    BY <1>8 DEF Rng
  <2> QED
    BY <2>1, <1>6, <1>7
<1>12. ASSUME \A i, j \in keep : s[i] = s[j] => i = j PROVE Distinct(Pick(s, keep))
  <2>1. ASSUME NEW k \in 1..n, NEW l \in 1..n, s[Nth(k)] = s[Nth(l)] PROVE k = l
    <3>1. Nth(k) = Nth(l)
      BY <1>6, <1>12, <2>1
    <3> QED
      BY <1>6, <3>1
  <2> QED
    BY <1>8, <1>10, <2>1 DEF Distinct
<1>13. Distinct(s) => \A i, j \in keep : s[i] = s[j] => i = j
  BY DEF Distinct
<1> QED
  BY <1>10, <1>11, <1>12, <1>13

(* Before is a strict order of the places that leaves none side by side.   *)
Recs == Seq(Rec)
LEMMA BeforeOrders ==
  ASSUME NEW recs \in Recs, NEW i \in DOMAIN recs, NEW j \in DOMAIN recs, NEW k \in DOMAIN recs
  PROVE  /\ ~Before(recs, i, i)
         /\ Before(recs, i, j) => ~Before(recs, j, i)
         /\ Before(recs, i, j) /\ Before(recs, j, k) => Before(recs, i, k)
         /\ i # j => Before(recs, i, j) \/ Before(recs, j, i)
<1>1. /\ recs[i].ts \in Nat /\ recs[j].ts \in Nat /\ recs[k].ts \in Nat
      /\ i \in Nat /\ j \in Nat /\ k \in Nat
  <2>1. recs[i] \in Rec /\ recs[j] \in Rec /\ recs[k] \in Rec
    BY DEF Recs
  <2>2. \A r \in Rec : r.ts \in 0..MaxTs
    BY DEF Rec
  <2>3. i \in Nat /\ j \in Nat /\ k \in Nat
    BY DEF Recs
  <2> QED
    BY RejectionBounds, <2>1, <2>2, <2>3
<1> QED
  BY <1>1 DEF Before

(* Sorting keeps every record, each as often as it was.                    *)
LEMMA NewestFirstIs ==
  ASSUME NEW recs \in Recs
  PROVE  /\ NewestFirst(recs) \in Recs
         /\ Rng(NewestFirst(recs)) = Rng(recs)
         /\ Distinct(recs) => Distinct(NewestFirst(recs))
<1> DEFINE n == Len(recs)
<1> DEFINE K == DOMAIN recs
<1>1. n \in Nat /\ K = 1..n /\ \A i \in K : recs[i] \in Rec
  BY DEF Recs
<1>2. IsFiniteSet(K) /\ Cardinality(K) = n
  BY <1>1, FS_Interval
<1> DEFINE Above(i) == {j \in K : Before(recs, j, i)}
<1> DEFINE below == [i \in K |-> Above(i) \union {i}]
<1> DEFINE Nth(k) == CHOOSE i \in DOMAIN recs :
                       Cardinality({j \in DOMAIN recs : Before(recs, j, i)}) = k - 1
<1>3. below \in [K -> SUBSET K] /\ \A i \in K : i \in below[i]
  OBVIOUS
<1>4. ASSUME NEW i \in K, NEW j \in K, Before(recs, i, j)
      PROVE  below[i] \subseteq below[j] /\ below[i] # below[j]
  <2>1. below[i] \subseteq below[j]
    BY <1>4, BeforeOrders
  <2>2. j \in below[j] /\ j \notin below[i]
    BY <1>4, BeforeOrders
  <2> QED
    BY <2>1, <2>2
<1>5. ASSUME NEW i \in K, NEW j \in K, i # j
      PROVE  \/ below[i] \subseteq below[j] /\ below[i] # below[j]
             \/ below[j] \subseteq below[i] /\ below[i] # below[j]
  BY <1>4, <1>5, BeforeOrders
<1>6. ASSUME NEW i \in K
      PROVE  Cardinality(Above(i)) \in Nat /\ Cardinality(below[i]) = Cardinality(Above(i)) + 1
  <2>1. IsFiniteSet(Above(i)) /\ Cardinality(Above(i)) \in Nat
    BY <1>2, FS_Subset, FS_CardinalityType
  <2>2. i \notin Above(i)
    BY BeforeOrders
  <2>3. below[i] = Above(i) \union {i}
    OBVIOUS
  <2> HIDE DEF Above, below
  <2> QED
    BY <2>1, <2>2, <2>3, FS_AddElement
<1>7. /\ \A i \in K : Cardinality(below[i]) \in 1..n
      /\ \A i, j \in K : Cardinality(below[i]) = Cardinality(below[j]) => i = j
      /\ \A k \in 1..n : \E i \in K : Cardinality(below[i]) = k
  <2> HIDE DEF below, K, n
  <2> QED
    BY <1>2, <1>3, <1>5, RanksCover
<1>8. ASSUME NEW k \in 1..n PROVE Nth(k) \in K /\ Cardinality(below[Nth(k)]) = k
  <2>1. PICK i \in K : Cardinality(below[i]) = k
    BY <1>7
  <2>2. Cardinality(Above(i)) = k - 1
    BY <1>1, <1>6, <2>1
  <2>3. Nth(k) \in K /\ Cardinality(Above(Nth(k))) = k - 1
    BY <2>2
  <2> HIDE DEF Nth, below, Above
  <2> QED
    BY <1>1, <1>6, <2>3
<1>9. ASSUME NEW i \in K PROVE \E k \in 1..n : Nth(k) = i
  <2> DEFINE k == Cardinality(below[i])
  <2> HIDE DEF Nth, below
  <2>1. k \in 1..n
    BY <1>7
  <2>2. Nth(k) \in K /\ Cardinality(below[Nth(k)]) = k
    BY <1>8, <2>1
  <2>3. Nth(k) = i
    BY <1>7, <2>2
  <2> QED
    BY <2>1, <2>3
<1>10. NewestFirst(recs) = [k \in 1..n |-> recs[Nth(k)]]
  BY <1>1 DEF NewestFirst
<1> HIDE DEF Nth, below, Above
<1>11. ASSUME NEW k \in 1..n PROVE recs[Nth(k)] \in Rec
  BY <1>1, <1>8
<1>12. NewestFirst(recs) \in Recs /\ DOMAIN NewestFirst(recs) = 1..n
  BY <1>1, <1>10, <1>11 DEF Recs
<1>13. Rng(NewestFirst(recs)) = Rng(recs)
  <2>1. Rng(NewestFirst(recs)) = {recs[Nth(k)] : k \in 1..n}
    BY <1>10 DEF Rng
  <2> QED
    BY <2>1, <1>8, <1>9 DEF Rng
<1>14. ASSUME Distinct(recs), NEW k \in 1..n, NEW l \in 1..n, recs[Nth(k)] = recs[Nth(l)]
       PROVE  k = l
  <2>1. Nth(k) = Nth(l)
    BY <1>8, <1>14 DEF Distinct
  <2> QED
    BY <1>8, <2>1
<1> QED
  BY <1>10, <1>12, <1>13, <1>14 DEF Distinct

(* The other records of r's family that are as new.                        *)
AsNewAs(all, r) == {s \in all : s.family = r.family /\ s # r /\ s.ts >= r.ts}

LEMMA RngIsFinite ==
  ASSUME NEW recs \in Recs
  PROVE  IsFiniteSet(Rng(recs))
<1>1. IsFiniteSet(DOMAIN recs)
  <2>1. DOMAIN recs = 1..Len(recs) /\ Len(recs) \in Nat
    BY DEF Recs
  <2> QED
    BY <2>1, FS_Interval
<1>2. recs \in Surjection(DOMAIN recs, Rng(recs))
  <2>1. recs \in [DOMAIN recs -> Rng(recs)]
    BY DEF Rng, Recs
  <2> QED
    BY <2>1 DEF Surjection, Rng
<1> QED
  BY <1>1, <1>2, FS_Surjection

(* What comes before a record in its family is as new, and is all that is  *)
(* as new when no other record has its time.                               *)
LEMMA NewerAreAsNew ==
  ASSUME NEW recs \in Recs, Distinct(recs), NEW i \in DOMAIN recs
  PROVE  LET A == AsNewAs(Rng(recs), recs[i])
         IN  /\ Cardinality(A) \in Nat /\ Cardinality(Newer(recs, i)) \in Nat
             /\ Cardinality(Newer(recs, i)) <= Cardinality(A)
             /\ (\A s \in Rng(recs) \ {recs[i]} : s.ts # recs[i].ts)
                  => Cardinality(Newer(recs, i)) = Cardinality(A)
<1> DEFINE A == AsNewAs(Rng(recs), recs[i])
<1> DEFINE N == Newer(recs, i)
<1> DEFINE g == [j \in N |-> recs[j]]
<1>1. /\ DOMAIN recs = 1..Len(recs) /\ Len(recs) \in Nat
      /\ \A j \in DOMAIN recs : recs[j] \in Rec /\ recs[j].ts \in Nat
  <2>1. \A r \in Rec : r.ts \in Nat
    BY RejectionBounds DEF Rec
  <2> QED
    BY <2>1 DEF Recs
<1>2. IsFiniteSet(DOMAIN recs)
  BY <1>1, FS_Interval
<1>3. N \subseteq DOMAIN recs
  BY DEF Newer
<1>4. IsFiniteSet(N) /\ Cardinality(N) \in Nat
  <2> HIDE DEF N
  <2> QED
    BY <1>2, <1>3, FS_Subset, FS_CardinalityType
<1>5. IsFiniteSet(Rng(recs))
  BY RngIsFinite
<1>6. IsFiniteSet(A) /\ Cardinality(A) \in Nat
  <2>1. A \in SUBSET Rng(recs)
    BY DEF AsNewAs
  <2> HIDE DEF A
  <2> QED
    BY <1>5, <2>1, FS_Subset, FS_CardinalityType
<1>7. ASSUME NEW j \in N PROVE recs[j] \in A
  <2>1. j \in DOMAIN recs /\ recs[j].family = recs[i].family /\ Before(recs, j, i)
    BY DEF Newer
  <2>2. recs[j].ts >= recs[i].ts
    BY <1>1, <2>1 DEF Before
  <2>3. recs[j] # recs[i]
    BY <2>1, BeforeOrders DEF Distinct
  <2> QED
    BY <2>1, <2>2, <2>3 DEF AsNewAs, Rng
<1>8. g \in Injection(N, A)
  <2>1. g \in [N -> A]
    BY <1>7
  <2>2. \A j, k \in N : g[j] = g[k] => j = k
    BY <1>3 DEF Distinct
  <2> QED
    BY <2>1, <2>2 DEF Injection, IsInjective
<1>9. Cardinality(N) <= Cardinality(A)
  <2> HIDE DEF N, A, g
  <2> QED
    BY <1>6, <1>8, FS_Injection
<1>10. ASSUME \A s \in Rng(recs) \ {recs[i]} : s.ts # recs[i].ts
       PROVE  Cardinality(N) = Cardinality(A)
  <2>1. ASSUME NEW s \in A PROVE \E j \in N : recs[j] = s
    <3>1. PICK j \in DOMAIN recs : recs[j] = s
      BY DEF AsNewAs, Rng
    <3>2. s.ts >= recs[i].ts /\ s.ts # recs[i].ts /\ s.family = recs[i].family
      BY <1>10 DEF AsNewAs
    <3>3. Before(recs, j, i)
      BY <1>1, <3>1, <3>2 DEF Before
    <3> QED
      BY <3>1, <3>2, <3>3 DEF Newer
  <2>2. g \in Surjection(N, A)
    <3>1. g \in [N -> A]
      BY <1>7
    <3>2. \A s \in A : \E j \in N : g[j] = s
      BY <2>1
    <3> QED
      BY <3>1, <3>2 DEF Surjection
  <2> HIDE DEF N, A, g
  <2> QED
    BY <1>4, <1>8, <2>2, FS_Surjection
<1> QED
  BY <1>4, <1>6, <1>9, <1>10

(* Who is too old for an edit; whom the code takes by the sha it names.     *)
TooOld(edit, r) == edit.before # None /\ r.ts < edit.before
TakenBySha(edit, r) == edit.before_sha # None /\ r.sha \in {None, edit.before_sha}
Survivors(recs, edit) == {r \in Rng(recs) : ~TooOld(edit, r) /\ ~TakenBySha(edit, r)}

(* The first two filters leave the survivors.                              *)
LEMMA RetainIs ==
  ASSUME NEW recs \in Recs, Distinct(recs), NEW edit \in TrimEdits
  PROVE  LET kept == RetainSha(RetainDate(recs, edit.before), edit.before_sha)
         IN  kept \in Recs /\ Distinct(kept) /\ Rng(kept) = Survivors(recs, edit)
<1> DEFINE dated == RetainDate(recs, edit.before)
<1> DEFINE kept == RetainSha(dated, edit.before_sha)
<1>1. edit.before = None \/ edit.before \in Nat
  BY DEF TrimEdits
<1>2. \A r \in Rng(recs) : r.ts \in Nat
  <2>1. \A r \in Rec : r.ts \in Nat
    BY RejectionBounds DEF Rec
  <2>2. Rng(recs) \subseteq Rec
    BY DEF Rng, Recs
  <2> QED
    BY <2>1, <2>2
<1>3. dated \in Recs /\ Distinct(dated) /\ Rng(dated) = {r \in Rng(recs) : ~TooOld(edit, r)}
  <2>1. CASE edit.before = None
    BY <2>1 DEF RetainDate, TooOld
  <2>2. CASE edit.before # None
    <3> DEFINE keep == {i \in DOMAIN recs : recs[i].ts >= edit.before}
    <3>1. dated = Pick(recs, keep)
      BY <2>2 DEF RetainDate
    <3>2. dated \in Recs /\ Distinct(dated) /\ Rng(dated) = {recs[i] : i \in keep}
      <4> HIDE DEF dated
      <4> QED
        BY <3>1, PickIs DEF Recs
    <3>3. \A r \in Rng(recs) : r.ts >= edit.before <=> ~TooOld(edit, r)
      BY <1>1, <1>2, <2>2 DEF TooOld
    <3> QED
      BY <3>2, <3>3 DEF Rng
  <2> QED
    BY <2>1, <2>2
<1> HIDE DEF dated
<1>4. kept \in Recs /\ Distinct(kept) /\ Rng(kept) = {r \in Rng(dated) : ~TakenBySha(edit, r)}
  <2>1. CASE edit.before_sha = None
    BY <1>3, <2>1 DEF RetainSha, TakenBySha
  <2>2. CASE edit.before_sha # None
    <3> DEFINE keep == {i \in DOMAIN dated : dated[i].sha # None /\ dated[i].sha # edit.before_sha}
    <3>1. kept = Pick(dated, keep)
      BY <2>2 DEF RetainSha
    <3>2. kept \in Recs /\ Distinct(kept) /\ Rng(kept) = {dated[i] : i \in keep}
      <4> HIDE DEF kept
      <4> QED
        BY <1>3, <3>1, PickIs DEF Recs
    <3>3. \A r : (r.sha # None /\ r.sha # edit.before_sha) <=> ~TakenBySha(edit, r)
      BY <2>2 DEF TakenBySha
    <3> QED
      BY <3>2, <3>3 DEF Rng
  <2> QED
    BY <2>1, <2>2
<1> QED
  BY <1>3, <1>4 DEF dated, Survivors

(* Keeping the last n of each family.                                      *)
LEMMA KeepLastIs ==
  ASSUME NEW recs \in Recs, Distinct(recs), NEW n
  PROVE  LET kept == keep_last_per_family(recs, n)
         IN  /\ kept \in Recs /\ Distinct(kept)
             /\ Rng(kept) = {recs[i] : i \in {j \in DOMAIN recs : Cardinality(Newer(recs, j)) < n}}
<1> DEFINE keep == {j \in DOMAIN recs : Cardinality(Newer(recs, j)) < n}
<1>1. /\ Pick(recs, keep) \in Recs /\ Distinct(Pick(recs, keep))
      /\ Rng(Pick(recs, keep)) = {recs[i] : i \in keep}
  <2>1. keep \in SUBSET DOMAIN recs
    OBVIOUS
  <2> HIDE DEF keep
  <2> QED
    BY <2>1, PickIs DEF Recs
<1> QED
  BY <1>1, NewestFirstIs DEF keep_last_per_family

(* What a filter may do with the records it is given, those that help and  *)
(* code disagree about aside: drop only what the edit asks for, and all of *)
(* it that has no rival of its time.                                       *)
Rest(recs, edit) == Rng(recs) \ Shaless(Rng(recs), edit)
Obeys(recs, kept, edit) ==
  LET asked == AskedToDrop(Rest(recs, edit), edit) IN
  /\ Rng(kept) \subseteq Rng(recs)
  /\ Rest(recs, edit) \ asked \subseteq Rng(kept)
  /\ {r \in asked : \A s \in Rng(recs) \ {r} : s.ts # r.ts} \intersect Rng(kept) = {}

(* A trim asks to drop who does not survive the first filters or has       *)
(* enough survivors of its family that are as new.                         *)
LEMMA TrimAsks ==
  ASSUME NEW recs \in Recs, NEW edit \in TrimEdits, NEW r
  PROVE  /\ Survivors(recs, edit) \subseteq Rest(recs, edit)
         /\ r \in AskedToDrop(Rest(recs, edit), edit) <=>
              /\ r \in Rest(recs, edit)
              /\ \/ r \notin Survivors(recs, edit)
                 \/ /\ edit.keep_last # None
                    /\ Cardinality(AsNewAs(Survivors(recs, edit), r)) >= edit.keep_last
<1>1. edit.op = "trim"
  BY DEF TrimEdits
<1> DEFINE rest == Rest(recs, edit)
<1> DEFINE atSha(x) == edit.before_sha # None /\ x.sha = edit.before_sha
<1> DEFINE asNew(x) == {s \in rest : s.family = x.family /\ s # x /\ s.ts >= x.ts
                                     /\ ~TooOld(edit, s) /\ ~atSha(s)}
<1>2. AskedToDrop(rest, edit) =
        {x \in rest : \/ TooOld(edit, x) \/ atSha(x)
                      \/ edit.keep_last # None /\ Cardinality(asNew(x)) >= edit.keep_last}
  BY <1>1 DEF AskedToDrop, TooOld
<1>3. Survivors(recs, edit) = {s \in rest : ~TooOld(edit, s) /\ ~atSha(s)}
  BY <1>1 DEF Survivors, Rest, Shaless, TakenBySha
<1>4. asNew(r) = AsNewAs(Survivors(recs, edit), r)
  BY <1>3 DEF AsNewAs
<1> HIDE DEF asNew, rest, atSha
<1> QED
  BY <1>2, <1>3, <1>4 DEF rest

(* apply_filters does what trim asks.                                      *)
LEMMA TrimObeys ==
  ASSUME NEW recs \in Recs, Distinct(recs), NEW edit \in TrimEdits
  PROVE  LET kept == apply_filters(recs, edit)
         IN  kept \in Recs /\ Distinct(kept) /\ Obeys(recs, kept, edit)
<1> DEFINE left == RetainSha(RetainDate(recs, edit.before), edit.before_sha)
<1> DEFINE kept == apply_filters(recs, edit)
<1> DEFINE n == edit.keep_last
<1>1. left \in Recs /\ Distinct(left) /\ Rng(left) = Survivors(recs, edit)
  BY RetainIs
<1>2. /\ Survivors(recs, edit) \subseteq Rng(recs) /\ Survivors(recs, edit) \subseteq Rest(recs, edit)
      /\ Rest(recs, edit) \subseteq Rng(recs)
  BY TrimAsks DEF Survivors, Rest
<1>3. kept = IF n = None THEN left ELSE keep_last_per_family(left, n)
  BY DEF apply_filters
<1> HIDE DEF left, kept, n
<1>4. CASE n = None
  <2>1. kept = left
    BY <1>3, <1>4
  <2>2. \A r : r \in AskedToDrop(Rest(recs, edit), edit)
                 <=> r \in Rest(recs, edit) /\ r \notin Survivors(recs, edit)
    BY <1>4, TrimAsks DEF n
  <2> QED
    BY <1>1, <1>2, <2>1, <2>2 DEF Obeys, kept
<1>5. CASE n # None
  <2> DEFINE keep == {j \in DOMAIN left : Cardinality(Newer(left, j)) < n}
  <2>1. n \in Nat
    BY <1>5, RejectionBounds DEF TrimEdits, n
  <2>2. kept \in Recs /\ Distinct(kept) /\ Rng(kept) = {left[i] : i \in keep}
    BY <1>1, <1>3, <1>5, KeepLastIs
  <2>3. Rng(kept) \subseteq Rng(left)
    BY <2>2 DEF Rng
  <2>4. ASSUME NEW r \in Rest(recs, edit) \ AskedToDrop(Rest(recs, edit), edit) PROVE r \in Rng(kept)
    <3>1. r \in Survivors(recs, edit)
      BY TrimAsks
    <3>2. PICK i \in DOMAIN left : left[i] = r
      BY <1>1, <3>1 DEF Rng
    <3>3. ~(Cardinality(AsNewAs(Rng(left), left[i])) >= n)
      BY <1>1, <1>2, <1>5, <3>1, <3>2, TrimAsks DEF n
    <3>4. /\ Cardinality(AsNewAs(Rng(left), left[i])) \in Nat /\ Cardinality(Newer(left, i)) \in Nat
          /\ Cardinality(Newer(left, i)) <= Cardinality(AsNewAs(Rng(left), left[i]))
      BY <1>1, NewerAreAsNew
    <3>5. Cardinality(Newer(left, i)) < n
      BY <2>1, <3>3, <3>4
    <3> QED
      BY <2>2, <3>2, <3>5
  <2>5. ASSUME NEW r \in AskedToDrop(Rest(recs, edit), edit), \A s \in Rng(recs) \ {r} : s.ts # r.ts,
               r \in Rng(kept)
        PROVE  FALSE
    <3>1. PICK i \in keep : left[i] = r
      BY <2>2, <2>5
    <3>2. r \in Survivors(recs, edit)
      BY <1>1, <2>3, <2>5
    <3>3. Cardinality(AsNewAs(Rng(left), left[i])) >= n
      BY <1>1, <2>5, <3>1, <3>2, TrimAsks DEF n
    <3>4. \A s \in Rng(left) \ {left[i]} : s.ts # left[i].ts
      BY <1>1, <1>2, <2>5, <3>1
    <3>5. /\ Cardinality(AsNewAs(Rng(left), left[i])) \in Nat
          /\ Cardinality(Newer(left, i)) = Cardinality(AsNewAs(Rng(left), left[i]))
      BY <1>1, <3>4, NewerAreAsNew
    <3>6. Cardinality(Newer(left, i)) < n
      OBVIOUS
    <3> QED
      BY <2>1, <3>3, <3>5, <3>6
  <2> HIDE DEF keep
  <2> QED
    BY <1>1, <1>2, <2>2, <2>3, <2>4, <2>5 DEF Obeys, kept
<1> QED
  BY <1>4, <1>5 DEF kept

(* remove_filter does what remove asks.                                    *)
LEMMA RemoveObeys ==
  ASSUME NEW recs \in Recs, Distinct(recs), NEW edit \in RemoveEdits
  PROVE  LET kept == remove_filter(recs, edit)
         IN  kept \in Recs /\ Distinct(kept) /\ Obeys(recs, kept, edit)
<1> DEFINE kept == remove_filter(recs, edit)
<1> DEFINE keep == {i \in DOMAIN recs : IF edit.family # None THEN recs[i].family # edit.family
                                        ELSE recs[i].fingerprint # edit.fingerprint}
<1>1. edit.op # "trim" /\ (edit.fingerprint = None \/ edit.family = None)
  BY DEF RemoveEdits
<1>2. Rng(recs) \subseteq Rec
  BY DEF Rng, Recs
<1>3. \A r \in Rng(recs) : r.family # None /\ r.fingerprint # None
  BY <1>2, NoneAssumption DEF Rec
<1>4. /\ Rest(recs, edit) = Rng(recs)
      /\ AskedToDrop(Rng(recs), edit) =
        {r \in Rng(recs) : r.family = edit.family \/ r.fingerprint = edit.fingerprint}
  BY <1>1 DEF AskedToDrop, Rest, Shaless
<1>5. kept \in Recs /\ Distinct(kept) /\ Rng(kept) = {recs[i] : i \in keep}
  <2>1. kept = Pick(recs, keep)
    BY DEF remove_filter
  <2> HIDE DEF kept
  <2> QED
    BY <2>1, PickIs DEF Recs
<1>6. Rng(kept) = {r \in Rng(recs) : IF edit.family # None THEN r.family # edit.family
                                     ELSE r.fingerprint # edit.fingerprint}
  BY <1>5 DEF Rng
<1> HIDE DEF kept, keep
<1>7. Rng(kept) = Rng(recs) \ AskedToDrop(Rng(recs), edit)
  BY <1>1, <1>3, <1>4, <1>6
<1> QED
  BY <1>4, <1>5, <1>7 DEF Obeys, kept

(* More is asked of more records.                                          *)
LEMMA MoreIsAsked ==
  ASSUME NEW all, IsFiniteSet(all), NEW rest \in SUBSET all, NEW edit \in Edits
  PROVE  AskedToDrop(rest, edit) \subseteq AskedToDrop(all, edit)
<1>1. CASE edit.op # "trim"
  BY <1>1 DEF AskedToDrop
<1>2. CASE edit.op = "trim"
  <2> DEFINE tooOld(r) == edit.before # None /\ r.ts < edit.before
  <2> DEFINE atSha(r) == edit.before_sha # None /\ r.sha = edit.before_sha
  <2> DEFINE asNew(some, r) == {s \in some : s.family = r.family /\ s # r /\ s.ts >= r.ts
                                              /\ ~tooOld(s) /\ ~atSha(s)}
  <2>1. \A some : AskedToDrop(some, edit) =
          {r \in some : \/ tooOld(r) \/ atSha(r)
                        \/ edit.keep_last # None /\ Cardinality(asNew(some, r)) >= edit.keep_last}
    BY <1>2 DEF AskedToDrop
  <2>2. edit.keep_last = None \/ edit.keep_last \in Nat
    BY <1>2, RejectionBounds DEF Edits, TrimEdits, RemoveEdits
  <2>3. ASSUME NEW r \in rest
        PROVE  /\ Cardinality(asNew(rest, r)) \in Nat /\ Cardinality(asNew(all, r)) \in Nat
               /\ Cardinality(asNew(rest, r)) <= Cardinality(asNew(all, r))
    <3>1. asNew(rest, r) \in SUBSET asNew(all, r) /\ asNew(all, r) \in SUBSET all
      OBVIOUS
    <3> HIDE DEF asNew
    <3>2. IsFiniteSet(asNew(all, r))
      BY <3>1, FS_Subset
    <3>3. IsFiniteSet(asNew(rest, r)) /\ Cardinality(asNew(rest, r)) <= Cardinality(asNew(all, r))
      BY <3>1, <3>2, FS_Subset
    <3> QED
      BY <3>2, <3>3, FS_CardinalityType
  <2> HIDE DEF tooOld, atSha, asNew
  <2>4. ASSUME NEW r \in AskedToDrop(rest, edit) PROVE r \in AskedToDrop(all, edit)
    <3>1. r \in rest /\ r \in all
      BY <2>1
    <3>2. CASE tooOld(r) \/ atSha(r)
      BY <2>1, <3>1, <3>2
    <3>3. CASE edit.keep_last # None /\ Cardinality(asNew(rest, r)) >= edit.keep_last
      <4>1. Cardinality(asNew(all, r)) >= edit.keep_last
        BY <2>2, <2>3, <3>1, <3>3
      <4> QED
        BY <2>1, <3>1, <3>3, <4>1
    <3> QED
      BY <2>1, <3>2, <3>3
  <2> QED
    BY <2>4
<1> QED
  BY <1>1, <1>2

LEMMA FilterObeys ==
  ASSUME NEW recs \in Recs, Distinct(recs), NEW edit \in Edits
  PROVE  LET kept == Filter(recs, edit)
         IN  kept \in Recs /\ Distinct(kept) /\ Obeys(recs, kept, edit)
<1>1. CASE edit \in TrimEdits
  <2>1. edit.op = "trim"
    BY <1>1 DEF TrimEdits
  <2> QED
    BY <1>1, <2>1, TrimObeys DEF Filter
<1>2. CASE edit \in RemoveEdits
  <2>1. edit.op # "trim"
    BY <1>2 DEF RemoveEdits
  <2> QED
    BY <1>2, <2>1, RemoveObeys DEF Filter
<1> QED
  BY <1>1, <1>2 DEF Edits

-----------------------------------------------------------------------------
(* The ledger file: what can be read of it, and what writing does to that. *)
Writs == Rec \union {Cut, Torn}
Files == Seq(Seq(Writs))
Good(f) == {r \in Rec : \E i \in DOMAIN f : f[i] = <<r>>}
Full(f) == \A i \in DOMAIN f : Len(f[i]) >= 1

(* A sequence of one text is that text alone.                              *)
LEMMA Single ==
  ASSUME NEW S, NEW line \in Seq(S), Len(line) = 1
  PROVE  line = <<line[1]>> /\ line[1] \in S
OBVIOUS

(* load_all_locked reads the records that are alone on a line, once when   *)
(* they stand there once.                                                  *)
LEMMA LoadIs ==
  ASSUME NEW f \in Files
  PROVE  /\ load_all_locked(f) \in Recs
         /\ Rng(load_all_locked(f)) = Good(f)
         /\ OneLine(f) => Distinct(load_all_locked(f))
<1> DEFINE keep == {i \in DOMAIN f : Len(f[i]) = 1 /\ f[i][1] \notin {Cut, Torn}}
<1> DEFINE good == Pick(f, keep)
<1> DEFINE recs == load_all_locked(f)
<1>1. DOMAIN f = 1..Len(f) /\ \A i \in DOMAIN f : f[i] \in Seq(Writs)
  BY DEF Files
<1>2. recs = [i \in DOMAIN good |-> good[i][1]]
  BY DEF load_all_locked
<1>3. /\ good \in Seq(Seq(Writs)) /\ Rng(good) = {f[i] : i \in keep}
  <2>1. keep \in SUBSET DOMAIN f
    OBVIOUS
  <2> HIDE DEF keep
  <2> QED
    BY <2>1, PickIs DEF Files
<1> HIDE DEF good, recs
<1>4. ASSUME NEW k \in DOMAIN good
      PROVE  \E i \in keep : good[k] = f[i] /\ f[i] = <<good[k][1]>> /\ good[k][1] \in Rec
  <2>1. good[k] \in Rng(good)
    BY DEF Rng
  <2>2. PICK i \in keep : good[k] = f[i]
    BY <1>3, <2>1
  <2>3. f[i] = <<f[i][1]>> /\ f[i][1] \in Writs
    BY <1>1, Single
  <2> QED
    BY <2>2, <2>3 DEF Writs
<1>5. recs \in Recs /\ DOMAIN recs = DOMAIN good
  <2>1. \A k \in DOMAIN good : good[k][1] \in Rec
    BY <1>4
  <2>2. DOMAIN good = 1..Len(good) /\ Len(good) \in Nat
    BY <1>3
  <2> QED
    BY <1>2, <2>1, <2>2 DEF Recs
<1>6. Rng(recs) = Good(f)
  <2>1. ASSUME NEW r \in Rng(recs) PROVE r \in Good(f)
    <3>1. PICK k \in DOMAIN good : r = good[k][1]
      BY <1>2 DEF Rng
    <3> QED
      BY <1>4, <3>1 DEF Good
  <2>2. ASSUME NEW r \in Good(f) PROVE r \in Rng(recs)
    <3>1. PICK i \in DOMAIN f : f[i] = <<r>>
      BY DEF Good
    <3>2. r \in Rec /\ r \notin {Cut, Torn}
      BY CutAssumption DEF Good
    <3>3. i \in keep
      BY <3>1, <3>2
    <3>4. f[i] \in Rng(good)
      BY <1>3, <3>3
    <3>5. PICK k \in DOMAIN good : good[k] = <<r>>
      BY <3>1, <3>4 DEF Rng
    <3> QED
      BY <1>2, <3>5 DEF Rng
  <2> QED
    BY <2>1, <2>2
<1>7. ASSUME OneLine(f) PROVE Distinct(recs)
  <2>1. ASSUME NEW i \in keep, NEW j \in keep, f[i] = f[j] PROVE i = j
    <3>1. f[i] = <<f[i][1]>> /\ f[i][1] \in Rec
      BY <1>1, Single DEF Writs
    <3> QED
      BY <1>7, <2>1, <3>1 DEF OneLine
  <2>2. Distinct(good)
    <3>1. keep \in SUBSET DOMAIN f
      OBVIOUS
    <3> HIDE DEF keep
    <3> QED
      BY <2>1, <3>1, PickIs DEF Files, good
  <2>3. ASSUME NEW k \in DOMAIN good, NEW l \in DOMAIN good, good[k][1] = good[l][1]
        PROVE  good[k] = good[l]
    BY <1>4, <2>3
  <2> QED
    BY <1>2, <1>5, <2>2, <2>3 DEF Distinct
<1> QED
  BY <1>5, <1>6, <1>7 DEF recs

(* The text on a line of its own.                                          *)
LEMMA WriteNewLine ==
  ASSUME NEW f \in Files, NEW text \in Writs, Full(f)
  PROVE  LET g == WriteText(f, TRUE, text)
         IN  /\ g \in Files /\ Full(g) /\ g # <<>> /\ g[Len(g)] = <<text>>
             /\ Good(g) = Good(f) \union ({text} \intersect Rec)
             /\ OneLine(f) /\ text \notin Good(f) => OneLine(g)
<1> DEFINE g == Append(f, <<text>>)
<1> DEFINE n == Len(f)
<1>1. WriteText(f, TRUE, text) = g
  BY DEF WriteText
<1>2. n \in Nat /\ DOMAIN f = 1..n /\ \A i \in DOMAIN f : f[i] \in Seq(Writs)
  BY DEF Files
<1>3. <<text>> \in Seq(Writs) /\ Len(<<text>>) = 1
  OBVIOUS
<1>4. /\ g \in Files /\ Len(g) = n + 1 /\ DOMAIN g = 1..(n + 1)
      /\ g[n + 1] = <<text>> /\ \A i \in 1..n : g[i] = f[i]
  BY <1>2, <1>3 DEF Files
<1> HIDE DEF g, n
<1>5. g # <<>>
  BY <1>2, <1>4
<1>6. Full(g)
  <2>1. \A i \in 1..n : Len(g[i]) >= 1
    BY <1>2, <1>4 DEF Full
  <2>2. Len(g[n + 1]) >= 1
    BY <1>3, <1>4
  <2>3. \A i \in 1..(n + 1) : i \in 1..n \/ i = n + 1
    BY <1>2
  <2> QED
    BY <1>4, <2>1, <2>2, <2>3 DEF Full
<1>7. Good(g) = Good(f) \union ({text} \intersect Rec)
  <2>1. ASSUME NEW r \in Good(g) PROVE r \in Good(f) \/ r = text
    <3>1. PICK i \in 1..(n + 1) : g[i] = <<r>>
      BY <1>4 DEF Good
    <3>2. CASE i = n + 1
      BY <1>4, <3>1, <3>2
    <3>3. CASE i \in 1..n
      BY <1>2, <1>4, <3>1, <3>3 DEF Good
    <3> QED
      BY <1>2, <3>2, <3>3
  <2>2. ASSUME NEW r \in Good(f) PROVE r \in Good(g)
    <3>1. PICK i \in 1..n : f[i] = <<r>>
      BY <1>2 DEF Good
    <3> QED
      BY <1>2, <1>4, <3>1 DEF Good
  <2>3. ASSUME text \in Rec PROVE text \in Good(g)
    BY <1>2, <1>4, <2>3 DEF Good
  <2>4. Good(g) \subseteq Rec
    BY DEF Good
  <2> QED
    BY <2>1, <2>2, <2>3, <2>4
<1>8. ASSUME OneLine(f), text \notin Good(f) PROVE OneLine(g)
  <2>1. ASSUME NEW i \in 1..n, NEW r \in Rec, g[i] = <<r>>, g[n + 1] = <<r>> PROVE FALSE
    BY <1>2, <1>4, <1>8, <2>1 DEF Good
  <2>2. ASSUME NEW i \in 1..n, NEW j \in 1..n, NEW r \in Rec, g[i] = <<r>>, g[j] = <<r>> PROVE i = j
    BY <1>2, <1>4, <1>8, <2>2 DEF OneLine
  <2>3. ASSUME NEW i \in 1..(n + 1), NEW j \in 1..(n + 1), NEW r \in Rec, g[i] = <<r>>, g[j] = <<r>>
        PROVE  i = j
    <3>1. (i \in 1..n \/ i = n + 1) /\ (j \in 1..n \/ j = n + 1)
      BY <1>2
    <3> QED
      BY <2>1, <2>2, <2>3, <3>1
  <2> QED
    BY <1>4, <2>3 DEF OneLine
<1> QED
  BY <1>1, <1>4, <1>5, <1>6, <1>7, <1>8

(* The text glued to an open line: what stood there alone is spoiled, and  *)
(* nothing else.                                                           *)
LEMMA WriteGlued ==
  ASSUME NEW f \in Files, NEW text \in Writs, Full(f), f # <<>>
  PROVE  LET g == WriteText(f, FALSE, text)
         IN  /\ g \in Files /\ Full(g) /\ g # <<>> /\ Len(g[Len(g)]) >= 2
             /\ Good(g) \subseteq Good(f)
             /\ \A r \in Good(f) \ Good(g) : f[Len(f)] = <<r>>
             /\ OneLine(f) => OneLine(g)
<1> DEFINE n == Len(f)
<1> DEFINE line == Append(f[n], text)
<1> DEFINE g == [f EXCEPT ![n] = line]
<1>1. WriteText(f, FALSE, text) = g
  BY DEF WriteText
<1>2. n \in Nat /\ n # 0 /\ DOMAIN f = 1..n /\ \A i \in DOMAIN f : f[i] \in Seq(Writs)
  BY DEF Files
<1>3. n \in 1..n
  BY <1>2
<1>4. line \in Seq(Writs) /\ Len(line) >= 2
  <2>1. f[n] \in Seq(Writs) /\ Len(f[n]) \in Nat /\ Len(f[n]) >= 1
    BY <1>2, <1>3 DEF Full
  <2>2. Len(line) = Len(f[n]) + 1
    BY <2>1
  <2> QED
    BY <2>1, <2>2
<1> HIDE DEF line
<1>5. /\ g \in Files /\ DOMAIN g = 1..n /\ Len(g) = n
      /\ g[n] = line /\ \A i \in 1..n : i # n => g[i] = f[i]
  BY <1>2, <1>3, <1>4 DEF Files
<1> HIDE DEF g, n
<1>6. ASSUME NEW r, g[n] = <<r>> PROVE FALSE
  <2>1. Len(<<r>>) = 1
    OBVIOUS
  <2>2. Len(g[n]) = 1
    BY <1>6, <2>1, Zenon
  <2>3. Len(g[n]) >= 2
    BY <1>4, <1>5, Zenon
  <2> QED
    BY <2>2, <2>3
<1>7. g # <<>> /\ Full(g) /\ Len(g[n]) >= 2
  <2>1. \A i \in 1..n : Len(g[i]) >= 1
    BY <1>2, <1>4, <1>5 DEF Full
  <2>2. g # <<>>
    BY <1>2, <1>5
  <2>3. Full(g)
    BY <1>5, <2>1 DEF Full
  <2>4. Len(g[n]) >= 2
    BY <1>4, <1>5
  <2> QED
    BY <2>2, <2>3, <2>4
<1>8. Good(g) \subseteq Good(f)
  BY <1>2, <1>5, <1>6 DEF Good
<1>9. \A r \in Good(f) \ Good(g) : f[n] = <<r>>
  BY <1>2, <1>5 DEF Good
<1>10. OneLine(f) => OneLine(g)
  BY <1>2, <1>5, <1>6 DEF OneLine
<1> QED
  BY <1>1, <1>5, <1>7, <1>8, <1>9, <1>10 DEF n

(* The ledger rewritten: one line per record.                              *)
LEMMA RewrittenIs ==
  ASSUME NEW tmp \in Recs, Distinct(tmp)
  PROVE  LET g == [i \in DOMAIN tmp |-> <<tmp[i]>>]
         IN  g \in Files /\ Full(g) /\ Good(g) = Rng(tmp) /\ OneLine(g)
<1> DEFINE g == [i \in DOMAIN tmp |-> <<tmp[i]>>]
<1>1. /\ Len(tmp) \in Nat /\ DOMAIN tmp = 1..Len(tmp) /\ DOMAIN g = DOMAIN tmp
      /\ \A i \in DOMAIN tmp : tmp[i] \in Rec /\ g[i] = <<tmp[i]>>
  BY DEF Recs
<1>2. ASSUME NEW i \in DOMAIN g PROVE g[i] \in Seq(Writs) /\ Len(g[i]) = 1
  <2>1. tmp[i] \in Writs
    BY <1>1 DEF Writs
  <2>2. g[i] = <<tmp[i]>>
    BY <1>1
  <2> HIDE DEF g, Writs
  <2> QED
    BY <2>1, <2>2
<1>3. g \in Files
  BY <1>1, <1>2 DEF Files
<1> HIDE DEF g
<1>4. Full(g)
  BY <1>2 DEF Full
<1>5. \A r, s : <<r>> = <<s>> => r = s
  OBVIOUS
<1>6. Good(g) = Rng(tmp)
  BY <1>1, <1>5 DEF Good, Rng
<1>7. OneLine(g)
  BY <1>1, <1>5 DEF OneLine, Distinct
<1> QED
  BY <1>3, <1>4, <1>6, <1>7 DEF g

-----------------------------------------------------------------------------
(* The steps.                                                              *)

(* What the invariant says of the ledger.                                  *)
LEMMA Ledger ==
  ASSUME IInv
  PROVE  /\ file \in Files /\ Full(file) /\ OneLine(file)
         /\ Stored = Good(file)
         /\ load_all_locked(file) \in Recs /\ Distinct(load_all_locked(file))
         /\ IsFiniteSet(acked) /\ IsFiniteSet(Lost) /\ Cardinality(Lost) \in Nat
<1>1. file \in Files /\ Full(file) /\ OneLine(file) /\ IsFiniteSet(acked)
  BY DEF IInv, TypeOK, Files, Writs, Lines, Full, Genuine
<1>2. IsFiniteSet(Lost) /\ Cardinality(Lost) \in Nat
  <2>1. Lost \in SUBSET acked
    BY DEF Lost
  <2> QED
    BY <1>1, <2>1, FS_Subset, FS_CardinalityType
<1> QED
  BY <1>1, <1>2, LoadIs DEF Stored

(* What a process has at hand.                                             *)
LEMMA AtHand ==
  ASSUME IInv, NEW p \in Procs
  PROVE  /\ proc[p] \in Commands
         /\ proc[p].pc \in {"append", "text"} =>
              /\ proc[p].rec \in Rec
              /\ proc[p] = [pc |-> proc[p].pc, rec |-> proc[p].rec]
         /\ proc[p].pc \in {"rewrite", "rename"} => proc[p].edit \in Edits
         /\ proc[p].pc \in {"idle", "append", "text", "rewrite", "rename"}
<1>1. proc[p] \in Commands
  BY DEF IInv, TypeOK
<1> QED
  BY <1>1 DEF Commands, Idle

(* What it may turn to.                                                    *)
LEMMA NextCommands ==
  /\ Idle \in Commands /\ Idle.pc = "idle"
  /\ \A rec \in Rec : /\ [pc |-> "append", rec |-> rec] \in Commands
                      /\ [pc |-> "text", rec |-> rec] \in Commands
  /\ \A edit \in Edits, recs \in Recs :
       /\ [pc |-> "rewrite", edit |-> edit, seen |-> recs] \in Commands
       /\ [pc |-> "rename", edit |-> edit, tmp |-> recs] \in Commands
BY DEF Commands, Idle, Recs

(* Whoever writes is alone.                                                *)
LEMMA Alone ==
  ASSUME IInv, NEW p \in Procs, proc[p].pc \in {"text", "rename"} \/ lock = None,
         NEW q \in Procs \ {p}
  PROVE  proc[q].pc \notin {"text", "rename"}
BY NoneAssumption DEF IInv, TypeOK

(* A text is written: a new line, or the open line glued.                  *)
LEMMA Written ==
  ASSUME IInv, NEW text \in Writs, text \notin Good(file)
  PROVE  LET g == WriteText(file, ended, text)
         IN  /\ g \in Files /\ Full(g) /\ OneLine(g) /\ g # <<>>
             /\ Good(g) \subseteq Good(file) \union ({text} \intersect Rec)
             /\ acked \intersect Good(file) \subseteq Good(g)
             /\ ended => g[Len(g)] = <<text>>
             /\ ~ended => Len(g[Len(g)]) >= 2
<1>1. file \in Files /\ Full(file) /\ OneLine(file)
  BY Ledger
<1>2. CASE ended
  <2>1. WriteText(file, ended, text) = WriteText(file, TRUE, text)
    BY <1>2 DEF WriteText
  <2> QED
    BY <1>1, <1>2, <2>1, WriteNewLine
<1>3. CASE ~ended
  <2>1. WriteText(file, ended, text) = WriteText(file, FALSE, text)
    BY <1>3 DEF WriteText
  <2>2. file # <<>> /\ \A r \in acked : file[Len(file)] # <<r>>
    BY <1>3 DEF IInv, Unfinished, Last
  <2> DEFINE g == WriteText(file, FALSE, text)
  <2>3. /\ g \in Files /\ Full(g) /\ g # <<>> /\ Len(g[Len(g)]) >= 2
        /\ Good(g) \subseteq Good(file)
        /\ \A r \in Good(file) \ Good(g) : file[Len(file)] = <<r>>
        /\ OneLine(g)
    BY <1>1, <2>2, WriteGlued
  <2>4. acked \intersect Good(file) \subseteq Good(g)
    BY <2>2, <2>3
  <2> HIDE DEF g
  <2> QED
    BY <1>3, <2>1, <2>3, <2>4 DEF g
<1> QED
  BY <1>2, <1>3

(* When the ledger and what was acknowledged stay, so does what is said of *)
(* them.                                                                   *)
LEMMA LedgerStays ==
  ASSUME IInv, UNCHANGED <<file, ended, acked, dropped, strays>>, made' \in Nat, made' >= made
  PROVE  /\ Genuine' /\ Lines' /\ Unfinished' /\ Stored' = Stored /\ Lost' = Lost /\ Last' = Last
         /\ \A r \in Rec : Sound(r, made) => Sound(r, made')
<1>1. Stored' = Stored /\ Lost' = Lost /\ Last' = Last
  BY DEF Stored, Lost, Last
<1>2. Lines' /\ Unfinished'
  BY <1>1 DEF IInv, Lines, OneLine, Unfinished, Last
<1>3. ASSUME NEW r \in Rec, Sound(r, made) PROVE Sound(r, made')
  <2>1. r.id \in Nat /\ made \in Nat
    BY RejectionBounds DEF Rec, IInv, TypeOK
  <2> QED
    BY <1>3, <2>1 DEF Sound
<1>4. Stored \subseteq Rec /\ acked \subseteq Rec
  BY Ledger DEF Good, IInv, TypeOK
<1>5. Genuine'
  BY <1>1, <1>3, <1>4 DEF IInv, Genuine
<1> QED
  BY <1>1, <1>2, <1>3, <1>5

LEMMA TickKeeps ==
  ASSUME IInv, Tick PROVE IInv'
<1>1. /\ UNCHANGED <<file, ended, lock, proc, made, edits, crashes, acked, dropped, strays>>
      /\ clock' \in 0..MaxTs
  BY RejectionBounds DEF Tick, IInv, TypeOK
<1>2. made \in Nat
  BY RejectionBounds DEF IInv, TypeOK
<1>3. /\ Genuine' /\ Lines' /\ Unfinished' /\ Stored' = Stored /\ Lost' = Lost /\ Last' = Last
      /\ \A r : Sound(r, made') <=> Sound(r, made)
  BY <1>1, <1>2, LedgerStays DEF Sound
<1>4. TypeOK'
  BY <1>1 DEF IInv, TypeOK
<1>5. Writers'
  BY <1>1, <1>3 DEF IInv, Writers, Writing
<1>6. Copies'
  BY <1>1 DEF IInv, Copies
<1>7. Debts'
  BY <1>1, <1>3 DEF IInv, Debts, Spoiling
<1> QED
  BY <1>3, <1>4, <1>5, <1>6, <1>7 DEF IInv

(* The record that a command builds is new.                                *)
LEMMA RecordIsNew ==
  ASSUME IInv, made < MaxRecords, NEW ask \in Asks
  PROVE  LET rec == Record(made, ask, clock)
         IN  /\ rec \in Rec /\ rec.id = made /\ rec.ask = ask
             /\ rec.fingerprint = compute_fingerprint(ask)
             /\ rec \notin acked \union Stored
             /\ \A q \in Writing : proc[q].rec.id < made
<1> DEFINE rec == Record(made, ask, clock)
<1>1. made \in 0..MaxRecords /\ clock \in 0..MaxTs /\ made \in Nat
  BY RejectionBounds DEF IInv, TypeOK
<1>2. rec.id = made /\ rec.ask = ask /\ rec.fingerprint = compute_fingerprint(ask)
  BY DEF Record
<1>3. rec \in Rec
  <2>1. /\ ask.family \in Families /\ ask.sha \in Shas \union {None}
        /\ compute_fingerprint(ask) \in Fingerprints
    BY DEF Families, Shas, Fingerprints
  <2> QED
    BY <1>1, <2>1 DEF Record, Rec
<1>4. \A r \in acked \union Stored : r.id < made
  BY DEF IInv, Genuine, Sound
<1>5. \A q \in Writing : proc[q].rec.id < made
  BY DEF IInv, Writers, Sound
<1> HIDE DEF rec
<1>6. rec \notin acked \union Stored
  BY <1>1, <1>2, <1>4
<1> QED
  BY <1>2, <1>3, <1>5, <1>6 DEF rec

LEMMA AppendCommandKeeps ==
  ASSUME IInv, NEW p \in Procs, AppendCommand(p) PROVE IInv'
<1>1. /\ proc[p].pc = "idle" /\ made < MaxRecords /\ made' = made + 1
      /\ UNCHANGED <<file, ended, lock, clock, edits, crashes, acked, dropped, strays>>
  BY DEF AppendCommand
<1>2. PICK ask \in Asks : append(p, Record(made, ask, clock))
  BY DEF AppendCommand
<1> DEFINE rec == Record(made, ask, clock)
<1> DEFINE cmd == IF fingerprint_specific_enough(ask) THEN [pc |-> "append", rec |-> rec] ELSE Idle
<1>3. /\ rec \in Rec /\ rec.id = made /\ rec.ask = ask /\ rec.fingerprint = compute_fingerprint(ask)
      /\ rec \notin acked \union Stored /\ \A q \in Writing : proc[q].rec.id < made
  BY <1>1, RecordIsNew
<1>4. made \in Nat /\ made' \in Nat /\ made' \in 0..MaxRecords /\ proc \in [Procs -> Commands]
  BY <1>1, RejectionBounds DEF IInv, TypeOK
<1>5. /\ proc' \in [Procs -> Commands] /\ proc'[p] = cmd
      /\ \A q \in Procs \ {p} : proc'[q] = proc[q]
  <2>1. cmd \in Commands
    BY <1>3, NextCommands
  <2>2. proc' = [proc EXCEPT ![p] = cmd]
    BY <1>2, <1>3 DEF append
  <2> HIDE DEF cmd
  <2> QED
    BY <1>4, <2>1, <2>2
<1> HIDE DEF rec
<1>6. /\ Genuine' /\ Lines' /\ Unfinished' /\ Stored' = Stored /\ Lost' = Lost /\ Last' = Last
      /\ \A r \in Rec : Sound(r, made) => Sound(r, made')
  BY <1>1, <1>4, LedgerStays
<1>7. cmd.pc \in {"idle", "append"} /\ (cmd.pc = "append" => cmd.rec = rec /\ fingerprint_specific_enough(ask))
  BY DEF Idle
<1> HIDE DEF cmd
<1>8. TypeOK'
  <2>1. \A q \in Procs : proc'[q].pc \in {"text", "rename"} => lock = q
    BY <1>5, <1>7 DEF IInv, TypeOK
  <2> QED
    BY <1>1, <1>4, <1>5, <2>1 DEF IInv, TypeOK
<1>9. ASSUME NEW q \in Procs \ {p}, proc[q].pc \in {"append", "text"}
      PROVE  /\ q \in Writing /\ proc[q].rec \in Rec /\ proc[q].rec.id < made
             /\ Sound(proc[q].rec, made') /\ proc[q].rec \notin acked
             /\ \A x \in Writing \ {q} : proc[x].rec.id # proc[q].rec.id
             /\ proc[q].pc = "append" => proc[q].rec \notin Stored
             /\ proc[q].pc = "text" => ~ended /\ (Last = <<proc[q].rec>> \/ Len(Last) >= 2)
  <2>1. q \in Writing
    BY <1>9 DEF Writing
  <2>2. proc[q].rec \in Rec
    BY <1>9, AtHand
  <2>3. Sound(proc[q].rec, made)
    BY <2>1 DEF IInv, Writers
  <2> QED
    BY <1>3, <1>6, <2>1, <2>2, <2>3 DEF IInv, Writers
<1>10. ASSUME proc'[p].pc \in {"append", "text"}
       PROVE  /\ proc'[p].pc = "append" /\ proc'[p].rec = rec /\ Sound(rec, made')
  <2>1. proc'[p].pc = "append" /\ proc'[p].rec = rec /\ fingerprint_specific_enough(ask)
    BY <1>5, <1>7, <1>10
  <2>2. made < made'
    BY <1>1, <1>4
  <2> QED
    BY <1>3, <2>1, <2>2 DEF Sound
<1>11. Writers'
  <2> SUFFICES ASSUME NEW q \in Writing'
               PROVE  /\ Sound(proc'[q].rec, made') /\ proc'[q].rec \notin acked'
                      /\ \A x \in Writing' \ {q} : proc'[x].rec.id # proc'[q].rec.id
                      /\ proc'[q].pc = "append" => proc'[q].rec \notin Stored'
                      /\ proc'[q].pc = "text" => ~ended' /\ (Last' = <<proc'[q].rec>> \/ Len(Last') >= 2)
    BY DEF Writers
  <2>1. q \in Procs /\ proc'[q].pc \in {"append", "text"}
    BY DEF Writing
  <2>2. \A x \in Writing' \ {p} : x \in Writing /\ proc'[x] = proc[x] /\ proc[x].rec.id < made
    BY <1>3, <1>5 DEF Writing
  <2>4. CASE q = p
    <3>1. proc'[q].pc = "append" /\ proc'[q].rec = rec /\ Sound(rec, made')
      BY <1>10, <2>1, <2>4
    <3>2. \A x \in Writing' \ {q} : proc'[x].rec.id # rec.id
      BY <1>3, <1>4, <2>2, <2>4
    <3> QED
      BY <1>1, <1>3, <1>6, <3>1, <3>2
  <2>5. CASE q # p
    <3>1. proc'[q] = proc[q] /\ proc[q].pc \in {"append", "text"}
      BY <1>5, <2>1, <2>5
    <3>2. \A x \in Writing' \ {q} : proc'[x].rec.id # proc'[q].rec.id
      <4>1. ASSUME NEW x \in Writing' \ {q} PROVE proc'[x].rec.id # proc[q].rec.id
        <5>1. CASE x = p
          <6>1. proc'[p].rec = rec
            BY <1>10, <4>1, <5>1 DEF Writing
          <6> QED
            BY <1>3, <1>4, <1>9, <2>1, <2>5, <3>1, <5>1, <6>1
        <5>2. CASE x # p
          BY <1>9, <2>1, <2>2, <2>5, <3>1, <4>1, <5>2
        <5> QED
          BY <5>1, <5>2
      <4> QED
        BY <3>1, <4>1
    <3> QED
      BY <1>1, <1>6, <1>9, <2>1, <2>5, <3>1, <3>2
  <2> QED
    BY <2>4, <2>5
<1>12. Copies'
  <2> SUFFICES ASSUME NEW q \in Procs, proc'[q].pc = "rename"
               PROVE  proc'[q].tmp = Filter(load_all_locked(file'), proc'[q].edit)
    BY DEF Copies
  <2>1. q # p /\ proc'[q] = proc[q]
    BY <1>5, <1>7
  <2> QED
    BY <1>1, <2>1 DEF IInv, Copies
<1>13. Debts'
  <2>1. Spoiling' => Spoiling
    <3> SUFFICES ASSUME Spoiling', NEW q \in Procs, proc[q].pc = "text" PROVE Len(Last) >= 2
      BY <1>1 DEF Spoiling
    <3>1. proc'[q] = proc[q]
      BY <1>1, <1>5
    <3> QED
      BY <1>6, <3>1 DEF Spoiling
  <2> QED
    BY <1>1, <1>6, <2>1 DEF IInv, Debts
<1> QED
  BY <1>6, <1>8, <1>11, <1>12, <1>13 DEF IInv

(* A process that turns to something else than writing, the ledger as it   *)
(* was: it was not in the middle of a line, or was killed.                 *)
LEMMA TurnKeeps ==
  ASSUME IInv, NEW p \in Procs, TypeOK', UNCHANGED <<file, ended, acked, dropped, strays, made>>,
         \A q \in Procs \ {p} : proc'[q] = proc[q],
         proc'[p].pc \notin {"append", "text"},
         proc'[p].pc = "rename" => proc'[p].tmp = Filter(load_all_locked(file), proc'[p].edit),
         \/ proc[p].pc # "text" /\ crashes' = crashes
         \/ crashes' = crashes + 1
  PROVE  IInv'
<1>1. made \in Nat /\ crashes \in Nat
  BY RejectionBounds DEF IInv, TypeOK
<1>2. /\ Genuine' /\ Lines' /\ Unfinished' /\ Stored' = Stored /\ Lost' = Lost /\ Last' = Last
  BY <1>1, LedgerStays
<1>3. \A q \in Writing' : q \in Writing /\ proc'[q] = proc[q]
  BY DEF Writing
<1>4. Writers'
  BY <1>2, <1>3 DEF IInv, Writers
<1>5. Copies'
  <2> SUFFICES ASSUME NEW q \in Procs, proc'[q].pc = "rename"
               PROVE  proc'[q].tmp = Filter(load_all_locked(file'), proc'[q].edit)
    BY DEF Copies
  <2>1. CASE q = p
    BY <2>1
  <2>2. CASE q # p
    BY <2>2 DEF IInv, Copies
  <2> QED
    BY <2>1, <2>2
<1>6. Debts'
  <2>1. Cardinality(Lost') = Cardinality(Lost) /\ Cardinality(Lost) \in Nat
    BY <1>2, Ledger
  <2>2. CASE proc[p].pc # "text" /\ crashes' = crashes
    <3>1. Spoiling' => Spoiling
      <4> SUFFICES ASSUME Spoiling', NEW q \in Procs, proc[q].pc = "text" PROVE Len(Last) >= 2
        BY DEF Spoiling
      <4>1. proc'[q] = proc[q]
        BY <2>2
      <4> QED
        BY <1>2, <4>1 DEF Spoiling
    <3> QED
      BY <2>1, <2>2, <3>1 DEF IInv, Debts
  <2>3. CASE crashes' = crashes + 1
    BY <1>1, <2>1, <2>3 DEF IInv, Debts
  <2> QED
    BY <2>2, <2>3
<1> QED
  BY <1>2, <1>4, <1>5, <1>6 DEF IInv

(* The previews of trim and remove.                                        *)
LEMMA PreviewKeeps ==
  ASSUME IInv, NEW p \in Procs, proc[p].pc = "idle", edits < MaxEdits, edits' = edits + 1,
         NEW edit \in Edits, Preview(p, edit),
         UNCHANGED <<file, ended, lock, clock, made, crashes, acked, dropped, strays>>
  PROVE  IInv'
<1> DEFINE cmd == [pc |-> "rewrite", edit |-> edit, seen |-> load_all_locked(file)]
<1>1. cmd \in Commands /\ cmd.pc = "rewrite"
  BY Ledger, NextCommands
<1>2. proc' = [proc EXCEPT ![p] = cmd]
  BY DEF Preview
<1> HIDE DEF cmd
<1>3. /\ proc' \in [Procs -> Commands] /\ proc'[p] = cmd
      /\ \A q \in Procs \ {p} : proc'[q] = proc[q]
  BY <1>1, <1>2 DEF IInv, TypeOK
<1>4. TypeOK'
  <2>1. \A q \in Procs : proc'[q].pc \in {"text", "rename"} => lock = q
    BY <1>1, <1>3 DEF IInv, TypeOK
  <2>2. edits' \in 0..MaxEdits
    BY RejectionBounds DEF IInv, TypeOK
  <2> QED
    BY <1>3, <2>1, <2>2 DEF IInv, TypeOK
<1> QED
  BY <1>1, <1>3, <1>4, TurnKeeps

LEMMA TrimCommandKeeps ==
  ASSUME IInv, NEW p \in Procs, TrimCommand(p) PROVE IInv'
<1>1. PICK edit \in TrimEdits : Preview(p, edit)
  BY DEF TrimCommand
<1> QED
  BY <1>1, PreviewKeeps DEF TrimCommand, Edits

LEMMA RemoveCommandKeeps ==
  ASSUME IInv, NEW p \in Procs, RemoveCommand(p) PROVE IInv'
<1>1. PICK edit \in RemoveEdits : Preview(p, edit)
  BY DEF RemoveCommand
<1> QED
  BY <1>1, PreviewKeeps DEF RemoveCommand, Edits

LEMMA WriteTmpKeeps ==
  ASSUME IInv, NEW p \in Procs, WriteTmp(p) PROVE IInv'
<1> DEFINE tmp == Filter(load_all_locked(file), proc[p].edit)
<1> DEFINE cmd == [pc |-> "rename", edit |-> proc[p].edit, tmp |-> tmp]
<1>1. /\ proc[p].pc = "rewrite" /\ lock = None /\ lock' = p
      /\ UNCHANGED <<file, ended, clock, made, edits, crashes, acked, dropped, strays>>
      /\ proc' = [proc EXCEPT ![p] = cmd]
  BY DEF WriteTmp, IInv, TypeOK
<1>2. proc[p].edit \in Edits
  BY <1>1, AtHand
<1>3. tmp \in Recs
  BY <1>2, Ledger, FilterObeys
<1>4. cmd.pc = "rename" /\ cmd.tmp = tmp /\ cmd.edit = proc[p].edit
  OBVIOUS
<1> HIDE DEF tmp
<1>5. cmd \in Commands
  BY <1>2, <1>3, NextCommands
<1> HIDE DEF cmd
<1>6. /\ proc' \in [Procs -> Commands] /\ proc'[p] = cmd
      /\ \A q \in Procs \ {p} : proc'[q] = proc[q]
  BY <1>1, <1>5 DEF IInv, TypeOK
<1>7. TypeOK'
  <2>1. ASSUME NEW q \in Procs, proc'[q].pc \in {"text", "rename"} PROVE lock' = q
    <3>1. CASE q = p
      BY <1>1, <3>1
    <3>2. CASE q # p
      BY <1>1, <1>6, <2>1, <3>2, Alone
    <3> QED
      BY <3>1, <3>2
  <2> QED
    BY <1>1, <1>6, <2>1 DEF IInv, TypeOK
<1>8. proc'[p].tmp = Filter(load_all_locked(file), proc'[p].edit)
  BY <1>4, <1>6 DEF tmp
<1> QED
  BY <1>1, <1>4, <1>6, <1>7, <1>8, TurnKeeps

LEMMA LoadFailsKeeps ==
  ASSUME IInv, NEW p \in Procs, LoadFails(p) PROVE IInv'
<1>1. /\ proc[p].pc = "rewrite"
      /\ UNCHANGED <<file, ended, lock, clock, made, edits, crashes, acked, dropped, strays>>
      /\ proc' = [proc EXCEPT ![p] = Idle]
  BY DEF LoadFails
<1>2. Idle \in Commands /\ Idle.pc = "idle"
  BY NextCommands
<1>3. /\ proc' \in [Procs -> Commands] /\ proc'[p].pc = "idle"
      /\ \A q \in Procs \ {p} : proc'[q] = proc[q]
  BY <1>1, <1>2 DEF IInv, TypeOK
<1>4. TypeOK'
  <2>1. ASSUME NEW q \in Procs, proc'[q].pc \in {"text", "rename"} PROVE lock' = q
    BY <1>1, <1>3, <2>1 DEF IInv, TypeOK
  <2> QED
    BY <1>1, <1>3, <2>1 DEF IInv, TypeOK
<1> QED
  BY <1>1, <1>3, <1>4, TurnKeeps

LEMMA CrashKeeps ==
  ASSUME IInv, NEW p \in Procs, Crash(p) PROVE IInv'
<1>1. /\ crashes < MaxCrashes /\ crashes' = crashes + 1
      /\ lock' = (IF lock = p THEN None ELSE lock)
      /\ UNCHANGED <<file, ended, clock, made, edits, acked, dropped, strays>>
      /\ proc' = [proc EXCEPT ![p] = Idle]
  BY DEF Crash
<1>2. Idle \in Commands /\ Idle.pc = "idle"
  BY NextCommands
<1>3. /\ proc' \in [Procs -> Commands] /\ proc'[p].pc = "idle"
      /\ \A q \in Procs \ {p} : proc'[q] = proc[q]
  BY <1>1, <1>2 DEF IInv, TypeOK
<1>4. TypeOK'
  <2>1. ASSUME NEW q \in Procs, proc'[q].pc \in {"text", "rename"} PROVE lock' = q
    <3>1. q # p /\ lock = q
      BY <1>3, <2>1 DEF IInv, TypeOK
    <3> QED
      BY <1>1, <3>1
  <2>2. crashes' \in 0..MaxCrashes /\ lock' \in Procs \union {None}
    BY <1>1, RejectionBounds DEF IInv, TypeOK
  <2> QED
    BY <1>1, <1>3, <2>1, <2>2 DEF IInv, TypeOK
<1> QED
  BY <1>1, <1>3, <1>4, TurnKeeps

(* A text is written under the lock: nobody who was acknowledged is lost.  *)
LEMMA WritingKeeps ==
  ASSUME IInv, NEW text \in Writs, text \notin Good(file), text \notin acked,
         text \in Rec => Sound(text, made),
         file' = WriteText(file, ended, text), ended' = FALSE, UNCHANGED <<acked, dropped, strays, made>>
  PROVE  /\ file' \in Files /\ Genuine' /\ Lines' /\ Unfinished' /\ Lost' = Lost
         /\ Stored' \subseteq Stored \union ({text} \intersect Rec)
         /\ ended => Last' = <<text>>
         /\ ~ended => Len(Last') >= 2
<1>1. /\ file' \in Files /\ Full(file') /\ OneLine(file') /\ file' # <<>>
      /\ Good(file') \subseteq Good(file) \union ({text} \intersect Rec)
      /\ acked \intersect Good(file) \subseteq Good(file')
      /\ ended => file'[Len(file')] = <<text>>
      /\ ~ended => Len(file'[Len(file')]) >= 2
  BY Written
<1>2. Stored' = Good(file') /\ Stored = Good(file) /\ IsFiniteSet(acked)
  BY <1>1, LoadIs, Ledger DEF Stored
<1>3. Last' = file'[Len(file')]
  BY DEF Last
<1>4. Lost' = Lost
  BY <1>1, <1>2 DEF Lost
<1>5. Genuine'
  BY <1>1, <1>2 DEF IInv, Genuine
<1>6. Lines'
  BY <1>1 DEF Lines, OneLine, Full
<1>7. Unfinished'
  <2>1. ASSUME NEW r \in acked, Last' = <<r>> PROVE FALSE
    <3>1. CASE ended
      <4>1. <<r>> = <<text>>
        BY <1>1, <1>3, <2>1, <3>1
      <4> QED
        BY <4>1
    <3>2. CASE ~ended
      <4>1. Len(<<r>>) >= 2
        BY <1>1, <1>3, <2>1, <3>2
      <4>2. Len(<<r>>) = 1
        OBVIOUS
      <4> QED
        BY <4>1, <4>2
    <3> QED
      BY <3>1, <3>2
  <2> QED
    BY <1>1, <2>1 DEF Unfinished
<1> QED
  BY <1>1, <1>2, <1>3, <1>4, <1>5, <1>6, <1>7

(* What the invariant says of a process that will write.                   *)
LEMMA WriterHas ==
  ASSUME IInv, NEW p \in Procs, proc[p].pc \in {"append", "text"}
  PROVE  /\ p \in Writing /\ proc[p].rec \in Rec
         /\ Sound(proc[p].rec, made) /\ proc[p].rec \notin acked
         /\ \A q \in Writing \ {p} : proc[q].rec.id # proc[p].rec.id
         /\ proc[p].pc = "append" => proc[p].rec \notin Stored
         /\ proc[p].pc = "text" => ~ended /\ (Last = <<proc[p].rec>> \/ Len(Last) >= 2)
<1>1. p \in Writing /\ proc[p].rec \in Rec
  BY AtHand DEF Writing
<1> QED
  BY <1>1 DEF IInv, Writers

(* The others are about to append: their records stay out of the ledger    *)
(* when only the writer's comes in.                                        *)
LEMMA OthersKeep ==
  ASSUME IInv, NEW p \in Procs, NEW rec,
         proc[p].pc \in {"text", "rename"} \/ lock = None,
         \A q \in Writing \ {p} : proc[q].rec # rec,
         Stored' \subseteq Stored \union {rec}, acked' \subseteq acked \union {rec}, made' = made,
         \A q \in Procs \ {p} : proc'[q] = proc[q]
  PROVE  \A q \in Writing' \ {p} :
           /\ q \in Writing /\ proc'[q] = proc[q] /\ proc[q].pc = "append"
           /\ Sound(proc'[q].rec, made') /\ proc'[q].rec \notin acked'
           /\ proc'[q].rec \notin Stored'
           /\ \A x \in Writing \ {q} : proc[x].rec.id # proc[q].rec.id
<1> SUFFICES ASSUME NEW q \in Writing' \ {p}
             PROVE  /\ q \in Writing /\ proc'[q] = proc[q] /\ proc[q].pc = "append"
                    /\ Sound(proc'[q].rec, made') /\ proc'[q].rec \notin acked'
                    /\ proc'[q].rec \notin Stored'
                    /\ \A x \in Writing \ {q} : proc[x].rec.id # proc[q].rec.id
  OBVIOUS
<1>1. q \in Procs /\ q # p /\ proc'[q] = proc[q] /\ proc[q].pc \in {"append", "text"}
  BY DEF Writing
<1>2. proc[q].pc = "append"
  BY <1>1, Alone
<1> QED
  BY <1>1, <1>2, WriterHas

LEMMA AppendTextKeeps ==
  ASSUME IInv, NEW p \in Procs, AppendText(p) PROVE IInv'
<1>1. PICK rec : rec = proc[p].rec
  OBVIOUS
<1>2. /\ proc[p].pc = "append" /\ lock = None /\ lock' = p
      /\ file' = WriteText(file, ended, rec) /\ ended' = FALSE
      /\ UNCHANGED <<clock, made, edits, crashes, acked, dropped, strays>>
      /\ proc' = [proc EXCEPT ![p].pc = "text"]
  BY <1>1 DEF AppendText
<1>3. /\ p \in Writing /\ rec \in Rec /\ Sound(rec, made) /\ rec \notin acked /\ rec \notin Stored
      /\ \A q \in Writing \ {p} : proc[q].rec.id # rec.id
  BY <1>1, <1>2, WriterHas
<1>4. /\ file' \in Files /\ Genuine' /\ Lines' /\ Unfinished' /\ Lost' = Lost
      /\ Stored' \subseteq Stored \union {rec}
      /\ ended => Last' = <<rec>>
      /\ ~ended => Len(Last') >= 2
  <2>1. rec \in Writs /\ rec \notin Good(file)
    BY <1>3, Ledger DEF Writs
  <2> QED
    BY <1>2, <1>3, <2>1, WritingKeeps
<1>5. /\ proc' \in [Procs -> Commands] /\ proc'[p] = [pc |-> "text", rec |-> rec]
      /\ \A q \in Procs \ {p} : proc'[q] = proc[q]
  <2>1. proc[p] = [pc |-> "append", rec |-> rec] /\ proc \in [Procs -> Commands]
    BY <1>1, <1>2, AtHand DEF IInv, TypeOK
  <2>2. proc' = [proc EXCEPT ![p] = [pc |-> "text", rec |-> rec]]
    <3>1. [[pc |-> "append", rec |-> rec] EXCEPT !.pc = "text"] = [pc |-> "text", rec |-> rec]
      OBVIOUS
    <3>2. proc' = [proc EXCEPT ![p] = [proc[p] EXCEPT !.pc = "text"]]
      BY <1>2
    <3> QED
      BY <2>1, <3>1, <3>2, Zenon
  <2>3. [pc |-> "text", rec |-> rec] \in Commands
    BY <1>3, NextCommands
  <2> QED
    BY <2>1, <2>2, <2>3
<1>6. proc'[p].pc = "text" /\ proc'[p].rec = rec
  BY <1>5
<1>7. TypeOK'
  <2>1. ASSUME NEW q \in Procs, proc'[q].pc \in {"text", "rename"} PROVE lock' = q
    BY <1>2, <1>5, <2>1, Alone
  <2>2. file' \in Seq(Seq(Rec \union {Cut, Torn})) /\ ended' \in BOOLEAN
    BY <1>2, <1>4 DEF Files, Writs
  <2> QED
    BY <1>2, <1>5, <2>1, <2>2 DEF IInv, TypeOK
<1>8. \A q \in Writing' \ {p} :
        /\ q \in Writing /\ proc'[q] = proc[q] /\ proc[q].pc = "append"
        /\ Sound(proc'[q].rec, made') /\ proc'[q].rec \notin acked'
        /\ proc'[q].rec \notin Stored'
        /\ \A x \in Writing \ {q} : proc[x].rec.id # proc[q].rec.id
  BY <1>2, <1>3, <1>4, <1>5, OthersKeep
<1>9. Writers'
  <2> SUFFICES ASSUME NEW q \in Writing'
               PROVE  /\ Sound(proc'[q].rec, made') /\ proc'[q].rec \notin acked'
                      /\ \A x \in Writing' \ {q} : proc'[x].rec.id # proc'[q].rec.id
                      /\ proc'[q].pc = "append" => proc'[q].rec \notin Stored'
                      /\ proc'[q].pc = "text" => ~ended' /\ (Last' = <<proc'[q].rec>> \/ Len(Last') >= 2)
    BY DEF Writers
  <2>1. \A x \in Writing' : x \in Writing /\ proc'[x].rec = proc[x].rec
    BY <1>1, <1>3, <1>6, <1>8
  <2>2. CASE q = p
    <3>1. \A x \in Writing' \ {q} : proc'[x].rec.id # proc'[q].rec.id
      BY <1>3, <1>6, <2>1, <2>2
    <3>2. ~ended' /\ (Last' = <<rec>> \/ Len(Last') >= 2)
      BY <1>2, <1>4
    <3> QED
      BY <1>2, <1>3, <1>6, <2>2, <3>1, <3>2
  <2>3. CASE q # p
    BY <1>8, <2>1, <2>3
  <2> QED
    BY <2>2, <2>3
<1>10. Copies'
  <2>1. \A q \in Procs : proc'[q].pc # "rename"
    BY <1>2, <1>5, <1>6, Alone
  <2> QED
    BY <2>1 DEF Copies
<1>11. Debts'
  <2>1. ASSUME Spoiling' PROVE Spoiling
    <3>1. Len(Last') >= 2
      BY <1>6, <2>1 DEF Spoiling
    <3>2. ~ended
      <4>1. ASSUME ended PROVE FALSE
        <5>1. Len(<<rec>>) >= 2
          BY <1>4, <3>1, <4>1
        <5>2. Len(<<rec>>) = 1
          OBVIOUS
        <5> QED
          BY <5>1, <5>2
      <4> QED
        BY <4>1
    <3>3. \A q \in Procs : proc[q].pc # "text"
      BY <1>2, Alone
    <3> QED
      BY <3>2, <3>3 DEF Spoiling
  <2> QED
    BY <1>2, <1>4, <2>1 DEF IInv, Debts
<1> QED
  BY <1>4, <1>7, <1>9, <1>10, <1>11 DEF IInv

LEMMA AppendCutKeeps ==
  ASSUME IInv, NEW p \in Procs, AppendCut(p) PROVE IInv'
<1>1. /\ proc[p].pc = "append" /\ lock = None /\ crashes < MaxCrashes /\ crashes' = crashes + 1
      /\ ended' = FALSE
      /\ UNCHANGED <<lock, clock, made, edits, acked, dropped, strays>>
      /\ proc' = [proc EXCEPT ![p] = Idle]
  BY DEF AppendCut
<1> PICK piece \in {Cut, Torn} : file' = WriteText(file, ended, piece)
  BY DEF AppendCut
<1>2. /\ file' \in Files /\ Genuine' /\ Lines' /\ Unfinished' /\ Lost' = Lost
      /\ Stored' \subseteq Stored
  <2>1. piece \in Writs /\ piece \notin Rec /\ piece \notin Good(file) /\ piece \notin acked
    BY CutAssumption DEF Writs, Good, IInv, TypeOK
  <2> QED
    BY <1>1, <2>1, WritingKeeps
<1>3. Idle \in Commands /\ Idle.pc = "idle"
  BY NextCommands
<1>4. /\ proc' \in [Procs -> Commands] /\ proc'[p].pc = "idle"
      /\ \A q \in Procs \ {p} : proc'[q] = proc[q]
  BY <1>1, <1>3 DEF IInv, TypeOK
<1>5. \A q \in Procs : proc'[q].pc \notin {"text", "rename"}
  BY <1>1, <1>4, Alone
<1>6. TypeOK'
  <2>1. file' \in Seq(Seq(Rec \union {Cut, Torn})) /\ ended' \in BOOLEAN /\ crashes' \in 0..MaxCrashes
    <3>1. crashes' \in 0..MaxCrashes
      BY <1>1, RejectionBounds DEF IInv, TypeOK
    <3> QED
      BY <1>1, <1>2, <3>1 DEF Files, Writs
  <2> QED
    BY <1>1, <1>4, <1>5, <2>1 DEF IInv, TypeOK
<1>7. Writers'
  <2>1. proc[p].rec \in Rec /\ \A q \in Writing \ {p} : proc[q].rec # proc[p].rec
    BY <1>1, WriterHas
  <2>2. p \notin Writing'
    BY <1>4 DEF Writing
  <2>3. \A q \in Writing' \ {p} :
          /\ q \in Writing /\ proc'[q] = proc[q] /\ proc[q].pc = "append"
          /\ Sound(proc'[q].rec, made') /\ proc'[q].rec \notin acked'
          /\ proc'[q].rec \notin Stored'
          /\ \A x \in Writing \ {q} : proc[x].rec.id # proc[q].rec.id
    BY <1>1, <1>2, <1>4, <2>1, OthersKeep
  <2> QED
    BY <2>2, <2>3 DEF Writers
<1>8. Copies'
  BY <1>5 DEF Copies
<1>9. Debts'
  <2>1. Cardinality(Lost') = Cardinality(Lost) /\ Cardinality(Lost) \in Nat /\ crashes \in Nat
    BY <1>2, Ledger, RejectionBounds DEF IInv, TypeOK
  <2> QED
    BY <1>1, <2>1 DEF IInv, Debts
<1> QED
  BY <1>2, <1>6, <1>7, <1>8, <1>9 DEF IInv

LEMMA AppendLineEndKeeps ==
  ASSUME IInv, NEW p \in Procs, AppendLineEnd(p) PROVE IInv'
<1>1. PICK rec : rec = proc[p].rec
  OBVIOUS
<1>2. /\ proc[p].pc = "text" /\ ended' = TRUE /\ lock' = None /\ acked' = acked \union {rec}
      /\ UNCHANGED <<file, clock, made, edits, crashes, dropped, strays>>
      /\ proc' = [proc EXCEPT ![p] = Idle]
  BY <1>1 DEF AppendLineEnd
<1>3. /\ rec \in Rec /\ Sound(rec, made) /\ rec \notin acked
      /\ \A q \in Writing \ {p} : proc[q].rec.id # rec.id
      /\ ~ended /\ (Last = <<rec>> \/ Len(Last) >= 2)
  BY <1>1, <1>2, WriterHas
<1>4. Stored' = Stored /\ Last' = Last
  BY <1>2 DEF Stored, Last
<1>5. Idle \in Commands /\ Idle.pc = "idle"
  BY NextCommands
<1>6. /\ proc' \in [Procs -> Commands] /\ proc'[p].pc = "idle"
      /\ \A q \in Procs \ {p} : proc'[q] = proc[q]
  BY <1>2, <1>5 DEF IInv, TypeOK
<1>7. \A q \in Procs : proc'[q].pc \notin {"text", "rename"}
  BY <1>2, <1>6, Alone
<1>8. TypeOK'
  <2>1. acked' \subseteq Rec /\ lock' \in Procs \union {None} /\ ended' \in BOOLEAN
    BY <1>2, <1>3 DEF IInv, TypeOK
  <2> QED
    BY <1>2, <1>6, <1>7, <2>1 DEF IInv, TypeOK
<1>9. Genuine'
  <2>1. IsFiniteSet(acked')
    BY <1>2, Ledger, FS_AddElement
  <2> QED
    BY <1>2, <1>3, <1>4, <2>1 DEF IInv, Genuine
<1>10. Lines' /\ Unfinished'
  BY <1>2 DEF IInv, Lines, OneLine, Unfinished
<1>11. Writers'
  <2>1. p \notin Writing'
    BY <1>6 DEF Writing
  <2>2. \A q \in Writing' \ {p} :
          /\ q \in Writing /\ proc'[q] = proc[q] /\ proc[q].pc = "append"
          /\ Sound(proc'[q].rec, made') /\ proc'[q].rec \notin acked'
          /\ proc'[q].rec \notin Stored'
          /\ \A x \in Writing \ {q} : proc[x].rec.id # proc[q].rec.id
    <3>1. \A q \in Writing \ {p} : proc[q].rec # rec
      BY <1>3
    <3> QED
      BY <1>2, <1>4, <1>6, <3>1, OthersKeep
  <2> QED
    BY <2>1, <2>2 DEF Writers
<1>12. Copies'
  BY <1>7 DEF Copies
<1>13. Debts'
  <2>1. ~Spoiling'
    BY <1>2 DEF Spoiling
  <2>2. IsFiniteSet(Lost) /\ Cardinality(Lost) \in Nat /\ crashes \in Nat
    BY Ledger, RejectionBounds DEF IInv, TypeOK
  <2>3. CASE Last = <<rec>>
    <3>1. rec \in Stored
      <4>1. file \in Files /\ file # <<>> /\ Stored = Good(file)
        BY <1>3, Ledger DEF IInv, Unfinished
      <4>2. Len(file) \in DOMAIN file
        BY <4>1 DEF Files
      <4> QED
        BY <1>3, <2>3, <4>1, <4>2 DEF Good, Last
    <3>2. Lost' = Lost
      BY <1>2, <1>4, <3>1 DEF Lost
    <3> QED
      BY <1>2, <2>1, <3>2 DEF IInv, Debts
  <2>4. CASE Len(Last) >= 2
    <3>1. Spoiling
      BY <1>3, <2>4 DEF Spoiling
    <3>2. Cardinality(Lost) + 1 <= crashes
      BY <3>1 DEF IInv, Debts
    <3>3. Lost' \in SUBSET (Lost \union {rec})
      BY <1>2, <1>4 DEF Lost
    <3>4. /\ IsFiniteSet(Lost \union {rec})
          /\ Cardinality(Lost \union {rec}) = (IF rec \in Lost THEN Cardinality(Lost) ELSE Cardinality(Lost) + 1)
      BY <2>2, FS_AddElement
    <3>5. IsFiniteSet(Lost') /\ Cardinality(Lost') <= Cardinality(Lost \union {rec})
      BY <3>3, <3>4, FS_Subset
    <3>6. Cardinality(Lost') \in Nat
      BY <3>5, FS_CardinalityType
    <3>7. Cardinality(Lost') <= crashes
      BY <2>2, <3>2, <3>4, <3>5, <3>6
    <3> QED
      BY <1>2, <2>1, <3>7 DEF Debts
  <2> QED
    BY <1>3, <2>3, <2>4
<1> QED
  BY <1>8, <1>9, <1>10, <1>11, <1>12, <1>13 DEF IInv

(* The rename of a rewrite: the ledger holds what the filter kept.         *)
LEMMA Renamed ==
  ASSUME IInv, NEW p \in Procs, Rename(p)
  PROVE  /\ file' \in Files /\ Full(file') /\ OneLine(file')
         /\ Stored' = Rng(load_all_locked(file')) /\ Stored' = Good(file')
         /\ Obeys(load_all_locked(file), load_all_locked(file'), proc[p].edit)
         /\ Stored' \subseteq Stored
         /\ Stored \ (AskedToDrop(Stored, proc[p].edit) \union Shaless(Stored, proc[p].edit))
              \subseteq Stored'
         /\ AskedToDrop(Stored, proc[p].edit) \subseteq Rec /\ Shaless(Stored, proc[p].edit) \subseteq Rec
<1> DEFINE recs == load_all_locked(file)
<1> DEFINE tmp == proc[p].tmp
<1> DEFINE edit == proc[p].edit
<1>1. proc[p].pc = "rename" /\ file' = [i \in DOMAIN tmp |-> <<tmp[i]>>]
  BY DEF Rename
<1>2. edit \in Edits /\ tmp = Filter(recs, edit)
  BY <1>1, AtHand DEF IInv, Copies
<1>3. recs \in Recs /\ Distinct(recs)
  BY Ledger
<1> HIDE DEF recs, tmp, edit
<1>4. tmp \in Recs /\ Distinct(tmp) /\ Obeys(recs, tmp, edit)
  BY <1>2, <1>3, FilterObeys
<1>5. file' \in Files /\ Full(file') /\ Good(file') = Rng(tmp) /\ OneLine(file')
  BY <1>1, <1>4, RewrittenIs
<1>6. Rng(load_all_locked(file')) = Rng(tmp)
  BY <1>5, LoadIs
<1>7. Stored' = Rng(tmp) /\ Stored' = Rng(load_all_locked(file')) /\ Stored = Rng(recs)
  BY <1>6 DEF Stored, recs
<1>8. AskedToDrop(Stored, edit) \subseteq Rec /\ Shaless(Stored, edit) \subseteq Rec
  <2>1. AskedToDrop(Stored, edit) \subseteq Stored /\ Shaless(Stored, edit) \subseteq Stored
    BY DEF AskedToDrop, Shaless
  <2>2. Stored \subseteq Rec
    BY <1>3, <1>7 DEF Rng, Recs
  <2> QED
    BY <2>1, <2>2
<1>9. Obeys(recs, load_all_locked(file'), edit)
  BY <1>4, <1>6 DEF Obeys
<1>10. Stored \ (AskedToDrop(Stored, edit) \union Shaless(Stored, edit)) \subseteq Stored'
  <2>1. Rest(recs, edit) = Stored \ Shaless(Stored, edit)
    BY <1>7 DEF Rest
  <2>2. AskedToDrop(Rest(recs, edit), edit) \subseteq AskedToDrop(Stored, edit)
    <3>1. IsFiniteSet(Stored) /\ Rest(recs, edit) \in SUBSET Stored
      BY <1>3, <1>7, <2>1, RngIsFinite
    <3> QED
      BY <1>2, <3>1, MoreIsAsked
  <2>3. Rest(recs, edit) \ AskedToDrop(Rest(recs, edit), edit) \subseteq Stored'
    BY <1>4, <1>7 DEF Obeys
  <2> QED
    BY <2>1, <2>2, <2>3
<1>11. Stored' \subseteq Stored
  BY <1>4, <1>7 DEF Obeys
<1> QED
  BY <1>5, <1>7, <1>8, <1>9, <1>10, <1>11 DEF recs, edit

LEMMA RenameKeeps ==
  ASSUME IInv, NEW p \in Procs, Rename(p) PROVE IInv'
<1>1. PICK asked, stray : /\ asked = AskedToDrop(Stored, proc[p].edit)
                          /\ stray = Shaless(Stored, proc[p].edit)
  OBVIOUS
<1>2. /\ proc[p].pc = "rename" /\ ended' = TRUE /\ lock' = None /\ dropped' = dropped \union asked
      /\ strays' = strays \union stray
      /\ UNCHANGED <<clock, made, edits, crashes, acked>>
      /\ proc' = [proc EXCEPT ![p] = Idle]
  BY <1>1 DEF Rename
<1>3. /\ file' \in Files /\ Full(file') /\ OneLine(file')
      /\ Stored' \subseteq Stored /\ Stored \ (asked \union stray) \subseteq Stored'
      /\ asked \subseteq Rec /\ stray \subseteq Rec
  BY <1>1, Renamed
<1>4. Idle \in Commands /\ Idle.pc = "idle"
  BY NextCommands
<1>5. /\ proc' \in [Procs -> Commands] /\ proc'[p].pc = "idle"
      /\ \A q \in Procs \ {p} : proc'[q] = proc[q]
  BY <1>2, <1>4 DEF IInv, TypeOK
<1>6. \A q \in Procs : proc'[q].pc \notin {"text", "rename"}
  BY <1>2, <1>5, Alone
<1>7. TypeOK'
  <2>1. /\ file' \in Seq(Seq(Rec \union {Cut, Torn})) /\ ended' \in BOOLEAN
        /\ lock' \in Procs \union {None} /\ dropped' \subseteq Rec /\ strays' \subseteq Rec
    BY <1>2, <1>3 DEF Files, Writs, IInv, TypeOK
  <2> QED
    BY <1>2, <1>5, <1>6, <2>1 DEF IInv, TypeOK
<1>8. Genuine'
  BY <1>2, <1>3 DEF IInv, Genuine
<1>9. Lines' /\ Unfinished'
  BY <1>2, <1>3 DEF Lines, OneLine, Full, Unfinished
<1>10. Writers'
  <2>1. p \notin Writing' /\ p \notin Writing
    BY <1>2, <1>5 DEF Writing
  <2>2. \A q \in Writing' : q \in Writing /\ proc'[q] = proc[q] /\ proc'[q].pc # "text"
    BY <1>5, <1>6, <2>1 DEF Writing
  <2> QED
    BY <1>2, <1>3, <2>2 DEF IInv, Writers
<1>11. Copies'
  BY <1>6 DEF Copies
<1>12. Debts'
  <2>1. Lost' \in SUBSET Lost
    BY <1>2, <1>3 DEF Lost
  <2>2. IsFiniteSet(Lost) /\ Cardinality(Lost) \in Nat /\ crashes \in Nat
    BY Ledger, RejectionBounds DEF IInv, TypeOK
  <2>3. IsFiniteSet(Lost') /\ Cardinality(Lost') <= Cardinality(Lost)
    BY <2>1, <2>2, FS_Subset
  <2>4. Cardinality(Lost') \in Nat
    BY <2>3, FS_CardinalityType
  <2>5. Cardinality(Lost) <= crashes /\ ~Spoiling'
    BY <1>2 DEF IInv, Debts, Spoiling
  <2>6. Cardinality(Lost') <= crashes
    BY <2>2, <2>3, <2>4, <2>5
  <2> QED
    BY <1>2, <2>5, <2>6 DEF Debts
<1> QED
  BY <1>7, <1>8, <1>9, <1>10, <1>11, <1>12 DEF IInv

LEMMA InitHolds == Init => IInv
<1> SUFFICES ASSUME Init PROVE IInv
  OBVIOUS
<1>1. /\ file = <<>> /\ ended = TRUE /\ lock = None /\ proc = [p \in Procs |-> Idle]
      /\ clock = 0 /\ made = 0 /\ edits = 0 /\ crashes = 0 /\ acked = {} /\ dropped = {} /\ strays = {}
  BY DEF Init
<1>2. file \in Files /\ DOMAIN file = {}
  BY <1>1 DEF Files
<1>3. Stored = {}
  BY <1>2, LoadIs DEF Stored, Good
<1>4. Idle \in Commands /\ Idle.pc = "idle"
  BY NextCommands
<1>5. proc \in [Procs -> Commands] /\ \A p \in Procs : proc[p].pc = "idle"
  BY <1>1, <1>4
<1>6. TypeOK
  <2>1. file \in Seq(Seq(Rec \union {Cut, Torn}))
    BY <1>2 DEF Files, Writs
  <2> QED
    BY <1>1, <1>5, <2>1, RejectionBounds DEF TypeOK
<1>7. Genuine /\ Lines /\ Writers /\ Unfinished /\ Copies
  BY <1>1, <1>2, <1>3, <1>5, FS_EmptySet
     DEF Genuine, Lines, OneLine, Writers, Writing, Unfinished, Copies
<1>8. Debts
  <2>1. Lost = {} /\ ~Spoiling
    BY <1>1 DEF Lost, Spoiling
  <2>2. Cardinality(Lost) = 0
    BY <2>1, FS_EmptySet
  <2> QED
    BY <1>1, <2>1, <2>2 DEF Debts
<1> QED
  BY <1>6, <1>7, <1>8 DEF IInv

LEMMA NextKeeps ==
  ASSUME IInv, [Next]_vars PROVE IInv'
<1>1. CASE Tick
  BY <1>1, TickKeeps
<1>2. ASSUME NEW p \in Procs,
             \/ AppendCommand(p) \/ TrimCommand(p) \/ RemoveCommand(p)
             \/ Step(p) \/ AppendCut(p) \/ Crash(p)
      PROVE  IInv'
  BY <1>2, AppendCommandKeeps, TrimCommandKeeps, RemoveCommandKeeps, AppendTextKeeps,
     AppendLineEndKeeps, WriteTmpKeeps, LoadFailsKeeps, RenameKeeps, AppendCutKeeps, CrashKeeps DEF Step
<1>3. CASE UNCHANGED vars
  <2>1. /\ UNCHANGED <<file, ended, lock, proc, clock, made, edits, crashes, acked, dropped, strays>>
    BY <1>3 DEF vars
  <2> QED
    BY <2>1 DEF IInv, TypeOK, Genuine, Sound, Lines, OneLine, Writers, Writing, Unfinished, Copies,
                Debts, Lost, Spoiling, Stored, Last
<1> QED
  BY <1>1, <1>2, <1>3 DEF Next

(* The inductive invariant holds in every state: a record is written once  *)
(* and under the lock, and each record that an open line will spoil was    *)
(* paid for by a kill.                                                     *)
THEOREM RejectionsInvariant == Spec => []IInv
<1>1. IInv /\ [Next]_vars => IInv'
  BY NextKeeps
<1> QED
  BY InitHolds, <1>1, PTL DEF Spec

(* The ledger, the lock and the commands keep their types, and who is in   *)
(* the middle of a write (append_locked, rewrite_locked) holds the lock.   *)
THEOREM RejectionTypes == Spec => []TypeOK
<1>1. IInv => TypeOK
  BY DEF IInv
<1> QED
  BY <1>1, RejectionsInvariant, PTL

(* However appends, probes, trims, removes, kills and failing loads        *)
(* interleave, at most one acknowledged record per kill or failed write is *)
(* gone from the file that no trim or remove was asked to drop, the        *)
(* records without a sha aside that a --before-sha met.                    *)
THEOREM LossStaysBounded == Spec => []LossIsBounded
<1>1. IInv => LossIsBounded
  BY DEF IInv, Debts, Lost, LossIsBounded
<1> QED
  BY <1>1, RejectionsInvariant, PTL

(* Families that agree in what compute_fingerprint looks at have one       *)
(* fingerprint, whatever it prints; a broad one is not specific enough.    *)
LEMMA SameFingerprint ==
  ASSUME NEW a \in Asks, NEW b \in Asks
  PROVE  /\ Same(a, b) => compute_fingerprint(a) = compute_fingerprint(b)
         /\ Same(a, b) /\ fingerprint_specific_enough(a) => fingerprint_specific_enough(b)
         /\ Broad(a) => ~fingerprint_specific_enough(a)
<1>1. /\ a.contract \in Spelling \union {None} /\ b.contract \in Spelling \union {None}
  BY SpellingAssumption
<1> DEFINE Spans(x) == {span.text : span \in Rng(x.spans)} \ {Blank}
<1> DEFINE HasContract(x) == x.contract # None /\ x.contract.text # Blank
<1>2. \A x : canonical_spans(x.spans) = Spans(x)
  BY DEF canonical_spans
<1>3. ASSUME NEW x \in {a, b}
      PROVE  /\ HasContract(x) => canonical_contract(x.contract) = x.contract /\ x.contract # None
             /\ ~HasContract(x) => canonical_contract(x.contract) = None
  BY <1>1 DEF canonical_contract
<1>4. \A x : (\E i \in DOMAIN x.spans : x.spans[i].text # Blank) <=> Spans(x) # {}
  BY DEF Rng
<1>5. Same(a, b) <=> /\ a.lens = b.lens /\ a.kind = b.kind /\ Spans(a) = Spans(b)
                     /\ HasContract(a) = HasContract(b)
                     /\ HasContract(a) => a.contract = b.contract
  BY DEF Same
<1>6. Broad(a) => Spans(a) = {} /\ ~HasContract(a)
  BY DEF Broad
<1>7. \A x : fingerprint_specific_enough(x) <=> Spans(x) # {} \/ canonical_contract(x.contract) # None
  BY <1>4 DEF fingerprint_specific_enough
<1> HIDE DEF Spans, HasContract
<1>8. ASSUME Same(a, b)
      PROVE  /\ canonical_spans(a.spans) = canonical_spans(b.spans)
             /\ canonical_contract(a.contract) = canonical_contract(b.contract)
             /\ a.lens = b.lens /\ a.kind = b.kind
  BY <1>2, <1>3, <1>5, <1>8
<1>9. Same(a, b) => compute_fingerprint(a) = compute_fingerprint(b)
  BY <1>8 DEF compute_fingerprint
<1> QED
  BY <1>2, <1>3, <1>5, <1>6, <1>7, <1>8, <1>9

(* A probe of a legible file finds every acknowledged rejection on it that *)
(* agrees in lens, kind, trimmed spans and contract as written, and        *)
(* nothing that is not on the file; a probe without a span or contract     *)
(* finds nothing.                                                          *)
THEOREM ProbesFindRejections == Spec => []ProbeFindsRejections
<1>1. ASSUME IInv PROVE ProbeFindsRejections
  <2> SUFFICES ASSUME NEW ask \in Asks
               PROVE  /\ {r \in acked \intersect Loadable : Same(r.ask, ask)} \subseteq Rng(probe(file, ask))
                      /\ Rng(probe(file, ask)) \subseteq Loadable
                      /\ Broad(ask) => Rng(probe(file, ask)) = {}
    BY DEF ProbeFindsRejections
  <2> DEFINE recs == load_all_locked(file)
  <2>1. recs \in Recs /\ Stored = Rng(recs)
    BY <1>1, Ledger DEF Stored
  <2>2. \A r \in Stored : /\ r.ask \in Asks
                          /\ r.fingerprint = compute_fingerprint(r.ask)
                          /\ fingerprint_specific_enough(r.ask)
    <3>1. Stored \subseteq Rec
      BY <2>1 DEF Rng, Recs
    <3> QED
      BY <1>1, <3>1 DEF IInv, Genuine, Sound, Rec
  <2>3. CASE ~(fingerprint_specific_enough(ask) /\ Legible(file))
    <3>1. Rng(probe(file, ask)) = {}
      BY <2>3 DEF probe, Rng
    <3>2. \A r \in Loadable : ~Same(r.ask, ask)
      <4>1. ASSUME NEW r \in Loadable, Same(r.ask, ask) PROVE FALSE
        <5>1. Legible(file) /\ r \in Stored
          BY <4>1 DEF Loadable
        <5> QED
          BY <2>2, <2>3, <4>1, <5>1, SameFingerprint
      <4> QED
        BY <4>1
    <3> QED
      BY <3>1, <3>2
  <2>4. CASE fingerprint_specific_enough(ask) /\ Legible(file)
    <3> DEFINE keep == {i \in DOMAIN recs : recs[i].fingerprint = compute_fingerprint(ask)}
    <3>1. probe(file, ask) = Pick(recs, keep)
      BY <2>4 DEF probe, by_fingerprint
    <3> HIDE DEF recs
    <3>2. Rng(Pick(recs, keep)) = {recs[i] : i \in keep}
      BY <2>1, PickIs DEF Recs
    <3>3. Rng(probe(file, ask)) = {r \in Stored : r.fingerprint = compute_fingerprint(ask)}
      BY <2>1, <3>1, <3>2 DEF Rng
    <3>4. \A r \in Stored : Same(r.ask, ask) => r.fingerprint = compute_fingerprint(ask)
      BY <2>2, SameFingerprint
    <3>5. Loadable = Stored /\ ~Broad(ask)
      BY <2>4, SameFingerprint DEF Loadable
    <3> QED
      BY <3>3, <3>4, <3>5
  <2> QED
    BY <2>3, <2>4
<1> QED
  BY <1>1, RejectionsInvariant, PTL

(* Of the records that the help of --before-sha and the code agree about,  *)
(* a rewrite (load_filter_and_rewrite) keeps every one its edit did not    *)
(* ask to drop and drops every one that it asked to drop and that has no   *)
(* rival of its time; it adds none.                                        *)
THEOREM RewritesDropWhatWasAsked == Spec => RewriteDropsWhatWasAsked
<1> DEFINE A == \A p \in Procs : proc[p].pc = "rename" /\ file' # file =>
       LET rest == Stored \ Shaless(Stored, proc[p].edit)
           asked == AskedToDrop(rest, proc[p].edit)
       IN  /\ rest \ asked \subseteq Stored'
           /\ Stored' \subseteq Stored
           /\ {r \in asked : \A s \in Stored \ {r} : s.ts # r.ts} \intersect Stored' = {}
<1>1. ASSUME IInv, [Next]_vars PROVE [A]_vars
  <2> SUFFICES ASSUME NEW p \in Procs, proc[p].pc = "rename", file' # file
               PROVE  Obeys(load_all_locked(file), load_all_locked(file'), proc[p].edit)
    BY DEF Obeys, Rest, Stored
  <2>1. lock = p /\ lock # None
    BY <1>1, NoneAssumption DEF IInv, TypeOK
  <2>2. PICK q \in Procs : Rename(q)
    BY <1>1, <2>1 DEF Next, vars, Step, Tick, AppendCommand, TrimCommand, RemoveCommand, AppendText,
                      AppendLineEnd, WriteTmp, LoadFails, AppendCut, Crash
  <2>3. q = p
    BY <1>1, <2>1, <2>2 DEF Rename, IInv, TypeOK
  <2> QED
    BY <1>1, <2>2, <2>3, Renamed
<1>2. []IInv /\ [][Next]_vars => [][A]_vars
  BY <1>1, PTL
<1> QED
  BY RejectionsInvariant, <1>2, PTL DEF Spec, RewriteDropsWhatWasAsked
=============================================================================
