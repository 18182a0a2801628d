---------------------------- MODULE LedgerProofs ----------------------------
(***************************************************************************)
(* Theorems about the operator repository of Operator: its ledger, its     *)
(* session branches and origin.  First what appending, pushing and         *)
(* rebasing do to ledgers as such, then the steps that do these things.    *)
(***************************************************************************)
EXTENDS WorkspaceProofs

USE WorkspaceAssumption

Branches == [Sessions -> Versions \cup {None}]

-----------------------------------------------------------------------------
(* Ledgers as such.                                                        *)

(* The archived sessions are those with a readable line.                   *)
LEMMA ArchivedIds ==
  ASSUME NEW l \in Seq(Line), NEW s \in Sessions
  PROVE  s \in read_archived_ids(l) <=> \E i \in ReadLines(l) : l[i].id = s
  BY DEF read_archived_ids, ReadLines, OwnLines

(* What origin's ledger says of this machine, any ledger here says too.    *)
LEMMA ForkReads ==
  ASSUME NEW l \in Seq(Line), NEW m \in Seq(Line), NEW n \in 0..Len(l), Forked(l, m, n),
         LastEnded(m), NEW i \in ReadLines(m)
  PROVE  i <= n /\ i \in ReadLines(l) /\ l[i] = m[i]
<1>1. i \in 1..Len(m) /\ m[i].id \in Sessions /\ Readable(m, i)
  BY DEF ReadLines, OwnLines
<1>2. i \in 1..n
  BY <1>1 DEF Forked
<1>3. l[i] = m[i] /\ i \in 1..Len(l) /\ (i # 1 => l[i-1] = m[i-1])
  BY <1>2 DEF Forked
<1>4. m[i].end
  BY <1>1 DEF Readable, LastEnded
<1>5. Readable(l, i)
  BY <1>1, <1>3, <1>4 DEF Readable
<1> QED
  BY <1>1, <1>2, <1>3, <1>5 DEF ReadLines, OwnLines

(* A session that origin's ledger lists, the one here lists.               *)
LEMMA OriginsIdsAreHere ==
  ASSUME NEW l \in Seq(Line), NEW m \in Seq(Line), NEW theirs, NEW ours,
         Sound(l, m, theirs, ours), LastEnded(m),
         NEW s \in Sessions, s \in read_archived_ids(m)
  PROVE  s \in read_archived_ids(l)
<1>1. PICK i \in ReadLines(m) : m[i].id = s
  BY ArchivedIds
<1>2. PICK n \in 0..Len(l) : Forked(l, m, n)
  BY DEF Sound
<1>3. i \in ReadLines(l) /\ l[i] = m[i]
  BY <1>2, ForkReads
<1> QED
  BY <1>1, <1>3, ArchivedIds

(* A line that cannot be doubted may be appended here.                     *)
LEMMA AppendOwnLine ==
  ASSUME NEW l \in Seq(Line), NEW m \in Seq(Line), NEW theirs, NEW ours,
         Sound(l, m, theirs, ours), NEW x \in Line, x.id \in Sessions,
         x.id \notin read_archived_ids(l), ~x.dry => theirs[x.id] = x.sha, ours[x.id] \in Nat
  PROVE  Append(l, x) \in Seq(Line) /\ Sound(Append(l, x), m, theirs, ours)
<1> DEFINE L == Append(l, x)
<1>1. L \in Seq(Line) /\ Len(L) = Len(l) + 1 /\ L[Len(L)] = x /\ \A i \in 1..Len(l) : L[i] = l[i]
  OBVIOUS
<1>2. Len(l) \in Nat /\ DOMAIN l = 1..Len(l) /\ DOMAIN L = 1..Len(L)
  BY <1>1
<1> HIDE DEF L
<1>0. \A i \in ReadLines(l) : l[i].id # x.id
  BY ArchivedIds
<1>3. ASSUME NEW i \in ReadLines(L)
      PROVE  \/ i \in ReadLines(l) /\ L[i] = l[i] /\ L[i].id # x.id
             \/ i = Len(L) /\ L[i] = x
  <2>1. i \in 1..Len(L) /\ L[i].id \in Sessions /\ Readable(L, i)
    BY <1>2, <1>3 DEF ReadLines, OwnLines
  <2>2. CASE i = Len(L)
    BY <1>1, <2>2
  <2>3. CASE i # Len(L)
    <3>1. i \in 1..Len(l) /\ L[i] = l[i] /\ (i # 1 => L[i-1] = l[i-1])
      <4>1. i \in 1..Len(l) /\ (i # 1 => i - 1 \in 1..Len(l))
        BY <1>1, <1>2, <2>1, <2>3
      <4> QED
        BY <1>1, <4>1
    <3>2. Readable(l, i)
      BY <2>1, <2>3, <3>1 DEF Readable
    <3>3. i \in ReadLines(l)
      BY <1>2, <2>1, <3>1, <3>2 DEF ReadLines, OwnLines
    <3> QED
      BY <1>0, <3>1, <3>3
  <2> QED
    BY <2>2, <2>3
<1>4. Once(L)
  BY <1>3 DEF Once, Sound
<1>5. Backed(L, theirs)
  BY <1>3 DEF Backed, Sound
<1>6. Branched(L, ours)
  <2> SUFFICES ASSUME NEW i \in OwnLines(L) PROVE ours[L[i].id] \in Nat
    BY DEF Branched
  <2>1. i = Len(L) \/ (i \in 1..Len(l) /\ L[i] = l[i])
    BY <1>1, <1>2 DEF OwnLines
  <2> QED
    BY <1>1, <1>2, <2>1 DEF OwnLines, Sound, Branched
<1>7. PICK n \in 0..Len(l) : Forked(l, m, n)
  BY DEF Sound
<1>8. Forked(L, m, n) /\ n \in 0..Len(L)
  <2>1. ASSUME NEW i \in (n+1)..Len(L) PROVE L[i].id \in Sessions
    <3>1. i = Len(L) \/ (i \in (n+1)..Len(l) /\ L[i] = l[i])
      BY <1>1, <1>2
    <3> QED
      BY <1>1, <1>7, <3>1 DEF Forked
  <2> QED
    BY <1>1, <1>2, <1>7, <2>1 DEF Forked
<1> QED
  BY <1>1, <1>4, <1>5, <1>6, <1>8 DEF Sound, L

(* A peer's line may be appended to origin's ledger.                       *)
LEMMA AppendPeerLine ==
  ASSUME NEW l \in Seq(Line), NEW m \in Seq(Line), NEW theirs, NEW ours, LastEnded(m),
         NEW y \in Line, y.id \notin Sessions, y.end
  PROVE  /\ LastEnded(Append(m, y))
         /\ Sound(l, m, theirs, ours) => Sound(l, Append(m, y), theirs, ours)
         /\ Sound(m, m, theirs, ours) => Sound(Append(m, y), Append(m, y), theirs, ours)
<1> DEFINE M == Append(m, y)
<1>1. M \in Seq(Line) /\ Len(M) = Len(m) + 1 /\ M[Len(M)] = y /\ \A i \in 1..Len(m) : M[i] = m[i]
  OBVIOUS
<1>2. Len(m) \in Nat /\ Len(l) \in Nat /\ DOMAIN m = 1..Len(m) /\ DOMAIN M = 1..Len(M)
  BY <1>1
<1> HIDE DEF M
<1>3. LastEnded(M)
  BY <1>1 DEF LastEnded
<1>4. ASSUME Sound(l, m, theirs, ours) PROVE Sound(l, M, theirs, ours)
  <2>1. PICK n \in 0..Len(l) : Forked(l, m, n)
    BY <1>4 DEF Sound
  <2>2. ASSUME NEW i \in (n+1)..Len(M) PROVE M[i].id \notin Sessions
    <3>1. i = Len(M) \/ (i \in (n+1)..Len(m) /\ M[i] = m[i])
      BY <1>1, <1>2
    <3> QED
      BY <1>1, <2>1, <3>1 DEF Forked
  <2>3. ASSUME NEW i \in 1..Len(M), i >= n PROVE M[i].end
    <3>1. CASE i = Len(M)
      BY <1>1, <3>1
    <3>2. CASE i # Len(M)
      <4>1. i \in 1..Len(m) /\ M[i] = m[i]
        BY <1>1, <1>2, <3>2
      <4>2. m # <<>>
        BY <4>1
      <4>3. n < Len(m) \/ i = Len(m)
        <5>1. n \in 0..Len(m)
          BY <1>2, <2>1 DEF Forked
        <5>2. i \in Int /\ n \in Int /\ Len(m) \in Nat
          BY <1>2
        <5>3. i >= n
          BY <2>3
        <5>4. i \in n..Len(m)
          BY <4>1, <5>2, <5>3
        <5>5. n = Len(m) => i = Len(m)
          BY <5>2, <5>4
        <5> QED
          BY <5>1, <5>2, <5>5
      <4> QED
        BY <2>1, <2>3, <4>1, <4>2, <4>3 DEF Forked, LastEnded
    <3> QED
      BY <3>1, <3>2
  <2>4. Forked(l, M, n)
    BY <1>1, <1>2, <2>1, <2>2, <2>3 DEF Forked
  <2> QED
    BY <1>4, <2>4 DEF Sound
<1>5. ASSUME Sound(m, m, theirs, ours) PROVE Sound(M, M, theirs, ours)
  <2>1. ASSUME NEW i \in OwnLines(M) PROVE i \in OwnLines(m) /\ M[i] = m[i]
    <3>1. i = Len(M) \/ (i \in 1..Len(m) /\ M[i] = m[i])
      BY <1>1, <1>2, <2>1 DEF OwnLines
    <3> QED
      BY <1>1, <1>2, <2>1, <3>1 DEF OwnLines
  <2>2. ASSUME NEW i \in ReadLines(M) PROVE i \in ReadLines(m) /\ M[i] = m[i]
    <3>1. i \in OwnLines(m) /\ M[i] = m[i] /\ i \in 1..Len(m) /\ Readable(M, i)
      BY <1>2, <2>1, <2>2 DEF ReadLines, OwnLines
    <3>2. i # 1 => M[i-1] = m[i-1]
      BY <1>1, <1>2, <3>1
    <3>3. i # Len(M)
      BY <1>1, <1>2, <3>1
    <3>4. Readable(m, i)
      BY <3>1, <3>2, <3>3 DEF Readable
    <3> QED
      BY <3>1, <3>4 DEF ReadLines
  <2>3. Once(M)
    BY <1>5, <2>2 DEF Once, Sound
  <2>4. Backed(M, theirs) /\ Branched(M, ours)
    BY <1>5, <2>1, <2>2 DEF Backed, Branched, Sound
  <2>5. Forked(M, M, Len(M)) /\ Len(M) \in 0..Len(M)
    BY <1>1, <1>2 DEF Forked
  <2> QED
    BY <2>3, <2>4, <2>5 DEF Sound
<1> QED
  BY <1>3, <1>4, <1>5 DEF M

(* A ledger that is pushed is origin's.                                    *)
LEMMA PushedIsSound ==
  ASSUME NEW l \in Seq(Line), NEW m, NEW theirs, NEW ours, Sound(l, m, theirs, ours)
  PROVE  Sound(l, l, theirs, ours)
<1>1. Forked(l, l, Len(l)) /\ Len(l) \in 0..Len(l)
  BY DEF Forked
<1> QED
  BY <1>1 DEF Sound

(* Branches of sessions without a line may change.                         *)
LEMMA BranchesMayMove ==
  ASSUME NEW l \in Seq(Line), NEW m \in Seq(Line), NEW theirs, NEW ours, NEW their2, NEW our2,
         Sound(l, m, theirs, ours),
         \A s \in Sessions : ours[s] \in Nat => our2[s] \in Nat,
         \A s \in Sessions : s \in read_archived_ids(l) => their2[s] = theirs[s]
  PROVE  Sound(l, m, their2, our2)
<1>1. Branched(l, our2)
  BY DEF Sound, Branched, OwnLines
<1>2. Backed(l, their2)
  <2> SUFFICES ASSUME NEW i \in ReadLines(l), ~l[i].dry PROVE their2[l[i].id] = l[i].sha
    BY DEF Backed
  <2>1. l[i].id \in Sessions
    BY DEF ReadLines, OwnLines
  <2>2. l[i].id \in read_archived_ids(l)
    BY <2>1, ArchivedIds
  <2> QED
    BY <2>1, <2>2 DEF Sound, Backed
<1> QED
  BY <1>1, <1>2 DEF Sound

(* The common beginning of two ledgers is as long as can be.               *)
LEMMA AgreeIsMaximal ==
  ASSUME NEW l \in Seq(Line), NEW m \in Seq(Line)
  PROVE  LET n == Agree(l, m) IN
         /\ n \in 0..Len(l) /\ n \in 0..Len(m) /\ \A i \in 1..n : l[i] = m[i]
         /\ n < Len(l) /\ n < Len(m) => l[n+1] # m[n+1]
<1> DEFINE a == Len(l)
           b == Len(m)
           S == {k \in 0..a : k = a \/ k = b \/ l[k+1] # m[k+1]}
           R == OpToRel(<, Nat)
           Good(n) == /\ n <= b /\ \A i \in 1..n : l[i] = m[i]
                      /\ n < a /\ n < b => l[n+1] # m[n+1]
<1>1. a \in Nat /\ b \in Nat
  OBVIOUS
<1> HIDE DEF a, b
<1>2. S \subseteq Nat /\ a \in S
  BY <1>1
<1>3. IsWellFoundedOn(R, Nat)
  BY NatLessThanWellFounded
<1>4. \A y, z \in Nat : y < z => <<y, z>> \in R
  BY DEF OpToRel
<1>5. PICK n \in S : \A y \in S : ~ (<<y, n>> \in R)
  <2> HIDE DEF R, S
  <2> QED
    BY <1>2, <1>3, WFMin
<1>6. \A y \in 0..a : y < n => y \notin S
  BY <1>2, <1>4, <1>5
<1>7. n \in 0..a /\ n \in 0..b
  <2>1. n \in 0..a
    BY <1>5
  <2>2. b \in 0..a => b \in S
    BY <1>1
  <2> HIDE DEF S
  <2>3. ~(b < n)
    BY <1>1, <1>6, <2>1, <2>2
  <2> QED
    BY <1>1, <2>1, <2>3
<1>8. ASSUME NEW i \in 1..n PROVE l[i] = m[i]
  <2>1. i - 1 \in 0..a /\ i - 1 < n /\ (i - 1) + 1 = i
    BY <1>1, <1>7
  <2>2. i - 1 \notin S
    BY <1>6, <2>1
  <2>3. ~(l[(i - 1) + 1] # m[(i - 1) + 1])
    BY <2>1, <2>2
  <2> QED
    BY <2>1, <2>3
<1>9. Good(n)
  <2>0. n = a \/ n = b \/ l[n+1] # m[n+1]
    BY <1>5
  <2>1. n < a /\ n < b => l[n+1] # m[n+1]
    BY <1>1, <1>7, <2>0
  <2>2. n <= b
    BY <1>1, <1>7
  <2> QED
    BY <1>8, <2>1, <2>2
<1>10. Agree(l, m) \in 0..a /\ Good(Agree(l, m))
  <2>1. Agree(l, m) = CHOOSE k \in 0..a : Good(k)
    BY DEF Agree, a, b
  <2> HIDE DEF Good
  <2> QED
    BY <1>7, <1>9, <2>1
<1>11. Agree(l, m) \in 0..b
  BY <1>1, <1>10
<1> QED
  BY <1>10, <1>11 DEF a, b

(* What a rebase writes: origin's ledger and what it did not have.         *)
Rebased(l, m) == m \o SubSeq(l, Agree(l, m) + 1, Len(l))

(* Its lines, one by one.                                                  *)
LEMMA RebasedLines ==
  ASSUME NEW l \in Seq(Line), NEW m \in Seq(Line)
  PROVE  LET n == Agree(l, m)
             t == Rebased(l, m)
         IN  /\ t \in Seq(Line) /\ Len(t) = Len(m) + (Len(l) - n)
             /\ \A i \in 1..Len(m) : t[i] = m[i]
             /\ \A i \in (Len(m) + 1)..Len(t) :
                  n + (i - Len(m)) \in (n+1)..Len(l) /\ t[i] = l[n + (i - Len(m))]
<1> DEFINE n == Agree(l, m)
           r == SubSeq(l, n + 1, Len(l))
           t == m \o r
<1>1. n \in 0..Len(l)
  BY AgreeIsMaximal
<1> HIDE DEF n
<1>2. Len(l) \in Nat /\ Len(m) \in Nat
  OBVIOUS
<1>3. /\ r \in Seq(Line) /\ Len(r) = Len(l) - n
      /\ \A i \in 1..(Len(l) - n) : r[i] = l[n + i]
  <2>1. n + 1 \in 1..(Len(l) + 1) /\ Len(l) \in (n + 1) - 1..Len(l)
    BY <1>1, <1>2
  <2> QED
    BY <2>1, <1>1, <1>2, SubSeqProperties
<1> HIDE DEF r
<1>4. t \in Seq(Line) /\ Len(t) = Len(m) + Len(r) /\ \A i \in 1..Len(m) : t[i] = m[i]
  <2>1. r \in Seq(Line) /\ m \in Seq(Line)
    BY <1>3
  <2>2. t \in Seq(Line) /\ Len(t) = Len(m) + Len(r)
    BY <2>1
  <2>3. \A i \in 1..Len(m) : t[i] = m[i]
    BY <2>1
  <2> QED
    BY <2>2, <2>3
<1>5. \A i \in (Len(m) + 1)..Len(t) : t[i] = r[i - Len(m)]
  BY <1>3, <1>4
<1>6. \A i \in (Len(m) + 1)..Len(t) :
        n + (i - Len(m)) \in (n+1)..Len(l) /\ i - Len(m) \in 1..(Len(l) - n)
  BY <1>1, <1>2, <1>3, <1>4
<1> HIDE DEF t
<1>7. \A i \in (Len(m) + 1)..Len(t) : t[i] = l[n + (i - Len(m))]
  BY <1>3, <1>5, <1>6
<1>8. t = Rebased(l, m)
  BY DEF t, r, n, Rebased
<1> QED
  BY <1>3, <1>4, <1>6, <1>7, <1>8 DEF n

(* When one side begins with the other, the longer one is the result.      *)
LEMMA FastForward ==
  ASSUME NEW l \in Seq(Line), NEW m \in Seq(Line),
         l = m \/ IsAPrefix(m, l) \/ IsAPrefix(l, m)
  PROVE  \/ Rebased(l, m) = l /\ Len(m) <= Len(l)
         \/ Rebased(l, m) = m /\ Len(l) <= Len(m)
<1> DEFINE n == Agree(l, m)
           t == Rebased(l, m)
<1>1. /\ n \in 0..Len(l) /\ n \in 0..Len(m) /\ \A i \in 1..n : l[i] = m[i]
      /\ n < Len(l) /\ n < Len(m) => l[n+1] # m[n+1]
  BY AgreeIsMaximal
<1>2. /\ t \in Seq(Line) /\ Len(t) = Len(m) + (Len(l) - n)
      /\ \A i \in 1..Len(m) : t[i] = m[i]
      /\ \A i \in (Len(m) + 1)..Len(t) : t[i] = l[n + (i - Len(m))]
  BY RebasedLines
<1>3. Len(l) \in Nat /\ Len(m) \in Nat
  OBVIOUS
<1> HIDE DEF n, t
<1>4. CASE Len(m) <= Len(l)
  <2>1. \A i \in 1..Len(m) : l[i] = m[i]
    BY <1>3, <1>4 DEF IsAPrefix
  <2>2. n = Len(m)
    <3>1. SUFFICES ASSUME n # Len(m) PROVE FALSE
      OBVIOUS
    <3>2. n < Len(l) /\ n < Len(m) /\ n + 1 \in 1..Len(m)
      BY <1>1, <1>3, <1>4, <3>1
    <3> QED
      BY <1>1, <2>1, <3>2
  <2>3. Len(t) = Len(l)
    BY <1>2, <1>3, <2>2
  <2>4. ASSUME NEW i \in 1..Len(l) PROVE t[i] = l[i]
    <3>1. CASE i \in 1..Len(m)
      BY <1>2, <2>1, <3>1
    <3>2. CASE i \notin 1..Len(m)
      <4>1. i \in (Len(m) + 1)..Len(t) /\ n + (i - Len(m)) = i
        BY <1>3, <2>2, <2>3, <3>2
      <4> QED
        BY <1>2, <4>1
    <3> QED
      BY <3>1, <3>2
  <2>5. t = l
    BY <1>2, <2>3, <2>4, SeqEqual
  <2> QED
    BY <1>4, <2>5 DEF t
<1>5. CASE ~(Len(m) <= Len(l))
  <2>1. Len(l) <= Len(m) /\ \A i \in 1..Len(l) : l[i] = m[i]
    BY <1>3, <1>5 DEF IsAPrefix
  <2>2. n = Len(l)
    <3>1. SUFFICES ASSUME n # Len(l) PROVE FALSE
      OBVIOUS
    <3>2. n < Len(l) /\ n < Len(m) /\ n + 1 \in 1..Len(l)
      BY <1>1, <1>3, <1>5, <3>1
    <3> QED
      BY <1>1, <2>1, <3>2
  <2>3. Len(t) = Len(m)
    BY <1>2, <1>3, <2>2
  <2>4. t = m
    BY <1>2, <2>3, SeqEqual
  <2> QED
    BY <2>1, <2>4 DEF t
<1> QED
  BY <1>4, <1>5

(* The two sides in one file, as a rebase in conflict leaves them, are a   *)
(* sound ledger nevertheless: what both sides say begins both, and origin's *)
(* lines after that end, so that no record of this side is lost to them.   *)
LEMMA ConflictIsSound ==
  ASSUME NEW l \in Seq(Line), NEW m \in Seq(Line), NEW theirs, NEW ours,
         Sound(l, m, theirs, ours), Sound(m, m, theirs, ours), LastEnded(m), ~IsAPrefix(m, l)
  PROVE  Sound(Rebased(l, m), m, theirs, ours)
<1> DEFINE n == Agree(l, m)
           t == Rebased(l, m)
           At0(i) == n + (i - Len(m))
<1>1. /\ n \in 0..Len(l) /\ n \in 0..Len(m) /\ \A i \in 1..n : l[i] = m[i]
      /\ n < Len(l) /\ n < Len(m) => l[n+1] # m[n+1]
  BY AgreeIsMaximal
<1>2. /\ t \in Seq(Line) /\ Len(t) = Len(m) + (Len(l) - n)
      /\ \A i \in 1..Len(m) : t[i] = m[i]
      /\ \A i \in (Len(m) + 1)..Len(t) : At0(i) \in (n+1)..Len(l) /\ t[i] = l[At0(i)]
  BY RebasedLines
<1>3. Len(l) \in Nat /\ Len(m) \in Nat /\ Len(t) \in Nat
  BY <1>2
<1>4. PICK k \in 0..Len(l) : Forked(l, m, k)
  BY DEF Sound
<1> HIDE DEF n, t
<1>5. k \in 0..n /\ k \in 0..Len(m)
  <2>1. k \in 0..Len(m)
    BY <1>3, <1>4 DEF Forked
  <2>2. ASSUME n < k PROVE FALSE
    <3>1. n + 1 \in 1..k /\ n < Len(l) /\ n < Len(m)
      BY <1>1, <1>3, <2>1, <2>2
    <3> QED
      BY <1>1, <1>4, <3>1 DEF Forked
  <2> QED
    BY <1>1, <1>3, <2>1, <2>2
<1>6. n # Len(m)
  BY <1>1, <1>3 DEF IsAPrefix
<1>7. n # 0 => l[n].end
  <2>1. SUFFICES ASSUME n # 0 PROVE l[n].end
    OBVIOUS
  <2>2. k < Len(m) /\ n \in 1..Len(m) /\ n >= k /\ n \in 1..n
    BY <1>1, <1>3, <1>5, <1>6, <2>1
  <2> QED
    BY <1>1, <1>4, <2>2 DEF Forked
<1>8. ASSUME NEW i \in ReadLines(t)
      PROVE  \/ i \in 1..n /\ i \in ReadLines(l) /\ t[i] = l[i]
             \/ i \in (Len(m) + 1)..Len(t) /\ At0(i) \in ReadLines(l) /\ t[i] = l[At0(i)]
  <2>1. i \in 1..Len(t) /\ t[i].id \in Sessions /\ Readable(t, i)
    BY <1>2, <1>8 DEF ReadLines, OwnLines
  <2>2. CASE i \in 1..Len(m)
    <3>1. t[i] = m[i] /\ (i # 1 => t[i-1] = m[i-1]) /\ (i = Len(t) => i = Len(m))
      BY <1>1, <1>2, <1>3, <2>2
    <3>2. Readable(m, i)
      BY <2>1, <3>1 DEF Readable
    <3>3. i \in ReadLines(m)
      BY <2>1, <2>2, <3>1, <3>2 DEF ReadLines, OwnLines
    <3>4. i <= k /\ i \in ReadLines(l) /\ l[i] = m[i]
      BY <1>4, <3>3, ForkReads
    <3>5. i \in 1..n
      BY <1>1, <1>3, <1>5, <2>2, <3>4
    <3> QED
      BY <3>1, <3>4, <3>5
  <2>3. CASE i \notin 1..Len(m)
    <3> DEFINE j == At0(i)
    <3>1. i \in (Len(m) + 1)..Len(t)
      BY <1>3, <2>1, <2>3
    <3>2. j \in (n+1)..Len(l) /\ t[i] = l[j] /\ j \in 1..Len(l)
      BY <1>1, <1>2, <1>3, <3>1
    <3>3. i = Len(t) <=> j = Len(l)
      BY <1>1, <1>2, <1>3, <3>1
    <3>4. j = 1 \/ l[j-1].end
      <4>1. CASE i = Len(m) + 1
        <5>1. j = n + 1 /\ j - 1 = n
          BY <1>1, <1>3, <4>1
        <5> QED
          BY <1>1, <1>7, <5>1
      <4>2. CASE i # Len(m) + 1
        <5>1. i - 1 \in (Len(m) + 1)..Len(t) /\ At0(i - 1) = j - 1 /\ i # 1
          BY <1>1, <1>3, <3>1, <4>2
        <5>2. t[i-1] = l[j-1]
          BY <1>2, <5>1
        <5> QED
          BY <2>1, <5>1, <5>2 DEF Readable
      <4> QED
        BY <4>1, <4>2
    <3>5. Readable(l, j)
      BY <2>1, <3>2, <3>3, <3>4 DEF Readable
    <3> QED
      BY <2>1, <3>1, <3>2, <3>5 DEF ReadLines, OwnLines
  <2> QED
    BY <2>2, <2>3
<1>9. Once(t)
  <2> SUFFICES ASSUME NEW i \in ReadLines(t), NEW j \in ReadLines(t), t[i].id = t[j].id PROVE i = j
    BY DEF Once
  <2> DEFINE Place(x) == IF x \in 1..n THEN x ELSE At0(x)
  <2>1. ASSUME NEW x \in ReadLines(t) PROVE Place(x) \in ReadLines(l) /\ t[x] = l[Place(x)]
    <3>1. x \in (Len(m) + 1)..Len(t) => x \notin 1..n
      BY <1>1, <1>3
    <3> QED
      BY <1>8, <2>1, <3>1
  <2>2. Place(i) = Place(j)
    BY <2>1 DEF Once, Sound
  <2>3. i \in 1..n \/ i \in (Len(m) + 1)..Len(t)
    BY <1>8
  <2>4. j \in 1..n \/ j \in (Len(m) + 1)..Len(t)
    BY <1>8
  <2> QED
    BY <1>1, <1>3, <2>2, <2>3, <2>4
<1>10. Backed(t, theirs)
  <2>1. \A j \in ReadLines(l) : ~l[j].dry => theirs[l[j].id] = l[j].sha
    BY DEF Backed, Sound
  <2>2. ASSUME NEW i \in ReadLines(t) PROVE \E j \in ReadLines(l) : t[i] = l[j]
    BY <1>8, <2>2
  <2>3. ASSUME NEW i \in ReadLines(t) PROVE ~t[i].dry => theirs[t[i].id] = t[i].sha
    BY <2>1, <2>2, <2>3
  <2> QED
    BY <2>3 DEF Backed
<1>11. Branched(t, ours)
  <2> SUFFICES ASSUME NEW i \in OwnLines(t) PROVE ours[t[i].id] \in Nat
    BY DEF Branched
  <2>1. i \in 1..Len(t) /\ t[i].id \in Sessions
    BY <1>2 DEF OwnLines
  <2>2. CASE i \in 1..Len(m)
    BY <1>2, <2>1, <2>2 DEF OwnLines, Sound, Branched
  <2>3. CASE i \notin 1..Len(m)
    <3>1. i \in (Len(m) + 1)..Len(t)
      BY <1>3, <2>1, <2>3
    <3>2. t[i] = l[At0(i)] /\ At0(i) \in 1..Len(l)
      BY <1>1, <1>2, <1>3, <3>1
    <3> QED
      BY <2>1, <3>2 DEF OwnLines, Sound, Branched
  <2> QED
    BY <2>2, <2>3
<1>12. Forked(t, m, Len(m)) /\ Len(m) \in 0..Len(t)
  <2>1. ASSUME NEW i \in (Len(m) + 1)..Len(t) PROVE t[i].id \in Sessions
    <3>1. At0(i) \in (k+1)..Len(l) /\ t[i] = l[At0(i)]
      BY <1>1, <1>2, <1>3, <1>5
    <3> QED
      BY <1>4, <3>1 DEF Forked
  <2> QED
    BY <1>1, <1>2, <1>3, <2>1 DEF Forked
<1> QED
  BY <1>9, <1>10, <1>11, <1>12 DEF Sound, t

-----------------------------------------------------------------------------
(* The operator repository and origin.                                     *)
RepoType ==
  /\ repo \in [head : Tip, tree : Seq(Line), rebasing : BOOLEAN, onto : 0..MaxPeers,
               branch : Branches]
  /\ origin \in [main : Tip, branch : Branches]

RepoInv == RepoType /\ Ledgers /\ OneArchive /\ Progress /\ Doomed /\ PrunedIsArchived

(* A step of a run or a prune: nothing of the repository changes, and what *)
(* a prune of archived sessions chooses or removes has its branch.         *)
WorkEffect(p) ==
  /\ UNCHANGED <<repo, origin>>
  /\ \A q \in Procs \ {p} : proc'[q] = proc[q]
  /\ proc'[p].pc \notin Steps
  /\ proc'[p].only => \A s \in proc'[p].doomed : repo.branch[s] \in Nat
  /\ \A s \in Sessions : dir'[s].pruned = "archived" => repo.branch[s] \in Nat

(* A command outside an archive has nothing to keep up.                    *)
LEMMA NoArchiveNoProgress ==
  ASSUME NEW p \in Procs
  PROVE  /\ proc[p].pc \notin Steps => ProgressOf(p)
         /\ proc'[p].pc \notin Steps => ProgressOf(p)'
<1>1. /\ {"check", "branch", "pushbranch", "pull", "append", "newline", "commit"} \subseteq Steps
      /\ {"push", "retry"} \subseteq Steps
  BY DEF Steps
<1>2. proc[p].pc \notin Steps => ProgressOf(p)
  BY <1>1 DEF ProgressOf, At
<1>3. proc'[p].pc \notin Steps => ProgressOf(p)'
  BY <1>1 DEF ProgressOf, At
<1> QED
  BY <1>2, <1>3

(* Such a step keeps the invariant of the repository.                      *)
LEMMA WorkKeepsRepo ==
  ASSUME RepoInv, NEW p \in Procs, WorkEffect(p)
  PROVE  RepoInv'
<1> USE DEF WorkEffect
<1>1. RepoType' /\ Ledgers'
  BY DEF RepoInv, RepoType, Ledgers
<1>2. OneArchive'
  BY DEF RepoInv, OneArchive
<1>3. ASSUME NEW q \in Procs PROVE ProgressOf(q)'
  <2>1. CASE q = p
    BY <2>1, NoArchiveNoProgress
  <2>2. CASE q # p
    BY <2>2 DEF RepoInv, Progress, ProgressOf, Record, At
  <2> QED
    BY <2>1, <2>2
<1>4. Doomed'
  BY DEF RepoInv, Doomed
<1>5. PrunedIsArchived'
  BY DEF PrunedIsArchived
<1> QED
  BY <1>1, <1>2, <1>3, <1>4, <1>5 DEF RepoInv, Progress

(* An archive that starts or goes on is the only one, and removes nothing. *)
ArchiverMoves(p) ==
  /\ \A q \in Procs \ {p} : proc'[q] = proc[q] /\ proc[q].pc \notin Steps
  /\ proc'[p].only => proc[p].only /\ proc'[p].doomed = proc[p].doomed
  /\ \A s \in Sessions : dir'[s].pruned = dir[s].pruned

(* Every step of an archive is one of the only archiver.                   *)
LEMMA OnlyArchiver ==
  ASSUME WorkType, Control, OneArchive, NEW p \in Procs, ArchiveEffect(p)
  PROVE  ArchiverMoves(p)
<1>1. \A q \in Procs \ {p} : proc'[q] = proc[q] /\ proc[q].pc \notin Steps
  BY DEF OneArchive, ArchiveEffect
<1>2. CASE Finish(p)
  BY <1>1, <1>2, FinishEffect, IdleFields DEF ArchiverMoves
<1>3. CASE ~Finish(p)
  BY <1>1, <1>3 DEF ArchiverMoves, ArchiveEffect
<1> QED
  BY <1>2, <1>3

(* What is left to show of a step of the archive: types, ledgers, its own  *)
(* progress, and that no branch goes away.                                 *)
LEMMA ArchiverKeepsRepo ==
  ASSUME RepoInv, NEW p \in Procs, ArchiverMoves(p), RepoType', Ledgers', ProgressOf(p)',
         \A s \in Sessions : repo.branch[s] \in Nat => repo'.branch[s] \in Nat,
         proc \in [Procs -> Process]
  PROVE  RepoInv'
<1> USE DEF ArchiverMoves
<1>1. OneArchive'
  BY DEF RepoInv, OneArchive
<1>2. ASSUME NEW q \in Procs PROVE ProgressOf(q)'
  <2>1. CASE q = p
    BY <2>1
  <2>2. CASE q # p
    BY <2>2, NoArchiveNoProgress
  <2> QED
    BY <2>1, <2>2
<1>3. Doomed'
  <2> SUFFICES ASSUME NEW q \in Procs, proc'[q].only, NEW s \in proc'[q].doomed
               PROVE  repo'.branch[s] \in Nat
    BY DEF Doomed
  <2>1. proc[q].only /\ s \in proc[q].doomed
    BY DEF Doomed
  <2>2. s \in Sessions
    BY <2>1 DEF Process
  <2> QED
    BY <2>1, <2>2 DEF RepoInv, Doomed
<1>4. PrunedIsArchived'
  BY DEF RepoInv, PrunedIsArchived
<1> QED
  BY <1>1, <1>2, <1>3, <1>4 DEF RepoInv, Progress

(* The operator and the peers.                                             *)
LEMMA OthersKeepRepo ==
  ASSUME RepoInv, UNCHANGED <<dir, proc>>, RepoType', Ledgers', Progress',
         \A s \in Sessions : repo'.branch[s] = repo.branch[s], proc \in [Procs -> Process]
  PROVE  RepoInv'
<1>1. OneArchive'
  BY DEF RepoInv, OneArchive
<1>2. Doomed'
  BY DEF RepoInv, Doomed, Process
<1>3. PrunedIsArchived'
  BY DEF RepoInv, PrunedIsArchived
<1> QED
  BY <1>1, <1>2, <1>3 DEF RepoInv

-----------------------------------------------------------------------------
(* Runs and prunes leave the repository alone.                             *)
LEMMA WorkMoves ==
  ASSUME WorkType, RepoInv, NEW p \in Procs, NEW c, Becomes(p, c), UNCHANGED <<repo, origin>>,
         c.pc \notin Steps, c.only => proc[p].only /\ c.doomed = proc[p].doomed,
         \A s \in Sessions : dir'[s].pruned \in {dir[s].pruned, "no"}
  PROVE  RepoInv'
<1>1. proc'[p] = c /\ \A q \in Procs \ {p} : proc'[q] = proc[q]
  BY DEF WorkType, Becomes
<1>2. WorkEffect(p)
  <2>1. \A s \in Sessions : dir'[s].pruned = "archived" => repo.branch[s] \in Nat
    BY DEF RepoInv, PrunedIsArchived
  <2> QED
    BY <1>1, <2>1 DEF WorkEffect, RepoInv, Doomed
<1> QED
  BY <1>2, WorkKeepsRepo

(* A directory that is stored without being pruned.                        *)
LEMMA StoreMarks ==
  ASSUME WorkType, NEW s \in Sessions, NEW d, Store(s, d), d.pruned \in {dir[s].pruned, "no"}
  PROVE  \A t \in Sessions : dir'[t].pruned \in {dir[t].pruned, "no"}
<1>1. dir'[s] = d /\ \A t \in Sessions \ {s} : dir'[t] = dir[t]
  BY DEF WorkType, Store
<1> QED
  BY <1>1

(* The end of a run or a prune.                                            *)
LEMMA FinishWork ==
  ASSUME WorkType, Control, RepoInv, NEW p \in Procs, Finish(p), UNCHANGED <<repo, origin>>
  PROVE  RepoInv'
<1>1. Becomes(p, Idle)
  BY DEF Finish
<1>2. \A s \in Sessions : dir'[s].pruned \in {dir[s].pruned, "no"}
  BY FinishEffect
<1> QED
  BY <1>1, <1>2, IdleFields, WorkMoves

(* A run that only moves on.                                               *)
LEMMA GotoWork ==
  ASSUME WorkType, RepoInv, NEW p \in Procs, NEW pc \in PCs \ Steps, Goto(p, pc),
         UNCHANGED <<dir, repo, origin>>
  PROVE  RepoInv'
<1> DEFINE c == [proc[p] EXCEPT !.pc = pc]
<1>1. proc[p] \in Process /\ Becomes(p, c)
  BY DEF WorkType, Goto
<1>2. c.pc = pc /\ c.only = proc[p].only /\ c.doomed = proc[p].doomed
  BY <1>1, MoveFields
<1> HIDE DEF c
<1> QED
  BY <1>1, <1>2, WorkMoves

(* A run that uses the source.json it finds.                               *)
LEMMA ResumeWork ==
  ASSUME WorkType, Control, RepoInv, NEW p \in Procs, Resume(p), UNCHANGED <<repo, origin>>
  PROVE  RepoInv'
<1> DEFINE src == Of(p).source
           c == [proc[p] EXCEPT !.pc = "work", !.k = src.k, !.sha = src.sha, !.since = 0]
<1>1. Finish(p) \/ (Becomes(p, c) /\ UNCHANGED dir)
  BY DEF Resume
<1> HIDE DEF src
<1>2. c.pc = "work" /\ c.only = proc[p].only /\ c.doomed = proc[p].doomed
  <2>1. proc[p] \in Process
    BY DEF WorkType
  <2> QED
    BY <2>1 DEF Process
<1> HIDE DEF c
<1>3. c.pc \notin Steps
  BY <1>2 DEF Steps
<1> QED
  BY <1>1, <1>2, <1>3, FinishWork, WorkMoves

(* A run that clones its checkout ...                                      *)
LEMMA CloneWork ==
  ASSUME WorkspaceInv, RepoInv, NEW p \in Procs, clone_session_checkout(p)
  PROVE  RepoInv'
<1>1. PICK s \in Sessions : s = proc[p].s
  BY RunFacts DEF clone_session_checkout, At, SourceSteps
<1> DEFINE k == proc[p].k
           sha == cache[k]
           c == [proc[p] EXCEPT !.pc = "write", !.sha = sha]
           d == [Of(p) EXCEPT !.checkout[k] = sha, !.exists = TRUE]
<1>2. Becomes(p, c) /\ Store(s, d) /\ UNCHANGED <<repo, origin>>
  BY <1>1 DEF clone_session_checkout
<1>3. proc[p] \in Process /\ Of(p) \in Directory /\ Of(p) = dir[s]
  BY <1>1 DEF WorkspaceInv, WorkType, Of
<1> HIDE DEF sha, k
<1>4. c.pc \notin Steps /\ c.only = proc[p].only /\ c.doomed = proc[p].doomed
  BY <1>3 DEF Process, Steps
<1>5. d.pruned = dir[s].pruned
  BY <1>3 DEF Directory
<1> HIDE DEF c, d
<1>6. \A t \in Sessions : dir'[t].pruned \in {dir[t].pruned, "no"}
  BY <1>2, <1>5, StoreMarks DEF WorkspaceInv
<1> QED
  BY <1>2, <1>4, <1>6, WorkMoves DEF WorkspaceInv

(* ... and writes source.json.                                             *)
LEMMA WriteSourceWork ==
  ASSUME WorkspaceInv, RepoInv, NEW p \in Procs, WriteSource(p)
  PROVE  RepoInv'
<1>1. PICK s \in Sessions : s = proc[p].s
  BY RunFacts DEF WriteSource, At, SourceSteps
<1> DEFINE src == [k |-> proc[p].k, sha |-> proc[p].sha]
           c == [proc[p] EXCEPT !.pc = "work", !.since = 0]
           d == [Of(p) EXCEPT !.source = src, !.exists = TRUE]
<1>2. Finish(p) \/ (Becomes(p, c) /\ Store(s, d))
  BY <1>1 DEF WriteSource
<1>3. /\ proc[p] \in Process /\ Of(p) \in Directory /\ Of(p) = dir[s]
      /\ UNCHANGED <<repo, origin>>
  BY <1>1 DEF WorkspaceInv, WorkType, Of, WriteSource
<1> HIDE DEF src
<1>4. c.pc \notin Steps /\ c.only = proc[p].only /\ c.doomed = proc[p].doomed
  BY <1>3 DEF Process, Steps
<1>5. d.pruned = dir[s].pruned
  BY <1>3 DEF Directory
<1> HIDE DEF c, d
<1>6. Store(s, d) => \A t \in Sessions : dir'[t].pruned \in {dir[t].pruned, "no"}
  BY <1>5, StoreMarks DEF WorkspaceInv
<1> QED
  BY <1>2, <1>3, <1>4, <1>6, FinishWork, WorkMoves DEF WorkspaceInv

(* A run that starts and takes its directory.                              *)
LEMMA RunStartWork ==
  ASSUME WorkType, RepoInv, NEW p \in Procs, NEW s \in Sessions, NEW k \in CacheIds,
         RunStart(p, s, k)
  PROVE  RepoInv'
<1> DEFINE c == [Idle EXCEPT !.cmd = "run", !.s = s, !.pc = "source", !.k = k, !.since = upstream]
           d == [dir[s] EXCEPT !.exists = TRUE, !.pid = p, !.pruned = "no"]
<1>1. Becomes(p, c) /\ Store(s, d) /\ UNCHANGED <<repo, origin>>
  BY DEF RunStart
<1>2. c.pc \notin Steps /\ ~c.only
  BY DEF Idle, Steps
<1>3. d.pruned = "no"
  BY DEF WorkType, Directory
<1> HIDE DEF c, d
<1>4. \A t \in Sessions : dir'[t].pruned \in {dir[t].pruned, "no"}
  BY <1>1, <1>3, StoreMarks
<1> QED
  BY <1>1, <1>2, <1>4, WorkMoves

(* A run that changes its results.                                         *)
LEMMA WorkWork ==
  ASSUME WorkspaceInv, RepoInv, NEW p \in Procs, Work(p)
  PROVE  RepoInv'
<1>1. PICK s \in Sessions : s = proc[p].s
  BY RunFacts DEF Work, At, SourceSteps
<1> DEFINE d == [Of(p) EXCEPT !.results = @ + 1]
<1>2. Store(s, d) /\ UNCHANGED <<proc, repo, origin>> /\ proc[p].pc = "work"
  BY <1>1 DEF Work, At
<1>3. d.pruned = dir[s].pruned
  BY <1>1 DEF WorkspaceInv, WorkType, Directory, Of
<1> HIDE DEF d
<1>4. \A t \in Sessions : dir'[t].pruned \in {dir[t].pruned, "no"}
  BY <1>2, <1>3, StoreMarks DEF WorkspaceInv
<1>5. Becomes(p, proc[p]) /\ proc[p].pc \notin Steps
  BY <1>2 DEF Becomes, WorkspaceInv, WorkType, Steps
<1> QED
  BY <1>2, <1>4, <1>5, WorkMoves DEF WorkspaceInv

(* A kill, which may leave half a clone.                                   *)
LEMMA KillWork ==
  ASSUME WorkspaceInv, RepoInv, NEW p \in Procs, Kill(p)
  PROVE  RepoInv'
<1>1. Becomes(p, Idle) /\ UNCHANGED <<repo, origin>>
  BY DEF Kill
<1>2. \A t \in Sessions : dir'[t].pruned \in {dir[t].pruned, "no"}
  <2>1. CASE UNCHANGED dir
    BY <2>1
  <2>2. CASE ~UNCHANGED dir
    <3>1. At(p, "clone")
      BY <2>2 DEF Kill
    <3>2. PICK s \in Sessions : s = proc[p].s
      BY <3>1, RunFacts DEF At, SourceSteps
    <3>3. PICK left \in {None, Partial} : Store(s, [Of(p) EXCEPT !.checkout[proc[p].k] = left])
      BY <2>2, <3>2 DEF Kill
    <3> DEFINE k == proc[p].k
               d == [Of(p) EXCEPT !.checkout[k] = left]
    <3>4. Store(s, d)
      BY <3>3
    <3> HIDE DEF k
    <3>5. d.pruned = dir[s].pruned
      BY <3>2 DEF Of, WorkspaceInv, WorkType, Directory
    <3> HIDE DEF d
    <3> QED
      BY <3>4, <3>5, StoreMarks DEF WorkspaceInv
  <2> QED
    BY <2>1, <2>2
<1> QED
  BY <1>1, <1>2, IdleFields, WorkMoves DEF WorkspaceInv

(* What the ledger of the working tree lists has its branch, so what a     *)
(* prune of archived sessions chooses has one; and what it removes is what *)
(* it chose.                                                               *)
LEMMA PruneStartWork ==
  ASSUME WorkType, RepoInv, NEW p \in Procs, NEW o \in BOOLEAN, NEW t \in BOOLEAN,
         NEW y \in SUBSET Sessions, PruneStart(p, o, t, y)
  PROVE  RepoInv'
<1> DEFINE doomed == {s \in Sessions : dir[s].exists /\ decide_skip(s, o, t, s \in y) = "None"}
           c == [Idle EXCEPT !.cmd = "prune", !.pc = "delete", !.only = o, !.doomed = doomed]
<1>1. Becomes(p, c) /\ UNCHANGED <<dir, repo, origin>>
  BY DEF PruneStart
<1>2. ASSUME o, NEW s \in doomed PROVE repo.branch[s] \in Nat
  <2>1. s \in Sessions /\ s \in read_archived_ids(repo.tree)
    BY <1>2 DEF decide_skip
  <2>2. repo.tree \in Seq(Line)
    BY DEF RepoInv, RepoType
  <2>3. PICK i \in ReadLines(repo.tree) : repo.tree[i].id = s
    BY <2>1, <2>2, ArchivedIds
  <2> QED
    BY <2>3 DEF RepoInv, Ledgers, Sound, Branched, ReadLines
<1> HIDE DEF doomed
<1>3. c.pc = "delete" /\ c.doomed = doomed /\ c.only = o
  BY DEF Idle
<1> HIDE DEF c
<1>4. proc'[p] = c /\ \A q \in Procs \ {p} : proc'[q] = proc[q]
  BY <1>1 DEF WorkType, Becomes
<1>5. WorkEffect(p)
  BY <1>1, <1>2, <1>3, <1>4 DEF WorkEffect, Steps, RepoInv, PrunedIsArchived
<1> QED
  BY <1>5, WorkKeepsRepo

(* The removal marks the directory the way the prune was asked.            *)
LEMMA DeleteWork ==
  ASSUME WorkType, RepoInv, NEW p \in Procs, NEW s \in Sessions, Delete(p, s)
  PROVE  RepoInv'
<1> DEFINE how == IF proc[p].only THEN "archived" ELSE "any"
           d == [Absent EXCEPT !.pruned = how]
           c == [proc[p] EXCEPT !.doomed = @ \ {s}]
<1>1. /\ Becomes(p, c) /\ Store(s, d) /\ UNCHANGED <<repo, origin>>
      /\ s \in proc[p].doomed /\ proc[p].pc = "delete"
  BY DEF Delete, At
<1>2. c.pc = "delete" /\ c.only = proc[p].only /\ c.doomed = proc[p].doomed \ {s}
  <2>1. proc[p] \in Process
    BY DEF WorkType
  <2> QED
    BY <1>1, <2>1 DEF Process
<1>3. d.pruned = how
  BY DEF Absent
<1> HIDE DEF c, d
<1>4. proc'[p] = c /\ \A q \in Procs \ {p} : proc'[q] = proc[q]
  BY <1>1 DEF WorkType, Becomes
<1>5. dir'[s] = d /\ \A t \in Sessions \ {s} : dir'[t] = dir[t]
  BY <1>1 DEF WorkType, Store
<1>6. ASSUME NEW t \in Sessions, dir'[t].pruned = "archived" PROVE repo.branch[t] \in Nat
  <2>1. CASE t = s
    BY <1>1, <1>3, <1>5, <1>6, <2>1 DEF RepoInv, Doomed
  <2>2. CASE t # s
    BY <1>5, <1>6, <2>2 DEF RepoInv, PrunedIsArchived
  <2> QED
    BY <2>1, <2>2
<1>7. WorkEffect(p)
  BY <1>1, <1>2, <1>4, <1>6 DEF WorkEffect, Steps, RepoInv, Doomed
<1> QED
  BY <1>7, WorkKeepsRepo

(* All of them.                                                            *)
RunOrPrune(p) ==
  \/ EndRun(p) \/ PruneEnd(p) \/ FetchFails(p) \/ (\E s \in Sessions : Delete(p, s))
  \/ ReadSource(p) \/ AcquireLock(p) \/ Recheck(p) \/ ensure_cache(p)
  \/ clone_session_checkout(p) \/ WriteSource(p) \/ Work(p) \/ Kill(p)
  \/ (\E s \in Sessions, k \in CacheIds : RunStart(p, s, k))
  \/ \E o, t \in BOOLEAN, y \in SUBSET Sessions : PruneStart(p, o, t, y)

(* Each of them keeps the invariant of the repository.                     *)
LEMMA RunsAndPrunesKeepRepo ==
  ASSUME WorkspaceInv, RepoInv, NEW p \in Procs, RunOrPrune(p)
  PROVE  RepoInv'
<1>1. WorkType /\ Control
  BY DEF WorkspaceInv
<1>2. {"lock", "recheck", "cache", "clone"} \subseteq PCs \ Steps
  BY DEF PCs, Steps, SourceSteps
<1>3. CASE EndRun(p) \/ PruneEnd(p) \/ FetchFails(p)
  BY <1>1, <1>3, FinishWork DEF EndRun, PruneEnd, FetchFails
<1>4. CASE ReadSource(p)
  <2>1. Resume(p) \/ (Goto(p, "lock") /\ UNCHANGED dir)
    BY <1>4 DEF ReadSource
  <2>2. UNCHANGED <<repo, origin>>
    BY <1>4 DEF ReadSource
  <2> QED
    BY <1>1, <1>2, <2>1, <2>2, ResumeWork, GotoWork
<1>5. CASE AcquireLock(p)
  BY <1>1, <1>2, <1>5, GotoWork DEF AcquireLock
<1>6. CASE Recheck(p)
  <2>1. Resume(p) \/ (Goto(p, "cache") /\ UNCHANGED dir)
    BY <1>6 DEF Recheck
  <2>2. UNCHANGED <<repo, origin>>
    BY <1>6 DEF Recheck
  <2> QED
    BY <1>1, <1>2, <2>1, <2>2, ResumeWork, GotoWork
<1>7. CASE ensure_cache(p)
  BY <1>1, <1>2, <1>7, GotoWork DEF ensure_cache
<1> QED
  BY <1>1, <1>3, <1>4, <1>5, <1>6, <1>7, CloneWork, WriteSourceWork, RunStartWork, WorkWork,
     KillWork, PruneStartWork, DeleteWork
  DEF RunOrPrune

-----------------------------------------------------------------------------
(* The steps of an archive.                                                *)

(* What an archive reads, and the branch it makes.                         *)
LEMMA RepoFacts ==
  ASSUME RepoType
  PROVE  /\ repo.head.lines \in Seq(Line) /\ repo.tree \in Seq(Line) /\ repo.head \in Tip
         /\ origin.main.lines \in Seq(Line) /\ origin.main \in Tip
         /\ repo.branch \in Branches /\ origin.branch \in Branches
         /\ repo.head.other \in 0..MaxPeers /\ origin.main.other \in 0..MaxPeers
         /\ repo.onto \in 0..MaxPeers /\ repo.rebasing \in BOOLEAN
  BY DEF RepoType, Tip

(* A step that touches no ledger and no branch.                            *)
LEMMA LedgersStay ==
  ASSUME Ledgers, repo'.head.lines = repo.head.lines, repo'.tree = repo.tree,
         repo'.branch = repo.branch, UNCHANGED origin
  PROVE  Ledgers'
  BY DEF Ledgers

(* The archive that is under way, before and after a step of it.           *)
LEMMA ArchiverFacts ==
  ASSUME WorkspaceInv, RepoInv, NEW p \in Procs, ArchiveStep(p)
  PROVE  /\ ArchiverMoves(p) /\ proc[p].pc \in Steps /\ proc[p].s \in Sessions
         /\ proc \in [Procs -> Process] /\ proc[p].dry \in BOOLEAN /\ ProgressOf(p)
         /\ proc' \in [Procs -> Process]
<1>1. ArchiveEffect(p)
  BY ArchiveSteps DEF WorkspaceInv
<1>2. ArchiverMoves(p)
  BY <1>1, OnlyArchiver DEF WorkspaceInv, RepoInv
<1>3. proc[p].pc \in Steps /\ proc[p].s \in Sessions
  BY <1>1 DEF WorkspaceInv, Control, ControlOf, ArchiveEffect
<1> QED
  BY <1>1, <1>2, <1>3 DEF WorkspaceInv, WorkType, Process, RepoInv, Progress, ArchiveEffect

(* An archive that ends leaves nothing to keep up.                         *)
LEMMA FinishedProgress ==
  ASSUME WorkType, Control, NEW p \in Procs, Finish(p)
  PROVE  ProgressOf(p)'
<1>1. proc'[p].pc \notin Steps
  BY FinishEffect, IdleFields
<1> QED
  BY <1>1, NoArchiveNoProgress

(* A step of an archive that changes nothing in the repository.            *)
LEMMA NothingInRepo ==
  ASSUME WorkspaceInv, RepoInv, NEW p \in Procs, ArchiveStep(p), UNCHANGED <<repo, origin>>,
         ProgressOf(p)'
  PROVE  RepoInv'
<1>1. RepoType' /\ Ledgers'
  BY DEF RepoInv, RepoType, Ledgers
<1> QED
  BY <1>1, ArchiverFacts, ArchiverKeepsRepo

(* The check: a clean tree whose ledger does not list the session.         *)
LEMMA CheckArchiveKeeps ==
  ASSUME WorkspaceInv, RepoInv, NEW p \in Procs, CheckArchive(p)
  PROVE  RepoInv'
<1>1. ArchiveStep(p) /\ UNCHANGED <<repo, origin>>
  BY DEF ArchiveStep, CheckArchive
<1>2. CASE Finish(p)
  BY <1>1, <1>2, FinishedProgress, NothingInRepo DEF WorkspaceInv
<1>3. CASE ~Finish(p)
  <2>1. /\ Goto(p, "branch") /\ ~repo.rebasing /\ repo.tree = repo.head.lines
        /\ proc[p].s \notin read_archived_ids(repo.tree)
    BY <1>3 DEF CheckArchive, ledger_contains_id, ensure_clean_worktree
  <2>2. proc'[p].pc = "branch" /\ proc'[p].s = proc[p].s
    BY <2>1, GotoEffect DEF PCs, Steps, WorkspaceInv
  <2>3. ProgressOf(p)'
    BY <1>1, <2>1, <2>2 DEF ProgressOf, At
  <2> QED
    BY <1>1, <2>3, NothingInRepo
<1> QED
  BY <1>2, <1>3

(* A session's branch here changes while no ledger names the session.      *)
LEMMA BranchHere ==
  ASSUME RepoType, Ledgers, UNCHANGED origin, NEW s \in Sessions, NEW v \in Versions,
         repo' = [repo EXCEPT !.branch[s] = v], repo.branch[s] \in Nat => v \in Nat
  PROVE  /\ RepoType' /\ Ledgers'
         /\ repo'.head = repo.head /\ repo'.tree = repo.tree /\ repo'.rebasing = repo.rebasing
         /\ repo'.branch[s] = v /\ \A t \in Sessions \ {s} : repo'.branch[t] = repo.branch[t]
<1>1. repo.branch \in Branches
  BY RepoFacts
<1>2. /\ repo'.head = repo.head /\ repo'.tree = repo.tree /\ repo'.rebasing = repo.rebasing
      /\ repo'.branch = [repo.branch EXCEPT ![s] = v]
  BY DEF RepoType
<1>3. /\ repo'.branch \in Branches
      /\ repo'.branch[s] = v /\ \A t \in Sessions \ {s} : repo'.branch[t] = repo.branch[t]
  BY <1>1, <1>2 DEF Branches
<1>4. RepoType'
  <2>1. repo' = [repo EXCEPT !.branch = repo'.branch]
    BY <1>2
  <2> QED
    BY <1>3, <2>1 DEF RepoType
<1>5. \A t \in Sessions : repo.branch[t] \in Nat => repo'.branch[t] \in Nat
  BY <1>3
<1>6. Ledgers'
  BY <1>2, <1>5, RepoFacts, BranchesMayMove DEF Ledgers
<1> QED
  BY <1>2, <1>3, <1>4, <1>6

(* The branch is made here while no ledger names the session.              *)
LEMMA CommitBranchKeeps ==
  ASSUME WorkspaceInv, RepoInv, NEW p \in Procs, CommitBranch(p)
  PROVE  RepoInv'
<1>1. ArchiveStep(p) /\ UNCHANGED origin /\ At(p, "branch")
  BY DEF ArchiveStep, CommitBranch
<1>2. /\ ArchiverMoves(p) /\ proc[p].s \in Sessions /\ ProgressOf(p)
      /\ proc \in [Procs -> Process]
  BY <1>1, ArchiverFacts
<1>3. RepoType /\ Ledgers /\ repo.branch \in Branches
  BY RepoFacts DEF RepoInv
<1>4. CASE Of(p).exists
  <2> DEFINE v == Of(p).results
  <2>1. /\ proc'[p].pc = IF proc[p].dry THEN "append" ELSE "pushbranch"
        /\ proc'[p].s = proc[p].s /\ proc'[p].dry = proc[p].dry /\ proc'[p].sha = v
        /\ v \in 0..MaxResults
    BY <1>4, CommitBranchMoves DEF WorkspaceInv
  <2>2. repo' = [repo EXCEPT !.branch[proc[p].s] = v]
    BY <1>4 DEF CommitBranch, copy_dir_recursive
  <2>3. v \in Versions /\ v \in Nat
    BY <2>1 DEF Versions
  <2> HIDE DEF v
  <2>4. /\ RepoType' /\ Ledgers'
        /\ repo'.head = repo.head /\ repo'.tree = repo.tree /\ repo'.rebasing = repo.rebasing
        /\ repo'.branch[proc[p].s] = v
        /\ \A t \in Sessions \ {proc[p].s} : repo'.branch[t] = repo.branch[t]
    BY <1>1, <1>2, <1>3, <2>2, <2>3, BranchHere
  <2>5. ProgressOf(p)'
    <3>1. ~repo.rebasing /\ repo.tree = repo.head.lines
          /\ proc[p].s \notin read_archived_ids(repo.head.lines)
      BY <1>1, <1>2 DEF ProgressOf, At, Steps
    <3> QED
      BY <1>1, <2>1, <2>4, <3>1 DEF ProgressOf, At
  <2>6. \A t \in Sessions : repo.branch[t] \in Nat => repo'.branch[t] \in Nat
    BY <2>3, <2>4
  <2> QED
    BY <1>2, <2>4, <2>5, <2>6, ArchiverKeepsRepo
<1>5. CASE ~Of(p).exists
  <2>0. /\ Partial \in Versions /\ None \notin Nat
        /\ repo.branch[proc[p].s] \in Versions \cup {None}
    BY <1>2, <1>3 DEF Branches, Versions, Partial
  <2> DEFINE v == IF repo.branch[proc[p].s] = None THEN Partial ELSE repo.branch[proc[p].s]
  <2>1. Finish(p) /\ repo' = [repo EXCEPT !.branch[proc[p].s] = v]
    BY <1>5 DEF CommitBranch
  <2>2. v \in Versions /\ (repo.branch[proc[p].s] \in Nat => v \in Nat)
    BY <2>0
  <2> HIDE DEF v
  <2>3. /\ RepoType' /\ Ledgers' /\ repo'.branch[proc[p].s] = v
        /\ \A t \in Sessions \ {proc[p].s} : repo'.branch[t] = repo.branch[t]
    BY <1>1, <1>2, <1>3, <2>1, <2>2, BranchHere
  <2>4. ProgressOf(p)'
    BY <2>1, FinishedProgress DEF WorkspaceInv
  <2>5. \A t \in Sessions : repo.branch[t] \in Nat => repo'.branch[t] \in Nat
    BY <2>2, <2>3
  <2> QED
    BY <1>2, <2>3, <2>4, <2>5, ArchiverKeepsRepo
<1> QED
  BY <1>4, <1>5

(* The branch is pushed before the line, so no ledger names the session:   *)
(* not the one here, and so not origin's.                                  *)
LEMMA PushBranchKeeps ==
  ASSUME WorkspaceInv, RepoInv, NEW p \in Procs, PushBranch(p)
  PROVE  RepoInv'
<1> DEFINE s == proc[p].s
           v == repo.branch[s]
           l == repo.head.lines
           m == origin.main.lines
<1>1. /\ ArchiveStep(p) /\ UNCHANGED repo /\ At(p, "pushbranch") /\ Goto(p, "pull")
      /\ origin' = [origin EXCEPT !.branch[s] = v]
  BY DEF ArchiveStep, PushBranch
<1>2. /\ ArchiverMoves(p) /\ s \in Sessions /\ ProgressOf(p) /\ proc \in [Procs -> Process]
      /\ proc[p].dry \in BOOLEAN
  BY <1>1, ArchiverFacts
<1>3. /\ RepoType /\ Ledgers /\ repo.branch \in Branches /\ origin.branch \in Branches
      /\ l \in Seq(Line) /\ m \in Seq(Line)
  BY RepoFacts DEF RepoInv
<1>4. /\ ~repo.rebasing /\ repo.tree = l /\ s \notin read_archived_ids(l)
      /\ proc[p].sha \in 0..MaxResults /\ v = proc[p].sha
  BY <1>1, <1>2 DEF ProgressOf, At, Steps
<1>5. v \in Versions
  BY <1>4 DEF Versions
<1>6. /\ origin'.main = origin.main /\ origin'.branch = [origin.branch EXCEPT ![s] = v]
  BY <1>1 DEF RepoInv, RepoType
<1> HIDE DEF v
<1>7. /\ origin'.branch \in Branches /\ origin'.branch[s] = v
      /\ \A t \in Sessions \ {s} : origin'.branch[t] = origin.branch[t]
  BY <1>2, <1>3, <1>5, <1>6 DEF Branches
<1>8. RepoType'
  <2>1. origin' = [origin EXCEPT !.branch = origin'.branch]
    BY <1>1, <1>6
  <2> QED
    BY <1>1, <1>3, <1>7, <2>1 DEF RepoType
<1>9. s \notin read_archived_ids(m)
  BY <1>2, <1>3, <1>4, OriginsIdsAreHere DEF Ledgers
<1>10. Ledgers'
  <2>1. \A t \in Sessions : t \in read_archived_ids(l) => origin'.branch[t] = origin.branch[t]
    BY <1>4, <1>7
  <2>2. \A t \in Sessions : t \in read_archived_ids(m) => origin'.branch[t] = origin.branch[t]
    BY <1>7, <1>9
  <2>3. Sound(l, m, origin'.branch, repo.branch)
    BY <1>3, <2>1, BranchesMayMove DEF Ledgers
  <2>4. Sound(m, m, origin'.branch, repo.branch)
    BY <1>3, <2>2, BranchesMayMove DEF Ledgers
  <2> QED
    BY <1>1, <1>3, <1>4, <1>6, <2>3, <2>4 DEF Ledgers
<1>11. ProgressOf(p)'
  <2>1. /\ proc'[p].pc = "pull" /\ proc'[p].s = s /\ proc'[p].sha = proc[p].sha
        /\ proc'[p].dry = proc[p].dry
    BY <1>1, GotoEffect DEF PCs, Steps, WorkspaceInv
  <2> HIDE DEF s
  <2> QED
    BY <1>1, <1>4, <1>7, <2>1 DEF ProgressOf, At, v
<1> QED
  BY <1>1, <1>2, <1>8, <1>10, <1>11, ArchiverKeepsRepo

(* The rebase before the append and before each further push.              *)
LEMMA PullRebaseKeeps ==
  ASSUME WorkspaceInv, RepoInv, NEW p \in Procs, pull_rebase(p)
  PROVE  RepoInv'
<1> DEFINE l == repo.head.lines
           m == origin.main.lines
           r == Rebased(l, m)
<1>1. ArchiveStep(p) /\ UNCHANGED origin /\ proc[p].pc \in {"pull", "retry"}
  BY DEF ArchiveStep, pull_rebase
<1>2. /\ ArchiverMoves(p) /\ proc[p].s \in Sessions /\ ProgressOf(p)
      /\ proc \in [Procs -> Process] /\ proc[p].dry \in BOOLEAN
  BY <1>1, ArchiverFacts
<1>3. /\ RepoType /\ Ledgers /\ l \in Seq(Line) /\ m \in Seq(Line)
      /\ origin.main.other \in 0..MaxPeers /\ LastEnded(m)
  BY RepoFacts DEF RepoInv, Ledgers
<1>4. r \in Seq(Line) /\ r = origin.main.lines \o Ahead
  BY <1>3, RebasedLines DEF Rebased, Ahead
<1>5. ~repo.rebasing /\ repo.tree = l
  BY <1>1, <1>2 DEF ProgressOf, Steps
<1>6. CASE l # m /\ ~IsAPrefix(m, l) /\ ~IsAPrefix(l, m)
  <2>1. /\ Finish(p)
        /\ repo' = [repo EXCEPT !.rebasing = TRUE, !.onto = origin.main.other, !.tree = r]
    BY <1>4, <1>6 DEF pull_rebase
  <2>2. Sound(r, m, origin.branch, repo.branch)
    BY <1>3, <1>6, ConflictIsSound DEF Ledgers
  <2> HIDE DEF r
  <2>3. repo'.head = repo.head /\ repo'.tree = r /\ repo'.branch = repo.branch
    BY <1>3, <2>1 DEF RepoType
  <2>4. RepoType'
    BY <1>1, <1>3, <1>4, <2>1 DEF RepoType
  <2>5. Ledgers'
    BY <1>1, <1>3, <2>2, <2>3 DEF Ledgers
  <2>6. ProgressOf(p)'
    BY <2>1, FinishedProgress DEF WorkspaceInv
  <2> QED
    BY <1>2, <2>3, <2>4, <2>5, <2>6, ArchiverKeepsRepo
<1>7. CASE ~(l # m /\ ~IsAPrefix(m, l) /\ ~IsAPrefix(l, m))
  <2> DEFINE tip == [lines |-> r, other |-> origin.main.other]
             pc == IF At(p, "pull") THEN "append" ELSE "push"
  <2>1. /\ repo' = [repo EXCEPT !.head = tip, !.tree = r]
        /\ Goto(p, pc)
    BY <1>4, <1>7 DEF pull_rebase
  <2>2. \/ r = l /\ Len(m) <= Len(l)
        \/ r = m /\ Len(l) <= Len(m)
    BY <1>3, <1>7, FastForward
  <2> HIDE DEF r
  <2>3. Sound(r, m, origin.branch, repo.branch)
    BY <1>3, <2>2 DEF Ledgers
  <2>4. tip \in Tip /\ tip.lines = r
    BY <1>3, <1>4 DEF Tip
  <2> HIDE DEF tip
  <2>5. /\ repo'.head = tip /\ repo'.tree = r /\ repo'.branch = repo.branch
        /\ repo'.rebasing = repo.rebasing
    BY <1>3, <2>1 DEF RepoType
  <2>6. RepoType'
    BY <1>1, <1>3, <1>4, <2>1, <2>4 DEF RepoType
  <2>7. Ledgers'
    BY <1>1, <1>3, <2>3, <2>4, <2>5 DEF Ledgers
  <2>8. pc \in PCs /\ (pc = "append" <=> At(p, "pull")) /\ pc \in {"append", "push"}
    BY DEF PCs, Steps
  <2> HIDE DEF pc
  <2>9. /\ proc'[p].pc = pc /\ proc'[p].s = proc[p].s /\ proc'[p].sha = proc[p].sha
        /\ proc'[p].dry = proc[p].dry
    BY <2>1, <2>8, GotoEffect DEF WorkspaceInv
  <2>10. At(p, "pull") =>
           /\ proc[p].s \notin read_archived_ids(r)
           /\ proc[p].sha \in 0..MaxResults /\ repo.branch[proc[p].s] = proc[p].sha
           /\ ~proc[p].dry => origin.branch[proc[p].s] = proc[p].sha
    <3>1. proc[p].s \in read_archived_ids(m) => proc[p].s \in read_archived_ids(l)
      BY <1>2, <1>3, OriginsIdsAreHere DEF Ledgers
    <3> QED
      BY <1>2, <2>2, <3>1 DEF ProgressOf, At
  <2>11. At(p, "retry") => r # <<>> /\ LastEnded(r)
    <3>1. SUFFICES ASSUME At(p, "retry") PROVE r # <<>> /\ LastEnded(r)
      OBVIOUS
    <3>2. l # <<>> /\ LastEnded(l)
      BY <1>2, <3>1 DEF ProgressOf, At
    <3>3. Len(l) \in Nat /\ Len(l) # 0
      BY <1>3, <3>2
    <3>4. r = m => m # <<>>
      BY <1>3, <2>2, <3>3
    <3> QED
      BY <1>3, <2>2, <3>2, <3>4
  <2>12. ProgressOf(p)'
    BY <1>1, <1>5, <2>4, <2>5, <2>8, <2>9, <2>10, <2>11 DEF ProgressOf, At
  <2> QED
    BY <1>2, <2>5, <2>6, <2>7, <2>12, ArchiverKeepsRepo
<1> QED
  BY <1>6, <1>7

(* The append, in two parts, and the commit.                               *)
LEMMA RecordFields ==
  ASSUME WorkType, NEW p \in Procs, proc[p].s \in Sessions, proc[p].sha \in 0..MaxResults,
         NEW ended \in BOOLEAN, NEW x, x = Record(p, ended)
  PROVE  /\ x \in Line /\ x.id = proc[p].s /\ x.sha = proc[p].sha
         /\ x.dry = proc[p].dry /\ x.end = ended
<1>1. proc[p].dry \in BOOLEAN
  BY DEF WorkType, Process
<1> QED
  BY <1>1 DEF Record, Line

(* Writing the line end changes nothing else in the line.                  *)
LEMMA EndedRecord ==
  ASSUME NEW x \in Line, NEW y \in Line, y.id = x.id, y.sha = x.sha, y.dry = x.dry, y.end
  PROVE  [x EXCEPT !.end = TRUE] = y
  BY DEF Line

(* The working tree after the record or the line end is written.           *)
LEMMA TreeGrows ==
  ASSUME WorkspaceInv, RepoInv, NEW p \in Procs, ArchiveStep(p), UNCHANGED origin,
         proc[p].pc \in {"append", "newline"}, NEW ended \in BOOLEAN,
         repo' = [repo EXCEPT !.tree = Append(repo.head.lines, Record(p, ended))]
  PROVE  /\ RepoType' /\ Ledgers' /\ repo'.head = repo.head /\ repo'.branch = repo.branch
         /\ repo'.tree = Append(repo.head.lines, Record(p, ended))
         /\ repo'.rebasing = repo.rebasing
<1> DEFINE l == repo.head.lines
           x == Record(p, ended)
           r == Append(l, x)
<1>1. /\ RepoType /\ Ledgers /\ l \in Seq(Line) /\ proc[p].s \in Sessions
      /\ WorkType /\ ProgressOf(p)
  BY RepoFacts, ArchiverFacts DEF RepoInv, WorkspaceInv
<1>2. /\ proc[p].s \notin read_archived_ids(l)
      /\ proc[p].sha \in 0..MaxResults /\ repo.branch[proc[p].s] = proc[p].sha
      /\ ~proc[p].dry => origin.branch[proc[p].s] = proc[p].sha
  BY <1>1 DEF ProgressOf, At
<1>3. x \in Line /\ x.id = proc[p].s /\ x.sha = proc[p].sha /\ x.dry = proc[p].dry
  BY <1>1, <1>2, RecordFields
<1> HIDE DEF x
<1>4. repo.branch[x.id] \in Nat /\ (~x.dry => origin.branch[x.id] = x.sha)
  BY <1>2, <1>3
<1>5. origin.main.lines \in Seq(Line)
  BY <1>1, RepoFacts
<1>6. r \in Seq(Line) /\ Sound(r, origin.main.lines, origin.branch, repo.branch)
  BY <1>1, <1>2, <1>3, <1>4, <1>5, AppendOwnLine DEF Ledgers
<1> HIDE DEF r
<1>7. /\ repo' = [repo EXCEPT !.tree = r]
  BY DEF r, x
<1>8. /\ repo'.head = repo.head /\ repo'.branch = repo.branch /\ repo'.tree = r
      /\ repo'.rebasing = repo.rebasing
  BY <1>1, <1>7 DEF RepoType
<1>9. RepoType'
  BY <1>1, <1>6, <1>7 DEF RepoType
<1>10. Ledgers'
  BY <1>1, <1>6, <1>8 DEF Ledgers
<1> QED
  BY <1>8, <1>9, <1>10 DEF r, x

(* The record is appended, ...                                             *)
LEMMA AppendRecordKeeps ==
  ASSUME WorkspaceInv, RepoInv, NEW p \in Procs, AppendRecord(p)
  PROVE  RepoInv'
<1>1. /\ ArchiveStep(p) /\ UNCHANGED origin /\ At(p, "append") /\ Goto(p, "newline")
  BY DEF ArchiveStep, AppendRecord
<1>2. /\ ArchiverMoves(p) /\ proc[p].s \in Sessions /\ ProgressOf(p)
      /\ proc \in [Procs -> Process]
  BY <1>1, ArchiverFacts
<1>3. repo.tree = repo.head.lines /\ ~repo.rebasing
  BY <1>1, <1>2 DEF ProgressOf, At, Steps
<1>4. repo' = [repo EXCEPT !.tree = Append(repo.head.lines, Record(p, FALSE))]
  BY <1>3 DEF AppendRecord, build_session_record, Record
<1>5. /\ RepoType' /\ Ledgers' /\ repo'.head = repo.head /\ repo'.branch = repo.branch
      /\ repo'.tree = Append(repo.head.lines, Record(p, FALSE))
      /\ repo'.rebasing = repo.rebasing
  BY <1>1, <1>4, TreeGrows DEF At
<1>6. /\ proc'[p].pc = "newline" /\ proc'[p].s = proc[p].s /\ proc'[p].sha = proc[p].sha
      /\ proc'[p].dry = proc[p].dry
  BY <1>1, GotoEffect DEF PCs, Steps, WorkspaceInv
<1>7. Record(p, FALSE)' = Record(p, FALSE)
  BY <1>6 DEF Record
<1>8. ProgressOf(p)'
  BY <1>1, <1>2, <1>3, <1>5, <1>6, <1>7 DEF ProgressOf, At
<1> QED
  BY <1>2, <1>5, <1>8, ArchiverKeepsRepo

(* ... then the line end, ...                                              *)
LEMMA AppendLineEndKeeps ==
  ASSUME WorkspaceInv, RepoInv, NEW p \in Procs, AppendLineEnd(p)
  PROVE  RepoInv'
<1> DEFINE l == repo.head.lines
           x == Record(p, FALSE)
           y == Record(p, TRUE)
<1>1. /\ ArchiveStep(p) /\ UNCHANGED origin /\ At(p, "newline") /\ Goto(p, "commit")
      /\ repo' = [repo EXCEPT !.tree[Len(repo.tree)].end = TRUE]
  BY DEF ArchiveStep, AppendLineEnd
<1>2. /\ ArchiverMoves(p) /\ proc[p].s \in Sessions /\ ProgressOf(p)
      /\ proc \in [Procs -> Process] /\ l \in Seq(Line) /\ WorkType
  BY <1>1, ArchiverFacts, RepoFacts DEF RepoInv, WorkspaceInv
<1>3. /\ repo.tree = Append(l, x) /\ ~repo.rebasing
      /\ proc[p].sha \in 0..MaxResults /\ repo.branch[proc[p].s] = proc[p].sha
      /\ ~proc[p].dry => origin.branch[proc[p].s] = proc[p].sha
  BY <1>1, <1>2 DEF ProgressOf, At, Steps
<1>4. /\ x \in Line /\ x.id = proc[p].s /\ x.sha = proc[p].sha /\ x.dry = proc[p].dry
      /\ y \in Line /\ y.id = proc[p].s /\ y.sha = proc[p].sha /\ y.dry = proc[p].dry
      /\ y.end = TRUE
  BY <1>2, <1>3, RecordFields
<1>5. [x EXCEPT !.end = TRUE] = y /\ x \in Line /\ y \in Line
  BY <1>4, EndedRecord
<1> HIDE DEF l, x, y
<1>6. [repo.tree EXCEPT ![Len(repo.tree)].end = TRUE] = Append(l, y)
  <2> DEFINE t == [repo.tree EXCEPT ![Len(repo.tree)] = [x EXCEPT !.end = TRUE]]
  <2>1. repo.tree \in Seq(Line) /\ Len(repo.tree) = Len(l) + 1 /\ repo.tree[Len(repo.tree)] = x
    BY <1>2, <1>3, <1>5
  <2>2. [repo.tree EXCEPT ![Len(repo.tree)].end = TRUE] = t
    BY <2>1
  <2>3. t = [repo.tree EXCEPT ![Len(repo.tree)] = y]
    BY <1>5
  <2> HIDE DEF t
  <2>4. t \in Seq(Line) /\ Len(t) = Len(l) + 1 /\ t[Len(l) + 1] = y
        /\ \A i \in 1..Len(l) : t[i] = l[i]
    <3>1. Len(l) + 1 \in 1..Len(repo.tree) /\ DOMAIN repo.tree = 1..Len(repo.tree)
      BY <1>2, <2>1 DEF l
    <3>2. t = [repo.tree EXCEPT ![Len(l) + 1] = y]
      BY <2>1, <2>3
    <3>3. t \in Seq(Line) /\ Len(t) = Len(repo.tree)
          /\ t[Len(l) + 1] = y /\ \A i \in 1..Len(l) : t[i] = repo.tree[i]
      BY <1>2, <1>5, <2>1, <3>1, <3>2, ExceptSeq DEF l
    <3>4. \A i \in 1..Len(l) : repo.tree[i] = l[i]
      BY <1>2, <1>3, <1>5 DEF l
    <3> QED
      BY <2>1, <3>3, <3>4
  <2>5. Append(l, y) \in Seq(Line) /\ Len(Append(l, y)) = Len(l) + 1
        /\ Append(l, y)[Len(l) + 1] = y /\ \A i \in 1..Len(l) : Append(l, y)[i] = l[i]
    BY <1>2, <1>5
  <2>6. \A i \in 1..Len(t) : t[i] = Append(l, y)[i]
    BY <1>2, <2>4, <2>5
  <2>7. t = Append(l, y)
    BY <2>4, <2>5, <2>6, SeqEqual
  <2> QED
    BY <2>2, <2>7
<1>7. repo' = [repo EXCEPT !.tree = Append(repo.head.lines, Record(p, TRUE))]
  BY <1>1, <1>6 DEF l, y
<1>8. /\ RepoType' /\ Ledgers' /\ repo'.head = repo.head /\ repo'.branch = repo.branch
      /\ repo'.tree = Append(repo.head.lines, Record(p, TRUE))
      /\ repo'.rebasing = repo.rebasing
  BY <1>1, <1>7, TreeGrows DEF At
<1>9. /\ proc'[p].pc = "commit" /\ proc'[p].s = proc[p].s /\ proc'[p].sha = proc[p].sha
      /\ proc'[p].dry = proc[p].dry
  BY <1>1, GotoEffect DEF PCs, Steps, WorkspaceInv
<1>10. Record(p, TRUE)' = Record(p, TRUE)
  BY <1>9 DEF Record
<1>11. ProgressOf(p)'
  BY <1>1, <1>2, <1>3, <1>8, <1>9, <1>10 DEF ProgressOf, At
<1> QED
  BY <1>2, <1>8, <1>11, ArchiverKeepsRepo

(* ... then the tree is committed.                                         *)
LEMMA StageAndCommitKeeps ==
  ASSUME WorkspaceInv, RepoInv, NEW p \in Procs, stage_and_commit(p)
  PROVE  RepoInv'
<1> DEFINE l == repo.head.lines
           x == Record(p, TRUE)
<1>1. /\ ArchiveStep(p) /\ UNCHANGED origin /\ At(p, "commit") /\ (Finish(p) \/ Goto(p, "push"))
      /\ repo' = [repo EXCEPT !.head.lines = repo.tree]
  BY DEF ArchiveStep, stage_and_commit
<1>2. /\ ArchiverMoves(p) /\ proc[p].s \in Sessions /\ ProgressOf(p) /\ WorkType
      /\ proc \in [Procs -> Process] /\ l \in Seq(Line) /\ repo.tree \in Seq(Line)
      /\ RepoType /\ Ledgers /\ repo.head \in Tip
  BY <1>1, ArchiverFacts, RepoFacts DEF RepoInv, WorkspaceInv
<1>3. repo.tree = Append(l, x) /\ ~repo.rebasing /\ proc[p].sha \in 0..MaxResults
  BY <1>1, <1>2 DEF ProgressOf, At, Steps
<1>4. x \in Line /\ x.end = TRUE
  BY <1>2, <1>3, RecordFields
<1> HIDE DEF x
<1>5. repo.tree # <<>> /\ LastEnded(repo.tree)
  <2>1. /\ Append(l, x) # <<>> /\ Len(Append(l, x)) = Len(l) + 1
        /\ Append(l, x)[Len(l) + 1] = x
    BY <1>2, <1>4, AppendProperties
  <2> QED
    BY <1>3, <1>4, <2>1 DEF LastEnded
<1>6. /\ repo'.head = [repo.head EXCEPT !.lines = repo.tree] /\ repo'.tree = repo.tree
      /\ repo'.branch = repo.branch /\ repo'.rebasing = repo.rebasing
  BY <1>1, <1>2 DEF RepoType
<1>7. repo'.head \in Tip /\ repo'.head.lines = repo.tree
  BY <1>2, <1>6 DEF Tip
<1>8. RepoType'
  <2>1. repo' = [repo EXCEPT !.head = repo'.head]
    BY <1>1, <1>6
  <2> QED
    BY <1>1, <1>2, <1>7, <2>1 DEF RepoType
<1>9. Ledgers'
  BY <1>1, <1>2, <1>6, <1>7 DEF Ledgers
<1>10. ProgressOf(p)'
  <2>1. CASE Finish(p)
    BY <1>2, <2>1, FinishedProgress DEF WorkspaceInv
  <2>2. CASE Goto(p, "push")
    <3>1. proc'[p].pc = "push"
      BY <1>2, <2>2, GotoEffect DEF PCs, Steps
    <3> QED
      BY <1>3, <1>5, <1>6, <1>7, <3>1 DEF ProgressOf, At
  <2> QED
    BY <1>1, <2>1, <2>2
<1> QED
  BY <1>2, <1>6, <1>8, <1>9, <1>10, ArchiverKeepsRepo

(* A push that is accepted makes main origin's.                            *)
LEMMA PushMainKeeps ==
  ASSUME WorkspaceInv, RepoInv, NEW p \in Procs, PushMain(p)
  PROVE  RepoInv'
<1> DEFINE l == repo.head.lines
<1>1. /\ ArchiveStep(p) /\ UNCHANGED repo /\ At(p, "push") /\ Finish(p)
      /\ origin' = [origin EXCEPT !.main = repo.head]
  BY DEF ArchiveStep, PushMain
<1>2. /\ ArchiverMoves(p) /\ ProgressOf(p) /\ WorkType /\ Control
      /\ proc \in [Procs -> Process] /\ l \in Seq(Line)
      /\ RepoType /\ Ledgers /\ repo.head \in Tip
  BY <1>1, ArchiverFacts, RepoFacts DEF RepoInv, WorkspaceInv
<1>3. repo.tree = l /\ LastEnded(l)
  BY <1>1, <1>2 DEF ProgressOf, At, Steps
<1>4. origin'.main = repo.head /\ origin'.branch = origin.branch
  BY <1>1, <1>2 DEF RepoType
<1>5. RepoType'
  BY <1>1, <1>2 DEF RepoType
<1>6. Sound(l, l, origin.branch, repo.branch)
  BY <1>2, PushedIsSound DEF Ledgers
<1>7. Ledgers'
  BY <1>1, <1>3, <1>4, <1>6 DEF Ledgers
<1>8. ProgressOf(p)'
  BY <1>1, <1>2, FinishedProgress
<1> QED
  BY <1>1, <1>2, <1>5, <1>7, <1>8, ArchiverKeepsRepo

(* A push that is refused changes nothing.                                 *)
LEMMA PushRefusedKeeps ==
  ASSUME WorkspaceInv, RepoInv, NEW p \in Procs, PushRefused(p)
  PROVE  RepoInv'
<1>1. ArchiveStep(p) /\ UNCHANGED <<repo, origin>> /\ At(p, "push")
  BY DEF ArchiveStep, PushRefused
<1>2. ProgressOf(p)
  BY <1>1, ArchiverFacts
<1>3. CASE proc[p].tries = Retries
  <2>1. Finish(p)
    BY <1>3 DEF PushRefused
  <2> QED
    BY <1>1, <2>1, FinishedProgress, NothingInRepo DEF WorkspaceInv
<1>4. CASE proc[p].tries # Retries
  <2>1. proc'[p].pc = "retry"
    BY <1>4, PushRefusedMoves DEF WorkspaceInv
  <2>2. /\ repo.tree = repo.head.lines /\ ~repo.rebasing
        /\ repo.head.lines # <<>> /\ LastEnded(repo.head.lines)
    BY <1>1, <1>2 DEF ProgressOf, At, Steps
  <2>3. ProgressOf(p)'
    BY <1>1, <2>1, <2>2 DEF ProgressOf, At
  <2> QED
    BY <1>1, <2>3, NothingInRepo
<1> QED
  BY <1>3, <1>4

(* Every step of an archive.                                               *)
LEMMA ArchivesKeepRepo ==
  ASSUME WorkspaceInv, RepoInv, NEW p \in Procs, ArchiveStep(p)
  PROVE  RepoInv'
<1>1. CASE NetworkFails(p)
  <2>1. Finish(p) /\ UNCHANGED <<repo, origin>>
    BY <1>1 DEF NetworkFails
  <2> QED
    BY <2>1, FinishedProgress, NothingInRepo DEF WorkspaceInv
<1> QED
  BY <1>1, CheckArchiveKeeps, CommitBranchKeeps, PushBranchKeeps, PullRebaseKeeps,
     AppendRecordKeeps, AppendLineEndKeeps, StageAndCommitKeeps, PushMainKeeps, PushRefusedKeeps
  DEF ArchiveStep

(* An archive starts when there is no other.                               *)
LEMMA ArchiveStartsKeepRepo ==
  ASSUME WorkspaceInv, RepoInv, NEW p \in Procs,
         RunArchives(p) \/ \E s \in Sessions, dry \in BOOLEAN : ArchiveStart(p, s, dry)
  PROVE  RepoInv'
<1>1. /\ UNCHANGED <<dir, repo, origin>> /\ WorkType /\ proc \in [Procs -> Process]
      /\ \A q \in Procs : proc[q].pc \notin Steps
  BY DEF RunArchives, ArchiveStart, Archiving, WorkspaceInv, WorkType
<1>2. /\ \A q \in Procs \ {p} : proc'[q] = proc[q]
      /\ proc'[p].pc = "check"
      /\ proc'[p].only => proc[p].only /\ proc'[p].doomed = proc[p].doomed
  <2>1. CASE RunArchives(p)
    BY <1>1, <2>1, RunArchivesEffect
  <2>2. CASE \E s \in Sessions, dry \in BOOLEAN : ArchiveStart(p, s, dry)
    <3>1. PICK s \in Sessions : StartsArchive(p, s)
      BY <2>2, Zenon DEF StartsArchive
    <3> QED
      BY <1>1, <3>1, ArchiveStartEffect
  <2> QED
    BY <2>1, <2>2
<1>3. ArchiverMoves(p)
  BY <1>1, <1>2 DEF ArchiverMoves
<1>4. ProgressOf(p)'
  BY <1>2 DEF ProgressOf, At
<1>5. RepoType' /\ Ledgers'
  BY <1>1 DEF RepoInv, RepoType, Ledgers
<1> QED
  BY <1>1, <1>3, <1>4, <1>5, ArchiverKeepsRepo

-----------------------------------------------------------------------------
(* What the operator does about a working copy, and what peers push.       *)
LEMMA RepairsKeepRepo ==
  ASSUME WorkspaceInv, RepoInv, Restore \/ CommitByHand \/ FinishRebase \/ AbortRebase
  PROVE  RepoInv'
<1>1. /\ UNCHANGED <<dir, proc, origin>> /\ proc \in [Procs -> Process] /\ RepoType /\ Ledgers
      /\ \A q \in Procs : proc[q].pc \notin Steps
  BY DEF Restore, CommitByHand, FinishRebase, AbortRebase, Archiving, WorkspaceInv, WorkType, RepoInv
<1>2. /\ repo.head \in Tip /\ repo.head.lines \in Seq(Line) /\ repo.tree \in Seq(Line)
      /\ repo.onto \in 0..MaxPeers /\ 0 \in 0..MaxPeers
  BY <1>1, RepoFacts
<1>3. [repo.head EXCEPT !.lines = repo.tree] \in Tip /\ [lines |-> repo.tree, other |-> repo.onto] \in Tip
  BY <1>2 DEF Tip
<1>4. CASE Restore
  <2>1. RepoType' /\ repo'.head = repo.head /\ repo'.tree = repo.head.lines
        /\ repo'.branch = repo.branch
    BY <1>1, <1>2, <1>4 DEF Restore, RepoType
  <2> QED
    BY <1>1, <2>1, OthersKeepRepo, NoArchiveNoProgress DEF Progress, Ledgers
<1>5. CASE CommitByHand
  <2>1. /\ repo'.head = [repo.head EXCEPT !.lines = repo.tree] /\ repo'.tree = repo.tree
        /\ repo'.branch = repo.branch /\ repo' = [repo EXCEPT !.head.lines = repo.tree]
    BY <1>1, <1>5 DEF CommitByHand, RepoType
  <2>2. repo' = [repo EXCEPT !.head = repo'.head]
    BY <2>1
  <2>3. RepoType' /\ repo'.head.lines = repo.tree
    BY <1>1, <1>2, <1>3, <2>1, <2>2 DEF RepoType, Tip
  <2> QED
    BY <1>1, <2>1, <2>3, OthersKeepRepo, NoArchiveNoProgress DEF Progress, Ledgers
<1>6. CASE FinishRebase
  <2> DEFINE tip == [lines |-> repo.tree, other |-> repo.onto]
  <2>1. repo' = [repo EXCEPT !.rebasing = FALSE, !.head = tip, !.onto = 0]
    BY <1>6 DEF FinishRebase
  <2>2. tip \in Tip /\ tip.lines = repo.tree
    BY <1>3
  <2> HIDE DEF tip
  <2>3. RepoType' /\ repo'.head = tip /\ repo'.tree = repo.tree /\ repo'.branch = repo.branch
    BY <1>1, <1>2, <2>1, <2>2 DEF RepoType
  <2> QED
    BY <1>1, <2>2, <2>3, OthersKeepRepo, NoArchiveNoProgress DEF Progress, Ledgers
<1>7. CASE AbortRebase
  <2>1. RepoType' /\ repo'.head = repo.head /\ repo'.tree = repo.head.lines
        /\ repo'.branch = repo.branch
    BY <1>1, <1>2, <1>7 DEF AbortRebase, RepoType
  <2> QED
    BY <1>1, <2>1, OthersKeepRepo, NoArchiveNoProgress DEF Progress, Ledgers
<1> QED
  BY <1>4, <1>5, <1>6, <1>7

(* Peers append complete lines of their own, or commit other files.        *)
LEMMA PeersKeepRepo ==
  ASSUME WorkspaceInv, RepoInv, PeerCommits \/ \E f \in Foreign : PeerArchives(f)
  PROVE  RepoInv'
<1> DEFINE m == origin.main.lines
<1>1. /\ UNCHANGED <<dir, proc, repo>> /\ proc \in [Procs -> Process] /\ RepoType /\ Ledgers
      /\ PeerPushes < MaxPeers
  BY DEF PeerCommits, PeerArchives, WorkspaceInv, WorkType, RepoInv
<1>2. /\ origin.main \in Tip /\ m \in Seq(Line) /\ origin.main.other \in 0..MaxPeers
      /\ repo.head.lines \in Seq(Line) /\ repo.tree \in Seq(Line) /\ LastEnded(m)
  BY <1>1, RepoFacts DEF Ledgers
<1>3. CASE PeerCommits
  <2>1. origin' = [origin EXCEPT !.main.other = @ + 1]
    BY <1>3 DEF PeerCommits
  <2> DEFINE S == {i \in DOMAIN m : m[i].id \in Foreign}
  <2>2. Cardinality(S) \in Nat
    <3>0. Len(m) \in Int /\ 1 \in Int
      BY <1>2
    <3>1. IsFiniteSet(1..Len(m))
      BY <3>0, FS_Interval
    <3>2. IsFiniteSet(S)
      BY <1>2, <3>1, FS_Subset
    <3> QED
      BY <3>2, FS_CardinalityType
  <2>3. origin.main.other + Cardinality(S) < MaxPeers
    BY <1>1 DEF PeerPushes
  <2> HIDE DEF S
  <2>4. origin.main.other + 1 \in 0..MaxPeers
    BY <1>2, <2>2, <2>3
  <2>5. /\ origin'.main = [origin.main EXCEPT !.other = origin.main.other + 1]
        /\ origin'.branch = origin.branch
    BY <1>1, <2>1 DEF RepoType
  <2>6. origin'.main \in Tip /\ origin'.main.lines = m
    BY <1>2, <2>4, <2>5 DEF Tip
  <2>7. RepoType'
    <3>1. origin' = [origin EXCEPT !.main = origin'.main]
      BY <2>1, <2>5
    <3> QED
      BY <1>1, <2>6, <3>1 DEF RepoType
  <2>8. Ledgers'
    BY <1>1, <2>5, <2>6 DEF Ledgers
  <2>9. Progress'
    BY <1>1, <2>5 DEF RepoInv, Progress, ProgressOf, At, Record
  <2> QED
    BY <1>1, <2>7, <2>8, <2>9, OthersKeepRepo
<1>4. ASSUME NEW f \in Foreign, PeerArchives(f) PROVE RepoInv'
  <2> DEFINE y == [id |-> f, sha |-> 0, dry |-> FALSE, end |-> TRUE]
             M == Append(m, y)
  <2>1. origin' = [origin EXCEPT !.main.lines = M]
    BY <1>4 DEF PeerArchives
  <2>2. y \in Line /\ y.id \notin Sessions /\ y.end
    BY DEF Line
  <2> HIDE DEF y
  <2>3. /\ M \in Seq(Line) /\ LastEnded(M) /\ Sound(M, M, origin.branch, repo.branch)
        /\ Sound(repo.head.lines, M, origin.branch, repo.branch)
        /\ Sound(repo.tree, M, origin.branch, repo.branch)
    BY <1>1, <1>2, <2>2, AppendPeerLine DEF Ledgers
  <2> HIDE DEF M
  <2>4. /\ origin'.main = [origin.main EXCEPT !.lines = M] /\ origin'.branch = origin.branch
    BY <1>1, <2>1 DEF RepoType
  <2>5. origin'.main \in Tip /\ origin'.main.lines = M
    BY <1>2, <2>3, <2>4 DEF Tip
  <2>6. RepoType'
    <3>1. origin' = [origin EXCEPT !.main = origin'.main]
      BY <2>1, <2>4
    <3> QED
      BY <1>1, <2>5, <3>1 DEF RepoType
  <2>7. Ledgers'
    BY <1>1, <2>3, <2>4, <2>5 DEF Ledgers
  <2>8. Progress'
    BY <1>1, <2>4 DEF RepoInv, Progress, ProgressOf, At, Record
  <2> QED
    BY <1>1, <2>6, <2>7, <2>8, OthersKeepRepo
<1> QED
  BY <1>3, <1>4

-----------------------------------------------------------------------------
(* Every step.                                                             *)
Counters == used \in 0..MaxCommands /\ faults \in 0..MaxFaults

CountersMove ==
  /\ used' = used \/ (used < MaxCommands /\ used' = used + 1)
  /\ faults' = faults \/ (faults < MaxFaults /\ faults' = faults + 1)

(* Commands and faults stay within their bounds.                           *)
LEMMA CountersStep ==
  ASSUME Counters, [Next]_vars
  PROVE  Counters'
<1>0. SUFFICES CountersMove
  BY DEF Counters, CountersMove
<1>1. ASSUME NEW p \in Procs, ArchiveStep(p) PROVE CountersMove
  BY <1>1 DEF CountersMove, ArchiveStep, CheckArchive, CommitBranch, PushBranch, pull_rebase,
     AppendRecord, AppendLineEnd, stage_and_commit, PushMain, PushRefused, NetworkFails
<1>2. ASSUME NEW p \in Procs, RunArchives(p) \/ \E s \in Sessions, dry \in BOOLEAN : ArchiveStart(p, s, dry)
      PROVE  CountersMove
  BY <1>2 DEF CountersMove, RunArchives, ArchiveStart
<1>3. ASSUME NEW p \in Procs, RunOrPrune(p) PROVE CountersMove
  <2>1. CASE EndRun(p) \/ PruneEnd(p) \/ FetchFails(p) \/ (\E s \in Sessions : Delete(p, s))
    BY <2>1 DEF CountersMove, EndRun, PruneEnd, FetchFails, Delete
  <2>2. CASE \/ ReadSource(p) \/ AcquireLock(p) \/ Recheck(p) \/ ensure_cache(p)
             \/ clone_session_checkout(p) \/ WriteSource(p) \/ Work(p) \/ Kill(p)
    BY <2>2 DEF CountersMove, ReadSource, AcquireLock, Recheck, ensure_cache,
       clone_session_checkout, WriteSource, Work, Kill
  <2>3. CASE \/ \E s \in Sessions, k \in CacheIds : RunStart(p, s, k)
             \/ \E o, t \in BOOLEAN, y \in SUBSET Sessions : PruneStart(p, o, t, y)
    BY <2>3 DEF CountersMove, RunStart, PruneStart
  <2> QED
    BY <1>3, <2>1, <2>2, <2>3 DEF RunOrPrune
<1>4. CASE Upstream \/ Others
  <2>1. UNCHANGED <<used, faults>>
    BY <1>4 DEF Upstream, Others, Restore, CommitByHand, FinishRebase, AbortRebase,
       PeerArchives, PeerCommits
  <2> QED
    BY <2>1 DEF CountersMove
<1>5. CASE UNCHANGED vars
  BY <1>5 DEF CountersMove, vars
<1>6. CASE Next
  BY <1>1, <1>2, <1>3, <1>4, <1>6 DEF Next, Step, ArchiveStep, RunOrPrune, Others
<1> QED
  BY <1>5, <1>6

(* Every step keeps the invariant of the repository ...                    *)
LEMMA RepoStep ==
  ASSUME WorkspaceInv, RepoInv, [Next]_vars
  PROVE  RepoInv'
<1>1. CASE UNCHANGED vars \/ Upstream
  <2>1. UNCHANGED <<dir, proc, repo, origin>>
    BY <1>1 DEF vars, Upstream
  <2>2. RepoType' /\ Ledgers' /\ Progress' /\ proc \in [Procs -> Process]
    BY <2>1 DEF RepoInv, RepoType, Ledgers, Progress, ProgressOf, At, Record, WorkspaceInv, WorkType
  <2> QED
    BY <2>1, <2>2, OthersKeepRepo
<1>2. CASE Next
  BY <1>1, <1>2, ArchivesKeepRepo, ArchiveStartsKeepRepo, RunsAndPrunesKeepRepo, RepairsKeepRepo,
     PeersKeepRepo
  DEF Next, Step, ArchiveStep, RunOrPrune
<1> QED
  BY <1>1, <1>2

(* ... which holds at the start.                                           *)
LEMMA RepoStarts ==
  ASSUME Init
  PROVE  RepoInv /\ Counters
<1> DEFINE e == [s \in Sessions |-> None]
           l == <<>>
<1>1. e \in Branches
  BY DEF Branches
<1>2. l \in Seq(Line) /\ Len(l) = 0 /\ DOMAIN l = {}
  OBVIOUS
<1> HIDE DEF e, l
<1>3. [lines |-> l, other |-> 0] \in Tip
  BY <1>2 DEF Tip
<1>4. /\ repo = [head |-> [lines |-> l, other |-> 0], tree |-> l, rebasing |-> FALSE,
                 onto |-> 0, branch |-> e]
      /\ origin = [main |-> [lines |-> l, other |-> 0], branch |-> e]
  BY DEF Init, e, l
<1>5. RepoType
  BY <1>1, <1>2, <1>3, <1>4 DEF RepoType
<1>6. \A theirs, ours : Sound(l, l, theirs, ours)
  BY <1>2 DEF Sound, Once, Backed, Branched, Forked, ReadLines, OwnLines
<1>7. Ledgers
  <2>1. repo.head.lines = l /\ repo.tree = l /\ origin.main.lines = l
    BY <1>4
  <2> QED
    BY <1>6, <2>1 DEF Ledgers, LastEnded, l
<1>8. \A p \in Procs : proc[p] = Idle
  BY DEF Init
<1>9. OneArchive /\ Progress /\ Doomed
  BY <1>8, IdleFields, NoArchiveNoProgress DEF OneArchive, Progress, Doomed
<1>10. PrunedIsArchived
  <2>1. \A s \in Sessions : dir[s].pruned = "no"
    BY DEF Init, Absent
  <2> QED
    BY <2>1 DEF PrunedIsArchived
<1> QED
  BY <1>5, <1>7, <1>9, <1>10 DEF RepoInv, Counters, Init

(* The ledger, the working tree and origin's ledger stay as Ledgers        *)
(* relates them, one archive runs at a time and has done what Progress     *)
(* says: the inductive invariant of the operator repository.               *)
THEOREM RepoInvariant == Spec => [](RepoInv /\ Counters)
<1>1. Init => RepoInv /\ Counters
  BY RepoStarts
<1>2. WorkspaceInv /\ (RepoInv /\ Counters) /\ [Next]_vars => (RepoInv /\ Counters)'
  BY RepoStep, CountersStep
<1> QED
  BY <1>1, <1>2, WorkspaceInvariant, PTL DEF Spec

(* The two halves together: the inductive invariant of Operator.           *)
THEOREM OperatorInvariant == Spec => []IInv
<1>1. WorkspaceInv /\ RepoInv /\ Counters => IInv
  BY DEF WorkspaceInv, WorkType, RepoInv, RepoType, Counters, IInv, TypeOK, Branches
<1> QED
  BY <1>1, WorkspaceInvariant, RepoInvariant, PTL

(* Every directory, command, cache and ledger keeps the shape the code     *)
(* gives it, and every counter its bound.                                  *)
THEOREM OperatorTypes == Spec => []TypeOK
<1>1. IInv => TypeOK
  BY DEF IInv
<1> QED
  BY <1>1, OperatorInvariant, PTL

(* On origin a session has one readable line at most, and the line of an   *)
(* archive that was no dry run names what origin's branch of the session   *)
(* holds, whatever archives are killed, pushes refused, rebases finished   *)
(* or aborted by hand and lines appended by peers (archive, steps 4 to 6). *)
THEOREM LedgersAreSound == Spec => []LedgerIsSound
<1>1. RepoInv => LedgerIsSound
  BY DEF RepoInv, Ledgers, Sound, Once, Backed, ReadLines, OwnLines, LedgerIsSound
<1> QED
  BY <1>1, RepoInvariant, PTL

(* What `prune --archived-only` removes is on a session branch.            *)
THEOREM PrunedSessionsAreArchived == Spec => []PrunedIsArchived
<1>1. RepoInv => PrunedIsArchived
  BY DEF RepoInv
<1> QED
  BY <1>1, RepoInvariant, PTL

(* Once main's ledger has a session, no step moves the session's branch,   *)
(* here or on origin (the write-once contract of session-archive.md): the  *)
(* branch moves only between the check and the append of its own archive,  *)
(* and nothing else adds the line meanwhile.                               *)
THEOREM ArchivesArePermanent == Spec => ArchiveIsPermanent
<1> DEFINE Stays == \A s \in read_archived_ids(repo.head.lines) \cap Sessions :
                      repo'.branch[s] = repo.branch[s] /\ origin'.branch[s] = origin.branch[s]
<1>1. WorkspaceInv /\ RepoInv /\ [Next]_vars => [Stays]_vars
  <2> SUFFICES ASSUME WorkspaceInv, RepoInv, [Next]_vars PROVE Stays
    OBVIOUS
  <2>1. RepoType /\ repo.branch \in Branches /\ origin.branch \in Branches
    BY RepoFacts DEF RepoInv
  <2>2. CASE repo'.branch = repo.branch /\ origin'.branch = origin.branch
    BY <2>2
  <2>3. ASSUME NEW p \in Procs, ArchiveStep(p) PROVE Stays
    <3>1. ProgressOf(p) /\ proc[p].s \in Sessions
      BY <2>3, ArchiverFacts
    <3>2. CASE CommitBranch(p) \/ PushBranch(p)
      <4>1. proc[p].s \notin read_archived_ids(repo.head.lines)
        BY <3>1, <3>2 DEF ProgressOf, At, CommitBranch, PushBranch
      <4>2. \A s \in Sessions \ {proc[p].s} :
              repo'.branch[s] = repo.branch[s] /\ origin'.branch[s] = origin.branch[s]
        BY <2>1, <3>1, <3>2 DEF CommitBranch, PushBranch, RepoType, Branches
      <4> QED
        BY <4>1, <4>2
    <3>3. CASE ~CommitBranch(p) /\ ~PushBranch(p)
      <4>1. repo'.branch = repo.branch /\ origin'.branch = origin.branch
        BY <2>1, <2>3, <3>3 DEF ArchiveStep, CheckArchive, pull_rebase, AppendRecord, AppendLineEnd,
           stage_and_commit, PushMain, PushRefused, NetworkFails, RepoType
      <4> QED
        BY <4>1, <2>2
    <3> QED
      BY <3>2, <3>3
  <2>4. ASSUME NEW p \in Procs, RunOrPrune(p) PROVE UNCHANGED <<repo, origin>>
    BY <2>4 DEF RunOrPrune, EndRun, PruneEnd, FetchFails, Delete, ReadSource, AcquireLock, Recheck,
       ensure_cache, clone_session_checkout, WriteSource, Work, Kill, RunStart, PruneStart
  <2>5. ASSUME NEW p \in Procs, RunArchives(p) \/ \E s \in Sessions, dry \in BOOLEAN : ArchiveStart(p, s, dry)
        PROVE UNCHANGED <<repo, origin>>
    BY <2>5 DEF RunArchives, ArchiveStart
  <2>6. CASE Upstream \/ Others \/ UNCHANGED vars
    <3>1. repo'.branch = repo.branch /\ origin'.branch = origin.branch
      BY <2>1, <2>6 DEF Upstream, Others, Restore, CommitByHand, FinishRebase, AbortRebase,
         PeerArchives, PeerCommits, vars, RepoType
    <3> QED
      BY <2>2, <3>1
  <2> QED
    BY <2>2, <2>3, <2>4, <2>5, <2>6 DEF Next, Step, ArchiveStep, RunOrPrune, Others
<1> QED
  BY <1>1, WorkspaceInvariant, RepoInvariant, PTL DEF Spec, ArchiveIsPermanent
=============================================================================
