--------------------------- MODULE LoopInvariants ---------------------------
(***************************************************************************)
(* What makes the invariants of Loop inductive: who may still publish what,*)
(* how time, invocations and the ledgers' lines are ordered, and what a   *)
(* running session knew when it made its plan.                             *)
(***************************************************************************)
EXTENDS Loop, OptimizerMemory

(* A session's number is its own: it runs, or the ledger may have it, or   *)
(* objects on GitHub may be of it.                                         *)
Numbered ==
  /\ IsFiniteSet(running) /\ Cardinality(running) <= Parallel
  /\ Len(ledger) + Cardinality(running) <= started
  /\ \A s \in running : s.id <= started
  /\ \A s, t \in running : s.id = t.id => s = t
  /\ \A i \in DOMAIN ledger : ledger[i].id <= started /\ \A s \in running : s.id # ledger[i].id
  /\ \A u \in Urls : u[1] <= started /\ \A s \in running : s.id # u[1]

(* Time passes only in the interval after a session that was archived.     *)
Timed ==
  /\ clock <= Len(ledger) * MinInterval
  /\ \A i \in DOMAIN ledger : ledger[i].finished <= clock /\ ledger[i].finished <= (i - 1) * MinInterval
  /\ \A i, j \in DOMAIN ledger : i <= j => ledger[i].finished <= ledger[j].finished

(* What maintain has seen, recorded or not, and of its invocations: one    *)
(* that runs alone on a URL has seen the final state that a line tells,    *)
(* and its line comes after all that are stamped earlier.                  *)
Seen == Rng(events) \union {w \in watch : w.kind # None}
True(e) ==
  /\ e.kind \in PrKinds <=> github[e.url].kind \in PrKinds
  /\ e.kind \in Terminal => github[e.url].kind = e.kind
Observed ==
  /\ \A w \in watch : w.url \in Urls
  /\ \A e \in Seen : True(e)
  /\ \A w \in watch : ~w.overlap => About(w.url) = {w}
  /\ \A i \in DOMAIN events : \A w \in About(events[i].url) :
       /\ ~events[i].overlap => events[i].at <= w.at
       /\ events[i].kind \in Terminal /\ w.kind # None /\ ~w.overlap => w.kind = events[i].kind
  /\ \A i, j \in DOMAIN events : events[i].url = events[j].url /\ i < j =>
       /\ ~events[i].overlap => events[i].at <= events[j].at
       /\ events[i].kind \in Terminal /\ ~events[j].overlap => events[j].kind = events[i].kind

(* The objects the ledger names exist and are what it says.                *)
Traced ==
  /\ IsFiniteSet(Rows)
  /\ \A r \in Rows : /\ r.pr # None => r.pr \in Urls /\ github[r.pr].kind \in PrKinds
                     /\ r.issue # None => r.issue \in Urls /\ github[r.issue].kind \in IssueKinds

(* What a session or an object was based on.                               *)
Informed(knew, sig) ==
  /\ knew[1] <= Len(ledger) /\ knew[2] <= Len(events)
  /\ KnownWork(knew, sig) = {}
  /\ Threshold > 0 => Cardinality(KnownFailures(knew, sig)) < Threshold
Prepared ==
  /\ \A s \in running : s.pc = "publish" =>
       /\ IsFiniteSet(s.rows) /\ Cardinality(s.rows) <= MaxRows
       /\ \A t, q \in s.rows : t.sig = q.sig => t = q
       /\ \A t \in s.rows : Informed(s.knew, t.sig)
  /\ \A u \in Urls : Informed(github[u].knew, github[u].sig)

IInv == TypeOK /\ Numbered /\ Timed /\ Observed /\ Traced /\ Prepared /\ ReviewQueueBounded

----------------------------------------------------------------------------
(* What the memory of a family leaves out is no newer than what it shows:  *)
(* an attempt is missing only if the row of its fix is full of attempts    *)
(* as new, or if there is no room for its fix and each that is shown was   *)
(* tried as lately (truncation after sorting, at both levels).             *)
MemoryHoldsNewest ==
  \A f \in Families, a \in Attempts(ledger) :
    LET shown == build_for_family(ledger, events, f).signatures
        NoNewer(row) == \A k \in DOMAIN row : row[k].finished >= a.finished
    IN  a.family = f =>
          \/ \E i \in DOMAIN shown :
               /\ shown[i].sig = a.sig
               /\ \/ attempt_from_projection(events, a) \in Rng(shown[i].attempts)
                  \/ Len(shown[i].attempts) = MaxAttempts /\ NoNewer(shown[i].attempts)
          \/ /\ Len(shown) = MaxSignatures
             /\ \A i \in DOMAIN shown : shown[i].attempts[1].finished >= a.finished
=============================================================================
