-------------------------- MODULE OptimizerMemory --------------------------
(***************************************************************************)
(* The optimizer memory (optimizer_memory.rs): what the prompts of a       *)
(* family's analyzers and optimizers are told about earlier attempts.      *)
(***************************************************************************)
EXTENDS History

CONSTANTS
  MaxAttempts,    \* MAX_ATTEMPTS_PER_SIGNATURE
  MaxSignatures   \* MAX_SIGNATURES_PER_FAMILY

ASSUME MemoryBounds == MaxAttempts \in Nat \ {0} /\ MaxSignatures \in Nat \ {0}

(* The elements of S, each once, so that <<a, b>> \in above when a comes   *)
(* before b.                                                               *)
SortedBy(S, above) ==
  CHOOSE s \in [1..Cardinality(S) -> S] :
    \A i, j \in DOMAIN s : i < j => s[i] # s[j] /\ <<s[i], s[j]>> \in above

(* Newest first, later session ids first among equals.                     *)
sort_attempts_newest_first_Reversed(attempts) ==
  SortedBy(attempts, {p \in attempts \X attempts :
                        \/ p[1].finished < p[2].finished
                        \/ p[1].finished = p[2].finished /\ p[1].session <= p[2].session})
sort_attempts_newest_first(attempts) ==
  SortedBy(attempts, {p \in attempts \X attempts :
                        \/ p[1].finished > p[2].finished
                        \/ p[1].finished = p[2].finished /\ p[1].session >= p[2].session})

(* The attempts at a fix that are filed under this family, and the fixes   *)
(* that have any, last finished first (by signature among equals, which is *)
(* left open).                                                             *)
AttemptsIn(ledger, family, sig) ==
  {a \in Attempts(ledger) : a.sig = sig /\ a.family = family}
SigsIn(ledger, family) == {a.sig : a \in {b \in Attempts(ledger) : b.family = family}}
latest_finished_at(ledger, family, sig) ==
  sort_attempts_newest_first(AttemptsIn(ledger, family, sig))[1].finished
signatures_for_family(ledger, family) ==
  LET sigs == SigsIn(ledger, family)
      order == SortedBy(sigs, {p \in sigs \X sigs :
                                 latest_finished_at(ledger, family, p[1])
                                   >= latest_finished_at(ledger, family, p[2])})
  IN  [i \in DOMAIN order |->
         [sig |-> order[i],
          attempts |-> sort_attempts_newest_first(AttemptsIn(ledger, family, order[i]))]]

-----------------------------------------------------------------------------
Truncate(s, n) == SubSeq(s, 1, IF Len(s) < n THEN Len(s) ELSE n)

(* An attempt as the prompt shows it: with what became of its PR or issue. *)
attempt_from_projection(events, a) ==
  LET url == IF a.pr # None THEN a.pr ELSE a.issue IN
  [session |-> a.session, finished |-> a.finished, status |-> a.status,
   lifecycle |-> IF url = None THEN None ELSE latest_artifact_state(events, url)]

signature_row(events, s) ==
  LET shown == Truncate(s.attempts, MaxAttempts) IN
  [sig |-> s.sig, attempts |-> [i \in DOMAIN shown |-> attempt_from_projection(events, shown[i])],
   omitted |-> Len(s.attempts) - Len(shown)]

build_for_family(ledger, events, family) ==
  LET sigs == signatures_for_family(ledger, family)
      shown == Truncate(sigs, MaxSignatures)
  IN  [signatures |-> [i \in DOMAIN shown |-> signature_row(events, shown[i])],
       omitted |-> Len(sigs) - Len(shown)]
=============================================================================
