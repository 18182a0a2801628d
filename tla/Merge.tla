------------------------------- MODULE Merge -------------------------------
(***************************************************************************)
(* Phase 1.7 as functions: what the de-duplication leaves of the accepted  *)
(* analyses, what the merge agent makes of it, and the validation of its   *)
(* output (merge.rs) next to that of `session validate` (validate.rs).     *)
(*                                                                         *)
(* analyses[f] is None or [status, run, targets]; targets is a sequence of *)
(* [sig, class], where class stands for bucket, consensus routing and      *)
(* evidence: what may not differ between merged findings.  A pair <<f, i>> *)
(* is the i-th finding of family f.  The merge output is                   *)
(*   targets:  {[id, class, from, means]}, from the pairs of merged_from   *)
(*             and means (not in the file) the findings the agent had in   *)
(*             front of it;                                                *)
(*   rejected: {[pair, reason]}      lens: the families with a disposition.*)
(***************************************************************************)
EXTENDS Naturals, Sequences, FiniteSets

CONSTANTS Families, Signatures, None

ASSUME NoneIsNoFamily == None \notin Families \union Signatures

-----------------------------------------------------------------------------
accepted(analyses) ==
  {f \in Families : analyses[f] # None /\ analyses[f].status = "accepted"}

(* Every analyzer-emitted target by (family_id, target_index).             *)
expected_pairs(analyses) ==
  UNION {{<<f, i>> : i \in DOMAIN analyses[f].targets} : f \in accepted(analyses)}

Finding(analyses, pair) == analyses[pair[1]].targets[pair[2]]

(* The dedup decisions are pairs of the original arrays ...                *)
dedup_decisions(analyses, blocked) ==
  {p \in expected_pairs(analyses) : Finding(analyses, p).sig \in blocked}

(* ... and the prompt shows the arrays without them, closed up: the k-th   *)
(* shown finding of f is the one with k - 1 others that are left before it.*)
Kept(analyses, blocked, f) ==
  {i \in DOMAIN analyses[f].targets : analyses[f].targets[i].sig \notin blocked}
Original(analyses, blocked, f, k) ==
  CHOOSE i \in Kept(analyses, blocked, f) :
    Cardinality({j \in Kept(analyses, blocked, f) : j <= i}) = k
filter_accepted_for_dedup(analyses, blocked) ==
  [f \in accepted(analyses) |->
     [k \in 1..Cardinality(Kept(analyses, blocked, f)) |->
        analyses[f].targets[Original(analyses, blocked, f, k)]]]

dedup_rejections(analyses, blocked) ==
  {[pair |-> p, reason |-> "dedup"] : p \in dedup_decisions(analyses, blocked)}

-----------------------------------------------------------------------------
(* The output.                                                             *)

(* Coverage: no finding twice, none left out, none made up.                *)
covered_OnlyComplete(out, analyses) ==
  (UNION {t.from : t \in out.targets}) \union {r.pair : r \in out.rejected} = expected_pairs(analyses)
covered(out, analyses) ==
  LET merged == UNION {t.from : t \in out.targets}
      rejected == {r.pair : r \in out.rejected}
      duplicate == \/ \E s, t \in out.targets : s # t /\ s.from \intersect t.from # {}
                   \/ \E r, s \in out.rejected : r # s /\ r.pair = s.pair
                   \/ merged \intersect rejected # {}
  IN  ~duplicate /\ merged \union rejected = expected_pairs(analyses)

(* The `dedup:` rows are the coordinator's, no more and no fewer.          *)
dedup_rows_match(out, decisions) ==
  {r.pair : r \in {q \in out.rejected : q.reason = "dedup"}} = decisions

lens_covered(out, analyses) == out.lens = accepted(analyses)

(* One bucket, one consensus signature, one finding per family, and the    *)
(* evidence of exactly the contributors.                                   *)
groups_well(out, analyses) ==
  \A t \in out.targets :
    /\ \A p \in t.from \intersect expected_pairs(analyses) : Finding(analyses, p).class = t.class
    /\ \A p, q \in t.from : p[1] = q[1] => p = q

validate_merge_output_with_dedup(out, analyses, decisions) ==
  /\ \A t \in out.targets : t.from # {}
  /\ covered(out, analyses)
  /\ dedup_rows_match(out, decisions)
  /\ lens_covered(out, analyses)
  /\ groups_well(out, analyses)

(* The two checks of `session validate`, written a second time there.      *)
check_target_coverage_Targets(analyses, out) ==
  UNION {t.from : t \in out.targets} = expected_pairs(analyses)
check_target_coverage(analyses, out) ==
  LET accounted == (UNION {t.from : t \in out.targets}) \union {r.pair : r \in out.rejected}
      duplicate == \/ \E s, t \in out.targets : s # t /\ s.from \intersect t.from # {}
                   \/ \E t \in out.targets, r \in out.rejected : r.pair \in t.from
                   \/ \E r, s \in out.rejected : r # s /\ r.pair = s.pair
  IN  accounted = expected_pairs(analyses) /\ ~duplicate
check_lens_disposition_coverage(analyses, out) == out.lens = accepted(analyses)

-----------------------------------------------------------------------------
(* The agent.  It sees the closed-up arrays and numbers their entries as   *)
(* they are shown, or works the original positions out from the dedup rows *)
(* that are in the prompt too.                                             *)
Shown(analyses, blocked) ==
  LET arrays == filter_accepted_for_dedup(analyses, blocked)
  IN  UNION {{<<f, k>> : k \in DOMAIN arrays[f]} : f \in DOMAIN arrays}

(* Groupings that keep to the template's rules: a finding is a target of   *)
(* its own, shares one with a finding of another family, or is rejected.   *)
Groupings(analyses, blocked) ==
  LET arrays == filter_accepted_for_dedup(analyses, blocked)
      shown == Shown(analyses, blocked)
      At(p) == arrays[p[1]][p[2]]
      May(g) == \A p, q \in g : At(p).class = At(q).class /\ (p[1] = q[1] => p = q)
  IN  {gs \in SUBSET {g \in SUBSET shown : g # {} /\ May(g)} :
         \A g, h \in gs : g # h => g \intersect h = {}}

(* How it refers to the finding it sees as p, and which finding that is.   *)
Meant(analyses, blocked, p) == <<p[1], Original(analyses, blocked, p[1], p[2])>>
Number(analyses, blocked, renumbers, p) == IF renumbers THEN Meant(analyses, blocked, p) ELSE p

MergedTarget(analyses, blocked, renumbers, g) ==
  LET best == CHOOSE p \in g : TRUE
      finding == filter_accepted_for_dedup(analyses, blocked)[best[1]][best[2]]
  IN  [id |-> finding.sig, class |-> finding.class,
       from |-> {Number(analyses, blocked, renumbers, p) : p \in g},
       means |-> {Meant(analyses, blocked, p) : p \in g}]

(* What an agent that follows the template writes.                         *)
Compliant(analyses, blocked, renumbers) ==
  {[targets |-> {MergedTarget(analyses, blocked, renumbers, g) : g \in gs},
    rejected |-> {[pair |-> Number(analyses, blocked, renumbers, p), reason |-> "agent"] :
                    p \in Shown(analyses, blocked) \ UNION gs},
    lens |-> accepted(analyses)] : gs \in Groupings(analyses, blocked)}

(* And one that slips: forgets a finding or a lens, writes a dedup row of  *)
(* its own, or claims another finding as a contributor.                    *)
Slips(analyses, out) ==
  {[out EXCEPT !.targets = @ \ {t}] : t \in out.targets}
    \union {[out EXCEPT !.lens = @ \ {f}] : f \in out.lens}
    \union {[out EXCEPT !.rejected = (@ \ {r}) \union {[r EXCEPT !.reason = "dedup"]}] : r \in out.rejected}
    \union UNION {{[out EXCEPT !.targets = (@ \ {t}) \union {[t EXCEPT !.from = @ \union {p}]}] :
                     p \in expected_pairs(analyses) \ t.from} : t \in out.targets}
=============================================================================
