----------------------------- MODULE Rejections -----------------------------
(***************************************************************************)
(* The analyzed-rejections ledger (analyzed_rejections.rs) and the         *)
(* commands that share it: analyzers and `rejections append` add a record, *)
(* triage agents probe it, operators trim and remove.  Any number of       *)
(* processes run at once, each may be killed between two system calls.     *)
(*                                                                         *)
(* A line of the file is the sequence of texts written since the last line *)
(* end, because an append is two writes (the text, then its line end): a   *)
(* kill between them leaves an unfinished line that the next append is     *)
(* glued to.  A record's text stands for itself; a write that is cut short *)
(* leaves the beginning of one, which ends between two characters (Cut) or *)
(* inside one (Torn): a line with such an end is not UTF-8.                *)
(***************************************************************************)
EXTENDS Naturals, Sequences, FiniteSets

CONSTANTS
  Procs,      \* processes that run a rejections command or append a record
  Asks,       \* what a family is known by: family, lens, kind, spans, contract, sha
  Texts,      \* what spans and contract keys say, white space around them aside
  Blank,      \* the text of one that is nothing but white space
  Star,       \* the text "*"
  Printed,    \* the line that compute_fingerprint formats, of its four parts
  None,       \* an absent option
  Cut, Torn,  \* the beginning of a record's text: whole characters, or not
  Keeps,      \* the numbers given to --keep-last
  MaxTs,      \* bound on the clock
  MaxRecords, \* bound on the records appended
  MaxEdits,   \* bound on trim and remove commands
  MaxCrashes  \* bound on kills

ASSUME RejectionBounds ==
  /\ MaxTs \in Nat /\ MaxRecords \in Nat /\ MaxEdits \in Nat /\ MaxCrashes \in Nat
  /\ Keeps \subseteq Nat

VARIABLES
  file,      \* the lines of analyzed-rejections.jsonl
  ended,     \* the last line has its line end
  lock,      \* the process that holds memory.lock exclusively, or None
  proc,      \* what each process is doing
  clock,     \* now_utc_iso8601
  made,      \* records built so far
  edits,     \* trim and remove commands started so far
  crashes,   \* kills so far
  acked,     \* records whose append reported success
  dropped,   \* records that a trim or remove was asked to drop
  strays     \* records without a sha that stood there when a --before-sha took effect

vars == <<file, ended, lock, proc, clock, made, edits, crashes, acked, dropped, strays>>

-----------------------------------------------------------------------------
Rng(s) == {s[i] : i \in DOMAIN s}

(* What is left of a sequence when only these of its places are kept.      *)
Pick(s, keep) ==
  LET Nth(k) == CHOOSE i \in keep : Cardinality({j \in keep : j <= i}) = k
  IN  [k \in 1..Cardinality(keep) |-> s[Nth(k)]]

-----------------------------------------------------------------------------
(* Families and fingerprints.  A span or contract key as someone wrote it  *)
(* is its text, padded with white space or not.                            *)
Spelling == [text : Texts, padded : BOOLEAN]

(* Trimmed, without blanks, sorted and deduplicated: a set of texts.       *)
canonical_spans_KeepsBlanks(spans) == {span.text : span \in Rng(spans)}
canonical_spans(spans) == {span.text : span \in Rng(spans)} \ {Blank}

(* A contract is looked at trimmed, but kept as it was written.            *)
canonical_contract(c) == IF c = None \/ c.text = Blank THEN None ELSE c

(* lens|kind|spans joined by commas|contract or "*".  Spans and contracts  *)
(* may hold any of the separators, so different families can print alike:  *)
(* nothing is assumed of Printed.                                          *)
NoContract == [text |-> Star, padded |-> FALSE]
compute_fingerprint(ask) ==
  LET contract == canonical_contract(ask.contract)
  IN  Printed[<<ask.lens, ask.kind, canonical_spans(ask.spans),
                IF contract = None THEN NoContract ELSE contract>>]

fingerprint_specific_enough(ask) ==
  (\E i \in DOMAIN ask.spans : ask.spans[i].text # Blank) \/ canonical_contract(ask.contract) # None

Record(n, ask, ts) ==
  [id |-> n, family |-> ask.family, sha |-> ask.sha, ts |-> ts,
   fingerprint |-> compute_fingerprint(ask), ask |-> ask]

Shas == {a.sha : a \in Asks} \ {None}
Families == {a.family : a \in Asks}
Fingerprints == {compute_fingerprint(a) : a \in Asks}
Rec == [id : 0..MaxRecords, family : Families, sha : Shas \union {None}, ts : 0..MaxTs,
        fingerprint : Fingerprints, ask : Asks]

ASSUME NoneAssumption == None \notin Procs \union Families \union Fingerprints
ASSUME CutAssumption == {Cut, Torn} \cap Rec = {}
ASSUME SpellingAssumption ==
  /\ None \notin Spelling /\ {Blank, Star} \subseteq Texts /\ Blank # Star
  /\ \A a \in Asks : a.contract \in Spelling \union {None}

-----------------------------------------------------------------------------
(* Reading.                                                                *)

(* lines() fails on a line that is not UTF-8, and the load with it:        *)
(* whatever else the file holds, nobody can read it any more.              *)
Legible(f) == \A i \in DOMAIN f : Torn \notin Rng(f[i])

(* The records of a legible file.  A line that is not exactly one record   *)
(* does not parse and is skipped.                                          *)
load_all_locked(f) ==
  LET Parses(line) == Len(line) = 1 /\ line[1] \notin {Cut, Torn}
      good == Pick(f, {i \in DOMAIN f : Parses(f[i])})
  IN  [i \in DOMAIN good |-> good[i][1]]

(* with_shared_lock: a reader waits for the exclusive holder only; reading *)
(* under the lock is one step because no writer can move meanwhile.        *)
CanRead == lock = None

by_fingerprint(recs, fp) == Pick(recs, {i \in DOMAIN recs : recs[i].fingerprint = fp})

(* The answer of probe: empty without reading when the question is broad,  *)
(* an error without an answer when the file cannot be read.                *)
probe(f, ask) ==
  IF fingerprint_specific_enough(ask) /\ Legible(f)
  THEN by_fingerprint(load_all_locked(f), compute_fingerprint(ask)) ELSE <<>>

-----------------------------------------------------------------------------
(* The filters of trim and remove.                                         *)

(* Newest first; records of one time stay in file order (the code has them *)
(* by family).                                                             *)
Before(recs, j, i) == recs[j].ts > recs[i].ts \/ (recs[j].ts = recs[i].ts /\ j < i)
NewestFirst(recs) ==
  LET Nth(k) == CHOOSE i \in DOMAIN recs : Cardinality({j \in DOMAIN recs : Before(recs, j, i)}) = k - 1
  IN  [k \in DOMAIN recs |-> recs[Nth(k)]]

(* A record stays when fewer than n of its family come before it; what     *)
(* stays is sorted.                                                        *)
Newer(recs, i) == {j \in DOMAIN recs : recs[j].family = recs[i].family /\ Before(recs, j, i)}
keep_last_per_family_OffByOne(recs, n) ==
  NewestFirst(Pick(recs, {i \in DOMAIN recs : Cardinality(Newer(recs, i)) + 1 < n}))
keep_last_per_family(recs, n) ==
  NewestFirst(Pick(recs, {i \in DOMAIN recs : Cardinality(Newer(recs, i)) < n}))

(* apply_filters: --before, --before-sha and --keep-last in this order.  A *)
(* record without a sha does not survive --before-sha.  (A sha stands for  *)
(* those that begin with the one the operator gave.)                       *)
RetainDate(recs, before) ==
  IF before = None THEN recs ELSE Pick(recs, {i \in DOMAIN recs : recs[i].ts >= before})
RetainSha(recs, sha) ==
  IF sha = None THEN recs
  ELSE Pick(recs, {i \in DOMAIN recs : recs[i].sha # None /\ recs[i].sha # sha})
apply_filters(recs, edit) ==
  LET kept == RetainSha(RetainDate(recs, edit.before), edit.before_sha)
  IN  IF edit.keep_last = None THEN kept ELSE keep_last_per_family(kept, edit.keep_last)

remove_filter(recs, edit) ==
  Pick(recs, {i \in DOMAIN recs : IF edit.family # None THEN recs[i].family # edit.family
                                  ELSE recs[i].fingerprint # edit.fingerprint})

Filter(recs, edit) ==
  IF edit.op = "trim" THEN apply_filters(recs, edit) ELSE remove_filter(recs, edit)

TrimEdits ==
  {e \in [op : {"trim"}, before : (1..MaxTs) \union {None}, before_sha : Shas \union {None},
          keep_last : Keeps \union {None}] :
     e.before # None \/ e.before_sha # None \/ e.keep_last # None}
RemoveEdits ==
  [op : {"remove"}, family : Families, fingerprint : {None}]
    \union [op : {"remove"}, family : {None}, fingerprint : Fingerprints]
Edits == TrimEdits \union RemoveEdits

-----------------------------------------------------------------------------
Idle == [pc |-> "idle"]

Init ==
  /\ file = <<>> /\ ended = TRUE /\ lock = None
  /\ proc = [p \in Procs |-> Idle]
  /\ clock = 0 /\ made = 0 /\ edits = 0 /\ crashes = 0
  /\ acked = {} /\ dropped = {} /\ strays = {}

Tick ==
  /\ clock < MaxTs /\ clock' = clock + 1
  /\ UNCHANGED <<file, ended, lock, proc, made, edits, crashes, acked, dropped, strays>>

(* append before the lock: a record with a broad fingerprint is skipped    *)
(* with a warning.                                                         *)
append(p, rec) ==
  proc' = [proc EXCEPT ![p] = IF fingerprint_specific_enough(rec.ask)
                              THEN [pc |-> "append", rec |-> rec] ELSE Idle]

(* `rejections append`, and the analyzers' own append: the record is built *)
(* and its time taken before the lock is asked for.                        *)
AppendCommand(p) ==
  /\ proc[p].pc = "idle" /\ made < MaxRecords
  /\ \E ask \in Asks : append(p, Record(made, ask, clock))
  /\ made' = made + 1
  /\ UNCHANGED <<file, ended, lock, clock, edits, crashes, acked, dropped, strays>>

WriteText(f, e, text) ==
  IF e THEN Append(f, <<text>>) ELSE [f EXCEPT ![Len(f)] = Append(@, text)]

(* append_locked: the lock is taken and the text written ...               *)
AppendText_Unlocked(p) ==
  /\ proc[p].pc = "append"
  /\ lock' = p
  /\ file' = WriteText(file, ended, proc[p].rec) /\ ended' = FALSE
  /\ proc' = [proc EXCEPT ![p].pc = "text"]
  /\ UNCHANGED <<clock, made, edits, crashes, acked, dropped, strays>>
AppendText(p) ==
  /\ proc[p].pc = "append" /\ lock = None
  /\ lock' = p
  /\ file' = WriteText(file, ended, proc[p].rec) /\ ended' = FALSE
  /\ proc' = [proc EXCEPT ![p].pc = "text"]
  /\ UNCHANGED <<clock, made, edits, crashes, acked, dropped, strays>>

(* ... then its line end, and the lock released.                           *)
AppendLineEnd(p) ==
  /\ proc[p].pc = "text"
  /\ ended' = TRUE /\ lock' = None
  /\ acked' = acked \union {proc[p].rec}
  /\ proc' = [proc EXCEPT ![p] = Idle]
  /\ UNCHANGED <<file, clock, made, edits, crashes, dropped, strays>>

(* The write of the text stops half way (disk full, kill).                 *)
AppendCut(p) ==
  /\ proc[p].pc = "append" /\ lock = None /\ crashes < MaxCrashes
  /\ crashes' = crashes + 1
  /\ \E piece \in {Cut, Torn} : file' = WriteText(file, ended, piece)
  /\ ended' = FALSE
  /\ proc' = [proc EXCEPT ![p] = Idle]
  /\ UNCHANGED <<lock, clock, made, edits, acked, dropped, strays>>

(* The preview of an edit: a load that fails, nothing matched, or no --yes,*)
(* ends the command.                                                       *)
Preview(p, edit) ==
  LET recs == load_all_locked(file) IN
  /\ Legible(file)
  /\ Len(Filter(recs, edit)) < Len(recs)
  /\ proc' = [proc EXCEPT ![p] = [pc |-> "rewrite", edit |-> edit, seen |-> recs]]

TrimCommand(p) ==
  /\ proc[p].pc = "idle" /\ edits < MaxEdits /\ CanRead
  /\ \E edit \in TrimEdits : Preview(p, edit)
  /\ edits' = edits + 1
  /\ UNCHANGED <<file, ended, lock, clock, made, crashes, acked, dropped, strays>>

RemoveCommand(p) ==
  /\ proc[p].pc = "idle" /\ edits < MaxEdits /\ CanRead
  /\ \E edit \in RemoveEdits : Preview(p, edit)
  /\ edits' = edits + 1
  /\ UNCHANGED <<file, ended, lock, clock, made, crashes, acked, dropped, strays>>

(* load_filter_and_rewrite: load and filter again under the exclusive      *)
(* lock, into the temporary file ...                                       *)
WriteTmp_FromPreview(p) ==
  /\ proc[p].pc = "rewrite" /\ lock = None
  /\ lock' = p
  /\ proc' = [proc EXCEPT ![p] = [pc |-> "rename", edit |-> @.edit, tmp |-> Filter(@.seen, @.edit)]]
  /\ UNCHANGED <<file, ended, clock, made, edits, crashes, acked, dropped, strays>>
WriteTmp(p) ==
  /\ proc[p].pc = "rewrite" /\ lock = None /\ Legible(file)
  /\ lock' = p
  /\ proc' = [proc EXCEPT ![p] = [pc |-> "rename", edit |-> @.edit,
                                  tmp |-> Filter(load_all_locked(file), @.edit)]]
  /\ UNCHANGED <<file, ended, clock, made, edits, crashes, acked, dropped, strays>>

(* The load fails, if an append was cut inside a character meanwhile.      *)
LoadFails(p) ==
  /\ proc[p].pc = "rewrite" /\ lock = None /\ ~Legible(file)
  /\ proc' = [proc EXCEPT ![p] = Idle]
  /\ UNCHANGED <<file, ended, lock, clock, made, edits, crashes, acked, dropped, strays>>

(* What an edit asks to drop of a set of records, as the help of trim and  *)
(* remove has it: older than the date; measured at the sha (a record       *)
(* without one is "NOT trimmed by this filter"); at least keep_last other  *)
(* survivors of the family are as new; of the named family or fingerprint. *)
AskedToDrop(all, edit) ==
  LET tooOld(r) == edit.before # None /\ r.ts < edit.before
      atSha(r) == edit.before_sha # None /\ r.sha = edit.before_sha
      asNew(r) == {s \in all : s.family = r.family /\ s # r /\ s.ts >= r.ts /\ ~tooOld(s) /\ ~atSha(s)}
  IN  IF edit.op = "trim"
      THEN {r \in all : \/ tooOld(r) \/ atSha(r)
                        \/ edit.keep_last # None /\ Cardinality(asNew(r)) >= edit.keep_last}
      ELSE {r \in all : r.family = edit.family \/ r.fingerprint = edit.fingerprint}

(* The records that the code and the help of --before-sha disagree about.  *)
Shaless(all, edit) ==
  {r \in all : edit.op = "trim" /\ edit.before_sha # None /\ r.sha = None}

Stored == Rng(load_all_locked(file))

(* ... which then replaces the ledger, and the lock released.              *)
Rename(p) ==
  /\ proc[p].pc = "rename"
  /\ file' = [i \in DOMAIN proc[p].tmp |-> <<proc[p].tmp[i]>>]
  /\ ended' = TRUE /\ lock' = None
  /\ dropped' = dropped \union AskedToDrop(Stored, proc[p].edit)
  /\ strays' = strays \union Shaless(Stored, proc[p].edit)
  /\ proc' = [proc EXCEPT ![p] = Idle]
  /\ UNCHANGED <<clock, made, edits, crashes, acked>>

(* A kill, or a failing write or rename: the operating system releases the *)
(* lock with its holder.                                                   *)
Crash_KeepsLock(p) ==
  /\ proc[p].pc # "idle" /\ crashes < MaxCrashes
  /\ crashes' = crashes + 1
  /\ proc' = [proc EXCEPT ![p] = Idle]
  /\ UNCHANGED <<file, ended, lock, clock, made, edits, acked, dropped, strays>>
Crash(p) ==
  /\ proc[p].pc # "idle" /\ crashes < MaxCrashes
  /\ crashes' = crashes + 1
  /\ lock' = IF lock = p THEN None ELSE lock
  /\ proc' = [proc EXCEPT ![p] = Idle]
  /\ UNCHANGED <<file, ended, clock, made, edits, acked, dropped, strays>>

Step(p) ==
  AppendText(p) \/ AppendLineEnd(p) \/ WriteTmp(p) \/ LoadFails(p) \/ Rename(p)

Next ==
  \/ Tick
  \/ \E p \in Procs : \/ AppendCommand(p) \/ TrimCommand(p) \/ RemoveCommand(p)
                       \/ Step(p) \/ AppendCut(p) \/ Crash(p)

Spec == Init /\ [][Next]_vars

(* A started command goes on; whoever waits for the lock gets it in turn   *)
(* when it is free again and again.  This is SF_vars(Step(p)), with what   *)
(* enables Step(p) told as a predicate that TLC need not search for.       *)
CanStep(p) ==
  \/ proc[p].pc \in {"append", "rewrite"} /\ lock = None
  \/ proc[p].pc \in {"text", "rename"}
Fairness == \A p \in Procs : []<>CanStep(p) => []<><<Step(p)>>_vars
FairSpec == Spec /\ Fairness

-----------------------------------------------------------------------------
(* What a reader gets.                                                     *)
Loadable == IF Legible(file) THEN Stored ELSE {}

Commands ==
  {Idle} \union [pc : {"append", "text"}, rec : Rec]
    \union [pc : {"rewrite"}, edit : Edits, seen : Seq(Rec)]
    \union [pc : {"rename"}, edit : Edits, tmp : Seq(Rec)]

TypeOK ==
  /\ file \in Seq(Seq(Rec \union {Cut, Torn})) /\ ended \in BOOLEAN /\ lock \in Procs \union {None}
  /\ proc \in [Procs -> Commands]
  /\ clock \in 0..MaxTs /\ made \in 0..MaxRecords
  /\ edits \in 0..MaxEdits /\ crashes \in 0..MaxCrashes
  /\ \A p \in Procs : proc[p].pc \in {"text", "rename"} => lock = p
  /\ acked \subseteq Rec /\ dropped \subseteq Rec /\ strays \subseteq Rec

(* A rejection whose append reported success still stands on a line of its *)
(* own, unless some trim or remove was asked to drop it or an unfinished   *)
(* append spoiled the line: at most one record is spoiled per kill or      *)
(* failed write, and none is lost to two commands running at once.  That   *)
(* is about the file: it may be illegible (OneBadLineIsSkipped), and       *)
(* nothing is promised for a record without a sha once a --before-sha ran  *)
(* (ShalessAreKept).                                                       *)
LossIsBounded == Cardinality(acked \ (Stored \union dropped \union strays)) <= crashes

(* "Skips lines that fail to parse ... a single corrupt line shouldn't     *)
(* block the bot" (analyzed_rejections.rs:253): what is on disk is read.   *)
(* Not true of the code: no run has this definition (README).              *)
OneBadLineIsSkipped == lock = None => Stored \subseteq Loadable

(* Of the records that help and code agree about, a rewrite keeps what it  *)
(* was not asked to drop and drops what it was asked to drop beyond doubt  *)
(* (no other of its time competes), and it adds none.                      *)
RewriteDropsWhatWasAsked ==
  [][\A p \in Procs : proc[p].pc = "rename" /\ file' # file =>
       LET rest == Stored \ Shaless(Stored, proc[p].edit)
           asked == AskedToDrop(rest, proc[p].edit)
       IN  /\ rest \ asked \subseteq Stored'
           /\ Stored' \subseteq Stored
           /\ {r \in asked : \A s \in Stored \ {r} : s.ts # r.ts} \intersect Stored' = {}]_vars

(* "Records without a recorded sha are NOT trimmed by this filter"         *)
(* (cli/rejections/trim.rs:20, the help of --before-sha): a trim that is   *)
(* given nothing else keeps them.  Not true of the code: no run has this   *)
(* definition (README, Disagreements found).                               *)
ShalessAreKept ==
  [][\A p \in Procs : proc[p].pc = "rename" /\ file' # file =>
       LET edit == proc[p].edit
       IN  edit.op = "trim" /\ edit.before = None /\ edit.keep_last = None
             => Shaless(Stored, edit) \subseteq Stored']_vars

(* However its spans are ordered, repeated or padded, a family that was    *)
(* rejected before is found by the probe of a later session that writes    *)
(* its contract as it was written then, or has none; and a probe without a *)
(* span or contract finds nothing.                                         *)
Same(a, b) ==
  LET Spans(x) == {span.text : span \in Rng(x.spans)} \ {Blank}
      HasContract(x) == x.contract # None /\ x.contract.text # Blank
  IN  /\ a.lens = b.lens /\ a.kind = b.kind /\ Spans(a) = Spans(b)
      /\ HasContract(a) = HasContract(b)
      /\ HasContract(a) => a.contract = b.contract
Broad(a) ==
  /\ {span.text : span \in Rng(a.spans)} \subseteq {Blank}
  /\ a.contract = None \/ a.contract.text = Blank
ProbeFindsRejections ==
  \A ask \in Asks :
    LET hits == Rng(probe(file, ask)) IN
    /\ {r \in acked \intersect Loadable : Same(r.ask, ask)} \subseteq hits
    /\ hits \subseteq Loadable
    /\ Broad(ask) => hits = {}

(* Every command ends, whoever is killed holding the lock.                 *)
CommandsEnd == \A p \in Procs : proc[p].pc # "idle" ~> proc[p].pc = "idle"
=============================================================================
