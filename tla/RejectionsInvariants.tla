------------------------ MODULE RejectionsInvariants ------------------------
(***************************************************************************)
(* What makes the invariants of Rejections inductive: a record is written  *)
(* once and by its own process, nobody moves under the lock, and a line    *)
(* that will spoil a record was left open by a kill not yet paid for.      *)
(***************************************************************************)
EXTENDS Rejections

Last == file[Len(file)]
Writing == {p \in Procs : proc[p].pc \in {"append", "text"}}

(* Records are built from what their family is known by, each with a       *)
(* number of its own, and only specific ones are appended.                 *)
Sound(r, n) ==
  r.id < n /\ r.fingerprint = compute_fingerprint(r.ask) /\ fingerprint_specific_enough(r.ask)
Genuine == IsFiniteSet(acked) /\ \A r \in acked \union Stored : Sound(r, made)

(* No line is empty, and no record is alone on two lines.                  *)
OneLine(f) ==
  \A i, j \in DOMAIN f : f[i] = f[j] /\ (\E r \in Rec : f[i] = <<r>>) => i = j
Lines == (\A i \in DOMAIN file : Len(file[i]) >= 1) /\ OneLine(file)

(* A process writes a record of its own, that nobody acknowledged; the     *)
(* file does not have it yet, or it is in the open line.                   *)
Writers ==
  \A p \in Writing :
    LET rec == proc[p].rec IN
    /\ Sound(rec, made) /\ rec \notin acked
    /\ \A q \in Writing \ {p} : proc[q].rec.id # rec.id
    /\ proc[p].pc = "append" => rec \notin Stored
    /\ proc[p].pc = "text" => ~ended /\ (Last = <<rec>> \/ Len(Last) >= 2)

(* What stands on an open line was not acknowledged.                       *)
Unfinished == ~ended => file # <<>> /\ \A r \in acked : Last # <<r>>

(* The temporary file is made of the ledger as it is.                      *)
Copies ==
  \A p \in Procs : proc[p].pc = "rename" =>
     proc[p].tmp = Filter(load_all_locked(file), proc[p].edit)

(* Who has been lost was paid for by a kill, and who will be lost to an    *)
(* open line that already holds something too.                             *)
Lost == acked \ (Stored \union dropped \union strays)
Spoiling == ~ended /\ \A p \in Procs : proc[p].pc = "text" => Len(Last) >= 2
Debts ==
  /\ Cardinality(Lost) <= crashes
  /\ Spoiling => Cardinality(Lost) + 1 <= crashes

IInv ==
  TypeOK /\ Genuine /\ Lines /\ Writers /\ Unfinished /\ Copies /\ Debts
=============================================================================
