---------------------------- MODULE MCDiscovery ----------------------------
(***************************************************************************)
(* Instances of Discovery for TLC.                                         *)
(***************************************************************************)
EXTENDS Discovery, TLC

CONSTANTS f1, f2, g1, g2

Target(sig, class) == [sig |-> sig, class |-> class]
Accepted(targets) == [status |-> "accepted", targets |-> targets]
NoFinding == [status |-> "rejected", targets |-> <<>>]

(* Two findings of one family, the second found under another family too.  *)
TwoFindings ==
  (f1 :> {Accepted(<<Target(g1, 1), Target(g2, 2)>>)}) @@
  (f2 :> {NoFinding, Accepted(<<Target(g2, 2)>>)})
=============================================================================
