------------------------ MODULE DiscoveryInvariants ------------------------
(***************************************************************************)
(* What holds between the steps of Discovery and makes its invariants      *)
(* inductive: how far a command has come and which ids it has in hand, and *)
(* what a chain on an empty session has found and written so far.          *)
(***************************************************************************)
EXTENDS Discovery

(* A command takes only steps of its own, an import knows its id, and      *)
(* analyzer tasks live while they are waited for.                          *)
StepsOf(last) ==
  CASE last = "merge" -> Pcs
    [] last = "shows" -> {"bin", "bench", "ids", "shows"}
    [] last = "noise" -> {"bin", "show", "import", "noise"}
    [] last = "triage" -> {"triage"}
    [] last = "join" -> {"spawn", "join"}
Control ==
  /\ cmd # None =>
       /\ cmd.pc \in StepsOf(cmd.last)
       /\ cmd.id # None => cmd.id \in 1..db /\ cmd.last \in {"merge", "noise"}
       /\ cmd.id = None => cmd.last # "noise"
       /\ cmd.pc \in {"show", "import", "noise"} => cmd.id # None
       /\ cmd.pc \in {"memory", "join"} => cand # None
       /\ cmd.pc = "join" => DOMAIN tasks = cand.fams
  /\ ~At("join") => tasks = <<>>

(* Ids that are about to be written, and those that are, are the session's *)
(* own.                                                                    *)
OwnIds ==
  /\ RunIdIsOwn
  /\ At("ids") => base.json \in mine
  /\ At("import") => cmd.id \in mine

(* A chain that began on an empty session, step by step.                   *)
NoAnalyses == \A f \in Families : ana[f] = None
Measured == base.json # None /\ base.run # None /\ base.rerun # None
FreshChain ==
  cmd # None /\ cmd.fresh =>
    /\ cmd.pc \in Pcs \ {"memory", "spawn", "join", "merge"} => cand = None
    /\ cmd.pc \notin {"join", "merge"} => NoAnalyses
    /\ cmd.pc = "shows" => Measured
    /\ cmd.pc = "noise" => base.run # None /\ base.rerun # None
    /\ cmd.pc = "triage" /\ TriageReady => Measured
    /\ cand # None => Measured /\ cand.run = base.run
    /\ cmd.pc \in {"join", "merge"} /\ cand # None =>
         \A f \in Families : ana[f] # None => f \in cand.fams /\ ana[f].run = cand.run
    /\ cmd.pc = "join" => \A f \in DOMAIN tasks : tasks[f] = "done" => ana[f] # None
    /\ cmd.pc = "merge" /\ cand # None => \A f \in cand.fams : ana[f] # None

(* A plan is vouched for once the command is over.                         *)
Planned ==
  plan # None => cmd = None

IInv ==
  /\ TypeOK /\ Control /\ OwnIds /\ FreshChain /\ Planned
  /\ PlanIsSound /\ ValidateAgreesWithMerge /\ PlanIsOfOneBaseline
=============================================================================
