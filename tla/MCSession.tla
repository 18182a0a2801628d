----------------------------- MODULE MCSession ------------------------------
(***************************************************************************)
(* Instances of Session for TLC.                                           *)
(***************************************************************************)
EXTENDS SessionInvariants

CONSTANTS i1, i2   \* invocation ids

NormalPlan == [mode |-> "normal_pr", vr |-> {i1}]
WidePlan == [mode |-> "normal_pr", vr |-> {i1, i2}]
PocPlan == [mode |-> "consensus_poc_pr", vr |-> {}]
IssuePlan == [mode |-> "consensus_issue", vr |-> {}]

AllModes == {NormalPlan, PocPlan, IssuePlan}
AnyPlan == AllModes \cup {WidePlan}

AllCommands == {"run", "runpub", "publish", "merge", "optimize", "build",
                "analyze", "finalize", "generate", "push"}
RunCommands == {"runpub"}

NoCleans == {}
AllCleans == {"optimize", "bench", "analyze", "finalize", "publish"}
=============================================================================
