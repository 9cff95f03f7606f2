---------------------------- MODULE ToolGatewayMC -----------------------------
(* ToolGateway on small instances. *)
EXTENDS ToolGateway, TLC

CONSTANT n   \* the execution of the workflow's tool step

\* A workflow with a step of every kind.
MCKinds == <<"condition", "tool", "outcome", "follow_up", "end">>
MCNested == [s \in {2} |-> n]

MCSymmetry == Permutations(Requests)
===============================================================================
