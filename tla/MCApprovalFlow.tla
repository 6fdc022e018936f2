--------------------------- MODULE MCApprovalFlow ---------------------------
(***************************************************************************)
(* Instances of ApprovalFlow.tla: a charge at the threshold and one above, *)
(* under the default policy and two with auto-pay.                         *)
(***************************************************************************)
EXTENDS ApprovalFlow, TLC

CONSTANTS small, large

MCPayments == {small, large}
MCAmount == small :> 1 @@ large :> 2
MCDefault == [autoPay |-> FALSE, approvalThreshold |-> 0]
MCPolicies == {MCDefault, [autoPay |-> TRUE, approvalThreshold |-> 1],
               [autoPay |-> TRUE, approvalThreshold |-> 2]}
MCSymmetry == Permutations(Windows)
=============================================================================
