---------------------------- MODULE MCPaymentStore ----------------------------
(***************************************************************************)
(* A small instance of PaymentStore.tla: three challenges that compete for *)
(* a cap of three units, three keys, two policies, and a clock that        *)
(* crosses midnight.                                                       *)
(***************************************************************************)
EXTENDS PaymentStore, Functions, TLC

CONSTANTS c1, c2, c3, o1, k1, k2, k3

MCChallenges == {c1, c2, c3}
MCOrigins == {o1}
MCOrigin == [ch \in MCChallenges |-> o1]
MCAmount == c1 :> 2 @@ c2 :> 2 @@ c3 :> 1
MCTotal == [S \in SUBSET MCChallenges |-> SumFunctionOnSet(MCAmount, S)]
MCKeys == {k1, k2, k3}

MCPolicies ==
    {[allowedOrigins |-> {o1}, maxPerRequest |-> 2, dailyCap |-> cap,
      autoPay |-> TRUE, approvalThreshold |-> 1] : cap \in {2, 3}}

KeysAlike == Permutations(MCKeys)
==============================================================================
