--------------------------- MODULE MCPaymentClient ---------------------------
(***************************************************************************)
(* Small instances of PaymentClient.tla: two challenges from two origins,  *)
(* two keys, two policies (the second forbids one origin and lowers the    *)
(* cap), a day of three ticks and a run that crosses midnight.             *)
(***************************************************************************)
EXTENDS PaymentClient, Functions, TLC

CONSTANTS c1, c2, o1, o2, k1, k2

MCChallenges == {c1, c2}
MCOrigins == {o1, o2}
MCKeys == {k1, k2}
MCOrigin == c1 :> o1 @@ c2 :> o2
MCAmount == c1 :> 2 @@ c2 :> 1
MCTotal == [S \in SUBSET MCChallenges |-> SumFunctionOnSet(MCAmount, S)]
MCExpiry == c1 :> 3 @@ c2 :> 9

Limits(allowed, max, cap) ==
    [allowedOrigins |-> allowed, maxPerRequest |-> max, dailyCap |-> cap,
     autoPay |-> FALSE, approvalThreshold |-> 0]

TwoProcessSymmetry == Permutations(Procs) \cup Permutations(Tokens) \cup Permutations(Calls)

Lenient == Limits({o1, o2}, 2, 2)
Strict == Limits({o2}, 1, 1)
MCPolicies == {Lenient, Strict}
MCOnePolicy == {Lenient}
=============================================================================
