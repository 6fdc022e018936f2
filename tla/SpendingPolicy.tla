--------------------------- MODULE SpendingPolicy ---------------------------
(***************************************************************************)
(* The user's spending policy and what it blocks                           *)
(* (src/sidecar/src/policy.ts).  A challenge is what a merchant asks to be *)
(* paid; its origin and amount are constants here because the program      *)
(* identifies a challenge by the hash of its serialised text.  The payment *)
(* method is left out: normalizeChallenge admits tempo only and a validated*)
(* policy always enables exactly tempo.                                    *)
(***************************************************************************)
EXTENDS Integers

CONSTANTS
    Challenges,     \* the challenges merchants may present
    Origins,        \* the web origins of merchants
    Origin,         \* the origin each challenge comes from
    Amount          \* the amount each challenge asks for, in atomic units

ASSUME ChallengeAssumption ==
    /\ Origin \in [Challenges -> Origins]
    /\ Amount \in [Challenges -> Nat]

Policy == [allowedOrigins : SUBSET Origins, maxPerRequest : Nat,
           dailyCap : Nat, autoPay : BOOLEAN, approvalThreshold : Nat]

\* validatePolicy: the limits must be ordered.
ValidPolicy(pol) ==
    /\ pol.maxPerRequest <= pol.dailyCap
    /\ pol.approvalThreshold <= pol.maxPerRequest

Blocked(pol, ch, available) ==
    \/ Origin[ch] \notin pol.allowedOrigins
    \/ Amount[ch] > pol.maxPerRequest
    \/ Amount[ch] > available
=============================================================================
