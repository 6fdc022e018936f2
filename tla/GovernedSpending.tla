-------------------------- MODULE GovernedSpending --------------------------
(***************************************************************************)
(* What the payment sidecar promises about the user's money, with nothing  *)
(* of how it keeps the promise: no processes, calls, approvals, seals or   *)
(* crashes.  Money for a challenge is held within a day's cap, then is     *)
(* exposed (a merchant may take it), then may be recorded as settled; a    *)
(* hold can be released only before it is exposed, and a challenge is      *)
(* paid only while it is exposed.                                          *)
(***************************************************************************)
EXTENDS Integers, FiniteSets

CONSTANTS Challenges, Keys, Total, Caps, Days, NoHold

VARIABLES
    today,          \* the current UTC day
    holds,          \* per challenge: the money set aside for it
    paid            \* challenges for which a signed credential exists

spendingVars == <<today, holds, paid>>

Phases == {"held", "exposed", "settled", "released"}

\* What a day has cost or may still cost.
CommittedOn(d) ==
    {ch \in Challenges : /\ holds[ch] # NoHold
                         /\ holds[ch].day = d
                         /\ holds[ch].phase # "released"}

InPhase(phase) ==
    {ch \in Challenges : holds[ch] # NoHold /\ holds[ch].phase = phase}

Move(S, phase) ==
    holds' = [ch \in Challenges |->
                IF ch \in S THEN [holds[ch] EXCEPT !.phase = phase] ELSE holds[ch]]

\* The program may take over money an earlier version of it exposed.
SpendingInit ==
    /\ today \in Days
    /\ holds \in [Challenges -> {NoHold} \cup [key : Keys, day : {today}, phase : {"exposed"}]]
    /\ paid = {}

NextDay ==
    /\ today' \in {d \in Days : d > today}
    /\ UNCHANGED <<holds, paid>>

\* A key buys one challenge, and if it costs anything the day stays within one
\* of the user's caps.
SetAside(ch, k) ==
    /\ holds[ch] = NoHold
    /\ \A c \in Challenges : holds[c] # NoHold => holds[c].key # k
    /\ \/ Total[CommittedOn(today) \cup {ch}] = Total[CommittedOn(today)]
       \/ \E cap \in Caps : Total[CommittedOn(today) \cup {ch}] <= cap
    /\ holds' = [holds EXCEPT ![ch] = [key |-> k, day |-> today, phase |-> "held"]]
    /\ UNCHANGED <<today, paid>>

Expose(ch) ==
    /\ ch \in InPhase("held")
    /\ Move({ch}, "exposed")
    /\ UNCHANGED <<today, paid>>

Pay(ch) ==
    /\ ch \in InPhase("exposed") \ paid
    /\ paid' = paid \cup {ch}
    /\ UNCHANGED <<today, holds>>

Settle(ch) ==
    /\ ch \in InPhase("exposed") \cap paid
    /\ Move({ch}, "settled")
    /\ UNCHANGED <<today, paid>>

\* Abandoned holds may be released several at a time.
ReleaseHolds(S) ==
    /\ S # {}
    /\ S \subseteq InPhase("held")
    /\ Move(S, "released")
    /\ UNCHANGED <<today, paid>>

SpendingNext ==
    \/ NextDay
    \/ \E ch \in Challenges :
        \/ \E k \in Keys : SetAside(ch, k)
        \/ Expose(ch)
        \/ Pay(ch)
        \/ Settle(ch)
    \/ \E S \in SUBSET Challenges : ReleaseHolds(S)

SpendingSpec == SpendingInit /\ [][SpendingNext]_spendingVars
=============================================================================
