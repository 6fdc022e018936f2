-------------------------- MODULE PaymentClientProofs --------------------------
(***************************************************************************)
(* Proofs about the payment protocol of PaymentClient.tla, for every       *)
(* number of processes, calls, tokens, challenges, keys and policies: it   *)
(* keeps the ledger and the promise of GovernedSpending.tla, and a single  *)
(* process honours the policy of the moment.                               *)
(***************************************************************************)
EXTENDS PaymentClient, PaymentStoreProofs

(***************************************************************************)
(* The protocol touches the ledger only through the ledger's operations.   *)
(***************************************************************************)
\* Every step of the protocol is an operation of the ledger, or leaves it be.
LEMMA StepsAreStoreSteps == TypeOK /\ [Next]_vars => [StoreNext]_storeVars
<1> SUFFICES ASSUME TypeOK, [Next]_vars PROVE [StoreNext]_storeVars
    OBVIOUS
<1>1. ASSUME NEW c \in Calls, CallStep(c) PROVE [StoreNext]_storeVars
    <2>1. pc[c] \in Running \cup Awaiting
        BY <1>1 DEF CallStep, AccountFails, Decide, Reserve, ReserveFails, Submit, SubmitFails,
                    Sign, CreateFails, SendCredential, Settle, PaymentFails, Resumes,
                    Running, Awaiting
    <2>2. job[c].proc \in Procs /\ job[c].challenge \in Challenges /\ job[c].key \in Keys
        BY <2>1 DEF TypeOK, Job
    <2>3. CASE Reserve(c)
        <3>1. job[c].policy \in Policies
            BY <2>3 DEF Reserve, TypeOK, Running
        <3> QED  BY <2>2, <2>3, <3>1 DEF Reserve, StoreNext
    <2>4. CASE Submit(c)
        BY <2>2, <2>4 DEF Submit, StoreNext
    <2>5. CASE SubmitFails(c)
        BY <2>2, <2>5 DEF SubmitFails, StoreNext
    <2>6. CASE CreateFails(c)
        BY <2>2, <2>6 DEF CreateFails, StoreNext
    <2>7. CASE Settle(c)
        BY <2>2, <2>7 DEF Settle, StoreNext
    <2>8. CASE AccountFails(c) \/ Decide(c) \/ ReserveFails(c) \/ Sign(c)
               \/ SendCredential(c) \/ PaymentFails(c)
        BY <2>8 DEF AccountFails, Decide, ReserveFails, Sign, SendCredential, PaymentFails
    <2> QED  BY <1>1, <2>3, <2>4, <2>5, <2>6, <2>7, <2>8 DEF CallStep
<1>2. ASSUME NEW p \in Procs, Open(p) \/ Crash(p) PROVE [StoreNext]_storeVars
    BY <1>2 DEF Open, Crash, StoreNext
<1>3. ASSUME NEW p \in Procs, NEW pol \in Policies, SavePolicy(p, pol) PROVE [StoreNext]_storeVars
    BY <1>3 DEF SavePolicy, StoreNext
<1>4. ASSUME NEW p \in Procs, NEW ch \in Challenges, NEW k \in Keys, NEW t \in Tokens,
             Prepare(p, ch, k, t)
      PROVE  [StoreNext]_storeVars
    BY <1>4 DEF Prepare
<1>5. ASSUME NEW c \in Calls, NEW t \in Tokens, PayRejected(c, t) \/ PayAccepted(c, t)
      PROVE  [StoreNext]_storeVars
    BY <1>5 DEF PayRejected, PayAccepted
<1>6. CASE ClockTick
    BY <1>6 DEF ClockTick, StoreNext
<1>7. CASE UNCHANGED vars
    BY <1>7 DEF vars, storeVars
<1> QED
    BY <1>1, <1>2, <1>3, <1>4, <1>5, <1>6, <1>7 DEF Next

(***************************************************************************)
(* Types.                                                                  *)
(***************************************************************************)
\* Initially every variable has its type.
LEMMA TypeInit == Init => TypeOK
  BY StoreTypeInit DEF Init, TypeOK, Running, Awaiting

\* The types of the protocol's own variables.
ClientTypeOK ==
    /\ approvals \in [Tokens -> Approval \cup {Fresh, Gone}]
    /\ pc \in [Calls -> {"idle"} \cup Running \cup Awaiting \cup Ended]
    /\ job \in [Calls -> Job \cup {NoJob}]
    /\ \A c \in Calls : pc[c] \in Running \cup Awaiting => job[c] \in Job
    /\ \A c \in Calls : pc[c] \in Running => job[c].policy \in Policies
    /\ signed \in SUBSET Credential

\* A call that ends, or goes on to a label that does not run, stays typed.
LEMMA TypeMove ==
    ASSUME ClientTypeOK, NEW c \in Calls, pc[c] \in Running \cup Awaiting,
           UNCHANGED approvals, signed' \in SUBSET Credential,
           \/ \E outcome \in Ended : End(c, outcome)
           \/ \E label \in Awaiting : Goto(c, label)
           \/ pc[c] = "reserve" /\ Goto(c, "submit")
    PROVE  ClientTypeOK'
  BY DEF ClientTypeOK, End, Goto, Running, Awaiting, Ended

\* Every step keeps the types.
LEMMA TypeStep == TypeOK /\ [Next]_vars => TypeOK'
<1> SUFFICES ASSUME TypeOK, [Next]_vars PROVE TypeOK'
    OBVIOUS
<1>1. StoreTypeOK /\ StoreTypeOK' /\ ClientTypeOK
    BY StepsAreStoreSteps, StoreTypeStep DEF TypeOK, ClientTypeOK
<1> SUFFICES ClientTypeOK'
    BY <1>1 DEF TypeOK, ClientTypeOK
<1>2. ASSUME NEW c \in Calls, CallStep(c) PROVE ClientTypeOK'
    <2>1. pc[c] \in Running \cup Awaiting
        BY <1>2 DEF CallStep, AccountFails, Decide, Reserve, ReserveFails, Submit, SubmitFails,
                    Sign, CreateFails, SendCredential, Settle, PaymentFails, Resumes,
                    Running, Awaiting
    <2>2. job[c] \in Job
        BY <1>1, <2>1 DEF ClientTypeOK
    <2>3. CASE AccountFails(c) \/ ReserveFails(c) \/ SubmitFails(c) \/ CreateFails(c)
               \/ Settle(c) \/ PaymentFails(c)
        <3>1. UNCHANGED <<approvals, signed>> /\ \E outcome \in Ended : End(c, outcome)
            BY <2>3 DEF AccountFails, ReserveFails, SubmitFails, CreateFails, Settle,
                        PaymentFails, Ended
        <3> QED  BY <1>1, <2>1, <3>1, TypeMove DEF ClientTypeOK
    <2>4. CASE Submit(c) \/ SendCredential(c)
        <3>1. UNCHANGED <<approvals, signed>> /\ \E label \in Awaiting : Goto(c, label)
            BY <2>4 DEF Submit, SendCredential, Awaiting
        <3> QED  BY <1>1, <2>1, <3>1, TypeMove DEF ClientTypeOK
    <2>5. CASE Sign(c)
        <3>1. signed' \in SUBSET Credential
            BY <1>1, <2>2, <2>5 DEF Sign, ClientTypeOK, Credential, Job
        <3>2. UNCHANGED approvals /\ \E label \in Awaiting : Goto(c, label)
            BY <2>5 DEF Sign, Awaiting
        <3> QED  BY <1>1, <2>1, <3>1, <3>2, TypeMove
    <2>6. CASE Reserve(c)
        <3>1. UNCHANGED <<approvals, signed>> /\ pc[c] = "reserve" /\ Goto(c, "submit")
            BY <2>6 DEF Reserve
        <3> QED  BY <1>1, <2>1, <3>1, TypeMove DEF ClientTypeOK
    <2>7. CASE Decide(c)
        <3>1. CASE End(c, "failed")
            BY <1>1, <2>1, <2>7, <3>1, TypeMove DEF Decide, ClientTypeOK, Ended
        <3>2. CASE /\ pc' = [pc EXCEPT ![c] = "reserve"]
                   /\ job' = [job EXCEPT ![c].policy = policy]
            <4>1. policy \in Policies
                BY <1>1 DEF StoreTypeOK
            <4>2. [job[c] EXCEPT !.policy = policy] \in Job
                BY <2>2, <4>1 DEF Job
            <4>3. [job[c] EXCEPT !.policy = policy].policy = policy
                BY <2>2 DEF Job
            <4> QED  BY <1>1, <2>7, <3>2, <4>1, <4>2, <4>3
                     DEF Decide, ClientTypeOK, Running, Awaiting, Ended
        <3> QED  BY <2>7, <3>1, <3>2 DEF Decide
    <2> QED  BY <1>2, <2>3, <2>4, <2>5, <2>6, <2>7 DEF CallStep
<1>3. ASSUME NEW p \in Procs, Crash(p) PROVE ClientTypeOK'
    BY <1>1, <1>3 DEF Crash, ClientTypeOK, Running, Awaiting, Ended
<1>4. ASSUME NEW p \in Procs, NEW ch \in Challenges, NEW k \in Keys, NEW t \in Tokens,
             Prepare(p, ch, k, t)
      PROVE  ClientTypeOK'
    <2>1. now \in Nat /\ Expiry[ch] \in Nat
        BY <1>1, ClientAssumption, StoreAssumption DEF StoreTypeOK
    <2> DEFINE expires == IF Expiry[ch] < now + ApprovalTTL THEN Expiry[ch] ELSE now + ApprovalTTL
               staged == [proc |-> p, challenge |-> ch, key |-> k, expires |-> expires]
    <2>2. staged \in Approval
        BY <2>1, ClientAssumption DEF Approval
    <2>3. \A u \in Tokens : approvals'[u] \in {staged, Gone, approvals[u]}
        BY <1>4 DEF Prepare
    <2>4. approvals' \in [Tokens -> Approval \cup {Fresh, Gone}]
        <3>1. \E f : approvals' = [u \in Tokens |-> f[u]]
            BY <1>4 DEF Prepare
        <3> HIDE DEF staged
        <3> QED  BY <1>1, <2>2, <2>3, <3>1 DEF ClientTypeOK
    <2> QED  BY <1>1, <1>4, <2>4 DEF Prepare, ClientTypeOK
<1>5. ASSUME NEW c \in Calls, NEW t \in Tokens, PayRejected(c, t) PROVE ClientTypeOK'
    BY <1>1, <1>5 DEF PayRejected, SpendToken, End, ClientTypeOK, Running, Awaiting, Ended
<1>6. ASSUME NEW c \in Calls, NEW t \in Tokens, PayAccepted(c, t) PROVE ClientTypeOK'
    <2>1. approvals[t] \in Approval
        BY <1>1, <1>6 DEF PayAccepted, SpendToken, IsStaged, ClientTypeOK
    <2>2. [proc |-> approvals[t].proc, challenge |-> approvals[t].challenge,
           key |-> approvals[t].key, policy |-> Unread] \in Job
        BY <2>1 DEF Approval, Job
    <2> QED  BY <1>1, <1>6, <2>2
             DEF PayAccepted, SpendToken, ClientTypeOK, Running, Awaiting, Ended
<1>7. ASSUME UNCHANGED clientVars PROVE ClientTypeOK'
    BY <1>1, <1>7 DEF clientVars, ClientTypeOK
<1>8. CASE UNCHANGED vars
    BY <1>7, <1>8 DEF vars, clientVars
<1> QED
    BY <1>2, <1>3, <1>4, <1>5, <1>6, <1>7, <1>8 DEF Next, Open, SavePolicy, ClockTick

\* Every reachable state of the protocol is well typed.
THEOREM TypeCorrect == Spec => []TypeOK
  BY TypeInit, TypeStep, PTL DEF Spec

\* The protocol implements the ledger: whatever is proved of the ledger under
\* any calls (StoreSpec) holds of the ledger as the program drives it.
THEOREM ClientUsesLedger == Spec => StoreSpec
<1>1. Init => StoreInit
    BY DEF Init
<1> QED
    BY <1>1, TypeInit, TypeStep, StepsAreStoreSteps, PTL DEF Spec, StoreSpec

(***************************************************************************)
(* The money.  The invariant follows each call from its reservation to its *)
(* credential: a call past markSubmitted owns its row, which is submitted, *)
(* pending and under its key; no two calls own one row; and a row that was *)
(* never submitted has no credential.                                      *)
(***************************************************************************)
InFlight == {"create", "signed", "send"}
HasCredential == {"signed", "send"}

CredentialOf(c) == [call |-> c, challenge |-> job[c].challenge, key |-> job[c].key]

SubmittingOwnsKey ==
    \A c \in Calls : pc[c] = "submit" =>
        /\ HasRow(job[c].challenge)
        /\ reservations[job[c].challenge].key = job[c].key

InFlightOwnsRow ==
    \A c \in Calls : pc[c] \in InFlight =>
        /\ HasRow(job[c].challenge)
        /\ reservations[job[c].challenge].key = job[c].key
        /\ reservations[job[c].challenge].submitted
        /\ reservations[job[c].challenge].status = "pending"

OneOwner ==
    \A c, d \in Calls :
        /\ pc[c] \in InFlight
        /\ pc[d] \in InFlight
        /\ job[c].challenge = job[d].challenge
        => c = d

UnsignedYet ==
    \A c \in Calls : pc[c] = "create" => \A cr \in signed : cr.challenge # job[c].challenge

SignedAlready ==
    \A c \in Calls : pc[c] \in HasCredential => CredentialOf(c) \in signed

OnePerChallenge ==
    \A a, b \in signed : a.challenge = b.challenge => a = b

MoneyInv ==
    /\ TypeOK
    /\ LedgerInv
    /\ SubmittingOwnsKey
    /\ InFlightOwnsRow
    /\ OneOwner
    /\ UnsignedYet
    /\ SignedAlready
    /\ OnePerChallenge
    /\ MoneyStaysCounted
    /\ ReceiptsArePaid

\* The invariant holds before any call.
LEMMA MoneyInit == Init => MoneyInv
<1> SUFFICES ASSUME Init PROVE MoneyInv
    OBVIOUS
<1>1. TypeOK /\ LedgerInv
    BY TypeInit, LedgerInit DEF Init
<1>2. /\ \A c \in Calls : pc[c] = "idle"
      /\ signed = {} /\ receipts = {}
    BY DEF Init, StoreInit
<1> QED
    BY <1>1, <1>2 DEF MoneyInv, SubmittingOwnsKey, InFlightOwnsRow, OneOwner, UnsignedYet,
        SignedAlready, OnePerChallenge, MoneyStaysCounted, ReceiptsArePaid, InFlight, HasCredential

\* Facts of every step: types, the ledger's invariant, rows only advance.
LEMMA StepFacts ==
    ASSUME MoneyInv, [Next]_vars
    PROVE  TypeOK' /\ LedgerInv' /\ RowsAdvance /\ ReceiptIffSettled /\ ReceiptIffSettled'
  BY TypeStep, StepsAreStoreSteps, LedgerStep DEF MoneyInv, LedgerInv

\* No call comes to own a row or a credential in this step.
FlightKept ==
    \A c \in Calls : pc'[c] \in InFlight \cup {"submit"} =>
        /\ pc'[c] = pc[c] \/ (pc[c] = "signed" /\ pc'[c] = "send")
        /\ job'[c] = job[c]

\* Existing credentials stay counted through every step.
LEMMA CountedStaysCounted ==
    ASSUME MoneyInv, [Next]_vars, NEW cr \in signed
    PROVE  /\ HasRow(cr.challenge)'
           /\ reservations'[cr.challenge].key = cr.key
           /\ reservations'[cr.challenge].submitted
           /\ reservations'[cr.challenge].status \in {"pending", "settled"}
<1>1. cr.challenge \in Challenges
    BY DEF MoneyInv, TypeOK, Credential
<1> QED
    BY <1>1, StepFacts DEF MoneyInv, MoneyStaysCounted, RowsAdvance

\* A row keeps its key, and stays submitted and pending until it is settled.
LEMMA OwnedRowKept ==
    ASSUME MoneyInv, [Next]_vars, NEW ch \in Challenges, HasRow(ch)
    PROVE  /\ HasRow(ch)'
           /\ reservations'[ch].key = reservations[ch].key
           /\ /\ reservations[ch].submitted /\ reservations[ch].status = "pending"
              /\ ch \notin receipts'
              => reservations'[ch].submitted /\ reservations'[ch].status = "pending"
  BY StepFacts DEF RowsAdvance, ReceiptIffSettled, HasStatus

\* Steps in which nothing is submitted, signed or settled.
LEMMA QuietStep ==
    ASSUME MoneyInv, [Next]_vars, UNCHANGED <<receipts, signed>>, FlightKept
    PROVE  MoneyInv'
<1> USE DEF MoneyInv
<1>1. \A c \in Calls : pc[c] \in Running \cup Awaiting => job[c].challenge \in Challenges
    BY DEF TypeOK, Job
<1>2. TypeOK' /\ LedgerInv'
    BY StepFacts
<1>3. SubmittingOwnsKey'
    BY <1>1, OwnedRowKept DEF SubmittingOwnsKey, FlightKept, InFlight, Running, HasRow
<1>4. InFlightOwnsRow'
    <2>1. SUFFICES ASSUME NEW c \in Calls, pc'[c] \in InFlight
                   PROVE  /\ HasRow(job[c].challenge)'
                          /\ reservations'[job[c].challenge].key = job[c].key
                          /\ reservations'[job[c].challenge].submitted
                          /\ reservations'[job[c].challenge].status = "pending"
        BY DEF InFlightOwnsRow, FlightKept, HasRow
    <2>2. pc[c] \in InFlight /\ job[c].challenge \in Challenges /\ job'[c] = job[c]
        BY <1>1, <2>1 DEF FlightKept, InFlight, Awaiting
    <2>3. job[c].challenge \notin receipts'
        BY <2>2, StepFacts DEF InFlightOwnsRow, ReceiptIffSettled, HasStatus
    <2> QED  BY <2>2, <2>3, OwnedRowKept DEF InFlightOwnsRow, HasRow
<1>5. OneOwner' /\ UnsignedYet' /\ SignedAlready'
    BY DEF OneOwner, UnsignedYet, SignedAlready, CredentialOf, FlightKept, InFlight, HasCredential
<1>6. OnePerChallenge' /\ ReceiptsArePaid'
    BY DEF OnePerChallenge, ReceiptsArePaid
<1>7. MoneyStaysCounted'
    BY CountedStaysCounted DEF MoneyStaysCounted, HasRow
<1> QED
    BY <1>2, <1>3, <1>4, <1>5, <1>6, <1>7

\* reserve leaves the call's row under its key.
LEMMA ReserveStep ==
    ASSUME MoneyInv, [Next]_vars, NEW c \in Calls, Reserve(c)
    PROVE  MoneyInv'
<1> USE DEF MoneyInv
<1>1. /\ job[c].challenge \in Challenges /\ job[c].key \in Keys
      /\ job' = job /\ pc' = [pc EXCEPT ![c] = "submit"]
      /\ receipts' = receipts /\ signed' = signed
    BY DEF Reserve, Goto, TypeOK, Job, Running, Awaiting, ReserveAgain, ReserveNew, storeVars
<1>2. HasRow(job[c].challenge)' /\ reservations'[job[c].challenge].key = job[c].key
    <2>1. CASE ReserveAgain(job[c].proc, job[c].challenge, job[c].key)
        BY <1>1, <2>1 DEF ReserveAgain, KeyRow, HasRow, storeVars
    <2>2. CASE ReserveNew(job[c].proc, job[c].challenge, job[c].key, job[c].policy)
        <3>1. NewRow(job[c].key) \in Row /\ NewRow(job[c].key).key = job[c].key
            BY <1>1 DEF NewRow, Row, TypeOK, StoreTypeOK
        <3>2. reservations'[job[c].challenge] = NewRow(job[c].key)
            BY <1>1, <2>2 DEF ReserveNew, TypeOK, StoreTypeOK
        <3> QED  BY <1>1, <3>1, <3>2, StoreAssumption DEF HasRow
    <2> QED  BY <2>1, <2>2 DEF Reserve
<1>3. \A d \in Calls \ {c} : pc'[d] = pc[d]
    BY <1>1 DEF TypeOK
<1>4. pc'[c] = "submit"
    BY <1>1 DEF TypeOK
<1>5. \A d \in Calls : pc[d] \in Running \cup Awaiting => job[d].challenge \in Challenges
    BY DEF TypeOK, Job
<1>6. SubmittingOwnsKey'
    BY <1>1, <1>2, <1>3, <1>4, <1>5, OwnedRowKept DEF SubmittingOwnsKey, Running, HasRow
<1>7. InFlightOwnsRow'
    <2>1. SUFFICES ASSUME NEW d \in Calls, pc'[d] \in InFlight
                   PROVE  /\ HasRow(job[d].challenge)'
                          /\ reservations'[job[d].challenge].key = job[d].key
                          /\ reservations'[job[d].challenge].submitted
                          /\ reservations'[job[d].challenge].status = "pending"
        BY <1>1 DEF InFlightOwnsRow, HasRow
    <2>2. pc[d] \in InFlight /\ job[d].challenge \in Challenges
        BY <1>3, <1>4, <1>5, <2>1 DEF InFlight, Awaiting
    <2>3. job[d].challenge \notin receipts'
        BY <1>1, <2>2, StepFacts DEF InFlightOwnsRow, ReceiptIffSettled, HasStatus
    <2> QED  BY <1>1, <2>2, <2>3, OwnedRowKept DEF InFlightOwnsRow, HasRow
<1>8. OneOwner' /\ UnsignedYet' /\ SignedAlready'
    BY <1>1, <1>3, <1>4
       DEF OneOwner, UnsignedYet, SignedAlready, CredentialOf, InFlight, HasCredential
<1>9. OnePerChallenge' /\ ReceiptsArePaid'
    BY <1>1 DEF OnePerChallenge, ReceiptsArePaid
<1>10. MoneyStaysCounted'
    BY <1>1, CountedStaysCounted DEF MoneyStaysCounted, HasRow
<1> QED
    BY <1>6, <1>7, <1>8, <1>9, <1>10, StepFacts

\* The compare-and-set of markSubmitted makes the call the owner of its row.
LEMMA SubmitStep ==
    ASSUME MoneyInv, [Next]_vars, NEW c \in Calls, Submit(c)
    PROVE  MoneyInv'
<1> USE DEF MoneyInv
<1>1. /\ job[c].challenge \in Challenges
      /\ job' = job /\ pc[c] = "submit" /\ pc' = [pc EXCEPT ![c] = "create"]
      /\ receipts' = receipts /\ signed' = signed
    BY DEF Submit, Goto, TypeOK, Job, Running, Awaiting, MarkSubmitted
<1>2. Unsent(job[c].challenge)
    BY DEF Submit, MarkSubmitted
<1>3. /\ HasRow(job[c].challenge)'
      /\ reservations'[job[c].challenge].key = job[c].key
      /\ reservations'[job[c].challenge].submitted
      /\ reservations'[job[c].challenge].status = "pending"
    <2>1. reservations'[job[c].challenge] =
             [reservations[job[c].challenge] EXCEPT !.submitted = TRUE, !.updatedAt = now]
        BY <1>1 DEF Submit, MarkSubmitted, TypeOK, StoreTypeOK
    <2>2. EditedTo(job[c].challenge, reservations[job[c].challenge].status, TRUE)
        BY <1>1, <1>2, <2>1, Edits DEF TypeOK, Unsent, HasStatus
    <2> QED  BY <1>1, <1>2, <2>2 DEF EditedTo, SubmittingOwnsKey, Unsent, HasStatus
<1>4. \A d \in Calls \ {c} : pc'[d] = pc[d]
    BY <1>1 DEF TypeOK
<1>5. pc'[c] = "create"
    BY <1>1 DEF TypeOK
<1>6. \A d \in Calls : pc[d] \in Running \cup Awaiting => job[d].challenge \in Challenges
    BY DEF TypeOK, Job
<1>7. \A d \in Calls : pc[d] \in InFlight => job[d].challenge # job[c].challenge
    BY <1>2 DEF InFlightOwnsRow, Unsent
<1>8. \A cr \in signed : cr.challenge # job[c].challenge
    BY <1>2 DEF MoneyStaysCounted, Unsent
<1>9. SubmittingOwnsKey'
    BY <1>1, <1>4, <1>5, <1>6, OwnedRowKept DEF SubmittingOwnsKey, Running, HasRow
<1>10. InFlightOwnsRow'
    <2>1. SUFFICES ASSUME NEW d \in Calls, pc'[d] \in InFlight
                   PROVE  /\ HasRow(job[d].challenge)'
                          /\ reservations'[job[d].challenge].key = job[d].key
                          /\ reservations'[job[d].challenge].submitted
                          /\ reservations'[job[d].challenge].status = "pending"
        BY <1>1 DEF InFlightOwnsRow, HasRow
    <2>2. CASE d = c
        BY <1>1, <1>3, <2>2
    <2>3. CASE d # c
        <3>1. pc[d] \in InFlight /\ job[d].challenge \in Challenges
            BY <1>4, <1>6, <2>1, <2>3 DEF InFlight, Awaiting
        <3>2. job[d].challenge \notin receipts'
            BY <1>1, <3>1, StepFacts DEF InFlightOwnsRow, ReceiptIffSettled, HasStatus
        <3> QED  BY <1>1, <3>1, <3>2, OwnedRowKept DEF InFlightOwnsRow, HasRow
    <2> QED  BY <2>2, <2>3
<1>11. OneOwner'
    BY <1>1, <1>4, <1>5, <1>7 DEF OneOwner, InFlight
<1>12. UnsignedYet' /\ SignedAlready'
    BY <1>1, <1>4, <1>5, <1>8 DEF UnsignedYet, SignedAlready, CredentialOf, HasCredential
<1>13. OnePerChallenge' /\ ReceiptsArePaid'
    BY <1>1 DEF OnePerChallenge, ReceiptsArePaid
<1>14. MoneyStaysCounted'
    BY <1>1, CountedStaysCounted DEF MoneyStaysCounted, HasRow
<1> QED
    BY <1>9, <1>10, <1>11, <1>12, <1>13, <1>14, StepFacts

\* Signing adds the only credential of the call's row.
LEMMA SignStep ==
    ASSUME MoneyInv, [Next]_vars, NEW c \in Calls, Sign(c)
    PROVE  MoneyInv'
<1> USE DEF MoneyInv
<1>1. /\ pc[c] = "create" /\ pc' = [pc EXCEPT ![c] = "signed"] /\ job' = job
      /\ signed' = signed \cup {CredentialOf(c)}
      /\ reservations' = reservations /\ receipts' = receipts
    BY DEF Sign, Resumes, Goto, CredentialOf, storeVars
<1>2. /\ CredentialOf(c).call = c
      /\ CredentialOf(c).challenge = job[c].challenge
      /\ CredentialOf(c).key = job[c].key
    BY DEF CredentialOf
<1>3. pc'[c] = "signed" /\ \A d \in Calls \ {c} : pc'[d] = pc[d]
    BY <1>1 DEF TypeOK
<1>4. \A d \in Calls : pc'[d] \in InFlight <=> pc[d] \in InFlight
    BY <1>1, <1>3 DEF InFlight
<1>5. \A cr \in signed : cr.challenge # job[c].challenge
    BY <1>1 DEF UnsignedYet
<1>6. SubmittingOwnsKey' /\ InFlightOwnsRow' /\ OneOwner'
    BY <1>1, <1>3, <1>4 DEF SubmittingOwnsKey, InFlightOwnsRow, OneOwner, HasRow
<1>7. UnsignedYet'
    <2>1. SUFFICES ASSUME NEW d \in Calls, pc'[d] = "create", NEW cr \in signed'
                   PROVE  cr.challenge # job[d].challenge
        BY <1>1 DEF UnsignedYet
    <2>2. d # c /\ pc[d] = "create"
        BY <1>3, <2>1
    <2>3. job[d].challenge # job[c].challenge
        BY <1>1, <2>2 DEF OneOwner, InFlight
    <2> QED  BY <1>1, <1>2, <2>2, <2>3 DEF UnsignedYet
<1>8. SignedAlready'
    BY <1>1, <1>3 DEF SignedAlready, CredentialOf, HasCredential
<1>9. OnePerChallenge'
    BY <1>1, <1>2, <1>5 DEF OnePerChallenge
<1>10. MoneyStaysCounted'
    BY <1>1, <1>2 DEF MoneyStaysCounted, InFlightOwnsRow, InFlight, HasRow
<1>11. ReceiptsArePaid'
    BY <1>1 DEF ReceiptsArePaid
<1> QED
    BY <1>6, <1>7, <1>8, <1>9, <1>10, <1>11, StepFacts

\* Settling gives up the row, and the receipt belongs to a signed payment.
LEMMA SettleStep ==
    ASSUME MoneyInv, [Next]_vars, NEW c \in Calls, Settle(c)
    PROVE  MoneyInv'
<1> USE DEF MoneyInv
<1>1. /\ job[c].challenge \in Challenges /\ pc[c] = "send"
      /\ receipts' = receipts \cup {job[c].challenge} /\ signed' = signed
    BY DEF Settle, Resumes, Commit, TypeOK, Job, Awaiting
<1>2. /\ pc'[c] \in Ended
      /\ \A d \in Calls \ {c} : pc'[d] = pc[d] /\ job'[d] = job[d]
    BY DEF Settle, End, TypeOK, Ended
<1>3. \A d \in Calls : pc[d] \in Running \cup Awaiting => job[d].challenge \in Challenges
    BY DEF TypeOK, Job
<1>4. \A d \in Calls : pc'[d] \in InFlight \cup {"submit"} =>
            d # c /\ pc[d] = pc'[d] /\ job'[d] = job[d]
    BY <1>2 DEF InFlight, Ended
<1>5. SubmittingOwnsKey'
    BY <1>3, <1>4, OwnedRowKept DEF SubmittingOwnsKey, Running, HasRow
<1>6. InFlightOwnsRow'
    <2>1. SUFFICES ASSUME NEW d \in Calls, pc'[d] \in InFlight
                   PROVE  /\ HasRow(job[d].challenge)'
                          /\ reservations'[job[d].challenge].key = job[d].key
                          /\ reservations'[job[d].challenge].submitted
                          /\ reservations'[job[d].challenge].status = "pending"
        BY <1>4 DEF InFlightOwnsRow, HasRow
    <2>2. d # c /\ pc[d] \in InFlight /\ job[d].challenge \in Challenges
        BY <1>3, <1>4, <2>1 DEF InFlight, Awaiting
    <2>3. job[d].challenge \notin receipts'
        <3>1. job[d].challenge \notin receipts
            BY <2>2, StepFacts DEF InFlightOwnsRow, ReceiptIffSettled, HasStatus
        <3>2. job[d].challenge # job[c].challenge
            BY <1>1, <2>2 DEF OneOwner, InFlight
        <3> QED  BY <1>1, <3>1, <3>2
    <2> QED  BY <1>4, <2>1, <2>2, <2>3, OwnedRowKept DEF InFlightOwnsRow, HasRow
<1>7. OneOwner' /\ UnsignedYet' /\ SignedAlready'
    BY <1>1, <1>4 DEF OneOwner, UnsignedYet, SignedAlready, CredentialOf, InFlight, HasCredential
<1>8. OnePerChallenge'
    BY <1>1 DEF OnePerChallenge
<1>9. ReceiptsArePaid'
    <2>1. CredentialOf(c) \in signed /\ CredentialOf(c).challenge = job[c].challenge
        BY <1>1 DEF SignedAlready, CredentialOf, HasCredential
    <2> QED  BY <1>1, <2>1 DEF ReceiptsArePaid
<1>10. MoneyStaysCounted'
    BY <1>1, CountedStaysCounted DEF MoneyStaysCounted, HasRow
<1> QED
    BY <1>5, <1>6, <1>7, <1>8, <1>9, <1>10, StepFacts

\* Every step keeps the invariant.
LEMMA MoneyStep == MoneyInv /\ [Next]_vars => MoneyInv'
<1> SUFFICES ASSUME MoneyInv, [Next]_vars PROVE MoneyInv'
    OBVIOUS
<1>1. TypeOK
    BY DEF MoneyInv
<1>2. ASSUME NEW c \in Calls, CallStep(c) PROVE MoneyInv'
    <2>1. CASE Reserve(c) \/ Submit(c) \/ Sign(c) \/ Settle(c)
        BY <2>1, ReserveStep, SubmitStep, SignStep, SettleStep
    <2>2. CASE AccountFails(c) \/ ReserveFails(c) \/ SubmitFails(c) \/ CreateFails(c)
               \/ PaymentFails(c)
        <3>1. UNCHANGED <<receipts, signed>> /\ End(c, "failed")
            BY <2>2 DEF AccountFails, ReserveFails, SubmitFails, CreateFails, PaymentFails,
                        Release, storeVars
        <3>2. FlightKept
            BY <1>1, <3>1 DEF FlightKept, End, TypeOK, InFlight
        <3> QED  BY <3>1, <3>2, QuietStep
    <2>3. CASE Decide(c)
        <3>1. UNCHANGED <<receipts, signed>> /\ FlightKept
            BY <1>1, <2>3 DEF Decide, FlightKept, End, TypeOK, InFlight, storeVars
        <3> QED  BY <3>1, QuietStep
    <2>4. CASE SendCredential(c)
        <3>1. UNCHANGED <<receipts, signed>> /\ FlightKept
            BY <1>1, <2>4 DEF SendCredential, Resumes, FlightKept, Goto, TypeOK, InFlight, storeVars
        <3> QED  BY <3>1, QuietStep
    <2> QED  BY <1>2, <2>1, <2>2, <2>3, <2>4 DEF CallStep
<1>3. ASSUME NEW p \in Procs, Crash(p) PROVE MoneyInv'
    <2>1. UNCHANGED <<receipts, signed>> /\ FlightKept
        BY <1>1, <1>3 DEF Crash, Close, FlightKept, TypeOK, InFlight
    <2> QED  BY <2>1, QuietStep
<1>4. ASSUME NEW c \in Calls, NEW t \in Tokens, PayRejected(c, t) \/ PayAccepted(c, t)
      PROVE  MoneyInv'
    <2>1. UNCHANGED <<receipts, signed>> /\ FlightKept
        BY <1>1, <1>4 DEF PayRejected, PayAccepted, SpendToken, End, FlightKept, TypeOK,
                          InFlight, storeVars
    <2> QED  BY <2>1, QuietStep
<1>5. ASSUME UNCHANGED <<receipts, signed, pc, job>> PROVE MoneyInv'
    BY <1>5, QuietStep DEF FlightKept
<1>6. ASSUME NEW p \in Procs, NEW ch \in Challenges, NEW k \in Keys, NEW t \in Tokens,
             Prepare(p, ch, k, t)
      PROVE  MoneyInv'
    BY <1>5, <1>6 DEF Prepare, storeVars
<1>7. ASSUME NEW p \in Procs, Open(p) PROVE MoneyInv'
    BY <1>5, <1>7 DEF Open, OpenMigrate, OpenRecover, clientVars
<1>8. ASSUME NEW p \in Procs, NEW pol \in Policies, SavePolicy(p, pol) PROVE MoneyInv'
    BY <1>5, <1>8 DEF SavePolicy, SetPolicy, clientVars
<1>9. CASE ClockTick \/ UNCHANGED vars
    BY <1>5, <1>9 DEF ClockTick, Tick, clientVars, vars
<1> QED
    BY <1>2, <1>3, <1>4, <1>6, <1>7, <1>8, <1>9 DEF Next

\* For every number of processes, calls and challenges: once a credential
\* exists its amount stays counted under its key, through any failures,
\* crashes, restarts and recoveries.
THEOREM MoneyStaysCountedCorrect == Spec => []MoneyStaysCounted
<1>1. MoneyInv => MoneyStaysCounted
    BY DEF MoneyInv
<1> QED
    BY MoneyInit, MoneyStep, <1>1, PTL DEF Spec

\* At most one credential is ever created per challenge and per key.
THEOREM OneCredentialCorrect == Spec => []OneCredential
<1>1. MoneyInv => OneCredential
    <2> SUFFICES ASSUME MoneyInv, NEW a \in signed, NEW b \in signed,
                        a.challenge = b.challenge \/ a.key = b.key
                 PROVE  a = b
        BY DEF OneCredential
    <2>1. a.challenge \in Challenges /\ b.challenge \in Challenges
        BY DEF MoneyInv, TypeOK, Credential
    <2>2. a.key = b.key => a.challenge = b.challenge
        BY <2>1 DEF MoneyInv, LedgerInv, OneRowPerKey, MoneyStaysCounted
    <2> QED  BY <2>2 DEF MoneyInv, OnePerChallenge
<1> QED
    BY MoneyInit, MoneyStep, <1>1, PTL DEF Spec

\* Every receipt is of a payment that was signed.
THEOREM ReceiptsArePaidCorrect == Spec => []ReceiptsArePaid
<1>1. MoneyInv => ReceiptsArePaid
    BY DEF MoneyInv
<1> QED
    BY MoneyInit, MoneyStep, <1>1, PTL DEF Spec

(***************************************************************************)
(* The money as the promise sees it.                                       *)
(***************************************************************************)
Holds == [ch \in Challenges |-> HoldOf(ch)]
Paid == {cr.challenge : cr \in signed}

Phases == {"held", "exposed", "settled", "released"}

HoldPhases == [key : Keys, day : Days, phase : Phases]

\* A row is a hold, in the phase its status and its mark say.
LEMMA HoldOfRow ==
    ASSUME StoreTypeOK, NEW ch \in Challenges, HasRow(ch)
    PROVE  /\ HoldOf(ch) = [key |-> reservations[ch].key,
                            day |-> Day(reservations[ch].createdAt), phase |-> PhaseOf(ch)]
           /\ HoldOf(ch) \in HoldPhases
           /\ HoldOf(ch) # NoRow
           /\ reservations[ch].status = "settled" => PhaseOf(ch) = "settled"
           /\ reservations[ch].status = "failed" => PhaseOf(ch) = "released"
           /\ reservations[ch].status = "pending" =>
                PhaseOf(ch) = IF reservations[ch].submitted \/ version < 4
                              THEN "exposed" ELSE "held"
<1>1. reservations[ch] \in Row
    BY DEF StoreTypeOK, HasRow
<1>2. /\ reservations[ch].status = "settled" => PhaseOf(ch) = "settled"
      /\ reservations[ch].status = "failed" => PhaseOf(ch) = "released"
      /\ reservations[ch].status = "pending" =>
           PhaseOf(ch) = IF reservations[ch].submitted \/ version < 4
                         THEN "exposed" ELSE "held"
    BY DEF PhaseOf, HasStatus
<1>3. PhaseOf(ch) \in Phases
    BY <1>1, <1>2 DEF Row, Phases
<1>4. HoldOf(ch) = [key |-> reservations[ch].key,
                    day |-> Day(reservations[ch].createdAt), phase |-> PhaseOf(ch)]
    BY DEF HoldOf
<1>5. Day(reservations[ch].createdAt) \in Days /\ reservations[ch].key \in Keys
    BY <1>1 DEF Row, Days
<1>6. HoldOf(ch) \in HoldPhases
    BY <1>3, <1>4, <1>5 DEF HoldPhases
<1>7. HoldOf(ch) # NoRow
    BY <1>6, ClientAssumption DEF HoldPhases, Phases
<1> QED  BY <1>2, <1>4, <1>6, <1>7

\* The phase a step leaves a row in.
LEMMA NextPhase ==
    ASSUME NEW ch \in Challenges, HasRow(ch)'
    PROVE  /\ reservations'[ch].status = "settled" => PhaseOf(ch)' = "settled"
           /\ reservations'[ch].status = "failed" => PhaseOf(ch)' = "released"
           /\ reservations'[ch].status = "pending" =>
                PhaseOf(ch)' = IF reservations'[ch].submitted \/ version' < 4
                               THEN "exposed" ELSE "held"
  BY DEF PhaseOf, HasStatus

\* A challenge has a hold exactly when it has a row.
LEMMA HoldIffRow ==
    ASSUME StoreTypeOK, NEW ch \in Challenges
    PROVE  Holds[ch] = HoldOf(ch) /\ (Holds[ch] # NoRow <=> HasRow(ch))
  BY HoldOfRow DEF Holds, HoldOf

\* An unsent row of a migrated database is held money.
LEMMA UnsentIsHeld ==
    ASSUME StoreTypeOK, version = 4, NEW ch \in Challenges, Unsent(ch)
    PROVE  /\ HasRow(ch)
           /\ reservations[ch].status = "pending"
           /\ reservations[ch].submitted = FALSE
           /\ PhaseOf(ch) = "held"
           /\ Holds[ch] # NoRow
           /\ Holds[ch].phase = "held"
<1>1. HasRow(ch) /\ reservations[ch].status = "pending" /\ ~reservations[ch].submitted
    BY DEF Unsent, HasStatus
<1>2. reservations[ch].submitted = FALSE
    BY <1>1 DEF StoreTypeOK, HasRow, Row
<1>3. ~(version < 4)
    OBVIOUS
<1>4. PhaseOf(ch) = "held"
    BY <1>1, <1>3, HoldOfRow
<1> QED  BY <1>1, <1>2, <1>4, HoldOfRow, HoldIffRow

\* A submitted pending row is exposed money.
LEMMA SubmittedIsExposed ==
    ASSUME StoreTypeOK, NEW ch \in Challenges, HasRow(ch),
           reservations[ch].submitted, reservations[ch].status = "pending"
    PROVE  Holds[ch] # NoRow /\ Holds[ch].phase = "exposed"
<1>1. PhaseOf(ch) = "exposed"
    BY HoldOfRow
<1> QED  BY <1>1, HoldOfRow, HoldIffRow

\* A row that keeps its key, its day and its phase is the same hold.
LEMMA SameHold ==
    ASSUME NEW ch \in Challenges, HasRow(ch)' <=> HasRow(ch),
           HasRow(ch) => /\ reservations'[ch].key = reservations[ch].key
                         /\ reservations'[ch].createdAt = reservations[ch].createdAt
                         /\ PhaseOf(ch)' = PhaseOf(ch)
    PROVE  HoldOf(ch)' = HoldOf(ch)
  BY DEF HoldOf, Day

\* Rows that stay as they are under an unchanged version.
LEMMA SameRows ==
    ASSUME UNCHANGED <<reservations, version>>
    PROVE  Holds' = Holds
  BY DEF Holds, HoldOf, PhaseOf, HasStatus, HasRow, Day

\* Changes of rows are a move of the holds in the promise.
LEMMA HoldsMove ==
    ASSUME StoreTypeOK, StoreTypeOK', NEW S \in SUBSET Challenges, NEW phase \in Phases,
           \A ch \in Challenges \ S : HoldOf(ch)' = HoldOf(ch),
           \A ch \in S : /\ HasRow(ch) /\ HasRow(ch)'
                         /\ reservations'[ch].key = reservations[ch].key
                         /\ reservations'[ch].createdAt = reservations[ch].createdAt
                         /\ PhaseOf(ch)' = phase
    PROVE  Holds' = [ch \in Challenges |->
                       IF ch \in S THEN [Holds[ch] EXCEPT !.phase = phase] ELSE Holds[ch]]
<1>1. ASSUME NEW ch \in S PROVE HoldOf(ch)' = [HoldOf(ch) EXCEPT !.phase = phase]
    <2>1. HoldOf(ch)' = [key |-> reservations[ch].key,
                         day |-> Day(reservations[ch].createdAt), phase |-> phase]
        BY DEF HoldOf, Day
    <2>2. HoldOf(ch) = [key |-> reservations[ch].key,
                        day |-> Day(reservations[ch].createdAt), phase |-> PhaseOf(ch)]
        BY DEF HoldOf
    <2> QED  BY <2>1, <2>2
<1> QED  BY <1>1 DEF Holds

(***************************************************************************)
(* Every step of the protocol is a step of the promise, or leaves it as it *)
(* is.  A step of the promise is stated here over Holds, Paid and the day. *)
(***************************************************************************)
PromiseUnchanged == Holds' = Holds /\ Paid' = Paid /\ Day(now)' = Day(now)

PromiseStep == Spending!SpendingNext \/ PromiseUnchanged

\* The clock never returns to an earlier day.
LEMMA DaysPass ==
    ASSUME NEW a \in Nat
    PROVE  Day(a) \in Nat /\ Day(a + 1) \in Nat /\ Day(a) <= Day(a + 1)
<1> DEFINE q == a \div DayLength
           r == (a + 1) \div DayLength
<1>1. DayLength \in Nat /\ DayLength > 0
    BY StoreAssumption
<1>2. /\ q \in Int /\ DayLength * q <= a /\ a < DayLength * (q + 1)
      /\ r \in Int /\ DayLength * r <= a + 1 /\ a + 1 < DayLength * (r + 1)
    BY <1>1
<1> HIDE DEF q, r
<1>3. ASSUME NEW m \in Int, NEW n \in Int, m <= n PROVE DayLength * m <= DayLength * n
    BY <1>1, <1>3
<1>4. q <= r
    <2>1. r + 1 <= q => DayLength * (r + 1) <= DayLength * q
        BY <1>2, <1>3
    <2> QED  BY <1>1, <1>2, <2>1
<1>5. 0 <= q
    <2>1. q + 1 <= 0 => DayLength * (q + 1) <= DayLength * 0
        BY <1>2, <1>3
    <2> QED  BY <1>1, <1>2, <2>1
<1> QED  BY <1>2, <1>4, <1>5 DEF Day, q, r

\* A step that touches neither the clock, the rows nor the credentials.
LEMMA QuietPromise ==
    ASSUME UNCHANGED <<now, version, reservations, signed>>
    PROVE  PromiseUnchanged
  BY SameRows DEF PromiseUnchanged, Paid, Day

\* The clock: a new day begins, or nothing happens.
LEMMA TickPromise ==
    ASSUME TypeOK, TypeOK', ClockTick
    PROVE  PromiseStep
<1>1. Holds' = Holds /\ Paid' = Paid
    BY SameRows DEF ClockTick, Tick, clientVars, Paid
<1>2. Day(now) \in Nat /\ Day(now)' \in Nat /\ Day(now) <= Day(now)'
    BY DaysPass DEF ClockTick, Tick, TypeOK, StoreTypeOK, Day
<1>3. Day(now)' \in Days
    BY DEF Days, TypeOK, StoreTypeOK, Day
<1>4. CASE Day(now)' = Day(now)
    BY <1>1, <1>4 DEF PromiseStep, PromiseUnchanged
<1>5. CASE Day(now)' # Day(now)
    <2>1. Day(now)' \in {d \in Days : d > Day(now)}
        BY <1>2, <1>3, <1>5
    <2>2. UNCHANGED <<[ch \in Challenges |-> HoldOf(ch)], {cr.challenge : cr \in signed}>>
        BY <1>1 DEF Holds, Paid
    <2>3. Spending!NextDay
        BY <2>1, <2>2 DEF Spending!NextDay
    <2> QED  BY <2>3 DEF PromiseStep, Spending!SpendingNext
<1> QED  BY <1>4, <1>5

\* The migration: what may have been sent already counts as exposed.
LEMMA MigratePromise ==
    ASSUME TypeOK, TypeOK', NEW p \in Procs, OpenMigrate(p), UNCHANGED clientVars
    PROVE  PromiseUnchanged
<1>1. StoreTypeOK /\ StoreTypeOK' /\ version' = 4 /\ Day(now)' = Day(now) /\ Paid' = Paid
    BY DEF TypeOK, OpenMigrate, clientVars, Paid, Day
<1>2. ASSUME NEW ch \in Challenges PROVE HoldOf(ch)' = HoldOf(ch)
    <2>1. CASE ~Unsent(ch) \/ version = 4
        <3>1. reservations'[ch] = reservations[ch]
            BY <2>1 DEF OpenMigrate
        <3>2. HasRow(ch) => PhaseOf(ch)' = PhaseOf(ch)
            BY <1>1, <2>1, <3>1 DEF PhaseOf, HasStatus, HasRow, Unsent, StoreTypeOK
        <3> QED  BY <3>1, <3>2, SameHold DEF HasRow
    <2>2. CASE Unsent(ch) /\ version # 4
        <3>1. reservations'[ch] = [reservations[ch] EXCEPT !.submitted = TRUE]
            BY <2>2 DEF OpenMigrate
        <3>2. HasRow(ch) /\ reservations[ch].status = "pending" /\ version < 4
            BY <1>1, <2>2 DEF Unsent, HasStatus, StoreTypeOK
        <3>3. EditedTo(ch, "pending", TRUE)
            BY <1>1, <3>1, <3>2, Edits
        <3>4. PhaseOf(ch) = "exposed" /\ PhaseOf(ch)' = "exposed"
            BY <1>1, <3>2, <3>3, HoldOfRow, NextPhase DEF EditedTo
        <3> QED  BY <3>2, <3>3, <3>4, SameHold DEF EditedTo
    <2> QED  BY <2>1, <2>2
<1> QED  BY <1>1, <1>2 DEF PromiseUnchanged, Holds

\* Unsent rows that fail are holds that are released.
LEMMA ReleasePromise ==
    ASSUME TypeOK, TypeOK', version = 4, UNCHANGED <<now, version, signed>>,
           NEW S \in SUBSET Challenges,
           \A ch \in S : Unsent(ch),
           \A ch \in S : reservations'[ch] =
                            [reservations[ch] EXCEPT !.status = "failed", !.updatedAt = now],
           \A ch \in Challenges \ S : reservations'[ch] = reservations[ch]
    PROVE  PromiseStep
<1>1. StoreTypeOK /\ StoreTypeOK' /\ Day(now)' = Day(now) /\ Paid' = Paid
    BY DEF TypeOK, Paid, Day
<1>2. ASSUME NEW ch \in S
      PROVE  /\ EditedTo(ch, "failed", FALSE)
             /\ PhaseOf(ch) = "held" /\ PhaseOf(ch)' = "released"
    <2>1. ch \in Challenges /\ Unsent(ch)
        OBVIOUS
    <2>2. HasRow(ch) /\ reservations[ch].submitted = FALSE /\ PhaseOf(ch) = "held"
        BY <1>1, <2>1, UnsentIsHeld
    <2>3. EditedTo(ch, "failed", FALSE)
        BY <1>1, <2>1, <2>2, Edits
    <2>5. PhaseOf(ch)' = "released"
        BY <2>1, <2>3, NextPhase DEF EditedTo
    <2> QED  BY <2>2, <2>3, <2>5
<1>3. ASSUME NEW ch \in Challenges \ S PROVE HoldOf(ch)' = HoldOf(ch)
    BY SameHold DEF PhaseOf, HasStatus, HasRow
<1>4. Holds' = [ch \in Challenges |->
                  IF ch \in S THEN [Holds[ch] EXCEPT !.phase = "released"] ELSE Holds[ch]]
    BY <1>1, <1>2, <1>3, HoldsMove DEF Phases, EditedTo
<1>5. ASSUME NEW ch \in S PROVE Holds[ch] # NoRow /\ Holds[ch].phase = "held"
    <2>1. ch \in Challenges /\ Unsent(ch)
        OBVIOUS
    <2> QED  BY <1>1, <2>1, UnsentIsHeld
<1>6. CASE S = {}
    <2>1. Holds' = Holds
        BY <1>4, <1>6 DEF Holds
    <2> QED  BY <1>1, <2>1 DEF PromiseStep, PromiseUnchanged
<1>7. CASE S # {}
    <2>1. Spending!ReleaseHolds(S)
        BY <1>1, <1>4, <1>5, <1>7
           DEF Spending!ReleaseHolds, Spending!InPhase, Spending!Move, Holds, Paid
    <2> QED  BY <2>1 DEF PromiseStep, Spending!SpendingNext
<1> QED  BY <1>6, <1>7

\* A new row is money set aside within the cap of the policy it was granted under.
LEMMA ReservePromise ==
    ASSUME MoneyInv, TypeOK', NEW p \in Procs, NEW ch \in Challenges, NEW k \in Keys,
           NEW pol \in Policies, ReserveNew(p, ch, k, pol), signed' = signed
    PROVE  PromiseStep
<1> DEFINE C == Counted(reservations, Day(now))
<1>1. /\ StoreTypeOK /\ StoreTypeOK'
      /\ Day(now)' = Day(now) /\ Paid' = Paid /\ version' = version
    BY DEF MoneyInv, TypeOK, ReserveNew, Paid, Day
<1>2. version = 4
    BY DEF MoneyInv, LedgerInv, MigratedBeforeUse, ReserveNew, CanSeal
<1>3. NewRow(k) \in Row
    BY <1>1 DEF NewRow, Row, StoreTypeOK
<1>4. /\ ~HasRow(ch) /\ reservations'[ch] = NewRow(k)
      /\ \A c \in Challenges \ {ch} : reservations'[c] = reservations[c]
    BY <1>1 DEF ReserveNew, StoreTypeOK
<1>5. HoldOf(ch)' = [key |-> k, day |-> Day(now), phase |-> "held"]
    <2>1. HasRow(ch)'
        BY <1>3, <1>4, StoreAssumption DEF HasRow
    <2>2. PhaseOf(ch)' = "held"
        BY <1>1, <1>2, <1>4, <2>1 DEF PhaseOf, HasStatus, NewRow
    <2> QED  BY <1>4, <2>1, <2>2 DEF HoldOf, NewRow, Day
<1>6. ASSUME NEW c \in Challenges \ {ch} PROVE HoldOf(c)' = HoldOf(c)
    BY <1>1, <1>4, SameHold DEF PhaseOf, HasStatus, HasRow
<1>7. Holds[ch] = NoRow
    BY <1>1, <1>4, HoldIffRow
<1>8. Holds' = [Holds EXCEPT ![ch] = [key |-> k, day |-> Day(now), phase |-> "held"]]
    BY <1>5, <1>6 DEF Holds
<1>9. \A c \in Challenges : Holds[c] # NoRow => Holds[c].key # k
    BY <1>1, HoldOfRow, HoldIffRow DEF ReserveNew, KeyRow
<1>10. {c \in Challenges : /\ Holds[c] # NoRow
                           /\ Holds[c].day = Day(now)
                           /\ Holds[c].phase # "released"} = C
    <2>1. ASSUME NEW c \in Challenges, HasRow(c)
          PROVE  Holds[c].day = Day(reservations[c].createdAt)
                 /\ (Holds[c].phase # "released"
                      <=> reservations[c].status \in {"pending", "settled"})
        <3>1. reservations[c].status \in {"pending", "settled", "failed"}
            BY <1>1, <2>1 DEF StoreTypeOK, HasRow, Row
        <3> QED  BY <1>1, <2>1, <3>1, HoldOfRow, HoldIffRow
    <2> HIDE DEF Holds
    <2> QED  BY <1>1, <2>1, HoldIffRow DEF Counted, HasRow
<1>11. \/ Total[C \cup {ch}] = Total[C]
       \/ \E cap \in {q.dailyCap : q \in Policies} : Total[C \cup {ch}] <= cap
    <2>1. C \in SUBSET Challenges /\ ch \notin C
        BY <1>4 DEF Counted, HasRow
    <2>2. /\ Total[C \cup {ch}] = Total[C] + Amount[ch]
          /\ Total[C] \in Nat /\ Amount[ch] \in Nat /\ pol.dailyCap \in Nat
        BY <2>1, TotalAssumption, ChallengeAssumption, StoreAssumption DEF Policy
    <2>3. Amount[ch] <= IF Total[C] >= pol.dailyCap THEN 0 ELSE pol.dailyCap - Total[C]
        BY DEF ReserveNew, Available
    <2> HIDE DEF C
    <2>4. Total[C \cup {ch}] = Total[C] \/ Total[C \cup {ch}] <= pol.dailyCap
        BY <2>2, <2>3
    <2> QED  BY <2>4
<1>12. Spending!SetAside(ch, k)
    <2>1. Spending!CommittedOn(Day(now)) = C
        BY <1>10 DEF Spending!CommittedOn, Holds
    <2> HIDE DEF C
    <2> QED  BY <1>1, <1>7, <1>8, <1>9, <1>11, <2>1 DEF Spending!SetAside, Holds, Paid
<1> QED  BY <1>12 DEF PromiseStep, Spending!SpendingNext
\* One row that changes its status or its mark is one hold that moves.
LEMMA OneMove ==
    ASSUME TypeOK, TypeOK', UNCHANGED <<now, version>>,
           NEW ch \in Challenges, NEW phase \in Phases,
           HasRow(ch), HasRow(ch)', reservations'[ch].key = reservations[ch].key,
           reservations'[ch].createdAt = reservations[ch].createdAt, PhaseOf(ch)' = phase,
           \A c \in Challenges \ {ch} : reservations'[c] = reservations[c]
    PROVE  /\ Day(now)' = Day(now)
           /\ Holds' = [c \in Challenges |->
                          IF c \in {ch} THEN [Holds[c] EXCEPT !.phase = phase] ELSE Holds[c]]
<1>1. StoreTypeOK /\ StoreTypeOK' /\ Day(now)' = Day(now)
    BY DEF TypeOK, Day
<1>2. ASSUME NEW c \in Challenges \ {ch} PROVE HoldOf(c)' = HoldOf(c)
    BY SameHold DEF PhaseOf, HasStatus, HasRow
<1>3. \A c \in {ch} : /\ HasRow(c) /\ HasRow(c)'
                      /\ reservations'[c].key = reservations[c].key
                      /\ reservations'[c].createdAt = reservations[c].createdAt
                      /\ PhaseOf(c)' = phase
    OBVIOUS
<1>4. {ch} \in SUBSET Challenges
    OBVIOUS
<1> QED  BY <1>1, <1>2, <1>3, <1>4, HoldsMove

\* markSubmitted exposes a hold.
LEMMA SubmitPromise ==
    ASSUME MoneyInv, TypeOK', NEW c \in Calls, Submit(c),
           NEW ch \in Challenges, ch = job[c].challenge
    PROVE  PromiseStep
<1>1. /\ TypeOK /\ StoreTypeOK
      /\ job[c].proc \in Procs /\ Unsent(ch)
      /\ UNCHANGED <<now, version, signed>>
    BY DEF MoneyInv, TypeOK, Submit, MarkSubmitted, Job, Running, Awaiting
<1>2. version = 4
    BY <1>1 DEF MoneyInv, LedgerInv, MigratedBeforeUse, Submit, MarkSubmitted, IsOpen
<1>3. /\ reservations'[ch] = [reservations[ch] EXCEPT !.submitted = TRUE, !.updatedAt = now]
      /\ \A d \in Challenges \ {ch} : reservations'[d] = reservations[d]
    BY <1>1 DEF Submit, MarkSubmitted, StoreTypeOK
<1>4. /\ HasRow(ch) /\ reservations[ch].status = "pending"
      /\ Holds[ch] # NoRow /\ Holds[ch].phase = "held"
    BY <1>1, <1>2, UnsentIsHeld
<1>5. EditedTo(ch, "pending", TRUE)
    BY <1>1, <1>3, <1>4, Edits
<1>6. PhaseOf(ch)' = "exposed"
    BY <1>1, <1>5, NextPhase DEF EditedTo
<1>7. /\ Day(now)' = Day(now)
      /\ Holds' = [d \in Challenges |->
                     IF d \in {ch} THEN [Holds[d] EXCEPT !.phase = "exposed"] ELSE Holds[d]]
    <2>1. "exposed" \in Phases
        BY DEF Phases
    <2> QED  BY <1>1, <1>3, <1>5, <1>6, <2>1, OneMove DEF EditedTo
<1>8. Spending!Expose(ch)
    BY <1>1, <1>4, <1>7
       DEF Spending!Expose, Spending!InPhase, Spending!Move, Holds, Paid
<1> QED  BY <1>1, <1>8 DEF PromiseStep, Spending!SpendingNext

\* A credential is created for exposed money that has none yet.
LEMMA SignPromise ==
    ASSUME MoneyInv, NEW c \in Calls, Sign(c),
           NEW ch \in Challenges, ch = job[c].challenge
    PROVE  PromiseStep
<1>1. /\ StoreTypeOK /\ pc[c] = "create"
      /\ UNCHANGED <<now, version, reservations>>
    BY DEF MoneyInv, TypeOK, Sign, Resumes, Job, Awaiting, storeVars
<1>2. HasRow(ch) /\ reservations[ch].submitted /\ reservations[ch].status = "pending"
    BY <1>1 DEF MoneyInv, InFlightOwnsRow, InFlight
<1>3. Paid' = Paid \cup {ch}
    <2>1. signed' = signed \cup {CredentialOf(c)}
        BY DEF Sign, CredentialOf
    <2>2. CredentialOf(c).challenge = ch
        BY DEF CredentialOf
    <2> QED  BY <2>1, <2>2 DEF Paid
<1>4. ch \notin Paid
    BY <1>1 DEF MoneyInv, UnsignedYet, Paid
<1>5. Holds[ch] # NoRow /\ Holds[ch].phase = "exposed"
    BY <1>1, <1>2, SubmittedIsExposed
<1>6. Holds' = Holds /\ Day(now)' = Day(now)
    BY <1>1, SameRows DEF Day
<1>7. Spending!Pay(ch)
    <2>1. ch \in Spending!InPhase("exposed") \ {cr.challenge : cr \in signed}
        BY <1>1, <1>4, <1>5 DEF Spending!InPhase, Holds, Paid
    <2>2. {cr.challenge : cr \in signed}' = {cr.challenge : cr \in signed} \cup {ch}
        BY <1>3 DEF Paid
    <2>3. UNCHANGED <<Day(now), [d \in Challenges |-> HoldOf(d)]>>
        BY <1>6 DEF Holds
    <2> QED  BY <2>1, <2>2, <2>3 DEF Spending!Pay
<1> QED  BY <1>1, <1>7 DEF PromiseStep, Spending!SpendingNext

\* commit settles exposed money that was paid.
LEMMA SettlePromise ==
    ASSUME MoneyInv, TypeOK', NEW c \in Calls, Settle(c),
           NEW ch \in Challenges, ch = job[c].challenge
    PROVE  PromiseStep
<1>1. /\ TypeOK /\ StoreTypeOK
      /\ pc[c] = "send" /\ UNCHANGED <<now, version, signed>>
    BY DEF MoneyInv, TypeOK, Settle, Resumes, Commit, Job, Awaiting
<1>2. HasRow(ch) /\ reservations[ch].submitted /\ reservations[ch].status = "pending"
    BY <1>1 DEF MoneyInv, InFlightOwnsRow, InFlight
<1>3. /\ reservations'[ch] = [reservations[ch] EXCEPT !.status = "settled", !.updatedAt = now]
      /\ \A d \in Challenges \ {ch} : reservations'[d] = reservations[d]
    BY <1>1 DEF Settle, Commit, StoreTypeOK
<1>4. CredentialOf(c) \in signed /\ CredentialOf(c).challenge = ch
    BY <1>1 DEF MoneyInv, SignedAlready, HasCredential, CredentialOf
<1>5. ch \in Paid
    BY <1>4 DEF Paid
<1>6. EditedTo(ch, "settled", reservations[ch].submitted)
    BY <1>1, <1>2, <1>3, Edits
<1>7. PhaseOf(ch)' = "settled"
    BY <1>1, <1>6, NextPhase DEF EditedTo
<1>8. /\ Day(now)' = Day(now)
      /\ Holds' = [d \in Challenges |->
                     IF d \in {ch} THEN [Holds[d] EXCEPT !.phase = "settled"] ELSE Holds[d]]
    <2>1. "settled" \in Phases
        BY DEF Phases
    <2> QED  BY <1>1, <1>3, <1>6, <1>7, <2>1, OneMove DEF EditedTo
<1>9. Holds[ch] # NoRow /\ Holds[ch].phase = "exposed"
    BY <1>1, <1>2, SubmittedIsExposed
<1>10. Spending!Settle(ch)
    BY <1>1, <1>5, <1>8, <1>9
       DEF Spending!Settle, Spending!InPhase, Spending!Move, Holds, Paid
<1> QED  BY <1>1, <1>10 DEF PromiseStep, Spending!SpendingNext

\* release frees one hold, or finds nothing to free.
LEMMA FreePromise ==
    ASSUME MoneyInv, TypeOK', NEW p \in Procs, NEW ch \in Challenges,
           Release(p, ch), signed' = signed
    PROVE  PromiseStep
<1>1. TypeOK /\ StoreTypeOK /\ UNCHANGED <<now, version, signed>>
    BY DEF MoneyInv, TypeOK, Release
<1>2. version = 4
    BY DEF MoneyInv, LedgerInv, MigratedBeforeUse, Release, IsOpen
<1>3. CASE Unsent(ch)
    <2>1. /\ reservations'[ch] = [reservations[ch] EXCEPT !.status = "failed", !.updatedAt = now]
          /\ \A c \in Challenges \ {ch} : reservations'[c] = reservations[c]
        BY <1>1, <1>3 DEF Release, StoreTypeOK
    <2>2. {ch} \in SUBSET Challenges
        OBVIOUS
    <2> QED  BY <1>1, <1>2, <1>3, <2>1, <2>2, ReleasePromise
<1>4. CASE ~Unsent(ch)
    BY <1>1, <1>4, QuietPromise DEF Release, PromiseStep
<1> QED  BY <1>3, <1>4

\* Recovery frees the stale holds.
LEMMA RecoverPromise ==
    ASSUME MoneyInv, TypeOK', NEW p \in Procs, OpenRecover(p), UNCHANGED clientVars
    PROVE  PromiseStep
<1> DEFINE S == {ch \in Challenges : Stale(ch)}
<1>1. TypeOK /\ UNCHANGED <<now, version, signed>>
    BY DEF MoneyInv, OpenRecover, clientVars
<1>2. version = 4
    BY DEF MoneyInv, LedgerInv, MigratedBeforeUse, OpenRecover
<1>3. /\ S \in SUBSET Challenges
      /\ \A ch \in S : Unsent(ch)
      /\ \A ch \in S : reservations'[ch] =
                         [reservations[ch] EXCEPT !.status = "failed", !.updatedAt = now]
      /\ \A ch \in Challenges \ S : reservations'[ch] = reservations[ch]
    BY DEF OpenRecover, Stale
<1> HIDE DEF S
<1> QED  BY <1>1, <1>2, <1>3, ReleasePromise

\* Every step of the protocol, by its action.
LEMMA ProtocolPromise == MoneyInv /\ TypeOK' /\ [Next]_vars => PromiseStep
<1> SUFFICES ASSUME MoneyInv, TypeOK', [Next]_vars PROVE PromiseStep
    OBVIOUS
<1>1. ASSUME NEW c \in Calls, CallStep(c) PROVE PromiseStep
    <2>1. pc[c] \in Running \cup Awaiting
        BY <1>1 DEF CallStep, AccountFails, Decide, Reserve, ReserveFails, Submit, SubmitFails,
                    Sign, CreateFails, SendCredential, Settle, PaymentFails, Resumes,
                    Running, Awaiting
    <2>2. job[c].proc \in Procs /\ job[c].challenge \in Challenges /\ job[c].key \in Keys
        BY <2>1 DEF MoneyInv, TypeOK, Job
    <2>3. CASE Reserve(c)
        <3>1. job[c].policy \in Policies /\ signed' = signed
            BY <2>3 DEF Reserve, MoneyInv, TypeOK, Running
        <3>2. CASE ReserveAgain(job[c].proc, job[c].challenge, job[c].key)
            BY <3>1, <3>2, QuietPromise DEF ReserveAgain, storeVars, PromiseStep
        <3>3. CASE ReserveNew(job[c].proc, job[c].challenge, job[c].key, job[c].policy)
            BY <2>2, <3>1, <3>3, ReservePromise
        <3> QED  BY <2>3, <3>2, <3>3 DEF Reserve
    <2>4. CASE Submit(c)
        BY <2>2, <2>4, SubmitPromise
    <2>5. CASE SubmitFails(c)
        BY <2>2, <2>5, FreePromise, QuietPromise DEF SubmitFails, storeVars, PromiseStep
    <2>6. CASE CreateFails(c)
        BY <2>2, <2>6, FreePromise DEF CreateFails
    <2>7. CASE Settle(c)
        BY <2>2, <2>7, SettlePromise
    <2>8. CASE Sign(c)
        BY <2>2, <2>8, SignPromise
    <2>9. CASE AccountFails(c) \/ Decide(c) \/ ReserveFails(c)
               \/ SendCredential(c) \/ PaymentFails(c)
        BY <2>9, QuietPromise
           DEF AccountFails, Decide, ReserveFails, SendCredential, PaymentFails,
               storeVars, PromiseStep
    <2> QED  BY <1>1, <2>3, <2>4, <2>5, <2>6, <2>7, <2>8, <2>9 DEF CallStep
<1>2. ASSUME NEW p \in Procs, Open(p) PROVE PromiseStep
    BY <1>2, MigratePromise, RecoverPromise DEF Open, MoneyInv, PromiseStep
<1>3. ASSUME NEW p \in Procs, Crash(p) PROVE PromiseStep
    BY <1>3, QuietPromise DEF Crash, Close, PromiseStep
<1>4. ASSUME NEW p \in Procs, NEW pol \in Policies, SavePolicy(p, pol) PROVE PromiseStep
    BY <1>4, QuietPromise DEF SavePolicy, SetPolicy, clientVars, PromiseStep
<1>5. ASSUME NEW p \in Procs, NEW ch \in Challenges, NEW k \in Keys, NEW t \in Tokens,
             Prepare(p, ch, k, t)
      PROVE  PromiseStep
    BY <1>5, QuietPromise DEF Prepare, storeVars, PromiseStep
<1>6. ASSUME NEW c \in Calls, NEW t \in Tokens, PayRejected(c, t) \/ PayAccepted(c, t)
      PROVE  PromiseStep
    BY <1>6, QuietPromise DEF PayRejected, PayAccepted, storeVars, PromiseStep
<1>7. CASE ClockTick
    BY <1>7, TickPromise DEF MoneyInv
<1>8. CASE UNCHANGED vars
    BY <1>8, QuietPromise DEF vars, PromiseStep
<1> QED
    BY <1>1, <1>2, <1>3, <1>4, <1>5, <1>6, <1>7, <1>8 DEF Next

\* A database starts with nothing held, or with what an earlier version exposed.
LEMMA PromiseInit == Init => Spending!SpendingInit
<1> SUFFICES ASSUME Init PROVE Spending!SpendingInit
    OBVIOUS
<1>1. StoreTypeOK /\ now = 0 /\ Paid = {}
    BY TypeInit DEF Init, TypeOK, StoreInit, Paid
<1>2. Day(now) \in Days
    BY <1>1 DEF StoreTypeOK, Days
<1>3. ASSUME NEW ch \in Challenges
      PROVE  HoldOf(ch) \in {NoRow} \cup [key : Keys, day : {Day(now)}, phase : {"exposed"}]
    <2>1. CASE ~HasRow(ch)
        BY <2>1 DEF HoldOf
    <2>2. CASE HasRow(ch)
        <3>1. PICK k \in Keys : version = 3 /\ reservations[ch] = NewRow(k)
            BY <2>2 DEF Init, StoreInit, HasRow
        <3>2. /\ reservations[ch].key = k /\ reservations[ch].status = "pending"
              /\ reservations[ch].createdAt = now
            BY <3>1 DEF NewRow
        <3>3. HoldOf(ch) = [key |-> k, day |-> Day(now), phase |-> "exposed"]
            BY <1>1, <2>2, <3>1, <3>2, HoldOfRow
        <3> QED  BY <3>3
    <2> QED  BY <2>1, <2>2
<1>4. Holds \in [Challenges -> {NoRow} \cup [key : Keys, day : {Day(now)}, phase : {"exposed"}]]
    BY <1>3 DEF Holds
<1> QED  BY <1>1, <1>2, <1>4 DEF Spending!SpendingInit, Holds, Paid

\* The protocol implements the promise: whatever the calls, processes and
\* crashes do, money is held within a cap, exposed before it is paid, paid once
\* and released only before it was exposed (client.ts:230-396, store.ts:254-437).
THEOREM ImplementsGovernedSpendingCorrect == Spec => ImplementsGovernedSpending
<1>1. MoneyInv /\ [Next]_vars => TypeOK'
    BY TypeStep DEF MoneyInv
<1>2. PromiseStep => [Spending!SpendingNext]_(Spending!spendingVars)
    BY DEF PromiseStep, PromiseUnchanged, Spending!spendingVars, Holds, Paid
<1> QED
    BY PromiseInit, MoneyInit, MoneyStep, ProtocolPromise, <1>1, <1>2, PTL
       DEF Spec, ImplementsGovernedSpending, Spending!SpendingSpec

(***************************************************************************)
(* The policy.  In one process no policy is saved while a handler runs, so *)
(* what a running call decided is still what the policy says.              *)
(***************************************************************************)
Admits(pol, ch) == Origin[ch] \in pol.allowedOrigins /\ Amount[ch] <= pol.maxPerRequest

PolicyInv ==
    /\ MoneyInv
    /\ \A c \in Calls : pc[c] \in Running => Admits(policy, job[c].challenge)

\* What PolicyHonoured says of one step.
SubmitsAdmitted ==
    \A ch \in Challenges :
        Unsent(ch) /\ version = 4 /\ reservations'[ch].submitted => Admits(policy, ch)

\* A running call was admitted by the policy, and still is.
LEMMA PolicyStep ==
    ASSUME NEW p, Procs = {p}, PolicyInv, [Next]_vars
    PROVE  PolicyInv'
<1> USE DEF PolicyInv
<1>1. MoneyInv'
    BY MoneyStep
<1>2. TypeOK
    BY DEF MoneyInv
<1>3. SUFFICES ASSUME NEW c \in Calls, pc'[c] \in Running
               PROVE  Admits(policy', job'[c].challenge)
    BY <1>1 DEF Admits
<1>4. CASE /\ policy' = policy /\ pc[c] \in Running
           /\ job'[c].challenge = job[c].challenge
    BY <1>4
<1>5. ASSUME NEW d \in Calls, Decide(d)
      PROVE  Admits(policy', job'[c].challenge)
    <2>1. policy' = policy
        BY <1>5 DEF Decide, storeVars
    <2>2. CASE c # d
        <3>1. CASE Blocked(policy, job[d].challenge, Available(policy))
            BY <1>2, <1>3, <1>4, <1>5, <2>1, <2>2, <3>1 DEF Decide, End, TypeOK
        <3>2. CASE ~Blocked(policy, job[d].challenge, Available(policy))
            <4>1. pc' = [pc EXCEPT ![d] = "reserve"] /\ job' = [job EXCEPT ![d].policy = policy]
                BY <1>5, <3>2 DEF Decide
            <4>2. pc'[c] = pc[c] /\ job'[c] = job[c]
                BY <1>2, <2>2, <4>1 DEF TypeOK
            <4> QED  BY <1>3, <1>4, <2>1, <4>2
        <3> QED  BY <3>1, <3>2
    <2>3. CASE c = d
        <3>1. ~Blocked(policy, job[d].challenge, Available(policy))
            BY <1>2, <1>3, <1>5, <2>3 DEF Decide, End, Running, TypeOK
        <3>2. job'[d].challenge = job[d].challenge
            <4>1. job[d] \in Job /\ job' = [job EXCEPT ![d].policy = policy]
                BY <1>2, <1>5, <3>1 DEF Decide, Resumes, TypeOK, Awaiting
            <4> QED  BY <1>2, <4>1 DEF TypeOK, Job
        <3>3. /\ job[d].challenge \in Challenges /\ Amount[job[d].challenge] \in Nat
              /\ policy.maxPerRequest \in Nat
            BY <1>2, <1>5, ChallengeAssumption, StoreAssumption
               DEF Decide, Resumes, TypeOK, StoreTypeOK, Awaiting, Job, Policy
        <3> QED  BY <2>1, <2>3, <3>1, <3>2, <3>3 DEF Blocked, Admits
    <2> QED  BY <2>2, <2>3
<1>6. ASSUME NEW d \in Calls, Reserve(d)
      PROVE  Admits(policy', job'[c].challenge)
    <2>1. policy' = policy /\ job' = job
        BY <1>6 DEF Reserve, ReserveAgain, ReserveNew, Goto, storeVars
    <2>2. pc[c] \in Running
        BY <1>2, <1>3, <1>6 DEF Reserve, Goto, TypeOK, Running
    <2> QED  BY <1>4, <2>1, <2>2
<1>7. ASSUME NEW d \in Calls, CallStep(d), ~Decide(d), ~Reserve(d)
      PROVE  Admits(policy', job'[c].challenge)
    <2>1. policy' = policy
        BY <1>7 DEF CallStep, AccountFails, ReserveFails, Submit, SubmitFails, Sign, CreateFails,
                    SendCredential, Settle, PaymentFails, MarkSubmitted, Release, Commit, storeVars
    <2>2. c # d
        BY <1>2, <1>3, <1>7
           DEF CallStep, AccountFails, ReserveFails, Submit, SubmitFails, Sign, CreateFails,
               SendCredential, Settle, PaymentFails, Goto, End, TypeOK, Running
    <2>3. pc'[c] = pc[c] /\ job'[c] = job[c]
        BY <1>2, <1>7, <2>2
           DEF CallStep, AccountFails, ReserveFails, Submit, SubmitFails, Sign, CreateFails,
               SendCredential, Settle, PaymentFails, Goto, End, TypeOK
    <2> QED  BY <1>3, <1>4, <2>1, <2>3
<1>8. ASSUME NEW q \in Procs, Open(q) \/ Crash(q)
      PROVE  Admits(policy', job'[c].challenge)
    <2>1. policy' = policy
        BY <1>8 DEF Open, OpenMigrate, OpenRecover, Crash, Close
    <2>2. pc'[c] = pc[c] /\ job'[c] = job[c]
        BY <1>3, <1>8 DEF Open, Crash, clientVars, Running
    <2> QED  BY <1>3, <1>4, <2>1, <2>2
<1>9. ASSUME NEW q \in Procs, NEW pol \in Policies, SavePolicy(q, pol)
      PROVE  Admits(policy', job'[c].challenge)
    <2>1. pc'[c] = pc[c] /\ job[c].proc \in Procs
        BY <1>2, <1>3, <1>9 DEF SavePolicy, clientVars, TypeOK, Job
    <2>2. job[c].proc = q
        BY <1>9, <2>1
    <2> QED  BY <1>3, <1>9, <2>1, <2>2 DEF SavePolicy, Idle
<1>10. ASSUME NEW q \in Procs, NEW ch \in Challenges, NEW k \in Keys, NEW t \in Tokens,
              Prepare(q, ch, k, t)
       PROVE  Admits(policy', job'[c].challenge)
    BY <1>3, <1>4, <1>10 DEF Prepare, storeVars
<1>11. ASSUME NEW d \in Calls, NEW t \in Tokens, PayRejected(d, t) \/ PayAccepted(d, t)
       PROVE  Admits(policy', job'[c].challenge)
    <2>1. policy' = policy
        BY <1>11 DEF PayRejected, PayAccepted, storeVars
    <2>2. c # d
        BY <1>2, <1>3, <1>11 DEF PayRejected, PayAccepted, End, TypeOK, Running
    <2>3. pc'[c] = pc[c] /\ job'[c] = job[c]
        BY <1>2, <1>11, <2>2 DEF PayRejected, PayAccepted, End, TypeOK
    <2> QED  BY <1>3, <1>4, <2>1, <2>3
<1>12. CASE ClockTick \/ UNCHANGED vars
    BY <1>3, <1>4, <1>12 DEF ClockTick, Tick, clientVars, vars
<1> QED
    BY <1>5, <1>6, <1>7, <1>8, <1>9, <1>10, <1>11, <1>12 DEF Next

\* A row is submitted only by a running call, which the policy admits.
LEMMA SubmitAdmitted ==
    ASSUME PolicyInv, [Next]_vars
    PROVE  SubmitsAdmitted
<1> SUFFICES ASSUME NEW ch \in Challenges, Unsent(ch), version = 4, reservations'[ch].submitted,
                    ~Admits(policy, ch)
             PROVE  FALSE
    BY DEF SubmitsAdmitted
<1>1. TypeOK /\ StoreTypeOK
    BY DEF PolicyInv, MoneyInv, TypeOK
<1>2. HasRow(ch) /\ ~reservations[ch].submitted /\ reservations[ch] \in Row
    BY <1>1 DEF Unsent, HasStatus, StoreTypeOK, HasRow
<1>3. reservations'[ch] # reservations[ch]
    BY <1>2
<1>4. ~ \E status \in {"settled", "failed"} :
          reservations'[ch] = [reservations[ch] EXCEPT !.status = status, !.updatedAt = now]
    BY <1>2 DEF Row
<1>5. ASSUME NEW q \in Procs, NEW d \in Challenges, NEW k \in Keys, NEW pol \in Policies,
             ReserveNew(q, d, k, pol)
      PROVE  FALSE
    BY <1>1, <1>2, <1>3, <1>5 DEF ReserveNew, StoreTypeOK
<1>6. ASSUME NEW q \in Procs, NEW d \in Challenges, Release(q, d) \/ Commit(q, d)
      PROVE  FALSE
    BY <1>1, <1>3, <1>4, <1>6 DEF Release, Commit, StoreTypeOK
<1>7. ASSUME NEW c \in Calls, CallStep(c) PROVE FALSE
    <2>1. pc[c] \in Running \cup Awaiting
        BY <1>7 DEF CallStep, AccountFails, Decide, Reserve, ReserveFails, Submit, SubmitFails,
                    Sign, CreateFails, SendCredential, Settle, PaymentFails, Resumes,
                    Running, Awaiting
    <2>2. job[c].proc \in Procs /\ job[c].challenge \in Challenges /\ job[c].key \in Keys
        BY <1>1, <2>1 DEF TypeOK, Job
    <2>3. CASE Reserve(c)
        <3>1. job[c].policy \in Policies
            BY <1>1, <2>3 DEF Reserve, TypeOK, Running
        <3> QED  BY <1>3, <1>5, <2>2, <2>3, <3>1 DEF Reserve, ReserveAgain, storeVars
    <2>4. CASE Submit(c)
        <3>1. Admits(policy, job[c].challenge)
            BY <2>4 DEF PolicyInv, Submit, Running
        <3>2. job[c].challenge # ch
            BY <3>1
        <3> QED  BY <1>1, <1>3, <2>2, <2>4, <3>2 DEF Submit, MarkSubmitted, StoreTypeOK
    <2>5. CASE SubmitFails(c) \/ CreateFails(c) \/ Settle(c)
        BY <1>3, <1>6, <2>2, <2>5 DEF SubmitFails, CreateFails, Settle, storeVars
    <2>6. CASE AccountFails(c) \/ Decide(c) \/ ReserveFails(c) \/ Sign(c)
               \/ SendCredential(c) \/ PaymentFails(c)
        BY <1>3, <2>6
           DEF AccountFails, Decide, ReserveFails, Sign, SendCredential, PaymentFails, storeVars
    <2> QED  BY <1>7, <2>3, <2>4, <2>5, <2>6 DEF CallStep
<1>8. ASSUME NEW q \in Procs, Open(q) PROVE FALSE
    BY <1>3, <1>4, <1>8 DEF Open, OpenMigrate, OpenRecover
<1>9. ASSUME NEW q \in Procs, NEW pol \in Policies, Crash(q) \/ SavePolicy(q, pol) PROVE FALSE
    BY <1>3, <1>9 DEF Crash, Close, SavePolicy, SetPolicy
<1>10. ASSUME NEW q \in Procs, NEW d \in Challenges, NEW k \in Keys, NEW t \in Tokens,
              Prepare(q, d, k, t)
       PROVE  FALSE
    BY <1>3, <1>10 DEF Prepare, storeVars
<1>11. ASSUME NEW c \in Calls, NEW t \in Tokens, PayRejected(c, t) \/ PayAccepted(c, t)
       PROVE  FALSE
    BY <1>3, <1>11 DEF PayRejected, PayAccepted, storeVars
<1>12. CASE ClockTick \/ UNCHANGED vars
    BY <1>3, <1>12 DEF ClockTick, Tick, vars
<1>13. ASSUME NEW q \in Procs, Crash(q) PROVE FALSE
    BY <1>3, <1>13 DEF Crash, Close
<1> QED
    BY <1>7, <1>8, <1>9, <1>10, <1>11, <1>12, <1>13 DEF Next

\* With one process, a payment is submitted only if the policy saved at that
\* moment admits it, however long its call waited (client.ts:268-305).
THEOREM PolicyHonouredCorrect ==
    ASSUME NEW p, Procs = {p}
    PROVE  Spec => PolicyHonoured
<1>1. Init => PolicyInv
    BY MoneyInit DEF PolicyInv, Init, Running
<1>2. PolicyInv /\ [Next]_vars => PolicyInv'
    BY PolicyStep
<1>3. PolicyInv /\ [Next]_vars => SubmitsAdmitted
    BY SubmitAdmitted
<1>4. SubmitsAdmitted =>
        \A ch \in Challenges :
            Unsent(ch) /\ version = 4 /\ reservations'[ch].submitted =>
                /\ Origin[ch] \in policy.allowedOrigins
                /\ Amount[ch] <= policy.maxPerRequest
    BY DEF SubmitsAdmitted, Admits
<1> QED
    BY <1>1, <1>2, <1>3, <1>4, PTL DEF Spec, PolicyHonoured
================================================================================
