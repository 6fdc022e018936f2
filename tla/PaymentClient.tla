---------------------------- MODULE PaymentClient ----------------------------
(***************************************************************************)
(* The payment protocol (src/sidecar/src/client.ts, class                  *)
(* MppPaymentClient) over the ledger of PaymentStore.tla: prepare stages a *)
(* challenge behind a single-use approval token, pay spends the token.     *)
(*                                                                         *)
(* A process runs one JavaScript thread: code between two awaits is never  *)
(* interleaved with other code of the process, but the clock, the other    *)
(* processes and a crash can come between any two of its database calls.   *)
(* A call's pc says what it does next:                                     *)
(*   "account"  awaiting the wallet account                                *)
(*   "reserve", "submit"  running, about to make that database call        *)
(*   "create"   awaiting the payment SDK, nothing signed yet               *)
(*   "signed"   awaiting the payment SDK, a credential exists (push mode   *)
(*              may already have broadcast it)                             *)
(*   "send"     awaiting the paid request                                  *)
(* and it ends "done", "failed" or, with its process, "lost".              *)
(***************************************************************************)
EXTENDS PaymentStore

CONSTANTS
    Tokens,         \* approval tokens, each drawn at random once
    Calls,          \* invocations of pay
    Expiry,         \* the tick at which each challenge expires
    ApprovalTTL,    \* lifetime of an approval (5 min)
    Fresh,          \* a token not drawn yet
    Gone,           \* a token spent, pruned or lost with its process
    NoJob,          \* a call not in progress has no job
    Unread          \* a call that has not read the policy yet

VARIABLES
    approvals,      \* the in-memory #pending maps, by token
    pc,             \* program counter of each call
    job,            \* what each call in progress works on
    signed          \* history: the credentials created

clientVars == <<approvals, pc, job, signed>>
vars == <<now, policy, version, reservations, receipts, handles, granted,
          approvals, pc, job, signed>>

ASSUME ClientAssumption ==
    /\ Expiry \in [Challenges -> Nat]
    /\ ApprovalTTL \in Nat
    /\ Unread \notin Policies
    /\ NoRow \notin [key : Keys, day : Days, phase : {"held", "exposed", "settled", "released"}]

Approval == [proc : Procs, challenge : Challenges, key : Keys, expires : Nat]
Job == [proc : Procs, challenge : Challenges, key : Keys, policy : Policies \cup {Unread}]
Credential == [call : Calls, challenge : Challenges, key : Keys]

Running == {"reserve", "submit"}
Awaiting == {"account", "create", "signed", "send"}
Ended == {"done", "failed", "lost"}

IsStaged(t) == approvals[t] \notin {Fresh, Gone}

\* The thread of an open process is free to run another handler.
Idle(p) ==
    /\ IsOpen(p)
    /\ \A c \in Calls : pc[c] \in Running => job[c].proc # p

TypeOK ==
    /\ StoreTypeOK
    /\ approvals \in [Tokens -> Approval \cup {Fresh, Gone}]
    /\ pc \in [Calls -> {"idle"} \cup Running \cup Awaiting \cup Ended]
    /\ job \in [Calls -> Job \cup {NoJob}]
    /\ \A c \in Calls : pc[c] \in Running \cup Awaiting => job[c] \in Job
    /\ \A c \in Calls : pc[c] \in Running => job[c].policy \in Policies
    /\ signed \in SUBSET Credential

Init ==
    /\ StoreInit
    /\ approvals = [t \in Tokens |-> Fresh]
    /\ pc = [c \in Calls |-> "idle"]
    /\ job = [c \in Calls |-> NoJob]
    /\ signed = {}

Goto(c, label) ==
    /\ pc' = [pc EXCEPT ![c] = label]
    /\ UNCHANGED job

End(c, outcome) ==
    /\ pc' = [pc EXCEPT ![c] = outcome]
    /\ job' = [job EXCEPT ![c] = NoJob]

\* The call resumes: its await is over and the thread of its process is free.
Resumes(c, label) == pc[c] = label /\ Idle(job[c].proc)

(***************************************************************************)
(* prepare and prepareMcp, from the captured challenge on (stagePayment).  *)
(***************************************************************************)
Prepare(p, ch, k, t) ==
    LET ends == now + ApprovalTTL
        expires == IF Expiry[ch] < ends THEN Expiry[ch] ELSE ends
        Pruned(u) == IsStaged(u) /\ approvals[u].proc = p /\ approvals[u].expires <= now
    IN  /\ Idle(p)
        /\ approvals[t] = Fresh
        /\ ~Blocked(policy, ch, Available(policy))
        /\ expires > now
        /\ approvals' = [u \in Tokens |->
              IF u = t THEN [proc |-> p, challenge |-> ch, key |-> k, expires |-> expires]
              ELSE IF Pruned(u) THEN Gone
              ELSE approvals[u]]
        /\ UNCHANGED <<storeVars, pc, job, signed>>

(***************************************************************************)
(* pay.                                                                    *)
(***************************************************************************)
\* The token is spent whatever comes of it.
SpendToken(c, t) ==
    /\ pc[c] = "idle"
    /\ IsStaged(t)
    /\ Idle(approvals[t].proc)
    /\ approvals' = [approvals EXCEPT ![t] = Gone]

PayRejected(c, t) ==
    /\ SpendToken(c, t)
    /\ approvals[t].expires <= now \/ approvals[t].challenge \in receipts
    /\ End(c, "failed")
    /\ UNCHANGED <<storeVars, signed>>

PayAccepted(c, t) ==
    LET a == approvals[t]
    IN  /\ SpendToken(c, t)
        /\ a.expires > now
        /\ a.challenge \notin receipts
        /\ pc' = [pc EXCEPT ![c] = "account"]
        /\ job' = [job EXCEPT ![c] = [proc |-> a.proc, challenge |-> a.challenge,
                                      key |-> a.key, policy |-> Unread]]
        /\ UNCHANGED <<storeVars, signed>>

\* Custody has no wallet, or did not answer in time.
AccountFails(c) ==
    /\ Resumes(c, "account")
    /\ End(c, "failed")
    /\ UNCHANGED <<storeVars, approvals, signed>>

\* Mutant: the decision is not taken again after the await.
DecideUnchecked(c) ==
    /\ Resumes(c, "account")
    /\ pc' = [pc EXCEPT ![c] = "reserve"]
    /\ job' = [job EXCEPT ![c].policy = policy]
    /\ UNCHANGED <<storeVars, approvals, signed>>

\* Mutant: reserve is called without the policy read here.
DecideForgetsPolicy(c) ==
    /\ Resumes(c, "account")
    /\ IF Blocked(policy, job[c].challenge, Available(policy))
       THEN End(c, "failed")
       ELSE Goto(c, "reserve")
    /\ UNCHANGED <<storeVars, approvals, signed>>

\* The policy and the budget are read again, after the await.
Decide(c) ==
    /\ Resumes(c, "account")
    /\ IF Blocked(policy, job[c].challenge, Available(policy))
       THEN End(c, "failed")
       ELSE /\ pc' = [pc EXCEPT ![c] = "reserve"]
            /\ job' = [job EXCEPT ![c].policy = policy]
    /\ UNCHANGED <<storeVars, approvals, signed>>

Reserve(c) ==
    LET j == job[c]
    IN  /\ pc[c] = "reserve"
        /\ \/ ReserveAgain(j.proc, j.challenge, j.key)
           \/ ReserveNew(j.proc, j.challenge, j.key, j.policy)
        /\ Goto(c, "submit")
        /\ UNCHANGED <<approvals, signed>>

\* reserve throws: one of its checks, the seal, or the database itself.
ReserveFails(c) ==
    /\ pc[c] = "reserve"
    /\ End(c, "failed")
    /\ UNCHANGED <<storeVars, approvals, signed>>

Submit(c) ==
    /\ pc[c] = "submit"
    /\ MarkSubmitted(job[c].proc, job[c].challenge)
    /\ Goto(c, "create")
    /\ UNCHANGED <<approvals, signed>>

\* markSubmitted throws, on a lost compare-and-set or a database error, and
\* the handler releases the reservation (which may fail in the same way).
SubmitFails(c) ==
    /\ pc[c] = "submit"
    /\ Release(job[c].proc, job[c].challenge) \/ UNCHANGED storeVars
    /\ End(c, "failed")
    /\ UNCHANGED <<approvals, signed>>

\* Inside createCredential: from here on the money may be gone.
Sign(c) ==
    /\ Resumes(c, "create")
    /\ signed' = signed \cup {[call |-> c, challenge |-> job[c].challenge, key |-> job[c].key]}
    /\ Goto(c, "signed")
    /\ UNCHANGED <<storeVars, approvals>>

\* createCredential throws, before or after signing: credentialSent is
\* still false and the handler releases.
CreateFails(c) ==
    /\ Resumes(c, "create") \/ Resumes(c, "signed")
    /\ Release(job[c].proc, job[c].challenge)
    /\ End(c, "failed")
    /\ UNCHANGED <<approvals, signed>>

\* credentialSent becomes true and the paid request leaves.
SendCredential(c) ==
    /\ Resumes(c, "signed")
    /\ Goto(c, "send")
    /\ UNCHANGED <<storeVars, approvals, signed>>

\* Mutant: the receipt is committed while the credential is being created.
SettleEarly(c) ==
    /\ Resumes(c, "create")
    /\ Commit(job[c].proc, job[c].challenge)
    /\ \E outcome \in {"done", "failed"} : End(c, outcome)
    /\ UNCHANGED <<approvals, signed>>

\* A receipt came back; reading the resource may still fail after commit.
Settle(c) ==
    /\ Resumes(c, "send")
    /\ Commit(job[c].proc, job[c].challenge)
    /\ \E outcome \in {"done", "failed"} : End(c, outcome)
    /\ UNCHANGED <<approvals, signed>>

\* Mutant: a commit that cannot seal the receipt is tried again for ever.
PaymentFailsBeforeCommit(c) ==
    /\ Resumes(c, "send")
    /\ CanSeal(job[c].proc)
    /\ End(c, "failed")
    /\ UNCHANGED <<storeVars, approvals, signed>>

\* A refusal, a changed challenge, no answer, no receipt, or commit throws:
\* the reservation is not released.
PaymentFails(c) ==
    /\ Resumes(c, "send")
    /\ End(c, "failed")
    /\ UNCHANGED <<storeVars, approvals, signed>>

(***************************************************************************)
(* The process and its surroundings.                                       *)
(***************************************************************************)
Open(p) ==
    /\ OpenMigrate(p) \/ OpenRecover(p)
    /\ UNCHANGED clientVars

SavePolicy(p, pol) ==
    /\ Idle(p)
    /\ SetPolicy(p, pol)
    /\ UNCHANGED clientVars

\* The process ends at any point: what it kept in memory is lost.
Crash(p) ==
    LET Dies(c) == pc[c] \in Running \cup Awaiting /\ job[c].proc = p
    IN  /\ Close(p)
        /\ approvals' = [t \in Tokens |->
              IF IsStaged(t) /\ approvals[t].proc = p THEN Gone ELSE approvals[t]]
        /\ pc' = [c \in Calls |-> IF Dies(c) THEN "lost" ELSE pc[c]]
        /\ job' = [c \in Calls |-> IF Dies(c) THEN NoJob ELSE job[c]]
        /\ UNCHANGED signed

ClockTick == Tick /\ UNCHANGED clientVars

CallStep(c) ==
    \/ AccountFails(c)
    \/ Decide(c)
    \/ Reserve(c)
    \/ ReserveFails(c)
    \/ Submit(c)
    \/ SubmitFails(c)
    \/ Sign(c)
    \/ CreateFails(c)
    \/ SendCredential(c)
    \/ Settle(c)
    \/ PaymentFails(c)

Next ==
    \/ ClockTick
    \/ \E p \in Procs :
        \/ Open(p)
        \/ Crash(p)
        \/ \E pol \in Policies : SavePolicy(p, pol)
        \/ \E ch \in Challenges, k \in Keys, t \in Tokens : Prepare(p, ch, k, t)
    \/ \E c \in Calls :
        \/ CallStep(c)
        \/ \E t \in Tokens : PayRejected(c, t) \/ PayAccepted(c, t)

Spec == Init /\ [][Next]_vars

\* A running handler goes on, and every await of pay ends: the wallet RPC and
\* the paid request have timeouts, and the payment SDK is taken to answer.
Fairness == \A c \in Calls : WF_vars(CallStep(c))

FairSpec == Spec /\ Fairness

(***************************************************************************)
(* Properties.                                                             *)
(***************************************************************************)
\* Once a credential exists its amount stays counted, against the key it was
\* paid under, through failures, crashes, restarts and recovery
\* (client.ts:271-275, 301-309, 388-395; store.ts:431-437, 564-571).
MoneyStaysCounted ==
    \A cr \in signed :
        /\ HasRow(cr.challenge)
        /\ reservations[cr.challenge].key = cr.key
        /\ reservations[cr.challenge].submitted
        /\ reservations[cr.challenge].status \in {"pending", "settled"}

\* At most one credential per challenge and per idempotency key, however
\* calls, retries and restarts interleave (client.ts:242-252, store.ts:333-347).
OneCredential ==
    \A a, b \in signed : a.challenge = b.challenge \/ a.key = b.key => a = b

\* A receipt is only recorded for a payment that was signed
\* (client.ts:355-387, store.ts:349-429).
ReceiptsArePaid ==
    \A ch \in receipts : \E cr \in signed : cr.challenge = ch

\* A single process submits a payment only if the policy saved at that moment
\* admits it: nothing saved while the call waited for the wallet is missed
\* (client.ts:268-305).
PolicyHonoured ==
    [][\A ch \in Challenges :
        Unsent(ch) /\ version = 4 /\ reservations'[ch].submitted =>
            /\ Origin[ch] \in policy.allowedOrigins
            /\ Amount[ch] <= policy.maxPerRequest]_vars

\* Every call of pay ends, or is lost with its process (client.ts:230-396).
CallsEnd ==
    \A c \in Calls : pc[c] \in Running \cup Awaiting ~> pc[c] \in Ended

\* src/README.md:75: a store sealed under a different key refuses new payments.
\* No payment starts on a store that refuses to seal.
RefusingStoreStartsNoPayment ==
    [][\A ch \in Challenges :
        Unsent(ch) /\ version = 4 /\ reservations'[ch].submitted =>
            \E p \in Procs : CanSeal(p)]_vars

(***************************************************************************)
(* The protocol implements the promise of GovernedSpending.tla.            *)
(***************************************************************************)
\* Rows an earlier version left pending count as exposed.
PhaseOf(ch) ==
    CASE HasStatus(ch, "settled") -> "settled"
      [] HasStatus(ch, "failed") -> "released"
      [] HasStatus(ch, "pending") ->
            IF reservations[ch].submitted \/ version < 4 THEN "exposed" ELSE "held"

HoldOf(ch) ==
    IF HasRow(ch)
    THEN [key |-> reservations[ch].key, day |-> Day(reservations[ch].createdAt),
          phase |-> PhaseOf(ch)]
    ELSE NoRow

Spending == INSTANCE GovernedSpending WITH
    Caps <- {pol.dailyCap : pol \in Policies},
    NoHold <- NoRow,
    today <- Day(now),
    holds <- [ch \in Challenges |-> HoldOf(ch)],
    paid <- {cr.challenge : cr \in signed}

\* Every step of the protocol is a step of the promise or changes nothing of
\* it: money is set aside within a cap, exposed before it is paid, paid once,
\* and never released once exposed (client.ts:230-396, store.ts:254-437).
ImplementsGovernedSpending == Spending!SpendingSpec
=============================================================================
