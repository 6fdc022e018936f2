---------------------------- MODULE PaymentStore ----------------------------
(***************************************************************************)
(* The durable payment ledger (src/sidecar/src/store.ts, class             *)
(* PaymentStore): the reservations and receipts of an SQLite database that *)
(* sidecar processes open, and its operations, each one SQLite transaction *)
(* or statement and therefore one action.  The module lets any process     *)
(* call any operation at any time; PaymentClient.tla drives the same       *)
(* operations the way the program does.                                    *)
(*                                                                         *)
(* challenge_hash is UNIQUE and determines the challenge, and rows are     *)
(* never deleted, so the table is a function of the challenge; idempotency *)
(* keys are independent of it and their uniqueness is a property below.    *)
(* Time is a counter of coarse ticks with DayLength ticks to a UTC day.    *)
(***************************************************************************)
EXTENDS SpendingPolicy, FiniteSets

CONSTANTS
    Procs,          \* sidecar processes that may hold the database open
    Keys,           \* idempotency keys
    Policies,       \* the policies a user may save
    Total,          \* the sum of the amounts of a set of challenges
    DayLength,      \* ticks in a UTC day
    StaleAfter,     \* ticks after which an unsubmitted row is stale (10 min)
    MaxTime,        \* bound: the last tick
    NoRow           \* no reservation for this challenge

Row == [key : Keys, status : {"pending", "settled", "failed"},
        submitted : BOOLEAN, createdAt : 0..MaxTime, updatedAt : 0..MaxTime]

ASSUME StoreAssumption ==
    /\ IsFiniteSet(Challenges)
    /\ Policies \subseteq Policy
    /\ DayLength \in Nat \ {0}
    /\ StaleAfter \in Nat
    /\ MaxTime \in Nat
    /\ NoRow \notin Row

\* sumAtomic adds the amounts of the selected rows, without rounding.
ASSUME TotalAssumption ==
    /\ Total \in [SUBSET Challenges -> Nat]
    /\ Total[{}] = 0
    /\ \A S \in SUBSET Challenges : \A ch \in Challenges \ S :
            Total[S \cup {ch}] = Total[S] + Amount[ch]

VARIABLES
    now,            \* the wall clock
    policy,         \* settings row payment_policy
    version,        \* PRAGMA user_version
    reservations,   \* table payment_reservations, by challenge hash
    receipts,       \* table payment_receipts, by challenge hash
    handles,        \* per process: its connection to the database
    granted         \* history: the highest cap a reservation of a day was granted under

storeVars == <<now, policy, version, reservations, receipts, handles, granted>>

HandleStates == {"closed", "migrated", "writable", "refusing"}

Day(t) == t \div DayLength
Days == {Day(t) : t \in 0..MaxTime}

HasRow(ch) == reservations[ch] # NoRow
HasStatus(ch, status) == HasRow(ch) /\ reservations[ch].status = status

\* A pending row whose credential no merchant can have yet.
Unsent(ch) == HasStatus(ch, "pending") /\ ~reservations[ch].submitted

\* The rows getBudget counts on a day: settled (spent) and pending.
Counted(rows, d) ==
    {ch \in Challenges : /\ rows[ch] # NoRow
                         /\ rows[ch].status \in {"pending", "settled"}
                         /\ Day(rows[ch].createdAt) = d}

\* Mutant: the budget forgets the pending rows.
AvailableSpentOnly(pol) ==
    LET spent == {ch \in Counted(reservations, Day(now)) : reservations[ch].status = "settled"}
    IN  IF Total[spent] >= pol.dailyCap THEN 0 ELSE pol.dailyCap - Total[spent]

\* getBudget: what is left of today's cap, never negative.
Available(pol) ==
    LET used == Total[Counted(reservations, Day(now))]
    IN  IF used >= pol.dailyCap THEN 0 ELSE pol.dailyCap - used

StoreTypeOK ==
    /\ now \in 0..MaxTime
    /\ policy \in Policies
    /\ version \in {3, 4}
    /\ reservations \in [Challenges -> Row \cup {NoRow}]
    /\ receipts \in SUBSET Challenges
    /\ handles \in [Procs -> HandleStates]
    /\ granted \in [Days -> Nat]

\* Mutant: rows are inserted with a status the table does not know.
NewRowReserved(k) == [key |-> k, status |-> "reserved", submitted |-> FALSE,
                      createdAt |-> now, updatedAt |-> now]

NewRow(k) == [key |-> k, status |-> "pending", submitted |-> FALSE,
              createdAt |-> now, updatedAt |-> now]

\* A database file is new, or was left by an earlier version of the program
\* with at most one reservation pending, which that version may have sent.
StoreInit ==
    /\ now = 0
    /\ policy \in {pol \in Policies : ValidPolicy(pol)}
    /\ receipts = {}
    /\ handles = [p \in Procs |-> "closed"]
    /\ \/ /\ version \in {3, 4}
          /\ reservations = [ch \in Challenges |-> NoRow]
          /\ granted = [d \in Days |-> 0]
       \/ \E ch \in Challenges, k \in Keys :
            /\ version = 3
            /\ reservations = [c \in Challenges |-> IF c = ch THEN NewRow(k) ELSE NoRow]
            /\ granted = [d \in Days |-> IF d = Day(0) THEN Amount[ch] ELSE 0]

(***************************************************************************)
(* Opening: migrate, unseal, then fail the stale reservations.             *)
(***************************************************************************)
\* Mutant: the migration adds the column without assuming the worst.
OpenMigrateUnsent(p) ==
    /\ handles[p] = "closed"
    /\ handles' = [handles EXCEPT ![p] = "migrated"]
    /\ version' = 4
    /\ UNCHANGED <<now, policy, reservations, receipts, granted>>

\* migrate: rows of versions before 4 may already have been sent.
OpenMigrate(p) ==
    /\ handles[p] = "closed"
    /\ handles' = [handles EXCEPT ![p] = "migrated"]
    /\ version' = 4
    /\ reservations' = IF version = 4 THEN reservations
                       ELSE [ch \in Challenges |->
                               IF Unsent(ch) THEN [reservations[ch] EXCEPT !.submitted = TRUE]
                               ELSE reservations[ch]]
    /\ UNCHANGED <<now, policy, receipts, granted>>

\* Mutant: recovery fails every old pending row, submitted or not.
StaleAnyPending(ch) ==
    HasStatus(ch, "pending") /\ reservations[ch].updatedAt < now - StaleAfter

Stale(ch) == Unsent(ch) /\ reservations[ch].updatedAt < now - StaleAfter

\* StoreSeal.open either yields a key the store accepts (or runs in plaintext
\* compatibility mode) or refuses to seal until the next start.
OpenRecover(p) ==
    /\ handles[p] = "migrated"
    /\ \E mode \in {"writable", "refusing"} : handles' = [handles EXCEPT ![p] = mode]
    /\ reservations' = [ch \in Challenges |->
                          IF Stale(ch)
                          THEN [reservations[ch] EXCEPT !.status = "failed", !.updatedAt = now]
                          ELSE reservations[ch]]
    /\ UNCHANGED <<now, policy, version, receipts, granted>>

\* close, or the end of the process, whatever it was doing.
Close(p) ==
    /\ handles[p] # "closed"
    /\ handles' = [handles EXCEPT ![p] = "closed"]
    /\ UNCHANGED <<now, policy, version, reservations, receipts, granted>>

(***************************************************************************)
(* Operations of an open store.                                            *)
(***************************************************************************)
IsOpen(p) == handles[p] \in {"writable", "refusing"}
CanSeal(p) == handles[p] = "writable"

SetPolicy(p, pol) ==
    /\ IsOpen(p)
    /\ ValidPolicy(pol)
    /\ policy' = pol
    /\ UNCHANGED <<now, version, reservations, receipts, handles, granted>>

KeyRow(k) == {ch \in Challenges : HasRow(ch) /\ reservations[ch].key = k}

\* reserve on a retry: the row of the key is this challenge's and unsent.
\* Nothing is written, so neither the budget nor the seal is consulted.
ReserveAgain(p, ch, k) ==
    /\ IsOpen(p)
    /\ ch \notin receipts
    /\ ch \in KeyRow(k)
    /\ Unsent(ch)
    /\ UNCHANGED storeVars

\* Mutant: the key of the new row is not looked up.
ReserveNewAnyKey(p, ch, k, pol) ==
    /\ CanSeal(p)
    /\ ch \notin receipts
    /\ ~HasRow(ch)
    /\ Amount[ch] <= Available(pol)
    /\ reservations' = [reservations EXCEPT ![ch] = NewRow(k)]
    /\ granted' = [granted EXCEPT ![Day(now)] =
                     IF @ < pol.dailyCap THEN pol.dailyCap ELSE @]
    /\ UNCHANGED <<now, policy, version, receipts, handles>>

\* Mutant: reserve trusts the budget the caller read.
ReserveNewUncapped(p, ch, k, pol) ==
    /\ CanSeal(p)
    /\ ch \notin receipts
    /\ KeyRow(k) = {}
    /\ ~HasRow(ch)
    /\ reservations' = [reservations EXCEPT ![ch] = NewRow(k)]
    /\ granted' = [granted EXCEPT ![Day(now)] =
                     IF @ < pol.dailyCap THEN pol.dailyCap ELSE @]
    /\ UNCHANGED <<now, policy, version, receipts, handles>>

\* reserve of a new row; the UNIQUE challenge hash must be free and the
\* origin and payee must seal.
ReserveNew(p, ch, k, pol) ==
    /\ CanSeal(p)
    /\ ch \notin receipts
    /\ KeyRow(k) = {}
    /\ ~HasRow(ch)
    /\ Amount[ch] <= Available(pol)
    /\ reservations' = [reservations EXCEPT ![ch] = NewRow(k)]
    /\ granted' = [granted EXCEPT ![Day(now)] =
                     IF @ < pol.dailyCap THEN pol.dailyCap ELSE @]
    /\ UNCHANGED <<now, policy, version, receipts, handles>>

\* reserve throws and its transaction rolls back.
ReserveRefused(p, ch, k, pol) ==
    /\ IsOpen(p)
    /\ ~(ch \notin receipts /\ ch \in KeyRow(k) /\ Unsent(ch))
    /\ \/ ~CanSeal(p)
       \/ ch \in receipts
       \/ KeyRow(k) # {}
       \/ HasRow(ch)
       \/ Amount[ch] > Available(pol)
    /\ UNCHANGED storeVars

\* Mutant: the update lacks "AND submitted = 0".
MarkSubmittedTwice(p, ch) ==
    /\ IsOpen(p)
    /\ HasStatus(ch, "pending")
    /\ reservations' = [reservations EXCEPT ![ch].submitted = TRUE, ![ch].updatedAt = now]
    /\ UNCHANGED <<now, policy, version, receipts, handles, granted>>

\* markSubmitted: compare and set; throws when no row matches.
MarkSubmitted(p, ch) ==
    /\ IsOpen(p)
    /\ Unsent(ch)
    /\ reservations' = [reservations EXCEPT ![ch].submitted = TRUE, ![ch].updatedAt = now]
    /\ UNCHANGED <<now, policy, version, receipts, handles, granted>>

\* Mutant: the receipt is written outside the transaction.
CommitReceiptOnly(p, ch) ==
    /\ CanSeal(p)
    /\ HasStatus(ch, "pending")
    /\ receipts' = receipts \cup {ch}
    /\ UNCHANGED <<now, policy, version, reservations, handles, granted>>

\* commit: receipt and settled status in one transaction, the receipt sealed.
Commit(p, ch) ==
    /\ CanSeal(p)
    /\ HasStatus(ch, "pending")
    /\ receipts' = receipts \cup {ch}
    /\ reservations' = [reservations EXCEPT ![ch].status = "settled", ![ch].updatedAt = now]
    /\ UNCHANGED <<now, policy, version, handles, granted>>

\* Mutant: the update lacks "AND submitted = 0".
ReleasePending(p, ch) ==
    /\ IsOpen(p)
    /\ reservations' = IF HasStatus(ch, "pending")
                       THEN [reservations EXCEPT ![ch].status = "failed", ![ch].updatedAt = now]
                       ELSE reservations
    /\ UNCHANGED <<now, policy, version, receipts, handles, granted>>

\* release: frees an unsent reservation, otherwise does nothing.
Release(p, ch) ==
    /\ IsOpen(p)
    /\ reservations' = IF Unsent(ch)
                       THEN [reservations EXCEPT ![ch].status = "failed", ![ch].updatedAt = now]
                       ELSE reservations
    /\ UNCHANGED <<now, policy, version, receipts, handles, granted>>

Tick ==
    /\ now < MaxTime
    /\ now' = now + 1
    /\ UNCHANGED <<policy, version, reservations, receipts, handles, granted>>

StoreNext ==
    \/ Tick
    \/ \E p \in Procs :
        \/ OpenMigrate(p)
        \/ OpenRecover(p)
        \/ Close(p)
        \/ \E pol \in Policies : SetPolicy(p, pol)
        \/ \E ch \in Challenges :
            \/ MarkSubmitted(p, ch)
            \/ Commit(p, ch)
            \/ Release(p, ch)
            \/ \E k \in Keys, pol \in Policies :
                \/ ReserveAgain(p, ch, k)
                \/ ReserveNew(p, ch, k, pol)
                \/ ReserveRefused(p, ch, k, pol)

StoreSpec == StoreInit /\ [][StoreNext]_storeVars

(***************************************************************************)
(* Properties of the ledger under any sequence of calls.                   *)
(***************************************************************************)
\* An idempotency key never holds two reservations (store.ts:270-296): a
\* retry under the same key, on whatever challenge, cannot add a payment.
OneRowPerKey ==
    \A c1, c2 \in Challenges :
        HasRow(c1) /\ HasRow(c2) /\ reservations[c1].key = reservations[c2].key => c1 = c2

\* Pending and settled rows of a UTC day never add up to more than the most
\* permissive cap a reservation of that day was granted under
\* (store.ts:227-252, 299-306), whoever interleaves and whatever is released.
DailyCapHolds ==
    \A d \in Days : Total[Counted(reservations, d)] <= granted[d]

\* A challenge has a receipt exactly when its reservation is settled
\* (store.ts:349-429): no crash or refusal to seal separates the two.
ReceiptIffSettled ==
    \A ch \in Challenges : ch \in receipts <=> HasStatus(ch, "settled")

\* A row moves only forward: once its credential may have been handed over it
\* is never failed, forgotten or moved to another day, and settled and failed
\* rows are final (store.ts:333-347, 431-437, 564-571, 626-638).
RowsOnlyAdvance ==
    [][\A ch \in Challenges : HasRow(ch) =>
        /\ HasRow(ch)'
        /\ reservations'[ch].key = reservations[ch].key
        /\ reservations'[ch].createdAt = reservations[ch].createdAt
        /\ reservations[ch].submitted => reservations'[ch].submitted
        /\ reservations'[ch].status # reservations[ch].status =>
              /\ reservations[ch].status = "pending"
              /\ reservations[ch].submitted \/ version < 4
                    => reservations'[ch].status = "settled"]_storeVars
=============================================================================
