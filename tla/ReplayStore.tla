---------------------------- MODULE ReplayStore ----------------------------
(***************************************************************************)
(* The key-value store that the payments SDK keeps its replay markers and  *)
(* its channel states in (mppxStore of src/sidecar/src/store.ts).  Several *)
(* processes hold the database open; a transaction reads a row, decides,   *)
(* and writes, under SQLite's write lock.                                  *)
(***************************************************************************)
EXTENDS Naturals, FiniteSets

CONSTANTS
    Processes,
    Keys,
    Nil,
    MaxTime,        \* bound: the clock
    MaxCalls        \* bound: transactions of each process

VARIABLES
    mppx_kv,        \* the table: the value of each key
    lock,           \* the process that holds the write lock
    call,           \* each process: the transaction it is in
    calls,          \* each process: transactions begun
    clock,
    claims,         \* history: granted claims whose key nobody has overwritten since
    applied         \* history: each key, the updates since it was last replaced

replayVars == <<mppx_kv, lock, call, calls, clock, claims, applied>>

\* An update is named by its process and number; a state by the updates in it.
Updates == Processes \X (1..MaxCalls)
Marker == [type : {"mppx:replay"}, expires : 0..(MaxTime + 1)]
State == [type : {"state"}, updates : SUBSET Updates]
Values == Marker \cup State \cup {Nil}
Call == [op : {"tryClaim", "update"}, key : Keys, expires : 0..(MaxTime + 1), row : Values]
Claim == [key : Keys, by : Updates, from : 0..MaxTime, until : 0..(MaxTime + 1)]

\* Bounds are numbers, and no value is Nil.
ASSUME ReplayAssumption ==
    /\ MaxTime \in Nat /\ MaxCalls \in Nat
    /\ Nil \notin Processes \cup Marker \cup State \cup Call

ReplayTypeOK ==
    /\ mppx_kv \in [Keys -> Values]
    /\ lock \in Processes \cup {Nil}
    /\ call \in [Processes -> Call \cup {Nil}]
    /\ calls \in [Processes -> 0..MaxCalls]
    /\ clock \in 0..MaxTime
    /\ claims \in SUBSET Claim
    /\ applied \in [Keys -> SUBSET Updates]

ReplayInit ==
    /\ mppx_kv = [k \in Keys |-> Nil]
    /\ lock = Nil
    /\ call = [p \in Processes |-> Nil]
    /\ calls = [p \in Processes |-> 0]
    /\ clock = 0
    /\ claims = {}
    /\ applied = [k \in Keys |-> {}]

Id(p) == <<p, calls[p]>>

(***************************************************************************)
(* Transactions of tryClaim and update.                                    *)
(***************************************************************************)
\* Mutant: the statements run without a transaction.
BeginUnlocked(p, op, k, e) ==
    /\ call[p] = Nil /\ calls[p] < MaxCalls
    /\ call' = [call EXCEPT ![p] = [op |-> op, key |-> k, expires |-> e, row |-> mppx_kv[k]]]
    /\ calls' = [calls EXCEPT ![p] = @ + 1]
    /\ UNCHANGED <<mppx_kv, lock, clock, claims, applied>>

\* transaction.immediate() and the SELECT.
Begin(p, op, k, e) ==
    /\ call[p] = Nil /\ calls[p] < MaxCalls
    /\ lock = Nil
    /\ lock' = p
    /\ call' = [call EXCEPT ![p] = [op |-> op, key |-> k, expires |-> e, row |-> mppx_kv[k]]]
    /\ calls' = [calls EXCEPT ![p] = @ + 1]
    /\ UNCHANGED <<mppx_kv, clock, claims, applied>>

End(p) == lock' = Nil /\ call' = [call EXCEPT ![p] = Nil]

In(p, op) == call[p] # Nil /\ call[p].op = op

\* No row, or a marker that has expired.
Claimable(row) == row # Nil => row.type = "mppx:replay" /\ row.expires <= clock

\* tryClaim writes its marker, commits and answers true.
TryClaim(p) ==
    /\ In(p, "tryClaim")
    /\ Claimable(call[p].row)
    /\ mppx_kv' = [mppx_kv EXCEPT ![call[p].key] =
                        [type |-> "mppx:replay", expires |-> call[p].expires]]
    /\ claims' = claims \cup {[key |-> call[p].key, by |-> Id(p),
                               from |-> clock, until |-> call[p].expires]}
    /\ End(p)
    /\ UNCHANGED <<calls, clock, applied>>

ClaimRefused(p) ==
    /\ In(p, "tryClaim")
    /\ ~Claimable(call[p].row)
    /\ End(p)
    /\ UNCHANGED <<mppx_kv, calls, clock, claims, applied>>

Overwritten(k) == {c \in claims : c.key # k}

UpdatesIn(row) == IF row # Nil /\ row.type = "state" THEN row.updates ELSE {}

\* update sets the value its callback makes of the current one.
UpdateSets(p) ==
    /\ In(p, "update")
    /\ mppx_kv' = [mppx_kv EXCEPT ![call[p].key] =
                        [type |-> "state", updates |-> UpdatesIn(call[p].row) \cup {Id(p)}]]
    /\ applied' = [applied EXCEPT ![call[p].key] = @ \cup {Id(p)}]
    /\ claims' = Overwritten(call[p].key)
    /\ End(p)
    /\ UNCHANGED <<calls, clock>>

\* update deletes the row.
UpdateDeletes(p) ==
    /\ In(p, "update")
    /\ mppx_kv' = [mppx_kv EXCEPT ![call[p].key] = Nil]
    /\ applied' = [applied EXCEPT ![call[p].key] = {}]
    /\ claims' = Overwritten(call[p].key)
    /\ End(p)
    /\ UNCHANGED <<calls, clock>>

\* The callback changes nothing or throws, a value cannot be stored, or the
\* process ends: the transaction leaves nothing behind.
Rollback(p) ==
    /\ call[p] # Nil
    /\ End(p)
    /\ UNCHANGED <<mppx_kv, calls, clock, claims, applied>>

(***************************************************************************)
(* Single statements, which wait for the lock.                             *)
(***************************************************************************)
Put(p, k) ==
    /\ call[p] = Nil /\ lock = Nil
    /\ mppx_kv' = [mppx_kv EXCEPT ![k] = [type |-> "state", updates |-> {}]]
    /\ applied' = [applied EXCEPT ![k] = {}]
    /\ claims' = Overwritten(k)
    /\ UNCHANGED <<lock, call, calls, clock>>

Delete(p, k) ==
    /\ call[p] = Nil /\ lock = Nil
    /\ mppx_kv' = [mppx_kv EXCEPT ![k] = Nil]
    /\ applied' = [applied EXCEPT ![k] = {}]
    /\ claims' = Overwritten(k)
    /\ UNCHANGED <<lock, call, calls, clock>>

Tick ==
    /\ clock < MaxTime
    /\ clock' = clock + 1
    /\ UNCHANGED <<mppx_kv, lock, call, calls, claims, applied>>

Step(p) ==
    \/ \E op \in {"tryClaim", "update"}, k \in Keys, e \in (clock + 1)..(MaxTime + 1) :
            Begin(p, op, k, e)
    \/ TryClaim(p) \/ ClaimRefused(p) \/ UpdateSets(p) \/ UpdateDeletes(p) \/ Rollback(p)
    \/ \E k \in Keys : Put(p, k) \/ Delete(p, k)

ReplayNext == Tick \/ \E p \in Processes : Step(p)

ReplaySpec == ReplayInit /\ [][ReplayNext]_replayVars

(***************************************************************************)
(* Properties.                                                             *)
(***************************************************************************)
\* Of two claims granted on one key, by whatever processes, one began when the
\* other had expired: a credential is accepted once (store.ts:513-536).
ClaimedOnce ==
    \A c, d \in claims : c.key = d.key /\ c # d => c.until <= d.from \/ d.until <= c.from

\* A stored state holds every update since it was put or deleted, and no claim
\* replaces a state (store.ts:521-526, 537-560).
NoUpdateLost == \A k \in Keys : UpdatesIn(mppx_kv[k]) = applied[k]

\* Claims do not overlap in time and updates are not lost (store.ts:513-560).
ReplaySafe == ReplayTypeOK /\ ClaimedOnce /\ NoUpdateLost
=============================================================================
