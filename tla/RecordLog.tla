------------------------------- MODULE RecordLog -------------------------------
(***************************************************************************)
(* What an append-only log promises: records are appended at its end, a    *)
(* sync makes all of them durable, and a crash may take a number of the    *)
(* latest records that were not durable yet, never another.                *)
(***************************************************************************)
EXTENDS Naturals, Sequences

CONSTANTS Records

VARIABLES
    log,            \* the records
    durable         \* how many of them a crash cannot take

Init == log = <<>> /\ durable = 0

Add == UNCHANGED durable /\ \E r \in Records : log' = Append(log, r)
Sync == UNCHANGED log /\ durable' \in durable .. Len(log)
Crash ==
    /\ UNCHANGED durable
    /\ \E n \in durable .. Len(log) : log' = SubSeq(log, 1, n)

Next == Sync \/ Add \/ Crash

Spec == Init /\ [][Next]_<<log, durable>>
=============================================================================
