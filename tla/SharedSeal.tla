------------------------------ MODULE SharedSeal ------------------------------
(***************************************************************************)
(* Several processes on one store while it is sealed for the first time    *)
(* (src/packages/sidecar-runtime/src/content-seal.ts, migrate and          *)
(* sealText).  StoreSeal.tla has one process and every key; here there is  *)
(* one key and one column, and what counts is the order of the processes'  *)
(* steps: a batch is read outside the transaction that writes it, and      *)
(* whether a process seals is settled when it opens.                       *)
(*                                                                         *)
(* Contents of a row are numbered in the order they are written.           *)
(***************************************************************************)
EXTENDS Integers, FiniteSets

CONSTANTS
    Procs,          \* processes that may open the store
    NumRows,        \* bound: rows of the column, in the order of the cursor
    Batch,          \* rows read and written at a time
    MaxWrites,      \* bound: contents written to one row
    Absent          \* no row yet

VARIABLES
    rows,           \* the column's values
    record,         \* its record in ryu_content_seal
    opener,         \* per process: how far it is, and what migrate has read
    latest,         \* history: the content written last to each row
    compatWrote     \* history: rows written in plaintext beside a migration

sharedVars == <<rows, record, opener, latest, compatWrote>>

Rows == 1..NumRows
Value == [content : 0..MaxWrites, sealed : BOOLEAN]

ASSUME SharedAssumption ==
    /\ NumRows \in Nat /\ MaxWrites \in Nat
    /\ Batch \in Nat \ {0}
    /\ Absent \notin Value

Ats == {"closed", "select", "write", "open", "compat"}
Opener(at, cursor) == [at |-> at, cursor |-> cursor, read |-> <<>>]
NotOpen == Opener("closed", 0)
Stage(p) == opener[p].at

SharedTypeOK ==
    /\ rows \in [Rows -> Value \cup {Absent}]
    /\ record \in [state : {"none", "sealing", "sealed"}, cursor : 0..NumRows]
    /\ \A p \in Procs : Stage(p) \in Ats /\ opener[p].cursor \in 0..NumRows
    /\ latest \in [Rows -> 0..MaxWrites]
    /\ compatWrote \in SUBSET Rows

SharedInit ==
    /\ rows \in [Rows -> {Absent, [content |-> 0, sealed |-> FALSE]}]
    /\ record = [state |-> "none", cursor |-> 0]
    /\ opener = [p \in Procs |-> NotOpen]
    /\ latest = [r \in Rows |-> 0]
    /\ compatWrote = {}

IsPlain(r) == rows[r] # Absent /\ ~rows[r].sealed

(***************************************************************************)
(* Opening.                                                                *)
(***************************************************************************)
\* A sealed column is migrated again only if it holds plaintext.
OpenStore(p) ==
    /\ Stage(p) = "closed"
    /\ opener' = [opener EXCEPT ![p] =
          IF record.state = "sealed" /\ ~ \E r \in Rows : IsPlain(r)
          THEN Opener("open", 0)
          ELSE Opener("select", record.cursor)]
    /\ UNCHANGED <<rows, record, latest, compatWrote>>

\* Without a key a store that was never sealed stays plaintext.
OpenCompat(p) ==
    /\ Stage(p) = "closed"
    /\ record.state = "none"
    /\ opener' = [opener EXCEPT ![p].at = "compat"]
    /\ UNCHANGED <<rows, record, latest, compatWrote>>

Stored(from, to) == {r \in Rows : from < r /\ r <= to /\ rows[r] # Absent}

NextRows(from) == {r \in Stored(from, NumRows) : Cardinality(Stored(from, r)) <= Batch}

\* The query of a batch, before its transaction.
Select(p) ==
    LET batch == NextRows(opener[p].cursor)
    IN  /\ Stage(p) = "select"
        /\ batch # {}
        /\ opener' = [opener EXCEPT ![p].at = "write", ![p].read = [r \in batch |-> rows[r]]]
        /\ UNCHANGED <<rows, record, latest, compatWrote>>

\* Mutant: the update does not compare the value with the one that was read.
SealReadBlindly(r, read) ==
    IF r \in DOMAIN read /\ ~read[r].sealed
    THEN [read[r] EXCEPT !.sealed = TRUE]
    ELSE rows[r]

\* What the compare-and-swap of a batch leaves in a row.
SealRead(r, read) ==
    IF r \in DOMAIN read /\ ~read[r].sealed /\ rows[r] = read[r]
    THEN [read[r] EXCEPT !.sealed = TRUE]
    ELSE rows[r]

WriteBatch(p) ==
    LET read == opener[p].read
        last == CHOOSE r \in DOMAIN read : \A q \in DOMAIN read : q <= r
    IN  /\ Stage(p) = "write"
        /\ rows' = [r \in Rows |-> SealRead(r, read)]
        /\ record' = [state |-> "sealing", cursor |-> last]
        /\ opener' = [opener EXCEPT ![p] = Opener("select", last)]
        /\ UNCHANGED <<latest, compatWrote>>

EndColumn(p) ==
    /\ Stage(p) = "select"
    /\ NextRows(opener[p].cursor) = {}
    /\ record' = [state |-> "sealed", cursor |-> 0]
    /\ opener' = [opener EXCEPT ![p] = Opener("open", 0)]
    /\ UNCHANGED <<rows, latest, compatWrote>>

\* The process ends, or another holds the database and its open throws.
Stop(p) ==
    /\ Stage(p) # "closed"
    /\ opener' = [opener EXCEPT ![p] = NotOpen]
    /\ UNCHANGED <<rows, record, latest, compatWrote>>

(***************************************************************************)
(* Use of the store.                                                       *)
(***************************************************************************)
Migrating == \E p \in Procs : Stage(p) \in {"select", "write"}

\* A row is added or replaced, sealed by a process that holds the key.
WriteRow(p, r) ==
    LET content == IF rows[r] = Absent THEN 0 ELSE latest[r] + 1
    IN  /\ Stage(p) \in {"open", "compat"}
        /\ content <= MaxWrites
        /\ rows' = [rows EXCEPT ![r] = [content |-> content, sealed |-> Stage(p) = "open"]]
        /\ latest' = [latest EXCEPT ![r] = content]
        /\ compatWrote' = IF Stage(p) = "compat" /\ (Migrating \/ record.state # "none")
                          THEN compatWrote \cup {r}
                          ELSE compatWrote \ {r}
        /\ UNCHANGED <<record, opener>>

SharedNext ==
    \E p \in Procs :
        \/ OpenStore(p)
        \/ OpenCompat(p)
        \/ Select(p)
        \/ WriteBatch(p)
        \/ EndColumn(p)
        \/ Stop(p)
        \/ \E r \in Rows : WriteRow(p, r)

SharedSpec == SharedInit /\ [][SharedNext]_sharedVars

(***************************************************************************)
(* Properties.                                                             *)
(***************************************************************************)
\* A concurrent write is never overwritten (content-seal.ts:400-406): whatever
\* the migrations of other processes read, a row holds what was last written.
WritesKept == \A r \in Rows : rows[r] # Absent => rows[r].content = latest[r]

\* However processes migrate one store at once, take over each other's cursor
\* or die, one that has opened it finds plaintext only in rows that a process
\* without the key wrote beside a migration (content-seal.ts:420-480).
SealedTogether ==
    (\E p \in Procs : Stage(p) = "open") => \A r \in Rows : IsPlain(r) => r \in compatWrote

\* Migrations side by side lose no write and leave nothing unsealed
\* (content-seal.ts:420-480).
SharedSafe == SharedTypeOK /\ WritesKept /\ SealedTogether
=============================================================================
