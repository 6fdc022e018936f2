------------------------------ MODULE StoreSeal ------------------------------
(***************************************************************************)
(* Sealing of a store's values at rest                                     *)
(* (src/packages/sidecar-runtime/src/content-seal.ts, class StoreSeal; the *)
(* key state is resolved in seal.ts).  Opening a store resolves the state  *)
(* of the delivered key against the keys recorded next to the data, seals  *)
(* every legacy plaintext value in batches with a persisted cursor, and    *)
(* scrubs the plaintext freed on the way.  A crash can come between any    *)
(* two of its transactions, and a later start may be delivered other keys. *)
(*                                                                         *)
(* A sealed value is represented by the root it is sealed under.  Each     *)
(* column stands for a table with that one sealed column, its rows in the  *)
(* order of the migration cursor; rows are added in any order, as their    *)
(* ids are random, and are never deleted.  One process opens the store at  *)
(* a time: the compare-and-swap of a batch then always matches, and a      *)
(* batch is one action.                                                    *)
(***************************************************************************)
EXTENDS Integers, Sequences, FiniteSets

CONSTANTS
    Roots,          \* root keys
    NoKey,          \* no key delivered, or no key check value recorded
    Histories,      \* what may be delivered to a store over its life
    NumColumns,     \* number of sealed columns
    NumRows,        \* bound: rows per column
    Batch,          \* rows read and resealed per transaction
    Absent,         \* no row yet
    Plain           \* a value that is not sealed

Rows == 1..NumRows
Columns == 1..NumColumns
Delivery == [root : Roots \cup {NoKey}, retired : SUBSET Roots]

\* The key an existing store was sealed under or NoKey, the keys successive
\* starts receive, and whether builds that do not seal run between two starts.
History == [sealedUnder : Roots \cup {NoKey},
            deliveries : {d \in Seq(Delivery) : d # <<>>}, oldBuilds : BOOLEAN]

ASSUME SealAssumption ==
    /\ NoKey \notin Roots
    /\ Absent # Plain
    /\ {Absent, Plain} \cap (Roots \cup {NoKey}) = {}
    /\ Histories \subseteq History
    /\ NumColumns \in Nat \ {0}
    /\ NumRows \in Nat \ {0}
    /\ Batch \in Nat \ {0}

VARIABLES
    history,        \* what this store meets, chosen at the start
    epoch,          \* which delivery the next start receives
    values,         \* the stored values, by column and row
    columns,        \* ryu_content_seal: one record per column
    store,          \* ryu_content_seal: the record of the whole store
    residue,        \* where freed plaintext may still be on disk
    phase,          \* what the process does next
    seal            \* the process's StoreSeal object

vars == <<history, epoch, values, columns, store, residue, phase, seal>>

Deliveries == history.deliveries
SealedUnder == history.sealedUnder

Statuses == {"record", "current", "retired", "mismatch", "compat", "no_key"}
Phases == {"closed", "columns", "rows", "checkpoint", "scrub", "vacuum", "open"}

\* The fields of StoreSeal, with the progress of its migrate.
SealObject ==
    [status : Statuses, key : Roots \cup {NoKey}, retired : SUBSET Roots,
     pending : BOOLEAN, scrubbed : BOOLEAN, retiredLeft : BOOLEAN,
     column : 1..(NumColumns + 1), cursor : 0..NumRows,
     resealed : BOOLEAN, unreadable : BOOLEAN]

StoreRecord ==
    [state : {"none", "vacuum_pending", "scrubbed", "sealed"}, kcv : Roots \cup {NoKey}]

ColumnRecord ==
    [state : {"none", "sealing", "sealed"}, cursor : 0..NumRows, kcv : Roots \cup {NoKey}]

SealTypeOK ==
    /\ history \in Histories
    /\ epoch \in 1..Len(Deliveries)
    /\ values \in [Columns -> [Rows -> Roots \cup {Absent, Plain}]]
    /\ columns \in [Columns -> ColumnRecord]
    /\ store \in StoreRecord
    /\ residue \in SUBSET {"wal", "free"}
    /\ phase \in Phases
    /\ seal \in SealObject

Sealing(status) == status \in {"record", "current", "retired"}

\* What the process holds before its first start.
NoSeal == [status |-> "no_key", key |-> NoKey, retired |-> {}, pending |-> FALSE,
           scrubbed |-> FALSE, retiredLeft |-> FALSE, column |-> 1, cursor |-> 0,
           resealed |-> FALSE, unreadable |-> FALSE]

\* A new or never sealed store, whose freed pages may hold plaintext, or a
\* store wholly sealed under one key.
Init ==
    /\ history \in Histories
    /\ epoch = 1
    /\ phase = "closed"
    /\ seal = NoSeal
    /\ IF SealedUnder = NoKey
       THEN /\ values \in [Columns -> [Rows -> {Absent, Plain}]]
            /\ columns = [c \in Columns |-> [state |-> "none", cursor |-> 0, kcv |-> NoKey]]
            /\ store = [state |-> "none", kcv |-> NoKey]
            /\ residue = {"wal", "free"}
       ELSE /\ values \in [Columns -> [Rows -> {Absent, SealedUnder}]]
            /\ columns = [c \in Columns |->
                            [state |-> "sealed", cursor |-> 0, kcv |-> SealedUnder]]
            /\ store = [state |-> "sealed", kcv |-> SealedUnder]
            /\ residue = {}

(***************************************************************************)
(* Start of a process: the key state (storeKeyState).                      *)
(***************************************************************************)
\* Mutant: only the record of the whole store is looked at.
StoreHoldsSealedData == store.kcv # NoKey

HoldsSealedData == store.kcv # NoKey \/ \E c \in Columns : columns[c].kcv # NoKey

KeyState(d) ==
    CASE d.root = NoKey -> IF HoldsSealedData THEN "no_key" ELSE "compat"
      [] d.root # NoKey /\ store.kcv = NoKey -> "record"
      [] d.root # NoKey /\ store.kcv = d.root -> "current"
      [] d.root # NoKey /\ store.kcv \in d.retired \ {d.root} -> "retired"
      [] OTHER -> "mismatch"

\* Mutant: the recorded state of an unfinished scrub is not read back.
MustScrubFirstKey(status) == status = "record"

\* The first key, or an unfinished scrub: freed plaintext may remain.
MustScrub(status) ==
    \/ store.state \in {"vacuum_pending", "scrubbed"}
    \/ status = "record"

Start ==
    LET d == Deliveries[epoch]
        status == KeyState(d)
    IN  /\ phase = "closed"
        /\ seal' = [status |-> status, key |-> d.root, retired |-> d.retired,
                    pending |-> MustScrub(status),
                    scrubbed |-> store.state = "scrubbed",
                    retiredLeft |-> status = "retired",
                    column |-> 1, cursor |-> 0, resealed |-> FALSE, unreadable |-> FALSE]
        /\ phase' = IF Sealing(status) THEN "columns" ELSE "open"
        /\ UNCHANGED <<history, epoch, values, columns, store, residue>>

(***************************************************************************)
(* migrate.                                                                *)
(***************************************************************************)
HoldsPlaintext(c) == \E r \in Rows : values[c][r] = Plain

\* Mutant: a migration that was started is taken for finished.
IsStarted(c) ==
    columns[c].state # "none" /\ ~seal.retiredLeft

\* Mutant: a column sealed under a retired key is finished too.
IsSealedUnderAnyKey(c) ==
    columns[c].state = "sealed" /\ ~HoldsPlaintext(c)

\* Sealed with nothing to do again: skipped.
IsFinished(c) ==
    columns[c].state = "sealed" /\ ~seal.retiredLeft /\ ~HoldsPlaintext(c)

SkipColumn ==
    /\ phase = "columns"
    /\ seal.column \in Columns
    /\ IsFinished(seal.column)
    /\ seal' = [seal EXCEPT !.column = @ + 1]
    /\ UNCHANGED <<history, epoch, values, columns, store, residue, phase>>

BeginColumn ==
    /\ phase = "columns"
    /\ seal.column \in Columns
    /\ ~IsFinished(seal.column)
    /\ seal' = [seal EXCEPT !.cursor = columns[seal.column].cursor]
    /\ phase' = "rows"
    /\ UNCHANGED <<history, epoch, values, columns, store, residue>>

\* Mutant: ">=" for ">" in the query.
StoredFrom(c, from, to) == {r \in Rows : from <= r /\ r <= to /\ values[c][r] # Absent}

\* SELECT ... WHERE orderKey > cursor ORDER BY orderKey LIMIT Batch
Stored(c, from, to) == {r \in Rows : from < r /\ r <= to /\ values[c][r] # Absent}

NextRows(c, from) ==
    {r \in Stored(c, from, NumRows) : Cardinality(Stored(c, from, r)) <= Batch}

Opens(v) == v \in {Plain, seal.key} \cup seal.retired

\* What resealValue leaves of a value.
Resealed(v) == IF Opens(v) THEN seal.key ELSE v

\* Mutant: the cursor is put one past the last row of the batch.
PastLastOf(rows) == 1 + (CHOOSE r \in rows : \A q \in rows : q <= r)

LastOf(rows) == CHOOSE r \in rows : \A q \in rows : q <= r

MigrateBatch ==
    LET c == seal.column
        rows == NextRows(c, seal.cursor)
        last == LastOf(rows)
    IN  /\ phase = "rows"
        /\ rows # {}
        /\ values' = [values EXCEPT ![c] =
                        [r \in Rows |-> IF r \in rows THEN Resealed(@[r]) ELSE @[r]]]
        /\ columns' = [columns EXCEPT ![c] =
                         [state |-> "sealing", cursor |-> last, kcv |-> seal.key]]
        /\ seal' = [seal EXCEPT
                      !.cursor = last,
                      !.resealed = @ \/ \E r \in rows : Resealed(values[c][r]) # values[c][r],
                      !.unreadable = @ \/ \E r \in rows : ~Opens(values[c][r])]
        /\ residue' = IF \E r \in rows : values[c][r] = Plain
                      THEN {"wal", "free"} ELSE residue
        /\ UNCHANGED <<history, epoch, store, phase>>

EndColumn ==
    /\ phase = "rows"
    /\ NextRows(seal.column, seal.cursor) = {}
    /\ columns' = [columns EXCEPT ![seal.column] =
                     [state |-> "sealed", cursor |-> 0, kcv |-> seal.key]]
    /\ seal' = [seal EXCEPT !.column = @ + 1]
    /\ phase' = "columns"
    /\ UNCHANGED <<history, epoch, values, store, residue>>

\* writeStoreState: with values left under a retired key that do not open,
\* the recorded key stays.
StoreState(s) ==
    [state |-> IF ~s.pending THEN "sealed"
               ELSE IF s.scrubbed THEN "scrubbed" ELSE "vacuum_pending",
     kcv |-> IF s.retiredLeft THEN store.kcv ELSE s.key]

FinishMigrate ==
    LET s == [seal EXCEPT !.retiredLeft = @ /\ seal.unreadable,
                          !.pending = @ \/ seal.resealed,
                          !.scrubbed = @ /\ ~seal.resealed]
    IN  /\ phase = "columns"
        /\ seal.column \notin Columns
        /\ seal' = s
        /\ store' = StoreState(s)
        /\ phase' = IF s.pending THEN "checkpoint" ELSE "open"
        /\ UNCHANGED <<history, epoch, values, columns, residue>>

(***************************************************************************)
(* finish: each step may fail or lack disk space, which ends it.           *)
(***************************************************************************)
GiveUp ==
    /\ phase \in {"checkpoint", "scrub", "vacuum"}
    /\ phase' = "open"
    /\ UNCHANGED <<history, epoch, values, columns, store, residue, seal>>

Checkpoint ==
    /\ phase = "checkpoint"
    /\ residue' = residue \ {"wal"}
    /\ phase' = IF seal.scrubbed THEN "vacuum" ELSE "scrub"
    /\ UNCHANGED <<history, epoch, values, columns, store, seal>>

Scrub ==
    LET s == [seal EXCEPT !.scrubbed = TRUE]
    IN  /\ phase = "scrub"
        /\ residue' = residue \ {"free"}
        /\ seal' = s
        /\ store' = StoreState(s)
        /\ phase' = "vacuum"
        /\ UNCHANGED <<history, epoch, values, columns>>

Vacuum ==
    LET s == [seal EXCEPT !.pending = FALSE, !.scrubbed = FALSE]
    IN  /\ phase = "vacuum"
        /\ residue' = {}
        /\ seal' = s
        /\ store' = StoreState(s)
        /\ phase' = "open"
        /\ UNCHANGED <<history, epoch, values, columns>>

(***************************************************************************)
(* Use of the open store, and what happens between two starts.             *)
(***************************************************************************)
\* sealText of a new row; a mismatch or a missing key refuses the write.
Insert(c, r) ==
    /\ phase = "open"
    /\ Sealing(seal.status) \/ seal.status = "compat"
    /\ values[c][r] = Absent
    /\ values' = [values EXCEPT ![c][r] = IF Sealing(seal.status) THEN seal.key ELSE Plain]
    /\ UNCHANGED <<history, epoch, columns, store, residue, phase, seal>>

\* The process ends or crashes.
Stop ==
    /\ phase # "closed"
    /\ phase' = "closed"
    /\ seal' = NoSeal
    /\ UNCHANGED <<history, epoch, values, columns, store, residue>>

\* An older build, run after a rollback, writes plaintext.
OldBuildWrite(c, r) ==
    /\ history.oldBuilds
    /\ phase = "closed"
    /\ values[c][r] = Absent
    /\ values' = [values EXCEPT ![c][r] = Plain]
    /\ UNCHANGED <<history, epoch, columns, store, residue, phase, seal>>

\* The next start is delivered other keys.
NextDelivery ==
    /\ phase = "closed"
    /\ epoch < Len(Deliveries)
    /\ epoch' = epoch + 1
    /\ UNCHANGED <<history, values, columns, store, residue, phase, seal>>

OpenStep ==
    \/ SkipColumn
    \/ BeginColumn
    \/ MigrateBatch
    \/ EndColumn
    \/ FinishMigrate
    \/ GiveUp
    \/ Checkpoint
    \/ Scrub
    \/ Vacuum

Next ==
    \/ Start
    \/ OpenStep
    \/ Stop
    \/ NextDelivery
    \/ \E c \in Columns, r \in Rows : Insert(c, r) \/ OldBuildWrite(c, r)

Spec == Init /\ [][Next]_vars

\* open runs to its end: nothing in it waits for anything.
FairSpec == Spec /\ WF_vars(OpenStep)

(***************************************************************************)
(* Properties.                                                             *)
(***************************************************************************)
\* Existing plaintext is sealed on open: a store that serves requests under a
\* key holds no plaintext (src/README.md:71-74, content-seal.ts:407-504), whatever
\* crashes interrupted the migration, if no build that does not seal wrote to it.
PlaintextSealedOnOpen ==
    ~history.oldBuilds /\ phase = "open" /\ Sealing(seal.status) =>
        \A c \in Columns : ~HoldsPlaintext(c)

\* Freed plaintext is scrubbed, or the store remembers that it has to be
\* (content-seal.ts:525-560), through failed steps and crashes; a build that
\* does not seal leaves plaintext nobody remembers.
ScrubRemembered ==
    ~history.oldBuilds /\ phase = "open" /\ Sealing(seal.status) /\ store.state = "sealed" =>
        residue = {}

\* Once a value was sealed, no open store writes plaintext again, even when a
\* start receives no key and the first migration never finished
\* (content-seal.ts:275-309, 634-642; seal.ts:517-525).
NoPlaintextAfterSealing ==
    [][\A c \in Columns, r \in Rows :
        phase # "closed" /\ values'[c][r] = Plain /\ values[c][r] # Plain =>
            \A d \in Columns, q \in Rows : values[d][q] \notin Roots]_vars

\* The store records the delivered key only once every value is sealed under
\* it (content-seal.ts:144-148, 511-516).
RecordedKeyOpensAll ==
    LET root == Deliveries[epoch].root
    IN  ~history.oldBuilds /\ root # NoKey /\ store.kcv = root =>
            \A c \in Columns, r \in Rows : values[c][r] \in {Absent, root}

\* Every start comes to an end, or stops with its process
\* (content-seal.ts:439-475).
OpenEnds == phase \notin {"open", "closed"} ~> phase \in {"open", "closed"}
=============================================================================
