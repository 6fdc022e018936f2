--------------------------- MODULE StoreSealProofs ---------------------------
(***************************************************************************)
(* Proofs about StoreSeal.tla, for every history of delivered keys, every  *)
(* number of columns and rows and every batch size.                        *)
(***************************************************************************)
EXTENDS StoreSeal, FiniteSetTheorems, WellFoundedInduction, TLAPS

(***************************************************************************)
(* The rows of a batch.                                                    *)
(***************************************************************************)
\* A nonempty set of row numbers has a least and a greatest element.
LEMMA RowExtremes ==
    ASSUME NEW S \in SUBSET Rows, S # {}
    PROVE  /\ \E m \in S : \A n \in S : m <= n
           /\ \E m \in S : \A n \in S : n <= m
<1> DEFINE R == OpToRel(<, Nat)
<1>1. IsWellFoundedOn(R, Nat)
    BY NatLessThanWellFounded
<1>2. \A m, n \in Nat : n < m => <<n, m>> \in R
    BY DEF OpToRel
<1> HIDE DEF R
<1>3. S \subseteq Nat /\ \A n \in S : n <= NumRows
    BY SealAssumption DEF Rows
<1>4. \E m \in S : \A n \in S : m <= n
    <2>1. PICK m \in S : \A n \in S : ~(<<n, m>> \in R)
        BY <1>1, <1>3, WFMin
    <2>2. \A n \in S : ~(n < m)
        BY <1>2, <1>3, <2>1
    <2> QED  BY <1>3, <2>2
<1>5. \E m \in S : \A n \in S : n <= m
    <2> DEFINE T == {NumRows - n : n \in S}
    <2>0. \A n \in S : NumRows - n \in Nat
        BY <1>3, SealAssumption
    <2>1. T \subseteq Nat /\ T # {}
        BY <2>0
    <2>2. PICK t \in T : \A u \in T : ~(<<u, t>> \in R)
        BY <1>1, <2>1, WFMin
    <2>3. PICK m \in S : t = NumRows - m
        OBVIOUS
    <2>4. \A n \in S : NumRows - n \in T /\ NumRows - n \in Nat
        BY <2>0
    <2>5. \A n \in S : ~(NumRows - n < NumRows - m)
        BY <1>2, <2>1, <2>2, <2>3, <2>4
    <2> QED  BY <1>3, <2>5, SealAssumption
<1> QED  BY <1>4, <1>5

\* The last row of a batch is one of its rows, and none comes after it.
LEMMA LastOfBatch ==
    ASSUME NEW S \in SUBSET Rows, S # {}
    PROVE  LastOf(S) \in S /\ \A q \in S : q <= LastOf(S)
  BY RowExtremes DEF LastOf

\* Stored rows are finite in number.
LEMMA StoredFinite ==
    ASSUME NEW c, NEW from, NEW to
    PROVE  /\ Stored(c, from, to) \subseteq Rows
           /\ IsFiniteSet(Stored(c, from, to))
           /\ Cardinality(Stored(c, from, to)) \in Nat
<1>1. IsFiniteSet(Rows)
    BY FS_Interval, SealAssumption DEF Rows
<1>2. Stored(c, from, to) \subseteq Rows
    BY DEF Stored
<1> QED  BY <1>1, <1>2, FS_Subset, FS_CardinalityType

\* While rows are left, the query returns some.
LEMMA QueryFindsRows ==
    ASSUME NEW c, NEW from \in 0..NumRows, Stored(c, from, NumRows) # {}
    PROVE  NextRows(c, from) # {}
<1>1. PICK m \in Stored(c, from, NumRows) : \A n \in Stored(c, from, NumRows) : m <= n
    BY StoredFinite, RowExtremes
<1>2. Stored(c, from, m) = {m}
    BY <1>1, SealAssumption DEF Stored, Rows
<1>3. Cardinality({m}) = 1
    BY FS_Singleton
<1>4. Cardinality(Stored(c, from, m)) <= Batch
    BY <1>2, <1>3, SealAssumption
<1> QED  BY <1>1, <1>4 DEF NextRows

\* A batch leaves out no row up to its last one.
LEMMA BatchHasNoGap ==
    ASSUME NEW c, NEW from \in 0..NumRows, NEW last \in NextRows(c, from),
           NEW q \in Stored(c, from, NumRows), q <= last
    PROVE  q \in NextRows(c, from)
<1>1. q \in Rows /\ last \in Rows
    BY DEF NextRows, Stored
<1>2. Stored(c, from, q) \subseteq Stored(c, from, last)
    BY <1>1, SealAssumption DEF Stored, Rows
<1>3. Cardinality(Stored(c, from, q)) <= Cardinality(Stored(c, from, last))
    BY <1>2, StoredFinite, FS_Subset
<1>4. Cardinality(Stored(c, from, last)) <= Batch
    BY DEF NextRows
<1>5. Cardinality(Stored(c, from, q)) <= Batch
    BY <1>3, <1>4, StoredFinite, SealAssumption
<1> QED  BY <1>5 DEF NextRows

LEMMA NextRowsAreRows ==
    ASSUME NEW c, NEW from
    PROVE  NextRows(c, from) \subseteq Rows
  BY DEF NextRows, Stored

(***************************************************************************)
(* Type correctness.                                                       *)
(***************************************************************************)
LEMMA SealTypeInit == Init => SealTypeOK
<1> SUFFICES ASSUME Init PROVE SealTypeOK
    OBVIOUS
<1> USE SealAssumption DEF Init, Deliveries, SealedUnder
<1>1. epoch \in 1..Len(Deliveries) /\ phase \in Phases
    BY DEF Phases, History
<1>4a. SealedUnder \in Roots \cup {NoKey}
    BY DEF History
<1>2. seal \in SealObject
    BY DEF NoSeal, Statuses, SealObject
<1>3. CASE SealedUnder = NoKey
    BY <1>1, <1>2, <1>3 DEF SealTypeOK, ColumnRecord, StoreRecord
<1>4. CASE SealedUnder # NoKey
    BY <1>1, <1>2, <1>4, <1>4a DEF SealTypeOK, ColumnRecord, StoreRecord
<1> QED  BY <1>3, <1>4

\* The key state is one of the six.
LEMMA KeyStateType ==
    ASSUME NEW d \in Delivery
    PROVE  /\ KeyState(d) \in Statuses
           /\ Sealing(KeyState(d)) => d.root \in Roots
           /\ KeyState(d) = "compat" => ~HoldsSealedData
           /\ KeyState(d) = "retired" => store.kcv # NoKey
           /\ d.root # NoKey /\ store.kcv = NoKey => KeyState(d) = "record"
<1> USE SealAssumption DEF Delivery, Statuses, Sealing
<1>1. CASE d.root = NoKey
    <2>1. KeyState(d) \in {"no_key", "compat"} /\ (KeyState(d) = "compat" => ~HoldsSealedData)
        BY <1>1 DEF KeyState
    <2> QED  BY <1>1, <2>1
<1>2. CASE d.root # NoKey
    <2>1. CASE store.kcv = NoKey
        <3>1. KeyState(d) = "record"
            BY <1>2, <2>1 DEF KeyState
        <3> QED  BY <3>1, <1>2
    <2>2. CASE store.kcv # NoKey
        <3>1. KeyState(d) \in {"current", "retired", "mismatch"}
            BY <1>2, <2>2 DEF KeyState
        <3> QED  BY <3>1, <1>2, <2>2
    <2> QED  BY <2>1, <2>2
<1> QED  BY <1>1, <1>2

LEMMA StoreStateType ==
    ASSUME SealTypeOK, NEW s \in SealObject
    PROVE  StoreState(s) \in StoreRecord
  BY DEF SealTypeOK, StoreState, StoreRecord, SealObject

\* The updates of the seal's fields.
LEMMA SealUpdates ==
    ASSUME SealTypeOK
    PROVE  /\ seal.column \in Columns => [seal EXCEPT !.column = @ + 1] \in SealObject
           /\ \A n \in 0..NumRows : [seal EXCEPT !.cursor = n] \in SealObject
           /\ [seal EXCEPT !.scrubbed = TRUE] \in SealObject
           /\ [seal EXCEPT !.pending = FALSE, !.scrubbed = FALSE] \in SealObject
<1>1. seal \in SealObject
    BY DEF SealTypeOK
<1>2. seal.column \in Columns => seal.column + 1 \in 1..(NumColumns + 1)
    BY SealAssumption DEF Columns
<1>3. \A n \in 1..(NumColumns + 1) : [seal EXCEPT !.column = n] \in SealObject
    BY <1>1 DEF SealObject
<1>4. [seal EXCEPT !.column = @ + 1] = [seal EXCEPT !.column = seal.column + 1]
    BY <1>1 DEF SealObject
<1>5. \A n \in 0..NumRows : [seal EXCEPT !.cursor = n] \in SealObject
    BY <1>1 DEF SealObject
<1>6. /\ [seal EXCEPT !.scrubbed = TRUE] \in SealObject
      /\ [seal EXCEPT !.pending = FALSE, !.scrubbed = FALSE] \in SealObject
    BY <1>1 DEF SealObject
<1> QED  BY <1>2, <1>3, <1>4, <1>5, <1>6

\* The steps of an open hold a root, and work on a column.
Opening == {"columns", "rows", "checkpoint", "scrub", "vacuum"}

KeyHeld ==
    /\ phase \in Opening => Sealing(seal.status)
    /\ phase # "closed" /\ Sealing(seal.status) => seal.key \in Roots
    /\ phase = "rows" => seal.column \in Columns

TypeInv == SealTypeOK /\ KeyHeld

\* Every step keeps the types and the key.
LEMMA SealTypeStep == TypeInv /\ [Next]_vars => TypeInv'
<1> SUFFICES ASSUME TypeInv, [Next]_vars PROVE TypeInv'
    OBVIOUS
<1> USE SealAssumption DEF TypeInv, SealTypeOK, KeyHeld, Opening, Deliveries
<1>1. CASE Start
    <2>1. Deliveries[epoch] \in Delivery
        BY DEF History
    <2>2. /\ KeyState(Deliveries[epoch]) \in Statuses
          /\ Sealing(KeyState(Deliveries[epoch])) => Deliveries[epoch].root \in Roots
        BY <2>1, KeyStateType
    <2>3. MustScrub(KeyState(Deliveries[epoch])) \in BOOLEAN
        BY DEF MustScrub
    <2>4. phase' \in Phases
        BY <1>1 DEF Start, Phases
    <2>5. seal' \in SealObject
        BY <1>1, <2>1, <2>2, <2>3 DEF Start, Delivery, SealObject
    <2>6. /\ seal'.status = KeyState(Deliveries[epoch])
          /\ seal'.key = Deliveries[epoch].root
        BY <1>1 DEF Start
    <2>7. KeyHeld'
        BY <1>1, <2>2, <2>6 DEF Start, Sealing
    <2>8. UNCHANGED <<history, epoch, values, columns, store, residue>>
        BY <1>1 DEF Start
    <2> QED  BY <2>4, <2>5, <2>7, <2>8
<1>2. CASE SkipColumn
    BY <1>2, SealUpdates DEF SkipColumn, Sealing, SealObject
<1>3. CASE BeginColumn
    <2>1. columns[seal.column].cursor \in 0..NumRows
        BY <1>3 DEF BeginColumn, ColumnRecord
    <2> QED  BY <1>3, <2>1, SealUpdates DEF BeginColumn, Phases, Sealing, SealObject
<1>4. CASE MigrateBatch
    <2> DEFINE rows == NextRows(seal.column, seal.cursor)
    <2>1. rows \subseteq Rows /\ rows # {}
        BY <1>4, NextRowsAreRows DEF MigrateBatch
    <2>2. LastOf(rows) \in 0..NumRows
        <3>1. LastOf(rows) \in Rows
            BY <2>1, LastOfBatch
        <3> QED  BY <3>1 DEF Rows
    <2>3. seal.key \in Roots /\ seal.column \in Columns
        BY <1>4 DEF MigrateBatch
    <2> HIDE DEF rows
    <2>4. values' \in [Columns -> [Rows -> Roots \cup {Absent, Plain}]]
        <3>1. \A v \in Roots \cup {Absent, Plain} : Resealed(v) \in Roots \cup {Absent, Plain}
            BY <2>3 DEF Resealed
        <3>2. [r \in Rows |-> IF r \in rows THEN Resealed(values[seal.column][r])
                              ELSE values[seal.column][r]]
                 \in [Rows -> Roots \cup {Absent, Plain}]
            BY <2>3, <3>1
        <3> QED  BY <1>4, <2>3, <3>2 DEF MigrateBatch, rows
    <2>5. columns' \in [Columns -> ColumnRecord]
        BY <1>4, <2>2, <2>3 DEF MigrateBatch, rows, ColumnRecord
    <2>6. /\ seal' \in SealObject
          /\ seal'.status = seal.status /\ seal'.key = seal.key /\ seal'.column = seal.column
        BY <1>4, <2>2 DEF MigrateBatch, rows, SealObject
    <2>7. residue' \in SUBSET {"wal", "free"}
        BY <1>4 DEF MigrateBatch
    <2>8. UNCHANGED <<history, epoch, store, phase>>
        BY <1>4 DEF MigrateBatch
    <2> QED  BY <2>3, <2>4, <2>5, <2>6, <2>7, <2>8 DEF Sealing
<1>5. CASE EndColumn
    <2>1. columns' \in [Columns -> ColumnRecord]
        BY <1>5 DEF EndColumn, ColumnRecord
    <2> QED  BY <1>5, <2>1, SealUpdates DEF EndColumn, Phases, Sealing, SealObject
<1>6. CASE FinishMigrate
    <2> DEFINE s == [seal EXCEPT !.retiredLeft = @ /\ seal.unreadable,
                                 !.pending = @ \/ seal.resealed,
                                 !.scrubbed = @ /\ ~seal.resealed]
    <2>1. s \in SealObject
          /\ s.status = seal.status /\ s.key = seal.key
        BY DEF SealObject
    <2> HIDE DEF s
    <2>2. store' = StoreState(s) /\ seal' = s /\ phase' \in {"checkpoint", "open"}
          /\ UNCHANGED <<history, epoch, values, columns, residue>> /\ phase = "columns"
        BY <1>6 DEF FinishMigrate, s
    <2>3. StoreState(s) \in StoreRecord
        BY <2>1, StoreStateType
    <2> QED  BY <2>1, <2>2, <2>3 DEF Phases, Sealing
<1>7. CASE GiveUp
    BY <1>7 DEF GiveUp, Phases, Sealing
<1>8. CASE Checkpoint
    BY <1>8 DEF Checkpoint, Phases, Sealing
<1>9. CASE Scrub
    <2>1. seal' \in SealObject /\ seal'.status = seal.status /\ seal'.key = seal.key
        BY <1>9, SealUpdates DEF Scrub, SealObject
    <2>2. store' = StoreState(seal')
        BY <1>9 DEF Scrub
    <2> QED  BY <1>9, <2>1, <2>2, StoreStateType DEF Scrub, Phases, Sealing
<1>10. CASE Vacuum
    <2>1. seal' \in SealObject /\ seal'.status = seal.status /\ seal'.key = seal.key
        BY <1>10, SealUpdates DEF Vacuum, SealObject
    <2>2. store' = StoreState(seal')
        BY <1>10 DEF Vacuum
    <2> QED  BY <1>10, <2>1, <2>2, StoreStateType DEF Vacuum, Phases, Sealing
<1>11. CASE Stop
    BY <1>11 DEF Stop, Phases, NoSeal, Statuses, SealObject
<1>12. CASE NextDelivery
    BY <1>12 DEF NextDelivery, Sealing
<1>13. ASSUME NEW c \in Columns, NEW r \in Rows, Insert(c, r) PROVE TypeInv'
    BY <1>13 DEF Insert, Sealing
<1>14. ASSUME NEW c \in Columns, NEW r \in Rows, OldBuildWrite(c, r) PROVE TypeInv'
    BY <1>14 DEF OldBuildWrite, Sealing
<1>15. CASE UNCHANGED vars
    BY <1>15 DEF vars, Sealing
<1> QED
    BY <1>1, <1>2, <1>3, <1>4, <1>5, <1>6, <1>7, <1>8, <1>9, <1>10, <1>11, <1>12,
       <1>13, <1>14, <1>15
    DEF Next, OpenStep

LEMMA TypeInvariant == Spec => []TypeInv
<1>1. Init => TypeInv
    BY SealTypeInit DEF Init, TypeInv, KeyHeld, Opening
<1> QED  BY <1>1, SealTypeStep, PTL DEF Spec

\* Every variable keeps its type (content-seal.ts:179-283, 407-583).
THEOREM SealTypeCorrect == Spec => []SealTypeOK
<1>1. TypeInv => SealTypeOK
    BY DEF TypeInv
<1> QED  BY <1>1, TypeInvariant, PTL

(***************************************************************************)
(* No plaintext is written to a store that holds sealed values: a value is *)
(* sealed only after, or together with, a record of its key, and a start   *)
(* that finds such a record does not fall back to plaintext.               *)
(***************************************************************************)
RecordsKeys ==
    /\ \A c \in Columns, r \in Rows : values[c][r] \in Roots => HoldsSealedData
    /\ phase # "closed" /\ seal.status = "compat" => ~HoldsSealedData
    /\ phase # "closed" /\ seal.retiredLeft => store.kcv # NoKey
    /\ phase \in {"checkpoint", "scrub", "vacuum", "open"} /\ Sealing(seal.status)
          => store.kcv # NoKey

\* Recorded keys are never forgotten.
LEMMA RecordsAreKept ==
    ASSUME HoldsSealedData,
           store.kcv # NoKey => store'.kcv # NoKey,
           \A c \in Columns : columns[c].kcv # NoKey => columns'[c].kcv # NoKey
    PROVE  HoldsSealedData'
  BY DEF HoldsSealedData

\* A store state written under a root records a key.
LEMMA StoreStateRecords ==
    ASSUME NEW s, s.key \in Roots, s.retiredLeft => store.kcv # NoKey
    PROVE  StoreState(s).kcv # NoKey
  BY SealAssumption DEF StoreState

LEMMA RecordsKeysInit == Init => RecordsKeys
<1> SUFFICES ASSUME Init PROVE RecordsKeys
    OBVIOUS
<1>1. phase = "closed"
    BY DEF Init
<1>2. CASE SealedUnder = NoKey
    BY <1>1, <1>2, SealAssumption DEF Init, RecordsKeys
<1>3. CASE SealedUnder # NoKey
    <2>1. store.kcv # NoKey
        BY <1>3 DEF Init
    <2> QED  BY <1>1, <2>1 DEF RecordsKeys, HoldsSealedData
<1> QED  BY <1>2, <1>3

LEMMA RecordsKeysStep == TypeInv /\ RecordsKeys /\ [Next]_vars => RecordsKeys'
<1> SUFFICES ASSUME TypeInv, RecordsKeys, [Next]_vars PROVE RecordsKeys'
    OBVIOUS
<1> USE SealAssumption
<1>t. SealTypeOK /\ KeyHeld
    BY DEF TypeInv
<1>c. ASSUME phase \in {"columns", "rows"} PROVE seal.key \in Roots /\ Sealing(seal.status)
    BY <1>t, <1>c DEF KeyHeld, Opening
<1>f. ASSUME phase \in {"checkpoint", "scrub", "vacuum"}
      PROVE  seal.key \in Roots /\ Sealing(seal.status) /\ store.kcv # NoKey
    BY <1>t, <1>f DEF KeyHeld, Opening, RecordsKeys
<1>n. ~(Sealing("compat"))
    BY DEF Sealing
<1>1. CASE Start
    <2>1. Deliveries[epoch] \in Delivery
        BY <1>t DEF SealTypeOK, History, Deliveries
    <2>2. /\ seal'.status = KeyState(Deliveries[epoch])
          /\ seal'.retiredLeft = (KeyState(Deliveries[epoch]) = "retired")
          /\ UNCHANGED <<history, values, columns, store>>
          /\ phase' = IF Sealing(seal'.status) THEN "columns" ELSE "open"
        BY <1>1 DEF Start
    <2>3. /\ seal'.status = "compat" => ~HoldsSealedData
          /\ seal'.retiredLeft => store.kcv # NoKey
        BY <2>1, <2>2, KeyStateType
    <2>4. HoldsSealedData' = HoldsSealedData
        BY <2>2 DEF HoldsSealedData
    <2> QED  BY <2>2, <2>3, <2>4 DEF RecordsKeys
<1>2. ASSUME SkipColumn \/ BeginColumn \/ GiveUp \/ Checkpoint PROVE RecordsKeys'
    <2>1. /\ UNCHANGED <<history, values, columns, store>> /\ phase # "closed"
          /\ phase \in {"columns", "checkpoint", "scrub", "vacuum"}
          /\ phase' \in {"checkpoint", "scrub", "vacuum", "open"} =>
                phase \in {"checkpoint", "scrub", "vacuum"}
        BY <1>2 DEF SkipColumn, BeginColumn, GiveUp, Checkpoint
    <2>2. seal'.status = seal.status /\ seal'.retiredLeft = seal.retiredLeft
        BY <1>2, <1>t DEF SkipColumn, BeginColumn, GiveUp, Checkpoint, SealTypeOK, SealObject
    <2>3. HoldsSealedData' = HoldsSealedData
        BY <2>1 DEF HoldsSealedData
    <2> QED  BY <1>c, <1>f, <2>1, <2>2, <2>3 DEF RecordsKeys
<1>3. ASSUME MigrateBatch \/ EndColumn PROVE RecordsKeys'
    <2>1. /\ phase = "rows" /\ phase' \in {"rows", "columns"}
          /\ UNCHANGED store
          /\ seal.key \in Roots /\ Sealing(seal.status) /\ seal.column \in Columns
        BY <1>3, <1>c, <1>t DEF MigrateBatch, EndColumn, KeyHeld
    <2>2. seal'.status = seal.status /\ seal'.retiredLeft = seal.retiredLeft
        BY <1>3, <1>t DEF MigrateBatch, EndColumn, SealTypeOK, SealObject
    <2>3. columns'[seal.column].kcv = seal.key
        BY <1>3, <1>t, <2>1 DEF MigrateBatch, EndColumn, SealTypeOK
    <2>4. HoldsSealedData'
        BY <2>1, <2>3 DEF HoldsSealedData
    <2> QED  BY <1>n, <2>1, <2>2, <2>4 DEF RecordsKeys
<1>4. ASSUME FinishMigrate \/ Scrub \/ Vacuum PROVE RecordsKeys'
    <2>1. /\ phase \in {"columns", "scrub", "vacuum"}
          /\ UNCHANGED <<history, values, columns>> /\ store' = StoreState(seal')
        BY <1>4 DEF FinishMigrate, Scrub, Vacuum
    <2>2. /\ seal'.status = seal.status /\ seal'.key = seal.key
          /\ seal'.retiredLeft => seal.retiredLeft
        BY <1>4, <1>t DEF FinishMigrate, Scrub, Vacuum, SealTypeOK, SealObject
    <2>3. seal.key \in Roots /\ Sealing(seal.status)
        BY <1>c, <1>f, <2>1
    <2>4. seal'.retiredLeft => store.kcv # NoKey
        BY <2>1, <2>2 DEF RecordsKeys
    <2>5. store'.kcv # NoKey
        BY <2>1, <2>2, <2>3, <2>4, StoreStateRecords
    <2>6. HoldsSealedData'
        BY <2>5 DEF HoldsSealedData
    <2> QED  BY <1>n, <2>2, <2>3, <2>5, <2>6 DEF RecordsKeys
<1>5. ASSUME Stop \/ NextDelivery PROVE RecordsKeys'
    <2>1. UNCHANGED <<history, values, columns, store>> /\ phase' = "closed"
        BY <1>5 DEF Stop, NextDelivery
    <2>2. HoldsSealedData' = HoldsSealedData
        BY <2>1 DEF HoldsSealedData
    <2> QED  BY <2>1, <2>2 DEF RecordsKeys
<1>6. ASSUME NEW c \in Columns, NEW r \in Rows, Insert(c, r) PROVE RecordsKeys'
    <2>1. UNCHANGED <<history, columns, store, phase, seal>> /\ phase = "open"
        BY <1>6 DEF Insert
    <2>2. HoldsSealedData' = HoldsSealedData
        BY <2>1 DEF HoldsSealedData
    <2>3. CASE Sealing(seal.status)
        <3>1. HoldsSealedData
            BY <2>1, <2>3 DEF RecordsKeys, HoldsSealedData
        <3> QED  BY <2>1, <2>2, <3>1 DEF RecordsKeys
    <2>4. CASE ~Sealing(seal.status)
        <3>1. values' = [values EXCEPT ![c][r] = Plain]
            BY <1>6, <2>4 DEF Insert
        <3>2. \A d \in Columns, q \in Rows :
                 values'[d][q] \in Roots => values[d][q] \in Roots
            BY <1>t, <3>1 DEF SealTypeOK
        <3> QED  BY <2>1, <2>2, <3>2 DEF RecordsKeys
    <2> QED  BY <2>3, <2>4
<1>7. ASSUME NEW c \in Columns, NEW r \in Rows, OldBuildWrite(c, r) PROVE RecordsKeys'
    <2>1. UNCHANGED <<history, columns, store, phase, seal>>
        BY <1>7 DEF OldBuildWrite
    <2>2. HoldsSealedData' = HoldsSealedData
        BY <2>1 DEF HoldsSealedData
    <2>3. \A d \in Columns, q \in Rows : values'[d][q] \in Roots => values[d][q] \in Roots
        BY <1>t, <1>7 DEF OldBuildWrite, SealTypeOK
    <2> QED  BY <2>1, <2>2, <2>3 DEF RecordsKeys
<1>8. CASE UNCHANGED vars
    <2>1. HoldsSealedData' = HoldsSealedData
        BY <1>8 DEF vars, HoldsSealedData
    <2> QED  BY <1>8, <2>1 DEF vars, RecordsKeys
<1> QED
    BY <1>1, <1>2, <1>3, <1>4, <1>5, <1>6, <1>7, <1>8 DEF Next, OpenStep

\* No open store writes plaintext once it holds a sealed value
\* (content-seal.ts:275-309, 634-642; seal.ts:517-525).
THEOREM NoPlaintextAfterSealingCorrect == Spec => NoPlaintextAfterSealing
<1> DEFINE Step ==
        \A c \in Columns, r \in Rows :
            phase # "closed" /\ values'[c][r] = Plain /\ values[c][r] # Plain =>
                \A d \in Columns, q \in Rows : values[d][q] \notin Roots
<1>1. TypeInv /\ RecordsKeys /\ [Next]_vars => Step
    <2> SUFFICES ASSUME TypeInv, RecordsKeys, [Next]_vars,
                        NEW c \in Columns, NEW r \in Rows,
                        phase # "closed", values'[c][r] = Plain, values[c][r] # Plain
                 PROVE  \A d \in Columns, q \in Rows : values[d][q] \notin Roots
        OBVIOUS
    <2>1. CASE MigrateBatch
        <3>1. seal.key \in Roots /\ SealTypeOK
            BY <2>1 DEF MigrateBatch, TypeInv, KeyHeld, Opening
        <3>2. \A v : v # Plain => Resealed(v) # Plain
            BY <3>1, SealAssumption DEF Resealed
        <3> QED  BY <2>1, <3>1, <3>2 DEF MigrateBatch, SealTypeOK
    <2>2. CASE \E d \in Columns, q \in Rows : Insert(d, q)
        <3>1. PICK d \in Columns, q \in Rows : Insert(d, q)
            BY <2>2
        <3>2. CASE Sealing(seal.status)
            <4>1. seal.key \in Roots
                BY <3>1, <3>2 DEF Insert, TypeInv, KeyHeld
            <4> QED  BY <3>1, <3>2, <4>1, SealAssumption DEF Insert, TypeInv, SealTypeOK
        <3>3. CASE ~Sealing(seal.status)
            BY <3>1, <3>3 DEF Insert, RecordsKeys
        <3> QED  BY <3>2, <3>3
    <2>3. CASE ~MigrateBatch /\ ~(\E d \in Columns, q \in Rows : Insert(d, q))
        <3>1. values' = values
            BY <2>3 DEF Next, OpenStep, vars, Start, SkipColumn, BeginColumn, EndColumn,
                        FinishMigrate, GiveUp, Checkpoint, Scrub, Vacuum, Stop,
                        OldBuildWrite, NextDelivery
        <3> QED  BY <3>1
    <2> QED  BY <2>1, <2>2, <2>3
<1>2. Spec => [](TypeInv /\ RecordsKeys)
    BY RecordsKeysInit, RecordsKeysStep, TypeInvariant, PTL DEF Spec
<1>3. Spec => [][Step]_vars
    BY <1>1, <1>2, PTL DEF Spec
<1> QED
    BY <1>3 DEF NoPlaintextAfterSealing

(***************************************************************************)
(* Without rollbacks, a store that is open under a key holds no plaintext. *)
(* The migration leaves none behind its cursor, and the only writers of    *)
(* plaintext, stores without a key, find every cursor at the start.        *)
(***************************************************************************)
MigrationLeavesNothing ==
    /\ \A c \in Columns : columns[c].state = "none" => columns[c].cursor = 0
    /\ \A c \in Columns : columns[c].state # "none" => columns[c].kcv # NoKey
    /\ \A c \in Columns : columns[c].state = "sealed" => ~HoldsPlaintext(c)
    /\ \A c \in Columns, r \in Rows : r <= columns[c].cursor => values[c][r] # Plain
    /\ phase = "rows" =>
          \A r \in Rows : r <= seal.cursor => values[seal.column][r] # Plain
    /\ phase \in {"columns", "rows"} =>
          \A c \in Columns : c < seal.column => ~HoldsPlaintext(c)
    /\ phase \in {"checkpoint", "scrub", "vacuum"} \/ (phase = "open" /\ Sealing(seal.status)) =>
          \A c \in Columns : ~HoldsPlaintext(c)

LEMMA MigrationLeavesNothingInit == Init => MigrationLeavesNothing
<1> SUFFICES ASSUME Init PROVE MigrationLeavesNothing
    OBVIOUS
<1> USE SealAssumption DEF Init, MigrationLeavesNothing, HoldsPlaintext, Rows
<1>1. CASE SealedUnder = NoKey
    BY <1>1
<1>2. CASE SealedUnder # NoKey
    <2>1. SealedUnder # Plain /\ Absent # Plain
        BY <1>2 DEF SealedUnder, History
    <2>2. \A c \in Columns, r \in Rows : values[c][r] # Plain
        BY <1>2, <2>1
    <2>3. \A c \in Columns :
             columns[c] = [state |-> "sealed", cursor |-> 0, kcv |-> SealedUnder]
        BY <1>2
    <2> QED  BY <1>2, <2>2, <2>3
<1> QED  BY <1>1, <1>2

\* A batch leaves no plaintext up to its last row.
LEMMA BatchSeals ==
    ASSUME TypeInv, MigrationLeavesNothing, MigrateBatch
    PROVE  LET last == LastOf(NextRows(seal.column, seal.cursor))
           IN  /\ last \in Rows
               /\ \A r \in Rows : r <= last => values'[seal.column][r] # Plain
               /\ \A c \in Columns : c # seal.column => values'[c] = values[c]
               /\ columns'[seal.column] = [state |-> "sealing", cursor |-> last, kcv |-> seal.key]
               /\ \A c \in Columns : c # seal.column => columns'[c] = columns[c]
               /\ seal'.cursor = last
<1> DEFINE c == seal.column
           rows == NextRows(seal.column, seal.cursor)
           last == LastOf(rows)
<1>1. /\ SealTypeOK /\ c \in Columns /\ seal.key \in Roots /\ seal.cursor \in 0..NumRows
      /\ phase = "rows" /\ rows # {} /\ rows \subseteq Rows
    BY NextRowsAreRows DEF TypeInv, SealTypeOK, KeyHeld, Opening, MigrateBatch, SealObject
<1>2. last \in rows
    BY <1>1, LastOfBatch
<1>3. \A v : Resealed(v) # Plain
    BY <1>1, SealAssumption DEF Resealed, Opens
<1>4. /\ values' = [values EXCEPT ![c] =
                      [r \in Rows |-> IF r \in rows THEN Resealed(values[c][r]) ELSE values[c][r]]]
      /\ columns' = [columns EXCEPT ![c] =
                       [state |-> "sealing", cursor |-> last, kcv |-> seal.key]]
      /\ seal'.cursor = last
    BY <1>1 DEF MigrateBatch, SealTypeOK, SealObject
<1>5. ASSUME NEW r \in Rows, r <= last PROVE values'[c][r] # Plain
    <2>1. values'[c][r] = IF r \in rows THEN Resealed(values[c][r]) ELSE values[c][r]
        BY <1>1, <1>4 DEF SealTypeOK
    <2>2. CASE r \in rows
        BY <1>3, <2>1, <2>2
    <2>3. CASE r \notin rows
        <3>1. CASE r <= seal.cursor
            BY <1>1, <2>1, <2>3, <3>1 DEF MigrationLeavesNothing
        <3>2. CASE ~(r <= seal.cursor)
            <4>1. seal.cursor < r /\ r <= NumRows
                BY <1>1, <3>2, SealAssumption DEF Rows
            <4>2. CASE values[c][r] # Absent
                <5>1. r \in Stored(c, seal.cursor, NumRows)
                    BY <4>1, <4>2 DEF Stored
                <5>2. r \in rows
                    BY <1>1, <1>2, <1>5, <5>1, BatchHasNoGap
                <5> QED  BY <2>3, <5>2
            <4>3. CASE values[c][r] = Absent
                BY <2>1, <2>3, <4>3, SealAssumption
            <4> QED  BY <4>2, <4>3
        <3> QED  BY <3>1, <3>2
    <2> QED  BY <2>2, <2>3
<1>6. \A d \in Columns : d # c => values'[d] = values[d] /\ columns'[d] = columns[d]
    BY <1>1, <1>4 DEF SealTypeOK
<1>7. columns'[c] = [state |-> "sealing", cursor |-> last, kcv |-> seal.key]
    BY <1>1, <1>4 DEF SealTypeOK
<1> QED
    BY <1>1, <1>2, <1>4, <1>5, <1>6, <1>7

LEMMA MigrationLeavesNothingStep ==
    ~history.oldBuilds /\ TypeInv /\ RecordsKeys /\ MigrationLeavesNothing /\ [Next]_vars
        => MigrationLeavesNothing'
<1> SUFFICES ASSUME ~history.oldBuilds, TypeInv, RecordsKeys,
                    MigrationLeavesNothing, [Next]_vars
             PROVE  MigrationLeavesNothing'
    OBVIOUS
<1> USE SealAssumption
<1>t. SealTypeOK /\ KeyHeld
    BY DEF TypeInv
<1>1. CASE Start
    <2>1. /\ UNCHANGED <<history, values, columns>>
          /\ seal'.column = 1
          /\ phase' = "columns" \/ (phase' = "open" /\ ~Sealing(seal'.status))
        BY <1>1 DEF Start
    <2> QED  BY <2>1 DEF MigrationLeavesNothing, HoldsPlaintext, Columns
<1>2. CASE SkipColumn
    <2>1. /\ UNCHANGED <<history, values, columns, phase>> /\ phase = "columns"
          /\ seal.column \in Columns /\ ~HoldsPlaintext(seal.column)
        BY <1>2 DEF SkipColumn, IsFinished
    <2>2. seal'.column = seal.column + 1
        BY <1>2, <1>t DEF SkipColumn, SealTypeOK, SealObject
    <2> QED  BY <2>1, <2>2 DEF MigrationLeavesNothing, HoldsPlaintext, Columns
<1>3. CASE BeginColumn
    <2>1. /\ UNCHANGED <<history, values, columns>> /\ phase = "columns" /\ phase' = "rows"
          /\ seal.column \in Columns
        BY <1>3 DEF BeginColumn
    <2>2. seal'.column = seal.column /\ seal'.cursor = columns[seal.column].cursor
        BY <1>3, <1>t DEF BeginColumn, SealTypeOK, SealObject
    <2> QED  BY <2>1, <2>2 DEF MigrationLeavesNothing, HoldsPlaintext
<1>4. CASE MigrateBatch
    <2>1. /\ phase = "rows" /\ phase' = "rows" /\ seal'.column = seal.column
          /\ seal.column \in Columns /\ seal.key \in Roots
        BY <1>4, <1>t DEF MigrateBatch, SealTypeOK, SealObject, KeyHeld, Opening
    <2>2. PICK last \in Rows :
             /\ \A r \in Rows : r <= last => values'[seal.column][r] # Plain
             /\ \A c \in Columns : c # seal.column => values'[c] = values[c]
             /\ columns'[seal.column] = [state |-> "sealing", cursor |-> last, kcv |-> seal.key]
             /\ \A c \in Columns : c # seal.column => columns'[c] = columns[c]
             /\ seal'.cursor = last
        BY <1>4, BatchSeals
    <2>3. \A c \in Columns : c < seal.column => c # seal.column
        BY <2>1 DEF Columns
    <2>4. seal.key # NoKey
        BY <2>1
    <2>5. \A c \in Columns : columns'[c].state = "none" => columns'[c].cursor = 0
        BY <2>2 DEF MigrationLeavesNothing
    <2>6. \A c \in Columns : columns'[c].state # "none" => columns'[c].kcv # NoKey
        BY <2>2, <2>4 DEF MigrationLeavesNothing
    <2>7. \A c \in Columns : columns'[c].state = "sealed" => ~HoldsPlaintext(c)'
        BY <2>2 DEF MigrationLeavesNothing, HoldsPlaintext
    <2>8. \A c \in Columns, r \in Rows : r <= columns'[c].cursor => values'[c][r] # Plain
        BY <2>2 DEF MigrationLeavesNothing
    <2>9. \A c \in Columns : c < seal.column => ~HoldsPlaintext(c)'
        BY <2>1, <2>2, <2>3 DEF MigrationLeavesNothing, HoldsPlaintext
    <2> QED  BY <2>1, <2>2, <2>5, <2>6, <2>7, <2>8, <2>9 DEF MigrationLeavesNothing
<1>5. CASE EndColumn
    <2>1. /\ phase = "rows" /\ phase' = "columns" /\ UNCHANGED values
          /\ seal.column \in Columns /\ seal.key \in Roots /\ seal.cursor \in 0..NumRows
          /\ NextRows(seal.column, seal.cursor) = {}
        BY <1>5, <1>t DEF EndColumn, SealTypeOK, SealObject, KeyHeld, Opening
    <2>2. seal'.column = seal.column + 1
        BY <1>5, <1>t DEF EndColumn, SealTypeOK, SealObject
    <2>3. /\ columns'[seal.column] = [state |-> "sealed", cursor |-> 0, kcv |-> seal.key]
          /\ \A c \in Columns : c # seal.column => columns'[c] = columns[c]
        BY <1>5, <1>t, <2>1 DEF EndColumn, SealTypeOK
    <2>4. ~HoldsPlaintext(seal.column)
        <3>1. Stored(seal.column, seal.cursor, NumRows) = {}
            BY <2>1, QueryFindsRows
        <3>2. \A r \in Rows : r <= seal.cursor => values[seal.column][r] # Plain
            BY <2>1 DEF MigrationLeavesNothing
        <3>3. \A r \in Rows : ~(r <= seal.cursor) => values[seal.column][r] = Absent
            BY <2>1, <3>1 DEF Stored, Rows
        <3> QED  BY <3>2, <3>3 DEF HoldsPlaintext
    <2>5. seal.key # NoKey
        BY <2>1
    <2>6. \A c \in Columns : c < seal.column + 1 => c < seal.column \/ c = seal.column
        BY <2>1 DEF Columns
    <2>7. \A c \in Columns, r \in Rows : r <= columns'[c].cursor => values'[c][r] # Plain
        <3>1. \A r \in Rows : ~(r <= 0)
            BY DEF Rows
        <3> QED  BY <2>1, <2>3, <3>1 DEF MigrationLeavesNothing
    <2> QED  BY <2>1, <2>2, <2>3, <2>4, <2>5, <2>6, <2>7 DEF MigrationLeavesNothing, HoldsPlaintext
<1>6. CASE FinishMigrate
    <2>1. /\ UNCHANGED <<history, values, columns>> /\ phase = "columns"
          /\ seal.column \notin Columns /\ phase' \in {"checkpoint", "open"}
        BY <1>6 DEF FinishMigrate
    <2>2. \A c \in Columns : c < seal.column
        BY <1>t, <2>1 DEF SealTypeOK, SealObject, Columns
    <2> QED  BY <2>1, <2>2 DEF MigrationLeavesNothing, HoldsPlaintext
<1>7. ASSUME GiveUp \/ Checkpoint \/ Scrub \/ Vacuum PROVE MigrationLeavesNothing'
    <2>1. /\ UNCHANGED <<history, values, columns>> /\ phase \in {"checkpoint", "scrub", "vacuum"}
          /\ phase' \in {"scrub", "vacuum", "open"}
        BY <1>7 DEF GiveUp, Checkpoint, Scrub, Vacuum
    <2>2. \A c \in Columns : ~HoldsPlaintext(c) /\ ~HoldsPlaintext(c)'
        BY <2>1 DEF MigrationLeavesNothing, HoldsPlaintext
    <2>3. phase' \notin {"rows", "columns"}
        BY <2>1
    <2> QED  BY <2>1, <2>2, <2>3 DEF MigrationLeavesNothing
<1>8. ASSUME Stop \/ NextDelivery PROVE MigrationLeavesNothing'
    <2>1. UNCHANGED <<history, values, columns>> /\ phase' = "closed"
        BY <1>8 DEF Stop, NextDelivery
    <2> QED  BY <2>1 DEF MigrationLeavesNothing, HoldsPlaintext
<1>9. ASSUME NEW c \in Columns, NEW r \in Rows, Insert(c, r) PROVE MigrationLeavesNothing'
    <2>1. UNCHANGED <<history, columns, phase, seal>> /\ phase = "open"
        BY <1>9 DEF Insert
    <2>2. CASE Sealing(seal.status)
        <3>1. values' = [values EXCEPT ![c][r] = seal.key] /\ seal.key # Plain
            BY <1>9, <1>t, <2>1, <2>2 DEF Insert, KeyHeld
        <3>2. \A d \in Columns, q \in Rows : values'[d][q] = Plain => values[d][q] = Plain
            BY <1>t, <3>1 DEF SealTypeOK
        <3> QED  BY <2>1, <3>2 DEF MigrationLeavesNothing, HoldsPlaintext
    <2>3. CASE ~Sealing(seal.status)
        <3>1. ~HoldsSealedData
            BY <1>9, <2>1, <2>3 DEF Insert, RecordsKeys
        <3>2. \A d \in Columns : columns[d].state = "none" /\ columns[d].cursor = 0
            BY <3>1 DEF HoldsSealedData, MigrationLeavesNothing
        <3>3. \A q \in Rows : ~(q <= 0)
            BY DEF Rows
        <3> QED  BY <2>1, <2>3, <3>2, <3>3 DEF MigrationLeavesNothing
    <2> QED  BY <2>2, <2>3
<1>10. ASSUME NEW c \in Columns, NEW r \in Rows, OldBuildWrite(c, r)
       PROVE  MigrationLeavesNothing'
    BY <1>10 DEF OldBuildWrite
<1>11. CASE UNCHANGED vars
    BY <1>11 DEF vars, MigrationLeavesNothing, HoldsPlaintext
<1> QED
    BY <1>1, <1>2, <1>3, <1>4, <1>5, <1>6, <1>7, <1>8, <1>9, <1>10, <1>11 DEF Next, OpenStep

\* A store that serves requests under a key holds no plaintext, if no older
\* build ran on it in between (content-seal.ts:407-504).
THEOREM PlaintextSealedOnOpenCorrect == Spec => []PlaintextSealedOnOpen
<1> DEFINE Inv == ~history.oldBuilds => MigrationLeavesNothing
<1>1. Inv => PlaintextSealedOnOpen
    BY DEF MigrationLeavesNothing, PlaintextSealedOnOpen
<1>2. Init => Inv
    BY MigrationLeavesNothingInit
<1>3. TypeInv /\ RecordsKeys /\ Inv /\ [Next]_vars => Inv'
    <2>1. [Next]_vars => history' = history
        BY DEF Next, OpenStep, vars, Start, SkipColumn, BeginColumn, MigrateBatch, EndColumn,
               FinishMigrate, GiveUp, Checkpoint, Scrub, Vacuum, Stop, NextDelivery, Insert,
               OldBuildWrite
    <2> QED  BY <2>1, MigrationLeavesNothingStep
<1> HIDE DEF Inv
<1> QED
    BY <1>1, <1>2, <1>3, RecordsKeysInit, RecordsKeysStep, TypeInvariant, PTL DEF Spec
(***************************************************************************)
(* Without rollbacks, freed plaintext is scrubbed before a store counts as *)
(* sealed.  Until the first key is recorded every page may hold plaintext, *)
(* and the start that records it scrubs; once no column holds plaintext,   *)
(* no page gets any more; and until the scrub is over the record says so.  *)
(***************************************************************************)
ScrubKept ==
    /\ store.state = "none" <=> store.kcv = NoKey
    /\ store.kcv # NoKey => \A c \in Columns : ~HoldsPlaintext(c)
    /\ store.kcv # NoKey /\ residue # {} => store.state \in {"vacuum_pending", "scrubbed"}
    /\ phase \in {"columns", "rows"} =>
          /\ store.kcv = NoKey => ~seal.retiredLeft
          /\ store.state # "sealed" => seal.pending
    /\ phase \in {"checkpoint", "scrub"} => seal.pending

LEMMA ScrubKeptInit == Init => ScrubKept
<1> SUFFICES ASSUME Init PROVE ScrubKept
    OBVIOUS
<1> USE SealAssumption DEF Init, ScrubKept
<1>1. CASE SealedUnder = NoKey
    BY <1>1
<1>2. CASE SealedUnder # NoKey
    <2>1. SealedUnder # Plain /\ Absent # Plain
        BY <1>2 DEF SealedUnder, History
    <2>2. \A c \in Columns : ~HoldsPlaintext(c)
        BY <1>2, <2>1 DEF HoldsPlaintext
    <2> QED  BY <1>2, <2>2
<1> QED  BY <1>1, <1>2

\* A start under a first key scrubs, and one that finds a scrub unfinished does.
LEMMA StartMustScrub ==
    ASSUME NEW d \in Delivery, store.state = "none" <=> store.kcv = NoKey,
           store \in StoreRecord, Sealing(KeyState(d))
    PROVE  /\ store.state # "sealed" => MustScrub(KeyState(d))
           /\ store.kcv = NoKey => KeyState(d) # "retired"
<1>1. CASE store.kcv = NoKey
    <2>1. d.root # NoKey
        BY KeyStateType, SealAssumption
    <2>2. KeyState(d) = "record"
        BY <1>1, <2>1, KeyStateType
    <2> QED  BY <2>2 DEF MustScrub
<1>2. CASE store.kcv # NoKey
    BY <1>2 DEF MustScrub, StoreRecord
<1> QED  BY <1>1, <1>2

\* What the store records at the end of a migration or a scrub.
LEMMA StoreStateFits ==
    ASSUME NEW s \in SealObject, s.key \in Roots, s.retiredLeft => store.kcv # NoKey
    PROVE  /\ StoreState(s).kcv # NoKey
           /\ StoreState(s).state # "none"
           /\ s.pending => StoreState(s).state \in {"vacuum_pending", "scrubbed"}
  BY SealAssumption DEF StoreState

LEMMA ScrubKeptStep ==
    ~history.oldBuilds /\ TypeInv /\ RecordsKeys /\ MigrationLeavesNothing /\ ScrubKept
        /\ [Next]_vars => ScrubKept'
<1> SUFFICES ASSUME ~history.oldBuilds, TypeInv, RecordsKeys, MigrationLeavesNothing,
                    ScrubKept, [Next]_vars
             PROVE  ScrubKept'
    OBVIOUS
<1> USE SealAssumption
<1>t. SealTypeOK /\ KeyHeld
    BY DEF TypeInv
<1>1. CASE Start
    <2>1. Deliveries[epoch] \in Delivery
        BY <1>t DEF SealTypeOK, History, Deliveries
    <2>2. /\ UNCHANGED <<values, store, residue>>
          /\ seal'.pending = MustScrub(KeyState(Deliveries[epoch]))
          /\ seal'.retiredLeft = (KeyState(Deliveries[epoch]) = "retired")
          /\ phase' = IF Sealing(KeyState(Deliveries[epoch])) THEN "columns" ELSE "open"
        BY <1>1 DEF Start
    <2>3. Sealing(KeyState(Deliveries[epoch])) =>
             /\ store.state # "sealed" => MustScrub(KeyState(Deliveries[epoch]))
             /\ store.kcv = NoKey => KeyState(Deliveries[epoch]) # "retired"
        BY <1>t, <2>1, StartMustScrub DEF SealTypeOK, ScrubKept
    <2> QED  BY <2>2, <2>3 DEF ScrubKept, HoldsPlaintext
<1>2. CASE SkipColumn \/ BeginColumn
    <2>1. /\ UNCHANGED <<values, store, residue>> /\ phase = "columns"
          /\ phase' \in {"columns", "rows"}
        BY <1>2 DEF SkipColumn, BeginColumn
    <2>2. seal'.pending = seal.pending /\ seal'.retiredLeft = seal.retiredLeft
        BY <1>2, <1>t DEF SkipColumn, BeginColumn, SealTypeOK, SealObject
    <2> QED  BY <2>1, <2>2 DEF ScrubKept, HoldsPlaintext
<1>3. CASE MigrateBatch
    <2> DEFINE c == seal.column
               rows == NextRows(c, seal.cursor)
    <2>1. /\ UNCHANGED <<store, phase>> /\ phase = "rows" /\ c \in Columns
          /\ seal.key \in Roots /\ rows \subseteq Rows
        BY <1>3, <1>t, NextRowsAreRows DEF MigrateBatch, KeyHeld, Opening
    <2>2. seal'.pending = seal.pending /\ seal'.retiredLeft = seal.retiredLeft
        BY <1>3, <1>t DEF MigrateBatch, SealTypeOK, SealObject
    <2>3. ASSUME store.kcv # NoKey
          PROVE  residue' = residue /\ \A d \in Columns : ~HoldsPlaintext(d)'
        <3>1. \A d \in Columns, r \in Rows : values[d][r] # Plain
            BY <2>3 DEF ScrubKept, HoldsPlaintext
        <3>2. residue' = residue
            BY <1>3, <2>1, <3>1 DEF MigrateBatch
        <3>3. \A v : Resealed(v) # Plain
            BY <2>1 DEF Resealed, Opens
        <3>4. values' = [values EXCEPT ![c] =
                 [r \in Rows |-> IF r \in rows THEN Resealed(values[c][r]) ELSE values[c][r]]]
            BY <1>3, <1>t, <2>1 DEF MigrateBatch, SealTypeOK
        <3>5. \A d \in Columns, r \in Rows : values'[d][r] # Plain
            BY <1>t, <2>1, <3>1, <3>3, <3>4 DEF SealTypeOK
        <3> QED  BY <3>2, <3>5 DEF HoldsPlaintext
    <2> QED  BY <2>1, <2>2, <2>3 DEF ScrubKept, HoldsPlaintext
<1>4. CASE EndColumn
    <2>1. UNCHANGED <<values, store, residue>> /\ phase = "rows" /\ phase' = "columns"
        BY <1>4 DEF EndColumn
    <2>2. seal'.pending = seal.pending /\ seal'.retiredLeft = seal.retiredLeft
        BY <1>4, <1>t DEF EndColumn, SealTypeOK, SealObject
    <2> QED  BY <2>1, <2>2 DEF ScrubKept, HoldsPlaintext
<1>5. CASE FinishMigrate
    <2> DEFINE s == [seal EXCEPT !.retiredLeft = @ /\ seal.unreadable,
                                 !.pending = @ \/ seal.resealed,
                                 !.scrubbed = @ /\ ~seal.resealed]
    <2>1. /\ s \in SealObject /\ s.key = seal.key
          /\ s.retiredLeft => seal.retiredLeft
          /\ seal.pending => s.pending
        BY <1>t DEF SealTypeOK, SealObject
    <2>2. /\ seal' = s /\ store' = StoreState(s) /\ UNCHANGED <<values, residue>>
          /\ phase = "columns" /\ seal.column \notin Columns
          /\ phase' = IF s.pending THEN "checkpoint" ELSE "open"
        BY <1>5 DEF FinishMigrate
    <2> HIDE DEF s
    <2>3. seal.key \in Roots /\ (s.retiredLeft => store.kcv # NoKey)
        BY <1>t, <2>1, <2>2 DEF KeyHeld, Opening, RecordsKeys
    <2>4. /\ StoreState(s).kcv # NoKey /\ StoreState(s).state # "none"
          /\ s.pending => StoreState(s).state \in {"vacuum_pending", "scrubbed"}
        BY <2>1, <2>3, StoreStateFits
    <2>5. \A c \in Columns : ~HoldsPlaintext(c)
        <3>1. \A c \in Columns : c < seal.column
            BY <1>t, <2>2 DEF SealTypeOK, SealObject, Columns
        <3> QED  BY <2>2, <3>1 DEF MigrationLeavesNothing
    <2>6. residue # {} => s.pending
        <3>1. CASE store.kcv = NoKey
            BY <2>1, <2>2, <3>1 DEF ScrubKept
        <3>2. CASE store.kcv # NoKey
            BY <2>1, <2>2, <3>2 DEF ScrubKept
        <3> QED  BY <3>1, <3>2
    <2> QED  BY <2>2, <2>4, <2>5, <2>6 DEF ScrubKept, HoldsPlaintext
<1>6. CASE GiveUp \/ Checkpoint
    <2>1. /\ UNCHANGED <<values, store, seal>> /\ residue' \subseteq residue
          /\ phase' \in {"open", "vacuum"} \/ (phase = "checkpoint" /\ phase' = "scrub")
        BY <1>6 DEF GiveUp, Checkpoint
    <2> QED  BY <2>1 DEF ScrubKept, HoldsPlaintext
<1>7. CASE Scrub
    <2>1. /\ seal' \in SealObject /\ seal'.key = seal.key
          /\ seal'.pending = seal.pending /\ seal'.retiredLeft = seal.retiredLeft
          /\ store' = StoreState(seal') /\ residue' \subseteq residue
          /\ UNCHANGED values /\ phase = "scrub" /\ phase' = "vacuum"
        BY <1>7, <1>t, SealUpdates DEF Scrub, SealTypeOK, SealObject
    <2>2. seal.key \in Roots /\ store.kcv # NoKey /\ seal.pending
        BY <1>t, <2>1 DEF KeyHeld, Opening, RecordsKeys, ScrubKept
    <2>3. /\ store'.kcv # NoKey /\ store'.state # "none"
          /\ store'.state \in {"vacuum_pending", "scrubbed"}
        BY <2>1, <2>2, StoreStateFits
    <2> QED  BY <2>1, <2>2, <2>3 DEF ScrubKept, HoldsPlaintext
<1>8. CASE Vacuum
    <2>1. /\ seal' \in SealObject /\ seal'.key = seal.key
          /\ seal'.retiredLeft = seal.retiredLeft
          /\ store' = StoreState(seal') /\ residue' = {}
          /\ UNCHANGED values /\ phase = "vacuum" /\ phase' = "open"
        BY <1>8, <1>t, SealUpdates DEF Vacuum, SealTypeOK, SealObject
    <2>2. seal.key \in Roots /\ store.kcv # NoKey
        BY <1>t, <2>1 DEF KeyHeld, Opening, RecordsKeys
    <2>3. store'.kcv # NoKey /\ store'.state # "none"
        BY <2>1, <2>2, StoreStateFits
    <2> QED  BY <2>1, <2>2, <2>3 DEF ScrubKept, HoldsPlaintext
<1>9. CASE Stop \/ NextDelivery
    <2>1. UNCHANGED <<values, store, residue>> /\ phase' = "closed"
        BY <1>9 DEF Stop, NextDelivery
    <2> QED  BY <2>1 DEF ScrubKept, HoldsPlaintext
<1>10. ASSUME NEW c \in Columns, NEW r \in Rows, Insert(c, r) PROVE ScrubKept'
    <2>1. UNCHANGED <<store, residue, phase, seal>> /\ phase = "open"
        BY <1>10 DEF Insert
    <2>2. store.kcv # NoKey => Sealing(seal.status)
        BY <1>10, <2>1 DEF Insert, RecordsKeys, HoldsSealedData
    <2>3. ASSUME store.kcv # NoKey PROVE \A d \in Columns : ~HoldsPlaintext(d)'
        <3>1. values' = [values EXCEPT ![c][r] = seal.key] /\ seal.key # Plain
            BY <1>10, <1>t, <2>1, <2>2, <2>3 DEF Insert, KeyHeld
        <3>2. \A d \in Columns, q \in Rows : values'[d][q] = Plain => values[d][q] = Plain
            BY <1>t, <3>1 DEF SealTypeOK
        <3> QED  BY <2>3, <3>2 DEF ScrubKept, HoldsPlaintext
    <2> QED  BY <2>1, <2>3 DEF ScrubKept, HoldsPlaintext
<1>11. ASSUME NEW c \in Columns, NEW r \in Rows, OldBuildWrite(c, r) PROVE ScrubKept'
    BY <1>11 DEF OldBuildWrite
<1>12. CASE UNCHANGED vars
    BY <1>12 DEF vars, ScrubKept, HoldsPlaintext
<1> QED
    BY <1>1, <1>2, <1>3, <1>4, <1>5, <1>6, <1>7, <1>8, <1>9, <1>10, <1>11, <1>12
    DEF Next, OpenStep

\* A store that counts as sealed has no freed plaintext left, whatever crashes and
\* failed steps came before (content-seal.ts:511-560).
THEOREM ScrubRememberedCorrect == Spec => []ScrubRemembered
<1> DEFINE Inv == ~history.oldBuilds => MigrationLeavesNothing /\ ScrubKept
<1>1. RecordsKeys /\ Inv => ScrubRemembered
    BY DEF RecordsKeys, ScrubKept, ScrubRemembered
<1>2. Init => Inv
    BY MigrationLeavesNothingInit, ScrubKeptInit
<1>3. TypeInv /\ RecordsKeys /\ Inv /\ [Next]_vars => Inv'
    <2>1. [Next]_vars => history' = history
        BY DEF Next, OpenStep, vars, Start, SkipColumn, BeginColumn, MigrateBatch, EndColumn,
               FinishMigrate, GiveUp, Checkpoint, Scrub, Vacuum, Stop, NextDelivery, Insert,
               OldBuildWrite
    <2> QED  BY <2>1, MigrationLeavesNothingStep, ScrubKeptStep
<1> HIDE DEF Inv
<1> QED
    BY <1>1, <1>2, <1>3, RecordsKeysInit, RecordsKeysStep, TypeInvariant, PTL DEF Spec

(***************************************************************************)
(* A store's life with one rotation, at most: a store that was sealed      *)
(* under the old key, or one that is sealed first under the only key.      *)
(***************************************************************************)
OneRotation(h, old, new) ==
    /\ h.sealedUnder = old \/ (h.sealedUnder = NoKey /\ old = new)
    /\ \A i \in DOMAIN h.deliveries : h.deliveries[i].root \in {NoKey, old, new}
    /\ \A i, j \in DOMAIN h.deliveries :
          i < j /\ h.deliveries[i].root = new => h.deliveries[j].root \in {NoKey, new}

AtMostOneRotation ==
    \A h \in Histories : h.oldBuilds \/ \E old, new \in Roots : OneRotation(h, old, new)

\* A process works with the key it was delivered.
KeyDelivered ==
    phase # "closed" => seal.key = Deliveries[epoch].root

Delivered(key) == \E i \in 1..epoch : Deliveries[i].root = key

HoldsKey(c, key) == \E r \in Rows : values[c][r] = key

\* With one key only, no other is ever used.
OneKeyInv(key) ==
    \A c \in Columns, r \in Rows : values[c][r] \in {Absent, Plain, key}

\* Before the new key is delivered the store is as it was sealed.
NotYetRotated(old) ==
    /\ store.kcv = old
    /\ \A c \in Columns, r \in Rows : values[c][r] \in {Absent, old}
    /\ \A c \in Columns : columns[c].state = "sealed" /\ columns[c].cursor = 0
    /\ phase \in Opening => phase # "rows" /\ ~seal.retiredLeft

\* From then on nothing is left under the old key behind a cursor, and the new
\* key is recorded when nothing is left at all.
Rotating(old, new) ==
    /\ store.kcv \in {old, new}
    /\ \A c \in Columns, r \in Rows : values[c][r] \in {Absent, old, new}
    /\ \A c \in Columns, r \in Rows : r <= columns[c].cursor => values[c][r] # old
    /\ store.kcv = new => \A c \in Columns : ~HoldsKey(c, old)
    /\ phase \in {"columns", "rows"} =>
          /\ ~seal.unreadable
          /\ store.kcv = old => seal.retiredLeft /\ old \in seal.retired
          /\ \A c \in Columns : c < seal.column => ~HoldsKey(c, old)
    /\ phase = "rows" =>
          \A r \in Rows : r <= seal.cursor => values[seal.column][r] # old
    /\ phase \in {"checkpoint", "scrub", "vacuum"} => ~seal.retiredLeft /\ store.kcv = new

RotationInv(old, new) ==
    IF Delivered(new) THEN Rotating(old, new) ELSE NotYetRotated(old)

RotationKept ==
    ~history.oldBuilds =>
        \E old, new \in Roots :
            /\ OneRotation(history, old, new)
            /\ IF old = new THEN OneKeyInv(new) ELSE RotationInv(old, new)

LEMMA KeyDeliveredStep == TypeInv /\ KeyDelivered /\ [Next]_vars => KeyDelivered'
<1> SUFFICES ASSUME TypeInv, KeyDelivered, [Next]_vars PROVE KeyDelivered'
    OBVIOUS
<1>t. seal \in SealObject /\ history' = history
    BY DEF TypeInv, SealTypeOK, Next, OpenStep, vars, Start, SkipColumn, BeginColumn,
           MigrateBatch, EndColumn, FinishMigrate, GiveUp, Checkpoint, Scrub, Vacuum, Stop,
           NextDelivery, Insert, OldBuildWrite
<1>1. CASE Start
    BY <1>1, <1>t DEF Start, KeyDelivered, Deliveries
<1>2. CASE OpenStep
    <2>1. seal'.key = seal.key /\ UNCHANGED epoch /\ phase # "closed"
        BY <1>2, <1>t DEF OpenStep, SkipColumn, BeginColumn, MigrateBatch, EndColumn,
            FinishMigrate, GiveUp, Checkpoint, Scrub, Vacuum, SealObject
    <2> QED  BY <2>1, <1>t DEF KeyDelivered, Deliveries
<1>3. CASE Stop \/ NextDelivery
    BY <1>3 DEF Stop, NextDelivery, KeyDelivered
<1>4. CASE \E c \in Columns, r \in Rows : Insert(c, r) \/ OldBuildWrite(c, r)
    BY <1>4 DEF Insert, OldBuildWrite, KeyDelivered, Deliveries
<1>5. CASE UNCHANGED vars
    BY <1>5 DEF vars, KeyDelivered, Deliveries
<1> QED
    BY <1>1, <1>2, <1>3, <1>4, <1>5 DEF Next

\* A process that seals works with the old key before the rotation, and with the
\* new one from then on.
LEMMA KeyOfLife ==
    ASSUME TypeInv, KeyDelivered, NEW old \in Roots, NEW new \in Roots, OneRotation(history, old, new)
    PROVE  /\ phase # "closed" /\ Sealing(seal.status) =>
                seal.key = IF Delivered(new) THEN new ELSE old
           /\ Deliveries[epoch].root \in {NoKey, IF Delivered(new) THEN new ELSE old}
<1>1. epoch \in 1..Len(Deliveries) /\ history.deliveries \in Seq(Delivery)
    BY SealAssumption DEF TypeInv, SealTypeOK, Deliveries, History
<1>2. epoch \in DOMAIN history.deliveries /\ 1..epoch \subseteq DOMAIN history.deliveries
    BY <1>1 DEF Deliveries
<1>3. Deliveries[epoch].root \in {NoKey, IF Delivered(new) THEN new ELSE old}
  <2>1. CASE Delivered(new)
    <3>1. PICK i \in 1..epoch : Deliveries[i].root = new
        BY <2>1 DEF Delivered
    <3> QED  BY <1>1, <1>2, <2>1, <3>1 DEF OneRotation, Deliveries
  <2>2. CASE ~Delivered(new)
    <3>1. Deliveries[epoch].root # new
        BY <1>1, <2>2 DEF Delivered
    <3> QED  BY <1>2, <2>2, <3>1 DEF OneRotation, Deliveries
  <2> QED  BY <2>1, <2>2
<1> QED
    BY <1>3, SealAssumption DEF TypeInv, KeyHeld, KeyDelivered

\* What is delivered stays delivered, and only a start later on delivers more.
LEMMA DeliveredStep ==
    ASSUME TypeInv, [Next]_vars, NEW key
    PROVE  /\ history' = history
           /\ Delivered(key) => Delivered(key)'
           /\ ~NextDelivery /\ Delivered(key)' => Delivered(key)
<1>1. history' = history
    BY DEF Next, OpenStep, vars, Start, SkipColumn, BeginColumn,
           MigrateBatch, EndColumn, FinishMigrate, GiveUp, Checkpoint, Scrub, Vacuum, Stop,
           NextDelivery, Insert, OldBuildWrite
<1>2. epoch' = epoch \/ (NextDelivery /\ epoch' = epoch + 1)
    BY DEF Next, OpenStep, vars, Start, SkipColumn, BeginColumn,
           MigrateBatch, EndColumn, FinishMigrate, GiveUp, Checkpoint, Scrub, Vacuum, Stop,
           NextDelivery, Insert, OldBuildWrite
<1>3. epoch \in Nat
    BY SealAssumption DEF TypeInv, SealTypeOK, History, Deliveries
<1> QED
    BY <1>1, <1>2, <1>3 DEF Delivered, Deliveries

LEMMA OneKeyStep ==
    ASSUME TypeInv, KeyDelivered, NEW key \in Roots, OneRotation(history, key, key), OneKeyInv(key),
           [Next]_vars
    PROVE  OneKeyInv(key)'
<1>t. SealTypeOK /\ KeyHeld
    BY DEF TypeInv
<1>k. phase # "closed" /\ Sealing(seal.status) => seal.key = key
    BY KeyOfLife
<1>1. CASE MigrateBatch
    <2>1. seal.key = key /\ phase = "rows" /\ seal.column \in Columns
        BY <1>1, <1>t, <1>k DEF MigrateBatch, KeyHeld, Opening
    <2>2. \A v \in {Absent, Plain, key} : Resealed(v) \in {Absent, Plain, key}
        BY <2>1 DEF Resealed
    <2> QED  BY <1>1, <1>t, <2>1, <2>2 DEF MigrateBatch, OneKeyInv, SealTypeOK
<1>2. ASSUME NEW c \in Columns, NEW r \in Rows, Insert(c, r) \/ OldBuildWrite(c, r)
      PROVE  OneKeyInv(key)'
    BY <1>2, <1>t, <1>k DEF Insert, OldBuildWrite, OneKeyInv, SealTypeOK
<1>3. CASE ~MigrateBatch /\ ~(\E c \in Columns, r \in Rows : Insert(c, r) \/ OldBuildWrite(c, r))
    <2>1. values' = values
        BY <1>3 DEF Next, OpenStep, vars, Start, SkipColumn, BeginColumn, EndColumn,
                    FinishMigrate, GiveUp, Checkpoint, Scrub, Vacuum, Stop, NextDelivery
    <2> QED  BY <2>1 DEF OneKeyInv
<1> QED
    BY <1>1, <1>2, <1>3

\* Before the rotation no step changes what a store holds, and the first start
\* with the new key finds every cursor at the start.
LEMMA NotYetRotatedStep ==
    ASSUME TypeInv, RecordsKeys, KeyDelivered, ~history.oldBuilds,
           NEW old \in Roots, NEW new \in Roots, old # new, OneRotation(history, old, new),
           ~Delivered(new), NotYetRotated(old), [Next]_vars
    PROVE  RotationInv(old, new)'
<1> USE SealAssumption
<1>t. SealTypeOK /\ KeyHeld /\ history' = history /\ seal \in SealObject
      /\ seal.column \in 1..(NumColumns + 1)
    BY DeliveredStep DEF TypeInv, SealTypeOK, SealObject
<1>k. /\ phase # "closed" /\ Sealing(seal.status) => seal.key = old
      /\ Deliveries[epoch].root \in {NoKey, old}
    BY KeyOfLife
<1>n. /\ store.kcv = old /\ old # NoKey /\ old # Plain /\ old # Absent
      /\ \A c \in Columns, r \in Rows : values[c][r] \in {Absent, old}
      /\ \A c \in Columns : columns[c].state = "sealed" /\ columns[c].cursor = 0
    BY DEF NotYetRotated
<1>1. CASE NextDelivery
  <2>1. UNCHANGED <<values, columns, store, phase>> /\ phase = "closed"
    BY <1>1 DEF NextDelivery
  <2>2. \A r \in Rows : ~(r <= 0)
    BY DEF Rows
  <2>3. NotYetRotated(old)'
    BY <2>1 DEF NotYetRotated, Opening
  <2>4. Rotating(old, new)'
    BY <1>n, <2>1, <2>2 DEF Rotating
  <2> QED  BY <2>3, <2>4 DEF RotationInv
<1>2. CASE ~NextDelivery
  <2>1. ~Delivered(new)'
    BY <1>2, DeliveredStep
  <2>2. NotYetRotated(old)'
    <3>1. CASE Start
      <4>1. KeyState(Deliveries[epoch]) \in {"no_key", "current"}
        BY <1>k, <1>n, <3>1 DEF KeyState, HoldsSealedData
      <4>2. ~seal'.retiredLeft /\ phase' # "rows" /\ UNCHANGED <<values, columns, store>>
        BY <3>1, <4>1 DEF Start
      <4> QED  BY <4>2, <1>n DEF NotYetRotated
    <3>2. CASE SkipColumn
      <4>1. UNCHANGED <<values, columns, store, phase>> /\ seal'.retiredLeft = seal.retiredLeft
        BY <1>t, <3>2 DEF SkipColumn, SealObject
      <4> QED  BY <4>1 DEF NotYetRotated
    <3>3. ~BeginColumn
      BY <1>n DEF BeginColumn, IsFinished, HoldsPlaintext, NotYetRotated, Opening
    <3>4. ~MigrateBatch /\ ~EndColumn
      BY DEF MigrateBatch, EndColumn, NotYetRotated, Opening
    <3>5. CASE FinishMigrate
      <4>1. ~seal.retiredLeft /\ seal.key = old /\ phase = "columns"
        BY <1>t, <1>k, <3>5 DEF FinishMigrate, NotYetRotated, KeyHeld, Opening
      <4>2. ~seal'.retiredLeft /\ seal'.key = old
        BY <1>t, <3>5, <4>1 DEF FinishMigrate, SealObject
      <4>3. store' = StoreState(seal') /\ UNCHANGED <<values, columns>> /\ phase' # "rows"
        BY <3>5 DEF FinishMigrate
      <4>4. store'.kcv = old
        BY <4>2, <4>3 DEF StoreState
      <4> QED  BY <4>2, <4>3, <4>4, <1>n DEF NotYetRotated
    <3>6. CASE GiveUp \/ Checkpoint
      BY <3>6 DEF GiveUp, Checkpoint, NotYetRotated, Opening
    <3>7. CASE Scrub \/ Vacuum
      <4>1. ~seal.retiredLeft /\ seal.key = old
        BY <1>t, <1>k, <3>7 DEF Scrub, Vacuum, NotYetRotated, KeyHeld, Opening
      <4>2. ~seal'.retiredLeft /\ seal'.key = old /\ store' = StoreState(seal')
        BY <1>t, <3>7, <4>1 DEF Scrub, Vacuum, SealObject
      <4>3. store'.kcv = old /\ UNCHANGED <<values, columns>> /\ phase' # "rows"
        BY <3>7, <4>2 DEF StoreState, Scrub, Vacuum
      <4> QED  BY <4>2, <4>3, <1>n DEF NotYetRotated
    <3>8. CASE Stop
      BY <3>8 DEF Stop, NotYetRotated, Opening
    <3>9. ASSUME NEW c \in Columns, NEW r \in Rows, Insert(c, r) \/ OldBuildWrite(c, r)
          PROVE  NotYetRotated(old)'
      <4>1. Insert(c, r)
        BY <3>9 DEF OldBuildWrite
      <4>2. seal.status # "compat"
        BY <1>n, <4>1 DEF Insert, RecordsKeys, HoldsSealedData
      <4>3. values' = [values EXCEPT ![c][r] = old] /\ UNCHANGED <<columns, store, phase>>
            /\ phase \notin Opening
        BY <1>k, <4>1, <4>2 DEF Insert, Opening
      <4> QED  BY <1>t, <4>3 DEF NotYetRotated, SealTypeOK
    <3>10. CASE UNCHANGED vars
      BY <3>10 DEF vars, NotYetRotated
    <3> QED
      BY <1>2, <3>1, <3>2, <3>3, <3>4, <3>5, <3>6, <3>7, <3>8, <3>9, <3>10 DEF Next, OpenStep
  <2> QED  BY <2>1, <2>2 DEF RotationInv
<1> QED  BY <1>1, <1>2

\* A batch leaves nothing under the old key up to its last row.
LEMMA BatchRotates ==
    ASSUME TypeInv, KeyDelivered, NEW old \in Roots, NEW new \in Roots, old # new,
           seal.key = new, Rotating(old, new), MigrateBatch
    PROVE  LET last == LastOf(NextRows(seal.column, seal.cursor))
           IN  /\ last \in Rows
               /\ \A r \in Rows : r <= last => values'[seal.column][r] # old
               /\ \A r \in Rows : values'[seal.column][r] = old => values[seal.column][r] = old
               /\ \A r \in Rows : values'[seal.column][r] \in {Absent, old, new}
               /\ \A c \in Columns : c # seal.column => values'[c] = values[c]
               /\ columns'[seal.column].cursor = last
               /\ \A c \in Columns : c # seal.column => columns'[c] = columns[c]
               /\ seal'.cursor = last /\ ~seal'.unreadable
<1> DEFINE c == seal.column
           rows == NextRows(seal.column, seal.cursor)
           last == LastOf(rows)
<1>1. /\ SealTypeOK /\ c \in Columns /\ seal.cursor \in 0..NumRows
      /\ phase = "rows" /\ rows # {} /\ rows \subseteq Rows
    BY NextRowsAreRows DEF TypeInv, SealTypeOK, KeyHeld, Opening, MigrateBatch, SealObject
<1>2. last \in rows
    BY <1>1, LastOfBatch
<1>3. ASSUME NEW r \in rows PROVE Opens(values[c][r]) /\ Resealed(values[c][r]) = new
  <2>1. values[c][r] \in {old, new}
    BY <1>1 DEF NextRows, Stored, Rotating
  <2>2. values[c][r] = old => old \in seal.retired
    BY <1>1 DEF Rotating, HoldsKey
  <2> QED  BY <2>1, <2>2 DEF Opens, Resealed
<1>4. /\ values' = [values EXCEPT ![c] =
                      [r \in Rows |-> IF r \in rows THEN Resealed(values[c][r]) ELSE values[c][r]]]
      /\ columns' = [columns EXCEPT ![c] =
                       [state |-> "sealing", cursor |-> last, kcv |-> seal.key]]
      /\ seal'.cursor = last
    BY <1>1 DEF MigrateBatch, SealTypeOK, SealObject
<1>5. \A r \in Rows : values'[c][r] = IF r \in rows THEN new ELSE values[c][r]
    BY <1>1, <1>3, <1>4 DEF SealTypeOK
<1>6. ASSUME NEW r \in Rows, r <= last, values'[c][r] = old PROVE FALSE
  <2>1. r \notin rows /\ values[c][r] = old
    BY <1>5, <1>6
  <2>2. ~(r <= seal.cursor)
    BY <1>1, <2>1 DEF Rotating
  <2>3. seal.cursor < r /\ r <= NumRows /\ values[c][r] # Absent
    BY <1>1, <2>1, <2>2, SealAssumption DEF Rows
  <2>4. r \in Stored(c, seal.cursor, NumRows)
    BY <2>3 DEF Stored
  <2>5. r \in rows
    BY <1>1, <1>2, <1>6, <2>4, BatchHasNoGap
  <2> QED  BY <2>1, <2>5
<1>7. \A d \in Columns : d # c => values'[d] = values[d] /\ columns'[d] = columns[d]
    BY <1>1, <1>4 DEF SealTypeOK
<1>8. columns'[c].cursor = last
    BY <1>1, <1>4 DEF SealTypeOK
<1>9. ~seal'.unreadable
  <2>1. ~seal.unreadable /\ seal \in SealObject
    BY <1>1 DEF Rotating, SealTypeOK
  <2>2. ~(\E r \in rows : ~Opens(values[c][r]))
    BY <1>3
  <2>3. seal'.unreadable = (seal.unreadable \/ \E r \in rows : ~Opens(values[c][r]))
    BY <2>1 DEF MigrateBatch, SealObject
  <2> QED  BY <2>1, <2>2, <2>3
<1>10. \A r \in Rows : values'[c][r] \in {Absent, old, new}
    BY <1>1, <1>5 DEF Rotating
<1> QED
    BY <1>1, <1>2, <1>4, <1>5, <1>6, <1>7, <1>8, <1>9, <1>10

LEMMA RotatingStep ==
    ASSUME TypeInv, RecordsKeys, KeyDelivered, ~history.oldBuilds,
           NEW old \in Roots, NEW new \in Roots, old # new, OneRotation(history, old, new),
           Delivered(new), Rotating(old, new), [Next]_vars
    PROVE  Rotating(old, new)'
<1> USE SealAssumption
<1>t. SealTypeOK /\ KeyHeld /\ history' = history /\ seal \in SealObject
      /\ seal.column \in 1..(NumColumns + 1)
    BY DeliveredStep DEF TypeInv, SealTypeOK, SealObject
<1>k. /\ phase # "closed" /\ Sealing(seal.status) => seal.key = new
      /\ Deliveries[epoch].root \in {NoKey, new}
    BY KeyOfLife
<1>n. store.kcv \in {old, new} /\ old # NoKey /\ new # NoKey /\ {old, new} \cap {Absent, Plain} = {}
    BY DEF Rotating
<1>1. CASE Start
    <2>1. PICK d : d = Deliveries[epoch]
        OBVIOUS
    <2>2. Sealing(KeyState(d)) /\ store.kcv = old =>
              KeyState(d) = "retired" /\ old \in d.retired
        BY <1>k, <1>n, <2>1 DEF KeyState, Sealing
    <2>3. /\ UNCHANGED <<values, columns, store>>
          /\ seal'.status = KeyState(d) /\ seal'.retired = d.retired /\ ~seal'.unreadable
          /\ seal'.retiredLeft = (KeyState(d) = "retired") /\ seal'.column = 1
          /\ phase' = IF Sealing(KeyState(d)) THEN "columns" ELSE "open"
        BY <1>1, <2>1 DEF Start
    <2>4. \A c \in Columns : ~(c < 1)
        BY DEF Columns
    <2>5. phase' \notin {"rows", "checkpoint", "scrub", "vacuum"}
        BY <2>3
    <2>6. ASSUME phase' = "columns"
          PROVE  /\ ~seal'.unreadable /\ seal'.column = 1
                 /\ store'.kcv = old => seal'.retiredLeft /\ old \in seal'.retired
      <3>1. Sealing(KeyState(d))
          BY <2>3, <2>6
      <3> QED  BY <2>2, <2>3, <3>1
    <2>7. /\ (store.kcv \in {old, new})'
          /\ (\A c \in Columns, r \in Rows : values[c][r] \in {Absent, old, new})'
          /\ (\A c \in Columns, r \in Rows : r <= columns[c].cursor => values[c][r] # old)'
          /\ (store.kcv = new => \A c \in Columns : ~HoldsKey(c, old))'
        BY <2>3 DEF Rotating, HoldsKey
    <2> QED  BY <2>4, <2>5, <2>6, <2>7 DEF Rotating
<1>2. CASE SkipColumn
    <2>1. /\ UNCHANGED <<values, columns, store, phase>> /\ phase = "columns"
          /\ seal.column \in Columns /\ ~seal.retiredLeft
        BY <1>2 DEF SkipColumn, IsFinished
    <2>2. seal' = [seal EXCEPT !.column = seal.column + 1]
        BY <1>2, <1>t DEF SkipColumn, SealObject
    <2>3. store.kcv = new
        BY <1>n, <2>1 DEF Rotating
    <2>4. seal'.unreadable = seal.unreadable
        BY <1>t, <2>2 DEF SealObject
    <2> QED  BY <1>n, <2>1, <2>3, <2>4 DEF Rotating, HoldsKey
<1>3. CASE BeginColumn
    <2>1. /\ UNCHANGED <<values, columns, store>> /\ phase = "columns" /\ phase' = "rows"
          /\ seal.column \in Columns
        BY <1>3 DEF BeginColumn
    <2>2. /\ seal'.column = seal.column /\ seal'.cursor = columns[seal.column].cursor
          /\ seal'.retired = seal.retired /\ seal'.retiredLeft = seal.retiredLeft
          /\ seal'.unreadable = seal.unreadable
        BY <1>3, <1>t DEF BeginColumn, SealObject
    <2> QED  BY <2>1, <2>2 DEF Rotating, HoldsKey
<1>4. CASE MigrateBatch
    <2>1. /\ phase = "rows" /\ phase' = "rows" /\ seal.column \in Columns /\ seal.key = new
          /\ UNCHANGED store
        BY <1>4, <1>t, <1>k DEF MigrateBatch, KeyHeld, Opening
    <2>2. /\ seal'.column = seal.column /\ seal'.retired = seal.retired
          /\ seal'.retiredLeft = seal.retiredLeft
        BY <1>4, <1>t DEF MigrateBatch, SealObject
    <2>3. PICK last \in Rows :
               /\ \A r \in Rows : r <= last => values'[seal.column][r] # old
               /\ \A r \in Rows : values'[seal.column][r] = old => values[seal.column][r] = old
               /\ \A r \in Rows : values'[seal.column][r] \in {Absent, old, new}
               /\ \A c \in Columns : c # seal.column => values'[c] = values[c]
               /\ columns'[seal.column].cursor = last
               /\ \A c \in Columns : c # seal.column => columns'[c] = columns[c]
               /\ seal'.cursor = last /\ ~seal'.unreadable
        BY <1>4, <2>1, BatchRotates
    <2>4. \A c \in Columns : ~HoldsKey(c, old) => ~HoldsKey(c, old)'
        BY <2>1, <2>3 DEF HoldsKey
    <2>5. \A c \in Columns, r \in Rows : values'[c][r] \in {Absent, old, new}
        BY <2>3 DEF Rotating
    <2>6. \A c \in Columns, r \in Rows : r <= columns'[c].cursor => values'[c][r] # old
        BY <2>3 DEF Rotating
    <2> QED  BY <2>1, <2>2, <2>3, <2>4, <2>5, <2>6 DEF Rotating
<1>5. CASE EndColumn
    <2>1. /\ phase = "rows" /\ phase' = "columns" /\ UNCHANGED <<values, store>>
          /\ seal.column \in Columns /\ seal.cursor \in 0..NumRows
          /\ NextRows(seal.column, seal.cursor) = {}
        BY <1>5, <1>t DEF EndColumn, SealObject, KeyHeld
    <2>2. /\ seal'.column = seal.column + 1 /\ seal'.retired = seal.retired
          /\ seal'.retiredLeft = seal.retiredLeft /\ seal'.unreadable = seal.unreadable
        BY <1>5, <1>t DEF EndColumn, SealObject
    <2>3. /\ columns'[seal.column].cursor = 0
          /\ \A c \in Columns : c # seal.column => columns'[c] = columns[c]
        BY <1>5, <1>t, <2>1 DEF EndColumn, SealTypeOK
    <2>4. ~HoldsKey(seal.column, old)
        <3>1. Stored(seal.column, seal.cursor, NumRows) = {}
            BY <2>1, QueryFindsRows
        <3>2. \A r \in Rows : r <= seal.cursor => values[seal.column][r] # old
            BY <2>1 DEF Rotating
        <3>3. \A r \in Rows : ~(r <= seal.cursor) => values[seal.column][r] = Absent
            BY <2>1, <3>1 DEF Stored, Rows
        <3> QED  BY <1>n, <3>2, <3>3 DEF HoldsKey
    <2>5. \A c \in Columns : c < seal.column + 1 => c < seal.column \/ c = seal.column
        BY <2>1 DEF Columns
    <2>6. \A c \in Columns, r \in Rows : r <= columns'[c].cursor => values'[c][r] # old
        <3>1. \A r \in Rows : ~(r <= 0)
            BY DEF Rows
        <3> QED  BY <2>1, <2>3, <3>1 DEF Rotating
    <2> QED  BY <2>1, <2>2, <2>4, <2>5, <2>6 DEF Rotating, HoldsKey
<1>6. CASE FinishMigrate
    <2>1. /\ UNCHANGED <<values, columns>> /\ phase = "columns"
          /\ seal.column \notin Columns /\ phase' \in {"checkpoint", "open"}
          /\ store' = StoreState(seal') /\ seal.key = new
        BY <1>6, <1>t, <1>k DEF FinishMigrate, KeyHeld, Opening
    <2>2. ~seal'.retiredLeft /\ seal'.key = new
        BY <1>6, <1>t, <2>1 DEF FinishMigrate, SealObject, Rotating
    <2>3. store'.kcv = new
        BY <2>1, <2>2 DEF StoreState
    <2>4. \A c \in Columns : c < seal.column
        BY <1>t, <2>1 DEF Columns
    <2> QED  BY <2>1, <2>2, <2>3, <2>4 DEF Rotating, HoldsKey
<1>7. CASE GiveUp \/ Checkpoint
    BY <1>7 DEF GiveUp, Checkpoint, Rotating, HoldsKey
<1>8. CASE Scrub \/ Vacuum
    <2>1. ~seal.retiredLeft /\ seal.key = new /\ store.kcv = new
        BY <1>t, <1>k, <1>8 DEF Scrub, Vacuum, Rotating, KeyHeld, Opening
    <2>2. ~seal'.retiredLeft /\ seal'.key = new /\ store' = StoreState(seal')
        BY <1>t, <1>8, <2>1 DEF Scrub, Vacuum, SealObject
    <2>3. /\ store'.kcv = new /\ UNCHANGED <<values, columns>>
          /\ phase' \notin {"columns", "rows"}
        BY <1>8, <2>2 DEF StoreState, Scrub, Vacuum
    <2> QED  BY <2>1, <2>2, <2>3 DEF Rotating, HoldsKey
<1>9. CASE Stop \/ NextDelivery
    <2>1. UNCHANGED <<values, columns, store>> /\ phase' = "closed"
        BY <1>9 DEF Stop, NextDelivery
    <2> QED  BY <2>1 DEF Rotating, HoldsKey
<1>10. ASSUME NEW c \in Columns, NEW r \in Rows, Insert(c, r) \/ OldBuildWrite(c, r)
       PROVE  Rotating(old, new)'
    <2>1. Insert(c, r)
        BY <1>10 DEF OldBuildWrite
    <2>2. seal.status # "compat"
        BY <1>n, <2>1 DEF Insert, RecordsKeys, HoldsSealedData
    <2>3. values' = [values EXCEPT ![c][r] = new] /\ UNCHANGED <<columns, store, phase, seal>>
          /\ phase = "open"
        BY <1>k, <2>1, <2>2 DEF Insert
    <2>4. \A d \in Columns, q \in Rows : values'[d][q] \in {values[d][q], new}
        BY <1>t, <2>3 DEF SealTypeOK
    <2> QED  BY <2>3, <2>4 DEF Rotating, HoldsKey
<1>11. CASE UNCHANGED vars
    BY <1>11 DEF vars, Rotating, HoldsKey
<1> QED
    BY <1>1, <1>2, <1>3, <1>4, <1>5, <1>6, <1>7, <1>8, <1>9, <1>10, <1>11 DEF Next, OpenStep

LEMMA RotationKeptInit == AtMostOneRotation /\ Init => RotationKept /\ KeyDelivered
<1> SUFFICES ASSUME AtMostOneRotation, Init, ~history.oldBuilds PROVE RotationKept
    BY DEF Init, KeyDelivered, RotationKept
<1> USE SealAssumption
<1>1. PICK old, new \in Roots : OneRotation(history, old, new)
    BY DEF AtMostOneRotation, Init
<1>2. CASE old = new
    <2>1. SealedUnder \in {NoKey, new}
        BY <1>1, <1>2 DEF OneRotation, SealedUnder
    <2>2. \A c \in Columns, r \in Rows : values[c][r] \in {Absent, Plain, new}
      <3>1. CASE SealedUnder = NoKey
        BY <3>1 DEF Init
      <3>2. CASE SealedUnder # NoKey
        BY <2>1, <3>2 DEF Init
      <3> QED  BY <3>1, <3>2
    <2> QED  BY <1>1, <1>2, <2>2 DEF RotationKept, OneKeyInv
<1>3. CASE old # new
    <2>1. SealedUnder = old /\ old # NoKey
        BY <1>1, <1>3 DEF OneRotation, SealedUnder
    <2>2. /\ values \in [Columns -> [Rows -> {Absent, old}]]
          /\ columns = [c \in Columns |-> [state |-> "sealed", cursor |-> 0, kcv |-> old]]
          /\ store.kcv = old /\ phase = "closed"
        BY <2>1 DEF Init
    <2>3. NotYetRotated(old)
        BY <2>2 DEF NotYetRotated, Opening
    <2>4. Rotating(old, new)
      <3>1. \A r \in Rows : ~(r <= 0)
        BY DEF Rows
      <3> QED  BY <1>3, <2>2, <3>1 DEF Rotating
    <2> QED  BY <1>1, <1>3, <2>3, <2>4 DEF RotationKept, RotationInv
<1> QED  BY <1>2, <1>3

LEMMA RotationKeptStep ==
    TypeInv /\ RecordsKeys /\ KeyDelivered /\ RotationKept /\ [Next]_vars => RotationKept'
<1> SUFFICES ASSUME TypeInv, RecordsKeys, KeyDelivered, RotationKept, [Next]_vars,
                    ~history.oldBuilds
             PROVE  RotationKept'
    BY DeliveredStep DEF RotationKept
<1>1. PICK old, new \in Roots :
        /\ OneRotation(history, old, new)
        /\ IF old = new THEN OneKeyInv(new) ELSE RotationInv(old, new)
    BY DEF RotationKept
<1>2. history' = history /\ (Delivered(new) => Delivered(new)')
    BY DeliveredStep
<1>3. CASE old = new
    <2>1. OneKeyInv(new)'
        BY <1>1, <1>3, OneKeyStep
    <2> QED  BY <1>1, <1>2, <1>3, <2>1 DEF RotationKept
<1>4. CASE old # new
    <2>1. RotationInv(old, new)'
      <3>1. CASE Delivered(new)
        BY <1>1, <1>2, <1>4, <3>1, RotatingStep DEF RotationInv
      <3>2. CASE ~Delivered(new)
        BY <1>1, <1>4, <3>2, NotYetRotatedStep DEF RotationInv
      <3> QED  BY <3>1, <3>2
    <2> QED  BY <1>1, <1>2, <1>4, <2>1 DEF RotationKept
<1> QED  BY <1>3, <1>4

LEMMA RotationKeptIsEnough ==
    ASSUME TypeInv, KeyDelivered, RotationKept, ~history.oldBuilds => ScrubKept
    PROVE  RecordedKeyOpensAll
<1> USE SealAssumption
<1> SUFFICES ASSUME ~history.oldBuilds, Deliveries[epoch].root # NoKey,
                    store.kcv = Deliveries[epoch].root, NEW c \in Columns, NEW r \in Rows
             PROVE  values[c][r] \in {Absent, Deliveries[epoch].root}
    BY DEF RecordedKeyOpensAll
<1>1. PICK old, new \in Roots :
        /\ OneRotation(history, old, new)
        /\ IF old = new THEN OneKeyInv(new) ELSE RotationInv(old, new)
    BY DEF RotationKept
<1>2. Deliveries[epoch].root = IF Delivered(new) THEN new ELSE old
    BY <1>1, KeyOfLife
<1>3. values[c][r] # Plain
    BY DEF ScrubKept, HoldsPlaintext
<1>4. CASE old = new
    BY <1>1, <1>2, <1>3, <1>4 DEF OneKeyInv
<1>5. CASE old # new
    BY <1>1, <1>2, <1>5 DEF RotationInv, Rotating, NotYetRotated, HoldsKey
<1> QED  BY <1>4, <1>5

\* In a store's life with at most one rotation, the delivered key is recorded
\* only once every value is sealed under it, whatever crashes come between
\* (content-seal.ts:144-148, 511-516).
THEOREM RecordedKeyCorrect == AtMostOneRotation => (Spec => []RecordedKeyOpensAll)
<1> DEFINE Inv == ~history.oldBuilds => MigrationLeavesNothing /\ ScrubKept
<1>1. Init => Inv
    BY MigrationLeavesNothingInit, ScrubKeptInit
<1>2. TypeInv /\ RecordsKeys /\ Inv /\ [Next]_vars => Inv'
    <2>1. [Next]_vars => history' = history
        BY DEF Next, OpenStep, vars, Start, SkipColumn, BeginColumn, MigrateBatch, EndColumn,
               FinishMigrate, GiveUp, Checkpoint, Scrub, Vacuum, Stop, NextDelivery, Insert,
               OldBuildWrite
    <2> QED  BY <2>1, MigrationLeavesNothingStep, ScrubKeptStep
<1>3. TypeInv /\ KeyDelivered /\ RotationKept /\ Inv => RecordedKeyOpensAll
    BY RotationKeptIsEnough
<1> HIDE DEF Inv
<1> QED
    BY <1>1, <1>2, <1>3, RecordsKeysInit, RecordsKeysStep, KeyDeliveredStep, RotationKeptInit,
       RotationKeptStep, TypeInvariant, PTL DEF Spec
=============================================================================
