-------------------------- MODULE PaymentStoreProofs --------------------------
(***************************************************************************)
(* Proofs about the ledger of PaymentStore.tla, for every set of           *)
(* processes, challenges, keys and policies, and every sequence of calls.  *)
(***************************************************************************)
EXTENDS PaymentStore, FiniteSetTheorems, RecursionLemmas, TLAPS

\* Initially every variable has its type.
LEMMA StoreTypeInit == StoreInit => StoreTypeOK
<1> SUFFICES ASSUME StoreInit PROVE StoreTypeOK
    OBVIOUS
<1> USE StoreAssumption DEF StoreInit
<1>1. now \in 0..MaxTime /\ handles \in [Procs -> HandleStates]
    BY DEF HandleStates
<1>2. \A k \in Keys : NewRow(k) \in Row
    BY <1>1 DEF NewRow, Row
<1>3. reservations \in [Challenges -> Row \cup {NoRow}]
    BY <1>2
<1>4. granted \in [Days -> Nat]
    BY ChallengeAssumption
<1> QED
    BY <1>1, <1>3, <1>4 DEF StoreTypeOK

\* A row stays a row when its status or submission mark changes.
LEMMA RowUpdates ==
    ASSUME StoreTypeOK, NEW r \in Row, NEW status \in {"pending", "settled", "failed"}
    PROVE  /\ [r EXCEPT !.submitted = TRUE] \in Row
           /\ [r EXCEPT !.submitted = TRUE, !.updatedAt = now] \in Row
           /\ [r EXCEPT !.status = status, !.updatedAt = now] \in Row
  BY DEF StoreTypeOK, Row

\* Every operation of the ledger keeps the types.
LEMMA StoreTypeStep == StoreTypeOK /\ [StoreNext]_storeVars => StoreTypeOK'
<1> SUFFICES ASSUME StoreTypeOK, [StoreNext]_storeVars PROVE StoreTypeOK'
    OBVIOUS
<1> USE StoreAssumption DEF StoreTypeOK
<1>1. CASE Tick
    BY <1>1 DEF Tick
<1>2. ASSUME NEW p \in Procs, OpenMigrate(p) PROVE StoreTypeOK'
    <2>1. reservations' \in [Challenges -> Row \cup {NoRow}]
        BY <1>2, RowUpdates DEF OpenMigrate, Unsent, HasStatus, HasRow
    <2> QED  BY <1>2, <2>1 DEF OpenMigrate, HandleStates
<1>3. ASSUME NEW p \in Procs, OpenRecover(p) PROVE StoreTypeOK'
    <2>1. reservations' \in [Challenges -> Row \cup {NoRow}]
        <3>1. \A ch \in Challenges : Stale(ch) => reservations[ch] \in Row
            BY DEF Stale, Unsent, HasStatus, HasRow
        <3>2. \A ch \in Challenges : Stale(ch) =>
                 [reservations[ch] EXCEPT !.status = "failed", !.updatedAt = now] \in Row
            BY <3>1, RowUpdates
        <3> QED  BY <1>3, <3>2 DEF OpenRecover
    <2> QED  BY <1>3, <2>1 DEF OpenRecover, HandleStates
<1>4. ASSUME NEW p \in Procs, Close(p) PROVE StoreTypeOK'
    BY <1>4 DEF Close, HandleStates
<1>5. ASSUME NEW p \in Procs, NEW pol \in Policies, SetPolicy(p, pol) PROVE StoreTypeOK'
    BY <1>5 DEF SetPolicy
<1>6. ASSUME NEW p \in Procs, NEW ch \in Challenges, MarkSubmitted(p, ch) PROVE StoreTypeOK'
    BY <1>6, RowUpdates DEF MarkSubmitted, Unsent, HasStatus, HasRow
<1>7. ASSUME NEW p \in Procs, NEW ch \in Challenges, Commit(p, ch) PROVE StoreTypeOK'
    BY <1>7, RowUpdates DEF Commit, HasStatus, HasRow
<1>8. ASSUME NEW p \in Procs, NEW ch \in Challenges, Release(p, ch) PROVE StoreTypeOK'
    BY <1>8, RowUpdates DEF Release, Unsent, HasStatus, HasRow
<1>9. ASSUME NEW p \in Procs, NEW ch \in Challenges, NEW k \in Keys, NEW pol \in Policies,
             ReserveNew(p, ch, k, pol)
      PROVE  StoreTypeOK'
    <2>1. pol.dailyCap \in Nat
        BY DEF Policy
    <2>2. granted' \in [Days -> Nat]
        BY <1>9, <2>1 DEF ReserveNew
    <2>3. NewRow(k) \in Row
        BY DEF NewRow, Row
    <2> QED  BY <1>9, <2>2, <2>3 DEF ReserveNew
<1>10. CASE UNCHANGED storeVars
    BY <1>10 DEF storeVars
<1> QED
    BY <1>1, <1>2, <1>3, <1>4, <1>5, <1>6, <1>7, <1>8, <1>9, <1>10
       DEF StoreNext, ReserveAgain, ReserveRefused

\* Every reachable ledger is well typed.
THEOREM StoreTypeCorrect == StoreSpec => []StoreTypeOK
  BY StoreTypeInit, StoreTypeStep, PTL DEF StoreSpec

(***************************************************************************)
(* Keys, receipts, and the direction rows move in.                         *)
(***************************************************************************)
\* A process holds the database open only after migrating it.
MigratedBeforeUse == \A p \in Procs : handles[p] # "closed" => version = 4

LedgerInv ==
    /\ StoreTypeOK
    /\ MigratedBeforeUse
    /\ OneRowPerKey
    /\ ReceiptIffSettled

\* What RowsOnlyAdvance says of one step.
RowsAdvance ==
    \A ch \in Challenges : HasRow(ch) =>
        /\ HasRow(ch)'
        /\ reservations'[ch].key = reservations[ch].key
        /\ reservations'[ch].createdAt = reservations[ch].createdAt
        /\ reservations[ch].submitted => reservations'[ch].submitted
        /\ reservations'[ch].status # reservations[ch].status =>
              /\ reservations[ch].status = "pending"
              /\ reservations[ch].submitted \/ version < 4
                    => reservations'[ch].status = "settled"

\* The invariant holds of a new database and of one an earlier version left.
LEMMA LedgerInit == StoreInit => LedgerInv
<1> SUFFICES ASSUME StoreInit PROVE LedgerInv
    OBVIOUS
<1>1. \A ch \in Challenges : HasRow(ch) => reservations[ch].status = "pending"
    BY DEF StoreInit, HasRow, NewRow
<1>2. \A c1, c2 \in Challenges : HasRow(c1) /\ HasRow(c2) => c1 = c2
    BY DEF StoreInit, HasRow
<1>3. ReceiptIffSettled
    BY <1>1 DEF StoreInit, ReceiptIffSettled, HasStatus
<1> QED
    BY <1>2, <1>3, StoreTypeInit DEF StoreInit, LedgerInv, MigratedBeforeUse, OneRowPerKey

\* A step leaves a row alone, or edits its status and submission mark.
SameRow(ch) == reservations'[ch] = reservations[ch]

EditedTo(ch, status, submitted) ==
    /\ HasRow(ch) /\ HasRow(ch)'
    /\ reservations'[ch].key = reservations[ch].key
    /\ reservations'[ch].createdAt = reservations[ch].createdAt
    /\ reservations'[ch].status = status
    /\ reservations'[ch].submitted = submitted

\* The edits the operations make.
LEMMA Edits ==
    ASSUME StoreTypeOK, NEW ch \in Challenges, HasRow(ch),
           NEW status \in {"pending", "settled", "failed"}
    PROVE  /\ reservations'[ch] = [reservations[ch] EXCEPT !.submitted = TRUE]
                => EditedTo(ch, reservations[ch].status, TRUE)
           /\ reservations'[ch] = [reservations[ch] EXCEPT !.submitted = TRUE, !.updatedAt = now]
                => EditedTo(ch, reservations[ch].status, TRUE)
           /\ reservations'[ch] = [reservations[ch] EXCEPT !.status = status, !.updatedAt = now]
                => EditedTo(ch, status, reservations[ch].submitted)
<1>1. reservations[ch] \in Row
    BY DEF StoreTypeOK, HasRow
<1>2. /\ [reservations[ch] EXCEPT !.submitted = TRUE] # NoRow
      /\ [reservations[ch] EXCEPT !.submitted = TRUE, !.updatedAt = now] # NoRow
      /\ [reservations[ch] EXCEPT !.status = status, !.updatedAt = now] # NoRow
    BY <1>1, RowUpdates, StoreAssumption
<1> QED
    BY <1>1, <1>2 DEF EditedTo, HasRow, Row

\* When no row appears, keys stay apart if every row keeps its key.
LEMMA KeysKept ==
    ASSUME OneRowPerKey, RowsAdvance,
           \A ch \in Challenges : HasRow(ch)' => HasRow(ch)
    PROVE  OneRowPerKey'
  BY DEF OneRowPerKey, RowsAdvance, HasRow

\* Every operation keeps the invariant and moves rows only forward.
LEMMA LedgerStep ==
    ASSUME LedgerInv, [StoreNext]_storeVars
    PROVE  LedgerInv' /\ RowsAdvance
<1> USE DEF LedgerInv
<1>1. StoreTypeOK'
    BY StoreTypeStep
<1> SUFFICES MigratedBeforeUse' /\ OneRowPerKey' /\ ReceiptIffSettled' /\ RowsAdvance
    BY <1>1
<1> DEFINE Goal == MigratedBeforeUse' /\ OneRowPerKey' /\ ReceiptIffSettled' /\ RowsAdvance
<1>2. ASSUME UNCHANGED <<reservations, receipts>>, MigratedBeforeUse' PROVE Goal
    BY <1>2 DEF OneRowPerKey, ReceiptIffSettled, RowsAdvance, HasRow, HasStatus, StoreTypeOK, Row
<1>3. ASSUME NEW p \in Procs, OpenMigrate(p) PROVE Goal
    <2>1. MigratedBeforeUse'
        BY <1>3 DEF OpenMigrate, MigratedBeforeUse
    <2>2. \A ch \in Challenges :
            \/ SameRow(ch)
            \/ (Unsent(ch) /\ EditedTo(ch, "pending", TRUE))
        BY <1>3, Edits DEF OpenMigrate, SameRow, Unsent, HasStatus
    <2>3. RowsAdvance /\ \A ch \in Challenges : HasRow(ch)' => HasRow(ch)
        BY <2>2 DEF RowsAdvance, SameRow, EditedTo, Unsent, HasStatus, HasRow
    <2>4. receipts' = receipts
        BY <1>3 DEF OpenMigrate
    <2>5. ReceiptIffSettled'
        BY <2>2, <2>4 DEF ReceiptIffSettled, SameRow, EditedTo, Unsent, HasStatus, HasRow
    <2> QED  BY <2>1, <2>3, <2>5, KeysKept
<1>4. ASSUME NEW p \in Procs, OpenRecover(p) PROVE Goal
    <2>1. MigratedBeforeUse' /\ version = 4
        BY <1>4 DEF OpenRecover, MigratedBeforeUse, StoreTypeOK
    <2>2. \A ch \in Challenges :
            \/ SameRow(ch)
            \/ (Unsent(ch) /\ EditedTo(ch, "failed", reservations[ch].submitted))
        BY <1>4, Edits DEF OpenRecover, Stale, SameRow, Unsent, HasStatus
    <2>3. RowsAdvance /\ \A ch \in Challenges : HasRow(ch)' => HasRow(ch)
        BY <2>1, <2>2 DEF RowsAdvance, SameRow, EditedTo, Unsent, HasStatus, HasRow
    <2>4. receipts' = receipts
        BY <1>4 DEF OpenRecover
    <2>5. ReceiptIffSettled'
        BY <2>2, <2>4 DEF ReceiptIffSettled, SameRow, EditedTo, Unsent, HasStatus, HasRow
    <2> QED  BY <2>1, <2>3, <2>5, KeysKept
<1>5. ASSUME NEW p \in Procs, NEW ch \in Challenges, Release(p, ch) PROVE Goal
    <2>1. MigratedBeforeUse' /\ version = 4
        BY <1>5 DEF Release, IsOpen, MigratedBeforeUse, StoreTypeOK
    <2>2. \A c \in Challenges :
            \/ SameRow(c)
            \/ (Unsent(c) /\ EditedTo(c, "failed", reservations[c].submitted))
        BY <1>5, Edits DEF Release, SameRow, Unsent, HasStatus, StoreTypeOK
    <2>3. RowsAdvance /\ \A c \in Challenges : HasRow(c)' => HasRow(c)
        BY <2>1, <2>2 DEF RowsAdvance, SameRow, EditedTo, Unsent, HasStatus, HasRow
    <2>4. receipts' = receipts
        BY <1>5 DEF Release
    <2>5. ReceiptIffSettled'
        BY <2>2, <2>4 DEF ReceiptIffSettled, SameRow, EditedTo, Unsent, HasStatus, HasRow
    <2> QED  BY <2>1, <2>3, <2>5, KeysKept
<1>6. ASSUME NEW p \in Procs, NEW ch \in Challenges, MarkSubmitted(p, ch) PROVE Goal
    <2>1. MigratedBeforeUse'
        BY <1>6 DEF MarkSubmitted, MigratedBeforeUse
    <2>2. \A c \in Challenges :
            \/ SameRow(c)
            \/ (Unsent(c) /\ EditedTo(c, "pending", TRUE))
        BY <1>6, Edits DEF MarkSubmitted, SameRow, Unsent, HasStatus, StoreTypeOK
    <2>3. RowsAdvance /\ \A c \in Challenges : HasRow(c)' => HasRow(c)
        BY <2>2 DEF RowsAdvance, SameRow, EditedTo, Unsent, HasStatus, HasRow
    <2>4. receipts' = receipts
        BY <1>6 DEF MarkSubmitted
    <2>5. ReceiptIffSettled'
        BY <2>2, <2>4 DEF ReceiptIffSettled, SameRow, EditedTo, Unsent, HasStatus, HasRow
    <2> QED  BY <2>1, <2>3, <2>5, KeysKept
<1>7. ASSUME NEW p \in Procs, NEW ch \in Challenges, Commit(p, ch) PROVE Goal
    <2>1. MigratedBeforeUse'
        BY <1>7 DEF Commit, MigratedBeforeUse
    <2>2. \A c \in Challenges :
            IF c = ch
            THEN HasStatus(c, "pending") /\ EditedTo(c, "settled", reservations[c].submitted)
            ELSE SameRow(c)
        BY <1>7, Edits DEF Commit, SameRow, HasStatus, StoreTypeOK
    <2>3. RowsAdvance /\ \A c \in Challenges : HasRow(c)' => HasRow(c)
        BY <1>7, <2>2 DEF Commit, RowsAdvance, SameRow, EditedTo, HasStatus, HasRow
    <2>4. receipts' = receipts \cup {ch}
        BY <1>7 DEF Commit
    <2>5. ReceiptIffSettled'
        BY <2>2, <2>4 DEF ReceiptIffSettled, SameRow, EditedTo, HasStatus, HasRow
    <2> QED  BY <2>1, <2>3, <2>5, KeysKept
<1>8. ASSUME NEW p \in Procs, NEW ch \in Challenges, NEW k \in Keys, NEW pol \in Policies,
             ReserveNew(p, ch, k, pol)
      PROVE  Goal
    <2>1. MigratedBeforeUse'
        BY <1>8 DEF ReserveNew, MigratedBeforeUse
    <2>2. /\ reservations' = [reservations EXCEPT ![ch] = NewRow(k)]
          /\ ~HasRow(ch) /\ KeyRow(k) = {} /\ receipts' = receipts /\ ch \notin receipts
        BY <1>8 DEF ReserveNew
    <2>3. NewRow(k).key = k /\ NewRow(k).status = "pending"
        BY DEF NewRow
    <2>4. \A c \in Challenges : reservations'[c] = IF c = ch THEN NewRow(k) ELSE reservations[c]
        BY <2>2 DEF StoreTypeOK
    <2>5. RowsAdvance
        BY <2>2, <2>4 DEF RowsAdvance, HasRow
    <2>6. OneRowPerKey'
        BY <2>2, <2>3, <2>4 DEF OneRowPerKey, KeyRow, HasRow
    <2>7. ReceiptIffSettled'
        BY <2>2, <2>3, <2>4 DEF ReceiptIffSettled, HasStatus, HasRow
    <2> QED  BY <2>1, <2>5, <2>6, <2>7
<1>9. CASE Tick
    BY <1>2, <1>9 DEF Tick, MigratedBeforeUse
<1>10. ASSUME NEW p \in Procs, Close(p) PROVE Goal
    BY <1>2, <1>10 DEF Close, MigratedBeforeUse, StoreTypeOK
<1>11. ASSUME NEW p \in Procs, NEW pol \in Policies, SetPolicy(p, pol) PROVE Goal
    BY <1>2, <1>11 DEF SetPolicy, MigratedBeforeUse
<1>12. CASE UNCHANGED storeVars
    BY <1>2, <1>12 DEF storeVars, MigratedBeforeUse
<1> QED
    BY <1>3, <1>4, <1>5, <1>6, <1>7, <1>8, <1>9, <1>10, <1>11, <1>12
       DEF StoreNext, ReserveAgain, ReserveRefused

\* Under any calls by any processes, an idempotency key holds at most one
\* reservation and receipts are exactly the settled reservations.
THEOREM LedgerCorrect == StoreSpec => [](OneRowPerKey /\ ReceiptIffSettled)
<1>1. LedgerInv /\ [StoreNext]_storeVars => LedgerInv'
    BY LedgerStep
<1>2. LedgerInv => OneRowPerKey /\ ReceiptIffSettled
    BY DEF LedgerInv
<1> QED
    BY LedgerInit, <1>1, <1>2, PTL DEF StoreSpec

\* No call, crash or recovery takes a row backward: a submitted reservation is
\* never failed, and settled and failed rows are final.
THEOREM RowsNeverReturn == StoreSpec => RowsOnlyAdvance
<1>1. LedgerInv /\ [StoreNext]_storeVars => LedgerInv'
    BY LedgerStep
<1>2. LedgerInv /\ [StoreNext]_storeVars => [RowsAdvance]_storeVars
    BY LedgerStep
<1>3. StoreSpec => [][RowsAdvance]_storeVars
    BY LedgerInit, <1>1, <1>2, PTL DEF StoreSpec
<1> QED
    BY <1>3, PTL DEF RowsOnlyAdvance, RowsAdvance

(***************************************************************************)
(* The daily cap.                                                          *)
(***************************************************************************)
\* A part of a set of challenges costs at most what the whole costs.
LEMMA TotalMonotone ==
    ASSUME NEW S \in SUBSET Challenges, NEW T \in SUBSET S
    PROVE  Total[T] <= Total[S]
<1> DEFINE Bad == {B \in SUBSET S : T \subseteq B /\ Total[T] > Total[B]}
           Sizes == {Cardinality(B) : B \in Bad}
<1>1. IsFiniteSet(S) /\ Bad \subseteq SUBSET S
    BY StoreAssumption, FS_Subset
<1>2. \A B \in SUBSET S : IsFiniteSet(B) /\ Cardinality(B) \in Nat
    BY <1>1, FS_Subset, FS_CardinalityType
<1>3. SUFFICES ASSUME S \in Bad PROVE FALSE
    BY TotalAssumption
<1>4. PICK B \in Bad : \A C \in Bad : Cardinality(B) <= Cardinality(C)
    <2>1. Sizes \in SUBSET Nat /\ Sizes # {}
        BY <1>2, <1>3
    <2>2. \E m \in Sizes : \A n \in Sizes : m <= n
        <3> HIDE DEF Sizes
        <3> QED  BY <2>1, LeastNatural
    <2> QED  BY <2>2
<1>5. PICK x \in B : x \notin T
    <2>1. B # T /\ T \subseteq B
        BY <1>4, TotalAssumption
    <2> QED  BY <2>1
<1>6. Total[B] = Total[B \ {x}] + Amount[x]
    <2>1. B = (B \ {x}) \cup {x} /\ B \ {x} \in SUBSET Challenges /\ x \in Challenges \ (B \ {x})
        OBVIOUS
    <2> QED  BY <2>1, TotalAssumption
<1>7. B \ {x} \in Bad
    BY <1>4, <1>5, <1>6, TotalAssumption, ChallengeAssumption
<1>8. Cardinality(B \ {x}) = Cardinality(B) - 1
    BY <1>2, FS_RemoveElement
<1> QED
    BY <1>2, <1>4, <1>7, <1>8
\* Only reserve of a new row adds a row or grants a cap.
LEMMA NoNewRows ==
    ASSUME StoreTypeOK, [StoreNext]_storeVars,
           ~ \E p \in Procs, ch \in Challenges, k \in Keys, pol \in Policies :
                ReserveNew(p, ch, k, pol)
    PROVE  granted' = granted /\ \A ch \in Challenges : HasRow(ch)' => HasRow(ch)
<1> USE DEF StoreTypeOK
<1>1. ASSUME NEW p \in Procs, OpenMigrate(p)
      PROVE  granted' = granted /\ \A ch \in Challenges : HasRow(ch)' => HasRow(ch)
    BY <1>1 DEF OpenMigrate, Unsent, HasStatus, HasRow
<1>2. ASSUME NEW p \in Procs, OpenRecover(p)
      PROVE  granted' = granted /\ \A ch \in Challenges : HasRow(ch)' => HasRow(ch)
    <2>1. granted' = granted
        BY <1>2 DEF OpenRecover
    <2>2. \A ch \in Challenges : reservations'[ch] = reservations[ch] \/ HasRow(ch)
        BY <1>2 DEF OpenRecover, Stale, Unsent, HasStatus
    <2> QED  BY <2>1, <2>2 DEF HasRow
<1>3. ASSUME NEW p \in Procs, NEW ch \in Challenges,
             MarkSubmitted(p, ch) \/ Commit(p, ch) \/ Release(p, ch)
      PROVE  granted' = granted /\ \A c \in Challenges : HasRow(c)' => HasRow(c)
    BY <1>3 DEF MarkSubmitted, Commit, Release, Unsent, HasStatus, HasRow
<1>4. ASSUME UNCHANGED <<reservations, granted>>
      PROVE  granted' = granted /\ \A ch \in Challenges : HasRow(ch)' => HasRow(ch)
    BY <1>4 DEF HasRow
<1> QED
    BY <1>1, <1>2, <1>3, <1>4
       DEF StoreNext, Tick, Close, SetPolicy, ReserveAgain, ReserveRefused, storeVars

\* The cap is kept by whatever an operation does.
LEMMA CapStep ==
    ASSUME LedgerInv, DailyCapHolds, [StoreNext]_storeVars
    PROVE  DailyCapHolds'
<1> USE DEF LedgerInv
<1>1. StoreTypeOK' /\ RowsAdvance
    BY LedgerStep
<1>2. \A d \in Days : /\ Counted(reservations, d) \in SUBSET Challenges
                      /\ Counted(reservations', d) \in SUBSET Challenges
    BY DEF Counted
<1>3. \A S \in SUBSET Challenges : Total[S] \in Nat
    BY TotalAssumption
<1>4. \A d \in Days : granted[d] \in Nat /\ granted'[d] \in Nat
    BY <1>1 DEF StoreTypeOK
<1>5. CASE ~ \E p \in Procs, ch \in Challenges, k \in Keys, pol \in Policies :
                ReserveNew(p, ch, k, pol)
    <2>1. granted' = granted /\ \A ch \in Challenges : HasRow(ch)' => HasRow(ch)
        BY <1>5, NoNewRows
    <2>2. ASSUME NEW d \in Days
          PROVE  Counted(reservations', d) \subseteq Counted(reservations, d)
        BY <1>1, <2>1 DEF Counted, RowsAdvance, HasRow
    <2>3. ASSUME NEW d \in Days
          PROVE  Total[Counted(reservations', d)] <= Total[Counted(reservations, d)]
        BY <1>2, <2>2, TotalMonotone
    <2> QED  BY <1>2, <1>3, <1>4, <2>1, <2>3 DEF DailyCapHolds
<1>6. ASSUME NEW p \in Procs, NEW ch \in Challenges, NEW k \in Keys, NEW pol \in Policies,
             ReserveNew(p, ch, k, pol)
      PROVE  DailyCapHolds'
    <2> DEFINE today == Day(now)
               before == Counted(reservations, today)
    <2>1. /\ today \in Days
          /\ pol.dailyCap \in Nat
          /\ Amount[ch] \in Nat
        BY StoreAssumption, ChallengeAssumption DEF StoreTypeOK, Days, Policy
    <2>2. \A c \in Challenges : reservations'[c] = IF c = ch THEN NewRow(k) ELSE reservations[c]
        BY <1>6 DEF ReserveNew, StoreTypeOK
    <2>3. /\ reservations[ch] = NoRow
          /\ NewRow(k) # NoRow /\ NewRow(k).status = "pending" /\ Day(NewRow(k).createdAt) = today
        <3>1. NewRow(k) \in Row
            BY DEF NewRow, Row, StoreTypeOK
        <3> QED  BY <1>6, <3>1, StoreAssumption DEF ReserveNew, HasRow, NewRow
    <2>4. ch \notin before /\ Counted(reservations', today) = before \cup {ch}
        <3> HIDE DEF today
        <3>1. \A c \in Challenges : c \in Counted(reservations', today) <=> c \in before \/ c = ch
            BY <2>2, <2>3 DEF Counted
        <3> QED  BY <2>3, <3>1 DEF Counted
    <2>5. Total[before \cup {ch}] = Total[before] + Amount[ch]
        BY <1>2, <2>1, <2>4, TotalAssumption
    <2>6. Total[before] <= granted[today]
        BY <2>1 DEF DailyCapHolds
    <2>7. Amount[ch] <= IF Total[before] >= pol.dailyCap THEN 0 ELSE pol.dailyCap - Total[before]
        BY <1>6 DEF ReserveNew, Available
    <2>8. granted'[today] = IF granted[today] < pol.dailyCap THEN pol.dailyCap ELSE granted[today]
        BY <1>6, <2>1 DEF ReserveNew, StoreTypeOK
    <2>9. Total[Counted(reservations', today)] <= granted'[today]
        <3> HIDE DEF before, today
        <3>1. Total[before] \in Nat /\ granted[today] \in Nat
            BY <1>2, <1>3, <1>4, <2>1 DEF before
        <3> QED  BY <2>1, <2>4, <2>5, <2>6, <2>7, <2>8, <3>1
    <2>10. ASSUME NEW d \in Days, d # today
           PROVE  Counted(reservations', d) = Counted(reservations, d) /\ granted'[d] = granted[d]
        <3>1. Counted(reservations', d) = Counted(reservations, d)
            BY <2>2, <2>3, <2>10 DEF Counted
        <3>2. granted'[d] = granted[d]
            BY <1>6, <2>10 DEF ReserveNew, StoreTypeOK
        <3> QED  BY <3>1, <3>2
    <2>11. ASSUME NEW d \in Days PROVE Total[Counted(reservations', d)] <= granted'[d]
        <3>1. CASE d = today
            BY <2>9, <3>1
        <3>2. CASE d # today
            <4> HIDE DEF today
            <4> QED  BY <2>10, <3>2 DEF DailyCapHolds
        <3> QED  BY <3>1, <3>2
    <2> QED  BY <2>11 DEF DailyCapHolds
<1> QED
    BY <1>5, <1>6

\* A database starts within the cap.
LEMMA CapInit == StoreInit => DailyCapHolds
<1> SUFFICES ASSUME StoreInit, NEW d \in Days
             PROVE  Total[Counted(reservations, d)] <= granted[d]
    BY DEF DailyCapHolds
<1>1. CASE reservations = [ch \in Challenges |-> NoRow] /\ granted = [e \in Days |-> 0]
    <2>1. Counted(reservations, d) = {}
        BY <1>1 DEF Counted
    <2>2. granted[d] = 0
        BY <1>1
    <2> QED  BY <2>1, <2>2, TotalAssumption
<1>2. ASSUME NEW ch \in Challenges, NEW k \in Keys,
             reservations = [c \in Challenges |-> IF c = ch THEN NewRow(k) ELSE NoRow],
             granted = [e \in Days |-> IF e = Day(0) THEN Amount[ch] ELSE 0]
      PROVE  Total[Counted(reservations, d)] <= granted[d]
    <2>1. now = 0 /\ NewRow(k).createdAt = 0
        BY DEF StoreInit, NewRow
    <2>2. Counted(reservations, d) = {} \/ (d = Day(0) /\ Counted(reservations, d) = {ch})
        BY <1>2, <2>1 DEF Counted
    <2>3. Total[{ch}] = Amount[ch]
        <3>1. {} \in SUBSET Challenges /\ ch \in Challenges \ {} /\ {} \cup {ch} = {ch}
            OBVIOUS
        <3>2. Total[{} \cup {ch}] = Total[{}] + Amount[ch]
            BY <3>1, TotalAssumption
        <3> QED  BY <3>1, <3>2, TotalAssumption, ChallengeAssumption
    <2>4. granted[d] = IF d = Day(0) THEN Amount[ch] ELSE 0
        BY <1>2
    <2>5. Total[{}] = 0 /\ Amount[ch] \in Nat
        BY TotalAssumption, ChallengeAssumption
    <2> QED  BY <2>2, <2>3, <2>4, <2>5
<1> QED
    BY <1>1, <1>2 DEF StoreInit

\* For every set of challenges, amounts and policies and any calls by any
\* processes, the pending and settled rows of a day stay within the highest
\* cap a reservation of that day was granted under.
THEOREM DailyCapCorrect == StoreSpec => []DailyCapHolds
<1>1. LedgerInv /\ DailyCapHolds /\ [StoreNext]_storeVars => (LedgerInv /\ DailyCapHolds)'
    BY LedgerStep, CapStep
<1> QED
    BY LedgerInit, CapInit, <1>1, PTL DEF StoreSpec
===============================================================================
