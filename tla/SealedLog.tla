------------------------------ MODULE SealedLog ------------------------------
(***************************************************************************)
(* Append-only sealed logs                                                 *)
(* (src/packages/sidecar-runtime/src/sealed-log.ts).  A file is a sequence *)
(* of cells: the header, then for each record a length and as many body    *)
(* cells as the record is long.  A body opens only whole, at its own index *)
(* and under its own key.                                                  *)
(*                                                                         *)
(* `file' is what readers see, `disk' what a power loss cannot take.  A    *)
(* writer is one thread and its calls are synchronous: only a failing call *)
(* or a crash shows the inside of one.                                     *)
(***************************************************************************)
EXTENDS Naturals, Sequences, SequencesExt, FiniteSetsExt

CONSTANTS
    Records,        \* what callers append
    Size,           \* the number of body cells of each record
    MaxRecords,     \* bound: records in one log
    StoreKeys,      \* keys derived for the log's store
    Rings,          \* [current, retired]: the keys a cipher can hold
    NoFile,         \* the file does not exist
    Closed,         \* no writer
    Creating,       \* a writer between the file and its header
    WriteFailures,  \* may a write fail halfway (a full disk)?
    ZeroFill        \* may a power loss leave zeros where data was unsynced?

VARIABLES
    file,           \* the cells of the log file, or NoFile
    disk,           \* its durable cells, or NoFile
    writer,         \* #key, #position and #nextIndex of the open writer
    ring,           \* the keys of the process's cipher
    log,            \* history: the records whose append returned and was not undone
    promised        \* history: the records a sync or close answered for

logVars == <<file, disk, writer, ring, log, promised>>

Header == [kind |-> "header"]
Zero == [kind |-> "zero"]
Body(r, j, k, i) == [kind |-> "body", record |-> r, index |-> j, key |-> k, part |-> i]
Frame(r, j, k) ==
    <<[kind |-> "length", n |-> Size[r]]>> \o [i \in 1..Size[r] |-> Body(r, j, k, i)]

\* The cells a file can hold, and the writers.
Cells ==
    {Header, Zero} \cup [kind : {"length"}, n : Nat]
    \cup [kind : {"body"}, record : Records, index : Nat, key : StoreKeys, part : Nat]
Writers == [key : StoreKeys, position : Nat, next : Nat]

ASSUME LogAssumption ==
    /\ Size \in [Records -> Nat \ {0}]
    /\ MaxRecords \in Nat
    /\ Rings \subseteq [current : StoreKeys, retired : SUBSET StoreKeys]
    /\ WriteFailures \in BOOLEAN /\ ZeroFill \in BOOLEAN
    /\ NoFile \notin Seq(Cells)
    /\ Closed # Creating /\ {Closed, Creating} \cap Writers = {}

LogInit ==
    /\ file = NoFile /\ disk = NoFile
    /\ writer = Closed
    /\ ring \in Rings
    /\ log = <<>> /\ promised = <<>>

(***************************************************************************)
(* scanWith: the committed records under key k, and how the file ends.  A  *)
(* body cell read as a length is out of range, as nearly every ciphertext  *)
(* is.                                                                     *)
(***************************************************************************)
\* The record that cells behind the first p are, as the j-th, if they are one.
Opening(cells, k, p, j) ==
    {r \in Records : /\ p + 1 + Size[r] <= Len(cells)
                     /\ SubSeq(cells, p + 1, p + 1 + Size[r]) = Frame(r, j, k)}

\* What stops the loop behind the first p cells.
TailAt(cells, p) ==
    LET end == p + 1 + cells[p + 1].n
    IN  IF p = Len(cells) THEN "clean"
        ELSE IF cells[p + 1].kind # "length"
        THEN IF \A i \in p + 1 .. Len(cells) : cells[i] = Zero THEN "short" ELSE "error"
        ELSE IF end > Len(cells) THEN "short"
        ELSE IF end = Len(cells) THEN "final_failed" ELSE "error"

\* Where the loop stands after each number of rounds; it stays where it stops.  A
\* log holds MaxRecords at most, and so many rounds reach the end of them.
Positions(cells, k) ==
    LET behind == [j \in 0 .. MaxRecords |-> [p \in 1 .. Len(cells) |->
                    IF Opening(cells, k, p, j) = {} THEN p ELSE p + 1 + cells[p + 1].n]]
        ends[j \in 0 .. MaxRecords] == IF j = 0 THEN 1 ELSE behind[j - 1][ends[j - 1]]
    IN  ends

Scan(cells, k) ==
    LET ends == Positions(cells, k)
        count == Max({j \in 0 .. MaxRecords : j = 0 \/ ends[j] # ends[j - 1]})
    IN  [tail |-> TailAt(cells, ends[count]),
         end |-> ends[count],
         records |-> [j \in 1 .. count |->
                        CHOOSE r \in Opening(cells, k, ends[j - 1], j - 1) : TRUE]]

HasHeader(cells) == cells # NoFile /\ cells # <<>>

\* openLog keeps a candidate key; a lone failing first record means a wrong key.
Accepts(cells, k) ==
    /\ HasHeader(cells)
    /\ LET s == Scan(cells, k)
       IN  s.tail # "error" /\ ~(s.tail = "final_failed" /\ s.records = <<>>)

\* The candidates are the current key, then the retired ones.
Candidates(cells) ==
    IF Accepts(cells, ring.current) THEN {ring.current}
    ELSE {k \in ring.retired : Accepts(cells, k)}

(***************************************************************************)
(* SealedLogWriter.create: the file exists before its header does.         *)
(***************************************************************************)
IsOpen == writer \notin {Closed, Creating}
Writer(k, end, count) == [key |-> k, position |-> end, next |-> count]

CreateFile ==
    /\ writer = Closed /\ file = NoFile
    /\ file' = <<>>
    /\ writer' = Creating
    /\ UNCHANGED <<disk, ring, log, promised>>

WriteHeader ==
    /\ writer = Creating
    /\ file' = <<Header>> /\ disk' = <<Header>>
    /\ writer' = Writer(ring.current, 1, 0)
    /\ UNCHANGED <<ring, log, promised>>

CreateFails ==
    /\ writer = Creating
    /\ file' = NoFile
    /\ writer' = Closed
    /\ UNCHANGED <<disk, ring, log, promised>>

(***************************************************************************)
(* openAppend of an existing log: the torn tail is cut off.  A log that    *)
(* does not open, or opens under a retired key, is refused untouched.      *)
(***************************************************************************)
\* Mutant: the torn tail stays in the file.
OpenKeepingTail ==
    /\ writer = Closed
    /\ ring.current \in Candidates(file)
    /\ LET s == Scan(file, ring.current)
       IN  /\ writer' = Writer(ring.current, s.end, Len(s.records))
           /\ log' = s.records
    /\ UNCHANGED <<file, disk, ring, promised>>

OpenAppend ==
    /\ writer = Closed
    /\ ring.current \in Candidates(file)
    /\ LET s == Scan(file, ring.current)
       IN  /\ file' = SubSeq(file, 1, s.end)
           /\ disk' = IF s.tail = "clean" THEN disk ELSE file'
           /\ writer' = Writer(ring.current, s.end, Len(s.records))
           /\ log' = s.records
    /\ UNCHANGED <<ring, promised>>

(***************************************************************************)
(* append writes one frame at the position; whatever lies behind it stays. *)
(***************************************************************************)
Overwritten(cells) ==
    LET end == writer.position + Len(cells)
    IN  SubSeq(file, 1, writer.position) \o cells \o SubSeq(file, end + 1, Len(file))

AppendRecord(r) ==
    LET frame == Frame(r, writer.next, writer.key)
    IN  /\ IsOpen /\ writer.next < MaxRecords
        /\ file' = Overwritten(frame)
        /\ writer' = Writer(writer.key, writer.position + Len(frame), writer.next + 1)
        /\ log' = Append(log, r)
        /\ UNCHANGED <<disk, ring, promised>>

\* A write fails after n cells and append raises, or the process dies there.
AppendTears(r, n) ==
    LET frame == Frame(r, writer.next, writer.key)
    IN  /\ IsOpen /\ writer.next < MaxRecords
        /\ file' = Overwritten(SubSeq(frame, 1, n))
        /\ (writer' = Closed \/ (WriteFailures /\ UNCHANGED writer))
        /\ UNCHANGED <<disk, ring, log, promised>>

(***************************************************************************)
(* sync and close; either may leave the writer closed without a sync.      *)
(***************************************************************************)
\* Mutant: close does not fsync.
SyncNothing ==
    /\ IsOpen
    /\ promised' = log
    /\ writer' \in {writer, Closed}
    /\ UNCHANGED <<file, disk, ring, log>>

Sync ==
    /\ IsOpen
    /\ disk' = file
    /\ promised' = log
    /\ writer' \in {writer, Closed}
    /\ UNCHANGED <<file, ring, log>>

\* close raises, or the process ends.
StopWriter ==
    /\ writer # Closed
    /\ writer' = Closed
    /\ UNCHANGED <<file, disk, ring, log, promised>>

(***************************************************************************)
(* A power loss keeps some of what was not synced, in the order it was     *)
(* written, then what the disk had there, or zeros.                        *)
(***************************************************************************)
Surviving ==
    IF file = NoFile THEN {NoFile}
    ELSE IF disk = NoFile THEN {NoFile, <<>>}
    ELSE LET Kept(n) == SubSeq(file, 1, n)
         IN  {Kept(n) \o SubSeq(disk, n + 1, Len(disk)) : n \in 0 .. Len(file)}
             \cup (IF ZeroFill
                  THEN {Kept(n) \o [i \in 1 .. Len(file) - n |-> Zero] :
                           n \in Len(disk) .. Len(file)}
                  ELSE {})

LogPowerLoss ==
    /\ writer' = Closed
    /\ file' \in Surviving
    /\ disk' = file'
    /\ UNCHANGED <<ring, log, promised>>

\* The next process is given other keys.
ChangeKeys ==
    /\ writer = Closed
    /\ ring' \in Rings
    /\ UNCHANGED <<file, disk, writer, log, promised>>

LogNext ==
    \/ CreateFile \/ WriteHeader \/ CreateFails
    \/ OpenAppend
    \/ \E r \in Records :
          \/ AppendRecord(r)
          \/ \E n \in 0 .. Size[r] : AppendTears(r, n)
    \/ Sync \/ StopWriter \/ LogPowerLoss \/ ChangeKeys

LogSpec == LogInit /\ [][LogNext]_logVars

(***************************************************************************)
(* Properties.                                                             *)
(***************************************************************************)
\* The key the log's records are under, if it has any.
LogKey == IF Len(file) > 2 /\ file[3].kind = "body" THEN file[3].key ELSE ring.current
Recovered == IF HasHeader(file) THEN Scan(file, LogKey) ELSE [tail |-> "error", records |-> <<>>]

\* What sync or close answered for can be read back by openRecovering, under
\* the log's key, in order (sealed-log.ts:249-261, 438-457).
SyncedSurvive ==
    promised # <<>> =>
        Accepts(file, LogKey) /\ IsPrefix(promised, Recovered.records)

\* What an open writer has appended reads back complete: no tail, no record
\* missing, and the next one goes behind the last (sealed-log.ts:401-436).
WriterInStep ==
    IsOpen =>
        LET s == Scan(file, writer.key)
        IN  s = [tail |-> "clean", end |-> writer.position, records |-> log]

\* A log whose creation ended opens again under its key, whatever tore its tail
\* (sealed-log.ts:13-16: "a torn tail (a short length/body, or a final record
\* that does not open) never formed a committed record and is truncated").
LogOpens == HasHeader(file) => Accepts(file, LogKey)

\* The file is an append-only log: a crash only takes the latest records that
\* no sync answered for (sealed-log.ts:13-19).
Promise == INSTANCE RecordLog WITH log <- Recovered.records, durable <- Len(promised)
ImplementsRecordLog == Promise!Spec

\* What was synced survives, writers are in step with their file, and the log opens
\* (sealed-log.ts:13-19, 249-261, 401-436).
LogKept == SyncedSurvive /\ WriterInStep /\ LogOpens
=============================================================================
