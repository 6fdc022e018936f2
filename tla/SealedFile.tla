------------------------------ MODULE SealedFile ------------------------------
(***************************************************************************)
(* Sealing a file in place (src/packages/sidecar-runtime/src/              *)
(* sealed-file.ts, sealFileInPlace and SealedFileWriter): the plaintext is *)
(* copied into <name>.sealing, which is synced, read back and renamed over *)
(* the original.  Each step below is one system call; a process may fail   *)
(* or die at any of them, the machine may lose power, and another process  *)
(* may work on the same names.                                             *)
(*                                                                         *)
(* A file's content is how many units of the application's data it holds,  *)
(* how many times they are sealed, and whether the final chunk is there.   *)
(***************************************************************************)
EXTENDS Naturals, FiniteSets

CONSTANTS
    Sealers,        \* processes sealing the file
    Idle,           \* a sealer not at work
    NoEntry,        \* no directory entry
    InitialUnits,   \* what the application had written before
    MaxAppends,     \* bound: what it appends while the file is sealed
    MaxFiles        \* bound: files ever created

VARIABLES
    dir,            \* the directory: the file behind each name
    dirs,           \* the directories a power loss may leave
    cache,          \* content of each file, as read
    safe,           \* content of each file that a power loss cannot take
    sealer,         \* local state of each sealer
    written,        \* history: units the application has written
    answered        \* history: sealFileInPlace answered "sealed"

fileVars == <<dir, dirs, cache, safe, sealer, written, answered>>

\* A sealer at work: the call it makes next, the files it has open, and how many
\* units it has copied.
SealerAt ==
    [pc : {"clear", "create", "open", "copy", "fsync", "verify", "rename", "syncdir"},
     source : Nat \cup {NoEntry}, sink : Nat \cup {NoEntry}, position : Nat]

ASSUME FileAssumption ==
    /\ InitialUnits \in Nat /\ MaxAppends \in Nat /\ MaxFiles \in Nat \ {0}
    /\ NoEntry \notin Nat /\ Idle \notin SealerAt

Content == [layers : Nat, units : Nat, whole : BOOLEAN]
Original(n) == [layers |-> 0, units |-> n, whole |-> TRUE]
Copy(layers, n, whole) == [layers |-> layers, units |-> n, whole |-> whole]
Torn == Copy(1, 0, FALSE)

Path == "path"
Temp == "path.sealing"
IsSealed(f) == cache[f].layers > 0

FileInit ==
    /\ dir = [n \in {Path, Temp} |-> IF n = Path THEN 0 ELSE NoEntry]
    /\ dirs = {dir}
    /\ cache = [f \in {0} |-> Original(InitialUnits)]
    /\ safe = cache
    /\ sealer = [s \in Sealers |-> Idle]
    /\ written = InitialUnits
    /\ answered = FALSE

Working(s) == sealer[s] # Idle
Reached(s, label) == Working(s) /\ sealer[s].pc = label
Proceed(s, label) == sealer' = [sealer EXCEPT ![s].pc = label]
Leave(s) == sealer' = [sealer EXCEPT ![s] = Idle]

Link(name, f) ==
    /\ dir' = [dir EXCEPT ![name] = f]
    /\ dirs' = dirs \cup {dir'}

(***************************************************************************)
(* sealFileInPlace, up to the copy.                                        *)
(***************************************************************************)
\* isSealedFile and ensureFreeSpace; otherwise nothing happens.
Check(s) ==
    /\ ~Working(s)
    /\ ~IsSealed(dir[Path])
    /\ sealer' = [sealer EXCEPT ![s] = [pc |-> "clear", source |-> NoEntry, sink |-> NoEntry,
                                        position |-> 0]]
    /\ UNCHANGED <<dir, dirs, cache, safe, written, answered>>

RemoveStale(s) ==
    /\ Reached(s, "clear")
    /\ Link(Temp, NoEntry)
    /\ Proceed(s, "create")
    /\ UNCHANGED <<cache, safe, written, answered>>

\* Opened exclusively: it fails if another process has just made it.
CreateTemp(s) ==
    LET f == Cardinality(DOMAIN cache)
        grown(content) == [g \in DOMAIN content \cup {f} |-> IF g = f THEN Torn ELSE content[g]]
    IN  /\ Reached(s, "create")
        /\ dir[Temp] = NoEntry /\ f <= MaxFiles
        /\ Link(Temp, f)
        /\ cache' = grown(cache) /\ safe' = grown(safe)
        /\ sealer' = [sealer EXCEPT ![s].sink = f, ![s].pc = "open"]
        /\ UNCHANGED <<written, answered>>

TempTaken(s) ==
    /\ Reached(s, "create")
    /\ dir[Temp] # NoEntry
    /\ Leave(s)
    /\ UNCHANGED <<dir, dirs, cache, safe, written, answered>>

OpenOriginal(s) ==
    /\ Reached(s, "open")
    /\ sealer' = [sealer EXCEPT ![s].source = dir[Path], ![s].pc = "copy"]
    /\ UNCHANGED <<dir, dirs, cache, safe, written, answered>>

(***************************************************************************)
(* The copy loop, and SealedFileWriter.finish.                             *)
(***************************************************************************)
SealedSoFar(s, whole) ==
    LET w == sealer[s] IN Copy(cache[w.source].layers + 1, w.position, whole)

CopyUnit(s) ==
    /\ Reached(s, "copy")
    /\ sealer[s].position < cache[sealer[s].source].units
    /\ sealer' = [sealer EXCEPT ![s].position = @ + 1]
    /\ UNCHANGED <<dir, dirs, cache, safe, written, answered>>

WriteFinalChunk(s) ==
    /\ Reached(s, "copy")
    /\ sealer[s].position = cache[sealer[s].source].units
    /\ cache' = [cache EXCEPT ![sealer[s].sink] = SealedSoFar(s, TRUE)]
    /\ Proceed(s, "fsync")
    /\ UNCHANGED <<dir, dirs, safe, written, answered>>

\* Mutant: the copy is not synced before it replaces the original.
NoFsync(s) ==
    /\ Reached(s, "fsync")
    /\ Proceed(s, "verify")
    /\ UNCHANGED <<dir, dirs, cache, safe, written, answered>>

Fsync(s) ==
    /\ Reached(s, "fsync")
    /\ safe' = [safe EXCEPT ![sealer[s].sink] = cache[sealer[s].sink]]
    /\ Proceed(s, "verify")
    /\ UNCHANGED <<dir, dirs, cache, written, answered>>

\* digestPath reads whatever file has the temporary name now.
Verify(s) ==
    /\ Reached(s, "verify")
    /\ dir[Temp] # NoEntry
    /\ cache[dir[Temp]] = SealedSoFar(s, TRUE)
    /\ Proceed(s, "rename")
    /\ UNCHANGED <<dir, dirs, cache, safe, written, answered>>

Rename(s) ==
    /\ Reached(s, "rename")
    /\ dir[Temp] # NoEntry
    /\ dir' = [n \in {Path, Temp} |-> IF n = Path THEN dir[Temp] ELSE NoEntry]
    /\ dirs' = dirs \cup {dir'}
    /\ Proceed(s, "syncdir")
    /\ UNCHANGED <<cache, safe, written, answered>>

\* Mutant: the directory is not synced after the rename.
ReturnUnsynced(s) ==
    /\ Reached(s, "syncdir")
    /\ answered' = TRUE
    /\ Leave(s)
    /\ UNCHANGED <<dir, dirs, cache, safe, written>>

SyncDir(s) ==
    /\ Reached(s, "syncdir")
    /\ dirs' = {dir}
    /\ answered' = TRUE
    /\ Leave(s)
    /\ UNCHANGED <<dir, cache, safe, written>>

\* A call failed, or the copy does not verify: abort removes the temporary name.
Abort(s) ==
    /\ Working(s) /\ sealer[s].pc \notin {"clear", "create", "syncdir"}
    /\ Link(Temp, NoEntry)
    /\ Leave(s)
    /\ UNCHANGED <<cache, safe, written, answered>>

(***************************************************************************)
(* The world around it.                                                    *)
(***************************************************************************)
Die(s) ==
    /\ Working(s)
    /\ Leave(s)
    /\ UNCHANGED <<dir, dirs, cache, safe, written, answered>>

\* The application appends to its file, and syncs it.
AppAppends ==
    /\ written < InitialUnits + MaxAppends
    /\ ~IsSealed(dir[Path])
    /\ cache' = [cache EXCEPT ![dir[Path]] = Original(@.units + 1)]
    /\ safe' = [safe EXCEPT ![dir[Path]] = cache'[dir[Path]]]
    /\ written' = written + 1
    /\ UNCHANGED <<dir, dirs, sealer, answered>>

PowerLoss ==
    /\ dir' \in dirs
    /\ dirs' = {dir'}
    /\ \E lost \in SUBSET {f \in DOMAIN cache : safe[f] # cache[f]} :
          cache' = [f \in DOMAIN cache |-> IF f \in lost THEN safe[f] ELSE cache[f]]
    /\ safe' = cache'
    /\ sealer' = [s \in Sealers |-> Idle]
    /\ UNCHANGED <<written, answered>>

FileNext ==
    \/ \E s \in Sealers :
          \/ Check(s) \/ RemoveStale(s) \/ CreateTemp(s) \/ TempTaken(s) \/ OpenOriginal(s)
          \/ CopyUnit(s) \/ WriteFinalChunk(s) \/ Fsync(s) \/ Verify(s) \/ Rename(s)
          \/ SyncDir(s) \/ Abort(s) \/ Die(s)
    \/ AppAppends
    \/ PowerLoss

FileSpec == FileInit /\ [][FileNext]_fileVars

(***************************************************************************)
(* Properties.                                                             *)
(***************************************************************************)
\* The file is there with all its data, in plaintext or sealed once and whole,
\* whatever failed, died or lost power (sealed-file.ts:694-701: "The plaintext
\* is never removed before the sealed copy is verified; an interrupted run
\* leaves the original untouched").
Intact ==
    /\ dir[Path] # NoEntry
    /\ cache[dir[Path]] \in {Original(written), Copy(1, written, TRUE)}

\* Once the call has answered "sealed", no power loss brings the plaintext back
\* (sealed-file.ts:358-360, 742-743).
AnsweredSealed ==
    answered => \A d \in dirs : safe[d[Path]] = Copy(1, written, TRUE)
=============================================================================
