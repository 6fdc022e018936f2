----------------------------- MODULE AtRestProofs -----------------------------
(***************************************************************************)
(* Proofs about the data at rest: KeyCapture.tla, SealedFile.tla,          *)
(* ContentCipher.tla, SharedSeal.tla and SealedFileFormat.tla.  Each part  *)
(* states the inductive invariant of one module and proves the property    *)
(* its run checks.                                                         *)
(***************************************************************************)
EXTENDS KeyCapture, SealedFile, SealedFileFormat, ContentCipher, SharedSeal, FiniteSetTheorems,
        SequenceTheorems, RecursionLemmas, TLAPS

(***************************************************************************)
(* KeyCapture: one key for ever.                                           *)
(***************************************************************************)
HasKey(s) == starts[s].pc \in {"readPin", "writePin", "up"}

KeysAreKeys ==
    \A s \in Starts :
        /\ At(s, "write") => starts[s].key \in RootKeys
        /\ HasKey(s) => starts[s].key \in Keys

\* While starts come one at a time, the one that runs is not contradicted by the
\* files it has looked at.
OneByOneKept ==
    ~setup.overlap =>
        /\ \A s, t \in Starts : Running(s) /\ Running(t) => s = t
        /\ \A s \in Starts :
              /\ At(s, "create") => pinFile = None /\ rootFile = None
              /\ At(s, "write") => pinFile = None /\ rootFile \in {None, Unwritten}
              /\ At(s, "readPin") => rootFile \in {None, starts[s].key}
              /\ At(s, "writePin") => pinFile = None /\ rootFile \in {None, starts[s].key}
              /\ At(s, "up") => starts[s].key = pinFile
        /\ pinFile # None => rootFile \in {None, pinFile}

\* Starts that race have one root between them, from the moment it is written.
RacingKept ==
    setup.overlap /\ setup.masters = {} /\ ~setup.mayLose =>
        /\ \A s, t \in Starts : At(s, "write") /\ At(t, "write") => s = t
        /\ \A s \in Starts :
              /\ At(s, "write") => rootFile = Unwritten
              /\ HasKey(s) => starts[s].key = rootFile
        /\ pinFile # None => pinFile = rootFile

CaptureInv == TypeOK /\ KeysAreKeys /\ OneByOneKept /\ RacingKept

LEMMA CaptureInvInit == Init => CaptureInv
BY CaptureAssumption
   DEF Init, CaptureInv, TypeOK, StartAt, KeysAreKeys, OneByOneKept, RacingKept, At, HasKey, Running

LEMMA CaptureInvStep == CaptureInv /\ [Next]_vars => CaptureInv'
<1> SUFFICES ASSUME CaptureInv, [Next]_vars PROVE CaptureInv'
  OBVIOUS
<1>a. TypeOK /\ KeysAreKeys /\ OneByOneKept /\ RacingKept
  BY DEF CaptureInv
<1> USE CaptureAssumption DEF At, HasKey
<1>1. ASSUME NEW s \in Starts, StartUnderCore(s) PROVE CaptureInv'
  <2>1. TypeOK'
    BY <1>a, <1>1 DEF TypeOK, StartAt, Keys, KeysAreKeys, StartUnderCore, Begins
  <2>2. KeysAreKeys'
    BY <1>a, <1>1 DEF TypeOK, StartAt, Keys, KeysAreKeys, StartUnderCore, Begins
  <2>3. OneByOneKept'
    BY <1>a, <1>1 DEF TypeOK, StartAt, Keys, KeysAreKeys, OneByOneKept, StartUnderCore, Begins, Running
  <2>4. RacingKept'
    BY <1>a, <1>1 DEF TypeOK, StartAt, Keys, KeysAreKeys, RacingKept, StartUnderCore, Begins
  <2> QED BY <2>1, <2>2, <2>3, <2>4 DEF CaptureInv
<1>2. ASSUME NEW s \in Starts, NEW master \in setup.masters, StartMaster(s, master) PROVE CaptureInv'
  <2>1. TypeOK'
    BY <1>a, <1>2 DEF TypeOK, StartAt, Keys, KeysAreKeys, StartMaster, Begins, Setup
  <2>2. KeysAreKeys'
    BY <1>a, <1>2 DEF TypeOK, StartAt, Keys, KeysAreKeys, StartMaster, Begins, Setup
  <2>3. OneByOneKept'
    BY <1>a, <1>2 DEF TypeOK, StartAt, Keys, KeysAreKeys, OneByOneKept, StartMaster, Begins, Setup, Running
  <2>4. RacingKept'
    BY <1>a, <1>2 DEF TypeOK, StartAt, Keys, KeysAreKeys, RacingKept, StartMaster, Begins, Setup
  <2> QED BY <2>1, <2>2, <2>3, <2>4 DEF CaptureInv
<1>3. ASSUME NEW s \in Starts, StartStandalone(s) PROVE CaptureInv'
  <2>1. TypeOK'
    BY <1>a, <1>3 DEF TypeOK, StartAt, Keys, KeysAreKeys, StartStandalone, Begins
  <2>2. KeysAreKeys'
    BY <1>a, <1>3 DEF TypeOK, StartAt, Keys, KeysAreKeys, StartStandalone, Begins
  <2>3. OneByOneKept'
    BY <1>a, <1>3 DEF TypeOK, StartAt, Keys, KeysAreKeys, OneByOneKept, StartStandalone, Begins, Running
  <2>4. RacingKept'
    BY <1>a, <1>3 DEF TypeOK, StartAt, Keys, KeysAreKeys, RacingKept, StartStandalone, Begins
  <2> QED BY <2>1, <2>2, <2>3, <2>4 DEF CaptureInv
<1>4. ASSUME NEW s \in Starts, LoadRoot(s) PROVE CaptureInv'
  <2>1. TypeOK'
    BY <1>a, <1>4 DEF TypeOK, StartAt, Keys, KeysAreKeys, LoadRoot, Goto, Refuse
  <2>2. KeysAreKeys'
    BY <1>a, <1>4 DEF TypeOK, StartAt, Keys, KeysAreKeys, LoadRoot, Goto, Refuse
  <2>3. OneByOneKept'
    BY <1>a, <1>4 DEF TypeOK, StartAt, Keys, KeysAreKeys, OneByOneKept, LoadRoot, Goto, Refuse, Running
  <2>4. RacingKept'
    BY <1>a, <1>4 DEF TypeOK, StartAt, Keys, KeysAreKeys, RacingKept, LoadRoot, Goto, Refuse
  <2> QED BY <2>1, <2>2, <2>3, <2>4 DEF CaptureInv
<1>5. ASSUME NEW s \in Starts, NoRoot(s) PROVE CaptureInv'
  <2>1. TypeOK'
    BY <1>a, <1>5 DEF TypeOK, StartAt, Keys, KeysAreKeys, NoRoot, Goto, Refuse
  <2>2. KeysAreKeys'
    BY <1>a, <1>5 DEF TypeOK, StartAt, Keys, KeysAreKeys, NoRoot, Goto, Refuse
  <2>3. OneByOneKept'
    BY <1>a, <1>5 DEF TypeOK, StartAt, Keys, KeysAreKeys, OneByOneKept, NoRoot, Goto, Refuse, Running
  <2>4. RacingKept'
    BY <1>a, <1>5 DEF TypeOK, StartAt, Keys, KeysAreKeys, RacingKept, NoRoot, Goto, Refuse
  <2> QED BY <2>1, <2>2, <2>3, <2>4 DEF CaptureInv
<1>6. ASSUME NEW s \in Starts, CreateRoot(s) PROVE CaptureInv'
  <2>1. TypeOK'
    BY <1>a, <1>6 DEF TypeOK, StartAt, Keys, KeysAreKeys, CreateRoot, Draw, Goto, Refuse
  <2>2. KeysAreKeys'
    BY <1>a, <1>6 DEF TypeOK, StartAt, Keys, KeysAreKeys, CreateRoot, Draw, Goto, Refuse
  <2>3. OneByOneKept'
    BY <1>a, <1>6 DEF TypeOK, StartAt, Keys, KeysAreKeys, OneByOneKept, CreateRoot, Draw, Goto, Refuse, Running
  <2>4. RacingKept'
    BY <1>a, <1>6 DEF TypeOK, StartAt, Keys, KeysAreKeys, RacingKept, CreateRoot, Draw, Goto, Refuse
  <2> QED BY <2>1, <2>2, <2>3, <2>4 DEF CaptureInv
<1>7. ASSUME NEW s \in Starts, WriteRoot(s) PROVE CaptureInv'
  <2>1. TypeOK'
    BY <1>a, <1>7 DEF TypeOK, StartAt, Keys, KeysAreKeys, WriteRoot, Goto
  <2>2. KeysAreKeys'
    BY <1>a, <1>7 DEF TypeOK, StartAt, Keys, KeysAreKeys, WriteRoot, Goto
  <2>3. OneByOneKept'
    BY <1>a, <1>7 DEF TypeOK, StartAt, Keys, KeysAreKeys, OneByOneKept, WriteRoot, Goto, Running
  <2>4. RacingKept'
    BY <1>a, <1>7 DEF TypeOK, StartAt, Keys, KeysAreKeys, RacingKept, WriteRoot, Goto
  <2> QED BY <2>1, <2>2, <2>3, <2>4 DEF CaptureInv
<1>8. ASSUME NEW s \in Starts, ReadPin(s) PROVE CaptureInv'
  <2>1. TypeOK'
    BY <1>a, <1>8 DEF TypeOK, StartAt, Keys, KeysAreKeys, ReadPin, Goto, Refuse
  <2>2. KeysAreKeys'
    BY <1>a, <1>8 DEF TypeOK, StartAt, Keys, KeysAreKeys, ReadPin, Goto, Refuse
  <2>3. OneByOneKept'
    BY <1>a, <1>8 DEF TypeOK, StartAt, Keys, KeysAreKeys, OneByOneKept, ReadPin, Goto, Refuse, Running
  <2>4. RacingKept'
    BY <1>a, <1>8 DEF TypeOK, StartAt, Keys, KeysAreKeys, RacingKept, ReadPin, Goto, Refuse
  <2> QED BY <2>1, <2>2, <2>3, <2>4 DEF CaptureInv
<1>9. ASSUME NEW s \in Starts, WritePin(s) PROVE CaptureInv'
  <2>1. TypeOK'
    BY <1>a, <1>9 DEF TypeOK, StartAt, Keys, KeysAreKeys, WritePin, Goto
  <2>2. KeysAreKeys'
    BY <1>a, <1>9 DEF TypeOK, StartAt, Keys, KeysAreKeys, WritePin, Goto
  <2>3. OneByOneKept'
    BY <1>a, <1>9 DEF TypeOK, StartAt, Keys, KeysAreKeys, OneByOneKept, WritePin, Goto, Running
  <2>4. RacingKept'
    BY <1>a, <1>9 DEF TypeOK, StartAt, Keys, KeysAreKeys, RacingKept, WritePin, Goto
  <2> QED BY <2>1, <2>2, <2>3, <2>4 DEF CaptureInv
<1>10. ASSUME NEW s \in Starts, Crash(s) PROVE CaptureInv'
  <2>1. TypeOK'
    BY <1>a, <1>10 DEF TypeOK, StartAt, Keys, KeysAreKeys, Crash, Refuse, Goto, Running
  <2>2. KeysAreKeys'
    BY <1>a, <1>10 DEF TypeOK, StartAt, Keys, KeysAreKeys, Crash, Refuse, Goto, Running
  <2>3. OneByOneKept'
    BY <1>a, <1>10 DEF TypeOK, StartAt, Keys, KeysAreKeys, OneByOneKept, Crash, Refuse, Goto, Running
  <2>4. RacingKept'
    BY <1>a, <1>10 DEF TypeOK, StartAt, Keys, KeysAreKeys, RacingKept, Crash, Refuse, Goto, Running
  <2> QED BY <2>1, <2>2, <2>3, <2>4 DEF CaptureInv
<1>11. ASSUME LoseRoot PROVE CaptureInv'
  BY <1>a, <1>11 DEF LoseRoot, CaptureInv, TypeOK, KeysAreKeys, OneByOneKept, RacingKept, Running
<1>12. ASSUME UNCHANGED vars PROVE CaptureInv'
  BY <1>a, <1>12 DEF vars, CaptureInv, TypeOK, KeysAreKeys, OneByOneKept, RacingKept, Running
<1> QED BY <1>1, <1>2, <1>3, <1>4, <1>5, <1>6, <1>7, <1>8, <1>9, <1>10, <1>11, <1>12 DEF Next

\* One key is all there is: the pinned one, or the root file's.
LEMMA CaptureInvKeepsKeys == CaptureInv => KeysKept
<1> SUFFICES ASSUME CaptureInv PROVE KeysKept
  OBVIOUS
<1> USE CaptureAssumption DEF CaptureInv, InUse, At, HasKey
<1>1. ASSUME Careful PROVE InUse \subseteq {pinFile} \/ InUse \subseteq {rootFile}
  BY <1>1 DEF Careful, OneByOneKept, RacingKept
<1>2. ASSUME Careful, rootFile # None PROVE InUse \subseteq {rootFile}
  BY <1>2 DEF Careful, OneByOneKept, RacingKept, KeysAreKeys, Keys
<1>3. ASSUME NEW key, InUse \subseteq {key} PROVE Cardinality(InUse) <= 1
  <2>1. IsFiniteSet({key}) /\ Cardinality({key}) = 1
    BY FS_Singleton
  <2> HIDE DEF InUse
  <2> QED BY <1>3, <2>1, FS_Subset, FS_CardinalityType
<1> QED BY <1>1, <1>2, <1>3 DEF KeysKept, OneKeyForEver, RootFileIsThatKey

\* Whatever an installation goes through, its standalone starts keep to one key,
\* which a root file that is there holds (seal.ts:479-500, 595-599).
THEOREM KeysKeptCorrect == Spec => []KeysKept
<1>1. Spec => []CaptureInv
  BY CaptureInvInit, CaptureInvStep, PTL DEF Spec
<1> QED BY <1>1, CaptureInvKeepsKeys, PTL

(***************************************************************************)
(* SealedFile: the inductive invariant, while one process at a time seals  *)
(* a file and the application leaves it alone.                             *)
(***************************************************************************)
Undisturbed == (\A s, t \in Sealers : s = t) /\ MaxAppends = 0

Plaintext == Original(InitialUnits)
SealedOnce == Copy(1, InitialUnits, TRUE)

Whole(f) == cache[f] = safe[f] /\ cache[f] \in {Plaintext, SealedOnce}

FilesNumbered ==
    /\ \E n \in Nat \ {0} : DOMAIN cache = 0..(n - 1)
    /\ DOMAIN safe = DOMAIN cache

FileTypeOK ==
    /\ dir \in dirs
    /\ dirs \subseteq [{Path, Temp} -> DOMAIN cache \cup {NoEntry}]
    /\ cache \in [DOMAIN cache -> Content] /\ safe \in [DOMAIN cache -> Content]
    /\ sealer \in [Sealers -> SealerAt \cup {Idle}]
    /\ written = InitialUnits
    /\ answered \in BOOLEAN

\* Whatever directory a power loss leaves has a whole file under the name.
AlwaysWhole == \A d \in dirs : d[Path] \in DOMAIN cache /\ Whole(d[Path])

\* The copy is no directory's file, so nothing is lost while it is written.
CopyIsApart(s) ==
    /\ sealer[s].sink \in DOMAIN cache
    /\ dir[Temp] = sealer[s].sink
    /\ \A d \in dirs : d[Path] # sealer[s].sink

\* What a sealer has done so far.
SealerInv(s) ==
    LET w == sealer[s]
    IN  /\ ~answered
        /\ w.pc # "syncdir" => cache[dir[Path]] = Plaintext
        /\ w.pc \in {"open", "copy", "fsync"} => CopyIsApart(s)
        /\ w.pc \in {"copy", "fsync", "verify", "rename"} => w.source = dir[Path]
        /\ w.position <= InitialUnits
        /\ w.pc \in {"fsync", "verify", "rename"} =>
              /\ w.position = InitialUnits
              /\ w.sink \in DOMAIN cache /\ dir[Temp] = w.sink /\ cache[w.sink] = SealedOnce
        /\ w.pc \in {"verify", "rename"} => safe[w.sink] = SealedOnce
        /\ w.pc = "syncdir" => cache[dir[Path]] = SealedOnce

SealersInv == \A s \in Sealers : Working(s) => SealerInv(s)

FileInv == FilesNumbered /\ FileTypeOK /\ AlwaysWhole /\ SealersInv /\ AnsweredSealed

\* What one content is not the other.
LEMMA ContentsApart ==
    ASSUME InitialUnits \in Nat
    PROVE  /\ Plaintext \in Content /\ SealedOnce \in Content /\ Torn \in Content
           /\ Plaintext # SealedOnce
           /\ ~(Plaintext.layers > 0) /\ SealedOnce.layers > 0 /\ Plaintext.units = InitialUnits
           /\ Copy(Plaintext.layers + 1, InitialUnits, TRUE) = SealedOnce
BY DEF Plaintext, SealedOnce, Torn, Original, Copy, Content

LEMMA FileInitInv == FileAssumption /\ Undisturbed /\ FileInit => FileInv
<1> SUFFICES ASSUME FileAssumption, Undisturbed, FileInit PROVE FileInv
    OBVIOUS
<1>1. InitialUnits \in Nat
    BY DEF FileAssumption
<1>2. DOMAIN cache = {0} /\ cache[0] = Plaintext /\ safe = cache
    BY DEF FileInit, Plaintext
<1>3. DOMAIN cache = 0..(1 - 1) /\ 1 \in Nat \ {0}
    BY <1>2
<1>4. dir \in [{Path, Temp} -> {0, NoEntry}] /\ dir[Path] = 0 /\ dirs = {dir}
    BY DEF FileInit, Path, Temp
<1>5. \A s \in Sealers : ~Working(s)
    BY DEF FileInit, Working
<1>6. FilesNumbered
    BY <1>2, <1>3 DEF FilesNumbered
<1>7. FileTypeOK
  <2>1. cache \in [DOMAIN cache -> Content] /\ safe \in [DOMAIN cache -> Content]
    BY <1>1, <1>2, ContentsApart DEF FileInit, Plaintext
  <2>2. sealer \in [Sealers -> SealerAt \cup {Idle}] /\ written = InitialUnits /\ answered = FALSE
    BY DEF FileInit
  <2>. QED
    BY <1>2, <1>4, <2>1, <2>2 DEF FileTypeOK
<1>8. AlwaysWhole
    BY <1>2, <1>4 DEF AlwaysWhole, Whole
<1>9. SealersInv /\ AnsweredSealed
    BY <1>5 DEF SealersInv, AnsweredSealed, FileInit
<1>. QED
    BY <1>6, <1>7, <1>8, <1>9 DEF FileInv

\* Steps that change neither the directory nor a file.
Files == <<dir, dirs, cache, safe, written>>

\* The sealer a step belongs to is the only one: a step keeps SealersInv when it
\* keeps what that one has done, or ends its work.
LEMMA OnlySealer ==
    ASSUME Undisturbed, NEW s \in Sealers, Working(s)' => SealerInv(s)'
    PROVE  SealersInv'
BY DEF Undisturbed, SealersInv

LEMMA QuietSteps ==
    ASSUME FileAssumption, Undisturbed, FileInv, NEW s \in Sealers,
           Check(s) \/ TempTaken(s) \/ OpenOriginal(s) \/ CopyUnit(s) \/ Verify(s) \/ Die(s)
    PROVE  FileInv'
<1>1. UNCHANGED Files /\ UNCHANGED answered
    BY DEF Check, TempTaken, OpenOriginal, CopyUnit, Verify, Die, Files
<1>2. sealer \in [Sealers -> SealerAt \cup {Idle}] /\ FileTypeOK /\ dir \in dirs
    BY DEF FileInv, FileTypeOK
<1>3. FilesNumbered' /\ AlwaysWhole' /\ AnsweredSealed'
    BY <1>1 DEF FileInv, FilesNumbered, AlwaysWhole, Whole, AnsweredSealed, Files
<1>4. InitialUnits \in Nat /\ cache[dir[Path]] \in {Plaintext, SealedOnce}
      /\ dir[Path] \in DOMAIN cache /\ Idle \notin SealerAt
    BY <1>2 DEF FileInv, AlwaysWhole, Whole, FileAssumption
<1>5. Working(s) => SealerInv(s)
    BY DEF FileInv, SealersInv
<1>6. DOMAIN cache \subseteq Nat
    BY DEF FileInv, FilesNumbered
<1>7. /\ sealer' \in [Sealers -> SealerAt \cup {Idle}]
      /\ Working(s)' => SealerInv(s)'
  <2>1. CASE Check(s)
    <3>1. cache[dir[Path]] = Plaintext /\ ~answered
        BY <2>1, <1>4, ContentsApart DEF Check, IsSealed, FileInv, AnsweredSealed, FileTypeOK, SealedOnce, AlwaysWhole, Whole
    <3>2. [pc |-> "clear", source |-> NoEntry, sink |-> NoEntry, position |-> 0] \in SealerAt
        BY DEF SealerAt
    <3>3. sealer' \in [Sealers -> SealerAt \cup {Idle}] /\ sealer'[s].pc = "clear"
          /\ sealer'[s].position = 0
        BY <2>1, <3>2, <1>2 DEF Check
    <3>. QED
        BY <3>1, <3>3, <1>1, <1>4 DEF SealerInv, Files
  <2>2. CASE TempTaken(s) \/ Die(s)
    BY <2>2, <1>2 DEF TempTaken, Die, Leave, Working
  <2>3. CASE OpenOriginal(s)
    <3>1. sealer[s] \in SealerAt /\ sealer[s].pc = "open" /\ SealerInv(s)
        BY <2>3, <1>2, <1>5 DEF OpenOriginal, Reached, Working
    <3>2. PICK w : w = [sealer[s] EXCEPT !.source = dir[Path], !.pc = "copy"]
        OBVIOUS
    <3>3. w \in SealerAt /\ w.pc = "copy" /\ w.source = dir[Path] /\ w.sink = sealer[s].sink
          /\ w.position = sealer[s].position
        BY <3>1, <3>2, <1>4, <1>6 DEF SealerAt
    <3>4. sealer' = [sealer EXCEPT ![s] = w]
        BY <2>3, <3>2 DEF OpenOriginal
    <3>. QED
        BY <3>1, <3>3, <3>4, <1>1, <1>2 DEF SealerInv, CopyIsApart, Files
  <2>4. CASE CopyUnit(s)
    <3>1. sealer[s] \in SealerAt /\ sealer[s].pc = "copy" /\ SealerInv(s)
        BY <2>4, <1>2, <1>5 DEF CopyUnit, Reached, Working
    <3>2. sealer[s].position < InitialUnits /\ sealer[s].position \in Nat
        BY <2>4, <3>1, <1>4, ContentsApart DEF CopyUnit, SealerInv, SealerAt
    <3>3. PICK w : w = [sealer[s] EXCEPT !.position = @ + 1]
        OBVIOUS
    <3>4. w \in SealerAt /\ w.pc = "copy" /\ w.source = sealer[s].source
          /\ w.sink = sealer[s].sink /\ w.position = sealer[s].position + 1
        BY <3>1, <3>2, <3>3 DEF SealerAt
    <3>5. sealer' = [sealer EXCEPT ![s] = w]
        BY <2>4, <3>3 DEF CopyUnit
    <3>. QED
        BY <3>1, <3>2, <3>4, <3>5, <1>1, <1>2, <1>4 DEF SealerInv, CopyIsApart, Files
  <2>5. CASE Verify(s)
    <3>1. sealer[s] \in SealerAt /\ sealer[s].pc = "verify" /\ SealerInv(s)
        BY <2>5, <1>2, <1>5 DEF Verify, Reached, Working
    <3>2. PICK w : w = [sealer[s] EXCEPT !.pc = "rename"]
        OBVIOUS
    <3>3. w \in SealerAt /\ w.pc = "rename" /\ w.source = sealer[s].source
          /\ w.sink = sealer[s].sink /\ w.position = sealer[s].position
        BY <3>1, <3>2 DEF SealerAt
    <3>4. sealer' = [sealer EXCEPT ![s] = w]
        BY <2>5, <3>2 DEF Verify, Proceed
    <3>. QED
        BY <3>1, <3>3, <3>4, <1>1, <1>2, <1>4 DEF SealerInv, Files
  <2>. QED
    BY <2>1, <2>2, <2>3, <2>4, <2>5
<1>8. FileTypeOK'
    BY <1>1, <1>2, <1>7 DEF FileTypeOK, Files
<1>. QED
    BY <1>3, <1>7, <1>8, OnlySealer DEF FileInv

\* A name of the directory changed, the other kept.
LEMMA Relink ==
    ASSUME FileTypeOK, NEW name \in {Path, Temp}, NEW f, Link(name, f)
    PROVE  /\ dir' = [n \in {Path, Temp} |-> IF n = name THEN f ELSE dir[n]]
           /\ dir' \in dirs' /\ \A d \in dirs' : d \in dirs \/ d = dir'
BY DEF Link, FileTypeOK

\* Unlinking the copy and starting anew, or giving up.
LEMMA Unlink ==
    ASSUME FileAssumption, Undisturbed, FileInv, NEW s \in Sealers, RemoveStale(s) \/ Abort(s)
    PROVE  FileInv'
<1>1. Link(Temp, NoEntry) /\ UNCHANGED <<cache, safe, written, answered>> /\ Working(s)
    BY DEF RemoveStale, Abort, Reached
<1>2. FileTypeOK /\ Temp \in {Path, Temp} /\ Path # Temp
    BY DEF FileInv, Path, Temp
<1>3. /\ dir' = [n \in {Path, Temp} |-> IF n = Temp THEN NoEntry ELSE dir[n]]
      /\ dir' \in dirs' /\ \A d \in dirs' : d \in dirs \/ d = dir'
    BY ONLY <1>1, <1>2, Relink
<1>4. dir \in dirs /\ dir \in [{Path, Temp} -> DOMAIN cache \cup {NoEntry}]
    BY <1>2 DEF FileTypeOK
<1>5. dir'[Path] = dir[Path] /\ dir' \in [{Path, Temp} -> DOMAIN cache \cup {NoEntry}]
    BY <1>2, <1>3, <1>4
<1>6. sealer[s] \in SealerAt /\ SealerInv(s) /\ ~answered
    BY <1>1, <1>2 DEF FileInv, SealersInv, Working, FileTypeOK, SealerInv
<1>7. /\ sealer' \in [Sealers -> SealerAt \cup {Idle}]
      /\ Working(s)' => SealerInv(s)'
  <2>1. CASE RemoveStale(s)
    <3>1. sealer[s].pc = "clear"
        BY <2>1 DEF RemoveStale, Reached
    <3>2. PICK w : w = [sealer[s] EXCEPT !.pc = "create"]
        OBVIOUS
    <3>3. w \in SealerAt /\ w.pc = "create" /\ w.position = sealer[s].position
        BY <1>6, <3>2 DEF SealerAt
    <3>4. sealer' = [sealer EXCEPT ![s] = w]
        BY <2>1, <3>2 DEF RemoveStale, Proceed
    <3>. QED
        BY <1>1, <1>2, <1>5, <1>6, <3>1, <3>3, <3>4 DEF SealerInv, FileTypeOK
  <2>2. CASE Abort(s)
    BY <2>2, <1>2 DEF Abort, Leave, Working, FileTypeOK
  <2>. QED
    BY <2>1, <2>2
<1>8. FilesNumbered' /\ AnsweredSealed'
    BY <1>1, <1>6 DEF FileInv, FilesNumbered, AnsweredSealed
<1>9. FileTypeOK'
    BY <1>1, <1>2, <1>3, <1>5, <1>7 DEF FileTypeOK
<1>10. AlwaysWhole'
    BY <1>1, <1>3, <1>4, <1>5 DEF FileInv, AlwaysWhole, Whole
<1>. QED
    BY <1>7, <1>8, <1>9, <1>10, OnlySealer DEF FileInv

\* A new file is a file no directory has.
LEMMA CreateStep ==
    ASSUME FileAssumption, Undisturbed, FileInv, NEW s \in Sealers, CreateTemp(s)
    PROVE  FileInv'
<1> DEFINE f == Cardinality(DOMAIN cache)
           grown(content) == [g \in DOMAIN content \cup {f} |-> IF g = f THEN Torn ELSE content[g]]
<1>1. PICK n \in Nat \ {0} : DOMAIN cache = 0..(n - 1) /\ DOMAIN safe = DOMAIN cache
    BY DEF FileInv, FilesNumbered
<1>2. f = n
    BY <1>1, FS_Interval
<1>3. /\ cache' = grown(cache) /\ safe' = grown(safe) /\ Link(Temp, f)
      /\ UNCHANGED <<written, answered>> /\ Reached(s, "create")
      /\ sealer' = [sealer EXCEPT ![s].sink = f, ![s].pc = "open"]
    BY DEF CreateTemp
<1>4. FileTypeOK /\ Temp \in {Path, Temp} /\ Path # Temp
    BY DEF FileInv, Path, Temp
<1> HIDE DEF f
<1>5. /\ dir' = [m \in {Path, Temp} |-> IF m = Temp THEN f ELSE dir[m]]
      /\ dir' \in dirs' /\ \A d \in dirs' : d \in dirs \/ d = dir'
    BY ONLY <1>3, <1>4, Relink
<1>6. /\ f \notin DOMAIN cache /\ DOMAIN cache' = 0..n /\ DOMAIN safe' = DOMAIN cache'
      /\ f \in DOMAIN cache' /\ DOMAIN cache \subseteq DOMAIN cache' /\ f \in Nat
      /\ \A g \in DOMAIN cache : cache'[g] = cache[g] /\ safe'[g] = safe[g]
      /\ \A g \in DOMAIN cache' : g \in DOMAIN cache \/ g = f
      /\ cache'[f] = Torn /\ safe'[f] = Torn
    BY <1>1, <1>2, <1>3
<1> HIDE DEF grown
<1>7. dir \in dirs /\ dirs \subseteq [{Path, Temp} -> DOMAIN cache \cup {NoEntry}]
    BY <1>4 DEF FileTypeOK
<1>8. dir'[Path] = dir[Path] /\ dir'[Temp] = f
      /\ dir' \in [{Path, Temp} -> DOMAIN cache' \cup {NoEntry}]
    BY <1>4, <1>5, <1>6, <1>7
<1>9. \A d \in dirs' : d[Path] \in DOMAIN cache
  <2>1. \A d \in dirs : d[Path] \in DOMAIN cache
    BY DEF FileInv, AlwaysWhole
  <2>. QED
    BY <2>1, <1>5, <1>7, <1>8
<1>10. sealer[s] \in SealerAt /\ SealerInv(s) /\ sealer[s].pc = "create" /\ ~answered
    BY <1>3, <1>4 DEF FileInv, SealersInv, Working, FileTypeOK, SealerInv, Reached
<1>11. FilesNumbered'
  <2>1. DOMAIN cache' = 0..((n + 1) - 1) /\ n + 1 \in Nat \ {0}
    BY <1>6
  <2>. QED
    BY <2>1, <1>6 DEF FilesNumbered
<1>12. /\ sealer' \in [Sealers -> SealerAt \cup {Idle}]
       /\ Working(s)' => SealerInv(s)'
  <2>1. PICK w : w = [sealer[s] EXCEPT !.sink = f, !.pc = "open"]
    OBVIOUS
  <2>2. w \in SealerAt /\ w.pc = "open" /\ w.sink = f /\ w.position = sealer[s].position
    BY <1>6, <1>10, <2>1 DEF SealerAt
  <2>3. sealer' = [sealer EXCEPT ![s] = w]
    BY <1>3, <2>1
  <2>4. sealer' \in [Sealers -> SealerAt \cup {Idle}] /\ sealer'[s] = w
    BY <1>4, <2>2, <2>3 DEF FileTypeOK
  <2>5. CopyIsApart(s)'
    BY <2>2, <2>4, <1>6, <1>8, <1>9 DEF CopyIsApart
  <2>6. cache'[dir'[Path]] = Plaintext
    BY <1>6, <1>7, <1>8, <1>9, <1>5, <1>10 DEF SealerInv
  <2>. QED
    BY <2>2, <2>4, <2>5, <2>6, <1>3, <1>10 DEF SealerInv
<1>13. FileTypeOK'
  <2>1. Torn \in Content
    BY DEF Torn, Copy, Content
  <2>2. cache' \in [DOMAIN cache' -> Content] /\ safe' \in [DOMAIN cache' -> Content]
    BY <2>1, <1>1, <1>3, <1>4, <1>6 DEF FileTypeOK, grown
  <2>3. dirs' \subseteq [{Path, Temp} -> DOMAIN cache' \cup {NoEntry}]
    BY <1>5, <1>6, <1>7, <1>8
  <2>. QED
    BY <2>2, <2>3, <1>3, <1>4, <1>5, <1>12 DEF FileTypeOK
<1>14. AlwaysWhole'
    BY <1>5, <1>6, <1>7, <1>8, <1>9 DEF FileInv, AlwaysWhole, Whole
<1>15. AnsweredSealed'
    BY <1>3, <1>10 DEF AnsweredSealed
<1>. QED
    BY <1>11, <1>12, <1>13, <1>14, <1>15, OnlySealer DEF FileInv

\* Writing the copy, and syncing it: no directory has it under the name.
LEMMA CopySteps ==
    ASSUME FileAssumption, Undisturbed, FileInv, NEW s \in Sealers, WriteFinalChunk(s) \/ Fsync(s)
    PROVE  FileInv'
<1> DEFINE sink == sealer[s].sink
<1>1. FileTypeOK /\ Working(s) /\ SealerInv(s) /\ sealer[s] \in SealerAt /\ InitialUnits \in Nat
    BY DEF FileInv, SealersInv, Working, FileTypeOK, WriteFinalChunk, Fsync, Reached, FileAssumption
<1>2. CopyIsApart(s) /\ ~answered /\ UNCHANGED <<dir, dirs, written, answered>>
    BY <1>1 DEF SealerInv, WriteFinalChunk, Fsync, Reached
<1>3. /\ cache \in [DOMAIN cache -> Content] /\ safe \in [DOMAIN cache -> Content] /\ dir \in dirs
      /\ cache[dir[Path]] = Plaintext /\ sealer[s].source = dir[Path]
      /\ sealer \in [Sealers -> SealerAt \cup {Idle}]
    BY <1>1 DEF FileTypeOK, SealerInv, WriteFinalChunk, Fsync, Reached
<1>4. PICK w : /\ w \in SealerAt /\ w.source = sealer[s].source /\ w.sink = sink
               /\ w.position = sealer[s].position /\ sealer' = [sealer EXCEPT ![s] = w]
               /\ WriteFinalChunk(s) => w.pc = "fsync"
               /\ Fsync(s) => w.pc = "verify"
  <2>1. CASE WriteFinalChunk(s)
    <3>1. PICK w : w = [sealer[s] EXCEPT !.pc = "fsync"]
        OBVIOUS
    <3>2. w \in SealerAt /\ w.source = sealer[s].source /\ w.sink = sink
          /\ w.position = sealer[s].position /\ w.pc = "fsync"
        BY <1>1, <3>1 DEF SealerAt
    <3>3. sealer' = [sealer EXCEPT ![s] = w]
        BY <2>1, <3>1 DEF WriteFinalChunk, Proceed
    <3>4. ~Fsync(s)
        BY <2>1 DEF WriteFinalChunk, Fsync, Reached
    <3>. QED
        BY <3>2, <3>3, <3>4
  <2>2. CASE Fsync(s)
    <3>1. PICK w : w = [sealer[s] EXCEPT !.pc = "verify"]
        OBVIOUS
    <3>2. w \in SealerAt /\ w.source = sealer[s].source /\ w.sink = sink
          /\ w.position = sealer[s].position /\ w.pc = "verify"
        BY <1>1, <3>1 DEF SealerAt
    <3>3. sealer' = [sealer EXCEPT ![s] = w]
        BY <2>2, <3>1 DEF Fsync, Proceed
    <3>4. ~WriteFinalChunk(s)
        BY <2>2 DEF WriteFinalChunk, Fsync, Reached
    <3>. QED
        BY <3>2, <3>3, <3>4
  <2>. QED
    BY <2>1, <2>2
<1>5. sealer' \in [Sealers -> SealerAt \cup {Idle}] /\ sealer'[s] = w
    BY <1>3, <1>4
<1>6. /\ cache' \in [DOMAIN cache -> Content] /\ safe' \in [DOMAIN cache -> Content]
      /\ \A f \in DOMAIN cache : f # sink => cache'[f] = cache[f] /\ safe'[f] = safe[f]
      /\ cache'[sink] = SealedOnce /\ sealer[s].position = InitialUnits
      /\ Fsync(s) => safe'[sink] = SealedOnce
  <2>1. CASE WriteFinalChunk(s)
    <3>1. SealedSoFar(s, TRUE) = SealedOnce /\ SealedOnce \in Content
          /\ sealer[s].position = InitialUnits
        BY <2>1, <1>1, <1>3, ContentsApart DEF WriteFinalChunk, SealedSoFar
    <3>2. sink \in DOMAIN cache /\ cache' = [cache EXCEPT ![sink] = SealedOnce] /\ safe' = safe
        BY <2>1, <3>1, <1>2 DEF WriteFinalChunk, CopyIsApart
    <3>3. ~Fsync(s)
        BY <2>1 DEF WriteFinalChunk, Fsync, Reached
    <3>. QED
        BY <3>1, <3>2, <3>3, <1>3
  <2>2. CASE Fsync(s)
    <3>1. cache[sink] = SealedOnce /\ sealer[s].position = InitialUnits /\ sink \in DOMAIN cache
        BY <2>2, <1>1 DEF SealerInv, Fsync, Reached
    <3>2. safe' = [safe EXCEPT ![sink] = SealedOnce] /\ cache' = cache /\ SealedOnce \in Content
        BY <2>2, <3>1, <1>1, ContentsApart DEF Fsync
    <3>. QED
        BY <3>1, <3>2, <1>3
  <2>. QED
    BY <2>1, <2>2
<1>7. DOMAIN cache' = DOMAIN cache /\ DOMAIN safe' = DOMAIN cache
    BY <1>6
<1>8. FilesNumbered' /\ AnsweredSealed'
    BY <1>2, <1>7 DEF FileInv, FilesNumbered, AnsweredSealed
<1>9. FileTypeOK'
    BY <1>1, <1>2, <1>5, <1>6, <1>7 DEF FileTypeOK
<1>10. AlwaysWhole'
    BY <1>2, <1>6, <1>7 DEF FileInv, AlwaysWhole, Whole, CopyIsApart
<1>11. Working(s)' => SealerInv(s)'
  <2>1. cache'[dir'[Path]] = Plaintext /\ CopyIsApart(s)'
    BY <1>2, <1>3, <1>4, <1>5, <1>6, <1>7 DEF CopyIsApart, FileInv, AlwaysWhole
  <2>. QED
    BY <2>1, <1>1, <1>2, <1>3, <1>4, <1>5, <1>6, <1>7 DEF SealerInv, CopyIsApart
<1>. QED
    BY <1>8, <1>9, <1>10, <1>11, OnlySealer DEF FileInv

\* The copy replaces the original, and the directory is synced.
LEMMA RenameStep ==
    ASSUME FileAssumption, Undisturbed, FileInv, NEW s \in Sealers, Rename(s)
    PROVE  FileInv'
<1> DEFINE sink == sealer[s].sink
<1>1. FileTypeOK /\ SealerInv(s) /\ sealer[s] \in SealerAt /\ sealer[s].pc = "rename"
    BY DEF FileInv, SealersInv, Working, FileTypeOK, Rename, Reached
<1>2. /\ sink \in DOMAIN cache /\ dir[Temp] = sink /\ ~answered
      /\ cache[sink] = SealedOnce /\ safe[sink] = SealedOnce
      /\ sealer[s].position <= InitialUnits
    BY <1>1 DEF SealerInv
<1>3. /\ dir' = [n \in {Path, Temp} |-> IF n = Path THEN sink ELSE NoEntry]
      /\ dirs' = dirs \cup {dir'} /\ UNCHANGED <<cache, safe, written, answered>>
    BY <1>2 DEF Rename
<1>4. dir'[Path] = sink /\ dir' \in [{Path, Temp} -> DOMAIN cache \cup {NoEntry}]
    BY <1>2, <1>3 DEF Path, Temp
<1>5. PICK w : w = [sealer[s] EXCEPT !.pc = "syncdir"]
    OBVIOUS
<1>6. w \in SealerAt /\ w.pc = "syncdir" /\ w.position = sealer[s].position
    BY <1>1, <1>5 DEF SealerAt
<1>7. sealer' = [sealer EXCEPT ![s] = w]
    BY <1>5 DEF Rename, Proceed
<1>8. sealer' \in [Sealers -> SealerAt \cup {Idle}] /\ sealer'[s] = w
    BY <1>1, <1>6, <1>7 DEF FileTypeOK
<1>9. FileTypeOK'
    BY <1>1, <1>3, <1>4, <1>8 DEF FileTypeOK
<1>10. AlwaysWhole'
    BY <1>2, <1>3, <1>4 DEF FileInv, AlwaysWhole, Whole
<1>11. SealerInv(s)'
    BY <1>2, <1>3, <1>4, <1>6, <1>8 DEF SealerInv
<1>12. FilesNumbered' /\ AnsweredSealed'
    BY <1>2, <1>3 DEF FileInv, FilesNumbered, AnsweredSealed
<1>. QED
    BY <1>9, <1>10, <1>11, <1>12, OnlySealer DEF FileInv

LEMMA SyncDirStep ==
    ASSUME FileAssumption, Undisturbed, FileInv, NEW s \in Sealers, SyncDir(s)
    PROVE  FileInv'
<1>1. FileTypeOK /\ SealerInv(s) /\ sealer[s].pc = "syncdir"
    BY DEF FileInv, SealersInv, Working, SyncDir, Reached
<1>2. /\ dirs' = {dir} /\ answered' = TRUE /\ UNCHANGED <<dir, cache, safe, written>>
      /\ sealer' = [sealer EXCEPT ![s] = Idle]
    BY DEF SyncDir, Leave
<1>3. dir \in dirs /\ cache[dir[Path]] = SealedOnce
    BY <1>1 DEF FileTypeOK, SealerInv
<1>4. AlwaysWhole' /\ FileTypeOK'
    BY <1>1, <1>2, <1>3 DEF FileInv, AlwaysWhole, Whole, FileTypeOK
<1>5. AnsweredSealed'
    BY <1>1, <1>2, <1>3 DEF FileInv, AlwaysWhole, Whole, AnsweredSealed, FileTypeOK, SealedOnce
<1>6. FilesNumbered'
    BY <1>2 DEF FileInv, FilesNumbered
<1>7. ~Working(s)'
    BY <1>1, <1>2 DEF FileTypeOK, Working
<1>. QED
    BY <1>4, <1>5, <1>6, <1>7, OnlySealer DEF FileInv

\* A power loss takes no whole file, and every directory it leaves has one.
LEMMA PowerLossStep ==
    ASSUME FileAssumption, Undisturbed, FileInv, PowerLoss
    PROVE  FileInv'
<1>1. PICK lost \in SUBSET {f \in DOMAIN cache : safe[f] # cache[f]} :
        cache' = [f \in DOMAIN cache |-> IF f \in lost THEN safe[f] ELSE cache[f]]
    BY DEF PowerLoss
<1>2. /\ dir' \in dirs /\ dirs' = {dir'} /\ safe' = cache' /\ UNCHANGED <<written, answered>>
      /\ sealer' = [s \in Sealers |-> Idle]
    BY DEF PowerLoss
<1>3. FileTypeOK /\ DOMAIN cache' = DOMAIN cache /\ DOMAIN safe' = DOMAIN cache
    BY <1>1, <1>2 DEF FileInv
<1>4. \A f \in DOMAIN cache : Whole(f) => cache'[f] = cache[f] /\ cache'[f] = safe[f]
    BY <1>1 DEF Whole
<1>5. cache' \in [DOMAIN cache -> Content]
    BY <1>1, <1>3 DEF FileTypeOK, FileInv, FilesNumbered
<1>6. FilesNumbered'
    BY <1>3 DEF FileInv, FilesNumbered
<1>7. FileTypeOK'
    BY <1>2, <1>3, <1>5 DEF FileTypeOK
<1>8. AlwaysWhole' /\ AnsweredSealed'
    BY <1>2, <1>3, <1>4 DEF FileInv, AlwaysWhole, Whole, AnsweredSealed
<1>9. SealersInv'
    BY <1>2 DEF SealersInv, Working
<1>. QED
    BY <1>6, <1>7, <1>8, <1>9 DEF FileInv

LEMMA FileStep == FileAssumption /\ Undisturbed /\ FileInv /\ [FileNext]_fileVars => FileInv'
<1> SUFFICES ASSUME FileAssumption, Undisturbed, FileInv, [FileNext]_fileVars PROVE FileInv'
    OBVIOUS
<1>1. CASE UNCHANGED fileVars
    BY <1>1 DEF fileVars, FileInv, FilesNumbered, FileTypeOK, AlwaysWhole, Whole, SealersInv,
        SealerInv, Working, CopyIsApart, AnsweredSealed
<1>2. ASSUME NEW s \in Sealers,
             \/ Check(s) \/ RemoveStale(s) \/ CreateTemp(s) \/ TempTaken(s) \/ OpenOriginal(s)
             \/ CopyUnit(s) \/ WriteFinalChunk(s) \/ Fsync(s) \/ Verify(s) \/ Rename(s)
             \/ SyncDir(s) \/ Abort(s) \/ Die(s)
      PROVE  FileInv'
    BY <1>2, QuietSteps, Unlink, CreateStep, CopySteps, RenameStep, SyncDirStep
<1>3. ~AppAppends
    BY DEF AppAppends, FileInv, FileTypeOK, Undisturbed, FileAssumption
<1>4. CASE PowerLoss
    BY <1>4, PowerLossStep
<1>. QED
    BY <1>1, <1>2, <1>3, <1>4 DEF FileNext

LEMMA FileInvariant == Undisturbed => (FileSpec => []FileInv)
<1> DEFINE Inv == Undisturbed /\ FileInv
<1>1. Undisturbed /\ FileInit => Inv
    BY FileAssumption, FileInitInv
<1>2. Inv /\ [FileNext]_fileVars => Inv'
    BY FileAssumption, FileStep DEF Undisturbed
<1>3. Inv => FileInv
    OBVIOUS
<1> HIDE DEF Inv
<1>. QED
    BY <1>1, <1>2, <1>3, PTL DEF FileSpec

\* The file is there with all its data, in plaintext or sealed once and whole,
\* whatever failed, died or lost power, while one process seals it and the
\* application leaves it alone (sealed-file.ts:694-743).
THEOREM IntactCorrect == Undisturbed => (FileSpec => []Intact)
<1>1. ASSUME FileInv PROVE Intact
  <2>1. written = InitialUnits /\ dir \in dirs /\ DOMAIN cache \subseteq Nat
    BY <1>1 DEF FileInv, FileTypeOK, FilesNumbered
  <2>2. dir[Path] \in DOMAIN cache /\ cache[dir[Path]] \in {Plaintext, SealedOnce}
    BY <1>1, <2>1 DEF FileInv, AlwaysWhole, Whole
  <2>3. dir[Path] # NoEntry
    BY <2>1, <2>2, FileAssumption DEF FileAssumption
  <2>. QED
    BY <2>1, <2>2, <2>3 DEF Intact, Plaintext, SealedOnce
<1>. QED
    BY <1>1, FileInvariant, PTL DEF FileSpec

\* Once sealing has answered "sealed", no power loss brings the plaintext back,
\* under the same conditions (sealed-file.ts:358-360, 742-743).
THEOREM AnsweredSealedCorrect == Undisturbed => (FileSpec => []AnsweredSealed)
<1>1. FileInv => AnsweredSealed
    BY DEF FileInv
<1>. QED
    BY <1>1, FileInvariant, PTL DEF FileSpec

(***************************************************************************)
(* ContentCipher: a value opens in its place only.                         *)
(***************************************************************************)
KeyParts == Roots \cup Stores \cup Labels
Candidates == [key : Seq(KeyParts), retired : BOOLEAN, root : Roots]
Ciphers ==
    [store : Stores, labels : Seq(Labels), current : Candidates, retired : SUBSET Candidates]

\* Every candidate's key is derived from its own root, in the cipher's place.
KeysInPlace ==
    \A k \in {cipher.current} \cup cipher.retired :
        k.key = Key(k.root, cipher.store, cipher.labels)

Sealable(plain) == plain.kind = "text" \/ plain.form \notin {"ours", "other"}

\* A plaintext as it was found, or an envelope around the original.
StoredIsOriginal ==
    \/ stored = original
    \/ /\ Sealable(original)
       /\ \E key \in Seq(KeyParts), ctx \in Contexts : stored = Sealed(key, ctx, original)

SealedAtHome ==
    home # Refused =>
        /\ home.root \in Roots /\ home.store \in Stores /\ home.labels \in Seq(Labels)
        /\ stored = Sealed(Key(home.root, home.store, home.labels), home.context, original)

CipherInv ==
    /\ cipher \in Ciphers /\ original \in Plaintexts
    /\ KeysInPlace /\ StoredIsOriginal /\ SealedAtHome

\* A derived key says what it is derived from.
LEMMA KeySequence ==
    ASSUME NEW root \in Roots, NEW store \in Stores, NEW labels \in Seq(Labels)
    PROVE  /\ Key(root, store, labels) \in Seq(KeyParts)
           /\ Len(Key(root, store, labels)) = 2 + Len(labels)
           /\ Key(root, store, labels)[1] = root /\ Key(root, store, labels)[2] = store
           /\ \A i \in 1..Len(labels) : Key(root, store, labels)[2 + i] = labels[i]
<1>1. <<root, store>> \in Seq(KeyParts) /\ labels \in Seq(KeyParts)
    BY DEF KeyParts
<1>2. Len(<<root, store>>) = 2 /\ <<root, store>>[1] = root /\ <<root, store>>[2] = store
    OBVIOUS
<1>3. Len(labels) \in Nat
    OBVIOUS
<1>. QED
    BY <1>1, <1>2, <1>3, ConcatProperties DEF Key

LEMMA KeyInjective ==
    ASSUME NEW r1 \in Roots, NEW s1 \in Stores, NEW l1 \in Seq(Labels),
           NEW r2 \in Roots, NEW s2 \in Stores, NEW l2 \in Seq(Labels),
           Key(r1, s1, l1) = Key(r2, s2, l2)
    PROVE  r1 = r2 /\ s1 = s2 /\ l1 = l2
<1>1. r1 = r2 /\ s1 = s2
    BY KeySequence
<1>2. <<r1, s1>> \in Seq(KeyParts) /\ l1 \in Seq(KeyParts) /\ l2 \in Seq(KeyParts)
    BY DEF KeyParts
<1>3. l1 = l2
    BY <1>1, <1>2, ConcatSimplifications DEF Key
<1>. QED
    BY <1>1, <1>3

\* Deriving one label more.
LEMMA KeyAppend ==
    ASSUME NEW root \in Roots, NEW store \in Stores, NEW labels \in Seq(Labels),
           NEW label \in Labels
    PROVE  Append(Key(root, store, labels), label) = Key(root, store, Append(labels, label))
<1>1. <<root, store>> \in Seq(KeyParts) /\ labels \in Seq(KeyParts) /\ label \in KeyParts
    BY DEF KeyParts
<1>2. <<label>> \in Seq(KeyParts)
    BY <1>1
<1>3. Append(labels, label) = labels \o <<label>>
    BY <1>1, AppendIsConcat
<1>4. Append(Key(root, store, labels), label) = (<<root, store>> \o labels) \o <<label>>
    BY <1>1, KeySequence, AppendIsConcat DEF Key
<1>5. (<<root, store>> \o labels) \o <<label>> = <<root, store>> \o (labels \o <<label>>)
    BY <1>1, <1>2, ConcatAssociative
<1>. QED
    BY <1>3, <1>4, <1>5 DEF Key

LEMMA CipherInitInv == CipherInit => CipherInv
<1> SUFFICES ASSUME CipherInit PROVE CipherInv
    OBVIOUS
<1>1. PICK r \in Roots, s \in Stores : cipher = FromRoot(r, s)
    BY DEF CipherInit
<1>2. <<>> \in Seq(Labels) /\ Key(r, s, <<>>) \in Seq(KeyParts)
  <2>1. <<>> \in Seq(Labels)
    OBVIOUS
  <2>. QED
    BY <2>1, KeySequence
<1>3. Candidate(r, s, <<>>, FALSE) \in Candidates
    BY <1>2 DEF Candidate, Candidates
<1>4. cipher \in Ciphers /\ KeysInPlace
    BY <1>1, <1>2, <1>3 DEF FromRoot, Ciphers, KeysInPlace, Candidate
<1>5. original \in Plaintexts /\ stored = original /\ home = Refused
    BY DEF CipherInit
<1>. QED
    BY <1>4, <1>5 DEF CipherInv, StoredIsOriginal, SealedAtHome

(***************************************************************************)
(* Every cipher a start puts together keeps its keys in place.             *)
(***************************************************************************)
LEMMA CiphersKept ==
    ASSUME CipherInv,
           \/ \E r \in Roots, s \in Stores : Start(r, s)
           \/ \E roots \in SUBSET Roots : Retire(roots)
           \/ \E l \in Labels : Label(l)
    PROVE  CipherInv'
<1>1. UNCHANGED <<stored, original, home>>
    BY DEF Start, Retire, Label
<1>2. cipher \in Ciphers /\ KeysInPlace
    BY DEF CipherInv
<1>3. cipher' \in Ciphers /\ KeysInPlace'
  <2>1. CASE \E r \in Roots, s \in Stores : Start(r, s)
    <3>1. PICK r \in Roots, s \in Stores : cipher' = FromRoot(r, s)
        BY <2>1 DEF Start
    <3>2. <<>> \in Seq(Labels) /\ Key(r, s, <<>>) \in Seq(KeyParts)
      <4>1. <<>> \in Seq(Labels)
        OBVIOUS
      <4>. QED
        BY <4>1, KeySequence
    <3>3. Candidate(r, s, <<>>, FALSE) \in Candidates
        BY <3>2 DEF Candidate, Candidates
    <3>. QED
        BY <3>1, <3>2, <3>3 DEF FromRoot, Ciphers, KeysInPlace, Candidate
  <2>2. CASE \E roots \in SUBSET Roots : Retire(roots)
    <3>1. PICK roots \in SUBSET Roots : cipher' = WithRetiredRoots(cipher, roots)
        BY <2>2 DEF Retire
    <3>2. PICK retired : retired = {Candidate(r, cipher.store, cipher.labels, TRUE) :
                                        r \in roots \ {cipher.current.root}}
        OBVIOUS
    <3>3. cipher.store \in Stores /\ cipher.labels \in Seq(Labels)
        BY <1>2 DEF Ciphers
    <3>4. ASSUME NEW k \in retired
          PROVE  k \in Candidates /\ k.key = Key(k.root, cipher.store, cipher.labels)
      <4>1. PICK r \in Roots : k = Candidate(r, cipher.store, cipher.labels, TRUE)
        BY <3>2
      <4>. QED
        BY <4>1, <3>3, KeySequence DEF Candidate, Candidates
    <3>5. cipher' = [cipher EXCEPT !.retired = retired]
        BY <3>1, <3>2 DEF WithRetiredRoots
    <3>. QED
        BY <3>4, <3>5, <1>2 DEF Ciphers, KeysInPlace
  <2>3. CASE \E l \in Labels : Label(l)
    <3>1. PICK l \in Labels : cipher' = Subcipher(cipher, l)
        BY <2>3 DEF Label
    <3> DEFINE Derive(k) == [k EXCEPT !.key = Append(@, l)]
    <3>2. cipher.store \in Stores /\ cipher.labels \in Seq(Labels)
          /\ Append(cipher.labels, l) \in Seq(Labels)
        BY <1>2 DEF Ciphers
    <3>3. ASSUME NEW k \in {cipher.current} \cup cipher.retired
          PROVE  /\ Derive(k) \in Candidates
                 /\ Derive(k).key = Key(Derive(k).root, cipher.store, Append(cipher.labels, l))
      <4>1. k \in Candidates /\ k.key = Key(k.root, cipher.store, cipher.labels)
        BY <1>2 DEF Ciphers, KeysInPlace
      <4>2. k.root \in Roots
        BY <4>1 DEF Candidates
      <4>3. Append(k.key, l) = Key(k.root, cipher.store, Append(cipher.labels, l))
        BY <3>2, <4>1, <4>2, KeyAppend
      <4>4. Append(k.key, l) \in Seq(KeyParts)
        BY <4>1, AppendProperties DEF Candidates, KeyParts
      <4>. QED
        BY <4>1, <4>3, <4>4 DEF Candidates
    <3>4. PICK current, retired :
            current = Derive(cipher.current) /\ retired = {Derive(k) : k \in cipher.retired}
        OBVIOUS
    <3>5. cipher' = [cipher EXCEPT !.labels = Append(cipher.labels, l), !.current = current,
                                   !.retired = retired]
        BY <3>1, <3>4 DEF Subcipher
    <3>6. current \in Candidates /\ retired \in SUBSET Candidates
        BY <3>3, <3>4
    <3>7. \A k \in {current} \cup retired :
            k.key = Key(k.root, cipher.store, Append(cipher.labels, l))
        BY <3>3, <3>4
    <3> HIDE DEF Derive
    <3>8. /\ cipher' \in Ciphers /\ cipher'.store = cipher.store /\ cipher'.current = current
          /\ cipher'.retired = retired /\ cipher'.labels = Append(cipher.labels, l)
        BY <3>2, <3>5, <3>6, <1>2 DEF Ciphers
    <3>. QED
        BY <3>7, <3>8 DEF KeysInPlace
  <2>. QED
    BY <2>1, <2>2, <2>3
<1>. QED
    BY <1>1, <1>3 DEF CipherInv, StoredIsOriginal, SealedAtHome

(***************************************************************************)
(* seal and open.                                                          *)
(***************************************************************************)
LEMMA EnvelopeIsSealed ==
    ASSUME NEW key \in Seq(KeyParts), NEW ctx \in Contexts, NEW plain \in Plaintexts
    PROVE  /\ Sealed(key, ctx, plain) \in Envelopes
           /\ Sealed(key, ctx, plain) # Refused
           /\ plain.kind \in {"text", "bytes"}
<1>1. plain.kind \in {"text", "bytes"}
    BY DEF Plaintexts, Plain
<1>2. Sealed(key, ctx, plain) \in Envelopes
    BY <1>1 DEF Sealed, Envelopes, KeyParts
<1>. QED
    BY <1>1, <1>2, CipherAssumption DEF CipherAssumption

\* An envelope opens under the keys a cipher holds, for its context, and to what
\* it was sealed from.
LEMMA OpenEnvelope ==
    ASSUME NEW c, NEW key, NEW at, NEW ctx, NEW plain \in Plaintexts
    PROVE  Open(c, Sealed(key, at, plain), ctx) =
              IF (\E k \in {c.current} \cup c.retired : key = k.key) /\ at = ctx
              THEN [value |-> plain, needsReseal |-> key # c.current.key]
              ELSE Refused
<1> DEFINE sealed == Sealed(key, at, plain)
<1>1. plain.kind \in {"text", "bytes"}
    BY DEF Plaintexts, Plain
<1>2. /\ sealed.kind = plain.kind /\ sealed.form = "v1" /\ sealed.key = key
      /\ sealed.context = at /\ sealed.plain = plain
    BY DEF Sealed
<1> HIDE DEF sealed
<1>3. Open(c, sealed, ctx) = OpenSealed(c, sealed, ctx)
    BY <1>1, <1>2 DEF Open, OpenText, OpenBytes
<1>4. OpenSealed(c, sealed, ctx) =
        IF \E k \in {c.current} \cup c.retired : key = k.key /\ at = ctx
        THEN [value |-> plain, needsReseal |-> ~(key = c.current.key /\ at = ctx)]
        ELSE Refused
    BY <1>2 DEF OpenSealed, Opens
<1>. QED
    BY <1>3, <1>4 DEF sealed

\* What is no envelope opens to itself, or not at all.
LEMMA OpenPlaintext ==
    ASSUME NEW c, NEW ctx, NEW plain \in Plaintexts
    PROVE  /\ Open(c, plain, ctx) \in {Legacy(plain), Refused}
           /\ Open(c, plain, ctx) = Refused \/ Sealable(plain)
<1>1. /\ plain.kind \in {"text", "bytes"} /\ plain.form \in {"word", "ours", "other", "newer"}
      /\ plain.form = "other" => plain.kind = "bytes"
    BY DEF Plaintexts, Plain
<1>. QED
    BY <1>1 DEF Open, OpenText, OpenBytes, Sealable

\* The original, unless sealing refuses it, in an envelope of this cipher.
LEMMA SealPlaintext ==
    ASSUME NEW c, NEW ctx, NEW plain \in Plaintexts
    PROVE  IF Sealable(plain)
           THEN Seal(c, plain, ctx) = Sealed(c.current.key, ctx, plain)
           ELSE Seal(c, plain, ctx) = Refused
<1>1. plain.kind \in {"text", "bytes"}
    BY DEF Plaintexts, Plain
<1>. QED
    BY <1>1 DEF Seal, SealText, SealBytes, Sealable

\* Whatever opens is the original, and sealing does not refuse it.
LEMMA OpensToOriginal ==
    ASSUME CipherInv, NEW ctx \in Contexts, Open(cipher, stored, ctx) # Refused
    PROVE  /\ Open(cipher, stored, ctx).value = original
           /\ Sealable(original)
<1>1. original \in Plaintexts /\ StoredIsOriginal
    BY DEF CipherInv
<1>2. CASE stored = original
  <2>1. Open(cipher, original, ctx) = Legacy(original) /\ Sealable(original)
    BY <1>1, <1>2, OpenPlaintext
  <2>2. Legacy(original).value = original
    BY DEF Legacy
  <2>. QED
    BY <1>2, <2>1, <2>2
<1>3. ASSUME Sealable(original), NEW key, NEW at, stored = Sealed(key, at, original)
      PROVE  Open(cipher, stored, ctx).value = original
  <2>1. PICK reseal : Open(cipher, stored, ctx) \in
                        {[value |-> original, needsReseal |-> reseal], Refused}
    BY <1>1, <1>3, OpenEnvelope
  <2>. QED
    BY <2>1
<1>. QED
    BY <1>1, <1>2, <1>3 DEF StoredIsOriginal

\* A value sealed now is sealed at home.
LEMMA SealedNow ==
    ASSUME CipherInv, NEW ctx \in Contexts, NEW plain \in Plaintexts, Sealable(plain),
           cipher' = cipher, original' = plain, stored' = Seal(cipher, plain, ctx),
           home' = Home(ctx)
    PROVE  CipherInv'
<1>1. cipher \in Ciphers /\ KeysInPlace
    BY DEF CipherInv
<1>2. cipher.store \in Stores /\ cipher.labels \in Seq(Labels) /\ cipher.current \in Candidates
    BY <1>1 DEF Ciphers
<1>3. /\ cipher.current.key = Key(cipher.current.root, cipher.store, cipher.labels)
      /\ cipher.current.root \in Roots /\ cipher.current.key \in Seq(KeyParts)
    BY <1>1, <1>2 DEF KeysInPlace, Candidates
<1>4. stored' = Sealed(cipher.current.key, ctx, plain)
    BY SealPlaintext
<1>5. StoredIsOriginal'
    BY <1>3, <1>4 DEF StoredIsOriginal
<1>6. /\ home'.root = cipher.current.root /\ home'.store = cipher.store
      /\ home'.labels = cipher.labels /\ home'.context = ctx
    BY DEF Home
<1>7. SealedAtHome'
    BY <1>2, <1>3, <1>4, <1>6 DEF SealedAtHome
<1>8. KeysInPlace' /\ cipher' \in Ciphers
    BY <1>1 DEF KeysInPlace
<1>. QED
    BY <1>5, <1>7, <1>8 DEF CipherInv

LEMMA CipherStep == CipherInv /\ [CipherNext]_cipherVars => CipherInv'
<1> SUFFICES ASSUME CipherInv, [CipherNext]_cipherVars PROVE CipherInv'
    OBVIOUS
<1>1. CASE UNCHANGED cipherVars
    BY <1>1 DEF cipherVars, CipherInv, KeysInPlace, StoredIsOriginal, SealedAtHome
<1>2. CASE \/ \E r \in Roots, s \in Stores : Start(r, s)
           \/ \E roots \in SUBSET Roots : Retire(roots)
           \/ \E l \in Labels : Label(l)
    BY <1>2, CiphersKept
<1>3. ASSUME NEW ctx \in Contexts, NEW plain \in Plaintexts, Write(plain, ctx) PROVE CipherInv'
  <2>1. Sealable(plain)
    BY <1>3, SealPlaintext DEF Write
  <2>. QED
    BY <1>3, <2>1, SealedNow DEF Write
<1>4. ASSUME NEW ctx \in Contexts, Reseal(ctx) PROVE CipherInv'
  <2>1. Open(cipher, stored, ctx).value = original /\ Sealable(original)
    BY <1>4, OpensToOriginal DEF Reseal
  <2>2. original \in Plaintexts
    BY DEF CipherInv
  <2>. QED
    BY <1>4, <2>1, <2>2, SealedNow DEF Reseal
<1>. QED
    BY <1>1, <1>2, <1>3, <1>4 DEF CipherNext

LEMMA InPlaceOnly == CipherInv => OpensInItsPlaceOnly
<1> SUFFICES ASSUME CipherInv, home # Refused, NEW ctx \in Contexts
             PROVE  LET opened == Open(cipher, stored, ctx)
                    IN  IF /\ home.context = ctx /\ home.store = cipher.store
                           /\ home.labels = cipher.labels /\ Holds(home.root)
                        THEN opened = [value |-> original,
                                       needsReseal |-> home.root # cipher.current.root]
                        ELSE opened = Refused
    BY DEF OpensInItsPlaceOnly
<1> DEFINE key == Key(home.root, home.store, home.labels)
<1>1. /\ home.root \in Roots /\ home.store \in Stores /\ home.labels \in Seq(Labels)
      /\ stored = Sealed(key, home.context, original) /\ original \in Plaintexts
      /\ cipher \in Ciphers /\ KeysInPlace
    BY DEF CipherInv, SealedAtHome
<1>2. ASSUME NEW k \in {cipher.current} \cup cipher.retired
      PROVE  key = k.key <=> /\ home.root = k.root /\ home.store = cipher.store
                             /\ home.labels = cipher.labels
  <2>1. k.root \in Roots /\ cipher.store \in Stores /\ cipher.labels \in Seq(Labels)
        /\ k.key = Key(k.root, cipher.store, cipher.labels)
    BY <1>1 DEF Ciphers, Candidates, KeysInPlace
  <2>2. key = k.key => home.root = k.root /\ home.store = cipher.store
                       /\ home.labels = cipher.labels
    BY <1>1, <2>1, KeyInjective
  <2>. QED
    BY <2>1, <2>2
<1> HIDE DEF key
<1>3. Open(cipher, stored, ctx) =
        IF (\E k \in {cipher.current} \cup cipher.retired : key = k.key) /\ home.context = ctx
        THEN [value |-> original, needsReseal |-> key # cipher.current.key]
        ELSE Refused
    BY <1>1, OpenEnvelope
<1>. QED
    BY <1>2, <1>3 DEF Holds

LEMMA ResealOnce == CipherInv => ResealSettles
<1> SUFFICES ASSUME CipherInv, NEW ctx \in Contexts,
                    Open(cipher, stored, ctx) # Refused
             PROVE  LET again == Seal(cipher, Open(cipher, stored, ctx).value, ctx)
                    IN  /\ again # Refused
                        /\ Open(cipher, again, ctx) =
                              [value |-> Open(cipher, stored, ctx).value, needsReseal |-> FALSE]
    BY DEF ResealSettles
<1>1. Open(cipher, stored, ctx).value = original /\ Sealable(original) /\ original \in Plaintexts
    BY OpensToOriginal DEF CipherInv
<1>2. cipher.current.key \in Seq(KeyParts)
    BY DEF CipherInv, Ciphers, Candidates
<1>3. Seal(cipher, original, ctx) = Sealed(cipher.current.key, ctx, original)
    BY <1>1, SealPlaintext
<1>4. Seal(cipher, original, ctx) # Refused
    BY <1>1, <1>2, <1>3, EnvelopeIsSealed
<1>5. Open(cipher, Sealed(cipher.current.key, ctx, original), ctx) =
        [value |-> original, needsReseal |-> FALSE]
  <2>1. PICK key : key = cipher.current.key
    OBVIOUS
  <2>2. Open(cipher, Sealed(key, ctx, original), ctx) =
            [value |-> original, needsReseal |-> key # key]
    BY <1>1, <2>1, OpenEnvelope
  <2>3. (key # key) = FALSE
    OBVIOUS
  <2>. QED
    BY <2>1, <2>2, <2>3
<1>. QED
    BY <1>1, <1>3, <1>4, <1>5

\* A sealed value opens exactly in its place, under any cipher that still has its
\* root, however that cipher was put together; and what opens can be sealed again,
\* once (content.ts:109-120, 394-440, 489-577).
THEOREM OpensExactlyCorrect == CipherSpec => []OpensExactly
<1>1. CipherInv => OpensExactly
    BY InPlaceOnly, ResealOnce DEF OpensExactly
<1>. QED
    BY <1>1, CipherInitInv, CipherStep, PTL DEF CipherSpec

(***************************************************************************)
(* SharedSeal: the inductive invariant.                                    *)
(***************************************************************************)
Reads == UNION {[S -> Value] : S \in SUBSET Rows}
OpenersFit == opener \in [Procs -> [at : Ats, cursor : 0..NumRows, read : {<<>>} \cup Reads]]

Migrates(p) == Stage(p) \in {"select", "write"}

BatchesFit ==
    \A p \in Procs :
        IF Stage(p) = "write"
        THEN opener[p].read \in Reads /\ DOMAIN opener[p].read # {}
        ELSE opener[p].read = <<>>

\* A row in plaintext that no process without the key wrote beside a migration.
OldPlain(r) == IsPlain(r) /\ r \notin compatWrote

\* Such rows lie ahead of the recorded cursor and of everybody's own,
OldIsAhead ==
    \A r \in Rows :
        OldPlain(r) =>
            /\ record.cursor < r
            /\ \A p \in Procs : Migrates(p) => opener[p].cursor < r

\* and a batch that reaches over one has read it as it still is.
BatchIsCurrent ==
    \A p \in Procs, r \in Rows :
        Stage(p) = "write" /\ OldPlain(r) /\ (\E q \in DOMAIN opener[p].read : r <= q)
            => r \in DOMAIN opener[p].read /\ opener[p].read[r] = rows[r]

\* Before anybody has recorded progress nobody has opened; once one has, such
\* rows are gone.
NoneOpenAtFirst ==
    record.state = "none" => record.cursor = 0 /\ \A p \in Procs : Stage(p) # "open"
SealedForGood ==
    record.state = "sealed" \/ (\E p \in Procs : Stage(p) = "open") =>
        \A r \in Rows : ~OldPlain(r)

SharedInv ==
    /\ SharedTypeOK /\ OpenersFit /\ BatchesFit /\ WritesKept
    /\ OldIsAhead /\ BatchIsCurrent /\ NoneOpenAtFirst /\ SealedForGood

(***************************************************************************)
(* SharedSeal: the order of the rows.                                      *)
(***************************************************************************)
LEMMA GreatestRow ==
    ASSUME NEW S \in SUBSET Rows, S # {}
    PROVE  \E m \in S : \A r \in S : r <= m
<1> DEFINE N == {NumRows - r : r \in S}
<1>1. N \in SUBSET Nat /\ N # {}
  <2>1. \A r \in S : NumRows - r \in Nat
    BY SharedAssumption DEF Rows
  <2> QED BY <2>1
<1> HIDE DEF N
<1>2. PICK n \in N : \A k \in N : n <= k
  BY <1>1, LeastNatural
<1>3. PICK m \in S : n = NumRows - m
  BY DEF N
<1>4. ASSUME NEW r \in S PROVE r <= m
  <2>1. n <= NumRows - r
    BY <1>2 DEF N
  <2> QED BY <1>3, <2>1, SharedAssumption DEF Rows
<1> QED BY <1>4

LEMMA StoredIsFinite ==
    ASSUME NEW from, NEW to
    PROVE  IsFiniteSet(Stored(from, to)) /\ Cardinality(Stored(from, to)) \in Nat
<1>1. Stored(from, to) \in SUBSET Rows
  BY DEF Stored
<1>2. IsFiniteSet(Rows)
  BY SharedAssumption, FS_Interval DEF Rows
<1> QED BY <1>1, <1>2, FS_Subset, FS_CardinalityType

\* A batch has no gaps,
LEMMA BatchHasNoGaps ==
    ASSUME NEW from \in 0..NumRows, NEW m \in NextRows(from), NEW r \in Rows,
           from < r, r <= m, rows[r] # Absent
    PROVE  r \in NextRows(from)
<1>1. Stored(from, r) \subseteq Stored(from, m)
  BY SharedAssumption DEF Stored, Rows, NextRows
<1>2. Cardinality(Stored(from, r)) <= Cardinality(Stored(from, m))
  BY <1>1, StoredIsFinite, FS_Subset
<1>3. Cardinality(Stored(from, m)) <= Batch
  BY DEF NextRows
<1>4. Cardinality(Stored(from, r)) <= Batch
  BY <1>2, <1>3, StoredIsFinite, SharedAssumption
<1>5. r \in Stored(from, NumRows)
  BY SharedAssumption DEF Stored, Rows
<1> QED BY <1>4, <1>5 DEF NextRows

\* and there is one while there are rows ahead.
LEMMA BatchIfRows ==
    ASSUME NEW from \in 0..NumRows, NEW r \in Rows, from < r, rows[r] # Absent
    PROVE  NextRows(from) # {}
<1>1. Stored(from, NumRows) \in SUBSET Nat /\ Stored(from, NumRows) # {}
  BY SharedAssumption DEF Stored, Rows
<1>2. PICK m \in Stored(from, NumRows) : \A q \in Stored(from, NumRows) : m <= q
  BY <1>1, LeastNatural
<1>3. Stored(from, m) = {m}
  BY <1>2, SharedAssumption DEF Stored, Rows
<1>4. Cardinality(Stored(from, m)) = 1
  BY <1>3, FS_Singleton
<1>5. Cardinality(Stored(from, m)) <= Batch
  BY <1>4, SharedAssumption
<1> QED BY <1>2, <1>5 DEF NextRows

(***************************************************************************)
(* SharedSeal: the steps.                                                  *)
(***************************************************************************)
LEMMA InitShared == SharedInit => SharedInv
<1> SUFFICES ASSUME SharedInit PROVE SharedInv
  OBVIOUS
<1> USE SharedAssumption DEF SharedInit, NotOpen, Opener, Stage
<1>1. OpenersFit /\ BatchesFit
  BY DEF OpenersFit, BatchesFit, Ats
<1>2. SharedTypeOK
  <2>1. [content |-> 0, sealed |-> FALSE] \in Value
    BY DEF Value
  <2>2. latest \in [Rows -> 0..MaxWrites] /\ record \in [state : {"none", "sealing", "sealed"}, cursor : 0..NumRows]
    OBVIOUS
  <2> QED BY <2>1, <2>2 DEF SharedTypeOK, Ats
<1>3. WritesKept
  BY DEF WritesKept
<1>4. OldIsAhead /\ BatchIsCurrent /\ NoneOpenAtFirst /\ SealedForGood
  BY DEF OldIsAhead, BatchIsCurrent, NoneOpenAtFirst, SealedForGood, Migrates, Rows
<1> QED BY <1>1, <1>2, <1>3, <1>4 DEF SharedInv

\* What is said of a row that stays old plaintext stays true while a process only
\* goes from one stage to another.
LEMMA OpenerKeeps ==
    ASSUME SharedInv, NEW p \in Procs,
           NEW at \in Ats \ {"write"}, NEW cursor \in 0..NumRows,
           opener' = [opener EXCEPT ![p] = Opener(at, cursor)],
           UNCHANGED <<rows, latest, compatWrote>>,
           record' \in [state : {"none", "sealing", "sealed"}, cursor : 0..NumRows],
           \A r \in Rows : OldPlain(r) => record'.cursor < r /\ (at = "select" => cursor < r),
           at = "open" \/ record'.state = "sealed" => \A r \in Rows : ~OldPlain(r),
           record'.state = "none" => record.state = "none" /\ record'.cursor = 0 /\ at # "open"
    PROVE  SharedInv'
<1> USE DEF SharedInv, Stage, Opener
<1>1. \A q \in Procs :
          opener'[q] = IF q = p THEN Opener(at, cursor) ELSE opener[q]
  BY DEF OpenersFit
<1>2. \A r \in Rows : (OldPlain(r) <=> OldPlain(r)') /\ rows'[r] = rows[r]
  BY DEF OldPlain, IsPlain
<1>3. OpenersFit'
  BY DEF OpenersFit
<1>4. SharedTypeOK' /\ WritesKept' /\ BatchesFit'
  BY <1>1 DEF SharedTypeOK, WritesKept, BatchesFit
<1>5. OldIsAhead'
  BY <1>1, <1>2 DEF OldIsAhead, Migrates, Ats
<1>6. BatchIsCurrent'
  BY <1>1, <1>2 DEF BatchIsCurrent
<1>7. NoneOpenAtFirst' /\ SealedForGood'
  BY <1>1, <1>2 DEF NoneOpenAtFirst, SealedForGood
<1> QED BY <1>3, <1>4, <1>5, <1>6, <1>7

LEMMA OpenStoreKeeps ==
    ASSUME SharedInv, NEW p \in Procs, OpenStore(p)
    PROVE  SharedInv'
<1> USE DEF SharedInv
<1>1. record \in [state : {"none", "sealing", "sealed"}, cursor : 0..NumRows]
  BY DEF SharedTypeOK
<1>2. CASE record.state = "sealed" /\ ~ \E r \in Rows : IsPlain(r)
  <2>1. opener' = [opener EXCEPT ![p] = Opener("open", 0)]
    BY <1>2 DEF OpenStore
  <2>2. 0 \in 0..NumRows /\ "open" \in Ats \ {"write"}
    BY SharedAssumption DEF Ats
  <2>3. \A r \in Rows : ~OldPlain(r)
    BY <1>2 DEF OldPlain
  <2>4. UNCHANGED <<rows, record, latest, compatWrote>>
    BY DEF OpenStore
  <2>5. record'.state = "sealed"
    BY <1>2, <2>4
  <2> QED BY <1>1, <2>1, <2>2, <2>3, <2>4, <2>5, OpenerKeeps
<1>3. CASE ~(record.state = "sealed" /\ ~ \E r \in Rows : IsPlain(r))
  <2>1. PICK cursor \in 0..NumRows : cursor = record.cursor
    BY <1>1
  <2>2. opener' = [opener EXCEPT ![p] = Opener("select", cursor)]
    BY <1>3, <2>1 DEF OpenStore
  <2>3. "select" \in Ats \ {"write"}
    BY DEF Ats
  <2>4. UNCHANGED <<rows, record, latest, compatWrote>>
    BY DEF OpenStore
  <2>5. \A r \in Rows : OldPlain(r) => record'.cursor < r /\ cursor < r
    BY <2>1, <2>4 DEF OldIsAhead
  <2>6. /\ record'.state = "sealed" => \A r \in Rows : ~OldPlain(r)
        /\ record'.state = "none" => record.state = "none" /\ record'.cursor = 0
    BY <2>4 DEF SealedForGood, NoneOpenAtFirst
  <2> QED BY <1>1, <2>2, <2>3, <2>4, <2>5, <2>6, OpenerKeeps
<1> QED BY <1>2, <1>3

LEMMA OpenCompatKeeps ==
    ASSUME SharedInv, NEW p \in Procs, OpenCompat(p)
    PROVE  SharedInv'
<1> USE DEF SharedInv
<1>1. PICK cursor \in 0..NumRows : cursor = opener[p].cursor
  BY DEF OpenersFit
<1>2. opener' = [opener EXCEPT ![p] = Opener("compat", cursor)]
  <2>1. opener[p] \in [at : Ats, cursor : 0..NumRows, read : {<<>>} \cup Reads]
    BY DEF OpenersFit
  <2>2. opener[p].read = <<>>
    BY DEF OpenCompat, BatchesFit
  <2>3. [opener[p] EXCEPT !.at = "compat"] = Opener("compat", cursor)
    BY <1>1, <2>1, <2>2 DEF Opener
  <2> QED BY <2>3 DEF OpenCompat, OpenersFit
<1>3. "compat" \in Ats \ {"write"}
  BY DEF Ats
<1>4. record.state = "none" /\ UNCHANGED <<rows, record, latest, compatWrote>>
  BY DEF OpenCompat
<1>5. record' \in [state : {"none", "sealing", "sealed"}, cursor : 0..NumRows]
  BY <1>4 DEF SharedTypeOK
<1>6. \A r \in Rows : OldPlain(r) => record'.cursor < r
  BY <1>4 DEF OldIsAhead
<1>7. record'.cursor = 0
  BY <1>4 DEF NoneOpenAtFirst
<1> QED BY <1>1, <1>2, <1>3, <1>4, <1>5, <1>6, <1>7, OpenerKeeps

LEMMA EndColumnKeeps ==
    ASSUME SharedInv, NEW p \in Procs, EndColumn(p)
    PROVE  SharedInv'
<1> USE DEF SharedInv
<1>1. ASSUME NEW r \in Rows PROVE ~OldPlain(r)
  <2>1. SUFFICES ASSUME OldPlain(r) PROVE FALSE
    OBVIOUS
  <2>2. opener[p].cursor \in 0..NumRows /\ opener[p].cursor < r /\ rows[r] # Absent
    BY <2>1 DEF EndColumn, OpenersFit, OldIsAhead, Migrates, OldPlain, IsPlain
  <2> QED BY <2>2, BatchIfRows DEF EndColumn
<1>2. opener' = [opener EXCEPT ![p] = Opener("open", 0)]
  BY DEF EndColumn
<1>3. 0 \in 0..NumRows /\ "open" \in Ats \ {"write"}
  BY SharedAssumption DEF Ats
<1> QED BY <1>1, <1>2, <1>3, OpenerKeeps DEF EndColumn

LEMMA StopKeeps ==
    ASSUME SharedInv, NEW p \in Procs, Stop(p)
    PROVE  SharedInv'
<1>1. 0 \in 0..NumRows /\ "closed" \in Ats \ {"write"}
  BY SharedAssumption DEF Ats
<1> QED BY <1>1, OpenerKeeps
        DEF Stop, NotOpen, SharedInv, SharedTypeOK, OldIsAhead, NoneOpenAtFirst, SealedForGood

LEMMA SelectKeeps ==
    ASSUME SharedInv, NEW p \in Procs, Select(p)
    PROVE  SharedInv'
<1> USE DEF SharedInv
<1> DEFINE batch == NextRows(opener[p].cursor)
           read == [r \in batch |-> rows[r]]
<1>1. /\ Stage(p) = "select" /\ batch # {}
      /\ opener' = [opener EXCEPT ![p].at = "write", ![p].read = read]
      /\ UNCHANGED <<rows, record, latest, compatWrote>>
  BY DEF Select
<1>2. opener[p].cursor \in 0..NumRows
  BY DEF OpenersFit
<1>3. batch \in SUBSET Rows /\ \A r \in batch : rows[r] # Absent
  BY DEF NextRows, Stored
<1>4. read \in Reads
  <2>1. \A r \in batch : rows[r] \in Value
    BY <1>3 DEF SharedTypeOK
  <2> HIDE DEF batch
  <2>2. read \in [batch -> Value]
    BY <2>1
  <2> QED BY <1>3, <2>2 DEF Reads
<1>5. ASSUME NEW r \in Rows, OldPlain(r), NEW q \in batch, r <= q PROVE r \in batch
  <2>1. opener[p].cursor < r /\ rows[r] # Absent
    BY <1>1, <1>5 DEF OldIsAhead, Migrates, OldPlain, IsPlain
  <2> QED BY <1>2, <1>5, <2>1, BatchHasNoGaps
<1>6. DOMAIN read = batch /\ \A r \in batch : read[r] = rows[r]
  OBVIOUS
<1> HIDE DEF batch, read
<1>7. /\ \A q \in Procs \ {p} : opener'[q] = opener[q]
      /\ opener'[p].at = "write" /\ opener'[p].read = read
      /\ opener'[p].cursor = opener[p].cursor
  BY <1>1 DEF OpenersFit
<1>8. OpenersFit'
  BY <1>1, <1>4 DEF OpenersFit, Ats
<1>9. SharedTypeOK' /\ WritesKept'
  BY <1>1, <1>7, <1>8 DEF SharedTypeOK, WritesKept, OpenersFit, Stage
<1>10. BatchesFit'
  <2> SUFFICES ASSUME NEW q \in Procs
               PROVE  IF opener'[q].at = "write"
                      THEN opener'[q].read \in Reads /\ DOMAIN opener'[q].read # {}
                      ELSE opener'[q].read = <<>>
    BY DEF BatchesFit, Stage, Reads
  <2>1. CASE q = p
    BY <1>1, <1>4, <1>6, <1>7, <2>1
  <2>2. CASE q # p
    BY <1>7, <2>2 DEF BatchesFit, Stage
  <2> QED BY <2>1, <2>2
<1>11. \A r \in Rows : (OldPlain(r) <=> OldPlain(r)') /\ rows'[r] = rows[r]
  BY <1>1 DEF OldPlain, IsPlain
<1>12. OldIsAhead' /\ NoneOpenAtFirst' /\ SealedForGood'
  BY <1>1, <1>7, <1>11 DEF OldIsAhead, NoneOpenAtFirst, SealedForGood, Migrates, Stage
<1>13. BatchIsCurrent'
  BY <1>5, <1>6, <1>7, <1>11 DEF BatchIsCurrent, Stage
<1> QED BY <1>8, <1>9, <1>10, <1>12, <1>13

LEMMA WriteBatchKeeps ==
    ASSUME SharedInv, NEW p \in Procs, WriteBatch(p)
    PROVE  SharedInv'
<1> USE DEF SharedInv
<1> DEFINE read == opener[p].read
           last == CHOOSE r \in DOMAIN read : \A q \in DOMAIN read : q <= r
<1>1. /\ Stage(p) = "write"
      /\ rows' = [r \in Rows |-> SealRead(r, read)]
      /\ record' = [state |-> "sealing", cursor |-> last]
      /\ opener' = [opener EXCEPT ![p] = Opener("select", last)]
      /\ UNCHANGED <<latest, compatWrote>>
  BY DEF WriteBatch
<1>2. /\ DOMAIN read \in SUBSET Rows /\ DOMAIN read # {}
      /\ \A r \in DOMAIN read : read[r] \in Value
  BY <1>1 DEF BatchesFit, Reads
<1>3. last \in DOMAIN read /\ \A q \in DOMAIN read : q <= last
  BY <1>2, GreatestRow
<1>4. last \in 0..NumRows
  BY <1>2, <1>3, SharedAssumption DEF Rows
<1>5. ASSUME NEW r \in Rows
      PROVE  \/ rows'[r] = rows[r]
             \/ /\ rows[r] \in Value /\ rows'[r] \in Value
                /\ rows'[r].content = rows[r].content /\ rows'[r].sealed
  BY <1>1, <1>2 DEF SealRead, Value
<1>6. ASSUME NEW r \in Rows, OldPlain(r)'
      PROVE  OldPlain(r) /\ rows'[r] = rows[r] /\ last < r
  <2>1. rows'[r] = rows[r] /\ OldPlain(r)
    BY <1>1, <1>5, <1>6 DEF OldPlain, IsPlain
  <2>2. ~(r <= last)
    <3>1. SUFFICES ASSUME r <= last PROVE FALSE
      OBVIOUS
    <3>2. r \in DOMAIN read /\ read[r] = rows[r]
      BY <1>1, <1>3, <2>1, <3>1 DEF BatchIsCurrent
    <3>3. ~rows[r].sealed /\ read[r] \in Value
      BY <1>2, <2>1, <3>2 DEF OldPlain, IsPlain
    <3>4. rows'[r] = [read[r] EXCEPT !.sealed = TRUE]
      BY <1>1, <3>2, <3>3 DEF SealRead
    <3> QED BY <2>1, <3>2, <3>3, <3>4 DEF Value
  <2> QED BY <1>4, <2>1, <2>2 DEF Rows
<1> HIDE DEF read, last
<1>7. \A q \in Procs : opener'[q] = IF q = p THEN Opener("select", last) ELSE opener[q]
  BY <1>1 DEF OpenersFit
<1>8. OpenersFit' /\ BatchesFit'
  BY <1>1, <1>4, <1>7 DEF OpenersFit, BatchesFit, Opener, Stage, Ats
<1>9. SharedTypeOK'
  <2>1. rows' \in [Rows -> Value \cup {Absent}]
    BY <1>1, <1>5 DEF SharedTypeOK
  <2> QED BY <1>1, <1>4, <1>7, <2>1 DEF SharedTypeOK, Opener, Stage, Ats
<1>10. WritesKept'
  BY <1>1, <1>5, SharedAssumption DEF WritesKept, SharedTypeOK
<1>11. OldIsAhead'
  BY <1>1, <1>6, <1>7 DEF OldIsAhead, Migrates, Opener, Stage
<1>12. BatchIsCurrent'
  BY <1>6, <1>7 DEF BatchIsCurrent, Opener, Stage
<1>13. NoneOpenAtFirst' /\ SealedForGood'
  BY <1>1, <1>6, <1>7 DEF NoneOpenAtFirst, SealedForGood, Opener, Stage
<1> QED BY <1>8, <1>9, <1>10, <1>11, <1>12, <1>13

LEMMA WriteRowKeeps ==
    ASSUME SharedInv, NEW p \in Procs, NEW row \in Rows, WriteRow(p, row)
    PROVE  SharedInv'
<1> USE DEF SharedInv
<1> DEFINE content == IF rows[row] = Absent THEN 0 ELSE latest[row] + 1
           value == [content |-> content, sealed |-> Stage(p) = "open"]
<1>1. /\ Stage(p) \in {"open", "compat"} /\ content <= MaxWrites
      /\ rows' = [rows EXCEPT ![row] = value]
      /\ latest' = [latest EXCEPT ![row] = content]
      /\ compatWrote' = IF Stage(p) = "compat" /\ (Migrating \/ record.state # "none")
                        THEN compatWrote \cup {row}
                        ELSE compatWrote \ {row}
      /\ UNCHANGED <<record, opener>>
  BY DEF WriteRow
<1>2. content \in 0..MaxWrites
  BY <1>1, SharedAssumption DEF SharedTypeOK
<1>3. value \in Value /\ value.content = content /\ (value.sealed <=> Stage(p) = "open")
  BY <1>2 DEF Value
<1> HIDE DEF content, value
<1>4. SharedTypeOK' /\ OpenersFit' /\ BatchesFit'
  BY <1>1, <1>2, <1>3 DEF SharedTypeOK, OpenersFit, BatchesFit, Stage
<1>5. WritesKept'
  BY <1>1, <1>3 DEF WritesKept, SharedTypeOK
<1>6. NoneOpenAtFirst'
  BY <1>1 DEF NoneOpenAtFirst, Stage
<1>7. ASSUME NEW r \in Rows, r # row PROVE rows'[r] = rows[r] /\ (OldPlain(r)' <=> OldPlain(r))
  BY <1>1, <1>7 DEF OldPlain, IsPlain, SharedTypeOK
<1>8. rows'[row] = value
  BY <1>1 DEF SharedTypeOK
<1>9. ASSUME OldPlain(row)'
      PROVE  record.state = "none" /\ \A q \in Procs : Stage(q) \notin {"select", "write"}
  <2>1. row \notin compatWrote' /\ ~value.sealed
    BY <1>8, <1>9 DEF OldPlain, IsPlain
  <2> QED BY <1>1, <1>3, <2>1 DEF Migrating
<1>10. OldIsAhead'
  BY <1>1, <1>7, <1>9, SharedAssumption DEF OldIsAhead, NoneOpenAtFirst, Migrates, Stage, Rows
<1>11. BatchIsCurrent'
  BY <1>1, <1>7, <1>9 DEF BatchIsCurrent, Stage
<1>12. SealedForGood'
  BY <1>1, <1>7, <1>9 DEF SealedForGood, NoneOpenAtFirst, Stage
<1> QED BY <1>4, <1>5, <1>6, <1>10, <1>11, <1>12

LEMMA NextShared == SharedInv /\ [SharedNext]_sharedVars => SharedInv'
<1> SUFFICES ASSUME SharedInv, [SharedNext]_sharedVars PROVE SharedInv'
  OBVIOUS
<1>1. CASE UNCHANGED sharedVars
  BY <1>1 DEF sharedVars, SharedInv, SharedTypeOK, OpenersFit, BatchesFit, WritesKept, OldIsAhead,
          BatchIsCurrent, NoneOpenAtFirst, SealedForGood, Stage, Migrates, IsPlain, OldPlain
<1> QED BY <1>1, OpenStoreKeeps, OpenCompatKeeps, SelectKeeps, WriteBatchKeeps, EndColumnKeeps,
           StopKeeps, WriteRowKeeps DEF SharedNext

(***************************************************************************)
(* SharedSeal: the theorem.                                                *)
(***************************************************************************)
\* However many processes migrate one store at once, no write is lost, and one
\* that has opened it finds no plaintext but what a process without the key wrote
\* beside a migration (content-seal.ts:400-406, 420-480).
THEOREM SharedSafeCorrect == SharedSpec => []SharedSafe
<1>1. SharedInv => SharedSafe
  BY DEF SharedInv, SharedSafe, SealedTogether, SealedForGood, OldPlain
<1> QED BY <1>1, InitShared, NextShared, PTL DEF SharedSpec

(***************************************************************************)
(* SealedFileFormat: arithmetic of chunks.                                 *)
(***************************************************************************)
LEMMA MinOfTwo ==
    ASSUME NEW a \in Int, NEW b \in Int
    PROVE  /\ Min({a, b}) = IF a <= b THEN a ELSE b
           /\ Min({a, b}) \in {a, b}
BY DEF Min

LEMMA ProductGrows ==
    ASSUME NEW i \in Nat, NEW j \in Nat, NEW c \in Nat, i <= j
    PROVE  i * c \in Nat /\ i * c <= j * c
OBVIOUS

LEMMA ProductStep ==
    ASSUME NEW i \in Nat, NEW c \in Nat
    PROVE  (i + 1) * c = i * c + c /\ i * c \in Nat
OBVIOUS

LEMMA DivideBack ==
    ASSUME NEW p \in Nat, NEW c \in Nat \ {0}
    PROVE  /\ p \div c \in Nat /\ p % c \in 0 .. c - 1
           /\ p = (p \div c) * c + (p % c)
OBVIOUS

LEMMA SameQuotient ==
    ASSUME NEW q \in Nat, NEW r \in Nat, NEW d \in Nat, NEW s \in Nat, NEW c \in Nat \ {0},
           r < c, s < c, q * c + r = d * c + s
    PROVE  q = d /\ r = s
<1>1. CASE d < q
  <2>1. (d + 1) * c <= q * c
    BY <1>1, ProductGrows
  <2> QED BY <2>1, ProductStep
<1>2. CASE q < d
  <2>1. (q + 1) * c <= d * c
    BY <1>2, ProductGrows
  <2> QED BY <2>1, ProductStep
<1>3. CASE q = d
  BY <1>3, ProductGrows
<1> QED BY <1>1, <1>2, <1>3

LEMMA Quotient ==
    ASSUME NEW q \in Nat, NEW r \in Nat, NEW c \in Nat \ {0}, r < c
    PROVE  (q * c + r) \div c = q /\ (q * c + r) % c = r
<1>1. q * c + r \in Nat
  BY ProductGrows
<1>2. PICK p \in Nat : p = q * c + r
  BY <1>1
<1>3. PICK d \in Nat, s \in 0 .. c - 1 : d = p \div c /\ s = p % c /\ p = d * c + s
  BY DivideBack
<1>4. d = q /\ s = r
  BY <1>2, <1>3, SameQuotient
<1> QED BY <1>2, <1>3, <1>4

(***************************************************************************)
(* SealedFileFormat: the loop of push.                                     *)
(***************************************************************************)
Fills(n) == [left : 0 .. n, buffered : 0 .. chunkSize, sealed : 0 .. n]

\* What i rounds over n bytes have done, with t bytes to seal and keep in all.
Progress(n, t, i) ==
    {fill \in Fills(n) :
        /\ fill.left <= n - i /\ fill.sealed + fill.left <= n
        /\ fill.sealed * chunkSize + fill.buffered + fill.left = t}

LEMMA RoundProgresses ==
    ASSUME chunkSize \in Nat \ {0}, NEW n \in Nat, NEW t \in Nat, NEW i \in 0 .. n - 1,
           NEW fill \in Progress(n, t, i)
    PROVE  Round(fill) \in Progress(n, t, i + 1)
<1> DEFINE full == fill.buffered = chunkSize
           buffered == IF full THEN 0 ELSE fill.buffered
           room == chunkSize - buffered
           take == Min({room, fill.left})
           sealed == fill.sealed + IF full THEN 1 ELSE 0
<1>1. /\ fill.left \in 0 .. n /\ fill.buffered \in 0 .. chunkSize /\ fill.sealed \in 0 .. n
      /\ fill.left <= n - i /\ fill.sealed + fill.left <= n
      /\ fill.sealed * chunkSize + fill.buffered + fill.left = t
  BY DEF Progress, Fills
<1>2. CASE fill.left = 0
  <2>1. Round(fill) = fill
    BY <1>2 DEF Round
  <2> QED BY <1>1, <1>2, <2>1 DEF Progress
<1>3. CASE fill.left # 0
  <2>1. buffered \in 0 .. chunkSize - 1 /\ room \in 1 .. chunkSize
    BY <1>1
  <2>2. take \in 1 .. room /\ take <= fill.left
    <3> HIDE DEF room
    <3> QED BY <1>1, <1>3, <2>1, MinOfTwo
  <2>3. Round(fill) = [left |-> fill.left - take, buffered |-> buffered + take, sealed |-> sealed]
    BY <1>3 DEF Round
  <2>4. sealed \in Nat /\ sealed <= fill.sealed + 1
    BY <1>1
  <2>5. sealed * chunkSize + buffered = fill.sealed * chunkSize + fill.buffered
    BY <1>1, ProductStep
  <2> HIDE DEF take, buffered, sealed, full
  <2>6. fill.left - take \in 0 .. n /\ fill.left - take <= n - (i + 1)
    BY <1>1, <2>1, <2>2 DEF room
  <2>7. sealed + (fill.left - take) <= n /\ sealed \in 0 .. n
    BY <1>1, <2>1, <2>2, <2>4 DEF room
  <2>8. buffered + take \in 0 .. chunkSize
    BY <1>1, <2>1, <2>2 DEF room
  <2>9. sealed * chunkSize + (buffered + take) + (fill.left - take) = t
    <3>1. sealed * chunkSize \in Nat /\ fill.sealed * chunkSize \in Nat
      BY <1>1, <2>4, ProductStep
    <3> QED BY <1>1, <2>1, <2>2, <2>5, <3>1 DEF room
  <2> QED BY <2>3, <2>6, <2>7, <2>8, <2>9 DEF Progress, Fills
<1> QED BY <1>2, <1>3

\* The loop seals and keeps exactly the bytes it is given and those it had kept.
LEMMA FillTakesAll ==
    ASSUME chunkSize \in Nat \ {0}, filled \in 0 .. chunkSize, NEW n \in Nat
    PROVE  /\ Fill(n).sealed \in Nat /\ Fill(n).buffered \in 0 .. chunkSize
           /\ Fill(n).sealed * chunkSize + Fill(n).buffered = filled + n
<1> DEFINE first == [left |-> n, buffered |-> filled, sealed |-> 0]
           round == [fill \in Fills(n) |-> Round(fill)]
           rounds == [i \in 0 .. n |-> round]
           Follows(f) == f = [i \in 0 .. n |-> IF i = 0 THEN first ELSE round[f[i - 1]]]
           after == CHOOSE f : Follows(f)
<1>1. \A f : Rounds(first, rounds, n, f) <=> Follows(f)
  <2> HIDE DEF first, round
  <2>1. \A i \in 0 .. n : i # 0 => rounds[i - 1] = round
    OBVIOUS
  <2> HIDE DEF rounds
  <2> QED BY <2>1 DEF Rounds
<1>2. Follows(after)
  <2>1. \E f : Follows(f)
    <3> HIDE DEF first, rounds, Follows
    <3> QED BY <1>1, LoopIsDefined
  <2> HIDE DEF Follows
  <2> QED BY <2>1
<1>3. Fill(n) = after[n]
  BY DEF Fill, Fills
<1> DEFINE kept == [i \in 0 .. n |-> Progress(n, filled + n, i)]
<1>4. first \in kept[0]
  BY ProductStep DEF Progress, Fills
<1>5. \A i \in 0 .. n - 1 : \A fill \in kept[i] : rounds[i][fill] \in kept[i + 1]
  <2> TAKE i \in 0 .. n - 1
  <2>1. i \in 0 .. n /\ i + 1 \in 0 .. n
    OBVIOUS
  <2> TAKE fill \in kept[i]
  <2>2. fill \in Progress(n, filled + n, i)
    BY <2>1
  <2>3. fill \in Fills(n) /\ Round(fill) \in Progress(n, filled + n, i + 1)
    <3>1. filled + n \in Nat
      OBVIOUS
    <3>2. Round(fill) \in Progress(n, filled + n, i + 1)
      BY <2>2, <3>1, RoundProgresses
    <3> QED BY <2>2, <3>2 DEF Progress
  <2> QED BY <2>1, <2>3
<1>6. after[n] \in Progress(n, filled + n, n)
  <2>1. \A i \in 0 .. n : kept[i] = Progress(n, filled + n, i)
    OBVIOUS
  <2> HIDE DEF kept, rounds, first, after, Follows
  <2>2. \A i \in 0 .. n : after[i] \in kept[i]
    BY <1>1, <1>2, <1>4, <1>5, LoopKeeps
  <2> QED BY <2>1, <2>2
<1> HIDE DEF after
<1> QED BY <1>3, <1>6, ProductStep DEF Progress, Fills

(***************************************************************************)
(* SealedFileFormat: the inductive invariant.                              *)
(***************************************************************************)
SealedChunks == [index : Nat, last : BOOLEAN, bytes : Seq(Nat)]

\* The first m chunks, and a file of m full chunks and a last one of n bytes.
FullChunks(m) == [j \in 1 .. m |-> Chunk(j - 1, chunkSize, FALSE)]
AllChunks(m, n) == Append(FullChunks(m), Chunk(m, n, TRUE))

\* The chunks handed out and the buffer hold what was pushed.
FormatInv ==
    /\ chunkSize \in ChunkSizes
    /\ filled \in 0 .. chunkSize
    /\ IF finished
       THEN \E m \in Nat, n \in 0 .. chunkSize :
                chunks = AllChunks(m, n) /\ plaintextLength = m * chunkSize + n
       ELSE \E m \in Nat :
                chunks = FullChunks(m) /\ plaintextLength = m * chunkSize + filled

LEMMA ChunkIs ==
    ASSUME chunkSize \in Nat, NEW j \in Nat, NEW n \in Nat, NEW last
    PROVE  /\ Chunk(j, n, last).index = j /\ Chunk(j, n, last).last = last
           /\ Chunk(j, n, last).bytes \in Seq(Nat) /\ Len(Chunk(j, n, last).bytes) = n
           /\ \A i \in 1 .. n : Chunk(j, n, last).bytes[i] = j * chunkSize + i
<1> DEFINE bytes == [i \in 1 .. n |-> j * chunkSize + i]
<1>1. \A i \in 1 .. n : j * chunkSize + i \in Nat
  BY ProductGrows
<1>2. bytes \in Seq(Nat) /\ Len(bytes) = n
  <2>1. bytes \in [1 .. n -> Nat]
    BY <1>1
  <2> HIDE DEF bytes
  <2> QED BY <2>1
<1>3. Chunk(j, n, last) = [index |-> j, last |-> last, bytes |-> bytes]
  BY DEF Chunk
<1>4. \A i \in 1 .. n : bytes[i] = j * chunkSize + i
  OBVIOUS
<1> HIDE DEF bytes
<1> QED BY <1>2, <1>3, <1>4

LEMMA ChunkTypes ==
    ASSUME chunkSize \in Nat, NEW j \in Nat, NEW n \in Nat
    PROVE  Chunk(j, n, FALSE) \in SealedChunks /\ Chunk(j, n, TRUE) \in SealedChunks
<1>1. ASSUME NEW last \in BOOLEAN PROVE Chunk(j, n, last) \in SealedChunks
  <2>1. Chunk(j, n, last) = [index |-> j, last |-> last, bytes |-> Chunk(j, n, last).bytes]
    BY DEF Chunk
  <2> QED BY <2>1, ChunkIs DEF SealedChunks
<1> QED BY <1>1

LEMMA FullIs ==
    ASSUME chunkSize \in Nat, NEW m \in Nat
    PROVE  /\ FullChunks(m) \in Seq(SealedChunks) /\ Len(FullChunks(m)) = m
           /\ \A j \in 1 .. m : FullChunks(m)[j] = Chunk(j - 1, chunkSize, FALSE)
<1>1. \A j \in 1 .. m : Chunk(j - 1, chunkSize, FALSE) \in SealedChunks
  <2> TAKE j \in 1 .. m
  <2>1. j - 1 \in Nat
    OBVIOUS
  <2> QED BY <2>1, ChunkTypes
<1> DEFINE full == [j \in 1 .. m |-> Chunk(j - 1, chunkSize, FALSE)]
<1>2. full \in [1 .. m -> SealedChunks]
  BY <1>1
<1>3. \A j \in 1 .. m : full[j] = Chunk(j - 1, chunkSize, FALSE)
  OBVIOUS
<1>4. FullChunks(m) = full
  BY DEF FullChunks
<1> HIDE DEF full
<1>5. full \in Seq(SealedChunks) /\ Len(full) = m
  BY <1>2
<1> QED BY <1>3, <1>4, <1>5

LEMMA FullGrows ==
    ASSUME chunkSize \in Nat, NEW m \in Nat, NEW k \in Nat
    PROVE  FullChunks(m) \o [i \in 1 .. k |-> Chunk(m + i - 1, chunkSize, FALSE)] = FullChunks(m + k)
<1> DEFINE more == [i \in 1 .. k |-> Chunk(m + i - 1, chunkSize, FALSE)]
<1>1. \A i \in 1 .. k : Chunk(m + i - 1, chunkSize, FALSE) \in SealedChunks
  <2> TAKE i \in 1 .. k
  <2>1. m + i - 1 \in Nat
    OBVIOUS
  <2> QED BY <2>1, ChunkTypes
<1>2. more \in Seq(SealedChunks) /\ Len(more) = k
  <2>1. more \in [1 .. k -> SealedChunks]
    BY <1>1
  <2> HIDE DEF more
  <2> QED BY <2>1
<1>3. \A i \in 1 .. k : more[i] = Chunk(m + i - 1, chunkSize, FALSE)
  OBVIOUS
<1> HIDE DEF more
<1>4. /\ FullChunks(m) \in Seq(SealedChunks) /\ Len(FullChunks(m)) = m
      /\ \A j \in 1 .. m : FullChunks(m)[j] = Chunk(j - 1, chunkSize, FALSE)
  BY FullIs
<1>5. /\ FullChunks(m + k) \in Seq(SealedChunks) /\ Len(FullChunks(m + k)) = m + k
      /\ \A j \in 1 .. m + k : FullChunks(m + k)[j] = Chunk(j - 1, chunkSize, FALSE)
  <2>1. m + k \in Nat
    OBVIOUS
  <2> QED BY <2>1, FullIs
<1>6. FullChunks(m) \o more \in Seq(SealedChunks) /\ Len(FullChunks(m) \o more) = m + k
  BY <1>2, <1>4
<1>7. \A j \in 1 .. m + k : (FullChunks(m) \o more)[j] = FullChunks(m + k)[j]
  <2> TAKE j \in 1 .. m + k
  <2>1. CASE j <= m
    <3>1. (FullChunks(m) \o more)[j] = FullChunks(m)[j]
      BY <1>2, <1>4, <2>1
    <3>2. j \in 1 .. m
      BY <2>1
    <3>3. FullChunks(m)[j] = Chunk(j - 1, chunkSize, FALSE)
      BY <1>4, <3>2
    <3>4. FullChunks(m + k)[j] = Chunk(j - 1, chunkSize, FALSE)
      BY <1>5
    <3> QED BY <3>1, <3>3, <3>4
  <2>2. CASE ~(j <= m)
    <3>1. PICK i \in 1 .. k : i = j - m
      BY <2>2
    <3>2. (FullChunks(m) \o more)[j] = more[i]
      BY <1>2, <1>4, <2>2, <3>1
    <3>3. more[i] = Chunk(m + i - 1, chunkSize, FALSE)
      BY <1>3
    <3>4. PICK q \in Nat : q = j - 1
      OBVIOUS
    <3>5. FullChunks(m + k)[j] = Chunk(q, chunkSize, FALSE)
      BY <1>5, <3>4
    <3>6. m + i - 1 = q
      BY <3>1, <3>4
    <3>7. more[i] = Chunk(q, chunkSize, FALSE)
      BY <3>3, <3>6
    <3> QED BY <3>2, <3>5, <3>7
  <2> QED BY <2>1, <2>2
<1>8. FullChunks(m) \o more = FullChunks(m + k)
  BY <1>5, <1>6, <1>7, SeqEqual
<1> QED BY <1>8 DEF more

LEMMA FormatInvInit == FormatInit => FormatInv
<1> SUFFICES ASSUME FormatInit PROVE FormatInv
  OBVIOUS
<1> USE FormatAssumption DEF FormatInit
<1>1. chunkSize \in Nat \ {0} /\ filled \in 0 .. chunkSize
  OBVIOUS
<1>2. FullChunks(0) = <<>>
  BY DEF FullChunks
<1>3. chunks = FullChunks(0) /\ plaintextLength = 0 * chunkSize + filled
  BY <1>1, <1>2
<1> QED BY <1>1, <1>3 DEF FormatInv

LEMMA FormatInvStep == FormatInv /\ [FormatNext]_formatVars => FormatInv'
<1> SUFFICES ASSUME FormatInv, [FormatNext]_formatVars PROVE FormatInv'
  OBVIOUS
<1>1. chunkSize \in ChunkSizes /\ chunkSize \in Nat \ {0} /\ filled \in 0 .. chunkSize
  BY FormatAssumption DEF FormatInv
<1>2. ASSUME chunkSize' = chunkSize
      PROVE  \A m, n : FullChunks(m)' = FullChunks(m) /\ AllChunks(m, n)' = AllChunks(m, n)
  BY <1>2 DEF FullChunks, AllChunks, Chunk
<1>3. ASSUME NEW n \in 0 .. MaxLength - plaintextLength, Push(n) PROVE FormatInv'
  <2>1. PICK m \in Nat : chunks = FullChunks(m) /\ plaintextLength = m * chunkSize + filled
    BY <1>3 DEF Push, FormatInv
  <2>2. n \in Nat /\ Len(chunks) = m
    <3>1. plaintextLength \in Nat /\ MaxLength \in Nat
      BY <1>1, <2>1, ProductGrows, FormatAssumption
    <3>2. Len(FullChunks(m)) = m
      BY <1>1, FullIs
    <3>3. n \in Nat
      BY <3>1
    <3> QED BY <2>1, <3>2, <3>3
  <2>3. PICK k \in Nat, b \in 0 .. chunkSize :
            /\ k = Fill(n).sealed /\ b = Fill(n).buffered
            /\ k * chunkSize + b = filled + n
    BY <1>1, <2>2, FillTakesAll
  <2>4. /\ chunks' = chunks \o [i \in 1 .. k |-> Chunk(m + i - 1, chunkSize, FALSE)]
        /\ filled' = b /\ plaintextLength' = plaintextLength + n
        /\ chunkSize' = chunkSize /\ finished' = FALSE
    BY <1>3, <2>2, <2>3 DEF Push
  <2>5. chunks' = FullChunks(m + k)'
    BY <1>1, <1>2, <2>1, <2>4, FullGrows
  <2>6. plaintextLength' = (m + k) * chunkSize' + filled'
    <3>1. (m + k) * chunkSize = m * chunkSize + k * chunkSize
      BY <1>1
    <3>2. m * chunkSize \in Nat /\ k * chunkSize \in Nat
      BY <1>1, ProductGrows
    <3>3. plaintextLength' = m * chunkSize + filled + n /\ filled' = b /\ chunkSize' = chunkSize
      BY <2>1, <2>4
    <3>4. PICK mc \in Nat, kc \in Nat : mc = m * chunkSize /\ kc = k * chunkSize
      BY <3>2
    <3>5. plaintextLength' = mc + kc + b
      <4>1. plaintextLength' = mc + filled + n /\ kc + b = filled + n
        BY <2>3, <3>3, <3>4
      <4>2. filled \in Nat /\ b \in Nat
        BY <1>1
      <4> QED BY <2>2, <4>1, <4>2
    <3> QED BY <3>1, <3>3, <3>4, <3>5
  <2>7. m + k \in Nat
    OBVIOUS
  <2> QED BY <1>1, <2>4, <2>5, <2>6, <2>7 DEF FormatInv
<1>4. CASE Finish
  <2>1. PICK m \in Nat : chunks = FullChunks(m) /\ plaintextLength = m * chunkSize + filled
    BY <1>4 DEF Finish, FormatInv
  <2>2. Len(chunks) = m
    BY <1>1, <2>1, FullIs
  <2>3. PICK n \in 0 .. chunkSize : n = filled
    BY <1>1
  <2>4. /\ chunks' = Append(chunks, Chunk(m, n, TRUE)) /\ filled' = 0 /\ finished' = TRUE
        /\ chunkSize' = chunkSize /\ plaintextLength' = plaintextLength
    BY <1>4, <2>2, <2>3 DEF Finish
  <2>5. chunks' = AllChunks(m, n)' /\ plaintextLength' = m * chunkSize' + n
    BY <1>2, <2>1, <2>3, <2>4 DEF AllChunks
  <2>6. chunkSize' \in ChunkSizes /\ filled' \in 0 .. chunkSize' /\ n \in 0 .. chunkSize'
    BY <1>1, <2>4
  <2> QED BY <2>4, <2>5, <2>6 DEF FormatInv
<1>5. CASE UNCHANGED formatVars
  <2>1. chunkSize' = chunkSize /\ UNCHANGED <<plaintextLength, filled, chunks, finished>>
    BY <1>5 DEF formatVars
  <2> QED BY <1>2, <2>1 DEF FormatInv
<1> QED BY <1>3, <1>4, <1>5 DEF FormatNext

(***************************************************************************)
(* SealedFileFormat: where the chunks of a file lie.                       *)
(***************************************************************************)
LEMMA WholeIs ==
    ASSUME chunkSize \in Nat, NEW m \in Nat, NEW n \in Nat
    PROVE  /\ AllChunks(m, n) \in Seq(SealedChunks) /\ Len(AllChunks(m, n)) = m + 1
           /\ \A j \in 1 .. m : AllChunks(m, n)[j] = Chunk(j - 1, chunkSize, FALSE)
           /\ AllChunks(m, n)[m + 1] = Chunk(m, n, TRUE)
<1>1. /\ FullChunks(m) \in Seq(SealedChunks) /\ Len(FullChunks(m)) = m
      /\ \A j \in 1 .. m : FullChunks(m)[j] = Chunk(j - 1, chunkSize, FALSE)
  BY FullIs
<1>2. Chunk(m, n, TRUE) \in SealedChunks
  BY ChunkTypes
<1>3. PICK full \in Seq(SealedChunks), last \in SealedChunks :
            full = FullChunks(m) /\ last = Chunk(m, n, TRUE)
  BY <1>1, <1>2
<1>4. /\ Append(full, last) \in Seq(SealedChunks) /\ Len(Append(full, last)) = m + 1
      /\ Append(full, last)[m + 1] = last
      /\ \A j \in 1 .. m : Append(full, last)[j] = full[j]
  <2>1. Len(full) = m
    BY <1>1, <1>3
  <2>2. Append(full, last) \in Seq(SealedChunks) /\ Len(Append(full, last)) = m + 1
    BY <2>1
  <2>3. Append(full, last)[m + 1] = last
    BY <2>1
  <2>4. \A j \in 1 .. m : Append(full, last)[j] = full[j]
    BY <2>1
  <2> QED BY <2>2, <2>3, <2>4
<1>5. AllChunks(m, n) = Append(full, last)
  BY <1>3 DEF AllChunks
<1> QED BY <1>1, <1>3, <1>4, <1>5

\* Chunks lie one after the other.
LEMMA OffsetsAdd ==
    ASSUME Len(chunks) \in Nat, \A j \in 1 .. Len(chunks) : SealedLength(chunks[j]) \in Nat
    PROVE  /\ \A j \in 0 .. Len(chunks) : Offset(j) \in Nat
           /\ Offset(0) = 0
           /\ \A j \in 1 .. Len(chunks) : Offset(j) = Offset(j - 1) + SealedLength(chunks[j])
<1> DEFINE lengths == [j \in 1 .. Len(chunks) |-> SealedLength(chunks[j])]
           Follows(f) == f = [j \in 0 .. Len(chunks) |->
                                IF j = 0 THEN 0 ELSE f[j - 1] + SealedLength(chunks[j])]
           ends == CHOOSE f : Follows(f)
<1>1. \A j \in 1 .. Len(chunks) : lengths[j] = SealedLength(chunks[j]) /\ lengths[j] \in Nat
  OBVIOUS
<1>2. \A f : Sums(lengths, Len(chunks), f) <=> Follows(f)
  <2> HIDE DEF lengths
  <2>1. \A j \in 0 .. Len(chunks) : j # 0 => lengths[j] = SealedLength(chunks[j])
    BY <1>1
  <2> QED BY <2>1 DEF Sums
<1>3. \A j : Offset(j) = ends[j]
  BY DEF Offset
<1> HIDE DEF lengths, Follows
<1>4. Follows(ends)
  <2>1. \E f : Sums(lengths, Len(chunks), f)
    BY <1>1, SumIsDefined
  <2> QED BY <1>2, <2>1
<1> HIDE DEF ends
<1>5. /\ \A j \in 0 .. Len(chunks) : ends[j] \in Nat
      /\ ends[0] = 0 /\ \A j \in 1 .. Len(chunks) : ends[j] = ends[j - 1] + lengths[j]
  BY <1>1, <1>2, <1>4, SumIsNatural
<1> QED BY <1>1, <1>3, <1>5

\* Where the full chunks before the i-th lie, and the end of a file.
LEMMA FullOffsets ==
    ASSUME chunkSize \in Nat \ {0}, TagLength \in Nat \ {0}, NEW m \in Nat,
           Len(chunks) \in Nat, m <= Len(chunks),
           \A j \in 1 .. Len(chunks) : SealedLength(chunks[j]) \in Nat,
           \A j \in 1 .. m : SealedLength(chunks[j]) = chunkSize + TagLength
    PROVE  \A i \in 0 .. m : Offset(i) = i * (chunkSize + TagLength)
<1> DEFINE f == [i \in 0 .. m |-> Offset(i)]
<1>1. PICK s \in Nat : s = chunkSize + TagLength
  OBVIOUS
<1>2. f[0] = 0
  BY OffsetsAdd
<1>3. \A i \in 1 .. m : f[i] = f[i - 1] + s
  <2> TAKE i \in 1 .. m
  <2>1. i \in 1 .. Len(chunks) /\ i \in 0 .. m /\ i - 1 \in 0 .. m
    OBVIOUS
  <2>2. Offset(i) = Offset(i - 1) + SealedLength(chunks[i])
    BY <2>1, OffsetsAdd
  <2> QED BY <1>1, <2>1, <2>2
<1>4. \A i \in 0 .. m : f[i] = Offset(i)
  OBVIOUS
<1> HIDE DEF f
<1>5. \A i \in 0 .. m : f[i] = i * s
  BY <1>2, <1>3, EvenSum
<1> QED BY <1>1, <1>4, <1>5

LEMMA ChunkLength ==
    ASSUME chunkSize \in Nat, NEW j \in Nat, NEW n \in Nat, NEW last
    PROVE  SealedLength(Chunk(j, n, last)) = n + TagLength
BY ChunkIs DEF SealedLength

\* The finished file: its chunks, where they lie, and its end.
FileIs(m, n) ==
    /\ Len(chunks) = m + 1
    /\ \A i \in 0 .. m : Offset(i) = i * (chunkSize + TagLength)
    /\ \A i \in 0 .. m - 1 : chunks[i + 1] = Chunk(i, chunkSize, FALSE)
    /\ chunks[m + 1] = Chunk(m, n, TRUE)
    /\ Total = m * (chunkSize + TagLength) + (n + TagLength)

LEMMA WholeFile ==
    ASSUME chunkSize \in Nat \ {0}, TagLength \in Nat \ {0}, NEW m \in Nat, NEW n \in Nat,
           chunks = AllChunks(m, n)
    PROVE  FileIs(m, n)
<1>1. /\ Len(chunks) = m + 1 /\ chunks[m + 1] = Chunk(m, n, TRUE)
      /\ \A j \in 1 .. m : chunks[j] = Chunk(j - 1, chunkSize, FALSE)
  BY WholeIs
<1>2. \A j \in 1 .. m : SealedLength(chunks[j]) = chunkSize + TagLength
  <2> TAKE j \in 1 .. m
  <2>1. PICK i \in Nat : i = j - 1
    OBVIOUS
  <2>2. SealedLength(Chunk(i, chunkSize, FALSE)) = chunkSize + TagLength
    BY ChunkLength
  <2> QED BY <1>1, <2>1, <2>2
<1>3. SealedLength(chunks[m + 1]) = n + TagLength
  <2>1. SealedLength(Chunk(m, n, TRUE)) = n + TagLength
    BY ChunkLength
  <2> QED BY <1>1, <2>1
<1>4. \A j \in 1 .. Len(chunks) : SealedLength(chunks[j]) \in Nat
  <2> TAKE j \in 1 .. Len(chunks)
  <2>1. j \in 1 .. m \/ j = m + 1
    BY <1>1
  <2> QED BY <1>2, <1>3, <2>1
<1>5. m <= Len(chunks) /\ Len(chunks) \in Nat
  BY <1>1
<1>6. \A i \in 0 .. m : Offset(i) = i * (chunkSize + TagLength)
  BY <1>2, <1>4, <1>5, FullOffsets
<1>7. Offset(m + 1) = Offset(m) + SealedLength(chunks[m + 1])
  <2>1. m + 1 \in 1 .. Len(chunks) /\ (m + 1) - 1 = m
    BY <1>1
  <2> QED BY <1>4, <1>5, <2>1, OffsetsAdd
<1>8. \A i \in 0 .. m - 1 : chunks[i + 1] = Chunk(i, chunkSize, FALSE)
  <2> TAKE i \in 0 .. m - 1
  <2>1. PICK j \in 1 .. m : j = i + 1 /\ i = j - 1
    OBVIOUS
  <2> QED BY <1>1, <2>1
<1>9. Total = m * (chunkSize + TagLength) + (n + TagLength)
  <2>1. Total = Offset(m) + (n + TagLength)
    BY <1>1, <1>3, <1>7 DEF Total
  <2>2. Offset(m) = m * (chunkSize + TagLength)
    BY <1>6
  <2> QED BY <2>1, <2>2
<1> QED BY <1>1, <1>6, <1>8, <1>9 DEF FileIs

(***************************************************************************)
(* SealedFileFormat: what opens.                                           *)
(***************************************************************************)
LEMMA LayoutTypes ==
    ASSUME chunkSize \in Nat \ {0}, TagLength \in Nat \ {0}, NEW size \in Nat
    PROVE  Layout(size) = Unreadable \/ Layout(size) \in Layouts
<1> DEFINE sealed == chunkSize + TagLength
<1>1. size \div sealed \in Nat /\ size % sealed \in Nat
  <2>1. sealed \in Nat \ {0}
    OBVIOUS
  <2> HIDE DEF sealed
  <2> QED BY <2>1, DivideBack
<1>2. PICK full \in Nat, rem \in Nat : full = size \div sealed /\ rem = size % sealed
  BY <1>1
<1>3. Layout(size) =
        IF size < TagLength \/ (0 < rem /\ rem < TagLength) THEN Unreadable
        ELSE IF rem = 0 THEN [count |-> full, length |-> full * chunkSize]
        ELSE [count |-> full + 1, length |-> full * chunkSize + (rem - TagLength)]
  BY <1>2 DEF Layout
<1>4. full * chunkSize \in Nat /\ full + 1 \in Nat
  BY ProductGrows
<1>5. ASSUME ~(0 < rem /\ rem < TagLength), rem # 0
      PROVE  full * chunkSize + (rem - TagLength) \in Nat
  BY <1>4, <1>5
<1> QED BY <1>3, <1>4, <1>5 DEF Layouts

\* Without a last chunk nothing opens, and with one nothing shorter than the file.
LEMMA OpensAtTheLast ==
    ASSUME chunkSize \in Nat \ {0}, TagLength \in Nat \ {0}, NEW size \in Nat,
           FileOpens(size, {})
    PROVE  \E i \in 1 .. Len(chunks) :
              chunks[i].last = TRUE /\ Offset(i - 1) + SealedLength(chunks[i]) <= size
<1> DEFINE layout == Layout(size)
           len == layout.length - (layout.count - 1) * chunkSize + TagLength
           offset == (layout.count - 1) * (chunkSize + TagLength)
           whole == {i \in 1 .. Len(chunks) :
                    /\ Offset(i - 1) = offset /\ SealedLength(chunks[i]) = len
                    /\ offset + len <= size
                    /\ chunks[i].index = layout.count - 1 /\ chunks[i].last = TRUE
                    /\ layout.count - 1 \notin {}}
<1>1. layout # Unreadable /\ LoadChunk(size, {}, layout, layout.count - 1) # Unreadable
  BY DEF FileOpens
<1>2. layout.count \in Nat
  BY <1>1, LayoutTypes DEF Layouts
<1>3. (layout.count - 1) + 1 = layout.count
  BY <1>2
<1> HIDE DEF layout
<1>4. LoadChunk(size, {}, layout, layout.count - 1)
        = Decrypt(size, {}, offset, len, layout.count - 1, TRUE)
  BY <1>3 DEF LoadChunk
<1>5. whole # {}
  BY <1>1, <1>4 DEF Decrypt
<1> QED BY <1>5

LEMMA LayoutOfFile ==
    ASSUME chunkSize \in Nat \ {0}, TagLength \in Nat \ {0},
           NEW m \in Nat, NEW n \in 0 .. chunkSize
    PROVE  Layout(m * (chunkSize + TagLength) + (n + TagLength))
            = [count |-> m + 1, length |-> m * chunkSize + n]
<1> DEFINE sealed == chunkSize + TagLength
           size == m * sealed + (n + TagLength)
<1>1. sealed \in Nat \ {0} /\ m * sealed \in Nat /\ n + TagLength \in Nat /\ size \in Nat
  <2>1. sealed \in Nat \ {0}
    OBVIOUS
  <2> HIDE DEF sealed
  <2> QED BY <2>1, ProductGrows
<1>2. ~(size < TagLength)
  <2> HIDE DEF sealed
  <2> QED BY <1>1
<1>3. Layout(size) =
        IF size < TagLength \/ (0 < size % sealed /\ size % sealed < TagLength) THEN Unreadable
        ELSE IF size % sealed = 0
             THEN [count |-> size \div sealed, length |-> (size \div sealed) * chunkSize]
        ELSE [count |-> (size \div sealed) + 1,
              length |-> (size \div sealed) * chunkSize + ((size % sealed) - TagLength)]
  BY DEF Layout
<1>4. CASE n = chunkSize
  <2>1. size = (m + 1) * sealed + 0
    BY <1>4, ProductStep
  <2>2. size \div sealed = m + 1 /\ size % sealed = 0
    <3>1. m + 1 \in Nat /\ 0 \in Nat /\ 0 < sealed
      BY <1>1
    <3> HIDE DEF sealed, size
    <3> QED BY <1>1, <2>1, <3>1, Quotient
  <2>3. (m + 1) * chunkSize = m * chunkSize + n
    BY <1>4, ProductStep
  <2> HIDE DEF sealed, size
  <2>4. Layout(size) = [count |-> m + 1, length |-> (m + 1) * chunkSize]
    BY <1>2, <1>3, <2>2
  <2> QED BY <2>3, <2>4 DEF size, sealed
<1>5. CASE n # chunkSize
  <2>1. size \div sealed = m /\ size % sealed = n + TagLength
    <3>1. n + TagLength < sealed
      BY <1>5
    <3> HIDE DEF sealed
    <3> QED BY <1>1, <3>1, Quotient
  <2>2. ~(n + TagLength < TagLength) /\ n + TagLength # 0 /\ (n + TagLength) - TagLength = n
    OBVIOUS
  <2> HIDE DEF sealed, size
  <2>3. Layout(size) = [count |-> m + 1, length |-> m * chunkSize + n]
    BY <1>2, <1>3, <2>1, <2>2
  <2> QED BY <2>3 DEF size, sealed
<1> QED BY <1>4, <1>5

\* The bytes of a file's chunks.
PlainLength(m, n, i) == IF i = m THEN n ELSE chunkSize

ChunkHolds(m, n, i) ==
    /\ chunks[i + 1].index = i
    /\ chunks[i + 1].last = IF i = m THEN TRUE ELSE FALSE
    /\ SealedLength(chunks[i + 1]) = PlainLength(m, n, i) + TagLength
    /\ chunks[i + 1].bytes \in Seq(Nat)
    /\ Len(chunks[i + 1].bytes) = PlainLength(m, n, i)
    /\ \A x \in 1 .. PlainLength(m, n, i) : chunks[i + 1].bytes[x] = i * chunkSize + x

LEMMA ChunkOfFile ==
    ASSUME chunkSize \in Nat \ {0}, NEW m \in Nat, NEW n \in 0 .. chunkSize, FileIs(m, n),
           NEW i \in 0 .. m
    PROVE  ChunkHolds(m, n, i)
<1>1. n \in Nat /\ chunkSize \in Nat /\ i \in Nat
  OBVIOUS
<1>2. ASSUME NEW k \in Nat, NEW last, chunks[i + 1] = Chunk(i, k, last)
      PROVE  /\ chunks[i + 1].index = i /\ chunks[i + 1].last = last
             /\ SealedLength(chunks[i + 1]) = k + TagLength
             /\ chunks[i + 1].bytes \in Seq(Nat) /\ Len(chunks[i + 1].bytes) = k
             /\ \A x \in 1 .. k : chunks[i + 1].bytes[x] = i * chunkSize + x
  <2>1. /\ Chunk(i, k, last).index = i /\ Chunk(i, k, last).last = last
        /\ Chunk(i, k, last).bytes \in Seq(Nat) /\ Len(Chunk(i, k, last).bytes) = k
        /\ \A x \in 1 .. k : Chunk(i, k, last).bytes[x] = i * chunkSize + x
    BY <1>1, ChunkIs
  <2> QED BY <1>2, <2>1 DEF SealedLength
<1>3. CASE i = m
  <2>1. chunks[i + 1] = Chunk(i, n, TRUE) /\ PlainLength(m, n, i) = n
    BY <1>3 DEF FileIs, PlainLength
  <2> QED BY <1>1, <1>2, <1>3, <2>1 DEF ChunkHolds
<1>4. CASE i # m
  <2>1. i \in 0 .. m - 1
    BY <1>4
  <2>2. chunks[i + 1] = Chunk(i, chunkSize, FALSE) /\ PlainLength(m, n, i) = chunkSize
    BY <1>4, <2>1 DEF FileIs, PlainLength
  <2> QED BY <1>1, <1>2, <1>4, <2>2 DEF ChunkHolds
<1> QED BY <1>3, <1>4

\* Every chunk of a whole file opens, unless it was altered.
LEMMA ChunksLoad ==
    ASSUME chunkSize \in Nat \ {0}, TagLength \in Nat \ {0}, NEW m \in Nat,
           NEW n \in 0 .. chunkSize, FileIs(m, n), NEW i \in 0 .. m, NEW bad
    PROVE  LoadChunk(Total, bad, [count |-> m + 1, length |-> m * chunkSize + n], i)
            = IF i \in bad THEN Unreadable ELSE chunks[i + 1].bytes
<1> DEFINE layout == [count |-> m + 1, length |-> m * chunkSize + n]
           last == i + 1 = layout.count
           len == IF last THEN layout.length - i * chunkSize + TagLength
                  ELSE chunkSize + TagLength
           offset == i * (chunkSize + TagLength)
           whole == {j \in 1 .. Len(chunks) :
                    /\ Offset(j - 1) = offset /\ SealedLength(chunks[j]) = len
                    /\ offset + len <= Total
                    /\ chunks[j].index = i /\ chunks[j].last = last
                    /\ i \notin bad}
<1>1. LoadChunk(Total, bad, layout, i)
        = IF whole = {} THEN Unreadable ELSE chunks[CHOOSE j \in whole : TRUE].bytes
  BY DEF LoadChunk, Decrypt
<1>2. \A j \in whole : j = i + 1
  <2> TAKE j \in whole
  <2>1. PICK k \in 0 .. m : k = j - 1 /\ j = k + 1
    BY DEF FileIs
  <2>2. chunks[k + 1].index = k
    <3>1. ChunkHolds(m, n, k)
      BY ChunkOfFile
    <3> QED BY <3>1 DEF ChunkHolds
  <2> QED BY <2>1, <2>2
<1>3. ASSUME i \notin bad PROVE i + 1 \in whole
  <2>1. i + 1 \in 1 .. Len(chunks) /\ (i + 1) - 1 = i
    BY DEF FileIs
  <2>2. Offset(i) = offset
    BY DEF FileIs
  <2>3. /\ SealedLength(chunks[i + 1]) = len /\ offset + len <= Total
        /\ chunks[i + 1].index = i /\ chunks[i + 1].last = last
    <3>1. /\ chunks[i + 1].index = i /\ chunks[i + 1].last = IF i = m THEN TRUE ELSE FALSE
          /\ SealedLength(chunks[i + 1]) = PlainLength(m, n, i) + TagLength
      <4>1. ChunkHolds(m, n, i)
        BY ChunkOfFile
      <4> QED BY <4>1 DEF ChunkHolds
    <3>2. CASE i = m
      <4>1. last = TRUE /\ len = n + TagLength
        <5>1. m * chunkSize \in Nat
          BY ProductGrows
        <5> QED BY <3>2, <5>1
      <4>2. offset + (n + TagLength) <= Total
        <5>1. offset \in Nat /\ Total = offset + (n + TagLength)
          <6>1. chunkSize + TagLength \in Nat
            OBVIOUS
          <6> QED BY <3>2, <6>1, ProductGrows DEF FileIs
        <5> QED BY <5>1
      <4> HIDE DEF len, offset, last
      <4> QED BY <3>1, <3>2, <4>1, <4>2 DEF PlainLength
    <3>3. CASE i # m
      <4>1. last = FALSE /\ len = chunkSize + TagLength
        BY <3>3
      <4>2. offset + (chunkSize + TagLength) <= Total
        <5>1. PICK s \in Nat : s = chunkSize + TagLength
          OBVIOUS
        <5>2. (i + 1) * s <= m * s /\ (i + 1) * s = i * s + s /\ i * s \in Nat /\ m * s \in Nat
          BY <3>3, ProductGrows, ProductStep
        <5>3. Total = m * s + (n + TagLength)
          BY <5>1 DEF FileIs
        <5> QED BY <5>1, <5>2, <5>3
      <4> HIDE DEF len, offset, last
      <4> QED BY <3>1, <3>3, <4>1, <4>2 DEF PlainLength
    <3> QED BY <3>2, <3>3
  <2> HIDE DEF len, offset, last
  <2> QED BY <1>3, <2>1, <2>2, <2>3
<1>4. i \in bad => whole = {}
  OBVIOUS
<1>5. i \notin bad => (CHOOSE j \in whole : TRUE) = i + 1
  <2> HIDE DEF whole
  <2> QED BY <1>2, <1>3
<1> HIDE DEF whole
<1> QED BY <1>1, <1>3, <1>4, <1>5

LEMMA OnlyWholeOpens ==
    ASSUME FormatInv
    PROVE  OpensOnlyWhole
<1>1. chunkSize \in Nat \ {0} /\ TagLength \in Nat \ {0} /\ filled \in 0 .. chunkSize
  BY FormatAssumption DEF FormatInv
<1>2. CASE ~finished
  <2>1. PICK m \in Nat : chunks = FullChunks(m)
    BY <1>2 DEF FormatInv
  <2>2. /\ Len(chunks) = m
        /\ \A j \in 1 .. m : chunks[j] = Chunk(j - 1, chunkSize, FALSE)
    BY <1>1, <2>1, FullIs
  <2>3. ASSUME NEW i \in 1 .. m PROVE chunks[i].last = FALSE /\ SealedLength(chunks[i]) \in Nat
    <3>1. PICK j \in Nat : j = i - 1
      OBVIOUS
    <3>2. chunks[i] = Chunk(j, chunkSize, FALSE) /\ chunkSize \in Nat
      BY <1>1, <2>2, <3>1
    <3>3. SealedLength(Chunk(j, chunkSize, FALSE)) = chunkSize + TagLength
      BY <3>2, ChunkLength
    <3>4. ASSUME NEW last PROVE Chunk(j, chunkSize, last).last = last
      BY <3>2, ChunkIs
    <3>5. chunks[i].last = FALSE
      BY <3>2, <3>4
    <3>6. SealedLength(chunks[i]) \in Nat
      <4>1. PICK v \in Nat : v = chunkSize + TagLength
        BY <1>1
      <4> QED BY <3>2, <3>3, <4>1
    <3> QED BY <3>5, <3>6
  <2>4. Total \in Nat
    <3>1. \A j \in 1 .. Len(chunks) : SealedLength(chunks[j]) \in Nat
      BY <2>2, <2>3
    <3>2. Len(chunks) \in 0 .. Len(chunks) /\ Len(chunks) \in Nat
      BY <2>2
    <3> QED BY <3>1, <3>2, OffsetsAdd DEF Total
  <2>5. ASSUME NEW size \in 0 .. Total PROVE ~FileOpens(size, {})
    <3>1. size \in Nat
      BY <2>4
    <3> QED BY <1>1, <2>2, <2>3, <3>1, OpensAtTheLast
  <2> QED BY <1>2, <2>5 DEF OpensOnlyWhole
<1>3. CASE finished
  <2>1. PICK m \in Nat, n \in 0 .. chunkSize :
            chunks = AllChunks(m, n) /\ plaintextLength = m * chunkSize + n
    BY <1>3 DEF FormatInv
  <2>2. n \in Nat /\ FileIs(m, n)
    <3>1. n \in Nat
      BY <1>1
    <3> QED BY <1>1, <2>1, <3>1, WholeFile
  <2> DEFINE layout == [count |-> m + 1, length |-> m * chunkSize + n]
  <2>3. Total \in Nat /\ Total = m * (chunkSize + TagLength) + (n + TagLength)
    <3>1. PICK s \in Nat : s = chunkSize + TagLength
      BY <1>1
    <3>2. Total = m * s + (n + TagLength)
      BY <2>2, <3>1 DEF FileIs
    <3> QED BY <1>1, <2>2, <3>1, <3>2, ProductGrows
  <2>4. ASSUME NEW size \in 0 .. Total, FileOpens(size, {}) PROVE size = Total
    <3>1. size \in Nat
      BY <2>3
    <3>2. PICK j \in 1 .. Len(chunks) :
            chunks[j].last = TRUE /\ Offset(j - 1) + SealedLength(chunks[j]) <= size
      BY <1>1, <2>4, <3>1, OpensAtTheLast
    <3>3. PICK i \in 0 .. m : j = i + 1 /\ i = j - 1
      BY <2>2, <3>2 DEF FileIs
    <3>4. ChunkHolds(m, n, i)
      BY <1>1, <2>2, ChunkOfFile
    <3>5. i = m /\ SealedLength(chunks[j]) = n + TagLength
      BY <3>2, <3>3, <3>4 DEF ChunkHolds, PlainLength
    <3>6. Offset(j - 1) = m * (chunkSize + TagLength)
      BY <2>2, <3>3, <3>5 DEF FileIs
    <3>7. Total <= size
      BY <2>3, <3>2, <3>5, <3>6
    <3> QED BY <2>3, <3>7
  <2>5. Layout(Total) = layout
    BY <1>1, <2>3, LayoutOfFile
  <2>6. FileOpens(Total, {})
    <3>1. layout.count - 1 = m /\ m \in 0 .. m
      OBVIOUS
    <3>2. LoadChunk(Total, {}, layout, m) = chunks[m + 1].bytes
      BY <1>1, <2>2, <3>1, ChunksLoad
    <3>3. chunks[m + 1].bytes \in Seq(Nat)
      <4>1. ChunkHolds(m, n, m)
        BY <1>1, <2>2, <3>1, ChunkOfFile
      <4> QED BY <4>1 DEF ChunkHolds
    <3>4. layout \in Layouts
      <4>1. m * chunkSize + n \in Nat
        BY <1>1, <2>2, ProductGrows
      <4> QED BY <4>1 DEF Layouts
    <3> HIDE DEF layout
    <3> QED BY <2>5, <3>1, <3>2, <3>3, <3>4, FormatAssumption DEF FileOpens
  <2>7. Layout(Total).length = plaintextLength
    BY <2>1, <2>5
  <2> QED BY <1>3, <2>3, <2>4, <2>6, <2>7 DEF OpensOnlyWhole
<1> QED BY <1>2, <1>3

(***************************************************************************)
(* SealedFileFormat: what is read.                                         *)
(***************************************************************************)
\* The bytes p .. e - 1 of the plaintext, and the answer for them.
Slice(p, e) == [x \in 1 .. e - p |-> p + x]

Answer(bad, p, e) ==
    IF \E q \in p .. e - 1 : q \div chunkSize \in bad THEN Unreadable ELSE Slice(p, e)

LEMMA SliceIs ==
    ASSUME NEW p \in Nat, NEW e \in Nat, p <= e
    PROVE  /\ Slice(p, e) \in Seq(Nat) /\ Len(Slice(p, e)) = e - p
           /\ \A x \in 1 .. e - p : Slice(p, e)[x] = p + x
<1> DEFINE slice == [x \in 1 .. e - p |-> p + x]
<1>1. e - p \in Nat /\ slice \in [1 .. e - p -> Nat]
  OBVIOUS
<1>2. \A x \in 1 .. e - p : slice[x] = p + x
  OBVIOUS
<1>3. Slice(p, e) = slice
  BY DEF Slice
<1> HIDE DEF slice
<1>4. slice \in Seq(Nat) /\ Len(slice) = e - p
  BY <1>1
<1> QED BY <1>2, <1>3, <1>4

LEMMA SlicesJoin ==
    ASSUME NEW p \in Nat, NEW d \in Nat, NEW e \in Nat, p <= d, d <= e
    PROVE  Slice(p, d) \o Slice(d, e) = Slice(p, e)
<1>1. /\ Slice(p, d) \in Seq(Nat) /\ Len(Slice(p, d)) = d - p
      /\ \A x \in 1 .. d - p : Slice(p, d)[x] = p + x
  BY SliceIs
<1>2. /\ Slice(d, e) \in Seq(Nat) /\ Len(Slice(d, e)) = e - d
      /\ \A x \in 1 .. e - d : Slice(d, e)[x] = d + x
  BY SliceIs
<1>3. p <= e /\ e - p \in Nat
  OBVIOUS
<1>4. /\ Slice(p, e) \in Seq(Nat) /\ Len(Slice(p, e)) = e - p
      /\ \A x \in 1 .. e - p : Slice(p, e)[x] = p + x
  BY <1>3, SliceIs
<1>5. /\ Slice(p, d) \o Slice(d, e) \in Seq(Nat)
      /\ Len(Slice(p, d) \o Slice(d, e)) = e - p
  <2>1. Len(Slice(p, d) \o Slice(d, e)) = Len(Slice(p, d)) + Len(Slice(d, e))
    BY <1>1, <1>2, ConcatProperties
  <2> QED BY <1>1, <1>2, <2>1
<1>6. \A x \in 1 .. e - p : (Slice(p, d) \o Slice(d, e))[x] = Slice(p, e)[x]
  <2> TAKE x \in 1 .. e - p
  <2>1. CASE x <= d - p
    <3>1. (Slice(p, d) \o Slice(d, e))[x] = Slice(p, d)[x]
      BY <1>1, <1>2, <2>1
    <3>2. x \in 1 .. d - p
      BY <2>1
    <3> QED BY <1>1, <1>4, <3>1, <3>2
  <2>2. CASE ~(x <= d - p)
    <3>1. PICK y \in 1 .. e - d : y = x - (d - p)
      BY <2>2
    <3>2. (Slice(p, d) \o Slice(d, e))[x] = Slice(d, e)[y]
      BY <1>1, <1>2, <2>2, <3>1
    <3>3. Slice(d, e)[y] = d + y /\ d + y = p + x
      BY <1>2, <3>1
    <3> QED BY <1>4, <3>2, <3>3
  <2> QED BY <2>1, <2>2
<1> QED BY <1>3, <1>4, <1>5, <1>6, SeqEqual

\* t bytes after the first w.
Cut(b, w, t) == SubSeq(b, w + 1, w + t)

\* A part of a chunk's bytes, which count on from the first.
Counts(b, first) == \A x \in 1 .. Len(b) : b[x] = first + x

LEMMA ChunkSlice ==
    ASSUME NEW b \in Seq(Nat), NEW first \in Nat, Counts(b, first),
           NEW w \in Nat, NEW t \in Nat, w + t <= Len(b),
           NEW p \in Nat, NEW d \in Nat, p = first + w, d = p + t
    PROVE  Cut(b, w, t) = Slice(p, d)
<1>1. /\ Slice(p, d) \in Seq(Nat) /\ Len(Slice(p, d)) = d - p
      /\ \A x \in 1 .. d - p : Slice(p, d)[x] = p + x
  <2>1. p <= d
    OBVIOUS
  <2> QED BY <2>1, SliceIs
<1>2. SubSeq(b, w + 1, w + t) \in Seq(Nat) /\ Len(SubSeq(b, w + 1, w + t)) = t
  BY SubSeqProperties
<1>3. \A x \in 1 .. t : SubSeq(b, w + 1, w + t)[x] = first + w + x
  <2> TAKE x \in 1 .. t
  <2>1. w + x \in 1 .. Len(b)
    OBVIOUS
  <2>2. SubSeq(b, w + 1, w + t)[x] = b[w + x]
    OBVIOUS
  <2> QED BY <2>1, <2>2 DEF Counts
<1>4. \A x \in 1 .. t : SubSeq(b, w + 1, w + t)[x] = Slice(p, d)[x]
  <2> TAKE x \in 1 .. t
  <2>1. x \in 1 .. d - p
    OBVIOUS
  <2> QED BY <1>1, <1>3, <2>1
<1>5. Len(Slice(p, d)) = t
  BY <1>1
<1> QED BY <1>1, <1>2, <1>4, <1>5, SeqEqual DEF Cut

\* Which chunk a byte is in, and how much of the range that chunk holds.
LEMMA ByteInChunk ==
    ASSUME NEW c \in Nat \ {0}, NEW m \in Nat, NEW n \in 0 .. c,
           NEW p \in Nat, p < m * c + n
    PROVE  /\ p \div c \in 0 .. m /\ p - (p \div c) * c \in 0 .. c - 1
           /\ (p \div c) * c \in Nat
           /\ p - (p \div c) * c < IF p \div c = m THEN n ELSE c
<1>1. PICK i \in Nat, w \in 0 .. c - 1 : i = p \div c /\ p = i * c + w
  BY DivideBack
<1>2. i * c \in Nat /\ m * c \in Nat
  BY ProductGrows
<1>3. i <= m
  <2> SUFFICES ASSUME ~(i <= m) PROVE FALSE
    OBVIOUS
  <2>1. (m + 1) * c <= i * c
    BY ProductGrows
  <2>2. (m + 1) * c = m * c + c
    BY ProductStep
  <2> QED BY <1>1, <1>2, <2>1, <2>2
<1>4. p - i * c = w
  BY <1>1, <1>2
<1>5. i = m => w < n
  BY <1>1, <1>2
<1> QED BY <1>1, <1>2, <1>3, <1>4, <1>5

\* The bytes after p that the same chunk holds.
LEMMA SameChunk ==
    ASSUME NEW c \in Nat \ {0}, NEW p \in Nat, NEW t \in Nat,
           p - (p \div c) * c + t <= c, NEW q \in p .. p + t - 1
    PROVE  q \div c = p \div c
<1>1. PICK i \in Nat, w \in 0 .. c - 1 : i = p \div c /\ p = i * c + w
  BY DivideBack
<1>2. i * c \in Nat
  BY ProductGrows
<1>3. PICK a \in Nat : a = i * c
  BY <1>2
<1>4. PICK r \in Nat : r = q - a
  <2>1. p = a + w /\ q >= p /\ q \in Int
    BY <1>1, <1>3
  <2> QED BY <2>1
<1>5. r < c /\ q = i * c + r
  <2>1. p = a + w /\ p - a + t <= c /\ q = a + r /\ q <= p + t - 1
    BY <1>1, <1>3, <1>4
  <2> QED BY <1>3, <2>1
<1> QED BY <1>1, <1>5, Quotient

\* What chunks() puts before the answer f gives for the chunks that follow.
ReadOnce(f, size, bad, layout, end, p) ==
    IF p = end THEN <<>>
    ELSE LET i == p \div chunkSize
             bytes == LoadChunk(size, bad, layout, i)
             within == p - i * chunkSize
             take == Min({end - p, Len(bytes) - within})
             rest == f[p + take]
         IN  IF bytes = Unreadable \/ rest = Unreadable THEN Unreadable
             ELSE SubSeq(bytes, within + 1, within + take) \o rest

LEMMA ReadStep ==
    ASSUME chunkSize \in Nat \ {0}, TagLength \in Nat \ {0}, NEW m \in Nat,
           NEW n \in 0 .. chunkSize, FileIs(m, n), NEW bad, NEW e \in Nat, e <= m * chunkSize + n,
           NEW p \in 0 .. e, NEW f, \A d \in p + 1 .. e : f[d] = Answer(bad, d, e)
    PROVE  ReadOnce(f, Total, bad, [count |-> m + 1, length |-> m * chunkSize + n], e, p)
            = Answer(bad, p, e)
<1> DEFINE layout == [count |-> m + 1, length |-> m * chunkSize + n]
<1>1. CASE p = e
  <2>1. Slice(p, e) = <<>>
    BY <1>1 DEF Slice
  <2>2. ~\E q \in p .. e - 1 : q \div chunkSize \in bad
    BY <1>1
  <2> QED BY <1>1, <2>1, <2>2 DEF ReadOnce, Answer
<1>2. CASE p # e
  <2>1. p < m * chunkSize + n /\ p \in Nat
    <3>1. m * chunkSize \in Nat
      BY ProductGrows
    <3> QED BY <1>2, <3>1
  <2>2. PICK i \in 0 .. m : i = p \div chunkSize
    BY <2>1, ByteInChunk
  <2>3. PICK first \in Nat, w \in 0 .. chunkSize - 1 :
            first = i * chunkSize /\ w = p - i * chunkSize /\ w < PlainLength(m, n, i)
    BY <2>1, <2>2, ByteInChunk DEF PlainLength
  <2>4. p = first + w
    BY <2>3
  <2> DEFINE bytes == chunks[i + 1].bytes
             take == Min({e - p, Len(bytes) - w})
  <2>5. ChunkHolds(m, n, i)
    BY ChunkOfFile
  <2>6. /\ bytes \in Seq(Nat) /\ Len(bytes) = PlainLength(m, n, i) /\ bytes # Unreadable
        /\ \A x \in 1 .. Len(bytes) : bytes[x] = first + x
    BY <2>3, <2>5, FormatAssumption DEF ChunkHolds
  <2>7. LoadChunk(Total, bad, layout, i) = IF i \in bad THEN Unreadable ELSE bytes
    BY ChunksLoad
  <2>8. p \in p .. e - 1
    BY <1>2
  <2>9. CASE i \in bad
    <3>1. Answer(bad, p, e) = Unreadable
      BY <2>2, <2>8, <2>9 DEF Answer
    <3> HIDE DEF layout
    <3>2. ReadOnce(f, Total, bad, layout, e, p) = Unreadable
      BY <1>2, <2>2, <2>7, <2>9 DEF ReadOnce
    <3> QED BY <3>1, <3>2 DEF layout
  <2>10. CASE i \notin bad
    <3>1. PlainLength(m, n, i) \in 0 .. chunkSize
      BY DEF PlainLength
    <3>2. PICK t \in Nat : t = take /\ t >= 1 /\ t <= e - p /\ w + t <= Len(bytes)
      <4>1. PICK room \in Nat \ {0} : room = Len(bytes) - w
        BY <2>3, <2>6, <3>1
      <4>2. e - p \in Nat \ {0}
        BY <1>2
      <4>3. take = Min({e - p, room})
        BY <4>1
      <4> HIDE DEF take
      <4>4. take \in {e - p, room} /\ take <= e - p /\ take <= room
        BY <4>1, <4>2, <4>3, MinOfTwo
      <4> QED BY <2>6, <3>1, <4>1, <4>2, <4>4
    <3>3. PICK d \in p + 1 .. e : d = p + t
      BY <3>2
    <3>4. f[d] = Answer(bad, d, e)
      OBVIOUS
    <3> HIDE DEF layout, bytes, take
    <3>5. ReadOnce(f, Total, bad, layout, e, p)
            = IF bytes = Unreadable \/ f[d] = Unreadable THEN Unreadable
              ELSE SubSeq(bytes, w + 1, w + t) \o f[d]
      <4>1. take = Min({e - p, Len(bytes) - w}) /\ w = p - i * chunkSize
        BY <2>3 DEF take
      <4> QED BY <1>2, <2>2, <2>7, <2>10, <3>2, <3>3, <4>1 DEF ReadOnce
    <3>6. CASE \E q \in d .. e - 1 : q \div chunkSize \in bad
      <4>1. \E q \in p .. e - 1 : q \div chunkSize \in bad
        <5>1. PICK q \in d .. e - 1 : q \div chunkSize \in bad
          BY <3>6
        <5>2. q \in p .. e - 1
          BY <3>3
        <5> QED BY <5>1, <5>2
      <4> QED BY <3>4, <3>5, <3>6, <4>1 DEF Answer, layout
    <3>7. CASE ~\E q \in d .. e - 1 : q \div chunkSize \in bad
      <4>1. ASSUME NEW q \in p .. e - 1 PROVE q \div chunkSize \notin bad
        <5>1. CASE q >= d
          <6>1. q \in d .. e - 1
            BY <3>3, <5>1
          <6> QED BY <3>7, <6>1
        <5>2. CASE q < d
          <6>1. q \in p .. p + t - 1 /\ p - (p \div chunkSize) * chunkSize + t <= chunkSize
            BY <2>2, <2>3, <2>6, <3>1, <3>2, <3>3, <5>2
          <6>2. q \div chunkSize = p \div chunkSize
            BY <2>1, <3>2, <6>1, SameChunk
          <6> QED BY <2>2, <2>10, <6>2
        <5> QED BY <3>3, <5>1, <5>2
      <4>2. f[d] = Slice(d, e) /\ Answer(bad, p, e) = Slice(p, e)
        BY <3>4, <3>7, <4>1 DEF Answer
      <4>3. SubSeq(bytes, w + 1, w + t) = Slice(p, d)
        <5>1. /\ first \in Nat /\ w \in Nat /\ t \in Nat /\ p \in Nat /\ d \in Nat
              /\ p = first + w /\ d = p + t
          BY <2>1, <2>3, <2>4, <3>2, <3>3
        <5>2. PICK b \in Seq(Nat) : b = bytes /\ Counts(b, first) /\ w + t <= Len(b)
          BY <2>6, <3>2 DEF Counts
        <5>3. Cut(b, w, t) = Slice(p, d)
          BY <5>1, <5>2, ChunkSlice
        <5> QED BY <5>2, <5>3 DEF Cut
      <4>4. Slice(p, d) \o Slice(d, e) = Slice(p, e)
        <5>1. d \in Nat /\ p <= d /\ d <= e
          BY <3>3
        <5> QED BY <2>1, <5>1, SlicesJoin
      <4>5. f[d] # Unreadable
        <5>1. d \in Nat /\ d <= e
          BY <3>3
        <5> QED BY <4>2, <5>1, SliceIs, FormatAssumption
      <4> QED BY <2>6, <3>5, <4>2, <4>3, <4>4, <4>5 DEF layout
    <3> QED BY <3>6, <3>7
  <2> QED BY <2>9, <2>10
<1> QED BY <1>1, <1>2

\* The whole of a range.
LEMMA ReadIs ==
    ASSUME chunkSize \in Nat \ {0}, TagLength \in Nat \ {0}, NEW m \in Nat,
           NEW n \in 0 .. chunkSize, FileIs(m, n), NEW bad, NEW start \in Nat, NEW endExclusive \in Nat
    PROVE  LET end == Min({endExclusive, m * chunkSize + n})
           IN  Read(Total, bad, start, endExclusive)
                = IF start >= end THEN <<>> ELSE Answer(bad, start, end)
<1> DEFINE layout == Layout(Total)
           end == Min({endExclusive, layout.length})
           Follows(f) ==
             f = [p \in start .. end |-> ReadOnce(f, Total, bad, layout, end, p)]
           from == CHOOSE f : Follows(f)
<1>1. Layout(Total) = [count |-> m + 1, length |-> m * chunkSize + n]
  BY LayoutOfFile DEF FileIs
<1>2. Read(Total, bad, start, endExclusive) = IF start >= end THEN <<>> ELSE from[start]
  BY DEF Read, ReadOnce
<1>3. m * chunkSize + n \in Nat /\ end = Min({endExclusive, m * chunkSize + n})
  BY <1>1, ProductGrows
<1>4. end \in Nat /\ end <= m * chunkSize + n
  <2> HIDE DEF end
  <2> QED BY <1>3, MinOfTwo
<1> HIDE DEF end
<1>5. CASE start >= end
  BY <1>2, <1>3, <1>5
<1>6. CASE ~(start >= end)
  <2>1. ASSUME NEW f, NEW p \in start .. end,
               \A d \in p + 1 .. end : f[d] = Answer(bad, d, end)
        PROVE  ReadOnce(f, Total, bad, layout, end, p) = Answer(bad, p, end)
    <3>1. p \in 0 .. end
      OBVIOUS
    <3>2. layout = [count |-> m + 1, length |-> m * chunkSize + n]
      BY <1>1
    <3> HIDE DEF layout
    <3> QED BY <1>4, <2>1, <3>1, <3>2, ReadStep
  <2> DEFINE answers == [p \in start .. end |-> Answer(bad, p, end)]
  <2>2. \E f : Follows(f)
    <3>1. \A p \in start .. end : answers[p] = Answer(bad, p, end)
      OBVIOUS
    <3>2. \A p \in start .. end :
            answers[p] = ReadOnce(answers, Total, bad, layout, end, p)
      <4> TAKE p \in start .. end
      <4>1. \A d \in p + 1 .. end : answers[d] = Answer(bad, d, end)
        BY <3>1
      <4> HIDE DEF answers, layout
      <4> QED BY <2>1, <3>1, <4>1
    <3>3. answers = [p \in start .. end |-> ReadOnce(answers, Total, bad, layout, end, p)]
      <4>1. answers = [p \in start .. end |-> answers[p]]
        OBVIOUS
      <4> HIDE DEF answers, layout
      <4> QED BY <3>2, <4>1
    <3> HIDE DEF answers, layout
    <3> QED BY <3>3
  <2>3. Follows(from)
    <3> HIDE DEF Follows
    <3> QED BY <2>2
  <2> HIDE DEF from, layout
  <2>4. \A p \in start .. end : from[p] = ReadOnce(from, Total, bad, layout, end, p)
    BY <2>3
  <2> DEFINE Odd == {k \in 0 .. end - start : from[end - k] # Answer(bad, end - k, end)}
  <2>5. ASSUME Odd # {} PROVE FALSE
    <3>1. PICK k \in Odd : \A j \in Odd : k <= j
      <4>1. Odd \in SUBSET Nat
        OBVIOUS
      <4> QED BY <2>5, <4>1, LeastNatural
    <3>2. PICK p \in start .. end : p = end - k
      BY <1>4
    <3>3. from[p] # Answer(bad, p, end)
      BY <3>2
    <3>4. \A d \in p + 1 .. end : from[d] = Answer(bad, d, end)
      <4> TAKE d \in p + 1 .. end
      <4>1. PICK j \in 0 .. end - start : j = end - d /\ d = end - j /\ j < k
        BY <1>4, <3>2
      <4> QED BY <3>1, <4>1
    <3> QED BY <2>1, <2>4, <3>3, <3>4
  <2>6. from[start] = Answer(bad, start, end)
    <3>1. PICK k \in 0 .. end - start : k = end - start /\ end - k = start
      BY <1>4, <1>6
    <3> QED BY <2>5, <3>1
  <2> QED BY <1>2, <1>3, <1>6, <2>6
<1> QED BY <1>5, <1>6

LEMMA RangesAreExact ==
    ASSUME FormatInv
    PROVE  RangesExact
<1>1. chunkSize \in Nat \ {0} /\ TagLength \in Nat \ {0}
  BY FormatAssumption DEF FormatInv
<1> SUFFICES ASSUME finished PROVE RangesExact
  BY DEF RangesExact
<1>2. PICK m \in Nat, n \in 0 .. chunkSize :
          chunks = AllChunks(m, n) /\ plaintextLength = m * chunkSize + n
  BY DEF FormatInv
<1>3. n \in Nat /\ FileIs(m, n)
  <2>1. n \in Nat
    BY <1>1
  <2> QED BY <1>1, <1>2, <2>1, WholeFile
<1>4. plaintextLength \in Nat
  BY <1>1, <1>2, <1>3, ProductGrows
<1> DEFINE Exact(bad, start, end) ==
             LET clamped == Min({end, plaintextLength})
                 touched == {p \div chunkSize : p \in start .. clamped - 1}
             IN  Read(Total, bad, start, end) =
                    IF touched \cap bad # {} THEN Unreadable
                    ELSE [i \in 1 .. IF clamped > start THEN clamped - start ELSE 0 |-> start + i]
<1>5. ASSUME NEW bad, NEW start \in Nat, NEW end \in Nat
      PROVE  Exact(bad, start, end)
  <2> DEFINE clamped == Min({end, plaintextLength})
             touched == {p \div chunkSize : p \in start .. clamped - 1}
  <2>1. clamped \in Nat
    BY <1>4, MinOfTwo
  <2>2. Read(Total, bad, start, end)
          = IF start >= clamped THEN <<>> ELSE Answer(bad, start, clamped)
    BY <1>1, <1>2, <1>3, ReadIs
  <2> HIDE DEF clamped
  <2>3. CASE start >= clamped
    <3>1. touched = {} /\ ~(clamped > start)
      BY <2>1, <2>3
    <3>2. [i \in 1 .. 0 |-> start + i] = <<>>
      OBVIOUS
    <3> QED BY <2>2, <2>3, <3>1, <3>2 DEF clamped
  <2>4. CASE ~(start >= clamped)
    <3>1. clamped > start
      BY <2>1, <2>4
    <3>2. touched \cap bad # {} <=> \E q \in start .. clamped - 1 : q \div chunkSize \in bad
      OBVIOUS
    <3> HIDE DEF touched
    <3>3. Read(Total, bad, start, end)
            = IF touched \cap bad # {} THEN Unreadable ELSE [i \in 1 .. clamped - start |-> start + i]
      BY <2>2, <2>4, <3>2 DEF Answer, Slice
    <3> QED BY <3>1, <3>3 DEF clamped, touched
  <2> QED BY <2>3, <2>4
<1>6. \A start \in 0 .. plaintextLength + 1 : start \in Nat
  BY <1>4
<1> HIDE DEF Exact
<1>7. \A bad \in {{}} \cup {{i} : i \in 0 .. Len(chunks) - 2},
         start, end \in 0 .. plaintextLength + 1 : Exact(bad, start, end)
  BY <1>5, <1>6
<1> QED BY <1>7 DEF RangesExact, Exact

(***************************************************************************)
(* SealedFileFormat: the theorem.                                          *)
(***************************************************************************)
\* However a plaintext was cut into pushes, only the whole file opens, and every
\* range of it reads exactly unless it touches an altered chunk
\* (sealed-file.ts:13-18, 186-238, 512-659).
THEOREM FormatExactCorrect == FormatSpec => []FormatExact
<1>1. FormatInv => FormatExact
  BY OnlyWholeOpens, RangesAreExact DEF FormatExact
<1> QED BY <1>1, FormatInvInit, FormatInvStep, PTL DEF FormatSpec
===============================================================================
