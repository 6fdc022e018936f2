----------------------------- MODULE KeyCapture -----------------------------
(***************************************************************************)
(* How a process gets its root key at its start                            *)
(* (src/packages/sidecar-runtime/src/seal.ts, capturePluginKeys), and the  *)
(* two files a standalone run keeps: the generated root and the pinned key *)
(* check value.  Every look at a file and every write is a step of its own *)
(* between which the process may crash and others may run.                 *)
(***************************************************************************)
EXTENDS Naturals, FiniteSets

CONSTANTS
    Starts,         \* starts of the app; each happens once
    MasterKeys,     \* values of RYU_MASTER_KEY (the subkey each derives)
    RootKeys,       \* roots drawn at random, each once
    None,
    Unwritten,      \* a root file created and not yet written
    Setups          \* the circumstances an installation may run in

\* Which values of RYU_MASTER_KEY starts may find, and whether two starts may
\* run at once and the root file may be lost.
Setup == [masters : SUBSET MasterKeys, overlap : BOOLEAN, mayLose : BOOLEAN]

ASSUME CaptureAssumption ==
    /\ {None, Unwritten} \cap (MasterKeys \cup RootKeys) = {}
    /\ None # Unwritten
    /\ MasterKeys \cap RootKeys = {}
    /\ Setups \subseteq Setup

VARIABLES
    setup,          \* the circumstances of this installation
    starts,         \* the starts: what each does next, and its key
    rootFile,       \* standalone-root.key
    pinFile,        \* standalone-root.kcv.json
    drawn           \* the roots drawn

vars == <<setup, starts, rootFile, pinFile, drawn>>

Keys == MasterKeys \cup RootKeys

StartAt == [pc : {"waiting", "root", "create", "write", "readPin", "writePin", "up", "over"},
            key : Keys \cup {None}]

TypeOK ==
    /\ setup \in Setups
    /\ starts \in [Starts -> StartAt]
    /\ rootFile \in RootKeys \cup {None, Unwritten}
    /\ pinFile \in Keys \cup {None}
    /\ drawn \in SUBSET RootKeys

Init ==
    /\ setup \in Setups
    /\ starts = [s \in Starts |-> [pc |-> "waiting", key |-> None]]
    /\ rootFile = None
    /\ pinFile = None
    /\ drawn = {}

At(s, pc) == starts[s].pc = pc
Running(s) == starts[s].pc \notin {"waiting", "up", "over"}
Goto(s, pc, key) == starts' = [starts EXCEPT ![s].pc = pc, ![s].key = key]
Refuse(s) == Goto(s, "over", None)

\* The keys standalone starts went on with.
InUse == {starts[s].key : s \in {t \in Starts : At(t, "up")}}

(***************************************************************************)
(* capturePluginKeys, up to its first look at a file.                      *)
(***************************************************************************)
Begins(s, pc, key) ==
    /\ At(s, "waiting")
    /\ setup.overlap \/ \A t \in Starts : ~Running(t)
    /\ starts' = [starts EXCEPT ![s] = [pc |-> pc, key |-> key]]
    /\ UNCHANGED <<setup, rootFile, pinFile, drawn>>

\* A key delivered by Core, for this plugin or not; a master key under Core;
\* compat mode: none of these touches the files.
StartUnderCore(s) == Begins(s, "over", None)

StartMaster(s, master) ==
    IF rootFile # None THEN Begins(s, "over", None) ELSE Begins(s, "readPin", master)

StartStandalone(s) == Begins(s, "root", None)

(***************************************************************************)
(* loadOrCreateStandaloneRoot.                                             *)
(***************************************************************************)
LoadRoot(s) ==
    /\ At(s, "root")
    /\ rootFile # None
    /\ IF rootFile = Unwritten THEN Refuse(s) ELSE Goto(s, "readPin", rootFile)
    /\ UNCHANGED <<setup, rootFile, pinFile, drawn>>

\* Mutant: a lost root file is replaced without a look at the pinned value.
NoRootUnpinned(s) ==
    /\ At(s, "root")
    /\ rootFile = None
    /\ Goto(s, "create", None)
    /\ UNCHANGED <<setup, rootFile, pinFile, drawn>>

\* A pinned value without a root: data sealed under a key that is gone.
NoRoot(s) ==
    /\ At(s, "root")
    /\ rootFile = None
    /\ IF pinFile # None THEN Refuse(s) ELSE Goto(s, "create", None)
    /\ UNCHANGED <<setup, rootFile, pinFile, drawn>>

Draw(s) == \E root \in RootKeys \ drawn :
    /\ drawn' = drawn \cup {root}
    /\ rootFile' = Unwritten
    /\ Goto(s, "write", root)

\* open with "wx": another start may have been faster.
CreateRoot(s) ==
    /\ At(s, "create")
    /\ IF rootFile # None
       THEN Refuse(s) /\ UNCHANGED <<rootFile, drawn>>
       ELSE Draw(s)
    /\ UNCHANGED <<setup, pinFile>>

\* Into the descriptor: a file that was lost meanwhile stays lost.
WriteRoot(s) ==
    /\ At(s, "write")
    /\ rootFile' = IF rootFile = Unwritten THEN starts[s].key ELSE rootFile
    /\ Goto(s, "readPin", starts[s].key)
    /\ UNCHANGED <<setup, pinFile, drawn>>

(***************************************************************************)
(* pinStandaloneKcv.                                                       *)
(***************************************************************************)
ReadPin(s) ==
    /\ At(s, "readPin")
    /\ CASE pinFile = None -> Goto(s, "writePin", starts[s].key)
         [] pinFile = starts[s].key -> Goto(s, "up", starts[s].key)
         [] OTHER -> Refuse(s)
    /\ UNCHANGED <<setup, rootFile, pinFile, drawn>>

\* writePrivateFile: a complete file is renamed into place.
WritePin(s) ==
    /\ At(s, "writePin")
    /\ pinFile' = starts[s].key
    /\ Goto(s, "up", starts[s].key)
    /\ UNCHANGED <<setup, rootFile, drawn>>

(***************************************************************************)
(* Crashes, and the loss of the root file.                                 *)
(***************************************************************************)
Crash(s) ==
    /\ Running(s)
    /\ Refuse(s)
    /\ UNCHANGED <<setup, rootFile, pinFile, drawn>>

LoseRoot ==
    /\ setup.mayLose
    /\ rootFile # None
    /\ rootFile' = None
    /\ UNCHANGED <<setup, starts, pinFile, drawn>>

Next ==
    \/ \E s \in Starts :
          \/ StartUnderCore(s) \/ StartStandalone(s)
          \/ \E master \in setup.masters : StartMaster(s, master)
          \/ LoadRoot(s) \/ NoRoot(s) \/ CreateRoot(s) \/ WriteRoot(s)
          \/ ReadPin(s) \/ WritePin(s) \/ Crash(s)
    \/ LoseRoot

Spec == Init /\ [][Next]_vars

(***************************************************************************)
(* Properties.                                                             *)
(***************************************************************************)
\* Starts come one at a time; or they race, and find no master key and lose no
\* root file.
Careful == ~setup.overlap \/ (setup.masters = {} /\ ~setup.mayLose)

\* Standalone starts that go on all go on with one key, through crashes at any
\* step: one at a time also through other values of RYU_MASTER_KEY and the loss
\* of the root file (seal.ts:595-599).
OneKeyForEver == Careful => Cardinality(InUse) <= 1

\* A root file that is there is the key in use: one that is another's, or torn,
\* hides no sealed data (seal.ts:479-500).
RootFileIsThatKey == Careful /\ rootFile # None => InUse \subseteq {rootFile}

\* The types hold, there is one key, and the root file that is there is that key
\* (seal.ts:479-500, 595-599).
KeysKept == TypeOK /\ OneKeyForEver /\ RootFileIsThatKey
=============================================================================
