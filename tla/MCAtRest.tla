------------------------------- MODULE MCAtRest -------------------------------
(***************************************************************************)
(* Small instances of the modules about data at rest: KeyCapture.tla,      *)
(* SealedLog.tla, SealedFile.tla, SealedFileFormat.tla, ContentCipher.tla,  *)
(* SharedSeal.tla.                                                         *)
(*                                                                         *)
(* The components share no state, so what one of them does alone is all it *)
(* can do beside the others: a behaviour lets one component run and leaves *)
(* the others in an initial state.                                         *)
(***************************************************************************)
EXTENDS KeyCapture, SealedLog, SealedFile, SealedFileFormat, SharedSeal, ContentCipher, TLC

CONSTANTS Short, Long, Old, New

VARIABLE component      \* the component that runs

\* Starts one at a time with two master keys and a root file that may be lost,
\* and starts that race and find no master key.
OneByOne == [masters |-> MasterKeys, overlap |-> FALSE, mayLose |-> TRUE]
Racing == [masters |-> {}, overlap |-> TRUE, mayLose |-> FALSE]
MCSetups == {OneByOne, Racing}

\* A short and a long record, and the keys of one rotation.
Ring(current, retired) == [current |-> current, retired |-> retired]
Rotation == {Ring(Old, {}), Ring(New, {Old}), Ring(New, {})}
MCSizes == [r \in {Short, Long} |-> IF r = Short THEN 1 ELSE 3]

MCSymmetry == Permutations(RootKeys) \cup Permutations(MasterKeys) \cup Permutations(Procs)

MCInit ==
    /\ component \in {"capture", "log", "file", "format", "cipher", "shared"}
    /\ Init /\ LogInit /\ FileInit /\ FormatInit /\ CipherInit /\ SharedInit
    /\ component # "capture" => setup = OneByOne
    /\ component # "log" => ring = Ring(Old, {})
    /\ component # "format" => chunkSize = 1
    /\ component # "cipher" =>
          /\ cipher = FromRoot(CHOOSE r \in Roots : TRUE, CHOOSE s \in Stores : TRUE)
          /\ stored = CHOOSE plain \in Plaintexts : TRUE
    /\ component # "shared" => rows = [r \in 1..NumRows |-> Absent]

MCNext ==
    \/ /\ component = "capture" /\ Next
       /\ UNCHANGED <<component, logVars, fileVars, formatVars, cipherVars, sharedVars>>
    \/ /\ component = "log" /\ LogNext
       /\ UNCHANGED <<component, vars, fileVars, formatVars, cipherVars, sharedVars>>
    \/ /\ component = "file" /\ FileNext
       /\ UNCHANGED <<component, vars, logVars, formatVars, cipherVars, sharedVars>>
    \/ /\ component = "format" /\ FormatNext
       /\ UNCHANGED <<component, vars, logVars, fileVars, cipherVars, sharedVars>>
    \/ /\ component = "cipher" /\ CipherNext
       /\ UNCHANGED <<component, vars, logVars, fileVars, formatVars, sharedVars>>
    \/ /\ component = "shared" /\ SharedNext
       /\ UNCHANGED <<component, vars, logVars, fileVars, formatVars, cipherVars>>

MCSpec ==
    MCInit /\ [][MCNext]_<<component, vars, logVars, fileVars, formatVars, cipherVars, sharedVars>>
=============================================================================
