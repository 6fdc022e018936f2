---------------------------- MODULE ReleaseNotes ----------------------------
(***************************************************************************)
(* Release notes written by a model (src/scripts/rolling-notes.mjs and     *)
(* notes-batches.mjs).  The descriptions of the changes are reviewed in    *)
(* batches; an answer must cover its batch, is asked for again when it     *)
(* does not, and in the end for either half of the batch.  The highlights  *)
(* of all batches are merged.  Whatever fails, the plain notes are used,   *)
(* or none where the notes of a model are required.                        *)
(*                                                                         *)
(* Descriptions are named by their position.  The recursion of             *)
(* reviewWithSplitting is the sequence of the batches still to review.     *)
(***************************************************************************)
EXTENDS Naturals, Sequences, SequencesExt, FiniteSetsExt

CONSTANTS
    N,              \* descriptions
    Sizes,          \* the bytes a description may have
    BatchSize,      \* AI_NOTES_BATCH_SIZE
    BatchBytes,     \* AI_NOTES_BATCH_BYTES
    Attempts,       \* AI_NOTES_ATTEMPTS
    GroupSize,      \* highlights merged at once
    HighlightLimit, \* highlights a merge may answer
    MaxHighlights   \* bound: highlights of one answer

\* Without a change no model is asked (rolling-notes.mjs:147-149); batches and
\* retryModelCall refuse other limits (notes-batches.mjs:3-12, 255-257).
ASSUME NotesAssumption ==
    /\ N \in Nat \ {0}
    /\ Sizes \subseteq Nat \ {0}
    /\ {BatchSize, BatchBytes, Attempts} \subseteq Nat \ {0}

VARIABLES
    bytes,          \* the bytes of each description
    phase,
    todo,           \* batches to review
    attempt,        \* failed requests for the first of them
    changes,        \* the descriptions covered by answers
    highlights,     \* how many there are
    requests        \* history: requests for reviews

noteVars == <<bytes, phase, todo, attempt, changes, highlights, requests>>

Descriptions == [i \in 1..N |-> i]

SumBytes(batch, sizes) ==
    LET sum[n \in 0..Len(batch)] ==
            IF n = 0 THEN 0 ELSE sum[n - 1] + sizes[batch[n]]
    IN  sum[Len(batch)]

\* Whether description i fits into the last of the batches.
Fits(result, i, sizes) ==
    /\ result # <<>>
    /\ Len(Last(result)) < BatchSize
    /\ SumBytes(Last(result), sizes) + sizes[i] <= BatchBytes

\* A batch is closed when the next description does not fit any more.
Added(result, i, sizes) ==
    IF Fits(result, i, sizes) THEN Front(result) \o <<Append(Last(result), i)>>
    ELSE Append(result, <<i>>)

Batches(sizes) ==
    LET made[n \in 0..N] == IF n = 0 THEN <<>> ELSE Added(made[n - 1], n, sizes)
    IN  made[N]

NoteInit ==
    /\ bytes \in [1..N -> Sizes]
    /\ todo = Batches(bytes)
    /\ phase = "review"
    /\ attempt = 0
    /\ changes = <<>>
    /\ highlights = 0
    /\ requests = 0

(***************************************************************************)
(* The review of a batch.                                                  *)
(***************************************************************************)
\* The plain notes, or with --require-ai the end of the release (fallback).
FallsBack == phase' \in {"plain", "failed"}

Fallback == FallsBack /\ UNCHANGED <<todo, attempt, changes, highlights>>

\* batches refuses a description that is too long for any batch.
TooLong ==
    /\ phase = "review"
    /\ \E i \in 1..N : bytes[i] > BatchBytes
    /\ Fallback
    /\ UNCHANGED <<bytes, requests>>

Reviewing ==
    /\ phase = "review"
    /\ todo # <<>>
    /\ \A i \in 1..N : bytes[i] <= BatchBytes

\* validateCoverage.
Covers(entries, expected) == IsInjective(entries) /\ ToSet(entries) = ToSet(expected)

Reviewed(entries, h) ==
    /\ Reviewing
    /\ Covers(entries, Head(todo))
    /\ changes' = changes \o entries
    /\ highlights' = highlights + h
    /\ todo' = Tail(todo)
    /\ attempt' = 0
    /\ requests' = requests + 1
    /\ UNCHANGED <<bytes, phase>>

\* Mutant: the description in the middle is in both halves.
HalvesOverlapping(batch) ==
    LET middle == (Len(batch) + 1) \div 2
    IN <<SubSeq(batch, 1, middle), SubSeq(batch, middle, Len(batch))>>

Halves(batch) ==
    LET middle == (Len(batch) + 1) \div 2
    IN <<SubSeq(batch, 1, middle), SubSeq(batch, middle + 1, Len(batch))>>

\* retryModelCall asks again.
Retried == attempt + 1 < Attempts /\ attempt' = attempt + 1 /\ UNCHANGED <<phase, todo>>

\* reviewWithSplitting: the halves take the place of the batch.
Split ==
    /\ attempt + 1 >= Attempts /\ Len(Head(todo)) >= 2
    /\ todo' = Halves(Head(todo)) \o Tail(todo)
    /\ attempt' = 0
    /\ UNCHANGED phase

GivenUp ==
    /\ attempt + 1 >= Attempts
    /\ FallsBack
    /\ UNCHANGED <<todo, attempt>>

\* An answer that does not cover the batch, or is no answer.
Unusable ==
    /\ Reviewing
    /\ Retried \/ Split \/ (Len(Head(todo)) < 2 /\ GivenUp)
    /\ requests' = requests + 1
    /\ UNCHANGED <<bytes, changes, highlights>>

\* A rate limit, a server error, a timeout, or no connection.
Unanswered ==
    /\ Reviewing
    /\ Retried \/ GivenUp
    /\ requests' = requests + 1
    /\ UNCHANGED <<bytes, changes, highlights>>

\* A refused key or request.
Denied ==
    /\ Reviewing
    /\ Fallback
    /\ requests' = requests + 1
    /\ UNCHANGED bytes

AllReviewed ==
    /\ phase = "review"
    /\ todo = <<>>
    /\ phase' = "merge"
    /\ UNCHANGED <<bytes, todo, attempt, changes, highlights, requests>>

(***************************************************************************)
(* consolidateHighlights, and the check of the whole.                      *)
(***************************************************************************)
\* What a merge of n highlights may leave: a single one is not merged.
Merged(n) == IF n = 1 THEN {1} ELSE 1..HighlightLimit

\* One round over the groups: n highlights in groups of at most GroupSize.
Groups(n) ==
    [g \in 1..((n + GroupSize - 1) \div GroupSize) |->
        IF g * GroupSize <= n THEN GroupSize ELSE n % GroupSize]

MergeRound ==
    /\ phase = "merge"
    /\ highlights > GroupSize
    /\ \E merged \in [DOMAIN Groups(highlights) -> 1..(HighlightLimit + 1)] :
            /\ \A g \in DOMAIN merged : merged[g] \in Merged(Groups(highlights)[g])
            /\ LET next == FoldLeft(LAMBDA a, b : a + b, 0, merged) IN
               IF next >= highlights
               THEN FallsBack /\ UNCHANGED highlights
               ELSE highlights' = next /\ UNCHANGED phase
    /\ UNCHANGED <<bytes, todo, attempt, changes, requests>>

Publish ==
    /\ phase = "merge"
    /\ highlights <= GroupSize
    /\ Covers(changes, Descriptions)
    /\ phase' = "published"
    /\ highlights' \in IF highlights < 2 THEN {highlights} ELSE Merged(highlights)
    /\ UNCHANGED <<bytes, todo, attempt, changes, requests>>

\* A merge fails, or the changes do not cover the descriptions, or the notes are
\* too long.
MergeFails ==
    /\ phase = "merge"
    /\ Fallback
    /\ UNCHANGED <<bytes, requests>>

Answers == UNION {[1..n -> 1..N] : n \in 1..N}

NoteNext ==
    \/ TooLong \/ AllReviewed
    \/ \E entries \in Answers, h \in 0..MaxHighlights : Reviewed(entries, h)
    \/ Unusable \/ Unanswered \/ Denied
    \/ MergeRound \/ Publish \/ MergeFails

NoteSpec == NoteInit /\ [][NoteNext]_noteVars

(***************************************************************************)
(* Properties.                                                             *)
(***************************************************************************)
\* Once every batch is reviewed each description is covered exactly once, however
\* often batches were split: the check of the whole only fails with the code
\* (rolling-notes.mjs:235-273, notes-batches.mjs:278-304).
EveryChangeOnce == phase = "merge" => Covers(changes, Descriptions) /\ Len(changes) = N

\* A batch that is asked about keeps to the limits, and batches share nothing with
\* each other or what is covered (notes-batches.mjs:2-35, 295-297).
BatchesDisjoint ==
    (\A i \in 1..N : bytes[i] <= BatchBytes) =>
        /\ \A b \in ToSet(todo) :
              /\ b # <<>> /\ Len(b) <= BatchSize /\ SumBytes(b, bytes) <= BatchBytes
              /\ IsInjective(b) /\ ToSet(b) \cap ToSet(changes) = {}
        /\ \A i, j \in DOMAIN todo : i # j => ToSet(todo[i]) \cap ToSet(todo[j]) = {}
        /\ IsInjective(changes)

\* Splitting costs at most a request with all its attempts for each batch and part
\* of a batch; the requests that merge highlights are not among them
\* (notes-batches.mjs:246-303).
RequestsBounded == requests <= Attempts * (2 * N - 1)

\* Notes cover every change, reviewed at a bounded cost (rolling-notes.mjs:235-273).
NotesComplete == EveryChangeOnce /\ BatchesDisjoint /\ RequestsBounded
=============================================================================
