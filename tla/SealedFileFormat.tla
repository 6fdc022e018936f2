--------------------------- MODULE SealedFileFormat ---------------------------
(***************************************************************************)
(* The format of sealed files (src/packages/sidecar-runtime/src/           *)
(* sealed-file.ts): the streaming encoder, and the reader, which finds its *)
(* way in a file by nothing but its size.  Byte i of the plaintext is the  *)
(* number i.  A sealed chunk is its plaintext and a tag; it opens only     *)
(* whole, at its own index and with the same "last" in its nonce.  The     *)
(* header is left out of sizes and offsets.                                *)
(***************************************************************************)
EXTENDS Naturals, Sequences, FiniteSetsExt, SequencesExt

CONSTANTS
    ChunkSizes,     \* the chunk sizes a header can name
    TagLength,      \* bytes of a tag
    MaxLength,      \* bound: bytes of plaintext
    Unreadable      \* the answer of a reader that raises

\* What a size says of a file: its chunks, and the bytes of its plaintext.
Layouts == [count : Nat, length : Nat]

ASSUME FormatAssumption ==
    /\ ChunkSizes \subseteq Nat \ {0}
    /\ TagLength \in Nat \ {0}
    /\ MaxLength \in Nat
    /\ Unreadable \notin Seq(Nat) \cup Layouts

VARIABLES
    chunkSize,      \* 2^chunk_log2
    plaintextLength,\* #plaintextLength: bytes pushed
    filled,         \* #filled: bytes of them still in the buffer
    chunks,         \* the sealed chunks handed out
    finished        \* #finished

formatVars == <<chunkSize, plaintextLength, filled, chunks, finished>>

FormatInit ==
    /\ chunkSize \in ChunkSizes
    /\ plaintextLength = 0
    /\ filled = 0
    /\ chunks = <<>>
    /\ finished = FALSE

(***************************************************************************)
(* SealedFileEncoder.                                                      *)
(***************************************************************************)
\* #sealChunk of n buffered bytes as chunk j; the chunks before it are full.
Chunk(j, n, last) ==
    [index |-> j, last |-> last, bytes |-> [i \in 1 .. n |-> j * chunkSize + i]]

\* A round of push's loop.  A full buffer is sealed only once more data follows.
Round(fill) ==
    LET full == fill.buffered = chunkSize
        buffered == IF full THEN 0 ELSE fill.buffered
        take == Min({chunkSize - buffered, fill.left})
    IN  IF fill.left = 0 THEN fill
        ELSE [left |-> fill.left - take, buffered |-> buffered + take,
              sealed |-> fill.sealed + IF full THEN 1 ELSE 0]

\* The loop over n bytes: every round takes one at least.
Fill(n) ==
    LET fills == [left : 0 .. n, buffered : 0 .. chunkSize, sealed : 0 .. n]
        round == [fill \in fills |-> Round(fill)]
        after[i \in 0 .. n] ==
            IF i = 0 THEN [left |-> n, buffered |-> filled, sealed |-> 0]
            ELSE round[after[i - 1]]
    IN  after[n]

Push(n) ==
    LET fill == Fill(n)
        j == Len(chunks)
    IN  /\ ~finished
        /\ plaintextLength' = plaintextLength + n
        /\ chunks' = chunks \o [i \in 1 .. fill.sealed |-> Chunk(j + i - 1, chunkSize, FALSE)]
        /\ filled' = fill.buffered
        /\ UNCHANGED <<chunkSize, finished>>

Finish ==
    /\ ~finished
    /\ chunks' = Append(chunks, Chunk(Len(chunks), filled, TRUE))
    /\ filled' = 0
    /\ finished' = TRUE
    /\ UNCHANGED <<chunkSize, plaintextLength>>

FormatNext == (\E n \in 0 .. MaxLength - plaintextLength : Push(n)) \/ Finish

FormatSpec == FormatInit /\ [][FormatNext]_formatVars

(***************************************************************************)
(* SealedFileReader over the first `size' bytes of what was handed out,    *)
(* with the chunks in `bad' altered.                                       *)
(***************************************************************************)
\* Where each chunk lies in the file, its tag included.
SealedLength(c) == Len(c.bytes) + TagLength
Offset(i) ==
    LET ends[j \in 0 .. Len(chunks)] ==
            IF j = 0 THEN 0 ELSE ends[j - 1] + SealedLength(chunks[j])
    IN  ends[i]
Total == Offset(Len(chunks))

\* Mutant: the nonce does not tell the last chunk.
DecryptAnyNonce(size, bad, offset, len, index, last) ==
    LET whole == {i \in 1 .. Len(chunks) :
                    /\ Offset(i - 1) = offset /\ SealedLength(chunks[i]) = len
                    /\ offset + len <= size
                    /\ chunks[i].index = index
                    /\ index \notin bad}
    IN  IF whole = {} THEN Unreadable ELSE chunks[CHOOSE i \in whole : TRUE].bytes

\* decrypt of the bytes from offset on under one nonce.
Decrypt(size, bad, offset, len, index, last) ==
    LET whole == {i \in 1 .. Len(chunks) :
                    /\ Offset(i - 1) = offset /\ SealedLength(chunks[i]) = len
                    /\ offset + len <= size
                    /\ chunks[i].index = index /\ chunks[i].last = last
                    /\ index \notin bad}
    IN  IF whole = {} THEN Unreadable ELSE chunks[CHOOSE i \in whole : TRUE].bytes

\* #openSource: the layout a size stands for.
Layout(size) ==
    LET sealed == chunkSize + TagLength
        full == size \div sealed
        rem == size % sealed
    IN  IF size < TagLength \/ (0 < rem /\ rem < TagLength) THEN Unreadable
        ELSE IF rem = 0 THEN [count |-> full, length |-> full * chunkSize]
        ELSE [count |-> full + 1, length |-> full * chunkSize + (rem - TagLength)]

LoadChunk(size, bad, layout, i) ==
    LET last == i + 1 = layout.count
        len == IF last THEN layout.length - i * chunkSize + TagLength
               ELSE chunkSize + TagLength
    IN  Decrypt(size, bad, i * (chunkSize + TagLength), len, i, last)

FileOpens(size, bad) ==
    LET layout == Layout(size)
    IN  layout # Unreadable /\ LoadChunk(size, bad, layout, layout.count - 1) # Unreadable

\* chunks(start, endExclusive) put together, as readRange and createReadStream do.
Read(size, bad, start, endExclusive) ==
    LET layout == Layout(size)
        end == Min({endExclusive, layout.length})
        from[p \in start .. end] ==
            IF p = end THEN <<>>
            ELSE LET i == p \div chunkSize
                     bytes == LoadChunk(size, bad, layout, i)
                     within == p - i * chunkSize
                     take == Min({end - p, Len(bytes) - within})
                     rest == from[p + take]
                 IN  IF bytes = Unreadable \/ rest = Unreadable THEN Unreadable
                     ELSE SubSeq(bytes, within + 1, within + take) \o rest
    IN  IF start >= end THEN <<>> ELSE from[start]

(***************************************************************************)
(* Properties.                                                             *)
(***************************************************************************)
\* However the plaintext was cut into pushes, the finished file opens and tells
\* its length, and no shorter beginning of it, nor anything an encoder that did
\* not finish left, opens (sealed-file.ts:13-18: "Readers verify the final chunk
\* on open (a truncated file is refused and the plaintext length is trustworthy").
OpensOnlyWhole ==
    \A size \in 0 .. Total :
        /\ FileOpens(size, {}) <=> finished /\ size = Total
        /\ FileOpens(size, {}) => Layout(size).length = plaintextLength

\* Every range read is the slice of the plaintext, clamped to its end, and only
\* an altered chunk the range touches makes it fail (sealed-file.ts:617-642).
RangesExact ==
    finished =>
        \A bad \in {{}} \cup {{i} : i \in 0 .. Len(chunks) - 2},
           start, end \in 0 .. plaintextLength + 1 :
            LET clamped == Min({end, plaintextLength})
                touched == {p \div chunkSize : p \in start .. clamped - 1}
            IN  Read(Total, bad, start, end) =
                    IF touched \cap bad # {} THEN Unreadable
                    ELSE [i \in 1 .. IF clamped > start THEN clamped - start ELSE 0 |-> start + i]

\* Only the whole file opens, and every range of it reads exactly
\* (sealed-file.ts:13-18, 617-642).
FormatExact == OpensOnlyWhole /\ RangesExact
=============================================================================
