--------------------------- MODULE SealedLogProofs ---------------------------
(***************************************************************************)
(* SealedLog: LogKept and the implementation of RecordLog, for any         *)
(* records, sizes, keys and number of records.                             *)
(***************************************************************************)
EXTENDS SealedLog, RecursionLemmas, SequenceTheorems, TLAPS

USE LogAssumption

(***************************************************************************)
(* Frames.                                                                 *)
(***************************************************************************)
IsFrame(frame, r, j, k) ==
    /\ frame \in Seq(Cells) /\ Len(frame) = 1 + Size[r]
    /\ frame[1] = [kind |-> "length", n |-> Size[r]]
    /\ frame[2] = Body(r, j, k, 1)

LEMMA FrameCells ==
    ASSUME NEW r \in Records, NEW j \in Nat, NEW k \in StoreKeys
    PROVE  IsFrame(Frame(r, j, k), r, j, k)
<1> DEFINE bodies == [i \in 1 .. Size[r] |-> Body(r, j, k, i)]
           length == [kind |-> "length", n |-> Size[r]]
<1>1. Size[r] \in Nat \ {0}
  OBVIOUS
<1>2. length \in Cells
  BY <1>1 DEF Cells
<1>3. \A i \in 1 .. Size[r] : Body(r, j, k, i) \in Cells
  BY <1>1 DEF Cells, Body
<1>4. bodies \in Seq(Cells) /\ Len(bodies) = Size[r]
  <2>1. bodies \in [1 .. Size[r] -> Cells]
    BY <1>3
  <2> HIDE DEF bodies
  <2> QED BY <1>1, <2>1
<1>5. <<length>> \in Seq(Cells) /\ Len(<<length>>) = 1 /\ <<length>>[1] = length
  BY <1>2
<1>6. \A i \in 1 .. Size[r] : bodies[i] = Body(r, j, k, i)
  OBVIOUS
<1>7. Frame(r, j, k) = <<length>> \o bodies
  BY DEF Frame
<1> HIDE DEF bodies, length
<1>8. /\ <<length>> \o bodies \in Seq(Cells)
      /\ Len(<<length>> \o bodies) = 1 + Size[r]
      /\ \A i \in 1 .. 1 + Size[r] :
            (<<length>> \o bodies)[i] = IF i <= 1 THEN <<length>>[i] ELSE bodies[i - 1]
  BY <1>1, <1>4, <1>5, ConcatProperties
<1>9. Frame(r, j, k)[1] = length
  BY <1>1, <1>5, <1>7, <1>8
<1>10. Frame(r, j, k)[2] = Body(r, j, k, 1)
  BY <1>1, <1>6, <1>7, <1>8
<1> QED BY <1>7, <1>8, <1>9, <1>10 DEF length, IsFrame

\* The first n cells of a frame lie behind the first p cells.
LiesAt(cells, p, frame, n) ==
    p + n <= Len(cells) /\ \A i \in 1 .. n : cells[p + i] = frame[i]

LEMMA OpeningLies ==
    ASSUME NEW cells \in Seq(Cells), NEW k \in StoreKeys, NEW p \in Nat, NEW j \in Nat,
           NEW r \in Records
    PROVE  r \in Opening(cells, k, p, j) <=> LiesAt(cells, p, Frame(r, j, k), 1 + Size[r])
<1> DEFINE frame == Frame(r, j, k)
           part == SubSeq(cells, p + 1, p + 1 + Size[r])
<1>1. Size[r] \in Nat /\ frame \in Seq(Cells) /\ Len(frame) = 1 + Size[r]
  <2>1. Size[r] \in Nat /\ IsFrame(frame, r, j, k)
    BY FrameCells
  <2> QED BY <2>1 DEF IsFrame
<1>2. r \in Opening(cells, k, p, j) <=> p + 1 + Size[r] <= Len(cells) /\ part = frame
  BY DEF Opening
<1> HIDE DEF frame
<1>3. ASSUME p + 1 + Size[r] <= Len(cells)
      PROVE  /\ part \in Seq(Cells) /\ Len(part) = 1 + Size[r]
             /\ \A i \in 1 .. 1 + Size[r] : part[i] = cells[p + i]
  <2>1. \A i \in p + 1 .. p + 1 + Size[r] : cells[i] \in Cells
    BY <1>1, <1>3, ElementOfSeq
  <2>2. /\ part \in Seq(Cells)
        /\ Len(part) = IF p + 1 <= p + 1 + Size[r] THEN p + 1 + Size[r] - (p + 1) + 1 ELSE 0
        /\ \A i \in 1 .. p + 1 + Size[r] - (p + 1) + 1 : part[i] = cells[p + 1 + i - 1]
    <3> HIDE DEF part
    <3> QED BY <1>1, <2>1, SubSeqProperties DEF part
  <2> HIDE DEF part
  <2> QED BY <1>1, <2>2
<1> HIDE DEF part
<1>4. ASSUME p + 1 + Size[r] <= Len(cells), \A i \in 1 .. 1 + Size[r] : cells[p + i] = frame[i]
      PROVE  part = frame
  BY <1>1, <1>3, <1>4, SeqEqual
<1> QED BY <1>1, <1>2, <1>3, <1>4 DEF LiesAt, frame

(***************************************************************************)
(* What a scan finds in records rs under key k that end at ends, and what  *)
(* is behind them.                                                         *)
(***************************************************************************)
\* The loop goes through rs, from each end to the next, and stops behind them.
Passes(cells, k, rs, ends) ==
    /\ cells \in Seq(Cells) /\ rs \in Seq(Records) /\ ends \in [0 .. Len(rs) -> Nat]
    /\ ends[0] = 1
    /\ \A j \in 0 .. Len(rs) : ends[j] \in 1 .. Len(cells)
    /\ \A j \in 0 .. Len(rs) - 1 :
          /\ Opening(cells, k, ends[j], j) = {rs[j + 1]}
          /\ ends[j + 1] = ends[j] + 1 + cells[ends[j] + 1].n
          /\ ends[j] < ends[j + 1]
    /\ \A j \in Nat : Opening(cells, k, ends[Len(rs)], j) = {}

LEMMA LoopPasses ==
    ASSUME NEW cells, NEW k, NEW rs, NEW ends, Passes(cells, k, rs, ends),
           Len(rs) <= MaxRecords
    PROVE  \A j \in 0 .. MaxRecords :
              Positions(cells, k)[j] = IF j <= Len(rs) THEN ends[j] ELSE ends[Len(rs)]
<1> DEFINE behind == [j \in 0 .. MaxRecords |-> [p \in 1 .. Len(cells) |->
                        IF Opening(cells, k, p, j) = {} THEN p ELSE p + 1 + cells[p + 1].n]]
           loop == Positions(cells, k)
           count == Len(rs)
           At(j) == IF j <= count THEN ends[j] ELSE ends[count]
<1>1. Rounds(1, behind, MaxRecords, loop)
  <2>1. \E f : Rounds(1, behind, MaxRecords, f)
    <3> HIDE DEF behind
    <3> QED BY LoopIsDefined
  <2>2. loop = CHOOSE f : Rounds(1, behind, MaxRecords, f)
    BY DEF Positions, Rounds
  <2> HIDE DEF loop, behind
  <2> QED BY <2>1, <2>2
<1>2. \A j \in 0 .. MaxRecords : loop[j] = IF j = 0 THEN 1 ELSE behind[j - 1][loop[j - 1]]
  <2> HIDE DEF loop, behind
  <2> QED BY <1>1 DEF Rounds
<1>3. count \in Nat /\ MaxRecords \in Nat /\ count <= MaxRecords
  BY LenProperties DEF Passes
<1>4. \A j \in 0 .. MaxRecords : \A p \in 1 .. Len(cells) :
        behind[j][p] = IF Opening(cells, k, p, j) = {} THEN p ELSE p + 1 + cells[p + 1].n
  OBVIOUS
<1>5. \A j \in 0 .. MaxRecords - 1 : behind[j][At(j)] = At(j + 1)
  <2> TAKE j \in 0 .. MaxRecords - 1
  <2>0. j \in Nat /\ j \in 0 .. MaxRecords
    BY <1>3
  <2> HIDE DEF behind
  <2>1. CASE j < count
    <3>1. j \in 0 .. count - 1 /\ At(j) = ends[j] /\ At(j + 1) = ends[j + 1]
      BY <1>3, <2>0, <2>1
    <3>2. ends[j] \in 1 .. Len(cells) /\ Opening(cells, k, ends[j], j) # {}
      <4>1. j \in 0 .. count
        BY <3>1, <1>3
      <4>2. Opening(cells, k, ends[j], j) = {rs[j + 1]}
        BY <3>1 DEF Passes
      <4> QED BY <4>1, <4>2 DEF Passes
    <3>3. ends[j + 1] = ends[j] + 1 + cells[ends[j] + 1].n
      BY <3>1 DEF Passes
    <3> QED BY <1>4, <2>0, <3>1, <3>2, <3>3
  <2>2. CASE ~(j < count)
    <3>1. At(j) = ends[count] /\ At(j + 1) = ends[count]
      BY <1>3, <2>0, <2>2
    <3>2. ends[count] \in 1 .. Len(cells) /\ Opening(cells, k, ends[count], j) = {}
      BY <1>3, <2>0 DEF Passes
    <3> QED BY <1>4, <2>0, <3>1, <3>2
  <2> QED BY <2>1, <2>2
<1>6. At(0) = 1
  BY <1>3 DEF Passes
<1> DEFINE Wrong == {j \in 0 .. MaxRecords : loop[j] # At(j)}
<1> SUFFICES ASSUME Wrong # {} PROVE FALSE
  OBVIOUS
<1> HIDE DEF loop, behind, At
<1>7. PICK m \in Wrong : \A j \in Wrong : m <= j
  <2>1. Wrong \in SUBSET Nat
    OBVIOUS
  <2> HIDE DEF Wrong
  <2> QED BY <2>1, LeastNatural
<1>8. m \in 0 .. MaxRecords /\ loop[m] # At(m) /\ m # 0
  BY <1>2, <1>6, <1>3
<1>9. m - 1 \in 0 .. MaxRecords - 1 /\ m - 1 \in 0 .. MaxRecords /\ ~(m <= m - 1) /\ m - 1 + 1 = m
  BY <1>3, <1>8
<1>10. loop[m - 1] = At(m - 1)
  BY <1>7, <1>9
<1> QED BY <1>2, <1>5, <1>8, <1>9, <1>10

LEMMA ScanPasses ==
    ASSUME NEW cells, NEW k, NEW rs, NEW ends, Passes(cells, k, rs, ends),
           Len(rs) <= MaxRecords
    PROVE  Scan(cells, k) = [tail |-> TailAt(cells, ends[Len(rs)]),
                             end |-> ends[Len(rs)], records |-> rs]
<1> DEFINE loop == Positions(cells, k)
           moved == {j \in 0 .. MaxRecords : j = 0 \/ loop[j] # loop[j - 1]}
           count == Max(moved)
           read == [j \in 1 .. count |->
                        CHOOSE r \in Opening(cells, k, loop[j - 1], j - 1) : TRUE]
<1>1. Len(rs) \in 0 .. MaxRecords /\ MaxRecords \in Nat
  BY LenProperties DEF Passes
<1>2. \A j \in 0 .. MaxRecords : loop[j] = IF j <= Len(rs) THEN ends[j] ELSE ends[Len(rs)]
  BY LoopPasses
<1>3. Scan(cells, k) = [tail |-> TailAt(cells, loop[count]), end |-> loop[count],
                        records |-> read]
  BY DEF Scan
<1>4. moved = 0 .. Len(rs)
  <2> HIDE DEF loop
  <2>1. ASSUME NEW j \in 0 .. MaxRecords, j # 0
        PROVE  loop[j] # loop[j - 1] <=> j <= Len(rs)
    <3>1. j - 1 \in 0 .. MaxRecords
      BY <1>1, <2>1
    <3>2. CASE j <= Len(rs)
      <4>1. j - 1 \in 0 .. Len(rs) - 1 /\ j - 1 + 1 = j
        BY <1>1, <2>1, <3>2
      <4>2. ends[j - 1] < ends[j] /\ ends[j] \in Nat /\ ends[j - 1] \in Nat
        BY <1>1, <2>1, <3>2, <4>1 DEF Passes
      <4> QED BY <1>1, <1>2, <3>1, <3>2, <4>1, <4>2
    <3>3. CASE ~(j <= Len(rs))
      <4>1. loop[j] = ends[Len(rs)]
        BY <1>2, <3>3
      <4>2. CASE j - 1 <= Len(rs)
        <5>1. j - 1 = Len(rs)
          BY <1>1, <2>1, <3>3, <4>2
        <5> QED BY <1>2, <3>1, <3>3, <4>1, <5>1
      <4>3. CASE ~(j - 1 <= Len(rs))
        BY <1>2, <3>1, <3>3, <4>1, <4>3
      <4> QED BY <4>2, <4>3
    <3> QED BY <3>2, <3>3
  <2> QED BY <1>1, <2>1
<1>5. count = Len(rs)
  <2>1. Max(0 .. Len(rs)) = Len(rs)
    BY <1>1 DEF Max
  <2> HIDE DEF moved
  <2> QED BY <1>4, <2>1
<1> HIDE DEF loop, count
<1>6. loop[count] = ends[Len(rs)]
  BY <1>1, <1>2, <1>5
<1>7. read = rs
  <2>1. rs \in [1 .. Len(rs) -> Records]
    BY LenProperties DEF Passes
  <2>2. \A j \in 1 .. Len(rs) : read[j] = rs[j]
    <3> TAKE j \in 1 .. Len(rs)
    <3>1. j - 1 \in 0 .. Len(rs) - 1 /\ j - 1 + 1 = j /\ j - 1 \in 0 .. MaxRecords
      BY <1>1
    <3>2. loop[j - 1] = ends[j - 1]
      BY <1>1, <1>2, <3>1
    <3>3. Opening(cells, k, loop[j - 1], j - 1) = {rs[j]}
      BY <3>1, <3>2 DEF Passes
    <3>4. read[j] = CHOOSE r \in Opening(cells, k, loop[j - 1], j - 1) : TRUE
      BY <1>5
    <3> QED BY <3>3, <3>4
  <2>3. read = [j \in 1 .. Len(rs) |-> read[j]]
    BY <1>5
  <2> HIDE DEF read
  <2> QED BY <2>1, <2>2, <2>3
<1> HIDE DEF read
<1> QED BY <1>3, <1>6, <1>7

(***************************************************************************)
(* The shape of a log: a header, the frames of rs under key k, which end   *)
(* at ends, and perhaps a part of one frame more.                          *)
(***************************************************************************)
Torn(cells, p, j, k) ==
    \/ p = Len(cells)
    \/ \E r \in Records :
          /\ p < Len(cells) /\ Len(cells) - p <= Size[r]
          /\ LiesAt(cells, p, Frame(r, j, k), Len(cells) - p)

FrameAt(cells, k, rs, ends, j) ==
    /\ ends[j + 1] = ends[j] + 1 + Size[rs[j + 1]]
    /\ LiesAt(cells, ends[j], Frame(rs[j + 1], j, k), 1 + Size[rs[j + 1]])

Framed(cells, k, rs, ends) ==
    /\ cells \in Seq(Cells) /\ Len(cells) >= 1 /\ cells[1] = Header
    /\ k \in StoreKeys /\ rs \in Seq(Records)
    /\ ends \in [0 .. Len(rs) -> 1 .. Len(cells)]
    /\ ends[0] = 1
    /\ \A i, j \in 0 .. Len(rs) : i < j => ends[i] < ends[j]
    /\ \A j \in 0 .. Len(rs) - 1 : FrameAt(cells, k, rs, ends, j)

Shape(cells, k, rs, ends) ==
    Framed(cells, k, rs, ends) /\ Torn(cells, ends[Len(rs)], Len(rs), k)

LEMMA FrameIsOne ==
    ASSUME NEW cells, NEW p \in Nat,
           NEW r \in Records, NEW j \in Nat, NEW k \in StoreKeys,
           NEW s \in Records, NEW i \in Nat, NEW l \in StoreKeys,
           LiesAt(cells, p, Frame(r, j, k), 1 + Size[r]),
           LiesAt(cells, p, Frame(s, i, l), 1 + Size[s])
    PROVE  r = s /\ k = l
<1>1. Size[r] \in Nat \ {0} /\ Frame(r, j, k)[2] = Body(r, j, k, 1)
  <2>1. IsFrame(Frame(r, j, k), r, j, k)
    BY FrameCells
  <2> QED BY <2>1 DEF IsFrame
<1>2. Size[s] \in Nat \ {0} /\ Frame(s, i, l)[2] = Body(s, i, l, 1)
  <2>1. IsFrame(Frame(s, i, l), s, i, l)
    BY FrameCells
  <2> QED BY <2>1 DEF IsFrame
<1>3. cells[p + 2] = Frame(r, j, k)[2]
  <2>1. 2 \in 1 .. 1 + Size[r]
    BY <1>1
  <2> QED BY <2>1 DEF LiesAt
<1>4. cells[p + 2] = Frame(s, i, l)[2]
  <2>1. 2 \in 1 .. 1 + Size[s]
    BY <1>2
  <2> QED BY <2>1 DEF LiesAt
<1>5. Body(r, j, k, 1) = Body(s, i, l, 1)
  BY <1>1, <1>2, <1>3, <1>4
<1>6. Body(r, j, k, 1).record = r /\ Body(r, j, k, 1).key = k
  BY DEF Body
<1>7. Body(s, i, l, 1).record = s /\ Body(s, i, l, 1).key = l
  BY DEF Body
<1> QED BY <1>5, <1>6, <1>7

\* A part of a frame has the frame's length cell, which says how long the rest is.
LEMMA LengthLies ==
    ASSUME NEW cells, NEW p \in Nat, NEW r \in Records, NEW j \in Nat, NEW k \in StoreKeys,
           NEW n \in Nat \ {0}, LiesAt(cells, p, Frame(r, j, k), n)
    PROVE  cells[p + 1] = [kind |-> "length", n |-> Size[r]]
<1>1. IsFrame(Frame(r, j, k), r, j, k)
  BY FrameCells
<1>2. 1 \in 1 .. n
  OBVIOUS
<1> QED BY <1>1, <1>2 DEF IsFrame, LiesAt

OpensAt(cells, k, rs, ends, j) == Opening(cells, k, ends[j], j) = {rs[j + 1]}

LEMMA OpensOwnFrame ==
    ASSUME NEW cells, NEW k, NEW rs, NEW ends, Shape(cells, k, rs, ends),
           NEW j \in Nat, j < Len(rs)
    PROVE  OpensAt(cells, k, rs, ends, j)
<1>1. cells \in Seq(Cells) /\ k \in StoreKeys /\ rs \in Seq(Records) /\ Len(rs) \in Nat
  BY LenProperties DEF Shape, Framed
<1>2. j \in 0 .. Len(rs) - 1 /\ j \in 0 .. Len(rs) /\ j + 1 \in 1 .. Len(rs)
  BY <1>1
<1>3. rs[j + 1] \in Records
  BY <1>1, <1>2, ElementOfSeq
<1>4. ends[j] \in Nat
  <2>1. ends[j] \in 1 .. Len(cells) /\ Len(cells) \in Nat
    BY <1>1, <1>2, LenProperties DEF Shape, Framed
  <2> QED BY <2>1
<1>5. LiesAt(cells, ends[j], Frame(rs[j + 1], j, k), 1 + Size[rs[j + 1]])
  BY <1>2 DEF Shape, Framed, FrameAt
<1>6. \A r \in Records :
        r \in Opening(cells, k, ends[j], j) <=>
            LiesAt(cells, ends[j], Frame(r, j, k), 1 + Size[r])
  BY <1>1, <1>2, <1>4, OpeningLies
<1>7. \A r \in Records :
        LiesAt(cells, ends[j], Frame(r, j, k), 1 + Size[r]) => r = rs[j + 1]
  BY <1>1, <1>2, <1>3, <1>4, <1>5, FrameIsOne
<1>8. Opening(cells, k, ends[j], j) \subseteq Records
  BY DEF Opening
<1> QED BY <1>3, <1>5, <1>6, <1>7, <1>8 DEF OpensAt

\* Nothing opens behind the last record, under any key and as any record.
LEMMA OpensNoTail ==
    ASSUME NEW cells, NEW k, NEW rs, NEW ends, Shape(cells, k, rs, ends),
           NEW l \in StoreKeys, NEW j \in Nat
    PROVE  Opening(cells, l, ends[Len(rs)], j) = {}
<1> DEFINE p == ends[Len(rs)]
<1>1. cells \in Seq(Cells) /\ k \in StoreKeys /\ Len(rs) \in Nat /\ Len(cells) \in Nat
  BY LenProperties DEF Shape, Framed
<1>2. p \in 1 .. Len(cells)
  BY <1>1 DEF Shape, Framed
<1>3. Torn(cells, p, Len(rs), k)
  BY DEF Shape, Framed
<1>4. Opening(cells, l, p, j) \subseteq Records
  BY DEF Opening
<1> HIDE DEF p
<1>5. ASSUME NEW r \in Records, r \in Opening(cells, l, p, j)
      PROVE  FALSE
  <2>1. LiesAt(cells, p, Frame(r, j, l), 1 + Size[r]) /\ Size[r] \in Nat
    BY <1>1, <1>2, <1>5, OpeningLies
  <2>2. p + 1 + Size[r] <= Len(cells)
    BY <1>1, <1>2, <2>1 DEF LiesAt
  <2>3. PICK s \in Records : /\ p < Len(cells) /\ Len(cells) - p <= Size[s]
                             /\ LiesAt(cells, p, Frame(s, Len(rs), k), Len(cells) - p)
    BY <1>1, <1>2, <1>3, <2>1, <2>2 DEF Torn
  <2>4. cells[p + 1] = [kind |-> "length", n |-> Size[s]]
    BY <1>1, <1>2, <2>3, LengthLies
  <2>5. cells[p + 1] = [kind |-> "length", n |-> Size[r]]
    BY <1>1, <1>2, <2>1, LengthLies
  <2>6. Size[r] = Size[s]
    BY <2>4, <2>5
  <2> QED BY <1>1, <1>2, <2>1, <2>2, <2>3, <2>6
<1> QED BY <1>4, <1>5 DEF p

LEMMA TailIsShort ==
    ASSUME NEW cells, NEW k, NEW rs, NEW ends, Shape(cells, k, rs, ends)
    PROVE  TailAt(cells, ends[Len(rs)]) =
              IF ends[Len(rs)] = Len(cells) THEN "clean" ELSE "short"
<1> DEFINE p == ends[Len(rs)]
<1>1. cells \in Seq(Cells) /\ k \in StoreKeys /\ Len(rs) \in Nat /\ Len(cells) \in Nat
  BY LenProperties DEF Shape, Framed
<1>2. p \in 1 .. Len(cells)
  BY <1>1 DEF Shape, Framed
<1>3. Torn(cells, p, Len(rs), k)
  BY DEF Shape, Framed
<1> HIDE DEF p
<1>4. CASE p = Len(cells)
  BY <1>4 DEF TailAt, p
<1>5. CASE p # Len(cells)
  <2>1. PICK s \in Records : /\ p < Len(cells) /\ Len(cells) - p <= Size[s]
                             /\ LiesAt(cells, p, Frame(s, Len(rs), k), Len(cells) - p)
    BY <1>3, <1>5 DEF Torn
  <2>2. cells[p + 1] = [kind |-> "length", n |-> Size[s]] /\ Size[s] \in Nat
    <3>1. Len(cells) - p \in Nat \ {0} /\ p \in Nat
      BY <1>1, <1>2, <2>1
    <3>2. cells[p + 1] = [kind |-> "length", n |-> Size[s]]
      BY <1>1, <2>1, <3>1, LengthLies
    <3> QED BY <3>2
  <2>3. p + 1 + cells[p + 1].n > Len(cells) /\ cells[p + 1].kind = "length"
    BY <1>1, <1>2, <2>1, <2>2
  <2>4. TailAt(cells, p) = "short"
    BY <1>5, <2>3 DEF TailAt
  <2> QED BY <1>5, <2>4 DEF p
<1> QED BY <1>4, <1>5

LEMMA ShapePasses ==
    ASSUME NEW cells, NEW k, NEW rs, NEW ends, Shape(cells, k, rs, ends),
           NEW l \in StoreKeys, l = k \/ rs = <<>>
    PROVE  Passes(cells, l, rs, ends)
<1>1. /\ cells \in Seq(Cells) /\ k \in StoreKeys /\ rs \in Seq(Records)
      /\ Len(rs) \in Nat /\ Len(cells) \in Nat
  BY LenProperties DEF Shape, Framed
<1>2. ends \in [0 .. Len(rs) -> 1 .. Len(cells)] /\ ends[0] = 1
  BY DEF Shape, Framed
<1>3. ends \in [0 .. Len(rs) -> Nat] /\ \A j \in 0 .. Len(rs) : ends[j] \in 1 .. Len(cells)
  <2>1. \A j \in 0 .. Len(rs) : ends[j] \in 1 .. Len(cells)
    BY <1>2
  <2>2. 1 .. Len(cells) \subseteq Nat
    BY <1>1
  <2> QED BY <1>2, <2>1, <2>2
<1>4. ASSUME NEW j \in 0 .. Len(rs) - 1
      PROVE  /\ Opening(cells, l, ends[j], j) = {rs[j + 1]}
             /\ ends[j + 1] = ends[j] + 1 + cells[ends[j] + 1].n
             /\ ends[j] < ends[j + 1]
  <2>1. l = k
    BY <1>1, <1>4
  <2>2. j \in Nat /\ j \in 0 .. Len(rs) /\ j + 1 \in 1 .. Len(rs) /\ j + 1 \in 0 .. Len(rs)
    BY <1>1
  <2>3. rs[j + 1] \in Records
    BY <1>1, <2>2, ElementOfSeq
  <2>4. FrameAt(cells, k, rs, ends, j)
    BY DEF Shape, Framed
  <2>5. cells[ends[j] + 1] = [kind |-> "length", n |-> Size[rs[j + 1]]]
    <3>1. 1 + Size[rs[j + 1]] \in Nat \ {0}
      BY <2>3
    <3>2. ends[j] \in Nat
      BY <1>3, <2>2
    <3>3. LiesAt(cells, ends[j], Frame(rs[j + 1], j, k), 1 + Size[rs[j + 1]])
      BY <2>4 DEF FrameAt
    <3> QED BY <1>1, <2>2, <2>3, <3>1, <3>2, <3>3, LengthLies
  <2>6. ends[j + 1] = ends[j] + 1 + cells[ends[j] + 1].n
    BY <2>4, <2>5 DEF FrameAt
  <2>7. ends[j] < ends[j + 1]
    BY <2>2 DEF Shape, Framed
  <2>8. Opening(cells, l, ends[j], j) = {rs[j + 1]}
    <3>1. j < Len(rs)
      BY <1>1
    <3>2. OpensAt(cells, k, rs, ends, j)
      BY <2>2, <3>1, OpensOwnFrame
    <3> QED BY <2>1, <3>2 DEF OpensAt
  <2> QED BY <2>6, <2>7, <2>8
<1>5. \A j \in Nat : Opening(cells, l, ends[Len(rs)], j) = {}
  BY OpensNoTail
<1> QED BY <1>1, <1>2, <1>3, <1>4, <1>5 DEF Passes

\* A scan under the log's key finds the records.
LEMMA ScanShape ==
    ASSUME NEW cells, NEW k, NEW rs, NEW ends, Shape(cells, k, rs, ends),
           Len(rs) <= MaxRecords, NEW l \in StoreKeys, l = k \/ rs = <<>>
    PROVE  Scan(cells, l) =
              [tail |-> IF ends[Len(rs)] = Len(cells) THEN "clean" ELSE "short",
               end |-> ends[Len(rs)], records |-> rs]
<1>1. Passes(cells, l, rs, ends)
  BY ShapePasses
<1> QED BY <1>1, ScanPasses, TailIsShort

LEMMA AcceptsShape ==
    ASSUME NEW cells, NEW k, NEW rs, NEW ends, Shape(cells, k, rs, ends),
           Len(rs) <= MaxRecords, NEW l \in StoreKeys, l = k \/ rs = <<>>
    PROVE  HasHeader(cells) /\ Accepts(cells, l)
<1>1. HasHeader(cells)
  <2>1. cells \in Seq(Cells) /\ Len(cells) >= 1
    BY DEF Shape, Framed
  <2> QED BY <2>1 DEF HasHeader
<1>2. Scan(cells, l).tail \in {"clean", "short"}
  BY ScanShape
<1> QED BY <1>1, <1>2 DEF Accepts

\* A log with records is refused under another key: its first record does not open.
LEMMA WrongKeyRefused ==
    ASSUME NEW cells, NEW k, NEW rs, NEW ends, Shape(cells, k, rs, ends), rs # <<>>,
           NEW l \in StoreKeys, l # k
    PROVE  ~Accepts(cells, l)
<1> DEFINE none == [i \in 0 .. 0 |-> 1]
<1>1. /\ cells \in Seq(Cells) /\ k \in StoreKeys /\ rs \in Seq(Records)
      /\ Len(rs) \in Nat \ {0} /\ Len(cells) \in Nat \ {0}
  BY LenProperties, EmptySeq DEF Shape, Framed
<1>2. rs[1] \in Records
  BY <1>1, ElementOfSeq
<1>3. ends[0] = 1 /\ FrameAt(cells, k, rs, ends, 0)
  BY <1>1 DEF Shape, Framed
<1>4. LiesAt(cells, 1, Frame(rs[1], 0, k), 1 + Size[rs[1]]) /\ Size[rs[1]] \in Nat \ {0}
  BY <1>1, <1>2, <1>3 DEF FrameAt
<1>5. ASSUME NEW j \in Nat PROVE Opening(cells, l, 1, j) = {}
  <2>1. \A r \in Records : r \notin Opening(cells, l, 1, j)
    BY <1>1, <1>2, <1>4, OpeningLies, FrameIsOne
  <2> QED BY <2>1 DEF Opening
<1>6. Passes(cells, l, <<>>, none)
  <2>1. <<>> \in Seq(Records) /\ Len(<<>>) = 0
    OBVIOUS
  <2>2. none \in [0 .. Len(<<>>) -> Nat] /\ none[0] = 1 /\ none[Len(<<>>)] = 1
    BY <2>1
  <2>3. \A j \in 0 .. Len(<<>>) : none[j] \in 1 .. Len(cells)
    BY <1>1, <2>1, <2>2
  <2>4. 0 .. Len(<<>>) - 1 = {}
    BY <2>1
  <2> HIDE DEF none
  <2> QED BY <1>1, <1>5, <2>1, <2>2, <2>3, <2>4 DEF Passes
<1>7. Scan(cells, l) = [tail |-> TailAt(cells, 1), end |-> 1, records |-> <<>>]
  <2>1. Len(<<>>) = 0 /\ Len(<<>>) <= MaxRecords /\ none[0] = 1
    OBVIOUS
  <2> HIDE DEF none
  <2> QED BY <1>6, <2>1, ScanPasses
<1>8. cells[1 + 1] = [kind |-> "length", n |-> Size[rs[1]]]
  <2>1. 1 + Size[rs[1]] \in Nat \ {0}
    BY <1>4
  <2> QED BY <1>1, <1>2, <1>4, <2>1, LengthLies
<1>9. TailAt(cells, 1) \in {"final_failed", "error"}
  <2>1. 1 + 1 + Size[rs[1]] <= Len(cells)
    BY <1>1, <1>4 DEF LiesAt
  <2>2. 1 # Len(cells) /\ cells[1 + 1].kind = "length" /\ cells[1 + 1].n = Size[rs[1]]
    BY <1>1, <1>4, <1>8, <2>1
  <2> QED BY <1>1, <1>4, <2>1, <2>2 DEF TailAt
<1> QED BY <1>7, <1>9 DEF Accepts

(***************************************************************************)
(* How the shape changes when a log is cut and when it grows.              *)
(***************************************************************************)
Agree(cells, other, n) ==
    n <= Len(cells) /\ n <= Len(other) /\ \A i \in 1 .. n : other[i] = cells[i]

LEMMA LiesKept ==
    ASSUME NEW cells, NEW other, NEW n \in Nat, Agree(cells, other, n), NEW frame,
           NEW p \in Nat, NEW m \in Nat, LiesAt(cells, p, frame, m), p + m <= n,
           Len(cells) \in Nat, Len(other) \in Nat
    PROVE  LiesAt(other, p, frame, m)
<1>1. p + m <= Len(other)
  BY DEF Agree
<1>2. ASSUME NEW i \in 1 .. m PROVE other[p + i] = frame[i]
  <2>1. p + i \in 1 .. n
    OBVIOUS
  <2> QED BY <2>1 DEF Agree, LiesAt
<1> QED BY <1>1, <1>2 DEF LiesAt

LEMMA LiesCut ==
    ASSUME NEW cells, NEW part, NEW n \in Nat, Len(part) = n,
           \A i \in 1 .. n : part[i] = cells[i], NEW frame,
           NEW p \in Nat, p <= n, NEW m \in Nat, n - p <= m, LiesAt(cells, p, frame, m)
    PROVE  LiesAt(part, p, frame, n - p)
<1>1. p + (n - p) <= Len(part)
  OBVIOUS
<1>2. ASSUME NEW i \in 1 .. n - p PROVE part[p + i] = frame[i]
  <2>1. p + i \in 1 .. n /\ i \in 1 .. m
    OBVIOUS
  <2>2. cells[p + i] = frame[i]
    BY <2>1 DEF LiesAt
  <2> QED BY <2>1, <2>2
<1> QED BY <1>1, <1>2 DEF LiesAt

Cut(f, q) == [j \in 0 .. q |-> f[j]]

\* Only the cells up to the q-th record matter to the first q records.
LEMMA FramesKept ==
    ASSUME NEW cells, NEW k, NEW rs, NEW ends, Framed(cells, k, rs, ends),
           NEW other \in Seq(Cells), NEW q \in 0 .. Len(rs), Agree(cells, other, ends[q])
    PROVE  Framed(other, k, SubSeq(rs, 1, q), Cut(ends, q))
<1> DEFINE first == SubSeq(rs, 1, q)
           cut == Cut(ends, q)
<1>1. /\ cells \in Seq(Cells) /\ k \in StoreKeys /\ rs \in Seq(Records)
      /\ Len(rs) \in Nat /\ Len(cells) \in Nat /\ Len(other) \in Nat /\ q \in Nat
  BY LenProperties DEF Framed
<1>2. first \in Seq(Records) /\ Len(first) = q /\ \A j \in 1 .. q : first[j] = rs[j]
  <2>1. \A i \in 1 .. q : rs[i] \in Records
    BY <1>1, ElementOfSeq
  <2>2. /\ SubSeq(rs, 1, q) \in Seq(Records)
        /\ Len(SubSeq(rs, 1, q)) = IF 1 <= q THEN q - 1 + 1 ELSE 0
        /\ \A i \in 1 .. q - 1 + 1 : SubSeq(rs, 1, q)[i] = rs[1 + i - 1]
    BY <1>1, <2>1, SubSeqProperties
  <2> QED BY <1>1, <2>2
<1>3. \A j \in 0 .. q : cut[j] = ends[j]
  BY DEF Cut
<1>4. \A j \in 0 .. Len(rs) : ends[j] \in 1 .. Len(cells)
  BY DEF Framed
<1>5. \A i, j \in 0 .. Len(rs) : i < j => ends[i] < ends[j]
  BY DEF Framed
<1>6. ends[q] \in Nat /\ ends[q] <= Len(other) /\ \A i \in 1 .. ends[q] : other[i] = cells[i]
  BY <1>1, <1>4 DEF Agree
<1>7. \A j \in 0 .. q : ends[j] \in 1 .. ends[q]
  <2> TAKE j \in 0 .. q
  <2>1. ends[j] \in 1 .. Len(cells) /\ (j = q \/ ends[j] < ends[q])
    BY <1>1, <1>4, <1>5
  <2> QED BY <1>1, <1>6, <2>1
<1>8. cut \in [0 .. q -> 1 .. Len(other)]
  BY <1>1, <1>6, <1>7 DEF Cut
<1>9. ends[0] = 1 /\ cells[1] = Header
  BY DEF Framed
<1>10. cut[0] = 1 /\ Len(other) >= 1 /\ other[1] = Header
  <2>1. 0 \in 0 .. q /\ 1 \in 1 .. ends[q]
    BY <1>1, <1>7, <1>9
  <2> QED BY <1>1, <1>3, <1>6, <1>9, <2>1
<1>11. \A i, j \in 0 .. q : i < j => cut[i] < cut[j]
  BY <1>1, <1>3, <1>5
<1>12. ASSUME NEW j \in 0 .. q - 1 PROVE FrameAt(other, k, first, cut, j)
  <2>1. j \in 0 .. Len(rs) - 1 /\ j \in 0 .. q /\ j + 1 \in 0 .. q /\ j + 1 \in 1 .. q
    BY <1>1
  <2>2. FrameAt(cells, k, rs, ends, j)
    BY <2>1 DEF Framed
  <2>3. rs[j + 1] \in Records
    BY <1>1, <2>1, ElementOfSeq
  <2>4. ends[j] \in Nat /\ ends[j] + (1 + Size[rs[j + 1]]) <= ends[q]
    BY <1>6, <1>7, <2>1, <2>2, <2>3 DEF FrameAt
  <2>5. LiesAt(other, ends[j], Frame(rs[j + 1], j, k), 1 + Size[rs[j + 1]])
    <3>1. 1 + Size[rs[j + 1]] \in Nat
      BY <2>3
    <3>2. LiesAt(cells, ends[j], Frame(rs[j + 1], j, k), 1 + Size[rs[j + 1]])
      BY <2>2 DEF FrameAt
    <3> QED BY <1>1, <1>6, <2>4, <3>1, <3>2, LiesKept
  <2>6. first[j + 1] = rs[j + 1] /\ cut[j] = ends[j] /\ cut[j + 1] = ends[j + 1]
    BY <1>2, <1>3, <2>1
  <2> HIDE DEF first, cut
  <2> QED BY <2>2, <2>5, <2>6 DEF FrameAt
<1> HIDE DEF first, cut
<1>13. Framed(other, k, first, cut)
  BY <1>1, <1>2, <1>8, <1>10, <1>11, <1>12 DEF Framed
<1> QED BY <1>13 DEF first, cut

LEMMA CutWhole ==
    ASSUME NEW cells, NEW k, NEW rs, NEW ends, Framed(cells, k, rs, ends)
    PROVE  SubSeq(rs, 1, Len(rs)) = rs /\ Cut(ends, Len(rs)) = ends
<1>1. SubSeq(rs, 1, Len(rs)) = rs
  BY SubSeqFull DEF Framed
<1>2. ends = [j \in 0 .. Len(rs) |-> ends[j]]
  BY DEF Framed
<1> QED BY <1>1, <1>2 DEF Cut

Beginning(cells, n) == SubSeq(cells, 1, n)

LEMMA BeginningCells ==
    ASSUME NEW cells \in Seq(Cells), NEW n \in 0 .. Len(cells)
    PROVE  /\ Beginning(cells, n) \in Seq(Cells) /\ Len(Beginning(cells, n)) = n
           /\ \A i \in 1 .. n : Beginning(cells, n)[i] = cells[i]
<1>1. Len(cells) \in Nat /\ n \in Nat
  BY LenProperties
<1>2. \A i \in 1 .. n : cells[i] \in Cells
  BY <1>1, ElementOfSeq
<1>3. /\ SubSeq(cells, 1, n) \in Seq(Cells)
      /\ Len(SubSeq(cells, 1, n)) = IF 1 <= n THEN n - 1 + 1 ELSE 0
      /\ \A i \in 1 .. n - 1 + 1 : SubSeq(cells, 1, n)[i] = cells[1 + i - 1]
  BY <1>1, <1>2, SubSeqProperties
<1> QED BY <1>1, <1>3 DEF Beginning

\* The beginning of a log is a log: it has the records that end in it.
CutAt(cells, k, rs, ends, n, q) ==
    /\ Shape(Beginning(cells, n), k, SubSeq(rs, 1, q), Cut(ends, q))
    /\ \A m \in 0 .. Len(rs) : ends[m] <= n => m <= q

LEMMA BeginningShape ==
    ASSUME NEW cells, NEW k, NEW rs, NEW ends, Shape(cells, k, rs, ends),
           NEW n \in 1 .. Len(cells)
    PROVE  \E q \in 0 .. Len(rs) : CutAt(cells, k, rs, ends, n, q)
<1>1. /\ cells \in Seq(Cells) /\ k \in StoreKeys /\ rs \in Seq(Records)
      /\ Len(rs) \in Nat /\ Len(cells) \in Nat /\ n \in Nat
  BY LenProperties DEF Shape, Framed
<1> DEFINE Beyond == {j \in 1 .. Len(rs) + 1 : j = Len(rs) + 1 \/ ends[j] > n}
           part == Beginning(cells, n)
<1>2. PICK b \in Beyond : \A j \in Beyond : b <= j
  <2>1. Beyond \in SUBSET Nat /\ Len(rs) + 1 \in Beyond
    BY <1>1
  <2> HIDE DEF Beyond
  <2> QED BY <2>1, LeastNatural
<1>3. PICK q \in 0 .. Len(rs) : b = q + 1
  <2>1. b - 1 \in 0 .. Len(rs) /\ b = b - 1 + 1
    BY <1>1
  <2> QED BY <2>1
<1>4. \A j \in 0 .. Len(rs) : ends[j] \in 1 .. Len(cells)
  BY DEF Shape, Framed
<1>5. \A i, j \in 0 .. Len(rs) : i < j => ends[i] < ends[j]
  BY DEF Shape, Framed
<1>6. ends[q] <= n
  <2>1. CASE q = 0
    BY <1>1, <2>1 DEF Shape, Framed
  <2>2. CASE q # 0
    <3>1. q \notin Beyond
      BY <1>1, <1>2, <1>3
    <3>2. q \in 1 .. Len(rs) + 1 /\ ends[q] \in Nat
      BY <1>1, <1>3, <1>4, <2>2
    <3> QED BY <1>1, <3>1, <3>2
  <2> QED BY <2>1, <2>2
<1>7. \A m \in 0 .. Len(rs) : ends[m] <= n => m <= q
  <2> TAKE m \in 0 .. Len(rs)
  <2>1. SUFFICES ASSUME q < m, ends[m] <= n PROVE FALSE
    BY <1>1
  <2>2. q + 1 <= Len(rs) /\ q + 1 \in 0 .. Len(rs) /\ ends[q + 1] > n
    BY <1>1, <1>2, <1>3, <2>1
  <2>3. q + 1 = m \/ ends[q + 1] < ends[m]
    BY <1>1, <1>5, <2>1, <2>2
  <2>4. ends[m] \in Nat /\ ends[q + 1] \in Nat
    BY <1>1, <1>4, <2>2
  <2> QED BY <1>1, <2>1, <2>2, <2>3, <2>4
<1>8. part \in Seq(Cells) /\ Len(part) = n /\ \A i \in 1 .. n : part[i] = cells[i]
  BY <1>1, BeginningCells
<1> HIDE DEF Beyond, part
<1>9. Framed(part, k, SubSeq(rs, 1, q), Cut(ends, q))
  <2>1. ends[q] \in Nat
    BY <1>1, <1>4
  <2>2. Agree(cells, part, ends[q])
    BY <1>1, <1>6, <1>8, <2>1 DEF Agree
  <2> QED BY <1>8, <2>2, FramesKept DEF Shape
<1>10. Torn(part, ends[q], q, k)
  <2>0. ends[q] \in Nat
    BY <1>1, <1>4
  <2>1. CASE ends[q] = n
    BY <1>8, <2>1 DEF Torn
  <2>2. CASE ends[q] # n /\ q = Len(rs)
    <3>1. Torn(cells, ends[q], q, k)
      BY <2>2 DEF Shape
    <3>2. PICK r \in Records : /\ ends[q] < Len(cells) /\ Len(cells) - ends[q] <= Size[r]
                               /\ LiesAt(cells, ends[q], Frame(r, q, k), Len(cells) - ends[q])
      BY <1>1, <1>6, <2>0, <2>2, <3>1 DEF Torn
    <3>3. n - ends[q] <= Size[r] /\ ends[q] < n
      BY <1>1, <1>6, <2>0, <2>2, <3>2
    <3>4. LiesAt(part, ends[q], Frame(r, q, k), n - ends[q])
      <4>1. Len(cells) - ends[q] \in Nat /\ n - ends[q] <= Len(cells) - ends[q]
        BY <1>1, <2>0, <3>2
      <4> QED BY <1>1, <1>6, <1>8, <2>0, <3>2, <4>1, LiesCut
    <3> QED BY <1>8, <3>3, <3>4 DEF Torn
  <2>3. CASE ends[q] # n /\ q # Len(rs)
    <3>1. q \in 0 .. Len(rs) - 1 /\ q + 1 \in 1 .. Len(rs) /\ q + 1 \in 0 .. Len(rs)
      BY <1>1, <2>3
    <3>2. FrameAt(cells, k, rs, ends, q)
      BY <3>1 DEF Shape, Framed
    <3>3. rs[q + 1] \in Records
      BY <1>1, <3>1, ElementOfSeq
    <3>4. ends[q + 1] \in Nat /\ ~(ends[q + 1] <= n)
      BY <1>1, <1>4, <1>7, <3>1
    <3>5. n - ends[q] <= Size[rs[q + 1]] /\ ends[q] < n
      BY <1>1, <1>6, <2>0, <2>3, <3>2, <3>3, <3>4 DEF FrameAt
    <3>6. LiesAt(part, ends[q], Frame(rs[q + 1], q, k), n - ends[q])
      <4> DEFINE m == 1 + Size[rs[q + 1]]
      <4>1. m \in Nat /\ n - ends[q] <= m
        BY <1>1, <2>0, <3>3, <3>5
      <4>2. LiesAt(cells, ends[q], Frame(rs[q + 1], q, k), m)
        BY <3>2 DEF FrameAt
      <4> HIDE DEF m
      <4> QED BY <1>1, <1>6, <1>8, <2>0, <4>1, <4>2, LiesCut
    <3> QED BY <1>8, <3>3, <3>5, <3>6 DEF Torn
  <2> QED BY <2>1, <2>2, <2>3
<1>11. Len(SubSeq(rs, 1, q)) = q /\ Cut(ends, q)[q] = ends[q]
  <2>1. Len(SubSeq(rs, 1, q)) = q
    <3>1. \A i \in 1 .. q : rs[i] \in Records
      BY <1>1, ElementOfSeq
    <3>2. Len(SubSeq(rs, 1, q)) = IF 1 <= q THEN q - 1 + 1 ELSE 0
      BY <1>1, <3>1, SubSeqProperties
    <3> QED BY <1>1, <3>2
  <2> QED BY <1>1, <2>1 DEF Cut
<1>12. Shape(part, k, SubSeq(rs, 1, q), Cut(ends, q))
  BY <1>9, <1>10, <1>11 DEF Shape
<1> QED BY <1>7, <1>12 DEF CutAt, part

LEMMA HeaderShape ==
    ASSUME NEW k \in StoreKeys
    PROVE  Shape(<<Header>>, k, <<>>, [j \in 0 .. 0 |-> 1])
<1> DEFINE ends == [j \in 0 .. 0 |-> 1]
<1>1. Header \in Cells
  BY DEF Cells
<1>2. <<Header>> \in Seq(Cells) /\ Len(<<Header>>) = 1 /\ <<Header>>[1] = Header
  BY <1>1
<1>3. <<>> \in Seq(Records) /\ Len(<<>>) = 0
  OBVIOUS
<1>4. ends \in [0 .. 0 -> 1 .. 1] /\ ends[0] = 1
  OBVIOUS
<1> HIDE DEF ends
<1>5. Framed(<<Header>>, k, <<>>, ends)
  <2>1. 0 .. Len(<<>>) - 1 = {}
    BY <1>3
  <2> QED BY <1>2, <1>3, <1>4, <2>1 DEF Framed
<1>6. Torn(<<Header>>, ends[Len(<<>>)], Len(<<>>), k)
  BY <1>2, <1>3, <1>4 DEF Torn
<1>7. Shape(<<Header>>, k, <<>>, ends)
  BY <1>5, <1>6 DEF Shape
<1> QED BY <1>7 DEF ends

\* A part of a frame behind a log.
Longer(cells, frame, m) == cells \o Beginning(frame, m)

LEMMA LongerLies ==
    ASSUME NEW cells \in Seq(Cells), NEW frame \in Seq(Cells), NEW m \in 0 .. Len(frame)
    PROVE  /\ Longer(cells, frame, m) \in Seq(Cells)
           /\ Len(Longer(cells, frame, m)) = Len(cells) + m
           /\ Agree(cells, Longer(cells, frame, m), Len(cells))
           /\ LiesAt(Longer(cells, frame, m), Len(cells), frame, m)
<1> DEFINE part == Beginning(frame, m)
           all == cells \o part
<1>1. Len(cells) \in Nat /\ Len(frame) \in Nat /\ m \in Nat
  BY LenProperties
<1>2. part \in Seq(Cells) /\ Len(part) = m /\ \A i \in 1 .. m : part[i] = frame[i]
  BY BeginningCells
<1> HIDE DEF part
<1>3. /\ all \in Seq(Cells) /\ Len(all) = Len(cells) + Len(part)
      /\ \A i \in 1 .. Len(cells) + Len(part) :
            all[i] = IF i <= Len(cells) THEN cells[i] ELSE part[i - Len(cells)]
  BY <1>2, ConcatProperties
<1> HIDE DEF all
<1>4. \A i \in 1 .. Len(cells) : all[i] = cells[i]
  BY <1>1, <1>2, <1>3
<1>5. \A i \in 1 .. m : all[Len(cells) + i] = frame[i]
  BY <1>1, <1>2, <1>3
<1>6. Agree(cells, all, Len(cells)) /\ LiesAt(all, Len(cells), frame, m)
  BY <1>1, <1>2, <1>3, <1>4, <1>5 DEF Agree, LiesAt
<1> QED BY <1>2, <1>3, <1>6 DEF Longer, all, part

\* Where the loop stands behind a complete log.
Complete(cells, k, rs, ends) ==
    Framed(cells, k, rs, ends) /\ ends[Len(rs)] = Len(cells)

LEMMA CompleteIsShape ==
    ASSUME NEW cells, NEW k, NEW rs, NEW ends, Complete(cells, k, rs, ends)
    PROVE  Shape(cells, k, rs, ends)
BY DEF Complete, Shape, Torn

\* A write that fails leaves the records as they were.
LEMMA TornShape ==
    ASSUME NEW cells, NEW k, NEW rs, NEW ends, Complete(cells, k, rs, ends),
           NEW r \in Records, NEW m \in 0 .. Size[r]
    PROVE  Shape(Longer(cells, Frame(r, Len(rs), k), m), k, rs, ends)
<1> DEFINE frame == Frame(r, Len(rs), k)
           all == Longer(cells, frame, m)
<1>1. /\ cells \in Seq(Cells) /\ k \in StoreKeys /\ rs \in Seq(Records)
      /\ Len(rs) \in Nat /\ Len(cells) \in Nat
  BY LenProperties DEF Complete, Framed
<1>2. ends[Len(rs)] = Len(cells) /\ Framed(cells, k, rs, ends)
  BY DEF Complete
<1>3. frame \in Seq(Cells) /\ m \in 0 .. Len(frame) /\ m \in Nat /\ Size[r] \in Nat
  <2>1. IsFrame(frame, r, Len(rs), k)
    BY <1>1, FrameCells
  <2> QED BY <2>1 DEF IsFrame
<1> HIDE DEF frame
<1>4. /\ all \in Seq(Cells) /\ Len(all) = Len(cells) + m
      /\ Agree(cells, all, Len(cells)) /\ LiesAt(all, Len(cells), frame, m)
  BY <1>1, <1>3, LongerLies
<1> HIDE DEF all
<1>5. Framed(all, k, rs, ends)
  <2>1. Len(rs) \in 0 .. Len(rs) /\ Agree(cells, all, ends[Len(rs)])
    BY <1>1, <1>2, <1>4
  <2>2. Framed(all, k, SubSeq(rs, 1, Len(rs)), Cut(ends, Len(rs)))
    BY <1>2, <1>4, <2>1, FramesKept
  <2>3. SubSeq(rs, 1, Len(rs)) = rs /\ Cut(ends, Len(rs)) = ends
    BY <1>2, CutWhole
  <2> QED BY <2>2, <2>3
<1>6. Torn(all, ends[Len(rs)], Len(rs), k)
  <2>1. CASE m = 0
    BY <1>1, <1>2, <1>4, <2>1 DEF Torn
  <2>2. CASE m # 0
    <3>1. Len(all) - Len(cells) = m /\ Len(cells) < Len(all) /\ m <= Size[r]
      BY <1>1, <1>3, <1>4, <2>2
    <3>2. LiesAt(all, ends[Len(rs)], Frame(r, Len(rs), k), Len(all) - ends[Len(rs)])
      BY <1>2, <1>4, <3>1 DEF frame
    <3> QED BY <1>2, <3>1, <3>2 DEF Torn
  <2> QED BY <2>1, <2>2
<1> QED BY <1>5, <1>6 DEF Shape, all, frame

\* An append adds one record.
Further(ends, n, end) == [j \in 0 .. n + 1 |-> IF j = n + 1 THEN end ELSE ends[j]]

LEMMA LongerShape ==
    ASSUME NEW cells, NEW k, NEW rs, NEW ends, Complete(cells, k, rs, ends),
           NEW r \in Records
    PROVE  Complete(Longer(cells, Frame(r, Len(rs), k), 1 + Size[r]), k, Append(rs, r),
                    Further(ends, Len(rs), Len(cells) + 1 + Size[r]))
<1> DEFINE frame == Frame(r, Len(rs), k)
           m == 1 + Size[r]
           all == Longer(cells, frame, m)
           more == Append(rs, r)
           count == Len(rs)
           further == Further(ends, count, Len(cells) + 1 + Size[r])
<1>1. /\ cells \in Seq(Cells) /\ k \in StoreKeys /\ rs \in Seq(Records)
      /\ count \in Nat /\ Len(cells) \in Nat
  BY LenProperties DEF Complete, Framed
<1>2. ends[count] = Len(cells) /\ Framed(cells, k, rs, ends)
  BY DEF Complete
<1>3. frame \in Seq(Cells) /\ m \in 0 .. Len(frame) /\ m \in Nat \ {0} /\ m = 1 + Size[r]
  <2>1. IsFrame(frame, r, Len(rs), k)
    BY <1>1, FrameCells
  <2> QED BY <2>1 DEF IsFrame
<1> HIDE DEF frame, m
<1>4. /\ all \in Seq(Cells) /\ Len(all) = Len(cells) + m
      /\ Agree(cells, all, Len(cells)) /\ LiesAt(all, Len(cells), frame, m)
  BY <1>1, <1>3, LongerLies
<1>5. /\ more \in Seq(Records) /\ Len(more) = count + 1 /\ more[count + 1] = r
      /\ \A i \in 1 .. count : more[i] = rs[i]
  BY <1>1, AppendProperties
<1>6. /\ \A j \in 0 .. count : further[j] = ends[j]
      /\ further[count + 1] = Len(cells) + m
  BY <1>1, <1>3 DEF Further
<1>7. Framed(all, k, rs, ends)
  <2> HIDE DEF all
  <2>1. count \in 0 .. count /\ Agree(cells, all, ends[count])
    BY <1>1, <1>2, <1>4
  <2>2. Framed(all, k, SubSeq(rs, 1, count), Cut(ends, count))
    BY <1>2, <1>4, <2>1, FramesKept
  <2>3. SubSeq(rs, 1, count) = rs /\ Cut(ends, count) = ends
    BY <1>2, CutWhole
  <2> QED BY <2>2, <2>3
<1> HIDE DEF all, more
<1>8. \A j \in 0 .. count : ends[j] \in 1 .. Len(cells)
  BY <1>2 DEF Framed
<1>9. further \in [0 .. count + 1 -> 1 .. Len(all)]
  <2>1. \A j \in 0 .. count + 1 : further[j] \in 1 .. Len(all)
    <3> TAKE j \in 0 .. count + 1
    <3>1. CASE j = count + 1
      BY <1>1, <1>3, <1>4, <1>6, <3>1
    <3>2. CASE j # count + 1
      <4>1. j \in 0 .. count
        BY <1>1, <3>2
      <4>2. further[j] = ends[j] /\ ends[j] \in 1 .. Len(cells)
        BY <1>6, <1>8, <4>1
      <4> HIDE DEF further
      <4> QED BY <1>1, <1>3, <1>4, <4>2
    <3> QED BY <3>1, <3>2
  <2>2. further = [j \in 0 .. count + 1 |-> further[j]]
    BY DEF Further
  <2> HIDE DEF further
  <2> QED BY <2>1, <2>2
<1> HIDE DEF further
<1>10. \A i, j \in 0 .. count + 1 : i < j => further[i] < further[j]
  <2> SUFFICES ASSUME NEW i \in 0 .. count + 1, NEW j \in 0 .. count + 1, i < j
               PROVE  further[i] < further[j]
    OBVIOUS
  <2>1. i \in 0 .. count
    BY <1>1
  <2>2. CASE j = count + 1
    <3>1. further[i] = ends[i] /\ ends[i] \in 1 .. Len(cells)
      BY <1>6, <1>8, <2>1
    <3>2. further[j] = Len(cells) + m
      BY <1>6, <2>2
    <3> QED BY <1>1, <1>3, <3>1, <3>2
  <2>3. CASE j # count + 1
    <3>1. j \in 0 .. count
      BY <1>1, <2>3
    <3> QED BY <1>2, <1>6, <2>1, <3>1 DEF Framed
  <2> QED BY <2>2, <2>3
<1>11. ASSUME NEW j \in 0 .. count PROVE FrameAt(all, k, more, further, j)
  <2>1. CASE j = count
    <3>1. more[j + 1] = r /\ further[j] = Len(cells) /\ further[j + 1] = Len(cells) + m
      BY <1>1, <1>2, <1>5, <1>6, <2>1
    <3>2. LiesAt(all, further[j], Frame(more[j + 1], j, k), 1 + Size[more[j + 1]])
      BY <1>3, <1>4, <2>1, <3>1 DEF frame
    <3>3. further[j + 1] = further[j] + 1 + Size[more[j + 1]]
      BY <1>1, <1>3, <3>1
    <3> QED BY <3>2, <3>3 DEF FrameAt
  <2>2. CASE j # count
    <3>1. j \in 0 .. count - 1 /\ j + 1 \in 1 .. count /\ j + 1 \in 0 .. count
      BY <1>1, <2>2
    <3>2. more[j + 1] = rs[j + 1] /\ further[j] = ends[j] /\ further[j + 1] = ends[j + 1]
      BY <1>5, <1>6, <3>1
    <3>3. FrameAt(all, k, rs, ends, j)
      BY <1>7, <3>1 DEF Framed
    <3> QED BY <3>2, <3>3 DEF FrameAt
  <2> QED BY <2>1, <2>2
<1>12. Framed(all, k, more, further)
  <2>1. Len(all) >= 1 /\ all[1] = Header /\ ends[0] = 1
    BY <1>7 DEF Framed
  <2>2. further[0] = 1 /\ Len(more) - 1 = count
    <3>1. 0 \in 0 .. count /\ count + 1 - 1 = count
      BY <1>1
    <3> QED BY <1>5, <1>6, <2>1, <3>1
  <2> QED BY <1>1, <1>4, <1>5, <1>9, <1>10, <1>11, <2>1, <2>2 DEF Framed
<1>13. further[Len(more)] = Len(all)
  BY <1>4, <1>5, <1>6
<1> QED BY <1>12, <1>13 DEF Complete, all, more, further, frame, m

\* The rest of a torn log is complete.
LEMMA CutShape ==
    ASSUME NEW cells, NEW k, NEW rs, NEW ends, Shape(cells, k, rs, ends)
    PROVE  Complete(Beginning(cells, ends[Len(rs)]), k, rs, ends)
<1> DEFINE part == Beginning(cells, ends[Len(rs)])
<1>1. cells \in Seq(Cells) /\ Len(rs) \in Nat /\ Len(cells) \in Nat
  BY LenProperties DEF Shape, Framed
<1>2. ends[Len(rs)] \in 1 .. Len(cells) /\ Framed(cells, k, rs, ends)
  BY <1>1 DEF Shape, Framed
<1>3. /\ part \in Seq(Cells) /\ Len(part) = ends[Len(rs)]
      /\ \A i \in 1 .. ends[Len(rs)] : part[i] = cells[i]
  BY <1>1, <1>2, BeginningCells
<1> HIDE DEF part
<1>4. Agree(cells, part, ends[Len(rs)]) /\ Len(rs) \in 0 .. Len(rs)
  BY <1>1, <1>2, <1>3 DEF Agree
<1>5. Framed(part, k, SubSeq(rs, 1, Len(rs)), Cut(ends, Len(rs)))
  BY <1>2, <1>3, <1>4, FramesKept
<1>6. Framed(part, k, rs, ends)
  <2>1. SubSeq(rs, 1, Len(rs)) = rs /\ Cut(ends, Len(rs)) = ends
    BY <1>2, CutWhole
  <2> QED BY <1>5, <2>1
<1> QED BY <1>3, <1>6 DEF Complete, part

(***************************************************************************)
(* The inductive invariant.                                                *)
(***************************************************************************)
\* No write fails halfway while its writer goes on, and a power loss leaves no zeros.
Reliable == ~WriteFailures /\ ~ZeroFill

\* No header is on the disk: nothing was appended, and no writer is open.
Bare ==
    /\ file \in {NoFile, <<>>} /\ disk \in {NoFile, <<>>}
    /\ disk = <<>> => file = <<>> /\ writer = Closed
    /\ writer \in {Closed, Creating} /\ (writer = Creating => file = <<>>)
    /\ log = <<>> /\ promised = <<>>

\* The log holds records rs under k.  The first d cells are durable, and with them
\* the first p records, which were answered for.
Stored(cells, durable, answered, k, rs, ends, d, p) ==
    /\ Shape(cells, k, rs, ends) /\ Len(rs) <= MaxRecords
    /\ d \in 1 .. Len(cells) /\ durable = Beginning(cells, d)
    /\ p \in 0 .. Len(rs) /\ answered = SubSeq(rs, 1, p) /\ ends[p] <= d

\* An open writer is behind the last record.
Opened(w, appended, cells, k, rs, ends) ==
    /\ w = Writer(k, Len(cells), Len(rs)) /\ appended = rs
    /\ Complete(cells, k, rs, ends)

Written(k, rs, ends, d, p) ==
    /\ Stored(file, disk, promised, k, rs, ends, d, p)
    /\ writer # Closed => Opened(writer, log, file, k, rs, ends)

LogInv ==
    /\ ring \in Rings
    /\ Bare \/ \E k, rs, ends, d, p : Written(k, rs, ends, d, p)

\* What a step may do to the records and to how many of them are durable.
Evolves(rs, p, others, q) ==
    \/ others = rs /\ q \in p .. Len(rs)
    \/ q = p /\ \E r \in Records : others = Append(rs, r)
    \/ q = p /\ \E n \in p .. Len(rs) : others = SubSeq(rs, 1, n)

Continues(rs, p) ==
    \E k, others, ends, d, q : Written(k, others, ends, d, q)' /\ Evolves(rs, p, others, q)

LEMMA WrittenTypes ==
    ASSUME NEW k, NEW rs, NEW ends, NEW d, NEW p, Written(k, rs, ends, d, p)
    PROVE  /\ file \in Seq(Cells) /\ file # <<>> /\ file # NoFile /\ Len(file) \in Nat
           /\ k \in StoreKeys /\ rs \in Seq(Records) /\ Len(rs) \in Nat
           /\ ends \in [0 .. Len(rs) -> 1 .. Len(file)]
           /\ d \in Nat /\ p \in Nat
           /\ disk \in Seq(Cells) /\ Len(disk) = d
<1>1. /\ file \in Seq(Cells) /\ Len(file) >= 1 /\ k \in StoreKeys /\ rs \in Seq(Records)
      /\ ends \in [0 .. Len(rs) -> 1 .. Len(file)]
  BY DEF Written, Stored, Opened, Shape, Framed
<1>2. Len(file) \in Nat /\ Len(rs) \in Nat
  BY <1>1, LenProperties
<1>3. d \in 1 .. Len(file) /\ disk = Beginning(file, d) /\ p \in 0 .. Len(rs)
  BY DEF Written, Stored, Opened
<1>4. disk \in Seq(Cells) /\ Len(disk) = d
  BY <1>1, <1>2, <1>3, BeginningCells
<1> QED BY <1>1, <1>2, <1>3, <1>4

LEMMA WriterIsOpen ==
    ASSUME NEW k \in StoreKeys, NEW end \in Nat, NEW count \in Nat
    PROVE  /\ Writer(k, end, count) \notin {Closed, Creating}
           /\ Writer(k, end, count).key = k
           /\ Writer(k, end, count).position = end
           /\ Writer(k, end, count).next = count
<1>1. Writer(k, end, count) \in Writers
  BY DEF Writer, Writers
<1> QED BY <1>1 DEF Writer

\* The log's key, as the file tells it.
LEMMA LogKeyFits ==
    ASSUME NEW k, NEW rs, NEW ends, Shape(file, k, rs, ends), ring \in Rings
    PROVE  LogKey \in StoreKeys /\ (LogKey = k \/ rs = <<>>)
<1>1. /\ file \in Seq(Cells) /\ k \in StoreKeys /\ rs \in Seq(Records)
      /\ Len(rs) \in Nat /\ Len(file) \in Nat /\ Framed(file, k, rs, ends)
  BY LenProperties DEF Shape, Framed
<1>2. ring.current \in StoreKeys
  OBVIOUS
<1>3. ASSUME NEW r \in Records, NEW n \in Nat, 2 <= n, LiesAt(file, 1, Frame(r, 0, k), n)
      PROVE  LogKey = k
  <2>1. Frame(r, 0, k)[2] = Body(r, 0, k, 1)
    <3>1. IsFrame(Frame(r, 0, k), r, 0, k)
      BY <1>1, FrameCells
    <3> QED BY <3>1 DEF IsFrame
  <2>2. 2 \in 1 .. n /\ 1 + 2 = 3
    BY <1>3
  <2>3. file[3] = Frame(r, 0, k)[2] /\ Len(file) > 2
    BY <1>1, <1>3, <2>2 DEF LiesAt
  <2>4. file[3].kind = "body" /\ file[3].key = k
    BY <2>1, <2>3 DEF Body
  <2> QED BY <2>3, <2>4 DEF LogKey
<1>4. CASE rs = <<>>
  <2>1. Len(rs) = 0 /\ ends[0] = 1 /\ Torn(file, 1, 0, k)
    BY <1>4 DEF Shape, Framed
  <2>2. CASE Len(file) <= 2
    BY <1>1, <1>2, <1>4, <2>2 DEF LogKey
  <2>3. CASE Len(file) > 2
    <3>1. PICK r \in Records : LiesAt(file, 1, Frame(r, 0, k), Len(file) - 1)
      BY <1>1, <2>1, <2>3 DEF Torn
    <3>2. Len(file) - 1 \in Nat /\ 2 <= Len(file) - 1
      BY <1>1, <2>3
    <3> QED BY <1>1, <1>3, <3>1, <3>2
  <2> QED BY <1>1, <2>2, <2>3
<1>5. CASE rs # <<>>
  <2>1. 0 \in 0 .. Len(rs) - 1 /\ rs[1] \in Records
    <3>1. Len(rs) # 0
      BY <1>1, <1>5, EmptySeq
    <3> QED BY <1>1, <3>1, ElementOfSeq
  <2>2. LiesAt(file, 1, Frame(rs[1], 0, k), 1 + Size[rs[1]])
    BY <1>1, <2>1 DEF Framed, FrameAt
  <2>3. 1 + Size[rs[1]] \in Nat /\ 2 <= 1 + Size[rs[1]]
    BY <2>1
  <2> QED BY <1>1, <1>3, <2>1, <2>2, <2>3
<1> QED BY <1>4, <1>5

(***************************************************************************)
(* What the invariant says of the properties.                              *)
(***************************************************************************)
LEMMA RecoveredIs ==
    ASSUME ring \in Rings, NEW k, NEW rs, NEW ends, NEW d, NEW p, Written(k, rs, ends, d, p)
    PROVE  /\ HasHeader(file) /\ Accepts(file, LogKey)
           /\ Recovered.records = rs /\ Len(promised) = p
<1>1. Shape(file, k, rs, ends) /\ Len(rs) <= MaxRecords
  BY DEF Written, Stored, Opened
<1>2. LogKey \in StoreKeys /\ (LogKey = k \/ rs = <<>>)
  BY <1>1, LogKeyFits
<1>3. HasHeader(file) /\ Accepts(file, LogKey)
  BY <1>1, <1>2, AcceptsShape
<1>4. Scan(file, LogKey).records = rs
  BY <1>1, <1>2, ScanShape
<1>5. rs \in Seq(Records) /\ p \in 0 .. Len(rs) /\ Len(rs) \in Nat
      /\ promised = SubSeq(rs, 1, p)
  BY WrittenTypes DEF Written, Stored, Opened
<1>6. Len(promised) = p
  <2>1. \A i \in 1 .. p : rs[i] \in Records
    BY <1>5, ElementOfSeq
  <2>2. Len(SubSeq(rs, 1, p)) = IF 1 <= p THEN p - 1 + 1 ELSE 0
    BY <1>5, <2>1, SubSeqProperties
  <2> QED BY <1>5, <2>2
<1> QED BY <1>3, <1>4, <1>6 DEF Recovered

LEMMA RecoveredNothing ==
    ASSUME Bare
    PROVE  ~HasHeader(file) /\ Recovered.records = <<>> /\ Len(promised) = 0
<1>1. file \in {NoFile, <<>>} /\ promised = <<>>
  BY DEF Bare
<1> QED BY <1>1 DEF HasHeader, Recovered

LEMMA InvKeepsLog ==
    ASSUME LogInv
    PROVE  LogKept
<1>1. ring \in Rings
  BY DEF LogInv
<1>2. CASE Bare
  <2>1. ~IsOpen /\ promised = <<>>
    BY <1>2 DEF Bare, IsOpen
  <2> QED BY <1>2, <2>1, RecoveredNothing
          DEF LogKept, SyncedSurvive, WriterInStep, LogOpens
<1>3. ASSUME NEW k, NEW rs, NEW ends, NEW d, NEW p, Written(k, rs, ends, d, p)
      PROVE  LogKept
  <2>1. /\ HasHeader(file) /\ Accepts(file, LogKey)
        /\ Recovered.records = rs /\ Len(promised) = p
    BY <1>1, <1>3, RecoveredIs
  <2>2. /\ rs \in Seq(Records) /\ Len(rs) \in Nat /\ p \in 0 .. Len(rs)
        /\ promised = SubSeq(rs, 1, p) /\ k \in StoreKeys
    BY <1>3, WrittenTypes DEF Written, Stored, Opened
  <2>3. IsPrefix(promised, rs)
    <3>1. \A i \in 1 .. p : rs[i] \in Records
      BY <2>2, ElementOfSeq
    <3>2. SubSeq(rs, 1, p) \in Seq(Records)
      BY <2>2, <3>1, SubSeqProperties
    <3>3. SubSeq(promised, 1, Len(promised)) = promised
      BY <2>2, <3>2, SubSeqFull
    <3> QED BY <2>1, <2>2, <3>3 DEF IsPrefix
  <2>4. ASSUME IsOpen
        PROVE  Scan(file, writer.key) =
                  [tail |-> "clean", end |-> writer.position, records |-> log]
    <3>1. /\ writer = Writer(k, Len(file), Len(rs)) /\ log = rs
          /\ Complete(file, k, rs, ends)
      BY <1>3, <2>4 DEF Written, Stored, Opened, IsOpen
    <3>2. writer.key = k /\ writer.position = Len(file)
      <4>1. Len(file) \in Nat
        BY <1>3, WrittenTypes
      <4> QED BY <2>2, <3>1, <4>1, WriterIsOpen
    <3>3. ends[Len(rs)] = Len(file)
      BY <3>1 DEF Complete
    <3>4. Shape(file, k, rs, ends) /\ Len(rs) <= MaxRecords
      BY <1>3 DEF Written, Stored, Opened
    <3>5. Scan(file, k) = [tail |-> IF ends[Len(rs)] = Len(file) THEN "clean" ELSE "short",
                           end |-> ends[Len(rs)], records |-> rs]
      BY <2>2, <3>4, ScanShape
    <3> QED BY <3>1, <3>2, <3>3, <3>5
  <2> QED BY <2>1, <2>3, <2>4 DEF LogKept, SyncedSurvive, WriterInStep, LogOpens
<1> QED BY <1>2, <1>3 DEF LogInv

(***************************************************************************)
(* The steps.                                                              *)
(***************************************************************************)
LEMMA InitLog == LogInit => LogInv
BY DEF LogInit, LogInv, Bare

\* A step from a log without a header: at most the header is written.
Starts == \E k, ends : Written(k, <<>>, ends, 1, 0)'

LEMMA BareStep ==
    ASSUME Bare, ring \in Rings, [LogNext]_logVars
    PROVE  ring' \in Rings /\ (Bare' \/ Starts)
<1>1. NoFile # <<>> /\ Closed # Creating
  <2>1. <<>> \in Seq(Cells)
    OBVIOUS
  <2> QED BY <2>1
<1>2. ~IsOpen /\ ~HasHeader(file)
  BY RecoveredNothing DEF Bare, IsOpen
<1>3. CASE CreateFile
  BY <1>1, <1>3 DEF CreateFile, Bare
<1>4. CASE WriteHeader
  <2>0. PICK ends : ends = [j \in 0 .. 0 |-> 1]
    OBVIOUS
  <2>1. PICK k \in StoreKeys : k = ring.current
    OBVIOUS
  <2>2. /\ file' = <<Header>> /\ disk' = <<Header>> /\ writer' = Writer(k, 1, 0)
        /\ ring' = ring /\ log' = <<>> /\ promised' = <<>>
    BY <1>4, <2>1 DEF WriteHeader, Bare
  <2>3. Shape(<<Header>>, k, <<>>, ends)
    BY <2>0, HeaderShape
  <2>4. Len(<<Header>>) = 1 /\ Len(<<>>) = 0 /\ ends[0] = 1 /\ <<>> \in Seq(Records)
        /\ <<Header>> \in Seq(Cells)
    BY <2>0 DEF Cells
  <2>5. Complete(<<Header>>, k, <<>>, ends)
    BY <2>3, <2>4 DEF Complete, Shape
  <2>6. Beginning(<<Header>>, 1) = <<Header>> /\ SubSeq(<<>>, 1, 0) = <<>>
    BY <2>4, SubSeqFull DEF Beginning
  <2>7. Stored(<<Header>>, <<Header>>, <<>>, k, <<>>, ends, 1, 0)
    BY <2>3, <2>4, <2>6 DEF Stored
  <2>8. Opened(Writer(k, 1, 0), <<>>, <<Header>>, k, <<>>, ends)
    BY <2>4, <2>5 DEF Opened
  <2>9. Written(k, <<>>, ends, 1, 0)'
    <3>1. Stored(file', disk', promised', k, <<>>, ends, 1, 0)
      BY <2>2, <2>7
    <3>2. Opened(writer', log', file', k, <<>>, ends)
      BY <2>2, <2>8
    <3> QED BY <3>1, <3>2 DEF Written
  <2> QED BY <2>2, <2>9 DEF Starts
<1>5. CASE CreateFails
  BY <1>1, <1>5 DEF CreateFails, Bare
<1>6. CASE StopWriter
  BY <1>6 DEF StopWriter, Bare
<1>7. CASE LogPowerLoss
  <2>1. /\ writer' = Closed /\ file' \in Surviving /\ disk' = file'
        /\ UNCHANGED <<ring, log, promised>>
    BY <1>7 DEF LogPowerLoss
  <2>2. CASE file = NoFile
    BY <1>1, <2>1, <2>2 DEF Surviving, Bare
  <2>3. CASE file = <<>> /\ disk = NoFile
    BY <1>1, <2>1, <2>3 DEF Surviving, Bare
  <2>4. CASE file = <<>> /\ disk = <<>>
    <3>1. Len(<<>>) = 0 /\ SubSeq(<<>>, 1, 0) = <<>> /\ <<>> \o <<>> = <<>>
      OBVIOUS
    <3>2. [i \in 1 .. 0 - 0 |-> Zero] = <<>>
      OBVIOUS
    <3>3. ASSUME NEW f \in Surviving PROVE f = <<>>
      <4>1. CASE \E n \in 0 .. Len(file) :
                    f = SubSeq(file, 1, n) \o SubSeq(disk, n + 1, Len(disk))
        <5>1. f = SubSeq(<<>>, 1, 0) \o SubSeq(<<>>, 0 + 1, 0)
          BY <2>4, <3>1, <4>1
        <5> QED BY <3>1, <5>1
      <4>2. CASE \E n \in Len(disk) .. Len(file) :
                    f = SubSeq(file, 1, n) \o [i \in 1 .. Len(file) - n |-> Zero]
        <5>1. f = SubSeq(<<>>, 1, 0) \o [i \in 1 .. 0 - 0 |-> Zero]
          BY <2>4, <3>1, <4>2
        <5> QED BY <3>1, <3>2, <5>1
      <4> QED BY <1>1, <2>4, <4>1, <4>2 DEF Surviving
    <3>4. file' = <<>> /\ disk' = <<>>
      BY <2>1, <3>3
    <3> QED BY <2>1, <2>4, <3>4 DEF Bare
  <2> QED BY <2>2, <2>3, <2>4 DEF Bare
<1>8. CASE ChangeKeys
  BY <1>8 DEF ChangeKeys, Bare
<1>9. ~OpenAppend
  BY <1>2 DEF OpenAppend, Candidates, Accepts
<1>10. ~Sync /\ \A r \in Records : ~AppendRecord(r) /\ \A n : ~AppendTears(r, n)
  BY <1>2 DEF Sync, AppendRecord, AppendTears
<1>11. CASE UNCHANGED logVars
  BY <1>11 DEF logVars, Bare
<1> QED
  BY <1>3, <1>4, <1>5, <1>6, <1>7, <1>8, <1>9, <1>10, <1>11 DEF LogNext

\* A step that leaves the file and what was answered for, and no writer or the same.
LEMMA Stays ==
    ASSUME NEW k, NEW rs, NEW ends, NEW d, NEW p, Written(k, rs, ends, d, p),
           UNCHANGED <<file, disk, log, promised>>, writer' \in {writer, Closed}
    PROVE  Continues(rs, p)
<1>1. Written(k, rs, ends, d, p)'
  BY DEF Written, Stored, Opened
<1>2. p \in p .. Len(rs)
  BY WrittenTypes DEF Written, Stored, Opened
<1> QED BY <1>1, <1>2 DEF Continues, Evolves

LEMMA OpenAppendStep ==
    ASSUME NEW k, NEW rs, NEW ends, NEW d, NEW p, Written(k, rs, ends, d, p),
           ring \in Rings, OpenAppend
    PROVE  Continues(rs, p)
<1> DEFINE l == ring.current
           end == ends[Len(rs)]
           part == Beginning(file, end)
           s == Scan(file, l)
<1>1. /\ file \in Seq(Cells) /\ Len(file) \in Nat /\ k \in StoreKeys /\ rs \in Seq(Records)
      /\ Len(rs) \in Nat /\ ends \in [0 .. Len(rs) -> 1 .. Len(file)] /\ d \in Nat /\ p \in Nat
  BY WrittenTypes
<1>2. /\ Shape(file, k, rs, ends) /\ Len(rs) <= MaxRecords /\ writer = Closed
      /\ d \in 1 .. Len(file) /\ disk = Beginning(file, d)
      /\ p \in 0 .. Len(rs) /\ promised = SubSeq(rs, 1, p) /\ ends[p] <= d
  BY DEF Written, Stored, Opened, OpenAppend
<1>3. l \in StoreKeys /\ Accepts(file, l)
  <2>1. l \in Candidates(file)
    BY DEF OpenAppend
  <2> QED BY <2>1 DEF Candidates
<1>4. /\ file' = SubSeq(file, 1, s.end)
      /\ disk' = IF s.tail = "clean" THEN disk ELSE file'
      /\ writer' = Writer(l, s.end, Len(s.records))
      /\ log' = s.records /\ promised' = promised
  BY DEF OpenAppend
<1> HIDE DEF l
<1>5. l = k \/ rs = <<>>
  BY <1>2, <1>3, WrongKeyRefused
<1>6. s = [tail |-> IF end = Len(file) THEN "clean" ELSE "short", end |-> end, records |-> rs]
  BY <1>2, <1>3, <1>5, ScanShape
<1> HIDE DEF s
<1>7. end \in 1 .. Len(file) /\ ends[p] <= end
  <2>1. end \in 1 .. Len(file) /\ ends[p] \in 1 .. Len(file)
    <3>1. p \in 0 .. Len(rs) /\ Len(rs) \in 0 .. Len(rs)
      BY <1>1, <1>2
    <3> QED BY <1>1, <3>1
  <2>2. p = Len(rs) \/ ends[p] < end
    BY <1>1, <1>2 DEF Shape, Framed
  <2> QED BY <1>1, <2>1, <2>2
<1> HIDE DEF end
<1>8. part \in Seq(Cells) /\ Len(part) = end
  BY <1>1, <1>7, BeginningCells
<1>9. Complete(part, l, rs, ends)
  <2>1. Complete(part, k, rs, ends)
    BY <1>2, CutShape DEF end
  <2>2. CASE rs = <<>>
    <3>1. ends = [j \in 0 .. 0 |-> 1] /\ end = 1 /\ Len(rs) = 0
      <4>1. Len(rs) = 0 /\ ends[0] = 1
        BY <2>2, <1>2 DEF Shape, Framed
      <4>2. ends = [j \in 0 .. 0 |-> ends[j]]
        BY <1>1, <4>1
      <4> QED BY <4>1, <4>2 DEF end
    <3>2. part = <<Header>>
      <4>1. part[1] = Header
        BY <2>1 DEF Complete, Framed
      <4>2. <<Header>> \in Seq(Cells) /\ Len(<<Header>>) = 1 /\ <<Header>>[1] = Header
        BY DEF Cells
      <4>3. \A i \in 1 .. Len(part) : part[i] = <<Header>>[i]
        BY <1>8, <3>1, <4>1, <4>2
      <4> HIDE DEF part
      <4> QED BY <1>8, <3>1, <4>2, <4>3, SeqEqual
    <3>3. Shape(part, l, rs, ends)
      BY <1>3, <2>2, <3>1, <3>2, HeaderShape
    <3> QED BY <1>8, <3>1, <3>3 DEF Complete, Shape, end
  <2> QED BY <1>5, <2>1, <2>2
<1>10. file' = part /\ log' = rs /\ writer' = Writer(l, Len(part), Len(rs))
  BY <1>4, <1>6, <1>8 DEF Beginning
<1>11. \E e \in 1 .. Len(part) : disk' = Beginning(part, e) /\ ends[p] <= e
  <2>1. CASE end = Len(file)
    <3>1. part = file
      BY <1>1, <2>1, SubSeqFull DEF Beginning
    <3>2. disk' = disk
      BY <1>4, <1>6, <2>1
    <3> QED BY <1>2, <3>1, <3>2
  <2>2. CASE end # Len(file)
    <3>1. disk' = part
      BY <1>4, <1>6, <1>10, <2>2
    <3>2. Beginning(part, Len(part)) = part
      BY <1>8, SubSeqFull DEF Beginning
    <3>3. Len(part) \in 1 .. Len(part)
      BY <1>1, <1>7, <1>8
    <3> QED BY <1>7, <1>8, <3>1, <3>2, <3>3
  <2> QED BY <2>1, <2>2
<1> HIDE DEF part
<1>12. PICK e \in 1 .. Len(part) : disk' = Beginning(part, e) /\ ends[p] <= e
  BY <1>11
<1>13. Shape(part, l, rs, ends)
  BY <1>9, CompleteIsShape
<1>14. \E key, last : Written(key, rs, ends, last, p)'
  <2>1. Stored(part, disk', promised, l, rs, ends, e, p)
    BY <1>2, <1>12, <1>13 DEF Stored
  <2>2. Opened(writer', log', part, l, rs, ends)
    BY <1>9, <1>10 DEF Opened
  <2>3. PICK key, last : key = l /\ last = e
    OBVIOUS
  <2>4. Stored(file', disk', promised', key, rs, ends, last, p)
    BY <1>4, <1>10, <2>1, <2>3
  <2>5. Opened(writer', log', file', key, rs, ends)
    BY <1>10, <2>2, <2>3
  <2>6. Written(key, rs, ends, last, p)'
    BY <2>4, <2>5 DEF Written
  <2> QED BY <2>6
<1>15. Evolves(rs, p, rs, p)
  BY <1>1, <1>2 DEF Evolves
<1> QED BY <1>14, <1>15 DEF Continues

\* A write at the end of a complete log puts its cells behind it.
LEMMA OverwritesNothing ==
    ASSUME file \in Seq(Cells), writer.position = Len(file),
           NEW frame \in Seq(Cells), NEW m \in 0 .. Len(frame)
    PROVE  Overwritten(Beginning(frame, m)) = Longer(file, frame, m)
<1> DEFINE part == Beginning(frame, m)
           end == Len(file) + Len(part)
<1>1. Len(file) \in Nat /\ Len(frame) \in Nat
  BY LenProperties
<1>2. part \in Seq(Cells) /\ Len(part) \in Nat
  BY <1>1, BeginningCells
<1> HIDE DEF part
<1>3. SubSeq(file, 1, Len(file)) = file
  BY SubSeqFull
<1>4. SubSeq(file, end + 1, Len(file)) = <<>>
  BY <1>1, <1>2, SubSeqEmpty
<1>5. file \o part \in Seq(Cells)
  BY <1>2, ConcatProperties
<1>6. (file \o part) \o <<>> = file \o part
  BY <1>5, ConcatEmptySeq
<1>7. Overwritten(part) = file \o part
  BY <1>3, <1>4, <1>6 DEF Overwritten
<1> QED BY <1>7 DEF Longer, part

LEMMA BeginningOfLonger ==
    ASSUME NEW cells \in Seq(Cells), NEW other \in Seq(Cells), NEW d \in 1 .. Len(cells),
           Agree(cells, other, Len(cells))
    PROVE  d \in 1 .. Len(other) /\ Beginning(other, d) = Beginning(cells, d)
<1>1. Len(cells) \in Nat /\ Len(other) \in Nat /\ Len(cells) <= Len(other)
  BY LenProperties DEF Agree
<1>2. /\ Beginning(cells, d) \in Seq(Cells) /\ Len(Beginning(cells, d)) = d
      /\ \A i \in 1 .. d : Beginning(cells, d)[i] = cells[i]
  BY <1>1, BeginningCells
<1>3. /\ Beginning(other, d) \in Seq(Cells) /\ Len(Beginning(other, d)) = d
      /\ \A i \in 1 .. d : Beginning(other, d)[i] = other[i]
  <2>1. d \in 0 .. Len(other)
    BY <1>1
  <2> QED BY <2>1, BeginningCells
<1>4. \A i \in 1 .. d : other[i] = cells[i]
  BY <1>1 DEF Agree
<1>5. Beginning(other, d) = Beginning(cells, d)
  BY <1>2, <1>3, <1>4, SeqEqual
<1> QED BY <1>1, <1>5

LEMMA AppendRecordStep ==
    ASSUME NEW k, NEW rs, NEW ends, NEW d, NEW p, Written(k, rs, ends, d, p),
           NEW r \in Records, AppendRecord(r)
    PROVE  Continues(rs, p)
<1> DEFINE count == Len(rs)
           frame == Frame(r, count, k)
           m == 1 + Size[r]
           all == Longer(file, frame, m)
           further == Further(ends, count, Len(file) + 1 + Size[r])
           more == Append(rs, r)
<1>1. /\ file \in Seq(Cells) /\ Len(file) \in Nat /\ k \in StoreKeys /\ rs \in Seq(Records)
      /\ count \in Nat /\ ends \in [0 .. count -> 1 .. Len(file)] /\ d \in Nat /\ p \in Nat
  BY WrittenTypes
<1>2. /\ writer = Writer(k, Len(file), count) /\ log = rs /\ Complete(file, k, rs, ends)
      /\ d \in 1 .. Len(file) /\ disk = Beginning(file, d)
      /\ p \in 0 .. count /\ promised = SubSeq(rs, 1, p) /\ ends[p] <= d
  BY DEF Written, Stored, Opened, AppendRecord, IsOpen
<1>3. writer.key = k /\ writer.position = Len(file) /\ writer.next = count
  BY <1>1, <1>2, WriterIsOpen
<1>4. /\ frame \in Seq(Cells) /\ Len(frame) = m /\ m \in Nat /\ m \in 0 .. Len(frame)
  <2>1. IsFrame(frame, r, count, k)
    BY <1>1, FrameCells
  <2> QED BY <2>1 DEF IsFrame
<1>5. /\ count < MaxRecords
      /\ file' = Overwritten(frame)
      /\ writer' = Writer(k, Len(file) + Len(frame), count + 1)
      /\ log' = Append(log, r)
      /\ disk' = disk /\ promised' = promised
  BY <1>3 DEF AppendRecord
<1> HIDE DEF frame
<1>6. file' = all
  <2>1. Beginning(frame, m) = frame
    BY <1>4, SubSeqFull DEF Beginning
  <2>2. Overwritten(Beginning(frame, m)) = all
    BY <1>1, <1>3, <1>4, OverwritesNothing
  <2> QED BY <1>5, <2>1, <2>2
<1>7. all \in Seq(Cells) /\ Len(all) = Len(file) + m /\ Agree(file, all, Len(file))
  BY <1>1, <1>4, LongerLies
<1>8. Complete(all, k, more, further)
  BY <1>2, LongerShape DEF frame
<1>9. /\ Len(more) = count + 1 /\ more \in Seq(Records)
      /\ \A i \in 1 .. count : more[i] = rs[i]
  BY <1>1, AppendProperties
<1>10. d \in 1 .. Len(all) /\ disk' = Beginning(all, d)
  BY <1>1, <1>2, <1>5, <1>7, BeginningOfLonger
<1>11. SubSeq(more, 1, p) = SubSeq(rs, 1, p)
  <2>1. CASE p = 0
    BY <2>1, SubSeqEmpty
  <2>2. CASE p # 0
    <3>1. p \in 1 .. Len(rs) /\ 1 \in 1 .. Len(rs) /\ <<r>> \in Seq(Records)
      BY <1>1, <1>2, <2>2
    <3>2. more = rs \o <<r>>
      BY <1>1, AppendIsConcat
    <3> HIDE DEF more
    <3> QED BY <1>1, <3>1, <3>2, SubSeqOfConcat1
  <2> QED BY <2>1, <2>2
<1>12. further[p] = ends[p]
  BY <1>1, <1>2 DEF Further
<1> HIDE DEF all, further, more, m
<1>13. Shape(all, k, more, further)
  BY <1>8, CompleteIsShape
<1>14. \E others, lasts : Written(k, others, lasts, d, p)' /\ others = more
  <2>1. Len(more) <= MaxRecords /\ p \in 0 .. Len(more)
    BY <1>1, <1>2, <1>5, <1>9
  <2>2. writer' = Writer(k, Len(all), Len(more)) /\ log' = more
    BY <1>2, <1>4, <1>5, <1>7, <1>9 DEF more
  <2>3. Stored(all, disk', promised, k, more, further, d, p)
    BY <1>2, <1>10, <1>11, <1>12, <1>13, <2>1 DEF Stored
  <2>4. Opened(writer', log', all, k, more, further)
    BY <1>8, <2>2 DEF Opened
  <2>5. PICK others, lasts : others = more /\ lasts = further
    OBVIOUS
  <2>6. Stored(file', disk', promised', k, others, lasts, d, p)
    BY <1>5, <1>6, <2>3, <2>5
  <2>7. Opened(writer', log', file', k, others, lasts)
    BY <1>6, <2>4, <2>5
  <2>8. Written(k, others, lasts, d, p)'
    BY <2>6, <2>7 DEF Written
  <2> QED BY <2>5, <2>8
<1>15. Evolves(rs, p, more, p)
  BY DEF Evolves, more
<1> QED BY <1>14, <1>15 DEF Continues

LEMMA AppendTearsStep ==
    ASSUME Reliable, NEW k, NEW rs, NEW ends, NEW d, NEW p, Written(k, rs, ends, d, p),
           NEW r \in Records, NEW m \in 0 .. Size[r], AppendTears(r, m)
    PROVE  Continues(rs, p)
<1> DEFINE count == Len(rs)
           frame == Frame(r, count, k)
           all == Longer(file, frame, m)
<1>1. /\ file \in Seq(Cells) /\ Len(file) \in Nat /\ k \in StoreKeys /\ rs \in Seq(Records)
      /\ count \in Nat /\ ends \in [0 .. count -> 1 .. Len(file)] /\ d \in Nat /\ p \in Nat
  BY WrittenTypes
<1>2. /\ writer = Writer(k, Len(file), count) /\ Complete(file, k, rs, ends)
      /\ d \in 1 .. Len(file) /\ disk = Beginning(file, d) /\ count <= MaxRecords
      /\ p \in 0 .. count /\ promised = SubSeq(rs, 1, p) /\ ends[p] <= d
  BY DEF Written, Stored, Opened, AppendTears, IsOpen
<1>3. writer.key = k /\ writer.position = Len(file) /\ writer.next = count
  BY <1>1, <1>2, WriterIsOpen
<1>4. frame \in Seq(Cells) /\ m \in 0 .. Len(frame)
  <2>1. IsFrame(frame, r, count, k)
    BY <1>1, FrameCells
  <2> QED BY <2>1 DEF IsFrame
<1>5. /\ file' = Overwritten(Beginning(frame, m)) /\ writer' = Closed
      /\ disk' = disk /\ promised' = promised
  BY <1>3 DEF AppendTears, Reliable, Beginning
<1>6. Shape(all, k, rs, ends)
  BY <1>2, TornShape
<1> HIDE DEF frame
<1>7. file' = all
  BY <1>1, <1>3, <1>4, <1>5, OverwritesNothing
<1>8. all \in Seq(Cells) /\ Agree(file, all, Len(file))
  BY <1>1, <1>4, LongerLies
<1>9. d \in 1 .. Len(all) /\ disk' = Beginning(all, d)
  BY <1>1, <1>2, <1>5, <1>8, BeginningOfLonger
<1> HIDE DEF all
<1>10. Written(k, rs, ends, d, p)'
  BY <1>2, <1>5, <1>6, <1>7, <1>9 DEF Written, Stored, Opened
<1>11. Evolves(rs, p, rs, p)
  BY <1>1, <1>2 DEF Evolves
<1> QED BY <1>10, <1>11 DEF Continues

LEMMA SyncStep ==
    ASSUME NEW k, NEW rs, NEW ends, NEW d, NEW p, Written(k, rs, ends, d, p), Sync
    PROVE  Continues(rs, p)
<1>1. /\ file \in Seq(Cells) /\ Len(file) \in Nat /\ k \in StoreKeys /\ rs \in Seq(Records)
      /\ Len(rs) \in Nat /\ ends \in [0 .. Len(rs) -> 1 .. Len(file)] /\ p \in Nat
  BY WrittenTypes
<1>2. /\ log = rs /\ Complete(file, k, rs, ends) /\ Shape(file, k, rs, ends)
      /\ writer = Writer(k, Len(file), Len(rs)) /\ Len(rs) <= MaxRecords /\ p \in 0 .. Len(rs)
  BY DEF Written, Stored, Opened, Sync, IsOpen
<1>3. /\ disk' = file /\ promised' = log /\ writer' \in {writer, Closed}
      /\ UNCHANGED <<file, log>>
  BY DEF Sync
<1>4. SubSeq(rs, 1, Len(rs)) = rs /\ Beginning(file, Len(file)) = file
  BY <1>1, SubSeqFull DEF Beginning
<1>5. Len(file) \in 1 .. Len(file) /\ ends[Len(rs)] <= Len(file)
  BY <1>1, <1>2 DEF Complete, Framed
<1>6. \E size : Written(k, rs, ends, size, Len(rs))'
  <2>1. PICK size : size = Len(file)
    OBVIOUS
  <2>2. Stored(file, file, rs, k, rs, ends, size, Len(rs))
    <3>1. Len(rs) \in 0 .. Len(rs)
      BY <1>1
    <3> QED BY <1>2, <1>4, <1>5, <2>1, <3>1 DEF Stored
  <2>3. Opened(writer, log, file, k, rs, ends)
    BY <1>2 DEF Opened
  <2>4. Written(k, rs, ends, size, Len(rs))'
    BY <1>2, <1>3, <2>2, <2>3 DEF Written
  <2> QED BY <2>1, <2>4 DEF Continues
<1>7. Evolves(rs, p, rs, Len(rs))
  BY <1>1, <1>2 DEF Evolves
<1> QED BY <1>6, <1>7 DEF Continues

\* What a power loss leaves of the file is a beginning of it, no shorter than the disk's.
LEMMA SurvivingIsBeginning ==
    ASSUME Reliable, NEW d, file \in Seq(Cells), d \in 1 .. Len(file),
           disk = Beginning(file, d), NEW f \in Surviving
    PROVE  \E c \in d .. Len(file) : f = Beginning(file, c)
<1>1. Len(file) \in Nat /\ d \in Nat /\ disk \in Seq(Cells) /\ Len(disk) = d
  BY LenProperties, BeginningCells
<1>2. file # NoFile /\ disk # NoFile
  BY <1>1
<1>3. PICK n \in 0 .. Len(file) : f = SubSeq(file, 1, n) \o SubSeq(disk, n + 1, Len(disk))
  BY <1>2 DEF Surviving, Reliable
<1>4. CASE n < d
  <2>1. SubSeq(disk, n + 1, d) = SubSeq(file, n + 1, d)
    <3>1. /\ 1 \in 1 .. Len(file) /\ d \in 1 .. Len(file) /\ n + 1 \in 1 .. d - 1 + 1
          /\ d \in 1 .. d - 1 + 1 /\ 1 + (n + 1) - 1 = n + 1 /\ 1 + d - 1 = d
      BY <1>1, <1>4
    <3>2. SubSeq(SubSeq(file, 1, d), n + 1, d) = SubSeq(file, 1 + (n + 1) - 1, 1 + d - 1)
      BY <3>1, SubSeqOfSubSeq
    <3> QED BY <3>1, <3>2 DEF Beginning
  <2>2. SubSeq(file, 1, n) \o SubSeq(file, n + 1, d) = SubSeq(file, 1, d)
    <3>1. 1 \in 1 .. Len(file) + 1 /\ n \in 1 - 1 .. Len(file) /\ d \in n .. Len(file)
      BY <1>1, <1>4
    <3> QED BY <3>1, ConcatAdjacentSubSeq
  <2>3. d \in d .. Len(file)
    BY <1>1
  <2> QED BY <1>1, <1>3, <2>1, <2>2, <2>3 DEF Beginning
<1>5. CASE ~(n < d)
  <2>1. SubSeq(disk, n + 1, Len(disk)) = <<>>
    BY <1>1, <1>5, SubSeqEmpty
  <2>2. Beginning(file, n) \in Seq(Cells)
    BY <1>1, BeginningCells
  <2>3. Beginning(file, n) \o <<>> = Beginning(file, n)
    BY <2>2, ConcatEmptySeq
  <2>4. n \in d .. Len(file)
    BY <1>1, <1>5
  <2> QED BY <1>3, <2>1, <2>3, <2>4 DEF Beginning
<1> QED BY <1>4, <1>5

LEMMA BeginningOfRecords ==
    ASSUME NEW rs \in Seq(Records), NEW q \in 0 .. Len(rs), NEW p \in 0 .. q
    PROVE  Len(SubSeq(rs, 1, q)) = q /\ SubSeq(SubSeq(rs, 1, q), 1, p) = SubSeq(rs, 1, p)
<1>1. Len(rs) \in Nat /\ q \in Nat /\ p \in Nat
  BY LenProperties
<1>2. Len(SubSeq(rs, 1, q)) = q
  <2>1. \A i \in 1 .. q : rs[i] \in Records
    BY <1>1, ElementOfSeq
  <2>2. Len(SubSeq(rs, 1, q)) = IF 1 <= q THEN q - 1 + 1 ELSE 0
    BY <1>1, <2>1, SubSeqProperties
  <2> QED BY <1>1, <2>2
<1>3. CASE p = 0
  <2>1. SubSeq(rs, 1, p) = <<>> /\ SubSeq(SubSeq(rs, 1, q), 1, p) = <<>>
    BY <1>3, SubSeqEmpty
  <2> QED BY <1>2, <2>1
<1>4. CASE p # 0
  <2>1. /\ 1 \in 1 .. Len(rs) /\ q \in 1 .. Len(rs) /\ 1 \in 1 .. q - 1 + 1
        /\ p \in 1 .. q - 1 + 1 /\ 1 + 1 - 1 = 1 /\ 1 + p - 1 = p
    BY <1>1, <1>4
  <2>2. SubSeq(SubSeq(rs, 1, q), 1, p) = SubSeq(rs, 1 + 1 - 1, 1 + p - 1)
    BY <2>1, SubSeqOfSubSeq
  <2> QED BY <1>2, <2>1, <2>2
<1> QED BY <1>3, <1>4

LEMMA PowerLossStep ==
    ASSUME Reliable, NEW k, NEW rs, NEW ends, NEW d, NEW p, Written(k, rs, ends, d, p),
           LogPowerLoss
    PROVE  Continues(rs, p)
<1>1. /\ file \in Seq(Cells) /\ Len(file) \in Nat /\ k \in StoreKeys /\ rs \in Seq(Records)
      /\ Len(rs) \in Nat /\ ends \in [0 .. Len(rs) -> 1 .. Len(file)] /\ d \in Nat /\ p \in Nat
  BY WrittenTypes
<1>2. /\ Shape(file, k, rs, ends) /\ Len(rs) <= MaxRecords
      /\ d \in 1 .. Len(file) /\ disk = Beginning(file, d)
      /\ p \in 0 .. Len(rs) /\ promised = SubSeq(rs, 1, p) /\ ends[p] <= d
  BY DEF Written, Stored
<1>3. file' \in Surviving /\ disk' = file' /\ writer' = Closed /\ promised' = promised
  BY DEF LogPowerLoss
<1>4. PICK c \in d .. Len(file) : file' = Beginning(file, c)
  BY <1>1, <1>2, <1>3, SurvivingIsBeginning
<1>5. c \in 1 .. Len(file) /\ c \in 0 .. Len(file)
  BY <1>1, <1>2
<1>6. PICK q \in 0 .. Len(rs) : CutAt(file, k, rs, ends, c, q)
  BY <1>2, <1>5, BeginningShape
<1>7. p <= q
  <2>1. ends[p] \in Nat
    <3>1. ends[p] \in 1 .. Len(file)
      BY <1>1, <1>2
    <3> QED BY <1>1, <3>1
  <2>2. ends[p] <= c
    BY <1>1, <1>2, <1>5, <2>1
  <2> QED BY <1>2, <1>6, <2>2 DEF CutAt
<1> DEFINE part == Beginning(file, c)
<1>8. part \in Seq(Cells) /\ Len(part) = c
  BY <1>1, <1>5, BeginningCells
<1> HIDE DEF part
<1>9. Beginning(part, c) = part
  BY <1>8, SubSeqFull DEF Beginning
<1>10. PICK others, lasts : others = SubSeq(rs, 1, q) /\ lasts = Cut(ends, q)
  OBVIOUS
<1>11. Len(others) = q /\ SubSeq(others, 1, p) = SubSeq(rs, 1, p)
  <2>1. p \in 0 .. q
    BY <1>1, <1>7
  <2> QED BY <1>1, <1>10, <2>1, BeginningOfRecords
<1>12. lasts[p] = ends[p]
  BY <1>1, <1>7, <1>10 DEF Cut
<1>13. Stored(part, part, promised, k, others, lasts, c, p)
  <2>1. Shape(part, k, others, lasts)
    BY <1>6, <1>10 DEF CutAt, part
  <2>2. Len(others) <= MaxRecords /\ p \in 0 .. Len(others) /\ c \in 1 .. Len(part)
    BY <1>1, <1>2, <1>5, <1>7, <1>8, <1>11
  <2>3. lasts[p] <= c
    <3>1. ends[p] \in 1 .. Len(file)
      BY <1>1, <1>2
    <3> QED BY <1>1, <1>2, <1>5, <1>12, <3>1
  <2> QED BY <1>2, <1>9, <1>11, <2>1, <2>2, <2>3 DEF Stored
<1>14. Stored(file', disk', promised', k, others, lasts, c, p)
  BY <1>3, <1>4, <1>13 DEF part
<1>15. Written(k, others, lasts, c, p)'
  BY <1>3, <1>14 DEF Written
<1>16. Evolves(rs, p, others, p)
  <2>1. q \in p .. Len(rs)
    BY <1>1, <1>7
  <2> QED BY <1>10, <2>1 DEF Evolves
<1> QED BY <1>15, <1>16 DEF Continues

LEMMA WrittenStep ==
    ASSUME Reliable, ring \in Rings,
           NEW k, NEW rs, NEW ends, NEW d, NEW p, Written(k, rs, ends, d, p),
           [LogNext]_logVars
    PROVE  ring' \in Rings /\ Continues(rs, p)
<1>1. file # NoFile /\ writer # Creating
  <2>1. file # NoFile /\ k \in StoreKeys /\ Len(file) \in Nat /\ Len(rs) \in Nat
    BY WrittenTypes
  <2>2. writer = Closed \/ writer = Writer(k, Len(file), Len(rs))
    BY DEF Written, Opened
  <2> QED BY <2>1, <2>2, WriterIsOpen
<1>2. ~CreateFile /\ ~WriteHeader /\ ~CreateFails
  BY <1>1 DEF CreateFile, WriteHeader, CreateFails
<1>3. CASE OpenAppend
  BY <1>3, OpenAppendStep DEF OpenAppend
<1>4. ASSUME NEW r \in Records, AppendRecord(r) PROVE ring' \in Rings /\ Continues(rs, p)
  BY <1>4, AppendRecordStep DEF AppendRecord
<1>5. ASSUME NEW r \in Records, NEW n \in 0 .. Size[r], AppendTears(r, n)
      PROVE  ring' \in Rings /\ Continues(rs, p)
  BY <1>5, AppendTearsStep DEF AppendTears
<1>6. CASE Sync
  BY <1>6, SyncStep DEF Sync
<1>7. CASE StopWriter
  BY <1>7, Stays DEF StopWriter
<1>8. CASE LogPowerLoss
  BY <1>8, PowerLossStep DEF LogPowerLoss
<1>9. CASE ChangeKeys
  BY <1>9, Stays DEF ChangeKeys
<1>10. CASE UNCHANGED logVars
  BY <1>10, Stays DEF logVars
<1> QED
  BY <1>2, <1>3, <1>4, <1>5, <1>6, <1>7, <1>8, <1>9, <1>10 DEF LogNext

LEMMA NextLog ==
    ASSUME Reliable, LogInv, [LogNext]_logVars
    PROVE  LogInv'
<1>1. ring \in Rings
  BY DEF LogInv
<1>2. CASE Bare
  <2>1. ring' \in Rings /\ (Bare' \/ Starts)
    BY <1>1, <1>2, BareStep
  <2> QED BY <2>1 DEF LogInv, Starts
<1>3. ASSUME NEW k, NEW rs, NEW ends, NEW d, NEW p, Written(k, rs, ends, d, p)
      PROVE  LogInv'
  <2>1. ring' \in Rings /\ Continues(rs, p)
    BY <1>1, <1>3, WrittenStep
  <2> QED BY <2>1 DEF LogInv, Continues
<1> QED BY <1>2, <1>3 DEF LogInv

LEMMA LogInvariant == Reliable => (LogSpec => []LogInv)
<1> SUFFICES ASSUME Reliable PROVE LogSpec => []LogInv
  OBVIOUS
<1>1. LogInv /\ [LogNext]_logVars => LogInv'
  BY NextLog
<1> QED BY <1>1, InitLog, PTL DEF LogSpec

\* What was synced survives, a writer is in step with its file and a log opens again
\* (sealed-log.ts:13-19, 249-261, 401-436), with writes that fail only where their
\* writer ends, and power losses that leave no zeros.
THEOREM LogKeptCorrect == Reliable => (LogSpec => []LogKept)
<1> SUFFICES ASSUME Reliable PROVE LogSpec => []LogKept
  OBVIOUS
<1>1. LogSpec => []LogInv
  BY LogInvariant
<1>2. LogInv => LogKept
  BY InvKeepsLog
<1> QED BY <1>1, <1>2, PTL

(***************************************************************************)
(* The log implements RecordLog.                                           *)
(***************************************************************************)
LEMMA InitRefines == LogInit => Promise!Init
<1> SUFFICES ASSUME LogInit PROVE Promise!Init
  OBVIOUS
<1>1. Bare
  BY DEF LogInit, Bare
<1> QED BY <1>1, RecoveredNothing DEF Promise!Init

LEMMA NothingNext == (Bare => Recovered.records = <<>> /\ Len(promised) = 0)'
<1>1. Bare => Recovered.records = <<>> /\ Len(promised) = 0
  BY RecoveredNothing
<1> QED BY <1>1, PTL

LEMMA RecordsNext ==
    ASSUME NEW k, NEW rs, NEW ends, NEW d, NEW p
    PROVE  (ring \in Rings /\ Written(k, rs, ends, d, p) =>
                Recovered.records = rs /\ Len(promised) = p)'
<1>1. ring \in Rings /\ Written(k, rs, ends, d, p) =>
        Recovered.records = rs /\ Len(promised) = p
  BY RecoveredIs
<1> QED BY <1>1, PTL

LEMMA StepRefines ==
    ASSUME Reliable, LogInv, LogInv', [LogNext]_logVars
    PROVE  [Promise!Next]_<<Recovered.records, Len(promised)>>
<1>1. ring \in Rings /\ ring' \in Rings
  BY DEF LogInv
<1>2. Bare' => Recovered.records' = <<>> /\ Len(promised)' = 0
  BY NothingNext
<1>3. ASSUME NEW k, NEW rs, NEW ends, NEW d, NEW p, Written(k, rs, ends, d, p)'
      PROVE  Recovered.records' = rs /\ Len(promised)' = p
  BY <1>1, <1>3, RecordsNext
<1>4. CASE Bare
  <2>1. Recovered.records = <<>> /\ Len(promised) = 0
    BY <1>4, RecoveredNothing
  <2>2. Bare' \/ Starts
    BY <1>1, <1>4, BareStep
  <2>3. Recovered.records' = <<>> /\ Len(promised)' = 0
    BY <1>2, <1>3, <2>2 DEF Starts
  <2> QED BY <2>1, <2>3
<1>5. ASSUME NEW k, NEW rs, NEW ends, NEW d, NEW p, Written(k, rs, ends, d, p)
      PROVE  [Promise!Next]_<<Recovered.records, Len(promised)>>
  <2>1. Recovered.records = rs /\ Len(promised) = p
    BY <1>1, <1>5, RecoveredIs
  <2>2. Continues(rs, p)
    BY <1>1, <1>5, WrittenStep
  <2>3. PICK key, others, lasts, last, q :
            Written(key, others, lasts, last, q)' /\ Evolves(rs, p, others, q)
    BY <2>2 DEF Continues
  <2>4. Recovered.records' = others /\ Len(promised)' = q
    BY <1>3, <2>3
  <2>5. CASE others = rs /\ q \in p .. Len(rs)
    BY <2>1, <2>4, <2>5 DEF Promise!Next, Promise!Sync
  <2>6. CASE q = p /\ \E r \in Records : others = Append(rs, r)
    BY <2>1, <2>4, <2>6 DEF Promise!Next, Promise!Add
  <2>7. CASE q = p /\ \E n \in p .. Len(rs) : others = SubSeq(rs, 1, n)
    BY <2>1, <2>4, <2>7 DEF Promise!Next, Promise!Crash
  <2> QED BY <2>3, <2>5, <2>6, <2>7 DEF Evolves
<1> QED BY <1>4, <1>5 DEF LogInv

\* The file is an append-only log of which a crash takes only the latest records that
\* no sync answered for (sealed-log.ts:13-19), under the same hypothesis.
THEOREM ImplementsRecordLogCorrect == Reliable => (LogSpec => ImplementsRecordLog)
<1> SUFFICES ASSUME Reliable PROVE LogSpec => ImplementsRecordLog
  OBVIOUS
<1>1. LogSpec => []LogInv
  BY LogInvariant
<1>2. LogInv /\ LogInv' /\ [LogNext]_logVars =>
        [Promise!Next]_<<Recovered.records, Len(promised)>>
  BY StepRefines
<1> QED BY <1>1, <1>2, InitRefines, PTL DEF LogSpec, ImplementsRecordLog, Promise!Spec
=============================================================================
