-------------------------- MODULE RingBufferProofs --------------------------
(***************************************************************************)
(* Proofs about RingBuffer, for every capacity and every content: a byte,   *)
(* and so a Write of any length, keeps the last Size bytes in order,        *)
(* whatever the indices are.                                                *)
(***************************************************************************)
EXTENDS RingBuffer, SequenceTheorems, TLAPS

Kept == INSTANCE OutputLog WITH Lines <- {}, kept <- <<>>

Indices == 0..(Size - 1)

\* A buffer that is not full has never wrapped; in a full one end is where start is.
WellFormed(Byte, rb) ==
  /\ rb \in [data : [Indices -> Byte], start : Indices, end : Indices, full : BOOLEAN]
  /\ rb.full => rb.start = rb.end
  /\ ~rb.full => rb.start = 0

\* The cell that holds the k-th byte.
Cell(rb, k) ==
  IF k <= Size - rb.start THEN rb.start + k - 1 ELSE k - (Size - rb.start) - 1

-----------------------------------------------------------------------------

\* An index wraps once it reaches the capacity.
LEMMA NextIndex ==
  ASSUME NEW k \in Indices
  PROVE  (k + 1) % Size = IF k + 1 = Size THEN 0 ELSE k + 1
  BY SizeAssumption DEF Indices

\* A slice is a sequence of the cells it names.
LEMMA SliceIsSeq ==
  ASSUME NEW Byte, NEW rb, WellFormed(Byte, rb), NEW from \in 0..Size, NEW to \in from..Size
  PROVE  /\ Slice(rb, from, to) \in Seq(Byte)
         /\ Len(Slice(rb, from, to)) = to - from
         /\ \A k \in 1..(to - from) : Slice(rb, from, to)[k] = rb.data[from + k - 1]
<1>1. \A k \in 1..(to - from) : rb.data[from + k - 1] \in Byte
  BY SizeAssumption DEF WellFormed, Indices
<1>2. to - from \in Nat
  BY SizeAssumption
<1> QED BY <1>1, <1>2 DEF Slice

\* What lies behind start, up to the end of the array.
LEMMA SliceToSize ==
  ASSUME NEW Byte, NEW rb, WellFormed(Byte, rb)
  PROVE  /\ Slice(rb, rb.start, Size) \in Seq(Byte)
         /\ Len(Slice(rb, rb.start, Size)) = Size - rb.start
         /\ \A k \in 1..(Size - rb.start) :
              Slice(rb, rb.start, Size)[k] = rb.data[rb.start + k - 1]
<1>1. rb.start \in 0..Size /\ Size \in rb.start..Size
  BY SizeAssumption DEF WellFormed, Indices
<1> DEFINE from == rb.start
           to == Size
<1>2. from \in 0..Size /\ to \in from..Size
  BY <1>1
<1> HIDE DEF from, to
<1>3. /\ Slice(rb, from, to) \in Seq(Byte)
      /\ Len(Slice(rb, from, to)) = to - from
      /\ \A k \in 1..(to - from) : Slice(rb, from, to)[k] = rb.data[from + k - 1]
  BY <1>2, SliceIsSeq
<1> QED BY <1>3 DEF from, to

\* What lies before end, from the start of the array.
LEMMA SliceFromZero ==
  ASSUME NEW Byte, NEW rb, WellFormed(Byte, rb)
  PROVE  /\ Slice(rb, 0, rb.end) \in Seq(Byte)
         /\ Len(Slice(rb, 0, rb.end)) = rb.end
         /\ \A k \in 1..rb.end : Slice(rb, 0, rb.end)[k] = rb.data[k - 1]
<1>1. 0 \in 0..Size /\ rb.end \in 0..Size /\ rb.end \in Nat
  BY SizeAssumption DEF WellFormed, Indices
<1>2. /\ Slice(rb, 0, rb.end) \in Seq(Byte)
      /\ Len(Slice(rb, 0, rb.end)) = rb.end - 0
      /\ \A k \in 1..(rb.end - 0) : Slice(rb, 0, rb.end)[k] = rb.data[0 + k - 1]
  BY <1>1, SliceIsSeq
<1>3. rb.end - 0 = rb.end /\ \A k \in Int : 0 + k - 1 = k - 1
  BY <1>1
<1> QED BY <1>2, <1>3

\* What String and Bytes return, byte by byte, and that Len is its length
\* (buffer.go:55-106).
THEOREM ContentsAreTheCells ==
  ASSUME NEW Byte, NEW rb, WellFormed(Byte, rb)
  PROVE  /\ Contents(rb) \in Seq(Byte)
         /\ Len(Contents(rb)) = Length(rb)
         /\ \A k \in 1..Length(rb) : Contents(rb)[k] = rb.data[Cell(rb, k)]
<1> USE SizeAssumption
<1>1. rb.start \in 0..Size /\ rb.end \in 0..Size /\ Size \in Nat /\ rb.start < Size
  BY DEF WellFormed, Indices
<1>2. CASE rb.full
  <2> DEFINE behind == Slice(rb, rb.start, Size)
             before == Slice(rb, 0, rb.end)
  <2>1. /\ behind \in Seq(Byte) /\ Len(behind) = Size - rb.start
        /\ \A k \in 1..(Size - rb.start) : behind[k] = rb.data[rb.start + k - 1]
    BY SliceToSize
  <2>2. /\ before \in Seq(Byte) /\ Len(before) = rb.end
        /\ \A k \in 1..rb.end : before[k] = rb.data[k - 1]
    BY SliceFromZero
  <2>3. Length(rb) = Size /\ rb.start = rb.end /\ Contents(rb) = behind \o before
    BY <1>2 DEF Length, Contents, WellFormed
  <2> HIDE DEF behind, before
  <2>4. /\ behind \o before \in Seq(Byte)
        /\ Len(behind \o before) = Len(behind) + Len(before)
        /\ \A k \in 1..(Len(behind) + Len(before)) :
             (behind \o before)[k] =
               IF k <= Len(behind) THEN behind[k] ELSE before[k - Len(behind)]
    BY <2>1, <2>2, ConcatProperties
  <2>5. ASSUME NEW k \in 1..Size PROVE Contents(rb)[k] = rb.data[Cell(rb, k)]
    <3>1. CASE k <= Size - rb.start
      <4>1. k \in 1..(Size - rb.start) /\ Cell(rb, k) = rb.start + k - 1
        BY <1>1, <3>1 DEF Cell
      <4>2. k \in 1..(Len(behind) + Len(before)) /\ k <= Len(behind)
        BY <1>1, <2>1, <2>2, <3>1
      <4>3. Contents(rb)[k] = behind[k]
        BY <2>3, <2>4, <4>2
      <4> QED BY <2>1, <4>1, <4>3
    <3>2. CASE ~(k <= Size - rb.start)
      <4>1. k - (Size - rb.start) \in 1..rb.end
        BY <1>1, <2>3, <3>2
      <4>2. Cell(rb, k) = (k - (Size - rb.start)) - 1
        BY <3>2 DEF Cell
      <4>3. k \in 1..(Len(behind) + Len(before)) /\ ~(k <= Len(behind))
        BY <1>1, <2>1, <2>2, <2>3, <3>2
      <4>4. Contents(rb)[k] = before[k - (Size - rb.start)]
        BY <2>1, <2>3, <2>4, <4>3
      <4> QED BY <2>2, <4>1, <4>2, <4>4
    <3> QED BY <3>1, <3>2
  <2> QED BY <1>1, <2>1, <2>2, <2>3, <2>4, <2>5
<1>3. CASE ~rb.full
  <2>1. rb.start = 0 /\ Length(rb) = rb.end /\ Contents(rb) = Slice(rb, 0, rb.end)
    BY <1>1, <1>3 DEF Length, Contents, WellFormed
  <2>2. \A k \in 1..rb.end : Cell(rb, k) = k - 1
    BY <1>1, <2>1 DEF Cell
  <2> QED BY <1>1, <2>1, <2>2, SliceFromZero
<1> QED BY <1>2, <1>3

\* Len reports how many bytes String and Bytes would return, never more than the
\* capacity (buffer.go:95-106).
LEMMA LengthIsBounded ==
  ASSUME NEW Byte, NEW rb, WellFormed(Byte, rb)
  PROVE  Length(rb) \in 0..Size
  BY SizeAssumption DEF WellFormed, Indices, Length

\* A new buffer is well formed and empty.
LEMMA NewIsWellFormed ==
  ASSUME NEW Byte, Size > 0, Zero \in Byte
  PROVE  WellFormed(Byte, NewRingBuffer) /\ Length(NewRingBuffer) = 0
  BY SizeAssumption DEF WellFormed, NewRingBuffer, Indices, Length

\* One byte leaves the indices where the readers expect them.
LEMMA PutKeepsWellFormed ==
  ASSUME NEW Byte, NEW rb, WellFormed(Byte, rb), NEW b \in Byte
  PROVE  WellFormed(Byte, Put(rb, b))
<1>1. rb.start \in Indices /\ rb.end \in Indices
  BY DEF WellFormed
<1>2. (rb.end + 1) % Size = IF rb.end + 1 = Size THEN 0 ELSE rb.end + 1
  BY <1>1, NextIndex
<1>3. (rb.start + 1) % Size = IF rb.start + 1 = Size THEN 0 ELSE rb.start + 1
  BY <1>1, NextIndex
<1> QED BY <1>1, <1>2, <1>3, SizeAssumption DEF WellFormed, Put, Indices

\* Writing a byte appends it and drops the oldest one when there is no room: what
\* String returns is the tail of what was written, of the length of the buffer
\* (buffer.go:41-50).  This is the step of OutputLog for one byte.
THEOREM PutKeepsTheLast ==
  ASSUME NEW Byte, NEW rb, WellFormed(Byte, rb), NEW b \in Byte
  PROVE  Contents(Put(rb, b)) = Kept!Clip(Append(Contents(rb), b))
<1> DEFINE old == Contents(rb)
           new == Contents(Put(rb, b))
           all == Append(old, b)
           n == Length(rb)
<1> USE SizeAssumption
<1>1. rb.start \in Indices /\ rb.end \in Indices /\ Size \in Nat /\ Size > 0
  BY DEF WellFormed, Indices
<1>2. /\ (rb.end + 1) % Size = IF rb.end + 1 = Size THEN 0 ELSE rb.end + 1
      /\ (rb.start + 1) % Size = IF rb.start + 1 = Size THEN 0 ELSE rb.start + 1
  BY <1>1, NextIndex
<1>3. /\ old \in Seq(Byte) /\ Len(old) = n
      /\ \A k \in 1..n : old[k] = rb.data[Cell(rb, k)]
  BY ContentsAreTheCells
<1>4. n \in 0..Size /\ (rb.full => n = Size) /\ (~rb.full => n = rb.end)
  <2>1. n \in 0..Size
    BY LengthIsBounded
  <2>2. rb.full => n = Size
    BY DEF Length
  <2>3. ~rb.full => n = rb.end
    BY <1>1 DEF Length, WellFormed, Indices
  <2> QED BY <2>1, <2>2, <2>3
<1>5. /\ all \in Seq(Byte) /\ Len(all) = n + 1 /\ all[n + 1] = b
      /\ \A k \in 1..n : all[k] = rb.data[Cell(rb, k)]
  BY <1>3, AppendProperties
<1>6. /\ new \in Seq(Byte) /\ Len(new) = Length(Put(rb, b))
      /\ \A k \in 1..Length(Put(rb, b)) : new[k] = Put(rb, b).data[Cell(Put(rb, b), k)]
  BY PutKeepsWellFormed, ContentsAreTheCells
<1>7. /\ Put(rb, b).data = [rb.data EXCEPT ![rb.end] = b]
      /\ rb.data \in [Indices -> Byte]
      /\ Put(rb, b).end = (rb.end + 1) % Size
      /\ Put(rb, b).start = IF rb.full THEN (rb.start + 1) % Size ELSE rb.start
      /\ Put(rb, b).full = (rb.full \/ Put(rb, b).end = Put(rb, b).start)
  BY DEF Put, WellFormed
<1> HIDE DEF old, new, all, n
<1>8. CASE ~rb.full
  <2>1. n = rb.end /\ rb.start = 0 /\ n < Size /\ Put(rb, b).start = 0
    BY <1>1, <1>4, <1>8 DEF WellFormed, Put, Indices
  <2>2. Length(Put(rb, b)) = n + 1
    <3>1. CASE rb.end + 1 = Size
      <4>1. Put(rb, b).full
        BY <1>2, <1>7, <2>1, <3>1
      <4> QED BY <2>1, <3>1, <4>1 DEF Length
    <3>2. CASE rb.end + 1 # Size
      <4>1. Put(rb, b).end = n + 1 /\ n + 1 # 0
        BY <1>2, <1>4, <1>7, <2>1, <3>2
      <4>2. ~Put(rb, b).full
        BY <1>7, <1>8, <2>1, <4>1
      <4>3. /\ Put(rb, b).end >= Put(rb, b).start
            /\ Put(rb, b).end - Put(rb, b).start = n + 1
        BY <1>4, <2>1, <4>1
      <4> QED BY <4>2, <4>3 DEF Length
    <3> QED BY <3>1, <3>2
  <2>3. \A k \in 1..(n + 1) : Cell(Put(rb, b), k) = k - 1
    <3> SUFFICES ASSUME NEW k \in 1..(n + 1) PROVE Cell(Put(rb, b), k) = k - 1
      OBVIOUS
    <3>1. k <= Size - 0 /\ 0 + k - 1 = k - 1
      BY <1>1, <1>4, <2>1
    <3> QED BY <2>1, <3>1 DEF Cell
  <2>4. \A k \in 1..n : Cell(rb, k) = k - 1
    <3> SUFFICES ASSUME NEW k \in 1..n PROVE Cell(rb, k) = k - 1
      OBVIOUS
    <3>1. k <= Size - 0 /\ 0 + k - 1 = k - 1
      BY <1>1, <1>4, <2>1
    <3> QED BY <2>1, <3>1 DEF Cell
  <2>5. ASSUME NEW k \in 1..(n + 1) PROVE new[k] = all[k]
    <3>1. new[k] = Put(rb, b).data[k - 1] /\ k - 1 \in Indices
      BY <1>1, <1>6, <2>1, <2>2, <2>3 DEF Indices
    <3>2. CASE k = n + 1
      BY <1>4, <1>5, <1>7, <2>1, <3>1, <3>2
    <3>3. CASE k # n + 1
      <4>1. k \in 1..n /\ k - 1 # rb.end
        BY <1>4, <2>1, <3>3
      <4> QED BY <1>5, <1>7, <2>4, <3>1, <4>1
    <3> QED BY <3>2, <3>3
  <2>6. new = all
    BY <1>5, <1>6, <2>2, <2>5, SeqEqual
  <2>7. Kept!Clip(all) = all
    BY <1>4, <1>5, <2>1 DEF Kept!Clip
  <2> QED BY <2>6, <2>7 DEF old, new, all
<1>9. CASE rb.full
  <2>1. n = Size /\ rb.start = rb.end
    BY <1>4, <1>9 DEF WellFormed
  <2>2. Put(rb, b).full /\ Put(rb, b).start = (rb.start + 1) % Size
    BY <1>9 DEF Put
  <2>3. Length(Put(rb, b)) = Size
    BY <2>2 DEF Length
  <2> DEFINE last == SubSeq(all, 2, Size + 1)
  <2>4. Kept!Clip(all) = last
    <3>1. Len(all) = Size + 1 /\ Len(all) > Size /\ Len(all) - Size + 1 = 2
      BY <1>1, <1>5, <2>1
    <3> QED BY <3>1 DEF Kept!Clip
  <2>5. /\ last \in Seq(Byte) /\ Len(last) = Size
        /\ \A k \in 1..Size : last[k] = all[k + 1]
    <3>1. \A k \in 2..(Size + 1) : all[k] \in Byte
      BY <1>1, <1>5, <2>1, ElementOfSeq
    <3>2. /\ last \in Seq(Byte)
          /\ Len(last) = IF 2 <= Size + 1 THEN Size + 1 - 2 + 1 ELSE 0
          /\ \A k \in 1..(Size + 1 - 2 + 1) : last[k] = all[2 + k - 1]
      BY <1>1, <3>1, SubSeqProperties
    <3>3. Size + 1 - 2 + 1 = Size /\ 2 <= Size + 1 /\ \A k \in Int : 2 + k - 1 = k + 1
      BY <1>1
    <3> QED BY <3>2, <3>3
  <2> HIDE DEF last
  <2>6. ASSUME NEW k \in 1..Size PROVE new[k] = last[k]
    <3>1. new[k] = Put(rb, b).data[Cell(Put(rb, b), k)]
      BY <1>6, <2>3
    <3>2. CASE k = Size
      <4>1. Cell(Put(rb, b), k) = rb.end
        <5> DEFINE s == Put(rb, b).start
        <5>1. Cell(Put(rb, b), Size) =
                IF Size <= Size - s THEN s + Size - 1 ELSE Size - (Size - s) - 1
          BY DEF Cell
        <5>2. s = IF rb.end + 1 = Size THEN 0 ELSE rb.end + 1
          BY <1>2, <2>1, <2>2
        <5> HIDE DEF s
        <5> QED BY <1>1, <3>2, <5>1, <5>2 DEF Indices
      <4>2. new[k] = b
        BY <1>1, <1>7, <3>1, <4>1
      <4> QED BY <1>5, <2>1, <2>5, <3>2, <4>2
    <3>3. CASE k # Size
      <4>1. k + 1 \in 1..n /\ last[k] = rb.data[Cell(rb, k + 1)]
        BY <1>1, <1>5, <2>1, <2>5, <3>3
      <4>2. /\ Cell(Put(rb, b), k) = Cell(rb, k + 1)
            /\ Cell(rb, k + 1) # rb.end /\ Cell(rb, k + 1) \in Indices
        <5> DEFINE s == Put(rb, b).start
                   e == rb.start
        <5>1. Cell(Put(rb, b), k) =
                IF k <= Size - s THEN s + k - 1 ELSE k - (Size - s) - 1
          BY DEF Cell
        <5>2. Cell(rb, k + 1) = IF k + 1 <= Size - e THEN e + (k + 1) - 1
                                ELSE (k + 1) - (Size - e) - 1
          BY DEF Cell
        <5>3. s = IF e + 1 = Size THEN 0 ELSE e + 1
          BY <1>2, <2>2
        <5>4. e \in 0..(Size - 1)
          BY <1>1 DEF Indices
        <5> HIDE DEF s, e
        <5>5. Cell(Put(rb, b), k) = Cell(rb, k + 1)
          BY <1>1, <3>3, <5>1, <5>3, <5>4, <5>2
        <5>6. Cell(rb, k + 1) # e /\ Cell(rb, k + 1) \in 0..(Size - 1)
          BY <1>1, <3>3, <5>4, <5>2
        <5> QED BY <2>1, <5>5, <5>6 DEF e, Indices
      <4> QED BY <1>7, <3>1, <4>1, <4>2
    <3> QED BY <3>2, <3>3
  <2>7. new = last
    BY <1>6, <2>3, <2>5, <2>6, SeqEqual
  <2> QED BY <2>4, <2>7 DEF old, new, all
<1> QED BY <1>8, <1>9
-----------------------------------------------------------------------------
(* A whole Write.                                                           *)

PutFold == INSTANCE FoldProofs WITH Op <- Put

\* Write is a fold, in the words of FoldProofs.
LEMMA WriteIsFold ==
  ASSUME NEW rb, NEW p, Size # 0
  PROVE  Write(rb, p) = PutFold!Fold(rb, p)
BY DEF Write, PutFold!Fold, FoldLeft, PutFold!FoldLeft, MapThenFoldSet,
       PutFold!MapThenFoldSet, Max, PutFold!Max

\* The length of what is left of n bytes.
Clipped(n) == IF n > Size THEN Size ELSE n

\* What is left is an end of the sequence.
LEMMA ClipIsAnEnd ==
  ASSUME NEW Byte, NEW s \in Seq(Byte), NEW n, Len(s) = n,
         NEW m, Clipped(n) = m
  PROVE  /\ n \in Nat /\ m \in 0..n /\ m <= Size
         /\ Kept!Clip(s) \in Seq(Byte) /\ Len(Kept!Clip(s)) = m
         /\ \A k \in 1..m : Kept!Clip(s)[k] = s[n - m + k]
<1> USE SizeAssumption DEF Clipped
<1>1. n \in Nat /\ \A k \in 1..n : s[k] \in Byte
  BY ElementOfSeq
<1>2. CASE n > Size
  <2> DEFINE from == n - Size + 1
             last == SubSeq(s, from, n)
  <2>1. from \in Int /\ n - from + 1 = Size /\ \A k \in from..n : k \in 1..n
    BY <1>1, <1>2
  <2>2. Kept!Clip(s) = last
    BY <1>2 DEF Kept!Clip
  <2>3. \A k \in 1..Size : from + k - 1 = n - Size + k
    BY <1>1
  <2>4. (IF from <= n THEN n - from + 1 ELSE 0) = Size
    BY <1>1, <1>2
  <2> HIDE DEF from
  <2>5. /\ last \in Seq(Byte)
        /\ Len(last) = IF from <= n THEN n - from + 1 ELSE 0
        /\ \A k \in 1..(n - from + 1) : last[k] = s[from + k - 1]
    BY <1>1, <2>1, SubSeqProperties
  <2>6. m = Size /\ n \in Nat /\ Size < n
    BY <1>1, <1>2
  <2> HIDE DEF last
  <2>7. \A k \in 1..m : last[k] = s[n - m + k]
    <3> SUFFICES ASSUME NEW k \in 1..m PROVE last[k] = s[n - m + k]
      OBVIOUS
    <3>1. k \in 1..(n - from + 1) /\ from + k - 1 = n - m + k
      BY <2>1, <2>3, <2>6
    <3> QED BY <2>5, <3>1
  <2> QED BY <2>1, <2>2, <2>4, <2>5, <2>6, <2>7
<1>3. CASE ~(n > Size)
  BY <1>1, <1>3 DEF Kept!Clip
<1> QED BY <1>2, <1>3

\* Clipping loses nothing that the next clipping would have kept.
LEMMA ClipTwice ==
  ASSUME NEW Byte, NEW s \in Seq(Byte), NEW b \in Byte, Size > 0
  PROVE  Kept!Clip(Append(Kept!Clip(s), b)) = Kept!Clip(Append(s, b))
<1> DEFINE n == Len(s)
           m == Clipped(n)
           x == Append(Kept!Clip(s), b)
           y == Append(s, b)
           k0 == Clipped(n + 1)
<1>1. /\ n \in Nat /\ m \in 0..n /\ m <= Size
      /\ Kept!Clip(s) \in Seq(Byte) /\ Len(Kept!Clip(s)) = m
      /\ \A k \in 1..m : Kept!Clip(s)[k] = s[n - m + k]
  BY ClipIsAnEnd
<1>2. Clipped(m + 1) = k0 /\ k0 \in 1..(m + 1) /\ k0 \in 1..(n + 1)
  BY <1>1, SizeAssumption DEF Clipped
<1>3. /\ x \in Seq(Byte) /\ Len(x) = m + 1 /\ x[m + 1] = b
      /\ \A k \in 1..m : x[k] = Kept!Clip(s)[k]
  BY <1>1, AppendProperties
<1>4. /\ y \in Seq(Byte) /\ Len(y) = n + 1 /\ y[n + 1] = b
      /\ \A k \in 1..n : y[k] = s[k]
  BY <1>1, AppendProperties
<1> HIDE DEF n, m, x, y, k0
<1> DEFINE p == m + 1
           q == n + 1
<1>5. /\ Kept!Clip(x) \in Seq(Byte) /\ Len(Kept!Clip(x)) = k0
      /\ \A k \in 1..k0 : Kept!Clip(x)[k] = x[m + 1 - k0 + k]
  <2>1. Len(x) = p /\ Clipped(p) = k0
    BY <1>2, <1>3
  <2>2. p = m + 1
    OBVIOUS
  <2> HIDE DEF p
  <2>3. /\ Kept!Clip(x) \in Seq(Byte) /\ Len(Kept!Clip(x)) = k0
        /\ \A k \in 1..k0 : Kept!Clip(x)[k] = x[p - k0 + k]
    BY <1>3, <2>1, ClipIsAnEnd
  <2> QED BY <1>1, <1>2, <2>2, <2>3
<1>6. /\ Kept!Clip(y) \in Seq(Byte) /\ Len(Kept!Clip(y)) = k0
      /\ \A k \in 1..k0 : Kept!Clip(y)[k] = y[n + 1 - k0 + k]
  <2>1. Len(y) = q /\ Clipped(q) = k0
    BY <1>4 DEF k0
  <2>2. q = n + 1
    OBVIOUS
  <2> HIDE DEF q
  <2>3. /\ Kept!Clip(y) \in Seq(Byte) /\ Len(Kept!Clip(y)) = k0
        /\ \A k \in 1..k0 : Kept!Clip(y)[k] = y[q - k0 + k]
    BY <1>4, <2>1, ClipIsAnEnd
  <2> QED BY <1>1, <1>2, <2>2, <2>3
<1>7. ASSUME NEW k \in 1..k0 PROVE Kept!Clip(x)[k] = Kept!Clip(y)[k]
  <2>1. CASE k = k0
    <3>1. m + 1 - k0 + k = m + 1 /\ n + 1 - k0 + k = n + 1
      BY <1>1, <1>2, <2>1
    <3> QED BY <1>3, <1>4, <1>5, <1>6, <3>1
  <2>2. CASE k # k0
    <3> DEFINE i == m + 1 - k0 + k
               j == n + 1 - k0 + k
    <3>1. i \in 1..m /\ j \in 1..n /\ n - m + i = j
      BY <1>1, <1>2, <2>2
    <3>2. Kept!Clip(x)[k] = x[i] /\ Kept!Clip(y)[k] = y[j]
      BY <1>5, <1>6
    <3> HIDE DEF i, j
    <3> QED BY <1>1, <1>3, <1>4, <3>1, <3>2
  <2> QED BY <2>1, <2>2
<1> QED BY <1>5, <1>6, <1>7, SeqEqual DEF x, y

\* A Write keeps the last Size bytes of what the buffer held and what it was given, in
\* order, however often that wraps around the array (buffer.go:33-53).
THEOREM WriteKeepsTheLast ==
  ASSUME NEW Byte, NEW rb, WellFormed(Byte, rb), NEW p \in Seq(Byte)
  PROVE  /\ WellFormed(Byte, Write(rb, p))
         /\ Contents(Write(rb, p)) = Kept!Clip(Contents(rb) \o p)
<1> DEFINE after(k) == PutFold!Fold(rb, SubSeq(p, 1, k))
           T == {k \in Nat : k <= Len(p) =>
                  /\ WellFormed(Byte, after(k))
                  /\ Contents(after(k)) = Kept!Clip(Contents(rb) \o SubSeq(p, 1, k))}
<1>1. Size > 0 /\ Size \in Nat /\ Len(p) \in Nat
  BY SizeAssumption DEF WellFormed, Indices
<1>2. Contents(rb) \in Seq(Byte) /\ Len(Contents(rb)) <= Size
  BY ContentsAreTheCells, LengthIsBounded
<1>3. 0 \in T
  <2>1. SubSeq(p, 1, 0) = <<>>
    BY SubSeqEmpty
  <2>2. after(0) = rb
    BY <2>1, PutFold!FoldOfEmpty
  <2>3. Contents(rb) \o SubSeq(p, 1, 0) = Contents(rb)
    BY <1>2, <2>1, ConcatEmptySeq
  <2>4. Kept!Clip(Contents(rb)) = Contents(rb)
    BY <1>1, <1>2 DEF Kept!Clip
  <2> HIDE DEF after
  <2> QED BY <2>2, <2>3, <2>4
<1>4. ASSUME NEW k \in T PROVE k + 1 \in T
  <2>1. SUFFICES ASSUME k + 1 <= Len(p)
                 PROVE  /\ WellFormed(Byte, after(k + 1))
                        /\ Contents(after(k + 1)) =
                             Kept!Clip(Contents(rb) \o SubSeq(p, 1, k + 1))
    OBVIOUS
  <2> DEFINE q == SubSeq(p, 1, k)
             b == p[k + 1]
             all == Contents(rb) \o q
  <2>2. k \in Nat /\ k + 1 \in 1..Len(p)
    BY <1>1, <2>1
  <2>3. b \in Byte /\ q \in Seq(Byte) /\ SubSeq(p, 1, k + 1) = Append(q, b)
    <3>1. b \in Byte /\ \A j \in 1..k : p[j] \in Byte
      BY <2>2, ElementOfSeq
    <3>2. q \in Seq(Byte)
      BY <2>2, <3>1, SubSeqProperties
    <3>3. SubSeq(p, 1, k + 1) = SubSeq(p, 1, k + 1 - 1) \o <<p[k + 1]>>
      <4>1. 1 \in 1..Len(p) /\ k + 1 \in 1..Len(p)
        BY <2>2
      <4> QED BY <4>1, SubSeqRecursiveSecond
    <3>4. k + 1 - 1 = k
      BY <2>2
    <3>5. Append(q, b) = q \o <<b>>
      BY <3>1, <3>2, AppendIsConcat
    <3> QED BY <3>1, <3>2, <3>3, <3>4, <3>5
  <2>4. /\ WellFormed(Byte, after(k))
        /\ Contents(after(k)) = Kept!Clip(all)
    <3> HIDE DEF after
    <3> QED BY <1>1, <2>1, <2>2
  <2>5. after(k + 1) = Put(after(k), b)
    <3>1. after(k + 1) = PutFold!Fold(rb, Append(q, b)) /\ after(k) = PutFold!Fold(rb, q)
      BY <2>3
    <3> HIDE DEF after, q, b
    <3> QED BY <2>3, <3>1, PutFold!FoldOfAppend
  <2> HIDE DEF q, b, after
  <2>6. all \in Seq(Byte) /\ Contents(rb) \o Append(q, b) = Append(all, b)
    <3>1. all \in Seq(Byte) /\ <<b>> \in Seq(Byte)
      BY <1>2, <2>3, ConcatProperties
    <3>2. Append(all, b) = all \o <<b>> /\ Append(q, b) = q \o <<b>>
      BY <2>3, <3>1, AppendIsConcat
    <3>3. all \o <<b>> = Contents(rb) \o (q \o <<b>>)
      BY <1>2, <2>3, <3>1, ConcatAssociative
    <3> QED BY <3>1, <3>2, <3>3
  <2> HIDE DEF all
  <2>7. WellFormed(Byte, after(k + 1))
    BY <2>3, <2>4, <2>5, PutKeepsWellFormed
  <2>8. Contents(after(k + 1)) = Kept!Clip(Append(Kept!Clip(all), b))
    BY <2>3, <2>4, <2>5, PutKeepsTheLast
  <2>9. Contents(after(k + 1)) = Kept!Clip(Append(all, b))
    BY <1>1, <2>3, <2>6, <2>8, ClipTwice
  <2> QED BY <2>3, <2>6, <2>7, <2>9
<1>5. T \in SUBSET Nat
  OBVIOUS
<1> HIDE DEF T
<1>6. T = Nat
  BY <1>3, <1>4, <1>5, PutFold!SetInduction
<1>7. /\ WellFormed(Byte, after(Len(p)))
      /\ Contents(after(Len(p))) = Kept!Clip(Contents(rb) \o SubSeq(p, 1, Len(p)))
  <2> HIDE DEF after
  <2> QED BY <1>1, <1>6 DEF T
<1>8. SubSeq(p, 1, Len(p)) = p
  BY SubSeqFull
<1>9. Write(rb, p) = PutFold!Fold(rb, p)
  BY <1>1, WriteIsFold
<1> QED BY <1>7, <1>8, <1>9
=============================================================================
