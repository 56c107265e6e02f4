----------------------------- MODULE OutputProofs ----------------------------
(***************************************************************************)
(* Proofs about Output, for all sizes and any number of streams: types, the *)
(* stream that arrives complete, and the refinement of OutputLog.            *)
(***************************************************************************)
EXTENDS Output, RingBufferProofs

ExtendFold == INSTANCE FoldProofs WITH Op <- Extend

AllBytes == {Zero} \cup UNION {Bytes(s) : s \in Streams}

\* The bytes end in the middle of a line.
Open(bytes) == bytes # <<>> /\ bytes[Len(bytes)] # "nl"

\* A buffer of no capacity stays as it was made.
Buffer(rb) == IF Size = 0 THEN rb = NewRingBuffer ELSE WellFormed(AllBytes, rb)

CommandInv ==
  /\ alive \in BOOLEAN /\ budget \in 0..MaxBytes
  /\ DOMAIN pipe = Streams /\ DOMAIN scan = Streams
  /\ reader \in [Streams -> {"scanning", "ended", "gaveUp"}]
  /\ DOMAIN wrote = Streams /\ DOMAIN captured = Streams

StreamType(s) ==
  /\ pipe[s] \in Seq(Bytes(s)) /\ Len(pipe[s]) <= PipeSize
  /\ scan[s] \in Seq({s, "cr"}) /\ Len(scan[s]) <= MaxLine
  /\ wrote[s] \in Seq(Bytes(s)) /\ captured[s] \in Seq(Bytes(s))

\* What a reader has taken from its pipe is, as text, what it has passed on and its
\* current line; and it has a current line exactly when it stopped inside one.
TakenInv(s) ==
  reader[s] = "scanning" =>
    \E taken \in Seq(Bytes(s)) :
      /\ wrote[s] = taken \o pipe[s]
      /\ ExtendFold!Fold(<<>>, taken) = captured[s] \o scan[s]
      /\ Open(taken) <=> scan[s] # <<>>

EndedInv(s) ==
  reader[s] = "ended" => ~alive /\ captured[s] = Lined(wrote[s])

StreamInv(s) ==
  StreamType(s) /\ ~Open(captured[s]) /\ TakenInv(s) /\ EndedInv(s)

OutputInv == CommandInv /\ Buffer(output) /\ \A s \in Streams : StreamInv(s)

-----------------------------------------------------------------------------
(* Lines as sequences.                                                      *)

\* The bounded sequences of TypeOK are the sequences of bounded length.
LEMMA ShortSeq ==
  ASSUME NEW S, NEW n \in Nat, NEW q \in Seq(S), Len(q) <= n
  PROVE  q \in BoundedSeq(S, n)
<1>1. Len(q) \in 0..n /\ q \in [1..Len(q) -> S]
  BY LenProperties
<1>2. [1..Len(q) -> S] \in {[1..k -> S] : k \in 0..n}
  BY <1>1
<1> QED BY <1>1, <1>2 DEF BoundedSeq, SeqOf

\* dropCR takes nothing but one carriage return, and none from a text that ends
\* with a newline.
LEMMA DropCR ==
  ASSUME NEW S, NEW c \in Seq(S), ~Open(c), NEW q \in Seq(S)
  PROVE  dropCR(q) \in Seq(S) /\ dropCR(c \o q) = c \o dropCR(q)
<1>1. Len(c) \in Nat /\ Len(q) \in Nat /\ c \o <<>> = c /\ \A k \in 1..Len(q) : q[k] \in S
  BY LenProperties, ElementOfSeq, ConcatEmptySeq
<1>2. CASE q = <<>>
  <2>1. dropCR(c) = c
    BY DEF dropCR, Open
  <2> QED BY <1>1, <1>2, <2>1 DEF dropCR
<1>3. CASE q # <<>>
  <2> DEFINE n == Len(q)
             m == Len(c)
  <2>1. /\ n \in Nat \ {0} /\ m \in Nat
        /\ c \o q \in Seq(S) /\ Len(c \o q) = m + n /\ c \o q # <<>>
        /\ (c \o q)[m + n] = q[n]
    <3>1. n \in Nat \ {0}
      BY <1>3, EmptySeq
    <3>2. /\ c \o q \in Seq(S) /\ Len(c \o q) = m + n
          /\ \A k \in 1..(m + n) : (c \o q)[k] = IF k <= m THEN c[k] ELSE q[k - m]
      BY ConcatProperties
    <3> HIDE DEF n, m
    <3>3. (c \o q)[m + n] = q[n]
      <4>1. m + n \in 1..(m + n) /\ ~(m + n <= m) /\ (m + n) - m = n
        BY <1>1, <3>1 DEF m
      <4> QED BY <3>2, <4>1
    <3>4. c \o q # <<>>
      BY <1>1, <3>1, <3>2, EmptySeq DEF m
    <3> QED BY <1>1, <3>1, <3>2, <3>3, <3>4 DEF m
  <2>2. CASE q[n] = "cr"
    <3> DEFINE r == SubSeq(q, 1, n - 1)
    <3>1. dropCR(q) = r /\ dropCR(c \o q) = SubSeq(c \o q, 1, m + n - 1)
      BY <1>3, <2>1, <2>2 DEF dropCR
    <3>2. r \in Seq(S)
      BY <1>1, <2>1, SubSeqProperties
    <3>3. q = r \o <<q[n]>>
      <4>1. 1 \in 1..n /\ n \in 1..n
        BY <2>1
      <4>2. SubSeq(q, 1, n) = r \o <<q[n]>>
        BY <4>1, SubSeqRecursiveSecond
      <4> QED BY <4>2, SubSeqFull
    <3> DEFINE d == c \o r
               e == q[n]
    <3>4. d \in Seq(S) /\ e \in S /\ Len(r) = n - 1 /\ Len(d) = m + n - 1
      <4>1. e \in S
        BY <1>1, <2>1
      <4>2. Len(r) = n - 1
        <5>1. \A i \in 1..(n - 1) : q[i] \in S
          BY <1>1, <2>1
        <5>2. Len(r) = IF 1 <= n - 1 THEN n - 1 - 1 + 1 ELSE 0
          BY <2>1, <5>1, SubSeqProperties
        <5> HIDE DEF n, r
        <5> QED BY <2>1, <5>2
      <4>3. d \in Seq(S) /\ Len(d) = m + Len(r)
        BY <3>2, ConcatProperties
      <4> HIDE DEF n, m, r, d, e
      <4> QED BY <2>1, <4>1, <4>2, <4>3
    <3>5. c \o q = d \o <<e>>
      <4>1. <<e>> \in Seq(S)
        BY <3>4
      <4>2. q = r \o <<e>>
        BY <3>3
      <4> HIDE DEF r, e
      <4>3. (c \o r) \o <<e>> = c \o (r \o <<e>>)
        BY <3>2, <4>1, ConcatAssociative
      <4> QED BY <4>2, <4>3
    <3>6. SubSeq(d \o <<e>>, 1, m + n - 1) = d
      <4> HIDE DEF d, e
      <4>1. CASE m + n - 1 = 0
        <5>1. d = <<>>
          BY <3>4, <4>1, EmptySeq
        <5>2. SubSeq(d \o <<e>>, 1, 0) = <<>>
          BY SubSeqEmpty
        <5> QED BY <4>1, <5>1, <5>2
      <4>2. CASE m + n - 1 # 0
        <5> DEFINE k == m + n - 1
        <5>1. 1 \in 1..Len(d) /\ k \in 1..Len(d) /\ <<e>> \in Seq(S) /\ Len(d) = k
          BY <2>1, <3>4, <4>2
        <5>2. SubSeq(d \o <<e>>, 1, k) = SubSeq(d, 1, k)
          <6> HIDE DEF k
          <6> QED BY <3>4, <5>1, SubSeqOfConcat1
        <5> QED BY <3>4, <5>1, <5>2, SubSeqFull
      <4> QED BY <4>1, <4>2
    <3> HIDE DEF d, e, r, n, m
    <3> QED BY <3>1, <3>2, <3>5, <3>6 DEF d
  <2>3. CASE q[n] # "cr"
    BY <1>3, <2>1, <2>3 DEF dropCR
  <2> QED BY <2>2, <2>3
<1> QED BY <1>2, <1>3

\* The bytes of a stream, and that a framed line is bytes of it that end a line.
LEMMA FramedLine ==
  ASSUME NEW s \in Streams, NEW line \in Seq({s, "cr"})
  PROVE  /\ line \in Seq(Bytes(s)) /\ Framed(line) \in Seq(Bytes(s))
         /\ Framed(line)[Len(Framed(line))] = "nl" /\ Framed(line) # <<>>
<1>1. line \in Seq(Bytes(s))
  <2>1. {s, "cr"} \subseteq Bytes(s)
    BY DEF Bytes
  <2> QED BY <2>1, SeqMonotonic
<1>2. dropCR(line) \in Seq(Bytes(s))
  <2>1. <<>> \in Seq(Bytes(s)) /\ ~Open(<<>>)
    BY EmptySeq DEF Open
  <2> QED BY <1>1, <2>1, DropCR
<1>3. "nl" \in Bytes(s)
  BY DEF Bytes
<1> DEFINE q == dropCR(line)
<1>4. Framed(line) = Append(q, "nl")
  BY DEF Framed
<1> HIDE DEF q
<1> QED BY <1>1, <1>2, <1>3, <1>4, AppendProperties DEF q

\* Framing a line at the end of complete lines frames the line.
LEMMA FramedAtEnd ==
  ASSUME NEW s \in Streams, NEW c \in Seq(Bytes(s)), ~Open(c),
         NEW line \in Seq({s, "cr"})
  PROVE  /\ Extend(c \o line, "nl") = c \o Framed(line)
         /\ c \o Framed(line) \in Seq(Bytes(s)) /\ ~Open(c \o Framed(line))
<1>1. line \in Seq(Bytes(s)) /\ "nl" \in Bytes(s)
  BY FramedLine DEF Bytes
<1>2. /\ dropCR(line) \in Seq(Bytes(s))
      /\ dropCR(c \o line) = c \o dropCR(line)
  BY <1>1, DropCR
<1>3. Extend(c \o line, "nl") = c \o Framed(line)
  <2> DEFINE q == dropCR(line)
  <2>1. Append(c \o q, "nl") = c \o Append(q, "nl")
    <3> HIDE DEF q
    <3>1. q \in Seq(Bytes(s)) /\ c \o q \in Seq(Bytes(s)) /\ <<"nl">> \in Seq(Bytes(s))
      BY <1>1, <1>2, ConcatProperties DEF q
    <3>2. Append(c \o q, "nl") = (c \o q) \o <<"nl">> /\ Append(q, "nl") = q \o <<"nl">>
      BY <1>1, <3>1, AppendIsConcat
    <3>3. (c \o q) \o <<"nl">> = c \o (q \o <<"nl">>)
      BY <3>1, ConcatAssociative
    <3> QED BY <3>2, <3>3
  <2> QED BY <1>2, <2>1 DEF Extend, Framed
<1>4. c \o Framed(line) \in Seq(Bytes(s)) /\ ~Open(c \o Framed(line))
  <2> DEFINE f == Framed(line)
             n == Len(f)
             m == Len(c)
  <2>1. f \in Seq(Bytes(s)) /\ f[n] = "nl" /\ f # <<>>
    BY FramedLine
  <2>2. n \in Nat \ {0} /\ m \in Nat
    BY <2>1, EmptySeq
  <2> HIDE DEF f
  <2>3. /\ c \o f \in Seq(Bytes(s)) /\ Len(c \o f) = m + n
        /\ \A k \in 1..(m + n) : (c \o f)[k] = IF k <= m THEN c[k] ELSE f[k - m]
    BY <2>1, ConcatProperties
  <2> HIDE DEF n, m
  <2>4. m + n \in 1..(m + n) /\ ~(m + n <= m) /\ (m + n) - m = n
    BY <2>2
  <2>5. (c \o f)[m + n] = "nl"
    BY <2>1, <2>3, <2>4
  <2> QED BY <2>3, <2>5 DEF Open, f
<1> QED BY <1>3, <1>4

\* FoldLeft, in the words of FoldProofs.
LEMMA LinedIsFold ==
  ASSUME NEW bytes
  PROVE  Lined(bytes) =
           ExtendFold!Fold(<<>>, IF Open(bytes) THEN Append(bytes, "nl") ELSE bytes)
BY DEF Lined, Open, ExtendFold!Fold, FoldLeft, ExtendFold!FoldLeft, MapThenFoldSet,
       ExtendFold!MapThenFoldSet, Max, ExtendFold!Max

\* At end of file an open last line is framed like any other.
LEMMA LastLine ==
  ASSUME NEW s \in Streams, NEW c \in Seq(Bytes(s)), ~Open(c),
         NEW line \in Seq({s, "cr"}), NEW taken \in Seq(Bytes(s)),
         ExtendFold!Fold(<<>>, taken) = c \o line,
         Open(taken) <=> line # <<>>
  PROVE  Lined(taken) = IF line = <<>> THEN c ELSE c \o Framed(line)
<1>1. CASE line = <<>>
  <2>1. c \o <<>> = c
    BY ConcatEmptySeq
  <2> QED BY <1>1, <2>1, LinedIsFold
<1>2. CASE line # <<>>
  <2>1. Lined(taken) = ExtendFold!Fold(<<>>, Append(taken, "nl"))
    BY <1>2, LinedIsFold
  <2>2. "nl" \in Bytes(s)
    BY DEF Bytes
  <2>3. Lined(taken) = Extend(ExtendFold!Fold(<<>>, taken), "nl")
    BY <2>1, <2>2, ExtendFold!FoldOfAppend
  <2> QED BY <1>2, <2>3, FramedAtEnd
<1> QED BY <1>1, <1>2

-----------------------------------------------------------------------------
(* The buffer.                                                              *)

\* The buffer that NewRingBuffer returns holds nothing.
LEMMA NewIsEmpty == Buffer(NewRingBuffer) /\ Contents(NewRingBuffer) = <<>>
<1>1. CASE Size = 0
  <2>1. ~NewRingBuffer.full /\ NewRingBuffer.start = 0 /\ NewRingBuffer.end = 0
    BY DEF NewRingBuffer
  <2>2. Contents(NewRingBuffer) = [k \in 1..0 |-> NewRingBuffer.data[0 + k - 1]]
    BY <2>1 DEF Contents, Slice
  <2>3. Contents(NewRingBuffer) \in Seq({}) /\ Len(Contents(NewRingBuffer)) = 0
    BY <2>2
  <2> QED BY <1>1, <2>3, EmptySeq DEF Buffer
<1>2. CASE Size # 0
  <2>1. Zero \in AllBytes /\ Size > 0
    BY <1>2, SizeAssumption DEF AllBytes
  <2>2. WellFormed(AllBytes, NewRingBuffer) /\ Length(NewRingBuffer) = 0
    BY <2>1, NewIsWellFormed
  <2>3. Contents(NewRingBuffer) \in Seq(AllBytes) /\ Len(Contents(NewRingBuffer)) = 0
    BY <2>2, ContentsAreTheCells
  <2> QED BY <1>2, <2>2, <2>3, EmptySeq DEF Buffer
<1> QED BY <1>1, <1>2

\* String returns bytes, Len of them, and the indices stay within the array.
LEMMA BufferIsTyped ==
  ASSUME NEW rb, Buffer(rb)
  PROVE  /\ Contents(rb) \in Seq(AllBytes) /\ Length(rb) = Len(Contents(rb))
         /\ IF Size = 0 THEN rb = NewRingBuffer
            ELSE rb.start \in 0..(Size - 1) /\ rb.end \in 0..(Size - 1)
<1>1. CASE Size = 0
  <2>1. rb = NewRingBuffer /\ Length(NewRingBuffer) = 0
    BY <1>1 DEF Buffer, NewRingBuffer, Length
  <2> QED BY <1>1, <2>1, NewIsEmpty, EmptySeq
<1>2. CASE Size # 0
  BY <1>2, ContentsAreTheCells DEF Buffer, WellFormed, Indices
<1> QED BY <1>1, <1>2

\* With or without capacity, a Write is a step of OutputLog.
LEMMA WriteIsLogged ==
  ASSUME NEW rb, Buffer(rb), NEW p \in Seq(AllBytes)
  PROVE  Buffer(Write(rb, p)) /\ Contents(Write(rb, p)) = Log!Clip(Contents(rb) \o p)
<1>1. CASE Size = 0
  <2>1. Write(rb, p) = NewRingBuffer /\ rb = NewRingBuffer
    BY <1>1 DEF Buffer, Write
  <2>2. Contents(rb) \o p = p
    BY <2>1, NewIsEmpty, ConcatEmptySeq
  <2>3. Log!Clip(p) = <<>>
    <3>1. CASE Len(p) > 0
      <4>1. SubSeq(p, Len(p) + 1, Len(p)) = <<>>
        BY SubSeqEmpty
      <4>2. Len(p) - Size + 1 = Len(p) + 1
        BY <1>1, <3>1
      <4> QED BY <1>1, <3>1, <4>1, <4>2 DEF Log!Clip
    <3>2. CASE ~(Len(p) > 0)
      <4>1. p = <<>>
        BY <3>2, EmptySeq
      <4> QED BY <1>1, <3>2, <4>1 DEF Log!Clip
    <3> QED BY <3>1, <3>2
  <2> QED BY <2>1, <2>2, <2>3, NewIsEmpty
<1>2. CASE Size # 0
  <2>1. WellFormed(AllBytes, rb)
    BY <1>2 DEF Buffer
  <2>2. /\ WellFormed(AllBytes, Write(rb, p))
        /\ Contents(Write(rb, p)) = Kept!Clip(Contents(rb) \o p)
    BY <2>1, WriteKeepsTheLast
  <2>3. Kept!Clip(Contents(rb) \o p) = Log!Clip(Contents(rb) \o p)
    BY DEF Kept!Clip, Log!Clip
  <2> QED BY <1>2, <2>2, <2>3 DEF Buffer
<1> QED BY <1>1, <1>2

\* A framed line may be written.
LEMMA FramedIsBytes ==
  ASSUME NEW s \in Streams, NEW line \in Seq({s, "cr"})
  PROVE  Framed(line) \in Seq(AllBytes)
<1>1. Bytes(s) \subseteq AllBytes
  BY DEF AllBytes
<1>2. Framed(line) \in Seq(Bytes(s))
  BY FramedLine
<1> QED BY <1>1, <1>2, SeqMonotonic

-----------------------------------------------------------------------------
(* The invariant.                                                           *)

\* At the start nothing is written, taken or passed on.
LEMMA InitOutput == Init => OutputInv
<1> SUFFICES ASSUME Init PROVE OutputInv
  OBVIOUS
<1>1. CommandInv
  BY OutputAssumption DEF Init, CommandInv
<1>2. Buffer(output)
  BY NewIsEmpty DEF Init
<1>3. ASSUME NEW s \in Streams PROVE StreamInv(s)
  <2>1. StreamType(s) /\ ~Open(captured[s]) /\ reader[s] = "scanning"
    BY OutputAssumption, EmptySeq DEF Init, StreamType, Open
  <2>2. wrote[s] = <<>> \o pipe[s] /\ captured[s] \o scan[s] = <<>>
    BY ConcatEmptySeq, EmptySeq DEF Init
  <2>3. ExtendFold!Fold(<<>>, <<>>) = <<>>
    BY ExtendFold!FoldOfEmpty
  <2>4. TakenInv(s)
    <3>1. /\ wrote[s] = <<>> \o pipe[s]
          /\ ExtendFold!Fold(<<>>, <<>>) = captured[s] \o scan[s]
          /\ Open(<<>>) <=> scan[s] # <<>>
      BY <2>2, <2>3 DEF Init, Open
    <3>2. <<>> \in Seq(Bytes(s))
      BY EmptySeq
    <3> QED BY <3>1, <3>2 DEF TakenInv
  <2> QED BY <2>1, <2>4 DEF StreamInv, EndedInv
<1> QED BY <1>1, <1>2, <1>3 DEF OutputInv

\* What a step leaves alone stays true.
LEMMA SameStream ==
  ASSUME NEW s \in Streams, StreamInv(s), alive' => alive,
         pipe'[s] = pipe[s], scan'[s] = scan[s], reader'[s] = reader[s],
         wrote'[s] = wrote[s], captured'[s] = captured[s]
  PROVE  StreamInv(s)'
BY DEF StreamInv, StreamType, TakenInv, EndedInv, Open

\* A byte that the command writes is at the end of the pipe, and of the stream.
LEMMA CommandWritesOutput ==
  ASSUME OutputInv, NEW s \in Streams, NEW b \in Bytes(s), CommandWrites(s, b)
  PROVE  OutputInv'
<1>1. CommandInv' /\ Buffer(output)'
  BY OutputAssumption DEF OutputInv, CommandInv, CommandWrites, Buffer
<1>2. /\ pipe'[s] = Append(pipe[s], b) /\ wrote'[s] = Append(wrote[s], b)
      /\ Len(pipe[s]) < PipeSize /\ alive /\ StreamType(s) /\ reader' = reader
      /\ scan' = scan /\ captured' = captured /\ PipeSize \in Nat
  BY OutputAssumption DEF OutputInv, CommandInv, StreamInv, CommandWrites
<1>3. StreamType(s)'
  <2>1. pipe'[s] \in Seq(Bytes(s)) /\ Len(pipe'[s]) = Len(pipe[s]) + 1
    BY <1>2, AppendProperties DEF StreamType
  <2>2. wrote'[s] \in Seq(Bytes(s)) /\ Len(pipe[s]) \in Nat
    BY <1>2, AppendProperties, LenProperties DEF StreamType
  <2> QED BY <1>2, <2>1, <2>2 DEF StreamType
<1>4. TakenInv(s)'
  <2>1. SUFFICES ASSUME reader[s] = "scanning" PROVE TakenInv(s)'
    BY <1>2 DEF TakenInv
  <2>2. PICK taken \in Seq(Bytes(s)) :
          /\ wrote[s] = taken \o pipe[s]
          /\ ExtendFold!Fold(<<>>, taken) = captured[s] \o scan[s]
          /\ Open(taken) <=> scan[s] # <<>>
    BY <2>1 DEF OutputInv, StreamInv, TakenInv
  <2>3. wrote'[s] = taken \o pipe'[s]
    <3> DEFINE q == pipe[s]
    <3>1. q \in Seq(Bytes(s)) /\ taken \o q \in Seq(Bytes(s)) /\ <<b>> \in Seq(Bytes(s))
      BY <1>2, ConcatProperties DEF StreamType
    <3>2. wrote'[s] = Append(taken \o q, b) /\ pipe'[s] = Append(q, b)
      BY <1>2, <2>2
    <3> HIDE DEF q
    <3>3. Append(taken \o q, b) = (taken \o q) \o <<b>> /\ Append(q, b) = q \o <<b>>
      BY <3>1, AppendIsConcat
    <3>4. (taken \o q) \o <<b>> = taken \o (q \o <<b>>)
      BY <3>1, ConcatAssociative
    <3> QED BY <3>2, <3>3, <3>4
  <2> QED BY <1>2, <2>2, <2>3 DEF TakenInv
<1>5. StreamInv(s)'
  BY <1>2, <1>3, <1>4 DEF OutputInv, StreamInv, EndedInv, CommandWrites
<1>6. ASSUME NEW r \in Streams, r # s PROVE StreamInv(r)'
  <2>1. /\ pipe'[r] = pipe[r] /\ wrote'[r] = wrote[r] /\ alive' = alive
        /\ scan' = scan /\ reader' = reader /\ captured' = captured /\ StreamInv(r)
    BY <1>6 DEF OutputInv, CommandInv, CommandWrites
  <2> QED BY <2>1, SameStream
<1> QED BY <1>1, <1>5, <1>6 DEF OutputInv

\* The reader has taken one byte more from its pipe.
LEMMA TakesHead ==
  ASSUME NEW s \in Streams, NEW taken \in Seq(Bytes(s)), NEW q \in Seq(Bytes(s)), q # <<>>
  PROVE  /\ Head(q) \in Bytes(s) /\ Tail(q) \in Seq(Bytes(s)) /\ Len(Tail(q)) = Len(q) - 1
         /\ Append(taken, Head(q)) \in Seq(Bytes(s))
         /\ taken \o q = Append(taken, Head(q)) \o Tail(q)
         /\ Open(Append(taken, Head(q))) <=> Head(q) # "nl"
         /\ ExtendFold!Fold(<<>>, Append(taken, Head(q))) =
              Extend(ExtendFold!Fold(<<>>, taken), Head(q))
<1> DEFINE b == Head(q)
           t == Tail(q)
           more == Append(taken, b)
<1>1. b \in Bytes(s) /\ t \in Seq(Bytes(s)) /\ Len(t) = Len(q) - 1
  BY HeadTailProperties
<1>2. q = <<b>> \o t
  <2>1. Len(q) \in Nat \ {0}
    BY EmptySeq
  <2>2. 1 \in 1..Len(q) /\ Len(q) \in 1..Len(q)
    BY <2>1
  <2>3. SubSeq(q, 1, Len(q)) = <<q[1]>> \o SubSeq(q, 2, Len(q))
    BY <2>2, SubSeqRecursiveFirst
  <2>4. SubSeq(q, 1, Len(q)) = q /\ Tail(q) = SubSeq(q, 2, Len(q)) /\ Head(q) = q[1]
    BY <2>1, SubSeqFull, TailIsSubSeq
  <2> QED BY <2>3, <2>4
<1> HIDE DEF b, t
<1>3. more \in Seq(Bytes(s)) /\ more = taken \o <<b>> /\ more # <<>> /\ more[Len(more)] = b
  BY <1>1, AppendProperties, AppendIsConcat
<1>4. taken \o q = more \o t
  <2>1. <<b>> \in Seq(Bytes(s))
    BY <1>1
  <2>2. (taken \o <<b>>) \o t = taken \o (<<b>> \o t)
    BY <1>1, <2>1, ConcatAssociative
  <2> QED BY <1>2, <1>3, <2>2
<1>5. ExtendFold!Fold(<<>>, more) = Extend(ExtendFold!Fold(<<>>, taken), b)
  BY <1>1, ExtendFold!FoldOfAppend
<1> QED BY <1>1, <1>3, <1>4, <1>5 DEF b, t, Open

\* Taking a byte leaves the pipe as long as it may be.
LEMMA PipeShrinks ==
  ASSUME NEW s \in Streams, StreamType(s), pipe[s] # <<>>
  PROVE  Tail(pipe[s]) \in Seq(Bytes(s)) /\ Len(Tail(pipe[s])) <= PipeSize
<1>1. pipe[s] \in Seq(Bytes(s)) /\ Len(pipe[s]) \in Nat /\ Len(pipe[s]) <= PipeSize
  BY LenProperties DEF StreamType
<1>2. Tail(pipe[s]) \in Seq(Bytes(s)) /\ Len(Tail(pipe[s])) = Len(pipe[s]) - 1
  BY <1>1, HeadTailProperties
<1> QED BY <1>1, <1>2, OutputAssumption

\* A byte of a line goes from the pipe to the current line.
LEMMA ReadsTextOutput ==
  ASSUME OutputInv, NEW s \in Streams, ReadsText(s)
  PROVE  OutputInv'
<1> DEFINE b == Head(pipe[s])
<1>1. CommandInv' /\ Buffer(output)'
  BY DEF OutputInv, CommandInv, ReadsText, cmdVars, Buffer
<1>2. /\ pipe[s] # <<>> /\ b # "nl" /\ reader[s] = "scanning" /\ Len(scan[s]) < MaxLine
      /\ pipe'[s] = Tail(pipe[s]) /\ scan'[s] = Append(scan[s], b)
      /\ alive' = alive /\ reader' = reader /\ wrote' = wrote /\ captured' = captured
      /\ StreamType(s) /\ ~Open(captured[s]) /\ TakenInv(s)
  BY DEF OutputInv, CommandInv, StreamInv, ReadsText, cmdVars
<1>3. PICK taken \in Seq(Bytes(s)) :
        /\ wrote[s] = taken \o pipe[s]
        /\ ExtendFold!Fold(<<>>, taken) = captured[s] \o scan[s]
        /\ Open(taken) <=> scan[s] # <<>>
  BY <1>2 DEF TakenInv
<1>4. pipe[s] \in Seq(Bytes(s))
  BY <1>2 DEF StreamType
<1>5. /\ b \in Bytes(s)
      /\ Append(taken, b) \in Seq(Bytes(s))
      /\ wrote[s] = Append(taken, b) \o pipe'[s]
      /\ Open(Append(taken, b))
      /\ ExtendFold!Fold(<<>>, Append(taken, b)) = Extend(captured[s] \o scan[s], b)
  <2> DEFINE q == pipe[s]
  <2>1. q \in Seq(Bytes(s)) /\ q # <<>>
    BY <1>2, <1>4
  <2> HIDE DEF q
  <2>2. /\ Head(q) \in Bytes(s) /\ Append(taken, Head(q)) \in Seq(Bytes(s))
        /\ taken \o q = Append(taken, Head(q)) \o Tail(q)
        /\ Open(Append(taken, Head(q))) <=> Head(q) # "nl"
        /\ ExtendFold!Fold(<<>>, Append(taken, Head(q))) =
             Extend(ExtendFold!Fold(<<>>, taken), Head(q))
    BY <2>1, TakesHead
  <2> QED BY <1>2, <1>3, <2>2 DEF q
<1> HIDE DEF b
<1>6. /\ scan'[s] \in Seq({s, "cr"}) /\ Len(scan'[s]) = Len(scan[s]) + 1
      /\ Len(scan[s]) \in Nat /\ scan'[s] # <<>>
  <2>1. b \in {s, "cr"} /\ scan[s] \in Seq({s, "cr"})
    BY <1>2, <1>5 DEF Bytes, StreamType
  <2> QED BY <1>2, <2>1, AppendProperties, LenProperties
<1>7. StreamType(s)'
  <2>1. pipe'[s] \in Seq(Bytes(s)) /\ Len(pipe'[s]) <= PipeSize
    BY <1>2, PipeShrinks
  <2>2. Len(scan'[s]) <= MaxLine
    BY <1>2, <1>6, OutputAssumption
  <2> QED BY <1>2, <1>6, <2>1, <2>2 DEF StreamType
<1>8. Extend(captured[s] \o scan[s], b) = captured'[s] \o scan'[s]
  <2> DEFINE c == captured[s]
             q == scan[s]
  <2>1. /\ c \in Seq(Bytes(s)) /\ q \in Seq(Bytes(s)) /\ c \o q \in Seq(Bytes(s))
        /\ <<b>> \in Seq(Bytes(s))
    <3>1. c \in Seq(Bytes(s)) /\ q \in Seq(Bytes(s))
      BY <1>2, FramedLine DEF StreamType
    <3> QED BY <1>5, <3>1, ConcatProperties
  <2>2. captured'[s] = c /\ scan'[s] = Append(q, b)
    BY <1>2
  <2>3. Extend(c \o q, b) = Append(c \o q, b)
    BY <1>2 DEF Extend
  <2> HIDE DEF c, q
  <2>4. Append(c \o q, b) = (c \o q) \o <<b>> /\ Append(q, b) = q \o <<b>>
    BY <1>5, <2>1, AppendIsConcat
  <2>5. (c \o q) \o <<b>> = c \o (q \o <<b>>)
    BY <2>1, ConcatAssociative
  <2> QED BY <2>2, <2>3, <2>4, <2>5 DEF c, q
<1>9. TakenInv(s)'
  BY <1>2, <1>5, <1>6, <1>8 DEF TakenInv
<1>10. StreamInv(s)'
  BY <1>2, <1>7, <1>9 DEF StreamInv, EndedInv, Open
<1>11. ASSUME NEW r \in Streams, r # s PROVE StreamInv(r)'
  <2>1. /\ pipe'[r] = pipe[r] /\ scan'[r] = scan[r] /\ alive' = alive
        /\ wrote' = wrote /\ reader' = reader /\ captured' = captured /\ StreamInv(r)
    BY <1>11 DEF OutputInv, CommandInv, ReadsText, cmdVars
  <2> QED BY <2>1, SameStream
<1> QED BY <1>1, <1>10, <1>11 DEF OutputInv

\* A newline makes the current line a framed one, with all that came before it.
LEMMA ReadsLineOutput ==
  ASSUME OutputInv, NEW s \in Streams, ReadsLine(s)
  PROVE  OutputInv'
<1>1. /\ pipe[s] # <<>> /\ Head(pipe[s]) = "nl" /\ reader[s] = "scanning"
      /\ pipe'[s] = Tail(pipe[s]) /\ scan'[s] = <<>>
      /\ captured'[s] = captured[s] \o Framed(scan[s])
      /\ output' = Write(output, Framed(scan[s]))
      /\ alive' = alive /\ reader' = reader /\ wrote' = wrote
      /\ StreamType(s) /\ ~Open(captured[s]) /\ TakenInv(s)
  BY DEF OutputInv, CommandInv, StreamInv, ReadsLine, Passes, cmdVars
<1>2. /\ captured[s] \in Seq(Bytes(s)) /\ scan[s] \in Seq({s, "cr"})
      /\ pipe[s] \in Seq(Bytes(s))
  BY <1>1 DEF StreamType
<1>3. CommandInv' /\ Buffer(output)'
  <2>1. CommandInv'
    BY DEF OutputInv, CommandInv, ReadsLine, Passes, cmdVars
  <2>2. Buffer(output')
    BY <1>1, <1>2, FramedIsBytes, WriteIsLogged DEF OutputInv
  <2> QED BY <2>1, <2>2 DEF Buffer
<1>4. PICK taken \in Seq(Bytes(s)) :
        /\ wrote[s] = taken \o pipe[s]
        /\ ExtendFold!Fold(<<>>, taken) = captured[s] \o scan[s]
  BY <1>1 DEF TakenInv
<1>5. /\ Append(taken, "nl") \in Seq(Bytes(s))
      /\ wrote[s] = Append(taken, "nl") \o pipe'[s]
      /\ ~Open(Append(taken, "nl"))
      /\ ExtendFold!Fold(<<>>, Append(taken, "nl")) = Extend(captured[s] \o scan[s], "nl")
  BY <1>1, <1>2, <1>4, TakesHead
<1>6. /\ Extend(captured[s] \o scan[s], "nl") = captured'[s]
      /\ captured'[s] \in Seq(Bytes(s)) /\ ~Open(captured'[s])
  BY <1>1, <1>2, FramedAtEnd
<1>7. captured'[s] \o scan'[s] = captured'[s]
  BY <1>1, <1>6, ConcatEmptySeq
<1>8. StreamType(s)'
  <2>1. pipe'[s] \in Seq(Bytes(s)) /\ Len(pipe'[s]) <= PipeSize
    BY <1>1, PipeShrinks
  <2>2. scan'[s] \in Seq({s, "cr"}) /\ Len(scan'[s]) <= MaxLine
    BY <1>1, EmptySeq, OutputAssumption
  <2> QED BY <1>1, <1>6, <2>1, <2>2 DEF StreamType
<1>9. TakenInv(s)'
  BY <1>1, <1>5, <1>6, <1>7 DEF TakenInv
<1>10. StreamInv(s)'
  BY <1>1, <1>6, <1>8, <1>9 DEF StreamInv, EndedInv, Open
<1>11. ASSUME NEW r \in Streams, r # s PROVE StreamInv(r)'
  <2>1. /\ pipe'[r] = pipe[r] /\ scan'[r] = scan[r] /\ captured'[r] = captured[r]
        /\ alive' = alive /\ wrote' = wrote /\ reader' = reader /\ StreamInv(r)
    BY <1>11 DEF OutputInv, CommandInv, ReadsLine, Passes, cmdVars
  <2> QED BY <2>1, SameStream
<1> QED BY <1>3, <1>10, <1>11 DEF OutputInv

\* At end of file the pipe is empty: what was taken is the stream, and an open last
\* line is framed before the reader ends.
LEMMA ReadsEOFOutput ==
  ASSUME OutputInv, NEW s \in Streams, ReadsEOF(s)
  PROVE  OutputInv'
<1>1. /\ pipe[s] = <<>> /\ ~alive /\ reader[s] = "scanning"
      /\ pipe' = pipe /\ scan'[s] = <<>> /\ reader'[s] = "ended"
      /\ alive' = alive /\ wrote' = wrote
      /\ StreamType(s) /\ ~Open(captured[s]) /\ TakenInv(s)
  BY DEF OutputInv, CommandInv, StreamInv, ReadsEOF, cmdVars
<1>2. /\ captured[s] \in Seq(Bytes(s)) /\ scan[s] \in Seq({s, "cr"})
      /\ wrote[s] \in Seq(Bytes(s))
  BY <1>1 DEF StreamType
<1>3. /\ captured'[s] = IF scan[s] = <<>> THEN captured[s]
                        ELSE captured[s] \o Framed(scan[s])
      /\ output' = IF scan[s] = <<>> THEN output ELSE Write(output, Framed(scan[s]))
      /\ DOMAIN captured' = Streams
      /\ \A r \in Streams : r # s => captured'[r] = captured[r]
  BY DEF OutputInv, CommandInv, ReadsEOF, Passes
<1>4. CommandInv' /\ Buffer(output)'
  <2>1. CommandInv'
    BY <1>3 DEF OutputInv, CommandInv, ReadsEOF, cmdVars
  <2>2. Buffer(output')
    BY <1>2, <1>3, FramedIsBytes, WriteIsLogged DEF OutputInv
  <2> QED BY <2>1, <2>2 DEF Buffer
<1>5. captured'[s] = Lined(wrote[s])
  <2>1. PICK taken \in Seq(Bytes(s)) :
          /\ wrote[s] = taken \o pipe[s]
          /\ ExtendFold!Fold(<<>>, taken) = captured[s] \o scan[s]
          /\ Open(taken) <=> scan[s] # <<>>
    BY <1>1 DEF TakenInv
  <2>2. wrote[s] = taken
    BY <1>1, <2>1, ConcatEmptySeq
  <2> DEFINE c == captured[s]
             line == scan[s]
  <2>3. /\ c \in Seq(Bytes(s)) /\ ~Open(c) /\ line \in Seq({s, "cr"})
        /\ ExtendFold!Fold(<<>>, taken) = c \o line
        /\ Open(taken) <=> line # <<>>
    BY <1>1, <1>2, <2>1
  <2> HIDE DEF c, line
  <2>4. Lined(taken) = IF line = <<>> THEN c ELSE c \o Framed(line)
    BY <2>3, LastLine
  <2> QED BY <1>3, <2>2, <2>4 DEF c, line
<1>6. captured'[s] \in Seq(Bytes(s)) /\ ~Open(captured'[s])
  BY <1>1, <1>2, <1>3, FramedAtEnd
<1>7. StreamInv(s)'
  <2>1. scan'[s] \in Seq({s, "cr"}) /\ Len(scan'[s]) <= MaxLine
    BY <1>1, EmptySeq, OutputAssumption
  <2>2. StreamType(s)'
    BY <1>1, <1>6, <2>1 DEF StreamType
  <2> QED BY <1>1, <1>5, <1>6, <2>2 DEF StreamInv, TakenInv, EndedInv, Open
<1>8. ASSUME NEW r \in Streams, r # s PROVE StreamInv(r)'
  <2>1. /\ scan'[r] = scan[r] /\ reader'[r] = reader[r] /\ captured'[r] = captured[r]
        /\ pipe' = pipe /\ alive' = alive /\ wrote' = wrote /\ StreamInv(r)
    BY <1>3, <1>8 DEF OutputInv, CommandInv, ReadsEOF, cmdVars
  <2> QED BY <2>1, SameStream
<1> QED BY <1>4, <1>7, <1>8 DEF OutputInv

\* A reader that gives up promises nothing of its stream any more.
LEMMA GivesUpOutput ==
  ASSUME OutputInv, NEW s \in Streams, GivesUp(s)
  PROVE  OutputInv'
<1>1. CommandInv' /\ Buffer(output)'
  BY DEF OutputInv, CommandInv, GivesUp, cmdVars, Buffer
<1>2. StreamInv(s)'
  BY DEF OutputInv, CommandInv, StreamInv, StreamType, TakenInv, EndedInv, Open,
         GivesUp, cmdVars
<1>3. ASSUME NEW r \in Streams, r # s PROVE StreamInv(r)'
  <2>1. /\ reader'[r] = reader[r] /\ pipe' = pipe /\ scan' = scan /\ alive' = alive
        /\ wrote' = wrote /\ captured' = captured /\ StreamInv(r)
    BY <1>3 DEF OutputInv, CommandInv, GivesUp, cmdVars
  <2> QED BY <2>1, SameStream
<1> QED BY <1>1, <1>2, <1>3 DEF OutputInv

\* The end of the command touches neither pipes nor readers.
LEMMA SameStreams ==
  ASSUME OutputInv, CommandEnds \/ UNCHANGED vars
  PROVE  OutputInv'
<1>1. /\ budget' = budget /\ pipe' = pipe /\ scan' = scan /\ reader' = reader
      /\ output' = output /\ wrote' = wrote /\ captured' = captured
      /\ alive' = FALSE \/ alive' = alive
  BY DEF CommandEnds, vars, cmdVars
<1>2. CommandInv' /\ Buffer(output)'
  BY <1>1 DEF OutputInv, CommandInv, Buffer
<1>3. ASSUME NEW s \in Streams PROVE StreamInv(s)'
  BY <1>1, SameStream DEF OutputInv
<1> QED BY <1>2, <1>3 DEF OutputInv

\* The invariant: it holds at the start, and each of the six steps keeps it.
THEOREM OutputInvariant == Spec => []OutputInv
<1>1. OutputInv /\ [Next]_vars => OutputInv'
  <2> SUFFICES ASSUME OutputInv, [Next]_vars PROVE OutputInv'
    OBVIOUS
  <2>1. CASE CommandEnds \/ UNCHANGED vars
    BY <2>1, SameStreams
  <2>2. ASSUME NEW s \in Streams, streamOutput(s) PROVE OutputInv'
    BY <2>2, ReadsTextOutput, ReadsLineOutput, ReadsEOFOutput, GivesUpOutput DEF streamOutput
  <2>3. ASSUME NEW s \in Streams, NEW b \in Bytes(s), CommandWrites(s, b) PROVE OutputInv'
    BY <2>3, CommandWritesOutput
  <2> QED BY <2>1, <2>2, <2>3 DEF Next
<1> QED BY <1>1, InitOutput, PTL DEF Spec

-----------------------------------------------------------------------------
(* The properties.                                                          *)

\* Output.TypeOK, from the invariant: pipes and lines within their bounds, the indices
\* of the buffer within the array, and Len the length of what String returns.
THEOREM TypeCorrect == Spec => []TypeOK
<1>1. OutputInv => TypeOK
  <2> SUFFICES ASSUME OutputInv PROVE TypeOK
    OBVIOUS
  <2>1. ASSUME NEW s \in Streams
        PROVE  /\ pipe[s] \in BoundedSeq(Bytes(s), PipeSize)
               /\ scan[s] \in BoundedSeq({s, "cr"}, MaxLine)
               /\ reader[s] \in {"scanning", "ended", "gaveUp"}
    <3>1. StreamType(s) /\ reader[s] \in {"scanning", "ended", "gaveUp"}
      BY DEF OutputInv, CommandInv, StreamInv
    <3> QED BY <3>1, ShortSeq, OutputAssumption DEF StreamType
  <2>2. Buffer(output)
    BY DEF OutputInv
  <2>3. Length(output) = Len(Contents(output))
    BY <2>2, BufferIsTyped
  <2>4. IF Size = 0 THEN output = NewRingBuffer
        ELSE output.start \in 0..(Size - 1) /\ output.end \in 0..(Size - 1)
    BY <2>2, BufferIsTyped
  <2>5. alive \in BOOLEAN /\ budget \in 0..MaxBytes
    BY DEF OutputInv, CommandInv
  <2> QED BY <2>1, <2>3, <2>4, <2>5 DEF TypeOK
<1> QED BY <1>1, OutputInvariant, PTL

\* Whatever a command writes, in whatever order its streams are read: a stream whose
\* reader reached end of file has arrived in full, line by line (service.go:347-374).
THEOREM NothingLostCorrect == Spec => []NothingLost
<1>1. OutputInv => NothingLost
  BY DEF OutputInv, StreamInv, EndedInv, NothingLost
<1> QED BY <1>1, OutputInvariant, PTL

\* Output implements OutputLog: what String returns is at any time the last Size bytes
\* of the framed lines passed on, and each step adds one whole line or nothing.
THEOREM OutputImplementsLog == Spec => KeepsTheTail
<1>1. Init => Log!Init
  BY NewIsEmpty DEF Init, Log!Init
<1>2. OutputInv /\ [Next]_vars => [Log!Line]_(Contents(output))
  <2> SUFFICES ASSUME OutputInv, [Next]_vars
               PROVE  Log!Line \/ Contents(output)' = Contents(output)
    OBVIOUS
  <2>1. ASSUME NEW s \in Streams, Passes(s, scan[s]) PROVE Log!Line
    <3>1. scan[s] \in Seq({s, "cr"}) /\ Len(scan[s]) <= MaxLine /\ Buffer(output)
      BY DEF OutputInv, StreamInv, StreamType
    <3>2. Framed(scan[s]) \in AllLines
      <4>1. scan[s] \in BoundedSeq({s, "cr"}, MaxLine)
        BY <3>1, ShortSeq, OutputAssumption
      <4>2. Framed(scan[s]) \in {Framed(l) : l \in BoundedSeq({s, "cr"}, MaxLine)}
        BY <4>1
      <4> QED BY <4>2 DEF AllLines
    <3>3. Contents(output') = Log!Clip(Contents(output) \o Framed(scan[s]))
      BY <2>1, <3>1, FramedIsBytes, WriteIsLogged DEF Passes
    <3> QED BY <3>2, <3>3 DEF Log!Line
  <2>2. ASSUME NEW s \in Streams, ReadsLine(s) \/ ReadsEOF(s)
        PROVE  Log!Line \/ Contents(output)' = Contents(output)
    <3>1. Passes(s, scan[s]) \/ output' = output
      BY <2>2 DEF ReadsLine, ReadsEOF
    <3> QED BY <2>1, <3>1
  <2>3. ASSUME NEW s \in Streams, NEW b \in Bytes(s),
               CommandWrites(s, b) \/ ReadsText(s) \/ GivesUp(s)
        PROVE  output' = output
    BY <2>3 DEF CommandWrites, ReadsText, GivesUp
  <2>4. CASE CommandEnds \/ UNCHANGED vars
    BY <2>4 DEF CommandEnds, vars
  <2>5. ASSUME NEW s \in Streams, ReadsText(s) \/ GivesUp(s) PROVE output' = output
    BY <2>5 DEF ReadsText, GivesUp
  <2> QED BY <2>2, <2>3, <2>4, <2>5 DEF Next, streamOutput
<1> QED BY <1>1, <1>2, OutputInvariant, PTL DEF Spec, KeepsTheTail, Log!Spec
=============================================================================
