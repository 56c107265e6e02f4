----------------------------- MODULE RingBuffer -----------------------------
(***************************************************************************)
(* The ring buffer as a value: an array with two indices and a flag, because *)
(* start = end says both "empty" and "full".  rb.mu makes every method one   *)
(* step, so the methods are operators.                                       *)
(***************************************************************************)
EXTENDS Integers, Sequences, FiniteSets, SequencesExt

CONSTANTS Size, Zero        \* capacity, and what a fresh cell holds
ASSUME SizeAssumption == Size \in Nat

NewRingBuffer ==
  [data |-> [k \in 0..(Size - 1) |-> Zero], start |-> 0, end |-> 0, full |-> FALSE]

\* One turn of the loop of Write.
PutForgetsStart(rb, b) ==
  LET end == (rb.end + 1) % Size
  IN [rb EXCEPT !.data[rb.end] = b, !.end = end,
                !.full = rb.full \/ end = rb.start]
Put(rb, b) ==
  LET end == (rb.end + 1) % Size
      start == IF rb.full THEN (rb.start + 1) % Size ELSE rb.start
  IN [data |-> [rb.data EXCEPT ![rb.end] = b], start |-> start, end |-> end,
      full |-> rb.full \/ end = start]

Write(rb, p) == IF Size = 0 THEN rb ELSE FoldLeft(Put, rb, p)

Slice(rb, from, to) == [k \in 1..(to - from) |-> rb.data[from + k - 1]]

\* String and Bytes: of a full buffer, what lies behind start and what lies
\* before end.
Contents(rb) ==
  IF rb.full
  THEN Slice(rb, rb.start, Size) \o Slice(rb, 0, rb.end)
  ELSE Slice(rb, rb.start, rb.end)

LengthForgetsFull(rb) ==
  IF rb.end >= rb.start THEN rb.end - rb.start ELSE Size - rb.start + rb.end
Length(rb) ==
  IF rb.full THEN Size
  ELSE IF rb.end >= rb.start THEN rb.end - rb.start
  ELSE Size - rb.start + rb.end
=============================================================================
