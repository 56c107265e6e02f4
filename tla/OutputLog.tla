------------------------------ MODULE OutputLog -----------------------------
(***************************************************************************)
(* What the capture of a command's output promises: the last Size bytes of  *)
(* the lines of both streams, a line at a time, each in one piece.          *)
(***************************************************************************)
EXTENDS Integers, Sequences

CONSTANTS Size, Lines       \* capacity, and the lines a command may write
VARIABLE kept

Clip(s) == IF Len(s) > Size THEN SubSeq(s, Len(s) - Size + 1, Len(s)) ELSE s

Init == kept = <<>>
Line == \E line \in Lines : kept' = Clip(kept \o line)
Spec == Init /\ [][Line]_kept
=============================================================================
