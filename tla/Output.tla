-------------------------------- MODULE Output ------------------------------
(***************************************************************************)
(* A command's stdout and stderr, byte by byte: two pipes of bounded size,  *)
(* a bufio.Scanner on each that reads lines of bounded length, and one ring  *)
(* buffer that both readers write their lines to.                           *)
(***************************************************************************)
EXTENDS RingBuffer

CONSTANTS
  Streams,          \* stdout, stderr; a stream is also the text it carries
  PipeSize,         \* capacity of a pipe
  MaxLine,          \* bufio.MaxScanTokenSize: 64 KiB in the code
  MaxBytes          \* bound: bytes the command writes to both streams

ASSUME OutputAssumption ==
  /\ {"nl", "cr", Zero} \cap Streams = {}
  /\ PipeSize \in Nat \ {0} /\ MaxLine \in Nat \ {0} /\ MaxBytes \in Nat

VARIABLES
  alive, budget,    \* the command, and the bytes it may still write
  pipe, scan,       \* bytes in each pipe, bytes of the scanner's current line
  reader,           \* "scanning", "ended" at end of file, or "gaveUp"
  output,           \* proc.output
  wrote, captured   \* ghosts: all that was written to a stream, and the lines
                    \* that its reader has passed on

cmdVars == <<alive, budget>>
vars == <<cmdVars, pipe, scan, reader, output, wrote, captured>>

Bytes(s) == {s, "cr", "nl"}

TypeOK ==
  /\ alive \in BOOLEAN /\ budget \in 0..MaxBytes
  /\ \A s \in Streams :
       /\ pipe[s] \in BoundedSeq(Bytes(s), PipeSize)
       /\ scan[s] \in BoundedSeq({s, "cr"}, MaxLine)
       /\ reader[s] \in {"scanning", "ended", "gaveUp"}
  /\ IF Size = 0 THEN output = NewRingBuffer
     ELSE output.start \in 0..(Size - 1) /\ output.end \in 0..(Size - 1)
  /\ Length(output) = Len(Contents(output))

Init ==
  /\ alive = TRUE /\ budget = MaxBytes
  /\ pipe = [s \in Streams |-> <<>>] /\ scan = [s \in Streams |-> <<>>]
  /\ reader = [s \in Streams |-> "scanning"]
  /\ output = NewRingBuffer
  /\ wrote = [s \in Streams |-> <<>>] /\ captured = [s \in Streams |-> <<>>]

-----------------------------------------------------------------------------
(* The command.                                                             *)

CommandWrites(s, b) ==
  /\ alive /\ budget > 0 /\ Len(pipe[s]) < PipeSize
  /\ budget' = budget - 1
  /\ pipe' = [pipe EXCEPT ![s] = Append(@, b)]
  /\ wrote' = [wrote EXCEPT ![s] = Append(@, b)]
  /\ UNCHANGED <<alive, scan, reader, output, captured>>

\* Exit, or death by a signal; it has no descendants that keep the pipes open.
CommandEnds ==
  /\ alive /\ alive' = FALSE
  /\ UNCHANGED <<budget, pipe, scan, reader, output, wrote, captured>>

-----------------------------------------------------------------------------
(* The readers.                                                             *)

\* bufio.ScanLines takes one carriage return off the end of a line.
dropCR(line) ==
  IF line # <<>> /\ line[Len(line)] = "cr" THEN SubSeq(line, 1, Len(line) - 1)
  ELSE line

\* What proc.output.Write is given for a line.
Framed(line) == Append(dropCR(line), "nl")

Passes(s, line) ==
  /\ output' = Write(output, Framed(line))
  /\ captured' = [captured EXCEPT ![s] = @ \o Framed(line)]

ReadsText(s) ==
  /\ reader[s] = "scanning" /\ Len(scan[s]) < MaxLine
  /\ pipe[s] # <<>> /\ Head(pipe[s]) # "nl"
  /\ scan' = [scan EXCEPT ![s] = Append(@, Head(pipe[s]))]
  /\ pipe' = [pipe EXCEPT ![s] = Tail(@)]
  /\ UNCHANGED <<cmdVars, reader, output, wrote, captured>>

ReadsLineStopsOnEmpty(s) ==
  /\ reader[s] = "scanning" /\ Len(scan[s]) < MaxLine
  /\ pipe[s] # <<>> /\ Head(pipe[s]) = "nl"
  /\ Passes(s, scan[s]) /\ scan' = [scan EXCEPT ![s] = <<>>]
  /\ pipe' = [pipe EXCEPT ![s] = Tail(@)]
  /\ reader' = [reader EXCEPT ![s] = IF scan[s] = <<>> THEN "ended" ELSE @]
  /\ UNCHANGED <<cmdVars, wrote>>
ReadsLine(s) ==
  /\ reader[s] = "scanning" /\ Len(scan[s]) < MaxLine
  /\ pipe[s] # <<>> /\ Head(pipe[s]) = "nl"
  /\ Passes(s, scan[s]) /\ scan' = [scan EXCEPT ![s] = <<>>]
  /\ pipe' = [pipe EXCEPT ![s] = Tail(@)]
  /\ UNCHANGED <<cmdVars, reader, wrote>>

LosesLastLine(s) ==
  /\ reader[s] = "scanning" /\ Len(scan[s]) < MaxLine
  /\ pipe[s] = <<>> /\ ~alive
  /\ reader' = [reader EXCEPT ![s] = "ended"]
  /\ scan' = [scan EXCEPT ![s] = <<>>]
  /\ UNCHANGED <<cmdVars, pipe, output, wrote, captured>>
\* End of file: a last line without newline is a line.
ReadsEOF(s) ==
  /\ reader[s] = "scanning" /\ Len(scan[s]) < MaxLine
  /\ pipe[s] = <<>> /\ ~alive
  /\ reader' = [reader EXCEPT ![s] = "ended"]
  /\ IF scan[s] = <<>> THEN UNCHANGED <<output, captured>> ELSE Passes(s, scan[s])
  /\ scan' = [scan EXCEPT ![s] = <<>>]
  /\ UNCHANGED <<cmdVars, pipe, wrote>>

\* bufio.ErrTooLong: Scan returns false, streamOutput returns, and nobody reads
\* the pipe any more (cmd.Wait closes it, when the command is dead).
GivesUp(s) ==
  /\ reader[s] = "scanning" /\ Len(scan[s]) = MaxLine
  /\ reader' = [reader EXCEPT ![s] = "gaveUp"]
  /\ UNCHANGED <<cmdVars, pipe, scan, output, wrote, captured>>

streamOutput(s) == ReadsText(s) \/ ReadsLine(s) \/ ReadsEOF(s) \/ GivesUp(s)

-----------------------------------------------------------------------------

Next ==
  \/ CommandEnds
  \/ \E s \in Streams :
       streamOutput(s) \/ \E b \in Bytes(s) : CommandWrites(s, b)

Spec == Init /\ [][Next]_vars
FairSpec == Spec /\ \A s \in Streams : WF_vars(streamOutput(s))

-----------------------------------------------------------------------------
(* Properties.                                                              *)

\* Whatever the two readers do, in whatever order: proc.output holds the last Size
\* bytes of the lines passed on, and a line of one stream never lands inside a
\* line of the other (buffer.go:33-71, service.go:357-362).
AllLines == UNION {{Framed(l) : l \in BoundedSeq({s, "cr"}, MaxLine)} : s \in Streams}
Log == INSTANCE OutputLog WITH Lines <- AllLines, kept <- Contents(output)
KeepsTheTail == Log!Spec

\* What a command wrote, as the lines that a reader should pass on: every line, and
\* an open last one, framed.
Extend(text, b) == IF b = "nl" THEN Framed(text) ELSE Append(text, b)
Lined(bytes) ==
  LET open == bytes # <<>> /\ bytes[Len(bytes)] # "nl"
  IN FoldLeft(Extend, <<>>, IF open THEN Append(bytes, "nl") ELSE bytes)

\* Nothing that the command wrote is lost on the way to the buffer, except a
\* carriage return at the end of a line and what follows a line that is too long:
\* the lines that were passed on, the current line and the pipe make up the
\* stream, also when the command dies with unread output and an open last line.
NothingLost ==
  \A s \in Streams : reader[s] = "ended" => captured[s] = Lined(wrote[s])

\* A command is kept from writing for ever only by a reader that gave up on a line
\* that was too long, and when the command is dead both readers end: the waiter,
\* which waits for them before it waits for the command, gets on.
StuckOnlyBehindLongLine ==
  \A s \in Streams :
    /\ (Len(pipe[s]) = PipeSize) ~> (Len(pipe[s]) < PipeSize \/ reader[s] = "gaveUp")
    /\ ~alive ~> (reader[s] # "scanning")
=============================================================================
