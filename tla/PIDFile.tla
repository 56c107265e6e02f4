------------------------------ MODULE PIDFile -------------------------------
(***************************************************************************)
(* Acquire and Release of the PID file, system call by system call: read,   *)
(* kill(pid, 0), remove, open, write.  p.mu and the mutex of the Daemon      *)
(* order the calls of one process only.  This module gives the steps; where *)
(* an instance goes on afterwards is pc, which the Daemon shares.           *)
(***************************************************************************)
EXTENDS Host

VARIABLES
  pc,               \* what each instance and each client does next
  saw               \* what it has read of a file

agentVars == <<pc, saw>>

Goes(a, to) == pc' = [pc EXCEPT ![a] = to]
Reads(a, f) == ReadFile(a, f) /\ saw' = [saw EXCEPT ![a] = file[f]]
Forgets(a) == saw' = [saw EXCEPT ![a] = None]
Ends(a) == Goes(a, "idle") /\ Forgets(a)

\* What a makes of the content of a file: nobody has the pid, or a may not signal
\* who has it, or strconv.Atoi of an empty file fails.
Stale(a, content) == ~Signals(a, content)

AcquireReads(i) ==
  /\ pc[i] = "idle"
  /\ IF file["pid"] = Absent
     THEN Goes(i, "create") /\ UNCHANGED <<fileVars, saw>>
     ELSE Goes(i, "check") /\ Reads(i, "pid")
  /\ UNCHANGED processVars

\* "another instance is running": the pid may also be one that was handed out
\* again, to a stranger or to this very process.
AcquireRefused(i) ==
  /\ pc[i] = "check" /\ ~Stale(i, saw[i]) /\ Ends(i) /\ Drops(i)

AcquireFindsStale(i) ==
  /\ pc[i] = "check" /\ Stale(i, saw[i]) /\ Goes(i, "remove") /\ Forgets(i)
  /\ UNCHANGED hostVars

\* Whatever the file holds by now is removed; if it is gone, or stays, Acquire fails.
AcquireRemoves(i) ==
  /\ pc[i] = "remove"
  /\ \/ Remove("pid") /\ Goes(i, IF file["pid"] = Absent THEN "idle" ELSE "create")
     \/ RemoveErrs(i, "pid") /\ Goes(i, "idle")
  /\ UNCHANGED <<saw, processVars>>

AcquireOpens(i) ==
  /\ pc[i] = "create" /\ WriteOpens(i, "pid") /\ Goes(i, "fill")
  /\ UNCHANGED <<saw, processVars>>

AcquireWrites(i) ==
  /\ pc[i] = "fill" /\ WriteFills(i, "pid") /\ Goes(i, "listen")
  /\ UNCHANGED <<saw, processVars>>

\* MkdirAll or the open fails, or the write does.
AcquireFails(i) ==
  \/ pc[i] = "create" /\ Ends(i) /\ UNCHANGED hostVars
  \/ /\ pc[i] = "fill" /\ WriteErrs(i, "pid") /\ Ends(i)
     /\ UNCHANGED processVars

\* Release does not read the file: it removes the one that is there, or fails to.
Release(i) == Unlink(i, "pid")
=============================================================================
