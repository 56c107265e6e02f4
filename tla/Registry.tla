------------------------------ MODULE Registry ------------------------------
(***************************************************************************)
(* The entry of one daemon name in the registry directory.  Register and    *)
(* Unregister run in the daemon; Get and List run in any process, read the  *)
(* file, ask whether its pid is alive, and remove it when it is not.        *)
(***************************************************************************)
EXTENDS PIDFile

RegisterOpens(i) ==
  /\ pc[i] = "register" /\ WriteOpens(i, "entry") /\ Goes(i, "record")
  /\ UNCHANGED <<saw, processVars>>

RegisterWrites(i) ==
  /\ pc[i] = "record" /\ WriteFills(i, "entry") /\ Goes(i, "up")
  /\ UNCHANGED <<saw, processVars>>

RegisterFails(i) ==
  \/ pc[i] = "register" /\ Goes(i, "stopHealth") /\ UNCHANGED <<hostVars, saw>>
  \/ /\ pc[i] = "record" /\ WriteErrs(i, "entry") /\ Goes(i, "stopHealth")
     /\ UNCHANGED <<saw, processVars>>

\* By name, not by content.
Unregister(a) == Unlink(a, "entry")

-----------------------------------------------------------------------------
(* Get, and List for this entry.                                            *)

GetReads(c) ==
  /\ pc[c] = "idle" /\ file["entry"] # Absent
  /\ Reads(c, "entry") /\ Goes(c, "check")
  /\ UNCHANGED processVars

\* The entry is returned: to a caller that only reads it, such as healthCheck, which
\* probes the address in it and changes nothing, or to stopDaemon.
GetReturns(c) ==
  /\ pc[c] = "check" /\ ~Stale(c, saw[c])
  /\ \/ Ends(c) /\ Drops(c)
     \/ Goes(c, "term") /\ UNCHANGED <<saw, hostVars>>

GetTrustsNobody(c) ==
  /\ pc[c] = "check" /\ Goes(c, "prune") /\ Forgets(c)
  /\ UNCHANGED hostVars
GetFindsStale(c) ==
  /\ pc[c] = "check" /\ Stale(c, saw[c]) /\ Goes(c, "prune") /\ Forgets(c)
  /\ UNCHANGED hostVars

Prune(c) ==
  /\ pc[c] = "prune" /\ Unlink(c, "entry") /\ Goes(c, "idle") /\ saw' = saw
  /\ UNCHANGED processVars
=============================================================================
