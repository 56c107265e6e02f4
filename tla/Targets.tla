------------------------------- MODULE Targets ------------------------------
(***************************************************************************)
(* Commands addressed by process id: KillPID and the handlers in front of   *)
(* it.  A record keeps the pid of its command for as long as it is in       *)
(* s.processes, the system hands the pid out again as soon as cmd.Wait has   *)
(* reaped the command.                                                      *)
(***************************************************************************)
EXTENDS Integers, FiniteSets

CONSTANTS
  Ids,              \* records
  Callers,
  Pids,
  Stranger, None

VARIABLES
  holder,           \* who has the pid: a record's command, Stranger, or None
  alive,            \* commands that run; a dead one holds its pid until reaped
  pid, status,      \* of a record
  table,            \* s.processes
  pc, on, found,    \* callers: the pid they were given, the record they found
  want              \* ghost: who had the pid when the call began

hostVars == <<holder, alive>>
recVars == <<pid, status, table>>
callVars == <<pc, on, found, want>>
vars == <<hostVars, recVars, callVars>>

TypeOK ==
  /\ holder \in [Pids -> Ids \cup {Stranger, None}] /\ alive \subseteq Ids
  /\ pid \in [Ids -> Pids \cup {None}]
  /\ status \in [Ids -> {"pending", "running", "final"}] /\ table \subseteq Ids
  /\ pc \in [Callers -> {"idle", "kill", "ok", "failed"}]
  /\ on \in [Callers -> Pids \cup {None}] /\ found \in [Callers -> Ids \cup {None}]
  /\ want \in [Callers -> Ids \cup {Stranger, None}]

Init ==
  /\ holder = [p \in Pids |-> None] /\ alive = {}
  /\ pid = [id \in Ids |-> None] /\ status = [id \in Ids |-> "pending"]
  /\ table = {}
  /\ pc = [c \in Callers |-> "idle"] /\ on = [c \in Callers |-> None]
  /\ found = [c \in Callers |-> None] /\ want = [c \in Callers |-> None]

-----------------------------------------------------------------------------
(* Commands and strangers.                                                  *)

Start(id, p) ==
  /\ status[id] = "pending" /\ holder[p] = None
  /\ holder' = [holder EXCEPT ![p] = id] /\ alive' = alive \cup {id}
  /\ pid' = [pid EXCEPT ![id] = p] /\ status' = [status EXCEPT ![id] = "running"]
  /\ table' = table \cup {id}
  /\ UNCHANGED callVars

Exits(id) ==
  /\ id \in alive /\ alive' = alive \ {id}
  /\ UNCHANGED <<holder, recVars, callVars>>

WaiterReaps(id) ==
  /\ status[id] = "running" /\ id \notin alive /\ holder[pid[id]] = id
  /\ holder' = [holder EXCEPT ![pid[id]] = None]
  /\ UNCHANGED <<alive, recVars, callVars>>

WaiterStores(id) ==
  /\ status[id] = "running" /\ holder[pid[id]] # id
  /\ status' = [status EXCEPT ![id] = "final"]
  /\ UNCHANGED <<hostVars, pid, table, callVars>>

\* Remove, and Clear for this record.
Remove(id) ==
  /\ id \in table /\ status[id] = "final" /\ table' = table \ {id}
  /\ UNCHANGED <<hostVars, pid, status, callVars>>

Strangers(p) ==
  /\ \/ holder[p] = None /\ holder' = [holder EXCEPT ![p] = Stranger]
     \/ holder[p] = Stranger /\ holder' = [holder EXCEPT ![p] = None]
  /\ UNCHANGED <<alive, recVars, callVars>>

-----------------------------------------------------------------------------
(* KillPID.                                                                 *)

Matches(p) == {id \in table : pid[id] = p}

\* killProcessByTarget and handleKill try an id first; what follows does not
\* look at the pid any more.
FindsID(c, id) ==
  /\ pc[c] = "idle" /\ id \in table
  /\ found' = [found EXCEPT ![c] = id] /\ pc' = [pc EXCEPT ![c] = "kill"]
  /\ UNCHANGED <<hostVars, recVars, on, want>>

\* The map is walked in any order.
FindsRecord(c, p) ==
  /\ pc[c] = "idle"
  /\ \E id \in Matches(p) : found' = [found EXCEPT ![c] = id]
  /\ pc' = [pc EXCEPT ![c] = "kill"] /\ on' = [on EXCEPT ![c] = p]
  /\ want' = [want EXCEPT ![c] = holder[p]]
  /\ UNCHANGED <<hostVars, recVars>>

\* kill(2) on the bare number.
SignalsNumber(c, p) ==
  /\ pc[c] = "idle" /\ Matches(p) = {}
  /\ pc' = [pc EXCEPT ![c] = IF holder[p] = None THEN "failed" ELSE "ok"]
  /\ alive' = alive \ {holder[p]}
  /\ holder' = [holder EXCEPT ![p] = IF @ = Stranger THEN None ELSE @]
  /\ on' = [on EXCEPT ![c] = p] /\ want' = [want EXCEPT ![c] = holder[p]]
  /\ UNCHANGED <<recVars, found>>

\* proc.kill through os.Process, which knows when its command has been reaped.
KillsRecord(c) ==
  LET id == found[c] IN
  /\ pc[c] = "kill" /\ status[id] = "running"
  /\ alive' = alive \ {id}
  /\ pc' = [pc EXCEPT ![c] = IF holder[pid[id]] = id THEN "ok" ELSE "failed"]
  /\ UNCHANGED <<holder, recVars, on, found, want>>

FindsFinished(c) ==
  /\ pc[c] = "kill" /\ status[found[c]] = "final"
  /\ pc' = [pc EXCEPT ![c] = "ok"]
  /\ UNCHANGED <<hostVars, recVars, on, found, want>>

Returns(c) ==
  /\ pc[c] \in {"ok", "failed"} /\ pc' = [pc EXCEPT ![c] = "idle"]
  /\ on' = [on EXCEPT ![c] = None] /\ found' = [found EXCEPT ![c] = None]
  /\ want' = [want EXCEPT ![c] = None]
  /\ UNCHANGED <<hostVars, recVars>>

Next ==
  \/ \E id \in Ids : \/ \E p \in Pids : Start(id, p)
                     \/ Exits(id) \/ WaiterReaps(id) \/ WaiterStores(id)
                     \/ Remove(id)
  \/ \E p \in Pids : Strangers(p)
  \/ \E c \in Callers : \/ \E id \in Ids : FindsID(c, id)
                        \/ \E p \in Pids : FindsRecord(c, p) \/ SignalsNumber(c, p)
                        \/ KillsRecord(c) \/ FindsFinished(c) \/ Returns(c)

Spec == Init /\ [][Next]_vars

-----------------------------------------------------------------------------

\* service.go:451: "KillPID terminates a process by operating-system PID".  When
\* it answers without an error, the managed command that had the pid is not
\* running under it any more.
KillPIDTerminates ==
  \A c \in Callers :
    pc[c] = "ok" /\ want[c] \in Ids => want[c] \notin alive
=============================================================================
