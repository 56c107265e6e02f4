------------------------------- MODULE Service ------------------------------
(***************************************************************************)
(* The process table (service.go): StartWithOptions, the commands that act  *)
(* on a record (Kill, KillPID, Shutdown, Signal, SignalPID), Remove, Clear, *)
(* OnShutdown and the timeout watchdog.  Every caller and every watchdog is *)
(* an agent: a goroutine that takes one step per critical section or system *)
(* call, so any two of them interleave wherever the code lets them.         *)
(***************************************************************************)
EXTENDS ManagedProcess

CONSTANTS
  Callers,          \* goroutines that call the service
  Commands,         \* what they call: some of "kill", "shutdown", "signal"
  MaxRetries        \* re-sends of a group signal (5 in process.go)

ASSUME IdsAssumption == Ids # {}
ASSUME CallersAssumption == Callers \cap Ids = {}
ASSUME MaxRetriesAssumption == MaxRetries \in Nat

VARIABLES
  phase,            \* how far StartWithOptions is with the record
  table,            \* s.processes
  pc, on,           \* what an agent is doing, and to which record
  tries,            \* re-sends done by a group signal's retry goroutine
  shutdown,         \* OnShutdown: "idle", "killing", "done"
  procs, left,      \* its slice of victims, and those not reached yet
  born              \* history: commands that existed when it took the slice

svcVars == <<phase, table, pc, on, tries, shutdown, procs, left, born>>
vars == <<osVars, procVars, svcVars>>

Agents == Callers \cup Ids        \* agent id is the watchdog of record id

Phases == {"absent", "spawned", "stored", "ready", "rejected"}
AgentStates == {"idle", "watching", "kill", "notify", "announce",
                "terminate", "grace", "force", "signal", "retry"}

TypeOK ==
  /\ OSTypeOK /\ ProcTypeOK
  /\ phase \in [Ids -> Phases]
  /\ table \subseteq Ids
  /\ pc \in [Agents -> AgentStates]
  /\ on \in [Agents -> Ids]
  /\ tries \in [Agents -> 0..MaxRetries]
  /\ shutdown \in {"idle", "killing", "done"}
  /\ procs \subseteq Ids /\ left \subseteq procs /\ born \subseteq Ids

Init ==
  /\ OSInit /\ ProcInit
  /\ phase = [id \in Ids |-> "absent"]
  /\ table = {}
  /\ pc = [a \in Agents |-> "idle"]
  /\ on = [a \in Agents |-> IF a \in Ids THEN a ELSE CHOOSE id \in Ids : TRUE]
  /\ tries = [a \in Agents |-> 0]
  /\ shutdown = "idle" /\ procs = {} /\ left = {} /\ born = {}

-----------------------------------------------------------------------------
(* StartWithOptions.                                                        *)

StartStep(id, from, to) ==
  /\ phase[id] = from
  /\ phase' = [phase EXCEPT ![id] = to]
  /\ UNCHANGED <<on, tries, shutdown, procs, left, born, opts, killNotified,
                 waitErr, cancelled>>

\* cmd.Start succeeds; the record is running and watched, but not yet listed.
StartSucceeds(id) ==
  /\ StartStep(id, "absent", "spawned")
  /\ opts[id].killGroup => opts[id].detach
  /\ SpawnLeader(id)
  /\ status' = [status EXCEPT ![id] = "running"]
  /\ watcher' = [watcher EXCEPT ![id] = "waiting"]
  /\ UNCHANGED <<table, pc, exitCode, done, readers, waiter, sent>>

\* The record is listed, and then its timeout watchdog starts.
Store(id) ==
  /\ StartStep(id, "spawned", "stored")
  /\ table' = table \cup {id}
  /\ pc' = [pc EXCEPT ![id] = IF opts[id].timeout THEN "watching" ELSE "idle"]
  /\ UNCHANGED <<osVars, status, exitCode, done, readers, waiter, watcher, sent>>

\* ActionProcessStarted is broadcast, and then the goroutines are spawned.
AnnounceStart(id) ==
  /\ StartStep(id, "stored", "ready")
  /\ Broadcast(id, "started")
  /\ readers' = [readers EXCEPT ![id] = Streams]
  /\ waiter' = [waiter EXCEPT ![id] = "streams"]
  /\ UNCHANGED <<osVars, table, pc, status, exitCode, done, watcher>>

\* cmd.Start fails: the record is listed as failed, done is closed, and
\* ActionProcessExited is broadcast.
StartFails(id) ==
  /\ StartStep(id, "absent", "rejected")
  /\ opts[id].killGroup => opts[id].detach
  /\ status' = [status EXCEPT ![id] = "failed"]
  /\ exitCode' = [exitCode EXCEPT ![id] = -1]
  /\ table' = table \cup {id}
  /\ UNCHANGED <<osVars, pc, done, readers, waiter, watcher, sent>>

RejectCloses(id) ==
  /\ StartStep(id, "rejected", "rejected")
  /\ ~done[id]
  /\ done' = [done EXCEPT ![id] = TRUE]
  /\ UNCHANGED <<osVars, table, pc, status, exitCode, readers, waiter, watcher,
                 sent>>

RejectAnnounces(id) ==
  /\ StartStep(id, "rejected", "rejected")
  /\ done[id] /\ sent[id]["exited"] = 0
  /\ Broadcast(id, "exited")
  /\ UNCHANGED <<osVars, table, pc, status, exitCode, done, readers, waiter,
                 watcher>>

StartNext(id) ==
  \/ StartSucceeds(id) \/ Store(id) \/ AnnounceStart(id)
  \/ StartFails(id) \/ RejectCloses(id) \/ RejectAnnounces(id)

-----------------------------------------------------------------------------
(* Commands.  A caller finds the record in the table; what it holds from    *)
(* then on is the pointer, so Remove does not stop it.                      *)

Goto(a, from, to) == pc[a] = from /\ pc' = [pc EXCEPT ![a] = to]

unchangedButOS ==
  UNCHANGED <<procVars, phase, table, on, tries, shutdown, procs, left, born>>

Begin(c, id, to) ==
  /\ Goto(c, "idle", to)
  /\ on' = [on EXCEPT ![c] = id]
  /\ UNCHANGED <<osVars, procVars, phase, table, tries, shutdown, procs, left,
                 born>>

BeginKill(c, id) == "kill" \in Commands /\ id \in table /\ Begin(c, id, "kill")

BeginShutdown(c, id) ==
  /\ "shutdown" \in Commands
  /\ id \in table \/ phase[id] \in {"ready", "rejected"}
  /\ Begin(c, id, IF opts[id].grace THEN "terminate" ELSE "force")

\* Signal reads the status under the lock and sends after releasing it.
BeginSignal(c, id) ==
  /\ "signal" \in Commands
  /\ id \in table /\ IsRunning(id) /\ Begin(c, id, "signal")

\* Service.Kill's call of kill(), and Process.Kill from Shutdown.
KillMarks(a) ==
  LET id == on[a] IN
  /\ IsRunning(id) /\ Goto(a, "kill", "notify") /\ Kill(id)
  /\ status' = [status EXCEPT ![id] = "killed"]
  /\ UNCHANGED <<opts, exitCode, done, killNotified, readers, waiter, waitErr,
                 watcher, cancelled, sent, phase, table, on, tries, shutdown,
                 procs, left, born>>
KillSends(a) ==
  LET id == on[a] IN
  /\ IsRunning(id)
  /\ \/ Goto(a, "kill", IF Reaches(id) THEN "notify" ELSE "idle")
     \/ Goto(a, "force", "idle")
  /\ Kill(id) /\ unchangedButOS

KillFindsFinished(a) ==
  /\ ~IsRunning(on[a])
  /\ Goto(a, "kill", "idle") \/ Goto(a, "force", "idle")
  /\ UNCHANGED osVars /\ unchangedButOS

Notify(a) ==
  LET id == on[a] IN
  /\ \/ Goto(a, "notify", "announce") /\ ClaimKilled(id)
     \/ Goto(a, "notify", "idle") /\ killNotified[id] /\ UNCHANGED killNotified
  /\ UNCHANGED <<osVars, opts, status, exitCode, done, readers, waiter, waitErr,
                 watcher, cancelled, sent, phase, table, on, tries, shutdown,
                 procs, left, born>>

AnnounceKilled(a) ==
  /\ Goto(a, "announce", "idle")
  /\ Broadcast(on[a], "killed")
  /\ UNCHANGED <<osVars, opts, status, exitCode, done, killNotified, readers,
                 waiter, waitErr, watcher, cancelled, phase, table, on, tries,
                 shutdown, procs, left, born>>

-----------------------------------------------------------------------------
(* Shutdown: SIGTERM, the grace period, then Kill.                          *)

TerminateSends(a) ==
  LET id == on[a] IN
  /\ IsRunning(id)
  /\ Goto(a, "terminate", IF Reaches(id) THEN "grace" ELSE "force")
  /\ Terminate(id) /\ unchangedButOS

TerminateFindsFinished(a) ==
  /\ ~IsRunning(on[a])
  /\ Goto(a, "terminate", "grace")
  /\ UNCHANGED osVars /\ unchangedButOS

GraceForgotten(a) ==
  Goto(a, "grace", "idle") /\ UNCHANGED osVars /\ unchangedButOS
GraceExpires(a) ==
  Goto(a, "grace", "force") /\ UNCHANGED osVars /\ unchangedButOS

SeesDone(a) ==
  /\ done[on[a]]
  /\ Goto(a, "grace", "idle") \/ Goto(a, "watching", "idle")
  /\ UNCHANGED osVars /\ unchangedButOS

\* The timeout of record id elapses: its watchdog calls Shutdown.
TimeoutExpires(id) ==
  /\ Goto(id, "watching", IF opts[id].grace THEN "terminate" ELSE "force")
  /\ UNCHANGED osVars /\ unchangedButOS

-----------------------------------------------------------------------------
(* Signal: a group signal is re-sent MaxRetries times, then SIGKILL.        *)

SignalSends(a) ==
  LET id == on[a] IN
  /\ Goto(a, "signal", IF signalsGroup(id) /\ GroupExists(id)
                       THEN "retry" ELSE "idle")
  /\ Terminate(id)
  /\ tries' = [tries EXCEPT ![a] = 0]
  /\ UNCHANGED <<procVars, phase, table, on, shutdown, procs, left, born>>

RetryOnceMore(a) ==
  LET id == on[a] IN
  /\ tries[a] <= MaxRetries
  /\ tries' = [tries EXCEPT ![a] = @ + 1]
  /\ Goto(a, "retry", IF GroupExists(id) THEN "retry" ELSE "idle")
  /\ processSignalGroup(id)
  /\ UNCHANGED <<procVars, phase, table, on, shutdown, procs, left, born>>
Retry(a) ==
  LET id == on[a] IN
  /\ tries[a] < MaxRetries
  /\ tries' = [tries EXCEPT ![a] = @ + 1]
  /\ Goto(a, "retry", IF GroupExists(id) THEN "retry" ELSE "idle")
  /\ processSignalGroup(id)
  /\ UNCHANGED <<procVars, phase, table, on, shutdown, procs, left, born>>

RetriesExhausted(a) ==
  /\ tries[a] = MaxRetries /\ Goto(a, "retry", "idle")
  /\ UNCHANGED osVars /\ unchangedButOS
Escalate(a) ==
  /\ tries[a] = MaxRetries /\ ~done[on[a]]
  /\ Goto(a, "retry", "idle")
  /\ processKillGroup(on[a]) /\ unchangedButOS

RetryStops(a) ==
  /\ done[on[a]]
  /\ Goto(a, "retry", "idle")
  /\ UNCHANGED osVars /\ unchangedButOS

AgentNext(a) ==
  \/ KillSends(a) \/ KillFindsFinished(a) \/ Notify(a) \/ AnnounceKilled(a)
  \/ TerminateSends(a) \/ TerminateFindsFinished(a)
  \/ GraceExpires(a) \/ SeesDone(a)
  \/ SignalSends(a) \/ Retry(a) \/ Escalate(a) \/ RetryStops(a)

-----------------------------------------------------------------------------
(* The table, and OnShutdown.                                               *)

unchangedButTable == UNCHANGED <<osVars, procVars, phase, pc, on, tries>>

Remove(id) ==
  /\ id \in table /\ ~IsRunning(id)
  /\ table' = table \ {id}
  /\ unchangedButTable /\ UNCHANGED <<shutdown, procs, left, born>>

ClearAll ==
  /\ table' = {}
  /\ unchangedButTable /\ UNCHANGED <<shutdown, procs, left, born>>
Clear ==
  /\ table' = {id \in table : IsRunning(id)}
  /\ unchangedButTable /\ UNCHANGED <<shutdown, procs, left, born>>

\* The running records are collected under s.mu ...
ShutdownBegins ==
  /\ shutdown = "idle" /\ shutdown' = "killing"
  /\ procs' = {id \in table : IsRunning(id)} /\ left' = procs'
  /\ born' = {id \in Ids : leader[id] # "none"}
  /\ unchangedButTable /\ UNCHANGED table

\* ... and killTree is called on one after the other.
killLeaderOnly(id) ==
  /\ id \in left /\ left' = left \ {id}
  /\ IF IsRunning(id) THEN KillLeader(id) ELSE UNCHANGED osVars
  /\ UNCHANGED <<procVars, phase, table, pc, on, tries, shutdown, procs, born>>
ShutdownKills(id) ==
  /\ id \in left /\ left' = left \ {id}
  /\ IF IsRunning(id) THEN processKillGroup(id) ELSE UNCHANGED osVars
  /\ UNCHANGED <<procVars, phase, table, pc, on, tries, shutdown, procs, born>>

ShutdownEnds ==
  /\ shutdown = "killing" /\ left = {} /\ shutdown' = "done"
  /\ unchangedButTable /\ UNCHANGED <<table, procs, left, born>>

Next ==
  \/ \E id \in Ids : OSNext(id) /\ UNCHANGED <<procVars, svcVars>>
  \/ \E id \in Ids : StartNext(id) \/ TimeoutExpires(id) \/ Remove(id)
                     \/ ShutdownKills(id)
  \/ \E id \in Ids : ProcNext(id) /\ UNCHANGED svcVars
  \/ \E a \in Agents : AgentNext(a)
  \/ \E c \in Callers, id \in Ids :
       BeginKill(c, id) \/ BeginShutdown(c, id) \/ BeginSignal(c, id)
  \/ Clear \/ ShutdownBegins \/ ShutdownEnds

Spec == Init /\ [][Next]_vars

\* Go schedules every runnable goroutine, timers fire, and the kernel closes a
\* pipe without writers.  A command need not exit, nor read its signals.
Fairness ==
  /\ \A id \in Ids :
       /\ WF_vars(Store(id)) /\ WF_vars(AnnounceStart(id))
       /\ WF_vars(RejectCloses(id)) /\ WF_vars(RejectAnnounces(id))
       /\ \A s \in Streams : WF_vars(StreamEOF(id, s) /\ UNCHANGED svcVars)
       /\ WF_vars(WaiterNext(id) /\ UNCHANGED svcVars)
       /\ WF_vars(WatcherWakes(id) /\ UNCHANGED svcVars)
       /\ WF_vars(WatcherKills(id) /\ UNCHANGED svcVars)
       /\ WF_vars(TimeoutExpires(id)) /\ WF_vars(ShutdownKills(id))
  /\ \A a \in Agents : WF_vars(AgentNext(a))
  /\ WF_vars(ShutdownEnds)

FairSpec == Spec /\ Fairness

-----------------------------------------------------------------------------
(* Safety.                                                                  *)

\* Started, Killed and Exited are broadcast at most once per record, although
\* every Kill and the waiter compete to announce a kill (service.go:1010).
AnnouncedOnce ==
  \A id \in Ids : \A a \in {"started", "killed", "exited"} : sent[id][a] <= 1

\* A listener that sees Exited for a killed command has been, or is about to
\* be, told Killed: the waiter only stays silent when another caller has
\* claimed the announcement (service.go:329-331, 1015-1019).
KilledIsTold ==
  \A id \in Ids :
    status[id] = "killed" /\ sent[id]["exited"] = 1 =>
      \/ sent[id]["killed"] = 1
      \/ \E a \in Agents : pc[a] = "announce" /\ on[a] = id

\* Once done is closed the record tells how the command really ended, whatever
\* was signalled to it meanwhile: killed exactly when it died of a signal, code
\* 0 exactly when it succeeded (classifyProcessExit).
OutcomeIsTrue ==
  \A id \in Ids :
    done[id] /\ phase[id] = "ready" /\ waitErr[id] # "ioerror" =>
      /\ status[id] = "killed" <=> cause[id] = "signal"
      /\ exitCode[id] = 0 <=> cause[id] = "zero"

\* A running record that was listed stays listed: Remove and Clear, racing with
\* the waiter, only ever drop finished ones, so Kill can still find it.
RunningIsListed ==
  \A id \in Ids :
    phase[id] \in {"stored", "ready"} /\ IsRunning(id) => id \in table

\* When OnShutdown returns, no command it found running is left alive, nor any
\* descendant of one that is not known to have finished (killTree).
ShutdownLeavesNone ==
  shutdown = "done" =>
    \A id \in procs : leader[id] # "alive" /\ (IsRunning(id) => ~kids[id])

\* Output is broadcast only between Started and the closing of done: Started
\* precedes the readers, and the waiter waits for both of them (service.go:311).
OutputIsFramed ==
  [][\A id \in Ids :
       sent'[id]["output"] # sent[id]["output"] =>
         sent[id]["started"] = 1 /\ ~done[id] /\ sent[id]["exited"] = 0]_vars

\* The service keeps the contract of every record.
Contract == INSTANCE ProcessContract WITH
  state <- status, closed <- done,
  announced <- [id \in Ids |-> sent[id]["exited"]]
ContractSpec == Contract!Spec

-----------------------------------------------------------------------------
(* The inductive invariant behind the safety properties: where each         *)
(* goroutine is determines what the record, the events and the operating    *)
(* system show, and each pending announcement has one owner.                *)

Reaped == {"reaped", "classified", "closed", "killing", "exiting", "ended"}
Classified == Reaped \ {"reaped"}
Closed == Classified \ {"classified"}

StartInv(id) ==
  /\ phase[id] = "absent" <=> status[id] = "absent"
  /\ phase[id] \in {"spawned", "stored"} => status[id] = "running"
  /\ phase[id] = "rejected" => status[id] = "failed"
  /\ phase[id] \in {"absent", "spawned", "rejected"} => pc[id] = "idle"
  /\ phase[id] = "ready" <=> waiter[id] # "none"
  /\ leader[id] = "none" <=> phase[id] \in {"absent", "rejected"}
  /\ sent[id]["started"] = IF phase[id] = "ready" THEN 1 ELSE 0
  /\ phase[id] \in {"stored", "ready"} /\ status[id] = "running" => id \in table

WaiterInv(id) ==
  /\ readers[id] # {} => waiter[id] = "streams"
  /\ waiter[id] \in {"streams", "reaped"} => status[id] = "running"
  /\ leader[id] = "reaped" <=> waiter[id] \in Reaped
  /\ cause[id] = "none" <=> leader[id] \in {"none", "alive"}
  /\ waiter[id] \in Reaped => waitErr[id] \in {cause[id], "ioerror"}
  /\ waiter[id] \in Classified =>
       /\ status[id] = classifyProcessExit(waitErr[id]).status
       /\ exitCode[id] = classifyProcessExit(waitErr[id]).exitCode

ExitedInv(id) ==
  /\ phase[id] # "rejected" =>
       /\ done[id] <=> waiter[id] \in Closed
       /\ sent[id]["exited"] = IF waiter[id] = "ended" THEN 1 ELSE 0
  /\ phase[id] = "rejected" =>
       sent[id]["exited"] \in {0, 1} /\ (sent[id]["exited"] = 1 => done[id])

Announces(a, id) == pc[a] = "announce" /\ on[a] = id

KilledInv(id) ==
  /\ sent[id]["killed"] \in {0, 1}
  /\ ~killNotified[id] => /\ sent[id]["killed"] = 0 /\ waiter[id] # "killing"
                          /\ \A a \in Agents : ~Announces(a, id)
  /\ killNotified[id] => \/ sent[id]["killed"] = 1 \/ waiter[id] = "killing"
                         \/ \E a \in Agents : Announces(a, id)
  /\ \A a \in Agents : Announces(a, id) =>
       /\ sent[id]["killed"] = 0 /\ waiter[id] # "killing"
       /\ \A b \in Agents : Announces(b, id) => a = b
  /\ waiter[id] = "killing" => sent[id]["killed"] = 0
  /\ waiter[id] \in {"exiting", "ended"} /\ status[id] = "killed" =>
       killNotified[id]

ShutdownInv(id) ==
  /\ shutdown = "idle" => procs = {}
  /\ shutdown = "done" => left = {}
  /\ id \in procs => leader[id] # "none"
  /\ id \in procs \ left => leader[id] # "alive" /\ (IsRunning(id) => ~kids[id])

LifecycleInv ==
  \A id \in Ids : /\ StartInv(id) /\ WaiterInv(id) /\ ExitedInv(id)
                  /\ KilledInv(id) /\ ShutdownInv(id)

-----------------------------------------------------------------------------
(* Liveness.                                                                *)

\* A command that ended with all of its descendants is announced as exited.
EndIsAnnounced ==
  \A id \in Ids :
    (phase[id] = "ready" /\ PipesClosed(id)) ~> sent[id]["exited"] = 1

\* Cancelling the context of a command that was not detached ends it.
CancelEndsCommand ==
  \A id \in Ids :
    (cancelled[id] /\ ~opts[id].detach /\ IsRunning(id)) ~> leader[id] # "alive"

\* A timeout ends the command, even one that ignores SIGTERM, and with KillGroup
\* it also ends the descendants that would keep the record running.
TimeoutEndsCommand ==
  \A id \in Ids :
    (phase[id] = "stored" /\ opts[id].timeout) ~>
      (leader[id] # "alive" /\ (signalsGroup(id) => done[id]))

\* A signal to a group that keeps ignoring it ends in SIGKILL (process.go:301).
SignalEndsGroup ==
  \A c \in Callers, id \in Ids :
    (pc[c] = "retry" /\ on[c] = id) ~> leader[id] # "alive"

-----------------------------------------------------------------------------
(* What the documentation says and the code does not do.                    *)

\* docs/architecture.md:71 promises no orphans when the application exits: no
\* command that existed when OnShutdown began is alive when it returns.
NoOrphans == shutdown = "done" => \A id \in born : leader[id] # "alive"

\* process.go:135 and docs/architecture.md:92 promise that done closes when the
\* process exits.
DoneFollowsExit == \A id \in Ids : leader[id] = "zombie" ~> done[id]
=============================================================================
