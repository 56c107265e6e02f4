------------------------------- MODULE Daemon -------------------------------
(****************************************************************************)
(* Daemon.Start, Run and Stop over the PID file, the health server and the  *)
(* registry, with processes that crash and boot again and pids that come    *)
(* back; and the provider's stopDaemon. d.mu makes one process do one thing *)
(* at a time, nothing does so for two processes.                            *)
(****************************************************************************)
EXTENDS HealthServer

CONSTANT WithHealth     \* whether DaemonOptions.HealthAddr is set
ASSUME HealthAssumption == WithHealth \in BOOLEAN

VARIABLE term           \* instances whose Run context has been cancelled

vars == <<hostVars, agentVars, healthVars, term>>

Starting == {"check", "remove", "create", "fill", "listen", "register", "record"}
Undoing == {"stopHealth", "undoServe", "undo"}
Stopping == {"unregister", "release", "close", "shutdown"}

TypeOK ==
  /\ HostTypeOK /\ HealthTypeOK
  /\ pc \in [Agents -> {"down", "idle", "up", "prune", "term"}
                         \cup Starting \cup Undoing \cup Stopping]
  /\ saw \in [Agents -> Pids \cup {None, Empty, Absent}]
  /\ term \subseteq Instances

Init ==
  /\ HostInit /\ HealthInit /\ term = {}
  /\ pc = [a \in Agents |-> IF a \in Clients THEN "idle" ELSE "down"]
  /\ saw = [a \in Agents |-> None]

-----------------------------------------------------------------------------
(* Processes.                                                               *)

Boot(i, p) ==
  /\ Spawns(i, p) /\ Goes(i, "idle")
  /\ UNCHANGED <<saw, healthVars, term>>

\* A crash anywhere, SIGKILL, or the end of main.
Crash(i) ==
  /\ Dies(i) /\ HealthDies(i)
  /\ Goes(i, "down") /\ Forgets(i) /\ term' = term \ {i}

Strangers(p) ==
  ForeignSpawns(p) \/ ForeignDies(p)

-----------------------------------------------------------------------------
(* Start.                                                                   *)

Acquire(i) ==
  AcquireReads(i) \/ AcquireRefused(i) \/ AcquireFindsStale(i)
    \/ AcquireRemoves(i) \/ AcquireOpens(i) \/ AcquireWrites(i)

StartHealthAnyway(i) ==
  /\ pc[i] = "listen" /\ Goes(i, "register")
  /\ IF WithHealth /\ port = None
     THEN HealthListens(i) ELSE UNCHANGED healthVars
  /\ UNCHANGED <<hostVars, saw>>
StartHealth(i) ==
  /\ pc[i] = "listen"
  /\ IF WithHealth THEN HealthListens(i) ELSE UNCHANGED healthVars
  /\ Goes(i, "register") /\ UNCHANGED <<hostVars, saw>>

\* The address is taken.
StartHealthFails(i) ==
  /\ pc[i] = "listen" /\ WithHealth /\ port # None /\ Goes(i, "undo")
  /\ UNCHANGED <<hostVars, saw, healthVars>>

\* HealthServer.Stop: without a server there is nothing to shut down.
UndoHealth(i) ==
  /\ \/ /\ pc[i] = "stopHealth" /\ HealthForgets(i)
        /\ Goes(i, IF tracked[i] THEN "undoServe" ELSE "undo")
     \/ pc[i] = "undoServe" /\ HealthShutsDown(i) /\ Goes(i, "undo")
  /\ UNCHANGED <<hostVars, saw>>

UndoForgetsThePIDFile(i) ==
  /\ pc[i] = "undo" /\ Goes(i, "idle") /\ UNCHANGED <<hostVars, saw, healthVars>>
UndoAcquire(i) ==
  /\ pc[i] = "undo" /\ Release(i) /\ Goes(i, "idle")
  /\ UNCHANGED <<saw, processVars, healthVars>>

-----------------------------------------------------------------------------
(* Run and Stop.                                                            *)

\* Run's context is done, or the program calls Stop itself.
BeginStop(i) ==
  /\ pc[i] = "up" /\ Goes(i, "unregister")
  /\ UNCHANGED <<hostVars, saw, healthVars, term>>

\* An error of one step is kept for the result, and the next step taken all the same.
StopUnregisters(i) ==
  /\ pc[i] = "unregister" /\ Unregister(i) /\ Goes(i, "release")
  /\ UNCHANGED <<saw, processVars, healthVars, term>>

StopReleases(i) ==
  /\ pc[i] = "release" /\ Release(i) /\ Goes(i, "close")
  /\ UNCHANGED <<saw, processVars, healthVars, term>>

StopCloses(i) ==
  /\ \/ /\ pc[i] = "close" /\ HealthForgets(i)
        /\ Goes(i, IF tracked[i] THEN "shutdown" ELSE "idle")
     \/ pc[i] = "shutdown" /\ HealthShutsDown(i) /\ Goes(i, "idle")
  /\ term' = IF pc'[i] = "idle" THEN term \ {i} ELSE term
  /\ UNCHANGED <<hostVars, saw>>

-----------------------------------------------------------------------------
(* The provider.                                                            *)

\* SIGTERM goes to the pid that was read, whoever has it now; the daemon's main
\* cancels the context of Run.  When the signal fails, stopDaemon gives up.
StopDaemonSignals(c) ==
  /\ pc[c] = "term"
  /\ IF Signals(c, saw[c])
     THEN Goes(c, "unregister") /\ UNCHANGED hostVars
     ELSE Goes(c, "idle") /\ Drops(c)
  /\ term' = term \cup Reaches(c, saw[c])
  /\ Forgets(c) /\ UNCHANGED healthVars

StopDaemonUnregisters(c) ==
  /\ pc[c] = "unregister" /\ Unregister(c) /\ Goes(c, "idle")
  /\ UNCHANGED <<saw, processVars, healthVars, term>>

-----------------------------------------------------------------------------

StartNext(i) ==
  \/ (Acquire(i) \/ AcquireFails(i)) /\ UNCHANGED healthVars
  \/ StartHealth(i) \/ StartHealthFails(i) \/ UndoHealth(i) \/ UndoAcquire(i)
  \/ (RegisterOpens(i) \/ RegisterWrites(i) \/ RegisterFails(i))
       /\ UNCHANGED healthVars

StopNext(i) == StopUnregisters(i) \/ StopReleases(i) \/ StopCloses(i)

ServeNext(i) ==
  /\ ServeTakesUp(i) \/ ServeFails(i) \/ ServeCloses(i) \/ ServeForgets(i)
  /\ UNCHANGED <<hostVars, agentVars, term>>

Get(c) ==
  /\ GetReads(c) \/ GetReturns(c) \/ GetFindsStale(c) \/ Prune(c)
  /\ UNCHANGED <<healthVars, term>>

Next ==
  \/ \E i \in Instances :
       \/ \E p \in Pids : Boot(i, p)
       \/ Crash(i)
       \/ StartNext(i) /\ term' = term
       \/ BeginStop(i) \/ StopNext(i) \/ ServeNext(i)
  \/ \E p \in Pids :
       Strangers(p) /\ UNCHANGED <<agentVars, healthVars, term>>
  \/ \E c \in Clients :
       Get(c) \/ StopDaemonSignals(c) \/ StopDaemonUnregisters(c)

Spec == Init /\ [][Next]_vars

-----------------------------------------------------------------------------
(* Properties.                                                              *)

\* Whatever step of Start fails, and wherever Stop is called, an instance that is
\* not running holds nothing: a file carries its write only if unlinking that file
\* failed, it remembers no server, and a listener of its that is still open is one
\* that its own Serve closes without being told again (daemon.go:93-100, 128-140,
\* 193-211, health.go:130-139).  Two instances on the same files do not change that.
RollsBack ==
  \A i \in Instances : pc[i] = "idle" =>
    /\ \A f \in Files : author[f] = i => f \in stuck
    /\ ~tracked[i]
    /\ port = i => serve \in {"failed", "late"}

\* A server that accepts connections is known to its daemon, or the daemon is about
\* to shut it down: none is left that Stop can no longer close.  And the daemon
\* stops believing in its server only through that server's own Serve: a goroutine
\* of an earlier one that is late for h.mu forgets nothing (health.go:119-139,
\* 163-175), although a restart in the same process races with it.
ListenerTracked ==
  \A i \in Instances :
    /\ port = i /\ serve = "on" => tracked[i] \/ pc[i] \in {"undoServe", "shutdown"}
    /\ tracked[i] /\ failing[i] # "current" => port = i

\* With a fixed health address two daemons are up together only when the server of
\* one of them has failed: it is the port that keeps a second instance out, the PID
\* file does not (health.go:119-122, daemon.go:99-107; see SingleInstance).
PortExcludes ==
  WithHealth =>
    \A i, j \in Instances :
      i # j /\ pc[i] = "up" /\ pc[j] = "up" => i \in lost \/ j \in lost

\* The step of a takes the write of i, who lives on and has not tried to give the
\* file up itself, out of the file.
TakesAway(a, i, f) ==
  /\ pc'[a] # pc[a] /\ a # i /\ f \notin stuck
  /\ author[f] = i /\ author'[f] # i /\ pid'[i] = pid[i]

\* Three things, and no fourth, make one process take away the file of a daemon that
\* lives: it has not looked at the file since the daemon wrote it, it is not allowed
\* to signal the daemon, or the daemon was told to stop (pidfile.go:41-62,
\* registry.go:111-126, provider.go:148-165).  The first two are flaws of the
\* protocol, each a hazard of its own; a pid that was handed out again, a file that is
\* half written, a crash, an unlink that fails or a Stop in between add no other.
SparesTheLiving ==
  [][\A a \in Agents, i \in Instances, f \in Files :
       TakesAway(a, i, f) =>
         a \notin seen[f] \/ <<a, i>> \in host.denied \/ (a \in Clients /\ i \in term)]_vars

\* docs/architecture.md:247-249: "PIDFile provides single-instance enforcement".
SingleInstance ==
  \A i, j \in Instances : pc[i] = "up" /\ pc[j] = "up" => i = j
=============================================================================
