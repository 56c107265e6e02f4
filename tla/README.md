# A specification of go-process

TLA+ models of the Go package `process` (`go/`) and of what is built on it: TLC
checks them on small instances, and TLAPS proves their safety properties for
every value of the constants. Line numbers refer to the sources at this commit;
`service.go`, `process.go`, `runner.go` ... are files of `go/`.

## 1. The system

| Component | State it keeps | Operations | Talks to |
|---|---|---|---|
| **Process service** (`service.go`, `process.go`, `types.go`, `platform_unix.go`) | `Service.processes` under `s.mu`; per record status, exit code, `done`, `killNotified`, stdin, buffer under `p.mu`; five goroutines per record | Start, StartWithOptions, Kill, KillPID, Signal, SignalPID, Shutdown, Wait, Remove, Clear, OnShutdown, SendInput, CloseStdin, Output | the operating system; listeners, through `Core.ACTION` |
| **Runner** (`runner.go`) | one call: remaining and completed specs, results | RunAll, RunSequential, RunParallel | StartWithOptions and `done` of the service |
| **RingBuffer** (`buffer.go`) | bytes, start, end, full | Write, String, Bytes, Len, Reset | one writer per stream, any reader |
| **Named actions** (`actions.go`, handlers in `service.go`) | none | parse options, call the service | Core |
| **Process-global API** (`process_global.go`) | the default service | Init, SetDefault, and delegates | the service |
| **Daemon** (`daemon.go`) | running; owns the three below | Start, Run, Stop, SetReady | PID file, health server, registry |
| **PID file** (`pidfile.go`) | a file shared by instances | Acquire, Release, ReadPID | file system |
| **Registry** (`registry.go`) | a directory shared by processes | Register, Unregister, Get, List | file system |
| **Health server** (`health.go`) | listener, server, ready, checks | Start, Stop, SetReady, AddCheck; ProbeHealth, ProbeReady | HTTP |
| **HTTP provider** (`pkg/api/provider.go`) | none of its own | REST handlers; forwards process events | service, runner, registry, hub |
| **WebSocket hub** (`pkg/api/websocket.go`) | clients, queues of 256, done | run, handler, broadcastMessage, the two pumps | browsers |
| **Web UI** (`ui/src/*.ts`) | list of processes, connection | load over REST, apply events | provider, hub |
| **exec, Program** (`exec/`, `program.go`, `os_exec_link.go`) | one command | Run, Start, Output, CombinedOutput | os/exec |

How they interact: a call of StartWithOptions spawns the command, lists its
record and leaves behind a context watcher, a timeout watchdog, two stream
readers and a waiter. Callers act on the record from any goroutine, under locks
they release before they signal or broadcast. Events go synchronously to every
listener of `Core.ACTION`; the provider is one of them and feeds the hub, which
feeds the UI. The runner starts records and waits for their `done`. The daemon
is independent of the service: it composes a PID file, a health server and a
registry entry, which other operating-system processes read and write too.

What is hard, and what makes each part correct:

* **Process service.** Signals race with the exit, with the waiter and with each
  other; the kill is announced by whoever claims it; the outcome must tell how
  the command ended; OnShutdown races with StartWithOptions; a descendant may
  outlive its leader and hold the pipes. Correct: one launch or rejection, one
  outcome, one Exited per record; Killed at most once, and broadcast or claimed by
  somebody who is about to broadcast it before Exited is (so it may come after); no
  running record unlisted; timeouts, cancellation and group
  signals end the command.
* **Runner.** Failures, skips and cancellation spread through a graph while the
  specs of a wave run concurrently. Correct: nothing starts before what it needs;
  nothing is skipped and run; success means that everything that could run passed.
* **Output and stdin.** Bounded pipes, a scanner with a line limit, a lock held
  across a blocking write. Correct: nobody waits for ever on a full pipe.
* **PID file, registry, daemon.** Several processes, no atomic operation beyond
  one system call, calls that fail, crashes at any point, a listener that its own
  goroutine takes up and closes. What a careful reader wishes for, one live owner and no
  live file removed, the code does not give; what does hold is said by the properties:
  the port excludes, after a Start that failed and after Stop no file carries the
  daemon's write unless it could not be unlinked, and no listener stays but one that is
  closing; and a live daemon loses its file in two ways only.
* **Hub, provider, UI.** Dropped and reordered events, clients that go away.
  Correct: no send on a closed channel; no gap in what a client that stays gets; no
  goroutine left behind.

The full list of hazards, with the line each one bites at and the properties
that guard it, is `hazards` in `PROJECT.json`.

## 2. The modules

```
ProcessGroup          the operating system's side of a command
  ManagedProcess      a record and its readers, waiter, context watcher
    Service           the table, StartWithOptions, callers, watchdogs, OnShutdown
      ServiceProofs   types, the inductive invariant, the safety properties, and that
                      Service implements ProcessContract
      MCService       instances for TLC
ProcessContract       what the service promises about every record
  Runner              RunAll, RunSequential, RunParallel on top of the contract
    RunnerProofs      types, the inductive invariant, the safety properties
    MCRunner          instances for TLC
StdinLock             SendInput and CloseStdin, and everything that takes p.mu
  StdinLockProofs     types, no write after a close, no lock left behind
RingBuffer            the ring buffer, as operators on a value
  RingBufferProofs    a byte, and a Write, keep the last Size bytes
  Output              two pipes, two scanners and the buffer they share
    OutputProofs      types, nothing is lost, Output implements OutputLog
OutputLog             what the capture promises
FoldProofs            FoldLeft, for every operator and sequence
Host                  pids that come back, and two files, for several processes
  PIDFile             Acquire and Release, system call by system call
    Registry          Register, Unregister, Get and List of one name
      HealthServer    the listener, and the goroutine that runs Serve
        Daemon        Start, Run, Stop, crashes, and the provider as a client
          DaemonProofs
          MCDaemon    symmetry for TLC
Hub                   the WebSocket hub
  HubProofs
Targets               commands addressed by pid
```

### ProcessGroup, ManagedProcess, Service

`ProcessGroup` is external code: what `applyProcessGroup` sets up and signals
reach. A leader is none, alive, a zombie or reaped; `cause` is what waitid
reports; `kids` says that a descendant in the group still holds the pipes.
A signal to a zombie succeeds and changes nothing; SIGKILL to the group ends
leader and descendants; a catchable signal may be handled or ignored by each.

`ManagedProcess` has one variable per field of the record that the properties
can see (`status`, `exitCode`, `done`, `killNotified`) and the program counter of
each goroutine (`readers`, `waiter`, `watcher`). `waiter` walks through
`service.go:311-345`: streams, reaped, classified, closed, then killing when it
claimed the announcement of a kill, exiting, ended. `classifyProcessExit` maps
what cmd.Wait returned: success or an exit code is exited, a signal is killed,
and an error that is no exit status is failed (`ioerror`). `sent` counts the broadcasts
of each action.

`Service` adds the table, StartWithOptions and everything that acts on a record.
`phase` is StartWithOptions' own program counter: spawned after cmd.Start and
`StatusRunning` (`:251`), stored after the record is listed (`:266`) and its
watchdog started, ready after Started was broadcast and the readers and the
waiter spawned; rejected when cmd.Start failed. The record is private until it
is listed, so the private steps before are one action. An *agent* is a caller or
a watchdog; its `pc` stands between two critical sections or system calls:

| Code | Actions |
|---|---|
| Service.Kill, KillPID of a known pid | BeginKill, KillSends or KillFindsFinished, Notify, AnnounceKilled |
| Process.Shutdown, of a caller or a watchdog | BeginShutdown / TimeoutExpires, TerminateSends or TerminateFindsFinished, SeesDone or GraceExpires, KillSends or KillFindsFinished |
| Process.Signal, Service.Signal, SignalPID | BeginSignal (status read under the lock), SignalSends (after it), Retry, Escalate, RetryStops |
| OnShutdown | ShutdownBegins (the slice), ShutdownKills per record (killTree), ShutdownEnds |
| Remove, Clear | Remove, Clear |

A critical section of `p.mu` or `s.mu` is one step. That is sound for every
operation here, since none of them blocks while it holds the lock; SendInput is
the one that does, and has a module of its own, StdinLock. A signal
number stands for any catchable one but 0; `Get`, `List`, `Info`, `Output` and
`Wait` only read.

`ProcessContract` is the abstract specification: for each record one launch or
one rejection, one outcome, then done, then one Exited, and no change afterwards.
`Service!ContractSpec` maps `state` to the status, `closed` to done, and
`announced` to the number of Exited broadcasts.

### Runner

Specs are `1..N` in the order of the slice, and one behaviour is one call.
`task` says where the goroutine (or the loop) is with a spec; `result` is the
slice of RunResults, zero values at first, as in the code. The process service is
an instance of `ProcessContract`: `Launch` and `Rejected` are the two answers of
StartWithOptions that make a record, `Refused` the one that makes none, and
`Collect` waits for `done` and reads status and exit code. So what is proved of
the runner holds on top of anything that implements the contract, and
`ServiceImplementsContract` says that the service does. The helpers that the code repeats in
three methods (Report, ReportAll, the counts) are operators here.

### StdinLock

SendInput is the one operation that blocks under `p.mu`. This module takes the
critical sections apart: a `sync.RWMutex` is a set of `readers` and at most one
announced `writer`, which keeps later readers out and enters when the readers are
gone (external code). `unread` is what the command has not read of its pipe. Kill
and CloseStdin announce themselves (BeginKill, BeginClose) and then do their work
in one step; so do the waiter (WaiterLocks, WaiterStores) and OnShutdown's killTree
(ShutdownLocks, killTree). OnShutdown's list (ShutdownAsks) and Clear (ClearVisits)
read record after record while they hold `s.mu`. What the commands are and how
they end is Service's subject, so here a command is alive or not; what matters here is
what outlives it. `kept` is what its descendants keep open: its stdin, so that a write to
a full pipe does not fail with it, its output, so that the waiter does not get to cmd.Wait
(`WaiterReaps`), or both. `waited` says that cmd.Wait has returned; it closes our end of the
pipe, under a SendInput that is inside its write if need be, before the waiter asks for
the lock. emitKilledAction's short critical section is left out.

### RingBuffer, OutputLog, Output

`RingBuffer` is the code of `buffer.go`: array, start, end and full, with one operator
per method; `rb.mu` makes each of them one step. `Output` puts it behind what
writes to it. The command writes byte by byte to bounded pipes (`CommandWrites` is
disabled while the pipe is full: that is the blocked write); each reader takes a
byte at a time into its scanner's line (`ReadsText`), and passes a line on at a
newline (`ReadsLine`) or at end of file (`ReadsEOF`), without one carriage return at
its end, as bufio.ScanLines does. `GivesUp` is bufio.ErrTooLong: the code ignores it
and leaves the pipe unread. `OutputLog` is the promise (docs/architecture.md,
Output Capture): the last Size bytes of the lines, each line in one piece. The two
streams carry different bytes, so that a mixture would show.

### Host, PIDFile, Registry, HealthServer, Daemon

An *instance* is a process that runs a Daemon; it may crash at any moment and boot
again under any free pid, that of a dead daemon too. `file` is what the PID
file and the registry entry hold. A read, an unlink, an open with O_TRUNC and a write
are one step each, as in the kernel; `open` remembers who has opened and not
yet written, since an unlinked file swallows the write. `pc` is where an instance
stands in Start (check, remove, create, fill, listen, register, record), in its rollback
(stopHealth, undoServe, undo) or in Stop (unregister, release, close, shutdown), and where
a client stands in Get or stopDaemon.

The file system and the kernel fail where the code handles it. An unlink may fail in
Acquire, Release, Unregister and Get (`RemoveErrs`): then the file stays, and Stop goes on
with its next step all the same. `host` is the machine, fixed at the start: which calls may
fail on it, how many strangers run, and who may not signal whom (`denied`). For the code
kill(pid, 0) is whether the process lives, so to a process that would get EPERM a living
daemon is dead (`Signals`, `Stale`; `pidfile.go:45`, `registry.go:193`).

`HealthServer` keeps the one address that all instances are configured with: `port` is who
listens, `serve` how far the goroutine of that listener is, `tracked` what h.server says,
`failing` a Serve that has failed and has yet to take h.mu. Start listens (`HealthListens`)
and leaves the listener to a goroutine that comes to Serve later (`ServeTakesUp`). Stop
forgets the server under h.mu (`HealthForgets`) and then calls Shutdown
(`HealthShutsDown`), which closes a listener that Serve has taken up; one that it has not is
`late`, and stays open until the goroutine runs and closes it (`ServeCloses`). Until then a
daemon that was stopped and is started again finds its own address in use.

Four ghosts serve the properties: `author` (whose write a file holds), `seen` (who has
read exactly what is there now), `stuck` (which files their author failed to unlink),
`lost` (whose Serve has failed).

`RollsBack` says what an instance that is not running still has: no server, a file only
if it could not be unlinked, a listener only if its own Serve is on the way to
closing it. `ListenerTracked` says that no server that accepts is out of Stop's reach.
`SparesTheLiving` gives all the ways in which another process takes the file of a
daemon away that lives and has not given it up: it has not looked at the file since the
daemon wrote it (Acquire's and Get's read and unlink are two steps, Acquire and Register
truncate whatever is there, stopDaemon unregisters by name), it may not signal the
daemon, or it told it to stop. The first two are flaws, and no property excludes them;
the property is that there is no third.

### Hub

One connection per member of `Clients`. `Register`, `Unregister` and
`BeginBroadcast` are the loop's select; `left` is what the broadcast in progress has
yet to serve, during which h.mu is held for reading, so `removeClient` waits for it to
be empty. A client is closed in a step of its own after the unlock (`busy` for the loop
and closeAll, `dropped` for removeClient). The register and unregister channels have no
buffer: the offer of the handler or of readPump and the loop's receive are one
step, and `TurnedAway` and `readPumpLeaves` are the other branch of their select,
h.done. Messages are numbered in the order h.broadcast accepted them. A
hub that a program passes in, called by reflection, is not modelled.

### Targets

A record keeps its pid while it is in the table, and the system may hand the pid out
as soon as cmd.Wait has reaped the command: `holder` says who has a pid. KillPID is
two steps, findByPID (or the bare kill of an unknown pid) and kill of the record found;
killProcessByTarget and handleKill may find the record by id instead.

## 3. What the runs check

| Run | Instance | Shows |
|---|---|---|
| `service` | 1 record, 1 caller with every command, 5 profiles, 1 output line, 1 re-send | TypeOK, the inductive invariant LifecycleInv, AnnouncedOnce, KilledIsTold, OutcomeIsTrue, RunningIsListed, ShutdownLeavesNone, OutputIsFramed, and ContractSpec |
| `service_live` | 1 record, 1 caller that signals, 4 profiles, with fairness | EndIsAnnounced, CancelEndsCommand, TimeoutEndsCommand, SignalEndsGroup |
| `runner` | 3 specs in 5 graphs, 3 choices of AllowFailure, 3 methods, with fairness | TypeOK, DependenciesHold, SequentialOrder, SkippedNeverRan, ReturnsLast, HonestSuccess, Returns |
| `stdin_lock` | 2 records, one of whose commands may leave descendants behind, 1 sender, 1 caller, a pipe of 1 unit, with fairness | TypeOK, NoWriteAfterClose, NoLockLeaked, StallsOnlyOnInput, DeathIsRecorded |
| `shutdown_stalls` | violation | OnShutdown waits for ever behind a SendInput whose command does not read |
| `orphans` | violation | OnShutdown leaves a command alive that was spawned but not yet listed |
| `done_follows_exit` | violation | a descendant that holds the pipes keeps `done` open after the exit |
| `output` | 2 streams, pipes of 1 byte, lines of up to 2 bytes before a newline, a buffer of 3, 5 bytes, with fairness | TypeOK, NothingLost, KeepsTheTail (Output implements OutputLog), StuckOnlyBehindLongLine |
| `daemon` | 2 instances and a client, 3 pids, one health address, 5 machines | TypeOK, RollsBack, ListenerTracked, PortExcludes, SparesTheLiving |
| `two_instances` | violation | without a health address two daemons acquire the PID file together |
| `hub` | 2 connections, queues of 1, 3 messages, with fairness | TypeOK, NoSendOnClosed, GapIsDoomed, PumpsEnd |
| `kill_pid` | violation | KillPID of a pid that a finished record once had leaves the command alone that has it now |

Every violation is a finding in `PROJECT.json`, with the line of the documentation,
the comment or the test that says otherwise. Two more disagreements need no run:
`specs/process.md:354` says that RunAll marks circular and missing dependencies as
failed with exit code 1, while `runner.go:157-162` skips them with exit code 0
(HonestSuccess is stated for what the code does); and `docs/architecture.md:181` speaks of
a line buffer of 1 MB, while `service.go:352` takes bufio.Scanner's default of 64 KiB.

*Why the bounds are enough.* Records share nothing but the table, and every
property speaks of one record, so one record meets all interleavings of its own
goroutines; a caller, the watchdog, the watcher, the waiter and OnShutdown are
five concurrent actors on it, and a caller comes back any number of times. The
proofs cover any number of records and callers. The profiles keep each
combination of attached or detached, group or leader, timeout or none, grace or
none that takes a different branch, and one that is refused (KillGroup without
Detach). One re-send is one too few for MaxRetries = 0 and shows both the loop and
the escalation. Three specs are the least with a wave that follows a wave that
follows a wave, a cycle behind a spec that runs, and a join. CHECK_DEADLOCK is off
where the system does stop: a call of the runner that returned, a hub whose messages
are used up and whose connections are gone, a command that has written what
MaxBytes allows and ended, and commands of Targets that all have ended.

For StdinLock two records are what it takes for OnShutdown to be held up at one
with another still to visit, and a pipe of one unit is full after one SendInput;
what Kill does under the lock does not depend on who else kills. One of the two commands
may leave descendants behind (`Parents`): they touch no lock, so those of the other add
states and no order of steps between the two records.

For Output a buffer of 3 wraps, fills exactly and is overwritten in a single run of 5 bytes;
lines of 0, 1 and 2 bytes fit, and one of 3 is too long; a pipe of 1 byte is always
full or empty. For Daemon two instances make every race over the file, 3 pids let a
stranger or a daemon come back under the pid that a file still names while the other
instance runs, and one client has all the clients' steps. The five machines (`MCHosts`) are one
whose Serve may fail, one where unlinks may fail, one whose clients may not signal the
daemons, and two on which one daemon may not signal the other; the proofs cover any
number of each and any mixture. For the hub, queues of 1 are full after one message, so that a slow client is
thrown out while the loop broadcasts, closes or returns, and 3 messages leave one behind the
gap.

*Bounds by name:* `Ids`, `Callers`, `Commands`, `Profiles` (the instance),
`MaxOutput` (lines broadcast per record; more lines repeat the same step),
`MaxRetries` (5 in `process.go:289`), `N`, `Calls`, `Senders`, `Capacity`, `Payload`;
`Size` (of the buffer, 1 MiB by default), `PipeSize`, `MaxLine` (64 KiB), `MaxBytes`;
`Parents`; `Instances`, `Clients`, `Pids`, `Hosts` (with `strangers`, the number of
processes that are no daemon), and one failed Serve at a time (ServeFails); `QueueSize` and `SendSize` (256),
`MaxMessages`.

*Fairness.* Go runs every runnable goroutine, timers fire, and the kernel reports
end of file on a pipe without writers: weak fairness of the waiter, the readers'
end of file, the watcher, the agents, the timeout and the rest of
StartWithOptions. Weak is enough, as each of these steps stays enabled until it is
taken. Nothing is assumed about commands: they need not exit,
fork nothing, or heed a signal, and listeners return from their handlers. For the
runner every command is assumed to end (`RecordStep`), since by
`done_follows_exit` no method returns otherwise.
For StdinLock, locks are taken with strong fairness, since `sync.RWMutex` lets a
waiting reader in before the next writer and the other way round; a command need
not read or end, which is the point of `shutdown_stalls`, and a descendant need not close
what it keeps. DeathIsRecorded is therefore about a command that has ended and whose
output is at its end, whatever its descendants do with its stdin.

For the hub: weak fairness of the loop, of a removal, of a handler that is turned away
and of each pump. A write to a socket fails after 5 seconds when the peer does not read
(`websocket.go:247`), so writePump always gets on. With a bounded number of messages and
connections the loop cannot pass over a ready channel for ever, so no fairness of its
select is assumed. For Output: weak fairness of each reader, none of the command. Daemon has safety
properties only.

## 4. What is proved

All theorems are proved by TLAPS from the named assumptions on the constants
(`IdsAssumption`, `CallersAssumption`, `ProfilesAssumption`, `MaxOutputAssumption`,
`MaxRetriesAssumption`; `NAssumption`, `CallsAssumption`; `AgentsAssumption`,
`SizesAssumption` of StdinLock and of Hub, `HostAssumption`, `HealthAssumption`,
`SizeAssumption`, `OutputAssumption`), which say that there is
a record, that callers are not records, that options are options, that bounds are naturals, that nobody is kept
from signalling itself, that a request passed validateSpecs, and that no stream is the name of a newline, a carriage
return or the zero byte.

**Service.** `TypeCorrect` is inductive by itself. The safety properties are not:
that Killed is broadcast at most once, say, is true because an announcement under
way has one owner. `LifecycleInv` is the strengthening, in five parts per record:

* *StartInv*: StartWithOptions' progress fixes the status, the Started event, whether a
  leader exists and whether a running record is listed;
* *WaiterInv*: the waiter's position fixes what is reaped, the record's status and
  its exit code, which are those of `classifyProcessExit`, and no reader is active
  once the waiter has passed its wait;
* *ExitedInv*: done and the Exited count follow from the waiter's position;
* *KilledInv*: `killNotified` is set exactly when Killed was broadcast or one agent
  or the waiter is about to broadcast it, and never two of them;
* *ShutdownInv*: what OnShutdown has reached is dead.

`LifecycleCorrect` proves it invariant, one lemma per group of actions, and
`AnnouncedOnceCorrect`, `KilledIsToldCorrect`, `OutcomeIsTrueCorrect`,
`RunningIsListedCorrect` and `ShutdownLeavesNoneCorrect` follow from it.
`OutputIsFramedCorrect` is an action property that needs it: only a reader
broadcasts output, and a reader is active only between Started and done.
`ServiceImplementsContract` maps every step to a step of the contract or to a
stutter; again the invariant is needed, for instance to know that the waiter
classifies a record that is still running.

**Runner.** `RunnerInv` says what the record of a spec looks like where its task is
(TaskInv), that active specs of RunAll have completed dependencies (WaveInv), that
RunSequential has one active spec and nothing but permitted failures before it
(OrderInv), and that in a call that was not cancelled every skipped spec goes back to a failure or to an
unsatisfiable set of dependencies (SkipInv). The last needs the observation that
when no remaining spec can run, the remaining specs are such a set
(`StuckIsUnsatisfiable`), and that a spec that follows an unsatisfiable one is
unsatisfiable itself (`UnsatisfiableSpreads`). From it follow `DependenciesHoldCorrect`,
`SequentialOrderCorrect`, `SkippedNeverRanCorrect`, `ReturnsLastCorrect` and
`HonestSuccessCorrect`, for every number of specs and every graph.

**StdinLock.** `LockInv` adds to NoWriteAfterClose that whoever is inside a call is
there on a record, that only senders write, and that cmd.Wait returns for dead commands
only (`ReapedAreDead`). A close needs the lock with no
reader left, and every writing SendInput is a reader: `NoWriteAfterCloseCorrect`.
NoLockLeaked is a part of `LockInv` too, and inductive with it (`NoLockLeakedCorrect`): it
says of each place in `p.mu` and `s.mu` which goroutine is there, so that every lock has
somebody who will release it. A waiter in line for the lock needs its command to stay
dead, whoever is killed meanwhile (`DeadStay`).

**Daemon.** `RollsBack` is not inductive: that an idle instance is nobody's author needs
to know where in Start and Stop an instance may be one. `FileInv` says so, and that a
file that carries the write of a live instance holds its present pid; `ServerInv`
that a server is remembered only where it should run, that a listener that is not
remembered is about to be shut down or closes by itself, and that a failed Serve is
"current" exactly when its server is still the one remembered; `SawInv` that who has read
exactly what a file holds, and has not yet forgotten it, knows what it holds; `RemoveInv`
that who is about to remove what it has read either found no live daemon there, or may
not signal it, or has told it to stop. `DaemonInvariant` proves them together, one lemma
per group of actions, and `RollsBackCorrect`, `ListenerTrackedCorrect` and
`PortExcludesCorrect` follow. `SparesTheLivingCorrect`, about steps, needs `RemoveInv` in
the state before the step (`StartSpares`, `StopSpares`, `ClientSpares`). All hold for any
number of processes, clients and pids, any permissions and any failing unlinks, with a
health server or without.

**Hub.** `MapInv`: whoever is in the map is open, whoever is about to be closed has left
it, and a broadcast serves members of the map only, because removals wait for h.mu.
`DueInv` keeps the numbers of a stream apart from those before the client joined.
`NoSendOnClosedCorrect` follows from MapInv; `GapIsDoomedCorrect` adds that a client's
stream, socket and channel together, is the run of numbers since it joined, with
lemmas on sequences (`AppendContinues`, `MoveKeepsStream`, `AppendExtendsStream`) for the
steps that take a message, send it, and put it on the socket.

**Folds.** Two operators of Output are folds over a sequence of any length: Write,
over the bytes it is given, and Lined, over all that a command wrote. What such a
fold computes needs induction on the length. The library states its induction
for a predicate, which the provers cannot instantiate; `SetInduction` states it for a
set of naturals (0 is in it, and every successor: then it has them all) and follows from
the well-foundedness of <. A proof that needs induction defines the set of lengths
for which its claim holds. With it `FoldOfAppend` shows, for any operator Op, that FoldLeft
over one element more is Op once more; `FoldProofs` is instantiated with `Put` and with `Extend`.

**RingBuffer.** `ContentsAreTheCells` reads the two slices of Bytes as one walk around
the array, and that Len is the length of the contents. `PutKeepsTheLast`: what a
well-formed buffer holds after a byte is what it held before and that byte, clipped as in
OutputLog, in the three cases of a buffer that has room, is just being filled, or is
full. `NewIsWellFormed` and `PutKeepsWellFormed` make it apply to every buffer.
`WriteKeepsTheLast` extends it to a Write of any length, since a clipped sequence
that grows and is clipped again has lost nothing that the longer one would have kept
(`ClipTwice`).

**Output.** NothingLost speaks of a stream at its end and compares it with what Lined makes
of everything that was written; nothing of that is in the state while the reader is at
work. `OutputInv` says it for every prefix: there is a sequence `taken` of bytes that, with
the pipe, is the stream, whose text is what was passed on and the current line, and that ends
inside a line exactly when there is a current line (`TakenInv`); and what was passed on never
ends inside a line. Each step of a reader moves one byte from the pipe to `taken`
(`TakesHead`), and Lined follows by FoldOfAppend. A newline frames the last line only,
because dropCR never reaches back over the newline before it (`DropCR`,
`FramedAtEnd`); at end of file `LastLine` frames an open line as Lined does.
`NothingLostCorrect` follows, and `TypeCorrect`, for any number of streams and bytes and any
sizes. `OutputImplementsLog` needs that the buffer is well formed and WriteKeepsTheLast: a line
passed on is one step of OutputLog, every other step a stutter. A buffer of no
capacity, which `buffer.go:37` treats apart, is one of the cases (`WriteIsLogged`).

**Only model-checked:** the liveness properties (StallsOnlyOnInput, DeathIsRecorded,
StuckOnlyBehindLongLine, PumpsEnd, Returns and the four of `service_live`), since liveness
under fairness and ENABLED are beyond the prover; and the violations. Every invariant and action
property of the passing runs, and both refinements, are proved. No module here has a
recursive operator.

## 5. Not modelled

* *Readiness* (`health.go:168`, SetReady, Ready, `/ready`), health checks and ProbeReady.
  Stop leaves ready false and Start does not set it: that is two assignments, and no
  interleaving can change it.
* *RingBuffer.Reset*, called by a test alone.
* *The package functions* (`process_global.go`): one pointer, and calls that delegate. Init
  replaces a service that SetDefault has installed, which is listed as a hazard.
* *The exec package, Program and lookPath*: builders around os/exec that run one command,
  and a pure search of PATH. What can go wrong with cancellation there is fixed by the
  code's text, not by an order of steps: Output, CombinedOutput and Program.RunDir never look
  at their context again, and the watcher of Run and Start reads `c.cmd` when the
  context is done (`exec.go:239-243`), by when a Cmd that was used again has another one.
* *Options of actions and tasks* (`actions.go`): conversions without state; which values they
  let through depends on the option alone.
* *forwardProcessEvent* (`provider.go:719-781`) reads a record and hands a message to the
  hub. What it reads is a later state than the event's (`provider.go:756`: Remove may have
  dropped the record by then), never another record's. A hub
  from outside is called by reflection and is unknown code.
* *The Web UI* (`ui/src`): its REST client takes an answer without a `success` field for a
  failure (`api.ts:107`), and the provider answers with core.Result, whose fields
  are `Value` and `OK` (`test_helpers_test.go:13-16`). So its lists never load and its
  socket is never opened, and a model of what the list does with answers and events
  would be one of states that this system does not reach. The bundle in `dist` is generated.
* *A raw group signal to a reused pid* (`process.go:171`, between cmd.Wait and the status):
  Targets has the reuse of pids and Service the group signals, not both at once.
* *Two daemon names in one file* (`registry.go:183-186` replaces slashes by dashes): the
  registry is modelled for one name.
* *Windows*: a group signal reaches the leader alone there; the models follow the Unix build.
* Rendering, wording of errors and logs, and durations.

## 6. Running

```
tlc -config MCService.cfg MCService         # MCServiceLive.cfg, MCNoOrphans.cfg, MCDoneFollowsExit.cfg
tlc -config MCRunner.cfg MCRunner
tlc -config MCDaemon.cfg MCDaemon           # MCTwoInstances.cfg
tlc -config MCStdinLock.cfg StdinLock       # MCShutdownStalls.cfg
tlc -config MCOutput.cfg Output
tlc -config MCHub.cfg Hub
tlc -config MCKillPID.cfg Targets
tlapm ServiceProofs.tla                     # then RunnerProofs, StdinLockProofs, FoldProofs,
                                            # RingBufferProofs, OutputProofs, DaemonProofs, HubProofs
```
