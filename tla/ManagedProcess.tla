--------------------------- MODULE ManagedProcess ---------------------------
(***************************************************************************)
(* One ManagedProcess record (process.go) and the goroutines that           *)
(* StartWithOptions leaves behind for it (service.go:255-345): two stream   *)
(* readers, the waiter, the context watcher.  Critical sections of p.mu are *)
(* single steps; a goroutine's state between two of them is its entry in    *)
(* `waiter' or `watcher'.                                                   *)
(***************************************************************************)
EXTENDS ProcessGroup

CONSTANTS
  Profiles,         \* the RunOptions that callers use
  MaxOutput         \* bound: output lines broadcast per record

OptionSet == [detach : BOOLEAN, killGroup : BOOLEAN,
              timeout : BOOLEAN, grace : BOOLEAN]

ASSUME ProfilesAssumption == Profiles \subseteq OptionSet /\ Profiles # {}
ASSUME MaxOutputAssumption == MaxOutput \in Nat

VARIABLES
  opts,             \* RunOptions the record was started with
  status,           \* p.Status; "absent" before StartWithOptions
  exitCode,         \* p.ExitCode
  done,             \* p.done is closed
  killNotified,     \* p.killNotified
  readers,          \* streamOutput goroutines still scanning
  waiter,           \* the waiter goroutine
  waitErr,          \* what cmd.Wait returned to it
  watcher,          \* the context watcher goroutine
  cancelled,        \* the caller's context is done
  sent              \* how often each ACTION was broadcast for the record

procVars == <<opts, status, exitCode, done, killNotified, readers, waiter,
              waitErr, watcher, cancelled, sent>>

Streams == {"stdout", "stderr"}
Final == {"exited", "failed", "killed"}
Statuses == {"absent", "running"} \cup Final
WaiterStates == {"none", "streams", "reaped", "classified", "closed",
                 "killing", "exiting", "ended"}
WatcherStates == {"none", "waiting", "killing", "ended"}
Actions == {"started", "output", "killed", "exited"}

ProcTypeOK ==
  /\ opts \in [Ids -> OptionSet]
  /\ status \in [Ids -> Statuses]
  /\ exitCode \in [Ids -> {-1, 0, 1}]
  /\ done \in [Ids -> BOOLEAN]
  /\ killNotified \in [Ids -> BOOLEAN]
  /\ readers \in [Ids -> SUBSET Streams]
  /\ waiter \in [Ids -> WaiterStates]
  /\ waitErr \in [Ids -> Causes \cup {"ioerror"}]
  /\ watcher \in [Ids -> WatcherStates]
  /\ cancelled \in [Ids -> BOOLEAN]
  /\ sent \in [Ids -> [Actions -> Nat]]

ProcInit ==
  /\ opts \in [Ids -> Profiles]
  /\ status = [id \in Ids |-> "absent"]
  /\ exitCode = [id \in Ids |-> 0]
  /\ done = [id \in Ids |-> FALSE]
  /\ killNotified = [id \in Ids |-> FALSE]
  /\ readers = [id \in Ids |-> {}]
  /\ waiter = [id \in Ids |-> "none"]
  /\ waitErr = [id \in Ids |-> "none"]
  /\ watcher = [id \in Ids |-> "none"]
  /\ cancelled = [id \in Ids |-> FALSE]
  /\ sent = [id \in Ids |-> [a \in Actions |-> 0]]

-----------------------------------------------------------------------------

IsRunning(id) == status[id] = "running"
Broadcast(id, a) == sent' = [sent EXCEPT ![id][a] = @ + 1]

\* classifyProcessExit: the status and exit code for cmd.Wait's result e.
classifyProcessExit(e) ==
  [status   |-> IF e \in {"zero", "nonzero"} THEN "exited"
                ELSE IF e = "signal" THEN "killed" ELSE "failed",
   exitCode |-> IF e = "nonzero" THEN 1 ELSE IF e = "signal" THEN -1 ELSE 0]

\* emitKilledAction's critical section: one caller wins the announcement.
UnguardedClaim(id) == killNotified' = [killNotified EXCEPT ![id] = TRUE]
ClaimKilled(id) ==
  ~killNotified[id] /\ killNotified' = [killNotified EXCEPT ![id] = TRUE]

-----------------------------------------------------------------------------
(* streamOutput, once per pipe.                                             *)

StreamLine(id) ==
  /\ readers[id] # {} /\ sent[id]["output"] < MaxOutput
  /\ Broadcast(id, "output")
  /\ UNCHANGED <<osVars, opts, status, exitCode, done, killNotified, readers,
                 waiter, waitErr, watcher, cancelled>>

ReaderEnds(id, s) ==
  /\ s \in readers[id]
  /\ readers' = [readers EXCEPT ![id] = @ \ {s}]
  /\ UNCHANGED <<osVars, opts, status, exitCode, done, killNotified, waiter,
                 waitErr, watcher, cancelled, sent>>

SameStreamTwice(id, s) == s = "stdout" /\ PipesClosed(id) /\ ReaderEnds(id, s)
StreamEOF(id, s) == PipesClosed(id) /\ ReaderEnds(id, s)

\* scanner.Scan gives up on a line longer than its buffer, or a read error.
StreamGivesUp(id, s) == ReaderEnds(id, s)

-----------------------------------------------------------------------------
(* The waiter goroutine.                                                    *)

WaiterStep(id, from, to) ==
  /\ waiter[id] = from
  /\ waiter' = [waiter EXCEPT ![id] = to]
  /\ UNCHANGED <<opts, readers, watcher, cancelled>>

\* wg.Wait, then cmd.Wait, which blocks until the leader is a zombie.
ReapWithoutStreams(id) ==
  /\ WaiterStep(id, "streams", "reaped")
  /\ Reap(id)
  /\ waitErr' = [waitErr EXCEPT ![id] = cause[id]]
  /\ UNCHANGED <<status, exitCode, done, killNotified, sent>>
WaiterReaps(id) ==
  /\ WaiterStep(id, "streams", "reaped")
  /\ readers[id] = {}
  /\ Reap(id)
  /\ \E e \in {cause[id], "ioerror"} : waitErr' = [waitErr EXCEPT ![id] = e]
  /\ UNCHANGED <<status, exitCode, done, killNotified, sent>>

ClassifyByNotice(id) ==
  LET s == IF killNotified[id] THEN "killed"
           ELSE classifyProcessExit(waitErr[id]).status
  IN /\ WaiterStep(id, "reaped", "classified")
     /\ status' = [status EXCEPT ![id] = s]
     /\ exitCode' = [exitCode EXCEPT ![id] =
                       classifyProcessExit(waitErr[id]).exitCode]
     /\ UNCHANGED <<osVars, done, killNotified, waitErr, sent>>
WaiterClassifies(id) ==
  LET exit == classifyProcessExit(waitErr[id])
  IN /\ WaiterStep(id, "reaped", "classified")
     /\ status' = [status EXCEPT ![id] = exit.status]
     /\ exitCode' = [exitCode EXCEPT ![id] = exit.exitCode]
     /\ UNCHANGED <<osVars, done, killNotified, waitErr, sent>>

WaiterCloses(id) ==
  /\ WaiterStep(id, "classified", "closed")
  /\ done' = [done EXCEPT ![id] = TRUE]
  /\ UNCHANGED <<osVars, status, exitCode, killNotified, waitErr, sent>>

WaiterClaims(id) ==
  /\ WaiterStep(id, "closed", "killing")
  /\ status[id] = "killed" /\ ClaimKilled(id)
  /\ UNCHANGED <<osVars, status, exitCode, done, waitErr, sent>>

AlwaysSkips(id) ==
  /\ WaiterStep(id, "closed", "exiting")
  /\ UNCHANGED <<osVars, status, exitCode, done, killNotified, waitErr, sent>>
WaiterSkips(id) ==
  /\ WaiterStep(id, "closed", "exiting")
  /\ status[id] # "killed" \/ killNotified[id]
  /\ UNCHANGED <<osVars, status, exitCode, done, killNotified, waitErr, sent>>

WaiterAnnouncesKilled(id) ==
  /\ WaiterStep(id, "killing", "exiting")
  /\ Broadcast(id, "killed")
  /\ UNCHANGED <<osVars, status, exitCode, done, killNotified, waitErr>>

WaiterAnnouncesExit(id) ==
  /\ WaiterStep(id, "exiting", "ended")
  /\ Broadcast(id, "exited")
  /\ UNCHANGED <<osVars, status, exitCode, done, killNotified, waitErr>>

WaiterNext(id) ==
  \/ WaiterReaps(id) \/ WaiterClassifies(id) \/ WaiterCloses(id)
  \/ WaiterClaims(id) \/ WaiterSkips(id)
  \/ WaiterAnnouncesKilled(id) \/ WaiterAnnouncesExit(id)

-----------------------------------------------------------------------------
(* The context watcher: a detached command runs under context.Background,   *)
(* and nothing cancels the derived context of a command that did start.     *)

CancelContext(id) ==
  /\ ~cancelled[id]
  /\ cancelled' = [cancelled EXCEPT ![id] = TRUE]
  /\ UNCHANGED <<osVars, opts, status, exitCode, done, killNotified, readers,
                 waiter, waitErr, watcher, sent>>

DetachedContext(id) == cancelled[id] /\ opts[id].detach
procCtxDone(id) == cancelled[id] /\ ~opts[id].detach

WatcherStep(id, from, to) ==
  /\ watcher[id] = from
  /\ watcher' = [watcher EXCEPT ![id] = to]
  /\ UNCHANGED <<opts, status, exitCode, done, killNotified, readers, waiter,
                 waitErr, cancelled, sent>>

WatcherWakes(id) ==
  /\ procCtxDone(id)
  /\ WatcherStep(id, "waiting", IF IsRunning(id) THEN "killing" ELSE "ended")
  /\ UNCHANGED osVars

WatcherKills(id) == WatcherStep(id, "killing", "ended") /\ KillLeader(id)

-----------------------------------------------------------------------------
(* kill, killTree and terminate, under p.mu, on a running record.           *)

signalsGroup(id) == opts[id].killGroup /\ opts[id].detach

\* Whether the signal finds anybody: os.Process refuses a reaped leader, and
\* kill(2) fails on an empty group.
Reaches(id) == IF signalsGroup(id) THEN GroupExists(id) ELSE LeaderExists(id)

Kill(id) == IF signalsGroup(id) THEN processKillGroup(id) ELSE KillLeader(id)
Terminate(id) == IF signalsGroup(id) THEN processSignalGroup(id)
                                     ELSE processSignal(id)

ProcNext(id) ==
  \/ StreamLine(id) \/ WaiterNext(id)
  \/ \E s \in Streams : StreamEOF(id, s) \/ StreamGivesUp(id, s)
  \/ CancelContext(id) \/ WatcherWakes(id) \/ WatcherKills(id)

OSNext(id) == LeaderExits(id) \/ Forks(id) \/ KidsExit(id)
=============================================================================
