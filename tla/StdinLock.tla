------------------------------ MODULE StdinLock -----------------------------
(****************************************************************************)
(* SendInput writes to the command's stdin while it holds p.mu for reading  *)
(* (process.go:318-332), and a pipe that nobody reads is full after         *)
(* Capacity units. This module opens the critical sections of p.mu and s.mu *)
(* that Service takes as single steps. A sync.RWMutex has at most one       *)
(* announced writer; while there is one, no reader enters, and the writer   *)
(* enters when the readers are gone. A command that ends may leave          *)
(* descendants behind that keep its stdin or its output open: the first     *)
(* keep a write from failing, the second keep the waiter from cmd.Wait.     *)
(****************************************************************************)
EXTENDS Integers, FiniteSets

CONSTANTS
  Ids,              \* records, all started and listed
  Parents,          \* records whose commands may leave descendants behind
  Senders,          \* goroutines that call SendInput
  Callers,          \* goroutines that call Kill, CloseStdin and Clear
  None,
  Capacity,         \* units that the stdin pipe holds
  Payload           \* units of one SendInput

ASSUME AgentsAssumption ==
  /\ Ids # {} /\ Parents \subseteq Ids /\ Senders \cap Callers = {}
  /\ (Senders \cup Callers) \cap Ids = {}
  /\ None \notin Ids \cup Senders \cup Callers \cup {"OnShutdown"}
  /\ "OnShutdown" \notin Ids \cup Senders \cup Callers
ASSUME SizesAssumption == Capacity \in Nat \ {0} /\ Payload \in Nat \ {0}

VARIABLES
  alive, unread,        \* the command, and what is not yet read of its stdin
  kept,                 \* what descendants of a command that ended keep open
  waited,               \* cmd.Wait has returned, and has closed our end of stdin
  status, stdin,        \* p.Status; whether p.stdin is still set
  readers, writer,      \* p.mu: SendInput calls inside, announced writer
  table, tableWriter,   \* s.processes, and the announced writer of s.mu
  visit,                \* records that this writer, Clear, has yet to look at
  pc, on, todo,         \* agents; the units left of a SendInput
  shutdown, left, procs \* OnShutdown: stage, records to visit, victims

cmdVars == <<alive, unread, kept, waited>>
recVars == <<status, stdin>>
lockVars == <<readers, writer>>
tabVars == <<table, tableWriter, visit>>
agentVars == <<pc, on, todo>>
downVars == <<shutdown, left, procs>>
vars == <<cmdVars, recVars, lockVars, tabVars, agentVars, downVars>>

Agents == Senders \cup Callers
Streams == {"stdin", "output"}

Idle(a) == pc' = [pc EXCEPT ![a] = "idle"] /\ on' = [on EXCEPT ![a] = None]

TypeOK ==
  /\ alive \in [Ids -> BOOLEAN] /\ unread \in [Ids -> 0..Capacity]
  /\ kept \in [Ids -> SUBSET Streams] /\ waited \in [Ids -> BOOLEAN]
  /\ status \in [Ids -> {"running", "final"}] /\ stdin \in [Ids -> BOOLEAN]
  /\ readers \in [Ids -> SUBSET Senders]
  /\ writer \in [Ids -> Callers \cup Ids \cup {"OnShutdown", None}]
  /\ table \subseteq Ids /\ visit \subseteq Ids
  /\ tableWriter \in Callers \cup {None}
  /\ pc \in [Agents -> {"idle", "writing", "kill", "close", "clear"}]
  /\ on \in [Agents -> Ids \cup {None}] /\ todo \in [Senders -> 0..Payload]
  /\ shutdown \in {"idle", "listing", "killing", "done"}
  /\ left \subseteq Ids /\ procs \subseteq Ids

Init ==
  /\ alive = [id \in Ids |-> TRUE] /\ unread = [id \in Ids |-> 0]
  /\ kept = [id \in Ids |-> {}] /\ waited = [id \in Ids |-> FALSE]
  /\ status = [id \in Ids |-> "running"] /\ stdin = [id \in Ids |-> TRUE]
  /\ readers = [id \in Ids |-> {}] /\ writer = [id \in Ids |-> None]
  /\ table = Ids /\ tableWriter = None /\ visit = {}
  /\ pc = [a \in Agents |-> "idle"] /\ on = [a \in Agents |-> None]
  /\ todo = [a \in Senders |-> 0]
  /\ shutdown = "idle" /\ left = {} /\ procs = {}

-----------------------------------------------------------------------------
(* p.mu.                                                                    *)

MayRead(id) == writer[id] = None
Announce(a, id) == writer[id] = None /\ writer' = [writer EXCEPT ![id] = a]

\* The writer's critical section, from the moment the last reader is gone.
LockIgnoresReaders(a, id) ==
  writer[id] = a /\ writer' = [writer EXCEPT ![id] = None]
Locked(a, id) ==
  /\ writer[id] = a /\ readers[id] = {}
  /\ writer' = [writer EXCEPT ![id] = None]

-----------------------------------------------------------------------------
(* The command.                                                             *)

HasReader(id) == alive[id] \/ "stdin" \in kept[id]

CommandReads(id) ==
  /\ HasReader(id) /\ unread[id] > 0
  /\ unread' = [unread EXCEPT ![id] = @ - 1]
  /\ UNCHANGED <<alive, kept, waited, recVars, lockVars, tabVars, agentVars, downVars>>

\* Whether a signal also reached the descendants is left open.
Leaves(id) == IF id \in Parents THEN SUBSET Streams ELSE {{}}

Ends(id) ==
  /\ alive' = [alive EXCEPT ![id] = FALSE]
  /\ \E K \in Leaves(id) : kept' = [kept EXCEPT ![id] = K]

CommandExits(id) ==
  /\ alive[id] /\ Ends(id)
  /\ UNCHANGED <<unread, waited, recVars, lockVars, tabVars, agentVars, downVars>>

DescendantCloses(id) ==
  /\ \E k \in kept[id] : kept' = [kept EXCEPT ![id] = @ \ {k}]
  /\ UNCHANGED <<alive, unread, waited, recVars, lockVars, tabVars, agentVars, downVars>>

-----------------------------------------------------------------------------
(* SendInput and CloseStdin.                                                *)

SendBegins(a, id) ==
  /\ pc[a] = "idle" /\ MayRead(id) /\ status[id] = "running" /\ stdin[id]
  /\ readers' = [readers EXCEPT ![id] = @ \cup {a}]
  /\ pc' = [pc EXCEPT ![a] = "writing"] /\ on' = [on EXCEPT ![a] = id]
  /\ todo' = [todo EXCEPT ![a] = Payload]
  /\ UNCHANGED <<cmdVars, recVars, writer, tabVars, downVars>>

WritesPastCapacity(a) ==
  LET id == on[a] IN
  /\ pc[a] = "writing" /\ todo[a] > 0 /\ HasReader(id) /\ ~waited[id]
  /\ unread' = [unread EXCEPT ![id] = @ + 1]
  /\ todo' = [todo EXCEPT ![a] = @ - 1]
  /\ UNCHANGED <<alive, kept, waited, recVars, lockVars, tabVars, pc, on, downVars>>
SendWrites(a) ==
  LET id == on[a] IN
  /\ pc[a] = "writing" /\ todo[a] > 0 /\ HasReader(id) /\ ~waited[id]
  /\ unread[id] < Capacity
  /\ unread' = [unread EXCEPT ![id] = @ + 1]
  /\ todo' = [todo EXCEPT ![a] = @ - 1]
  /\ UNCHANGED <<alive, kept, waited, recVars, lockVars, tabVars, pc, on, downVars>>

\* All is written, or the pipe has no reader any more (EPIPE), or cmd.Wait has closed
\* it (os.ErrClosed).
WriteEnds(a) == todo[a] = 0 \/ ~HasReader(on[a]) \/ waited[on[a]]

KeepsLock(a) ==
  /\ pc[a] = "writing"
  /\ WriteEnds(a)
  /\ Idle(a) /\ todo' = [todo EXCEPT ![a] = 0]
  /\ UNCHANGED <<cmdVars, recVars, lockVars, tabVars, downVars>>
SendReturns(a) ==
  /\ pc[a] = "writing"
  /\ WriteEnds(a)
  /\ Idle(a) /\ todo' = [todo EXCEPT ![a] = 0]
  /\ readers' = [readers EXCEPT ![on[a]] = @ \ {a}]
  /\ UNCHANGED <<cmdVars, recVars, writer, tabVars, downVars>>

BeginClose(c, id) ==
  /\ pc[c] = "idle" /\ Announce(c, id)
  /\ pc' = [pc EXCEPT ![c] = "close"] /\ on' = [on EXCEPT ![c] = id]
  /\ UNCHANGED <<cmdVars, recVars, readers, tabVars, todo, downVars>>

CloseStdin(c) ==
  /\ pc[c] = "close" /\ Locked(c, on[c])
  /\ Idle(c) /\ stdin' = [stdin EXCEPT ![on[c]] = FALSE]
  /\ UNCHANGED <<cmdVars, status, readers, tabVars, todo, downVars>>

-----------------------------------------------------------------------------
(* Kill, the waiter, Clear.                                                 *)

\* By now Service.Kill has the record and has released s.mu (Get).
BeginKill(c, id) ==
  /\ pc[c] = "idle" /\ Announce(c, id)
  /\ pc' = [pc EXCEPT ![c] = "kill"] /\ on' = [on EXCEPT ![c] = id]
  /\ UNCHANGED <<cmdVars, recVars, readers, tabVars, todo, downVars>>

Dies(id) ==
  IF alive[id] /\ status[id] = "running" THEN Ends(id) ELSE UNCHANGED <<alive, kept>>

Kill(c) ==
  /\ pc[c] = "kill" /\ Locked(c, on[c]) /\ Dies(on[c]) /\ Idle(c)
  /\ UNCHANGED <<unread, waited, recVars, readers, tabVars, todo, downVars>>

\* cmd.Wait closes our end of stdin: what is left in the pipe, and who may still read
\* it, is of no consequence from here on.
Reaps(id) ==
  /\ waited' = [waited EXCEPT ![id] = TRUE]
  /\ kept' = [kept EXCEPT ![id] = {}] /\ unread' = [unread EXCEPT ![id] = 0]

\* The output is at its end, then cmd.Wait returns: it needs no lock.
WaiterReapsUnderLock(id) ==
  /\ ~alive[id] /\ "output" \notin kept[id] /\ ~waited[id]
  /\ readers[id] = {} /\ writer[id] = None
  /\ Reaps(id)
  /\ UNCHANGED <<alive, recVars, lockVars, tabVars, agentVars, downVars>>
WaiterReaps(id) ==
  /\ ~alive[id] /\ "output" \notin kept[id] /\ ~waited[id]
  /\ Reaps(id)
  /\ UNCHANGED <<alive, recVars, lockVars, tabVars, agentVars, downVars>>

WaiterLocks(id) ==
  /\ waited[id] /\ status[id] = "running" /\ Announce(id, id)
  /\ UNCHANGED <<cmdVars, recVars, readers, tabVars, agentVars, downVars>>

WaiterStores(id) ==
  /\ Locked(id, id) /\ status' = [status EXCEPT ![id] = "final"]
  /\ UNCHANGED <<cmdVars, stdin, readers, tabVars, agentVars, downVars>>

\* Clear holds s.mu for writing while it asks record after record whether it is
\* running; OnShutdown holds s.mu for reading while it makes its list.
BeginClear(c) ==
  /\ pc[c] = "idle" /\ tableWriter = None
  /\ pc' = [pc EXCEPT ![c] = "clear"]
  /\ tableWriter' = c /\ visit' = table
  /\ UNCHANGED <<cmdVars, recVars, lockVars, table, on, todo, downVars>>

ClearVisits(c, id) ==
  /\ tableWriter = c /\ shutdown # "listing" /\ id \in visit /\ MayRead(id)
  /\ visit' = visit \ {id}
  /\ table' = IF status[id] = "running" THEN table ELSE table \ {id}
  /\ UNCHANGED <<cmdVars, recVars, lockVars, tableWriter, agentVars, downVars>>

Clear(c) ==
  /\ tableWriter = c /\ shutdown # "listing" /\ visit = {}
  /\ tableWriter' = None /\ Idle(c)
  /\ UNCHANGED <<cmdVars, recVars, lockVars, table, visit, todo, downVars>>

-----------------------------------------------------------------------------
(* OnShutdown.                                                              *)

ShutdownLists ==
  /\ shutdown = "idle" /\ tableWriter = None
  /\ shutdown' = "listing" /\ left' = table
  /\ UNCHANGED <<cmdVars, recVars, lockVars, tabVars, agentVars, procs>>

ShutdownAsks(id) ==
  /\ shutdown = "listing" /\ id \in left /\ MayRead(id)
  /\ left' = left \ {id}
  /\ procs' = IF status[id] = "running" THEN procs \cup {id} ELSE procs
  /\ UNCHANGED <<cmdVars, recVars, lockVars, tabVars, agentVars, shutdown>>

ShutdownListed ==
  /\ shutdown = "listing" /\ left = {}
  /\ shutdown' = "killing" /\ left' = procs /\ procs' = {}
  /\ UNCHANGED <<cmdVars, recVars, lockVars, tabVars, agentVars>>

ShutdownLocks(id) ==
  /\ shutdown = "killing" /\ id \in left
  /\ \A x \in Ids : writer[x] # "OnShutdown"
  /\ Announce("OnShutdown", id)
  /\ UNCHANGED <<cmdVars, recVars, readers, tabVars, agentVars, downVars>>

killTree(id) ==
  /\ Locked("OnShutdown", id) /\ Dies(id)
  /\ left' = left \ {id}
  /\ UNCHANGED <<unread, waited, recVars, readers, tabVars, agentVars, shutdown, procs>>

ShutdownEnds ==
  /\ shutdown = "killing" /\ left = {} /\ shutdown' = "done"
  /\ UNCHANGED <<cmdVars, recVars, lockVars, tabVars, agentVars, left, procs>>

-----------------------------------------------------------------------------

Next ==
  \/ \E id \in Ids :
       \/ CommandReads(id) \/ CommandExits(id) \/ DescendantCloses(id)
       \/ WaiterReaps(id) \/ WaiterLocks(id) \/ WaiterStores(id)
       \/ ShutdownAsks(id) \/ ShutdownLocks(id) \/ killTree(id)
       \/ \E a \in Senders : SendBegins(a, id)
       \/ \E c \in Callers :
            BeginKill(c, id) \/ BeginClose(c, id) \/ ClearVisits(c, id)
  \/ \E a \in Senders : SendWrites(a) \/ SendReturns(a)
  \/ \E c \in Callers : CloseStdin(c) \/ Kill(c) \/ BeginClear(c) \/ Clear(c)
  \/ ShutdownLists \/ ShutdownListed \/ ShutdownEnds

Spec == Init /\ [][Next]_vars

\* Whoever has announced itself to p.mu gets in and out of it, a SendInput that
\* can go on does, and OnShutdown does too: sync.RWMutex starves nobody, so its
\* locks are taken although others come and go in between (strong fairness).  The
\* waiter runs when the output is at its end; nothing makes a command read or end, nor
\* a descendant close what it keeps.
Fairness ==
  /\ \A id \in Ids :
       /\ SF_vars(WaiterReaps(id) \/ WaiterLocks(id))
       /\ WF_vars(WaiterStores(id) \/ killTree(id))
       /\ SF_vars(ShutdownAsks(id) \/ ShutdownLocks(id))
  /\ \A a \in Senders : WF_vars(SendWrites(a) \/ SendReturns(a))
  /\ \A c \in Callers : WF_vars(CloseStdin(c) \/ Kill(c))
  /\ WF_vars(ShutdownListed \/ ShutdownEnds)

FairSpec == Spec /\ Fairness

-----------------------------------------------------------------------------
(* Properties.                                                              *)

\* CloseStdin never closes the pipe under a write, and no write begins after it
\* (cmd.Wait closes it too, but only when the command is dead):
\* the lock that SendInput keeps is what makes that so (process.go:319, 340).
NoWriteAfterClose ==
  \A a \in Senders : pc[a] = "writing" => stdin[on[a]] /\ a \in readers[on[a]]

\* No lock is left behind and nobody waits for one without having announced it: who
\* is inside p.mu or next in line for it are the goroutines that stand at that call,
\* whichever way a SendInput ended and whoever killed the command in between.  One
\* lock that is kept would stop every later Kill of its record and OnShutdown.
NoLockLeaked ==
  /\ \A id \in Ids :
       /\ readers[id] = {a \in Senders : pc[a] = "writing" /\ on[a] = id}
       /\ {writer[id]} \cap Callers =
            {c \in Callers : pc[c] \in {"kill", "close"} /\ on[c] = id}
       /\ writer[id] \in Ids => writer[id] = id /\ ~alive[id] /\ status[id] = "running"
       /\ writer[id] = "OnShutdown" => shutdown = "killing" /\ id \in left
  /\ {tableWriter} \cap Callers = {c \in Callers : pc[c] = "clear"}

\* A stalled OnShutdown has one cause only, a SendInput that is stuck for ever:
\* if every SendInput returns, so does OnShutdown, although kills, Clear and the
\* waiters take the same locks.
StallsOnlyOnInput ==
  (\A a \in Senders : []<>(pc[a] # "writing")) =>
    (shutdown = "listing" ~> shutdown = "done")

\* A command that has ended is recorded as ended once its output is, although a
\* SendInput may be stuck in a full pipe that a descendant keeps open, inside the lock
\* that the waiter needs, with kills and OnShutdown in line for it: cmd.Wait comes
\* before p.mu.Lock and closes the pipe under the write (service.go:313-321,
\* process.go:319-330).  So a stuck SendInput does not outlive its command for ever.
DeathIsRecorded ==
  \A id \in Ids : (~alive[id] /\ "output" \notin kept[id]) ~> status[id] = "final"

\* service.go:105 says that OnShutdown "Immediately kills all running processes to
\* avoid shutdown stalls".
ShutdownReturns == shutdown = "listing" ~> shutdown = "done"
=============================================================================
