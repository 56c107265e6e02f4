--------------------------- MODULE StdinLockProofs --------------------------
(***************************************************************************)
(* Proofs about StdinLock, for any number of records, senders and callers   *)
(* and any sizes of pipe and payload.                                       *)
(***************************************************************************)
EXTENDS StdinLock, TLAPS

\* Whoever is inside SendInput, CloseStdin or Kill is there on some record.
OnRecord == \A a \in Agents : pc[a] \in {"writing", "kill", "close"} => on[a] \in Ids

OnlySendersWrite == \A a \in Agents : pc[a] = "writing" => a \in Senders

\* cmd.Wait returns for a command that has ended only.
ReapedAreDead == \A id \in Ids : waited[id] => ~alive[id]

LockInv == TypeOK /\ OnRecord /\ OnlySendersWrite /\ ReapedAreDead
           /\ NoWriteAfterClose /\ NoLockLeaked

\* No agent, record or action of the service is inside anything at the start.
LEMMA InitEstablishes == Init => LockInv
  BY AgentsAssumption, SizesAssumption
  DEF Init, LockInv, TypeOK, OnRecord, OnlySendersWrite, ReapedAreDead,
      NoWriteAfterClose, NoLockLeaked, Agents

\* The pipe never holds more than it can, and a call never owes a negative rest.
LEMMA SendKeeps ==
  ASSUME LockInv, NEW a \in Senders,
         SendWrites(a) \/ SendReturns(a) \/ \E id \in Ids : SendBegins(a, id)
  PROVE  LockInv'
<1> USE AgentsAssumption, SizesAssumption
    DEF LockInv, TypeOK, OnRecord, OnlySendersWrite, ReapedAreDead, NoWriteAfterClose,
        NoLockLeaked, Agents, recVars, lockVars, tabVars, downVars, cmdVars
<1>1. CASE SendWrites(a)
  BY <1>1 DEF SendWrites
<1>2. CASE SendReturns(a)
  BY <1>2 DEF SendReturns, Idle
<1>3. ASSUME NEW id \in Ids, SendBegins(a, id) PROVE LockInv'
  BY <1>3 DEF SendBegins, MayRead
<1> QED BY <1>1, <1>2, <1>3

\* A command that ends stays dead, and the others are as they were.
LEMMA DeadStay ==
  ASSUME NEW id \in Ids, Ends(id) \/ Dies(id),
         alive \in [Ids -> BOOLEAN], kept \in [Ids -> SUBSET Streams]
  PROVE  /\ alive' \in [Ids -> BOOLEAN] /\ kept' \in [Ids -> SUBSET Streams]
         /\ \A x \in Ids : ~alive[x] => ~alive'[x]
<1>1. CASE Ends(id)
  <2>1. alive' = [alive EXCEPT ![id] = FALSE]
    BY <1>1 DEF Ends
  <2>2. PICK K \in SUBSET Streams : kept' = [kept EXCEPT ![id] = K]
    BY <1>1 DEF Ends, Leaves
  <2> QED BY <2>1, <2>2
<1>2. CASE UNCHANGED <<alive, kept>>
  BY <1>2
<1> QED BY <1>1, <1>2 DEF Dies

\* CloseStdin closes the pipe with no reader of the lock left, so under no write, and
\* leaves the lock to the next.
LEMMA CallerKeeps ==
  ASSUME LockInv, NEW c \in Callers,
         \/ CloseStdin(c) \/ Kill(c) \/ BeginClear(c) \/ Clear(c)
         \/ \E id \in Ids :
              BeginKill(c, id) \/ BeginClose(c, id) \/ ClearVisits(c, id)
  PROVE  LockInv'
<1> USE AgentsAssumption, SizesAssumption
    DEF LockInv, TypeOK, OnRecord, OnlySendersWrite, ReapedAreDead, NoWriteAfterClose,
        NoLockLeaked, Agents, recVars, lockVars, tabVars, downVars, cmdVars, agentVars
<1>1. CASE CloseStdin(c)
  BY <1>1 DEF CloseStdin, Locked, Idle
<1>2. CASE Kill(c)
  <2>1. /\ alive' \in [Ids -> BOOLEAN] /\ kept' \in [Ids -> SUBSET Streams]
        /\ \A x \in Ids : ~alive[x] => ~alive'[x]
    <3>1. /\ Dies(on[c]) /\ on[c] \in Ids
          /\ alive \in [Ids -> BOOLEAN] /\ kept \in [Ids -> SUBSET Streams]
      BY <1>2 DEF Kill
    <3> QED BY <3>1, DeadStay
  <2>2. /\ TypeOK' /\ OnRecord' /\ OnlySendersWrite' /\ ReapedAreDead'
        /\ NoWriteAfterClose'
    BY <1>2, <2>1 DEF Kill, Locked, Idle
  <2>3. /\ writer[on[c]] = c /\ writer' = [writer EXCEPT ![on[c]] = None] /\ on[c] \in Ids
        /\ pc' = [pc EXCEPT ![c] = "idle"] /\ on' = [on EXCEPT ![c] = None]
        /\ pc[c] = "kill"
        /\ UNCHANGED <<status, readers, tableWriter, shutdown, left>>
    BY <1>2 DEF Kill, Locked, Idle
  <2>4. NoLockLeaked'
    <3>1. ASSUME NEW x \in Ids
          PROVE  /\ readers'[x] = {a \in Senders : pc'[a] = "writing" /\ on'[a] = x}
                 /\ {writer'[x]} \cap Callers =
                      {d \in Callers : pc'[d] \in {"kill", "close"} /\ on'[d] = x}
      BY <2>3
    <3>2. ASSUME NEW x \in Ids
          PROVE  /\ writer'[x] \in Ids =>
                      writer'[x] = x /\ ~alive'[x] /\ status'[x] = "running"
                 /\ writer'[x] = "OnShutdown" => shutdown' = "killing" /\ x \in left'
      BY <2>1, <2>3
    <3>3. {tableWriter'} \cap Callers = {d \in Callers : pc'[d] = "clear"}
      BY <2>3
    <3> QED BY <3>1, <3>2, <3>3
  <2> QED BY <2>2, <2>4
<1>3. CASE BeginClear(c)
  BY <1>3 DEF BeginClear
<1>4. CASE Clear(c)
  BY <1>4 DEF Clear, Idle
<1>5. ASSUME NEW id \in Ids, BeginKill(c, id) PROVE LockInv'
  BY <1>5 DEF BeginKill, Announce
<1>6. ASSUME NEW id \in Ids, BeginClose(c, id) PROVE LockInv'
  BY <1>6 DEF BeginClose, Announce
<1>7. ASSUME NEW id \in Ids, ClearVisits(c, id) PROVE LockInv'
  BY <1>7 DEF ClearVisits
<1> QED BY <1>1, <1>2, <1>3, <1>4, <1>5, <1>6, <1>7

\* The command, the waiter and OnShutdown leave the stdin of a record as it is, and
\* take and release its lock in one place each.
LEMMA RestKeeps ==
  ASSUME LockInv,
         \/ ShutdownLists \/ ShutdownListed \/ ShutdownEnds
         \/ \E id \in Ids :
              \/ CommandReads(id) \/ CommandExits(id) \/ DescendantCloses(id)
              \/ WaiterReaps(id) \/ WaiterLocks(id) \/ WaiterStores(id)
              \/ ShutdownAsks(id) \/ ShutdownLocks(id) \/ killTree(id)
  PROVE  LockInv'
<1> USE AgentsAssumption, SizesAssumption
    DEF LockInv, TypeOK, OnRecord, OnlySendersWrite, ReapedAreDead, NoWriteAfterClose,
        NoLockLeaked, Agents, recVars, lockVars, tabVars, downVars, cmdVars, agentVars
<1>1. CASE ShutdownLists \/ ShutdownListed \/ ShutdownEnds
  BY <1>1 DEF ShutdownLists, ShutdownListed, ShutdownEnds
<1>2. ASSUME NEW id \in Ids, CommandReads(id) PROVE LockInv'
  <2>1. unread[id] - 1 \in 0..Capacity
    BY <1>2 DEF CommandReads
  <2> QED BY <1>2, <2>1 DEF CommandReads
<1>8. ASSUME NEW id \in Ids, CommandExits(id) PROVE LockInv'
  <2>1. Ends(id) /\ UNCHANGED <<unread, waited>>
    BY <1>8 DEF CommandExits
  <2>2. UNCHANGED <<recVars, lockVars, tabVars, agentVars, downVars>>
    BY <1>8 DEF CommandExits
  <2>3. /\ alive' \in [Ids -> BOOLEAN] /\ kept' \in [Ids -> SUBSET Streams]
        /\ \A x \in Ids : ~alive[x] => ~alive'[x]
    BY <2>1, DeadStay
  <2> QED BY <2>1, <2>2, <2>3
<1>9. ASSUME NEW id \in Ids, DescendantCloses(id) PROVE LockInv'
  <2>1. kept' \in [Ids -> SUBSET Streams]
    BY <1>9 DEF DescendantCloses
  <2> QED BY <1>9, <2>1 DEF DescendantCloses
<1>10. ASSUME NEW id \in Ids, WaiterReaps(id) PROVE LockInv'
  <2>1. /\ ~alive[id] /\ waited' = [waited EXCEPT ![id] = TRUE]
        /\ kept' = [kept EXCEPT ![id] = {}] /\ unread' = [unread EXCEPT ![id] = 0]
    BY <1>10 DEF WaiterReaps, Reaps
  <2>2. UNCHANGED <<alive, recVars, lockVars, tabVars, agentVars, downVars>>
    BY <1>10 DEF WaiterReaps
  <2>3. /\ waited' \in [Ids -> BOOLEAN] /\ kept' \in [Ids -> SUBSET Streams]
        /\ unread' \in [Ids -> 0..Capacity]
    BY <2>1
  <2>4. ReapedAreDead'
    BY <2>1, <2>2
  <2> QED BY <2>2, <2>3, <2>4
<1>3. ASSUME NEW id \in Ids, WaiterLocks(id) PROVE LockInv'
  BY <1>3 DEF WaiterLocks, Announce
<1>4. ASSUME NEW id \in Ids, WaiterStores(id) PROVE LockInv'
  BY <1>4 DEF WaiterStores, Locked
<1>5. ASSUME NEW id \in Ids, ShutdownAsks(id) PROVE LockInv'
  BY <1>5 DEF ShutdownAsks
<1>6. ASSUME NEW id \in Ids, ShutdownLocks(id) PROVE LockInv'
  BY <1>6 DEF ShutdownLocks, Announce
<1>7. ASSUME NEW id \in Ids, killTree(id) PROVE LockInv'
  <2>1. /\ alive' \in [Ids -> BOOLEAN] /\ kept' \in [Ids -> SUBSET Streams]
        /\ \A x \in Ids : ~alive[x] => ~alive'[x]
    <3>1. /\ Dies(id)
          /\ alive \in [Ids -> BOOLEAN] /\ kept \in [Ids -> SUBSET Streams]
      BY <1>7 DEF killTree
    <3> QED BY <3>1, DeadStay
  <2>2. /\ TypeOK' /\ OnRecord' /\ OnlySendersWrite' /\ ReapedAreDead'
        /\ NoWriteAfterClose'
    BY <1>7, <2>1 DEF killTree, Locked
  <2>3. /\ writer[id] = "OnShutdown" /\ writer' = [writer EXCEPT ![id] = None]
        /\ left' = left \ {id} /\ "OnShutdown" \notin Callers /\ None \notin Callers
        /\ UNCHANGED <<status, readers, pc, on, tableWriter, shutdown>>
    BY <1>7 DEF killTree, Locked
  <2>4. NoLockLeaked'
    <3>1. ASSUME NEW x \in Ids
          PROVE  /\ readers'[x] = {a \in Senders : pc'[a] = "writing" /\ on'[a] = x}
                 /\ {writer'[x]} \cap Callers =
                      {d \in Callers : pc'[d] \in {"kill", "close"} /\ on'[d] = x}
      BY <2>3
    <3>2. ASSUME NEW x \in Ids
          PROVE  /\ writer'[x] \in Ids =>
                      writer'[x] = x /\ ~alive'[x] /\ status'[x] = "running"
                 /\ writer'[x] = "OnShutdown" => shutdown' = "killing" /\ x \in left'
      BY <2>1, <2>3
    <3> QED BY <2>3, <3>1, <3>2
  <2> QED BY <2>2, <2>4
<1> QED BY <1>1, <1>2, <1>3, <1>4, <1>5, <1>6, <1>7, <1>8, <1>9, <1>10

\* Every step of the system keeps the invariant.
LEMMA NextKeeps == LockInv /\ [Next]_vars => LockInv'
<1> SUFFICES ASSUME LockInv, [Next]_vars PROVE LockInv'
  OBVIOUS
<1>1. CASE Next
  BY <1>1, SendKeeps, CallerKeeps, RestKeeps DEF Next
<1>2. CASE UNCHANGED vars
  BY <1>2 DEF vars, recVars, lockVars, tabVars, downVars, cmdVars, agentVars,
              LockInv, TypeOK, OnRecord, OnlySendersWrite, ReapedAreDead,
              NoWriteAfterClose, NoLockLeaked
<1> QED BY <1>1, <1>2

\* The inductive invariant holds in every reachable state (process.go:318-350).
THEOREM LockInvariant == Spec => []LockInv
  BY InitEstablishes, NextKeeps, PTL DEF Spec

\* The model keeps its types; the pipe never holds more than its capacity.
THEOREM StdinTypeCorrect == Spec => []TypeOK
<1>1. LockInv => TypeOK
  BY DEF LockInv
<1> QED BY <1>1, LockInvariant, PTL

\* CloseStdin never closes the pipe under a write, however many goroutines send
\* and close (process.go:319, 340).
THEOREM NoWriteAfterCloseCorrect == Spec => []NoWriteAfterClose
<1>1. LockInv => NoWriteAfterClose
  BY DEF LockInv
<1> QED BY <1>1, LockInvariant, PTL

\* Every lock has the holder that will release it, for any number of goroutines
\* (process.go:190, 318-350).
THEOREM NoLockLeakedCorrect == Spec => []NoLockLeaked
<1>1. LockInv => NoLockLeaked
  BY DEF LockInv
<1> QED BY <1>1, LockInvariant, PTL
=============================================================================
