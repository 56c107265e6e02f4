---------------------------- MODULE ServiceProofs ---------------------------
(***************************************************************************)
(* Proofs about Service, for any number of records, callers and retries:    *)
(* types; LifecycleInv, with the safety properties and the framing of       *)
(* output; the contract of every record.                                    *)
(***************************************************************************)
EXTENDS Service, TLAPS

-----------------------------------------------------------------------------
(* Types.                                                                   *)

\* The initial states have the declared types.
LEMMA InitTypeOK == Init => TypeOK
<1>. SUFFICES ASSUME Init PROVE TypeOK
  OBVIOUS
<1>1. OSTypeOK
  BY DEF Init, OSInit, OSTypeOK, LeaderStates, Causes
<1>2. ProcTypeOK
  BY ProfilesAssumption DEF Init, ProcInit, ProcTypeOK, Statuses, Final, WaiterStates,
     WatcherStates, Actions, Causes, OptionSet
<1>3. on \in [Agents -> Ids]
  BY IdsAssumption DEF Init, Agents
<1>. QED
  BY <1>1, <1>2, <1>3, MaxRetriesAssumption DEF Init, TypeOK, Phases, AgentStates

\* Every signal and every system event keeps the operating system's types.
LEMMA OSStepTypeOK ==
  ASSUME OSTypeOK, NEW id \in Ids,
         UNCHANGED osVars \/ OSNext(id) \/ SpawnLeader(id) \/ Reap(id)
         \/ KillLeader(id) \/ processKillGroup(id) \/ Kill(id) \/ Terminate(id)
         \/ processSignalGroup(id)
  PROVE  OSTypeOK'
BY DEF OSTypeOK, osVars, OSNext, SpawnLeader, Reap, KillLeader, processKillGroup,
   Kill, Terminate, processSignal, processSignalGroup, LeaderExits, Forks,
   KidsExit, LeaderEnds, LeaderStates, Causes

\* Broadcasting an event keeps the event counters natural numbers.
LEMMA BroadcastType ==
  ASSUME sent \in [Ids -> [Actions -> Nat]], NEW id \in Ids, NEW a \in Actions,
         Broadcast(id, a)
  PROVE  sent' \in [Ids -> [Actions -> Nat]]
BY DEF Broadcast

\* Every step of StartWithOptions keeps the types.
LEMMA StartTypeOK ==
  ASSUME TypeOK, NEW id \in Ids, StartNext(id)
  PROVE  TypeOK'
<1>. USE DEF TypeOK, ProcTypeOK, Statuses, Final, WaiterStates, WatcherStates,
       Actions, Streams, Phases, AgentStates, Agents, StartStep, osVars
<1>1. CASE StartSucceeds(id)
  BY <1>1, OSStepTypeOK DEF StartSucceeds
<1>2. CASE Store(id)
  BY <1>2, OSStepTypeOK DEF Store
<1>3. CASE AnnounceStart(id)
  BY <1>3, OSStepTypeOK, BroadcastType DEF AnnounceStart
<1>4. CASE StartFails(id)
  BY <1>4, OSStepTypeOK DEF StartFails
<1>5. CASE RejectCloses(id)
  BY <1>5, OSStepTypeOK DEF RejectCloses
<1>6. CASE RejectAnnounces(id)
  BY <1>6, OSStepTypeOK, BroadcastType DEF RejectAnnounces
<1>. QED
  BY <1>1, <1>2, <1>3, <1>4, <1>5, <1>6 DEF StartNext

\* Every step of the readers, the waiter and the watcher keeps the types.
LEMMA ProcStepTypeOK ==
  ASSUME TypeOK, NEW id \in Ids, ProcNext(id) /\ UNCHANGED svcVars
  PROVE  TypeOK'
<1>. USE DEF TypeOK, ProcTypeOK, Statuses, Final, WaiterStates, WatcherStates,
       Actions, Streams, svcVars, osVars, WaiterStep, WatcherStep
<1>1. CASE StreamLine(id)
  BY <1>1, OSStepTypeOK, BroadcastType DEF StreamLine
<1>2. ASSUME NEW s \in Streams, StreamEOF(id, s) \/ StreamGivesUp(id, s)
      PROVE  TypeOK'
  BY <1>2, OSStepTypeOK DEF StreamEOF, StreamGivesUp, ReaderEnds
<1>3. CASE WaiterReaps(id)
  BY <1>3, OSStepTypeOK DEF WaiterReaps, OSTypeOK
<1>4. CASE WaiterClassifies(id)
  BY <1>4, OSStepTypeOK DEF WaiterClassifies, classifyProcessExit
<1>5. CASE WaiterCloses(id)
  BY <1>5, OSStepTypeOK DEF WaiterCloses
<1>6. CASE WaiterClaims(id)
  BY <1>6, OSStepTypeOK DEF WaiterClaims, ClaimKilled
<1>7. CASE WaiterSkips(id)
  BY <1>7, OSStepTypeOK DEF WaiterSkips
<1>8. CASE WaiterAnnouncesKilled(id)
  BY <1>8, OSStepTypeOK, BroadcastType DEF WaiterAnnouncesKilled
<1>9. CASE WaiterAnnouncesExit(id)
  BY <1>9, OSStepTypeOK, BroadcastType DEF WaiterAnnouncesExit
<1>10. CASE CancelContext(id)
  BY <1>10, OSStepTypeOK DEF CancelContext
<1>11. CASE WatcherWakes(id) \/ WatcherKills(id)
  BY <1>11, OSStepTypeOK DEF WatcherWakes, WatcherKills
<1>. QED
  BY <1>1, <1>2, <1>3, <1>4, <1>5, <1>6, <1>7, <1>8, <1>9, <1>10, <1>11
  DEF ProcNext, WaiterNext

\* Every step of a caller or a watchdog keeps the types.
LEMMA AgentTypeOK ==
  ASSUME TypeOK, NEW a \in Agents, AgentNext(a)
  PROVE  TypeOK'
<1>. USE DEF TypeOK, ProcTypeOK, AgentStates, Goto, unchangedButOS, procVars, osVars
<1>1. on[a] \in Ids
  OBVIOUS
<1>2. CASE KillSends(a)
  BY <1>1, <1>2, OSStepTypeOK DEF KillSends
<1>3. CASE KillFindsFinished(a) \/ TerminateFindsFinished(a) \/ GraceExpires(a)
           \/ SeesDone(a) \/ RetryStops(a)
  BY <1>1, <1>3, OSStepTypeOK
  DEF KillFindsFinished, TerminateFindsFinished, GraceExpires, SeesDone, RetryStops
<1>4. CASE Notify(a)
  BY <1>1, <1>4, OSStepTypeOK DEF Notify, ClaimKilled
<1>5. CASE AnnounceKilled(a)
  BY <1>1, <1>5, OSStepTypeOK, BroadcastType DEF AnnounceKilled, Actions
<1>6. CASE TerminateSends(a)
  BY <1>1, <1>6, OSStepTypeOK DEF TerminateSends
<1>7. CASE SignalSends(a)
  BY <1>1, <1>7, OSStepTypeOK, MaxRetriesAssumption DEF SignalSends
<1>8. CASE Retry(a)
  BY <1>1, <1>8, OSStepTypeOK, MaxRetriesAssumption DEF Retry
<1>9. CASE Escalate(a)
  BY <1>1, <1>9, OSStepTypeOK DEF Escalate
<1>. QED
  BY <1>2, <1>3, <1>4, <1>5, <1>6, <1>7, <1>8, <1>9 DEF AgentNext

\* Every call that a caller begins keeps the types.
LEMMA CommandTypeOK ==
  ASSUME TypeOK, NEW c \in Callers, NEW id \in Ids,
         BeginKill(c, id) \/ BeginShutdown(c, id) \/ BeginSignal(c, id)
  PROVE  TypeOK'
<1>1. c \in Agents
  BY DEF Agents
<1>. QED
  BY <1>1, OSStepTypeOK
  DEF TypeOK, ProcTypeOK, AgentStates, BeginKill, BeginShutdown, BeginSignal, Begin,
      Goto, procVars, osVars

\* Remove, Clear and OnShutdown keep the types.
LEMMA TableTypeOK ==
  ASSUME TypeOK, NEW id \in Ids,
         TimeoutExpires(id) \/ Remove(id) \/ Clear \/ ShutdownBegins
         \/ ShutdownKills(id) \/ ShutdownEnds
  PROVE  TypeOK'
<1>. USE DEF TypeOK, ProcTypeOK, AgentStates, Agents, Goto, unchangedButOS,
       unchangedButTable, procVars, osVars
<1>1. CASE TimeoutExpires(id)
  BY <1>1, OSStepTypeOK DEF TimeoutExpires
<1>2. CASE Remove(id) \/ Clear
  BY <1>2, OSStepTypeOK DEF Remove, Clear
<1>3. CASE ShutdownBegins \/ ShutdownEnds
  BY <1>3, OSStepTypeOK DEF ShutdownBegins, ShutdownEnds
<1>4. CASE ShutdownKills(id)
  BY <1>4, OSStepTypeOK DEF ShutdownKills
<1>. QED
  BY <1>1, <1>2, <1>3, <1>4

\* Type correctness is inductive.
LEMMA NextTypeOK == TypeOK /\ [Next]_vars => TypeOK'
<1>. SUFFICES ASSUME TypeOK, [Next]_vars PROVE TypeOK'
  OBVIOUS
<1>1. ASSUME NEW id \in Ids, OSNext(id) /\ UNCHANGED <<procVars, svcVars>>
      PROVE  TypeOK'
  BY <1>1, OSStepTypeOK DEF TypeOK, ProcTypeOK, procVars, svcVars
<1>2. CASE UNCHANGED vars
  BY <1>2, OSStepTypeOK, IdsAssumption
  DEF TypeOK, ProcTypeOK, vars, osVars, procVars, svcVars
<1>3. CASE Clear \/ ShutdownBegins \/ ShutdownEnds
  BY <1>3, TableTypeOK, IdsAssumption
<1>. QED
  BY <1>1, <1>2, <1>3, StartTypeOK, ProcStepTypeOK, AgentTypeOK, CommandTypeOK,
     TableTypeOK DEF Next

\* The model never leaves its types, whatever the constants: in particular a
\* retry goroutine never re-sends more than MaxRetries times.
THEOREM TypeCorrect == Spec => []TypeOK
BY InitTypeOK, NextTypeOK, PTL DEF Spec

-----------------------------------------------------------------------------
(* The inductive invariant, and what follows from it.                       *)

\* LifecycleInv holds before any command is started.
LEMMA InitLifecycleInv == Init => LifecycleInv
BY DEF Init, OSInit, ProcInit, LifecycleInv, StartInv, WaiterInv, ExitedInv,
   KilledInv, ShutdownInv, Announces, Reaped, Classified, Closed, Actions, Agents,
   IsRunning

\* A broadcast counts one event of one record.
LEMMA BroadcastCounts ==
  ASSUME sent \in [Ids -> [Actions -> Nat]], NEW id \in Ids, NEW a \in Actions,
         Broadcast(id, a)
  PROVE  \A j \in Ids, b \in Actions :
           sent'[j][b] = IF j = id /\ b = a THEN sent[j][b] + 1 ELSE sent[j][b]
BY DEF Broadcast

\* A step that leaves the announcements of record j alone, and moves its waiter
\* and its status only where nothing has been announced ...
KilledUntouched(j) ==
  /\ sent'[j]["killed"] = sent[j]["killed"]
  /\ killNotified'[j] = killNotified[j]
  /\ waiter'[j] = "killing" <=> waiter[j] = "killing"
  /\ waiter'[j] \in {"exiting", "ended"} /\ status'[j] = "killed" =>
       killNotified[j]
  /\ \A a \in Agents : Announces(a, j)' <=> Announces(a, j)

\* ... keeps KilledInv.
LEMMA KilledFrame ==
  ASSUME NEW j \in Ids, KilledInv(j), KilledUntouched(j)
  PROVE  KilledInv(j)'
BY DEF KilledInv, KilledUntouched, Announces

\* Every step of StartWithOptions preserves LifecycleInv.
LEMMA StartLifecycleInv ==
  ASSUME TypeOK, LifecycleInv, NEW id \in Ids, StartNext(id)
  PROVE  LifecycleInv'
<1>. SUFFICES ASSUME NEW j \in Ids
              PROVE  /\ StartInv(j)' /\ WaiterInv(j)' /\ ExitedInv(j)'
                     /\ KilledInv(j)' /\ ShutdownInv(j)'
  BY DEF LifecycleInv
<1>. USE DEF TypeOK, OSTypeOK, ProcTypeOK, Actions, Agents, StartStep, osVars,
       Reaped, Classified, Closed, IsRunning
<1>. StartInv(j) /\ WaiterInv(j) /\ ExitedInv(j) /\ KilledInv(j) /\ ShutdownInv(j)
     /\ StartInv(id) /\ WaiterInv(id) /\ ExitedInv(id)
  BY DEF LifecycleInv
<1>1. CASE StartSucceeds(id)
  <2>1. StartInv(j)' /\ WaiterInv(j)' /\ ExitedInv(j)' /\ ShutdownInv(j)'
    BY <1>1 DEF StartSucceeds, SpawnLeader, StartInv, WaiterInv, ExitedInv, ShutdownInv
  <2>2. KilledUntouched(j)
    BY <1>1 DEF StartSucceeds, SpawnLeader, StartInv, KilledInv, KilledUntouched, Announces
  <2>. QED BY <2>1, <2>2, KilledFrame
<1>2. CASE Store(id)
  <2>1. StartInv(j)' /\ WaiterInv(j)' /\ ExitedInv(j)' /\ ShutdownInv(j)'
    BY <1>2 DEF Store, StartInv, WaiterInv, ExitedInv, ShutdownInv
  <2>2. KilledUntouched(j)
    BY <1>2 DEF Store, StartInv, KilledInv, KilledUntouched, Announces
  <2>. QED BY <2>1, <2>2, KilledFrame
<1>3. CASE AnnounceStart(id)
  <2>1. StartInv(j)' /\ WaiterInv(j)' /\ ExitedInv(j)' /\ ShutdownInv(j)'
    BY <1>3, BroadcastCounts DEF AnnounceStart, StartInv, WaiterInv, ExitedInv, ShutdownInv
  <2>2. KilledUntouched(j)
    BY <1>3, BroadcastCounts DEF AnnounceStart, StartInv, KilledInv, KilledUntouched, Announces
  <2>. QED BY <2>1, <2>2, KilledFrame
<1>4. CASE StartFails(id)
  <2>1. StartInv(j)' /\ WaiterInv(j)' /\ ExitedInv(j)' /\ ShutdownInv(j)'
    BY <1>4 DEF StartFails, StartInv, WaiterInv, ExitedInv, ShutdownInv
  <2>2. KilledUntouched(j)
    BY <1>4 DEF StartFails, StartInv, KilledInv, KilledUntouched, Announces
  <2>. QED BY <2>1, <2>2, KilledFrame
<1>5. CASE RejectCloses(id)
  <2>1. StartInv(j)' /\ WaiterInv(j)' /\ ExitedInv(j)' /\ ShutdownInv(j)'
    BY <1>5 DEF RejectCloses, StartInv, WaiterInv, ExitedInv, ShutdownInv
  <2>2. KilledUntouched(j)
    BY <1>5 DEF RejectCloses, StartInv, KilledInv, KilledUntouched, Announces
  <2>. QED BY <2>1, <2>2, KilledFrame
<1>6. CASE RejectAnnounces(id)
  <2>1. StartInv(j)' /\ WaiterInv(j)' /\ ExitedInv(j)' /\ ShutdownInv(j)'
    BY <1>6, BroadcastCounts DEF RejectAnnounces, StartInv, WaiterInv, ExitedInv, ShutdownInv
  <2>2. KilledUntouched(j)
    BY <1>6, BroadcastCounts DEF RejectAnnounces, StartInv, KilledInv, KilledUntouched, Announces
  <2>. QED BY <2>1, <2>2, KilledFrame
<1>. QED
  BY <1>1, <1>2, <1>3, <1>4, <1>5, <1>6 DEF StartNext

\* What the processes do on their own preserves LifecycleInv.
LEMMA OSLifecycleInv ==
  ASSUME TypeOK, LifecycleInv, NEW id \in Ids,
         OSNext(id) /\ UNCHANGED <<procVars, svcVars>>
  PROVE  LifecycleInv'
<1>. SUFFICES ASSUME NEW j \in Ids
              PROVE  /\ StartInv(j)' /\ WaiterInv(j)' /\ ExitedInv(j)'
                     /\ KilledInv(j)' /\ ShutdownInv(j)'
  BY DEF LifecycleInv
<1>. StartInv(j) /\ WaiterInv(j) /\ ExitedInv(j) /\ KilledInv(j) /\ ShutdownInv(j)
  BY DEF LifecycleInv
<1>1. StartInv(j)' /\ WaiterInv(j)' /\ ExitedInv(j)' /\ ShutdownInv(j)'
  BY DEF TypeOK, OSTypeOK, procVars, svcVars, OSNext, LeaderExits, LeaderEnds, Forks,
         KidsExit, Causes, StartInv, WaiterInv, ExitedInv, ShutdownInv, Reaped,
         Classified, Closed, IsRunning
<1>2. KilledUntouched(j)
  BY DEF procVars, svcVars, KilledInv, KilledUntouched, Announces
<1>. QED
  BY <1>1, <1>2, KilledFrame

\* Every step of the readers, the waiter and the watcher preserves it.
LEMMA ProcLifecycleInv ==
  ASSUME TypeOK, LifecycleInv, NEW id \in Ids, ProcNext(id) /\ UNCHANGED svcVars
  PROVE  LifecycleInv'
<1>. SUFFICES ASSUME NEW j \in Ids
              PROVE  /\ StartInv(j)' /\ WaiterInv(j)' /\ ExitedInv(j)'
                     /\ KilledInv(j)' /\ ShutdownInv(j)'
  BY DEF LifecycleInv
<1>. USE DEF TypeOK, OSTypeOK, ProcTypeOK, Actions, Streams, svcVars, osVars, Reaped,
       Classified, Closed, IsRunning, WaiterStep, WatcherStep
<1>. StartInv(j) /\ WaiterInv(j) /\ ExitedInv(j) /\ KilledInv(j) /\ ShutdownInv(j)
     /\ StartInv(id) /\ WaiterInv(id) /\ ExitedInv(id) /\ KilledInv(id)
  BY DEF LifecycleInv
<1>1. CASE StreamLine(id)
  <2>1. StartInv(j)' /\ WaiterInv(j)' /\ ExitedInv(j)' /\ ShutdownInv(j)'
    BY <1>1, BroadcastCounts DEF StreamLine, StartInv, WaiterInv, ExitedInv, ShutdownInv
  <2>2. KilledUntouched(j)
    BY <1>1, BroadcastCounts DEF StreamLine, StartInv, WaiterInv, KilledInv, KilledUntouched, Announces
  <2>. QED BY <2>1, <2>2, KilledFrame
<1>2. ASSUME NEW s \in Streams, StreamEOF(id, s) \/ StreamGivesUp(id, s)
      PROVE  StartInv(j)' /\ WaiterInv(j)' /\ ExitedInv(j)' /\ KilledInv(j)'
             /\ ShutdownInv(j)'
  <2>0. ReaderEnds(id, s)
    BY <1>2 DEF StreamEOF, StreamGivesUp
  <2>1. StartInv(j)' /\ WaiterInv(j)' /\ ExitedInv(j)' /\ ShutdownInv(j)'
    <3>1. readers[id] # {} /\ (j # id => readers'[j] = readers[j])
      BY <2>0 DEF ReaderEnds
    <3>2. readers'[j] # {} => waiter[j] = "streams"
      BY <3>1 DEF WaiterInv
    <3>. QED
      BY <2>0, <3>2 DEF ReaderEnds, StartInv, WaiterInv, ExitedInv, ShutdownInv
  <2>2. KilledUntouched(j)
    BY <2>0 DEF ReaderEnds, StartInv, WaiterInv, KilledInv, KilledUntouched, Announces
  <2>. QED BY <2>1, <2>2, KilledFrame
<1>3. CASE WaiterReaps(id)
  <2>1. StartInv(j)' /\ WaiterInv(j)' /\ ExitedInv(j)' /\ ShutdownInv(j)'
    BY <1>3 DEF WaiterReaps, Reap, StartInv, WaiterInv, ExitedInv, ShutdownInv
  <2>2. KilledUntouched(j)
    BY <1>3 DEF WaiterReaps, Reap, StartInv, WaiterInv, KilledInv, KilledUntouched, Announces
  <2>. QED BY <2>1, <2>2, KilledFrame
<1>4. CASE WaiterClassifies(id)
  <2>1. StartInv(j)' /\ WaiterInv(j)' /\ ExitedInv(j)' /\ ShutdownInv(j)'
    BY <1>4 DEF WaiterClassifies, classifyProcessExit, StartInv, WaiterInv, ExitedInv, ShutdownInv
  <2>2. KilledUntouched(j)
    BY <1>4 DEF WaiterClassifies, classifyProcessExit, StartInv, WaiterInv, KilledInv, KilledUntouched, Announces
  <2>. QED BY <2>1, <2>2, KilledFrame
<1>5. CASE WaiterCloses(id)
  <2>1. StartInv(j)' /\ WaiterInv(j)' /\ ExitedInv(j)' /\ ShutdownInv(j)'
    BY <1>5 DEF WaiterCloses, StartInv, WaiterInv, ExitedInv, ShutdownInv
  <2>2. KilledUntouched(j)
    BY <1>5 DEF WaiterCloses, StartInv, WaiterInv, KilledInv, KilledUntouched, Announces
  <2>. QED BY <2>1, <2>2, KilledFrame
<1>6. CASE WaiterClaims(id)
  <2>1. StartInv(j)' /\ WaiterInv(j)' /\ ExitedInv(j)' /\ ShutdownInv(j)'
    BY <1>6 DEF WaiterClaims, ClaimKilled, StartInv, WaiterInv, ExitedInv, ShutdownInv
  <2>2. KilledInv(j)'
    BY <1>6 DEF WaiterClaims, ClaimKilled, KilledInv, Announces
  <2>. QED BY <2>1, <2>2
<1>7. CASE WaiterSkips(id)
  <2>1. StartInv(j)' /\ WaiterInv(j)' /\ ExitedInv(j)' /\ ShutdownInv(j)'
    BY <1>7 DEF WaiterSkips, StartInv, WaiterInv, ExitedInv, ShutdownInv
  <2>2. KilledUntouched(j)
    BY <1>7 DEF WaiterSkips, StartInv, WaiterInv, KilledInv, KilledUntouched, Announces
  <2>. QED BY <2>1, <2>2, KilledFrame
<1>8. CASE WaiterAnnouncesKilled(id)
  <2>1. StartInv(j)' /\ WaiterInv(j)' /\ ExitedInv(j)' /\ ShutdownInv(j)'
    BY <1>8, BroadcastCounts DEF WaiterAnnouncesKilled, StartInv, WaiterInv, ExitedInv, ShutdownInv
  <2>2. KilledInv(j)'
    BY <1>8, BroadcastCounts DEF WaiterAnnouncesKilled, KilledInv, Announces
  <2>. QED BY <2>1, <2>2
<1>9. CASE WaiterAnnouncesExit(id)
  <2>1. StartInv(j)' /\ WaiterInv(j)' /\ ExitedInv(j)' /\ ShutdownInv(j)'
    BY <1>9, BroadcastCounts DEF WaiterAnnouncesExit, StartInv, WaiterInv, ExitedInv, ShutdownInv
  <2>2. KilledUntouched(j)
    BY <1>9, BroadcastCounts DEF WaiterAnnouncesExit, StartInv, WaiterInv, KilledInv, KilledUntouched, Announces
  <2>. QED BY <2>1, <2>2, KilledFrame
<1>10. CASE CancelContext(id)
  <2>1. StartInv(j)' /\ WaiterInv(j)' /\ ExitedInv(j)' /\ ShutdownInv(j)'
    BY <1>10 DEF CancelContext, StartInv, WaiterInv, ExitedInv, ShutdownInv
  <2>2. KilledUntouched(j)
    BY <1>10 DEF CancelContext, StartInv, WaiterInv, KilledInv, KilledUntouched, Announces
  <2>. QED BY <2>1, <2>2, KilledFrame
<1>11. CASE WatcherWakes(id) \/ WatcherKills(id)
  <2>1. StartInv(j)' /\ WaiterInv(j)' /\ ExitedInv(j)' /\ ShutdownInv(j)'
    BY <1>11 DEF WatcherWakes, WatcherKills, KillLeader, LeaderEnds, StartInv, WaiterInv, ExitedInv, ShutdownInv
  <2>2. KilledUntouched(j)
    BY <1>11 DEF WatcherWakes, WatcherKills, KillLeader, LeaderEnds, StartInv, WaiterInv, KilledInv, KilledUntouched, Announces
  <2>. QED BY <2>1, <2>2, KilledFrame
<1>. QED
  BY <1>1, <1>2, <1>3, <1>4, <1>5, <1>6, <1>7, <1>8, <1>9, <1>10, <1>11
  DEF ProcNext, WaiterNext

\* What a signal, delivered or not, may do to a record's processes.
Signalled(id) ==
  /\ leader' = [leader EXCEPT ![id] = leader'[id]]
  /\ cause' = [cause EXCEPT ![id] = cause'[id]]
  /\ kids' = [kids EXCEPT ![id] = kids'[id]] /\ (kids'[id] => kids[id])
  /\ \/ leader'[id] = leader[id] /\ cause'[id] = cause[id]
     \/ leader[id] = "alive" /\ leader'[id] = "zombie" /\ cause'[id] = "signal"

\* Whatever is signalled, a leader either stays as it was or dies of a signal.
LEMMA SignalsSignal ==
  ASSUME OSTypeOK, NEW id \in Ids,
         UNCHANGED osVars \/ Kill(id) \/ Terminate(id) \/ processSignalGroup(id)
         \/ processKillGroup(id)
  PROVE  Signalled(id)
BY DEF OSTypeOK, osVars, Kill, Terminate, processSignal, processSignalGroup,
   processKillGroup, KillLeader, LeaderEnds, Signalled

\* Every step of a caller or a watchdog preserves LifecycleInv.
LEMMA AgentLifecycleInv ==
  ASSUME TypeOK, LifecycleInv, NEW a \in Agents, AgentNext(a)
  PROVE  LifecycleInv'
<1>. SUFFICES ASSUME NEW j \in Ids
              PROVE  /\ StartInv(j)' /\ WaiterInv(j)' /\ ExitedInv(j)'
                     /\ KilledInv(j)' /\ ShutdownInv(j)'
  BY DEF LifecycleInv
<1>. DEFINE id == on[a]
<1>0. id \in Ids /\ j \in Agents /\ OSTypeOK
  BY DEF TypeOK, Agents
<1>. StartInv(j) /\ WaiterInv(j) /\ ExitedInv(j) /\ KilledInv(j) /\ ShutdownInv(j)
     /\ StartInv(id) /\ KilledInv(id)
  BY <1>0 DEF LifecycleInv
<1>. HIDE DEF id
<1>. USE DEF TypeOK, OSTypeOK, ProcTypeOK, procVars, osVars, Actions, Reaped, Classified,
       Closed, IsRunning, Goto, unchangedButOS
<1>1. pc[a] # "idle" /\ (a \in Ids => phase[a] \notin {"absent", "spawned", "rejected"})
  BY DEF AgentNext, KillSends, KillFindsFinished, Notify, AnnounceKilled, TerminateSends,
     TerminateFindsFinished, GraceExpires, SeesDone, SignalSends, Retry, Escalate,
     RetryStops, LifecycleInv, StartInv
<1>2. ASSUME Signalled(id), UNCHANGED <<procVars, phase, table, on, shutdown, procs, left>>,
             pc' = [pc EXCEPT ![a] = pc'[a]], pc[a] # "announce", pc'[a] # "announce"
      PROVE  StartInv(j)' /\ WaiterInv(j)' /\ ExitedInv(j)' /\ KilledInv(j)'
             /\ ShutdownInv(j)'
  <2>1. StartInv(j)' /\ WaiterInv(j)' /\ ExitedInv(j)' /\ ShutdownInv(j)'
    <3>1. pc'[j] = pc[j] \/ j = a
      BY <1>0, <1>2
    <3>2. \/ leader'[j] = leader[j] /\ cause'[j] = cause[j]
          \/ leader[j] = "alive" /\ leader'[j] = "zombie" /\ cause'[j] = "signal"
      BY <1>0, <1>2 DEF Signalled
    <3>3. kids'[j] => kids[j]
      BY <1>0, <1>2 DEF Signalled
    <3>4. StartInv(j)'
      BY <1>1, <1>2, <3>1, <3>2 DEF StartInv
    <3>5. WaiterInv(j)' /\ ExitedInv(j)'
      BY <1>2, <3>2 DEF WaiterInv, ExitedInv
    <3>6. ShutdownInv(j)'
      BY <1>2, <3>2, <3>3 DEF ShutdownInv
    <3>. QED BY <3>4, <3>5, <3>6
  <2>2. KilledUntouched(j)
    BY <1>0, <1>2 DEF KilledInv, KilledUntouched, Announces
  <2>. QED BY <2>1, <2>2, KilledFrame
<1>3. CASE KillSends(a)
  BY <1>0, <1>2, <1>3, SignalsSignal DEF KillSends, id
<1>4. CASE TerminateSends(a) \/ SignalSends(a)
  BY <1>0, <1>2, <1>4, SignalsSignal DEF TerminateSends, SignalSends, id
<1>5. CASE Retry(a) \/ Escalate(a)
  BY <1>0, <1>2, <1>5, SignalsSignal DEF Retry, Escalate, id
<1>6. CASE KillFindsFinished(a) \/ TerminateFindsFinished(a) \/ GraceExpires(a)
           \/ SeesDone(a) \/ RetryStops(a)
  BY <1>0, <1>2, <1>6, SignalsSignal
  DEF KillFindsFinished, TerminateFindsFinished, GraceExpires, SeesDone, RetryStops
<1>7. CASE Notify(a)
  <2>1. StartInv(j)' /\ WaiterInv(j)' /\ ExitedInv(j)' /\ ShutdownInv(j)'
    BY <1>7, <1>0, <1>1
    DEF Notify, ClaimKilled, id, StartInv, WaiterInv, ExitedInv, ShutdownInv
  <2>2. KilledInv(j)'
    <3>1. CASE ~killNotified[id]
      <4>1. /\ killNotified' = [killNotified EXCEPT ![id] = TRUE]
            /\ pc' = [pc EXCEPT ![a] = "announce"]
            /\ UNCHANGED <<on, sent, waiter, status>>
        BY <1>7, <3>1 DEF Notify, ClaimKilled, id
      <4>2. \A b \in Agents, i \in Ids :
              Announces(b, i)' <=> IF b = a THEN i = id ELSE Announces(b, i)
        BY <1>0, <4>1 DEF Announces, id
      <4>3. pc[a] = "notify"
        BY <1>7 DEF Notify
      <4>4. CASE j = id
        BY <1>0, <3>1, <4>1, <4>2, <4>4 DEF KilledInv
      <4>5. CASE j # id
        <5>1. KilledUntouched(j)
          BY <1>0, <4>1, <4>2, <4>3, <4>5 DEF KilledInv, KilledUntouched, Announces
        <5>. QED BY <5>1, KilledFrame
      <4>. QED BY <4>4, <4>5
    <3>2. CASE killNotified[id]
      <4>1. KilledUntouched(j)
        BY <1>0, <1>7, <3>2
        DEF Notify, ClaimKilled, id, KilledInv, KilledUntouched, Announces
      <4>. QED BY <4>1, KilledFrame
    <3>. QED BY <3>1, <3>2
  <2>. QED BY <2>1, <2>2
<1>8. CASE AnnounceKilled(a)
  <2>1. StartInv(j)' /\ WaiterInv(j)' /\ ExitedInv(j)' /\ ShutdownInv(j)'
    BY <1>8, <1>0, <1>1, BroadcastCounts
    DEF AnnounceKilled, id, StartInv, WaiterInv, ExitedInv, ShutdownInv
  <2>2. KilledInv(j)'
    BY <1>8, <1>0, <1>1, BroadcastCounts DEF AnnounceKilled, id, KilledInv, Announces
  <2>. QED BY <2>1, <2>2
<1>. QED
  BY <1>3, <1>4, <1>5, <1>6, <1>7, <1>8 DEF AgentNext

\* Every call that a caller begins preserves LifecycleInv.
LEMMA CommandLifecycleInv ==
  ASSUME TypeOK, LifecycleInv, NEW c \in Callers, NEW id \in Ids,
         BeginKill(c, id) \/ BeginShutdown(c, id) \/ BeginSignal(c, id)
  PROVE  LifecycleInv'
<1>. SUFFICES ASSUME NEW j \in Ids
              PROVE  /\ StartInv(j)' /\ WaiterInv(j)' /\ ExitedInv(j)'
                     /\ KilledInv(j)' /\ ShutdownInv(j)'
  BY DEF LifecycleInv
<1>. StartInv(j) /\ WaiterInv(j) /\ ExitedInv(j) /\ KilledInv(j) /\ ShutdownInv(j)
  BY DEF LifecycleInv
<1>1. /\ pc[c] = "idle" /\ UNCHANGED <<osVars, procVars, phase, table, shutdown, procs, left>>
      /\ \E to \in {"kill", "terminate", "force", "signal"} : pc' = [pc EXCEPT ![c] = to]
      /\ on' = [on EXCEPT ![c] = id]
  BY DEF BeginKill, BeginShutdown, BeginSignal, Begin, Goto
<1>2. c \in Agents /\ c # j
  BY CallersAssumption DEF Agents
<1>3. StartInv(j)' /\ WaiterInv(j)' /\ ExitedInv(j)' /\ ShutdownInv(j)'
  BY <1>1, <1>2 DEF TypeOK, osVars, procVars, IsRunning, StartInv, WaiterInv, ExitedInv,
                    ShutdownInv
<1>4. KilledUntouched(j)
  BY <1>1, <1>2 DEF TypeOK, procVars, KilledInv, KilledUntouched, Announces
<1>. QED
  BY <1>3, <1>4, KilledFrame

\* Remove, Clear and OnShutdown preserve LifecycleInv.
LEMMA TableLifecycleInv ==
  ASSUME TypeOK, LifecycleInv, NEW id \in Ids,
         TimeoutExpires(id) \/ Remove(id) \/ Clear \/ ShutdownBegins
         \/ ShutdownKills(id) \/ ShutdownEnds
  PROVE  LifecycleInv'
<1>. SUFFICES ASSUME NEW j \in Ids
              PROVE  /\ StartInv(j)' /\ WaiterInv(j)' /\ ExitedInv(j)'
                     /\ KilledInv(j)' /\ ShutdownInv(j)'
  BY DEF LifecycleInv
<1>. StartInv(j) /\ WaiterInv(j) /\ ExitedInv(j) /\ KilledInv(j) /\ ShutdownInv(j)
     /\ StartInv(id)
  BY DEF LifecycleInv
<1>. USE DEF TypeOK, OSTypeOK, procVars, osVars, Reaped, Classified, Closed, IsRunning,
       Goto, unchangedButOS, unchangedButTable
<1>0. j \in Agents /\ id \in Agents
  BY DEF Agents
<1>1. KilledUntouched(j)
  BY <1>0 DEF TimeoutExpires, Remove, Clear, ShutdownBegins, ShutdownKills, ShutdownEnds,
              KilledInv, KilledUntouched, Announces
<1>2. KilledInv(j)'
  BY <1>1, KilledFrame
<1>3. CASE TimeoutExpires(id)
  BY <1>0, <1>2, <1>3 DEF TimeoutExpires, StartInv, WaiterInv, ExitedInv, ShutdownInv
<1>4. CASE Remove(id) \/ Clear
  BY <1>2, <1>4 DEF Remove, Clear, StartInv, WaiterInv, ExitedInv, ShutdownInv
<1>5. CASE ShutdownBegins \/ ShutdownEnds
  BY <1>2, <1>5 DEF ShutdownBegins, ShutdownEnds, StartInv, WaiterInv, ExitedInv,
                    ShutdownInv
<1>6. CASE ShutdownKills(id)
  <2>1. Signalled(id)
    BY <1>6, SignalsSignal DEF ShutdownKills
  <2>2. StartInv(j)' /\ WaiterInv(j)' /\ ExitedInv(j)'
    BY <1>6, <2>1 DEF ShutdownKills, Signalled, StartInv, WaiterInv, ExitedInv
  <2>3. ShutdownInv(j)'
    <3>1. CASE IsRunning(id)
      BY <1>6, <3>1 DEF ShutdownKills, processKillGroup, LeaderEnds, ShutdownInv
    <3>2. CASE ~IsRunning(id)
      <4>1. leader[id] # "alive"
        <5>1. phase[id] = "ready" /\ waiter[id] # "none"
          BY <1>6, <3>2 DEF ShutdownKills, StartInv, ShutdownInv, LifecycleInv, Phases
        <5>2. waiter[id] \in Reaped
          BY <3>2, <5>1 DEF LifecycleInv, WaiterInv, ProcTypeOK, WaiterStates
        <5>. QED BY <5>2 DEF LifecycleInv, WaiterInv
      <4>. QED
        BY <1>6, <3>2, <4>1 DEF ShutdownKills, ShutdownInv
    <3>. QED BY <3>1, <3>2
  <2>. QED BY <1>2, <2>2, <2>3
<1>. QED
  BY <1>3, <1>4, <1>5, <1>6

\* LifecycleInv is inductive, given the types.
LEMMA NextLifecycleInv == TypeOK /\ LifecycleInv /\ [Next]_vars => LifecycleInv'
<1>. SUFFICES ASSUME TypeOK, LifecycleInv, [Next]_vars PROVE LifecycleInv'
  OBVIOUS
<1>1. CASE UNCHANGED vars
  BY <1>1 DEF vars, osVars, procVars, svcVars, LifecycleInv, StartInv, WaiterInv,
    ExitedInv, KilledInv, ShutdownInv, Announces, IsRunning
<1>2. CASE Clear \/ ShutdownBegins \/ ShutdownEnds
  BY <1>2, TableLifecycleInv, IdsAssumption
<1>. QED
  BY <1>1, <1>2, OSLifecycleInv, StartLifecycleInv, ProcLifecycleInv, AgentLifecycleInv,
     CommandLifecycleInv, TableLifecycleInv DEF Next

\* The lifecycle invariant: where the goroutines of a record are determines its
\* status, its events and the state of its command, for every interleaving.
THEOREM LifecycleCorrect == Spec => []LifecycleInv
<1>1. Init => TypeOK /\ LifecycleInv
  BY InitTypeOK, InitLifecycleInv
<1>2. TypeOK /\ LifecycleInv /\ [Next]_vars => (TypeOK /\ LifecycleInv)'
  BY NextTypeOK, NextLifecycleInv
<1>. QED
  BY <1>1, <1>2, PTL DEF Spec

-----------------------------------------------------------------------------
(* What the invariant implies.                                              *)

\* LifecycleInv implies each of the safety invariants.
LEMMA SafetyFromInv ==
  ASSUME TypeOK, LifecycleInv
  PROVE  AnnouncedOnce /\ KilledIsTold /\ OutcomeIsTrue /\ RunningIsListed
         /\ ShutdownLeavesNone
<1>. USE DEF LifecycleInv
<1>1. AnnouncedOnce
  BY DEF AnnouncedOnce, StartInv, ExitedInv, KilledInv
<1>2. KilledIsTold
  BY DEF KilledIsTold, StartInv, WaiterInv, ExitedInv, KilledInv, Announces
<1>3. OutcomeIsTrue
  <2>. SUFFICES ASSUME NEW id \in Ids, done[id], phase[id] = "ready",
                       waitErr[id] # "ioerror"
                PROVE  /\ status[id] = "killed" <=> cause[id] = "signal"
                       /\ exitCode[id] = 0 <=> cause[id] = "zero"
    BY DEF OutcomeIsTrue
  <2>1. waiter[id] \in Classified /\ waitErr[id] = cause[id] /\ cause[id] # "none"
    BY DEF ExitedInv, WaiterInv, Closed, Classified, Reaped
  <2>2. cause[id] \in {"zero", "nonzero", "signal"}
    BY <2>1 DEF TypeOK, OSTypeOK, Causes
  <2>. QED
    BY <2>1, <2>2 DEF WaiterInv, classifyProcessExit
<1>4. RunningIsListed
  BY DEF RunningIsListed, StartInv, IsRunning
<1>5. ShutdownLeavesNone
  BY DEF TypeOK, ShutdownLeavesNone, ShutdownInv
<1>. QED
  BY <1>1, <1>2, <1>3, <1>4, <1>5

\* Started, Killed and Exited are each broadcast at most once for a record.
THEOREM AnnouncedOnceCorrect == Spec => []AnnouncedOnce
BY TypeCorrect, LifecycleCorrect, SafetyFromInv, PTL

\* The listener that sees Exited for a killed command is told Killed.
THEOREM KilledIsToldCorrect == Spec => []KilledIsTold
BY TypeCorrect, LifecycleCorrect, SafetyFromInv, PTL

\* Once done is closed, status and exit code tell how the command really ended.
THEOREM OutcomeIsTrueCorrect == Spec => []OutcomeIsTrue
BY TypeCorrect, LifecycleCorrect, SafetyFromInv, PTL

\* A running record that was listed stays listed.
THEOREM RunningIsListedCorrect == Spec => []RunningIsListed
BY TypeCorrect, LifecycleCorrect, SafetyFromInv, PTL

\* No command that OnShutdown found running survives it.
THEOREM ShutdownLeavesNoneCorrect == Spec => []ShutdownLeavesNone
BY TypeCorrect, LifecycleCorrect, SafetyFromInv, PTL

-----------------------------------------------------------------------------
(* Output is framed by Started and done.                                    *)

\* Only a reader broadcasts output.
LEMMA OutputStep ==
  ASSUME TypeOK, Next, NEW id \in Ids, sent'[id]["output"] # sent[id]["output"]
  PROVE  readers[id] # {}
<1>. USE DEF TypeOK, ProcTypeOK, Actions
<1>1. ASSUME NEW i \in Ids, StartNext(i) PROVE readers[id] # {}
  BY <1>1, BroadcastCounts
  DEF StartNext, StartSucceeds, Store, AnnounceStart, StartFails, RejectCloses,
      RejectAnnounces
<1>2. ASSUME NEW i \in Ids, ProcNext(i) PROVE readers[id] # {}
  <2>1. CASE StreamLine(i)
    BY <1>2, <2>1, BroadcastCounts DEF StreamLine
  <2>2. CASE WaiterNext(i)
    BY <1>2, <2>2, BroadcastCounts
    DEF WaiterNext, WaiterReaps, WaiterClassifies, WaiterCloses, WaiterClaims, WaiterSkips,
        WaiterAnnouncesKilled, WaiterAnnouncesExit
  <2>. QED
    BY <1>2, <2>1, <2>2
    DEF ProcNext, StreamEOF, StreamGivesUp, ReaderEnds, CancelContext, WatcherWakes,
        WatcherKills, WatcherStep
<1>3. ASSUME NEW a \in Agents, AgentNext(a) PROVE readers[id] # {}
  BY <1>3, BroadcastCounts
  DEF AgentNext, KillSends, KillFindsFinished, Notify, AnnounceKilled, TerminateSends,
      TerminateFindsFinished, GraceExpires, SeesDone, SignalSends, Retry, Escalate,
      RetryStops, unchangedButOS, procVars
<1>. QED
  BY <1>1, <1>2, <1>3
  DEF Next, TimeoutExpires, Remove, Clear, ShutdownBegins, ShutdownKills, ShutdownEnds,
      BeginKill, BeginShutdown, BeginSignal, Begin, unchangedButOS, unchangedButTable,
      procVars

\* Every line is broadcast after Started and before done is closed.
THEOREM OutputIsFramedCorrect == Spec => OutputIsFramed
<1>1. ASSUME TypeOK, LifecycleInv, [Next]_vars, NEW id \in Ids,
             sent'[id]["output"] # sent[id]["output"]
      PROVE  sent[id]["started"] = 1 /\ ~done[id] /\ sent[id]["exited"] = 0
  <2>1. readers[id] # {}
    BY <1>1, OutputStep DEF vars, procVars
  <2>. QED
    BY <1>1, <2>1 DEF LifecycleInv, StartInv, WaiterInv, ExitedInv, Closed, Classified,
                      Reaped
<1>2. TypeOK /\ LifecycleInv /\ [Next]_vars =>
        [\A id \in Ids :
           sent'[id]["output"] # sent[id]["output"] =>
             sent[id]["started"] = 1 /\ ~done[id] /\ sent[id]["exited"] = 0]_vars
  BY <1>1
<1>. QED
  BY <1>2, TypeCorrect, LifecycleCorrect, PTL DEF Spec, OutputIsFramed

-----------------------------------------------------------------------------
(* Service implements ProcessContract: every step launches, rejects,        *)
(* finishes, closes or announces one record, or does none of it.            *)

announcedOf == [id \in Ids |-> sent[id]["exited"]]

ContractStep(id) ==
  \/ Contract!Launch(id) \/ Contract!Reject(id) \/ Contract!Finish(id)
  \/ Contract!Close(id) \/ Contract!Announce(id)

ContractStutter == UNCHANGED <<status, done>> /\ announcedOf' = announcedOf

\* The initial states are initial states of the contract.
LEMMA InitContract == Init => Contract!Init
BY DEF Init, ProcInit, Contract!Init, Actions

\* A broadcast other than Exited is not the contract's business; Exited is its
\* Announce.
LEMMA BroadcastContract ==
  ASSUME TypeOK, NEW id \in Ids, NEW a \in Actions, Broadcast(id, a)
  PROVE  announcedOf' = IF a = "exited"
                        THEN [announcedOf EXCEPT ![id] = sent[id]["exited"] + 1]
                        ELSE announcedOf
<1>1. \A i \in Ids : sent'[i]["exited"] = IF i = id /\ a = "exited"
                                         THEN sent[i]["exited"] + 1 ELSE sent[i]["exited"]
  BY BroadcastCounts DEF TypeOK, ProcTypeOK, Actions
<1>2. CASE a = "exited"
  BY <1>1, <1>2 DEF announcedOf
<1>3. CASE a # "exited"
  BY <1>1, <1>3 DEF announcedOf
<1>. QED
  BY <1>2, <1>3

\* StartWithOptions starts or rejects the record, as the contract lets it.
LEMMA StartContract ==
  ASSUME TypeOK, LifecycleInv, NEW id \in Ids, StartNext(id)
  PROVE  ContractStep(id) \/ ContractStutter
<1>. StartInv(id) /\ ExitedInv(id)
  BY DEF LifecycleInv
<1>. USE DEF StartStep, ContractStep, ContractStutter, Actions
<1>1. CASE StartSucceeds(id)
  BY <1>1 DEF StartSucceeds, Contract!Launch, StartInv
<1>2. CASE Store(id)
  BY <1>2 DEF Store, announcedOf
<1>3. CASE AnnounceStart(id)
  BY <1>3, BroadcastContract DEF AnnounceStart
<1>4. CASE StartFails(id)
  BY <1>4 DEF StartFails, Contract!Reject, StartInv
<1>5. CASE RejectCloses(id)
  BY <1>5 DEF RejectCloses, Contract!Close, Contract!Outcomes, StartInv
<1>6. CASE RejectAnnounces(id)
  BY <1>6, BroadcastContract DEF RejectAnnounces, Contract!Announce, announcedOf
<1>. QED
  BY <1>1, <1>2, <1>3, <1>4, <1>5, <1>6 DEF StartNext

\* The waiter's steps are the contract's Finish, Close and Announce.
LEMMA ProcContract ==
  ASSUME TypeOK, LifecycleInv, NEW id \in Ids, ProcNext(id)
  PROVE  ContractStep(id) \/ ContractStutter
<1>. StartInv(id) /\ WaiterInv(id) /\ ExitedInv(id)
  BY DEF LifecycleInv
<1>. USE DEF WaiterStep, WatcherStep, ContractStep, ContractStutter, Actions, Reaped,
       Classified, Closed
<1>0. status[id] = "absent" \/ status[id] = "failed" => waiter[id] \notin {"streams", "reaped"}
  BY DEF StartInv, WaiterInv
<1>1. CASE StreamLine(id)
  BY <1>1, BroadcastContract DEF StreamLine
<1>2. CASE WaiterClassifies(id)
  BY <1>2 DEF WaiterClassifies, Contract!Finish, Contract!Outcomes, classifyProcessExit,
              WaiterInv
<1>3. CASE WaiterCloses(id)
  BY <1>3 DEF WaiterCloses, Contract!Close, Contract!Outcomes, classifyProcessExit,
              StartInv, WaiterInv, ExitedInv
<1>4. CASE WaiterAnnouncesExit(id)
  BY <1>4, BroadcastContract
  DEF WaiterAnnouncesExit, Contract!Announce, announcedOf, StartInv, ExitedInv
<1>5. CASE WaiterAnnouncesKilled(id)
  BY <1>5, BroadcastContract DEF WaiterAnnouncesKilled
<1>6. CASE WaiterReaps(id) \/ WaiterClaims(id) \/ WaiterSkips(id)
  BY <1>6 DEF WaiterReaps, WaiterClaims, WaiterSkips, announcedOf
<1>7. ASSUME NEW s \in Streams, StreamEOF(id, s) \/ StreamGivesUp(id, s)
      PROVE  ContractStutter
  BY <1>7 DEF StreamEOF, StreamGivesUp, ReaderEnds, announcedOf
<1>8. CASE CancelContext(id) \/ WatcherWakes(id) \/ WatcherKills(id)
  BY <1>8 DEF CancelContext, WatcherWakes, WatcherKills, announcedOf
<1>. QED
  BY <1>1, <1>2, <1>3, <1>4, <1>5, <1>6, <1>7, <1>8 DEF ProcNext, WaiterNext

\* No caller and no watchdog changes what the contract speaks of.
LEMMA AgentContract ==
  ASSUME TypeOK, NEW a \in Agents, AgentNext(a)
  PROVE  ContractStutter
<1>1. CASE AnnounceKilled(a)
  <2>1. on[a] \in Ids
    BY DEF TypeOK
  <2>. QED
    BY <1>1, <2>1, BroadcastContract DEF AnnounceKilled, ContractStutter, Actions
<1>2. CASE ~AnnounceKilled(a)
  BY <1>2
  DEF AgentNext, KillSends, KillFindsFinished, Notify, TerminateSends,
      TerminateFindsFinished, GraceExpires, SeesDone, SignalSends, Retry, Escalate,
      RetryStops, unchangedButOS, procVars, ContractStutter, announcedOf
<1>. QED
  BY <1>1, <1>2

\* Every step of the service is a step of the contract or invisible to it.
LEMMA NextContract ==
  TypeOK /\ LifecycleInv /\ [Next]_vars => [Contract!Next]_(Contract!vars)
<1>. SUFFICES ASSUME TypeOK, LifecycleInv, [Next]_vars
              PROVE  ContractStutter \/ \E id \in Ids : ContractStep(id)
  BY DEF ContractStutter, ContractStep, announcedOf, Contract!Next, Contract!vars
<1>1. CASE UNCHANGED vars
  BY <1>1 DEF vars, procVars, ContractStutter, announcedOf
<1>2. ASSUME NEW id \in Ids,
             \/ OSNext(id) /\ UNCHANGED <<procVars, svcVars>>
             \/ TimeoutExpires(id) \/ Remove(id) \/ ShutdownKills(id)
      PROVE  ContractStutter
  BY <1>2 DEF TimeoutExpires, Remove, ShutdownKills, unchangedButOS, unchangedButTable,
              procVars, ContractStutter, announcedOf
<1>3. ASSUME NEW c \in Callers, NEW id \in Ids,
             BeginKill(c, id) \/ BeginShutdown(c, id) \/ BeginSignal(c, id)
      PROVE  ContractStutter
  BY <1>3 DEF BeginKill, BeginShutdown, BeginSignal, Begin, procVars, ContractStutter,
              announcedOf
<1>4. CASE Clear \/ ShutdownBegins \/ ShutdownEnds
  BY <1>4 DEF Clear, ShutdownBegins, ShutdownEnds, unchangedButTable, procVars,
              ContractStutter, announcedOf
<1>. QED
  BY <1>1, <1>2, <1>3, <1>4, StartContract, ProcContract, AgentContract DEF Next

\* The service implements the contract, for every number of records and callers.
THEOREM ServiceImplementsContract == Spec => ContractSpec
BY InitContract, NextContract, TypeCorrect, LifecycleCorrect, PTL
DEF Spec, ContractSpec, Contract!Spec
=============================================================================
