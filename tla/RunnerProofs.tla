---------------------------- MODULE RunnerProofs ----------------------------
(***************************************************************************)
(* The runner keeps its types and its safety properties, for every number   *)
(* of specs and every dependency graph.                                     *)
(***************************************************************************)
EXTENDS Runner, TLAPS

\* The records of this call: everything but RunResults.
CallTypes ==
  /\ [mode |-> mode, after |-> after, allow |-> allow] \in Calls
  /\ mode \in Modes
  /\ after \in [Specs -> SUBSET (Specs \cup {Missing})]
  /\ allow \subseteq Specs
  /\ \A s \in Specs : s \notin after[s]

\* A call has the fields of a valid request.
LEMMA CallIsValid == TypeOK => CallTypes
<1>. SUFFICES ASSUME TypeOK PROVE CallTypes
  OBVIOUS
<1>. DEFINE c == [mode |-> mode, after |-> after, allow |-> allow]
<1>1. c \in Requests /\ Valid(c)
  BY CallsAssumption DEF TypeOK
<1>2. c.mode = mode /\ c.after = after /\ c.allow = allow
  OBVIOUS
<1>. QED
  BY <1>1, <1>2 DEF TypeOK, CallTypes, Requests, Valid

\* Every result the runner builds is a RunResult.
LEMMA ResultTypes ==
  /\ skippedRunResult \in RunResult /\ dependencyResult \in RunResult
  /\ cancelledRunResult \in RunResult /\ failedToStart \in RunResult
  /\ zeroResult \in RunResult
  /\ \A o, code : code \in ExitCodes(o) => ranResult(o, code) \in RunResult
BY DEF skippedRunResult, dependencyResult, cancelledRunResult, failedToStart,
   zeroResult, ExitCodes, ranResult, RunResult

\* Reporting keeps the types.
LEMMA ReportType ==
  ASSUME TypeOK, NEW s \in Specs, NEW r \in RunResult, Report(s, r), unchangedCall
  PROVE  TypeOK'
BY ResultTypes DEF TypeOK, Report, unchangedCall, callVars, procVars, TaskStates

\* Reporting the same result for several specs keeps the types.
LEMMA ReportAllType ==
  ASSUME TypeOK, NEW S, NEW r \in RunResult, ReportAll(S, r), unchangedCall
  PROVE  TypeOK'
BY DEF TypeOK, ReportAll, unchangedCall, callVars, procVars, TaskStates

\* The initial states have the declared types.
LEMMA InitTypeOK == Init => TypeOK
<1>. SUFFICES ASSUME Init PROVE TypeOK
  OBVIOUS
<1>1. [mode |-> mode, after |-> after, allow |-> allow] \in Calls
  <2>1. PICK c \in Calls : mode = c.mode /\ after = c.after /\ allow = c.allow
    BY DEF Init
  <2>2. c \in Requests
    BY CallsAssumption
  <2>3. c = [mode |-> c.mode, after |-> c.after, allow |-> c.allow]
    BY <2>2 DEF Requests
  <2>. QED
    BY <2>1, <2>3
<1>. QED
  BY <1>1, ResultTypes DEF Init, TypeOK, TaskStates, States, Records!Init

\* Every step of the runner and of the records keeps the types.
LEMMA NextTypeOK == TypeOK /\ [Next]_vars => TypeOK'
<1>. SUFFICES ASSUME TypeOK, [Next]_vars PROVE TypeOK'
  OBVIOUS
<1>1. ASSUME WaveStarts PROVE TypeOK'
  BY <1>1 DEF WaveStarts, TypeOK, unchangedCall, callVars, procVars, TaskStates
<1>2. ASSUME WaveStuck \/ WaveCancelled PROVE TypeOK'
  BY <1>2, ReportAllType, ResultTypes DEF WaveStuck, WaveCancelled
<1>3. ASSUME Return \/ Cancel \/ UNCHANGED vars PROVE TypeOK'
  BY <1>3 DEF Return, Cancel, TypeOK, vars, callVars, procVars
<1>4. ASSUME NEW s \in Specs, SequentialStarts(s) \/ ParallelStarts(s)
      PROVE  TypeOK'
  BY <1>4 DEF SequentialStarts, ParallelStarts, TypeOK, unchangedCall, callVars,
     procVars, TaskStates
<1>5. ASSUME NEW s \in Specs, SequentialCancelled(s) \/ ParallelCancelled(s)
      PROVE  TypeOK'
  BY <1>5, ReportAllType, ResultTypes DEF SequentialCancelled, ParallelCancelled
<1>6. ASSUME NEW s \in Specs,
             SkipDependent(s) \/ Refused(s) \/ ReportRejected(s) \/ Collect(s)
      PROVE  TypeOK'
  BY <1>6, ReportType, ResultTypes
  DEF SkipDependent, Refused, ReportRejected, Collect
<1>7. ASSUME NEW s \in Specs, Launch(s) \/ Rejected(s) PROVE TypeOK'
  BY <1>7 DEF Launch, Rejected, Records!Launch, Records!Reject, TypeOK, callVars,
     TaskStates, States, Records!Outcomes
<1>8. ASSUME NEW s \in Specs, RecordStep(s) PROVE TypeOK'
  BY <1>8 DEF RecordStep, Records!Finish, Records!Close, Records!Announce, TypeOK,
     callVars, States, Records!Outcomes
<1>. QED
  BY <1>1, <1>2, <1>3, <1>4, <1>5, <1>6, <1>7, <1>8 DEF Next, RunnerStep

\* The runner never leaves its types: in particular every exit code it reports is
\* one that a RunResult can hold.
THEOREM RunnerTypeCorrect == Spec => []TypeOK
<1>. QED
  BY InitTypeOK, NextTypeOK, PTL DEF Spec

-----------------------------------------------------------------------------
(* The inductive invariant.                                                 *)

\* RunnerInv holds before anything is started.
LEMMA InitRunnerInv == Init => RunnerInv
BY DEF Init, RunnerInv, TaskInv, WaveInv, OrderInv, SkipInv, HasRun, Active,
   Completed, Remaining, Records!Init

\* A failure is a reported one.
LEMMA FailuresAreCompleted ==
  TypeOK /\ RunnerInv => Failures \subseteq Completed
BY DEF Failures, Completed, RunnerInv, TaskInv, Passed, zeroResult

\* What is unsatisfiable stays so during the call.
LEMMA UnsatisfiableIsStable ==
  ASSUME NEW s, Unsatisfiable(s), UNCHANGED callVars
  PROVE  Unsatisfiable(s)'
BY DEF Unsatisfiable, callVars

\* A task that reports leaves the others as they were, but for the specs that
\* RunSequential skips then.
LEMMA ReportInv ==
  ASSUME TypeOK, RunnerInv, NEW s \in Active, NEW r \in RunResult,
         Report(s, r), unchangedCall,
         state[s] # "running",
         r.skipped => mode = "all" /\ state[s] = "absent",
         r.skipped /\ ~cancelled => Failures # {} \/ Unsatisfiable(s)
  PROVE  RunnerInv'
<1>. USE DEF unchangedCall, callVars, procVars
<1>1. s \in Specs /\ task[s] # "done" /\ ~returned
  BY DEF Active, Completed, RunnerInv
<1>2. Active' = Active \ {s} /\ Completed \cup {s} \subseteq Completed'
  BY <1>1 DEF Report, Active, Completed, Remaining, TypeOK
<1>3. \A x \in Completed : result'[x] = result[x] /\ x # s
  BY <1>1 DEF Report, Completed, Remaining, TypeOK
<1>4. Failures \subseteq Failures'
  BY <1>3, FailuresAreCompleted DEF Failures, Completed, Passed
<1>5. result'[s] = r
  BY <1>1 DEF Report, Remaining, Active
<1>6. ASSUME mode # "sequential" PROVE Completed' = Completed \cup {s}
  BY <1>6, <1>1 DEF Report, Stops, Completed, TypeOK
<1>7. ASSUME NEW x \in Specs PROVE TaskInv(x)'
  BY <1>1, <1>5 DEF RunnerInv, TaskInv, Report, Remaining, TypeOK,
     skippedRunResult
<1>8. ASSUME NEW x \in Specs PROVE WaveInv(x)'
  BY <1>2, <1>3, <1>1 DEF RunnerInv, WaveInv, HasRun
<1>9. ASSUME NEW x \in Specs PROVE OrderInv(x)'
  <2>1. ASSUME mode = "sequential", x \in Active' PROVE FALSE
    BY <2>1, <1>2, <1>1 DEF RunnerInv, OrderInv
  <2>2. ASSUME mode = "sequential", HasRun(x), NEW y \in 1..(x - 1)
        PROVE  y \in Completed' /\ (Passed(result'[y]) \/ y \in allow)
    BY <2>2, <1>2, <1>3 DEF RunnerInv, OrderInv
  <2>3. ASSUME mode = "sequential", x \notin Completed', ~cancelled,
               NEW y \in Completed'
        PROVE  Passed(result'[y]) \/ y \in allow
    <3>1. x \in Remaining /\ ~Stops(s, r)
      BY <2>3, <1>1, <2>1 DEF Report, Remaining, Completed, Active, TypeOK
    <3>2. y = s \/ y \in Completed
      BY <3>1, <1>1 DEF Report, Completed, TypeOK
    <3>3. CASE y = s
      BY <3>3, <3>1, <1>5, <2>3 DEF Stops
    <3>4. CASE y \in Completed
      BY <3>4, <2>3, <1>3, <3>1 DEF RunnerInv, OrderInv, Remaining, Completed
    <3>. QED
      BY <3>2, <3>3, <3>4
  <2>. QED
    BY <2>1, <2>2, <2>3 DEF OrderInv, HasRun
<1>10. ASSUME NEW x \in Specs PROVE SkipInv(x)'
  <2>. SUFFICES ASSUME x \in Completed', result'[x].skipped, ~cancelled
                PROVE  Failures' # {} \/ Unsatisfiable(x)
    BY DEF SkipInv, Unsatisfiable
  <2>1. CASE x = s
    BY <2>1, <1>4, <1>5
  <2>2. CASE x # s /\ x \in Completed
    BY <2>2, <1>3, <1>4 DEF RunnerInv, SkipInv
  <2>3. CASE x # s /\ x \notin Completed
    <3>1. Stops(s, r)
      BY <2>3, <1>6, <1>1 DEF Report, Completed, TypeOK
    <3>2. s \in Failures'
      BY <3>1, <1>5, <1>1 DEF Stops, Failures, Passed
    <3>. QED
      BY <3>2
  <2>. QED
    BY <2>1, <2>2, <2>3
<1>. QED
  BY <1>1, <1>7, <1>8, <1>9, <1>10 DEF RunnerInv

\* Skipping specs that have not started, because the call is cancelled or because
\* no wave can contain them.
LEMMA ReportAllInv ==
  ASSUME TypeOK, RunnerInv, NEW S \in SUBSET Specs, NEW r \in RunResult,
         ReportAll(S, r), unchangedCall, r.skipped,
         \A x \in S : task[x] \in {"remaining", "ready"},
         \/ cancelled
         \/ mode = "all" /\ \A x \in S : Unsatisfiable(x)
  PROVE  RunnerInv'
<1>. USE DEF unchangedCall, callVars, procVars
<1>1. Active' \subseteq Active /\ Completed' = Completed \cup S
  BY DEF ReportAll, Active, Completed, Remaining, TypeOK
<1>2. \A x \in Completed : result'[x] = result[x] /\ x \notin S
  BY DEF ReportAll, Completed, TypeOK
<1>3. Failures \subseteq Failures'
  BY <1>2, FailuresAreCompleted DEF Failures, Completed, Passed
<1>4. ASSUME NEW x \in Specs PROVE TaskInv(x)'
  BY DEF RunnerInv, TaskInv, ReportAll, TypeOK
<1>5. ASSUME NEW x \in Specs PROVE WaveInv(x)'
  BY <1>1, <1>2 DEF RunnerInv, WaveInv, HasRun
<1>6. ASSUME NEW x \in Specs PROVE OrderInv(x)'
  <2>1. ASSUME mode = "sequential" PROVE cancelled
    BY <2>1
  <2>. QED
    BY <1>1, <1>2, <2>1 DEF RunnerInv, OrderInv, HasRun
<1>7. ASSUME NEW x \in Specs PROVE SkipInv(x)'
  <2>. SUFFICES ASSUME x \in Completed', result'[x].skipped, ~cancelled
                PROVE  Failures' # {} \/ Unsatisfiable(x)
    BY DEF SkipInv, Unsatisfiable
  <2>1. CASE x \in S
    BY <2>1
  <2>2. CASE x \in Completed
    BY <2>2, <1>2, <1>3 DEF RunnerInv, SkipInv
  <2>. QED
    BY <1>1, <2>1, <2>2
<1>. QED
  BY <1>1, <1>4, <1>5, <1>6, <1>7 DEF RunnerInv, Completed

\* When no remaining spec can run, none of them ever could.
LEMMA StuckIsUnsatisfiable ==
  ASSUME TypeOK, AtWaveEnd, \A s \in Remaining : ~canRun(s), NEW x \in Remaining
  PROVE  Unsatisfiable(x)
<1>1. \A d \in Remaining : after[d] \cap (Remaining \cup {Missing}) # {}
  <2>. SUFFICES ASSUME NEW d \in Remaining
                PROVE  after[d] \cap (Remaining \cup {Missing}) # {}
    OBVIOUS
  <2>1. PICK dep \in after[d] : dep \notin Completed
    BY DEF canRun
  <2>2. dep \in Specs \cup {Missing}
    BY CallIsValid DEF CallTypes, Remaining
  <2>. QED
    BY <2>1, <2>2 DEF AtWaveEnd, Active
<1>2. Remaining \in SUBSET Specs
  BY DEF Remaining
<1>. QED
  BY <1>1, <1>2 DEF Unsatisfiable, AtWaveEnd

\* A spec that follows an unsatisfiable one is unsatisfiable.
LEMMA UnsatisfiableSpreads ==
  ASSUME NEW s \in Specs, NEW dep \in after[s], Unsatisfiable(dep)
  PROVE  Unsatisfiable(s)
<1>1. PICK D \in SUBSET Specs :
        dep \in D /\ \A d \in D : after[d] \cap (D \cup {Missing}) # {}
  BY DEF Unsatisfiable
<1>2. \A d \in D \cup {s} : after[d] \cap ((D \cup {s}) \cup {Missing}) # {}
  BY <1>1
<1>3. D \cup {s} \in SUBSET Specs
  OBVIOUS
<1>. QED
  BY <1>2, <1>3 DEF Unsatisfiable

\* Tasks that become ready: RunAll's have their dependencies completed, and
\* RunSequential's follow reported specs that passed or may fail.
LEMMA StartInv ==
  ASSUME TypeOK, RunnerInv, NEW S \in SUBSET Remaining, S # {},
         task' = [x \in Specs |-> IF x \in S THEN "ready" ELSE task[x]],
         UNCHANGED result, unchangedCall,
         mode = "all" => \A x \in S : canRun(x),
         mode = "sequential" =>
           /\ Active = {} /\ ~cancelled
           /\ \E x \in S : S = {x} /\ \A y \in Remaining : x <= y
  PROVE  RunnerInv'
<1>. USE DEF unchangedCall, callVars, procVars
<1>1. Active' = Active \cup S /\ Completed' = Completed /\ Failures' = Failures
  BY DEF Active, Completed, Remaining, Failures, Passed, TypeOK
<1>2. ASSUME NEW x \in Specs PROVE TaskInv(x)'
  BY DEF RunnerInv, TaskInv, Remaining, TypeOK
<1>3. ASSUME NEW x \in Specs PROVE WaveInv(x)'
  BY <1>1 DEF RunnerInv, WaveInv, HasRun, canRun
<1>4. ASSUME NEW x \in Specs PROVE OrderInv(x)'
  <2>. SUFFICES ASSUME mode = "sequential" PROVE OrderInv(x)'
    BY DEF OrderInv
  <2>1. PICK z \in S : S = {z} /\ \A y \in Remaining : z <= y
    OBVIOUS
  <2>2. \A y \in Completed : Passed(result[y]) \/ y \in allow
    BY <2>1 DEF RunnerInv, OrderInv, Remaining, Completed
  <2>3. \A y \in 1..(z - 1) : y \in Completed
    <3>. SUFFICES ASSUME NEW y \in 1..(z - 1) PROVE y \in Completed
      OBVIOUS
    <3>1. z \in 1..N /\ N \in Nat
      BY <2>1, NAssumption DEF Remaining, Specs
    <3>2. y \in Specs /\ ~(z <= y)
      BY <3>1 DEF Specs
    <3>. QED
      BY <2>1, <3>2 DEF Active
  <2>. QED
    BY <1>1, <2>1, <2>2, <2>3 DEF RunnerInv, OrderInv, HasRun
<1>5. ASSUME NEW x \in Specs PROVE SkipInv(x)'
  BY <1>1, UnsatisfiableIsStable DEF RunnerInv, SkipInv, Unsatisfiable
<1>. QED
  BY <1>1, <1>2, <1>3, <1>4, <1>5 DEF RunnerInv

\* Starting or rejecting the command of a ready spec preserves RunnerInv.
LEMMA LaunchInv ==
  ASSUME TypeOK, RunnerInv, NEW s \in Specs, Launch(s) \/ Rejected(s)
  PROVE  RunnerInv'
<1>. USE DEF callVars
<1>1. /\ task[s] = "ready" /\ s \in Active /\ ~Blocked(s)
      /\ UNCHANGED <<result, callVars, cancelled, returned, closed>>
      /\ \A x \in Specs : x # s => state'[x] = state[x] /\ task'[x] = task[x]
      /\ \/ task'[s] = "waiting" /\ state'[s] = "running"
         \/ task'[s] = "rejected" /\ state'[s] = "failed"
  BY DEF Launch, Rejected, Runs, Records!Launch, Records!Reject, TypeOK, Active,
     Remaining, Completed
<1>2. Active' = Active /\ Completed' = Completed /\ Failures' = Failures
  BY <1>1 DEF Active, Completed, Remaining, Failures, Passed
<1>3. ASSUME NEW x \in Specs PROVE TaskInv(x)'
  BY <1>1 DEF RunnerInv, TaskInv, Records!Outcomes
<1>4. ASSUME NEW x \in Specs PROVE WaveInv(x)'
  BY <1>1, <1>2 DEF RunnerInv, WaveInv, HasRun, Blocked
<1>5. ASSUME NEW x \in Specs PROVE OrderInv(x)'
  BY <1>1, <1>2 DEF RunnerInv, OrderInv, HasRun
<1>6. ASSUME NEW x \in Specs PROVE SkipInv(x)'
  BY <1>1, <1>2 DEF RunnerInv, SkipInv, Unsatisfiable
<1>. QED
  BY <1>1, <1>2, <1>3, <1>4, <1>5, <1>6 DEF RunnerInv

\* The process service going on with a record preserves RunnerInv.
LEMMA RecordInv ==
  ASSUME TypeOK, RunnerInv, NEW s \in Specs, RecordStep(s)
  PROVE  RunnerInv'
<1>. USE DEF callVars
<1>1. /\ UNCHANGED <<task, result, callVars, cancelled, returned>>
      /\ \A x \in Specs : \/ state'[x] = state[x]
                          \/ state[x] = "running" /\ state'[x] \in Records!Outcomes
      /\ \A x \in Specs : closed'[x] # closed[x] => state'[x] \in Records!Outcomes
  BY DEF RecordStep, Records!Finish, Records!Close, Records!Announce, TypeOK
<1>2. Active' = Active /\ Completed' = Completed /\ Failures' = Failures
  BY <1>1 DEF Active, Completed, Remaining, Failures, Passed
<1>3. ASSUME NEW x \in Specs PROVE TaskInv(x)'
  BY <1>1 DEF RunnerInv, TaskInv, Records!Outcomes, TypeOK
<1>4. ASSUME NEW x \in Specs PROVE WaveInv(x)' /\ OrderInv(x)'
  BY <1>1, <1>2 DEF RunnerInv, WaveInv, OrderInv, HasRun, Records!Outcomes
<1>5. ASSUME NEW x \in Specs PROVE SkipInv(x)'
  BY <1>1, <1>2 DEF RunnerInv, SkipInv, Unsatisfiable
<1>. QED
  BY <1>1, <1>2, <1>3, <1>4, <1>5 DEF RunnerInv

\* RunnerInv is inductive, given the types.
LEMMA NextRunnerInv == TypeOK /\ RunnerInv /\ [Next]_vars => RunnerInv'
<1>. SUFFICES ASSUME TypeOK, RunnerInv, [Next]_vars PROVE RunnerInv'
  OBVIOUS
<1>1. ASSUME WaveStarts PROVE RunnerInv'
  <2>. DEFINE S == {x \in Remaining : canRun(x)}
  <2>1. /\ task' = [x \in Specs |-> IF x \in S THEN "ready" ELSE task[x]]
        /\ S # {} /\ S \in SUBSET Remaining /\ mode = "all"
    BY <1>1 DEF WaveStarts, AtWaveEnd
  <2>. HIDE DEF S
  <2>2. \A x \in S : canRun(x)
    BY DEF S
  <2>. QED
    BY <1>1, <2>1, <2>2, StartInv DEF WaveStarts
<1>2. ASSUME NEW s \in Specs, SequentialStarts(s) \/ ParallelStarts(s)
      PROVE  RunnerInv'
  <2>1. /\ {s} \in SUBSET Remaining
        /\ task' = [x \in Specs |-> IF x \in {s} THEN "ready" ELSE task[x]]
    BY <1>2 DEF SequentialStarts, ParallelStarts, NextInOrder, Remaining, TypeOK
  <2>2. mode = "sequential" =>
          /\ Active = {} /\ ~cancelled
          /\ \E x \in {s} : {s} = {x} /\ \A y \in Remaining : x <= y
    BY <1>2 DEF SequentialStarts, ParallelStarts, NextInOrder
  <2>3. mode # "all" /\ UNCHANGED result /\ unchangedCall
    BY <1>2 DEF SequentialStarts, ParallelStarts, NextInOrder
  <2>. QED
    BY <2>1, <2>2, <2>3, StartInv
<1>3. ASSUME WaveStuck PROVE RunnerInv'
  <2>1. \A x \in Remaining : Unsatisfiable(x)
    BY <1>3, StuckIsUnsatisfiable DEF WaveStuck
  <2>2. Remaining \in SUBSET Specs /\ \A x \in Remaining : task[x] = "remaining"
    BY DEF Remaining
  <2>. QED
    BY <1>3, <2>1, <2>2, ReportAllInv, ResultTypes
    DEF WaveStuck, AtWaveEnd, dependencyResult
<1>4. ASSUME WaveCancelled PROVE RunnerInv'
  <2>1. Remaining \in SUBSET Specs /\ \A x \in Remaining : task[x] = "remaining"
    BY DEF Remaining
  <2>. QED
    BY <1>4, <2>1, ReportAllInv, ResultTypes
    DEF WaveCancelled, AtWaveEnd, cancelledRunResult
<1>5. ASSUME NEW s \in Specs, SequentialCancelled(s) \/ ParallelCancelled(s)
      PROVE  RunnerInv'
  <2>1. /\ {s} \in SUBSET Specs /\ cancelled
        /\ \A x \in {s} : task[x] \in {"remaining", "ready"}
    BY <1>5 DEF SequentialCancelled, ParallelCancelled, NextInOrder, Remaining
  <2>. QED
    BY <1>5, <2>1, ReportAllInv, ResultTypes
    DEF SequentialCancelled, ParallelCancelled, cancelledRunResult
<1>6. ASSUME NEW s \in Specs, SkipDependent(s) PROVE RunnerInv'
  <2>1. s \in Active /\ state[s] = "absent"
    BY <1>6 DEF SkipDependent, Active, Remaining, Completed, RunnerInv, TaskInv
  <2>2. PICK dep \in after[s] : ~Passed(result[dep]) /\ dep \notin allow
    BY <1>6 DEF SkipDependent, Blocked
  <2>3. mode = "all" /\ dep \in Completed /\ dep \in Specs
    BY <1>6, <2>1 DEF SkipDependent, Blocked, RunnerInv, WaveInv, Active, Completed
  <2>4. ~cancelled => Failures # {} \/ Unsatisfiable(s)
    <3>1. CASE result[dep].skipped
      BY <3>1, <2>3, UnsatisfiableSpreads DEF RunnerInv, SkipInv
    <3>2. CASE ~result[dep].skipped
      BY <3>2, <2>2, <2>3 DEF Failures
    <3>. QED
      BY <3>1, <3>2
  <2>. QED
    BY <1>6, <2>1, <2>3, <2>4, ReportInv, ResultTypes DEF SkipDependent
<1>7. ASSUME NEW s \in Specs, Refused(s) \/ ReportRejected(s) PROVE RunnerInv'
  <2>1. s \in Active /\ state[s] # "running"
    BY <1>7 DEF Refused, Runs, ReportRejected, Active, Remaining, Completed,
       RunnerInv, TaskInv
  <2>. QED
    BY <1>7, <2>1, ReportInv, ResultTypes DEF Refused, ReportRejected, failedToStart
<1>8. ASSUME NEW s \in Specs, Collect(s) PROVE RunnerInv'
  <2>1. s \in Active /\ state[s] # "running"
    BY <1>8 DEF Collect, Active, Remaining, Completed, RunnerInv, TaskInv,
       Records!Outcomes
  <2>2. PICK code \in ExitCodes(state[s]) : Report(s, ranResult(state[s], code))
    BY <1>8 DEF Collect
  <2>3. ~ranResult(state[s], code).skipped
    BY DEF ranResult
  <2>. QED
    BY <1>8, <2>1, <2>2, <2>3, ReportInv, ResultTypes DEF Collect
<1>9. ASSUME NEW s \in Specs, Launch(s) \/ Rejected(s) PROVE RunnerInv'
  BY <1>9, LaunchInv
<1>10. ASSUME NEW s \in Specs, RecordStep(s) PROVE RunnerInv'
  BY <1>10, RecordInv
<1>11. ASSUME Return \/ Cancel \/ UNCHANGED vars PROVE RunnerInv'
  BY <1>11 DEF Return, Cancel, vars, callVars, procVars, RunnerInv, TaskInv, WaveInv,
     OrderInv, SkipInv, HasRun, Active, Completed, Remaining, Failures, Passed,
     Unsatisfiable
<1>. QED
  BY <1>1, <1>2, <1>3, <1>4, <1>5, <1>6, <1>7, <1>8, <1>9, <1>10, <1>11
  DEF Next, RunnerStep

\* Where the tasks of a call stand determines what its records and its results
\* look like.
THEOREM RunnerInvariant == Spec => [](TypeOK /\ RunnerInv)
<1>1. Init => TypeOK /\ RunnerInv
  BY InitTypeOK, InitRunnerInv
<1>2. TypeOK /\ RunnerInv /\ [Next]_vars => (TypeOK /\ RunnerInv)'
  BY NextTypeOK, NextRunnerInv
<1>. QED
  BY <1>1, <1>2, PTL DEF Spec

-----------------------------------------------------------------------------
(* What the invariant implies.                                              *)

\* RunAll starts a command only when the dependencies of its spec are reported
\* and have passed or may fail, for every graph.
THEOREM DependenciesHoldCorrect == Spec => []DependenciesHold
<1>1. RunnerInv => DependenciesHold
  BY DEF RunnerInv, WaveInv, DependenciesHold
<1>. QED
  BY <1>1, RunnerInvariant, PTL

\* RunSequential keeps the order of its specs and stops at a failure.
THEOREM SequentialOrderCorrect == Spec => []SequentialOrder
<1>1. RunnerInv => SequentialOrder
  BY DEF RunnerInv, OrderInv, SequentialOrder
<1>. QED
  BY <1>1, RunnerInvariant, PTL

\* A spec reported as skipped never had a process.
THEOREM SkippedNeverRanCorrect == Spec => []SkippedNeverRan
<1>1. RunnerInv => SkippedNeverRan
  BY DEF RunnerInv, TaskInv, SkippedNeverRan, Completed, HasRun
<1>. QED
  BY <1>1, RunnerInvariant, PTL

\* A method returns after all that it started has ended.
THEOREM ReturnsLastCorrect == Spec => []ReturnsLast
<1>1. RunnerInv => ReturnsLast
  BY DEF RunnerInv, TaskInv, ReturnsLast, Completed
<1>. QED
  BY <1>1, RunnerInvariant, PTL

\* A call that reports no failure and was not cancelled has run and passed every
\* spec that any order could run, for every graph.
THEOREM HonestSuccessCorrect == Spec => []HonestSuccess
<1>1. RunnerInv => HonestSuccess
  <2>. SUFFICES ASSUME RunnerInv, returned, Success, ~cancelled, NEW s \in Specs
                PROVE  Passed(result[s]) \/ Unsatisfiable(s)
    BY DEF HonestSuccess
  <2>1. s \in Completed /\ s \notin Failures
    BY DEF RunnerInv, Success
  <2>2. CASE result[s].skipped
    BY <2>1, <2>2 DEF RunnerInv, SkipInv, Success
  <2>3. CASE ~result[s].skipped
    BY <2>1, <2>3 DEF Failures
  <2>. QED
    BY <2>2, <2>3
<1>. QED
  BY <1>1, RunnerInvariant, PTL
=============================================================================
