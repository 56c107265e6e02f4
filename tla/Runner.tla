------------------------------- MODULE Runner -------------------------------
(***************************************************************************)
(* Runner (runner.go): one call of RunAll, RunSequential or RunParallel on  *)
(* the specs 1..N, numbered in the order of the slice.  `task' is where the *)
(* goroutine (or the loop) is with a spec.  Of the process service a runner *)
(* sees StartWithOptions' answer and the done channel, and all it may rely  *)
(* on is ProcessContract, with one record per spec.                         *)
(***************************************************************************)
EXTENDS Integers, FiniteSets

CONSTANTS
  N,                \* number of RunSpecs
  Calls             \* what callers ask for: method, After and AllowFailure

Specs == 1..N
Missing == 0        \* a dependency name that no spec has

ASSUME NAssumption == N \in Nat

Modes == {"all", "sequential", "parallel"}
Requests == [mode : Modes, after : [Specs -> SUBSET (Specs \cup {Missing})],
             allow : SUBSET Specs]

\* validateSpecs: names are unique, and no spec follows itself.
Valid(c) == \A s \in Specs : s \notin c.after[s]

ASSUME CallsAssumption == Calls \subseteq {c \in Requests : Valid(c)}

VARIABLES
  mode, after, allow,          \* the call: method, After, AllowFailure
  cancelled,                   \* ctx is done
  task,                        \* [Specs -> TaskStates]
  result,                      \* results, zero RunResults at first
  returned,                    \* the call has returned
  state, closed, announced     \* the records of the specs' processes

callVars == <<mode, after, allow>>
procVars == <<state, closed, announced>>
vars == <<callVars, cancelled, task, result, returned, procVars>>

Records == INSTANCE ProcessContract WITH Ids <- Specs

TaskStates == {"remaining", "ready", "waiting", "rejected", "done"}
zeroResult == [skipped |-> FALSE, error |-> FALSE, exitCode |-> 0]
RunResult == [skipped : BOOLEAN, error : BOOLEAN, exitCode : {-1, 0, 1}]
States == {"absent", "running"} \cup Records!Outcomes

TypeOK ==
  /\ [mode |-> mode, after |-> after, allow |-> allow] \in Calls
  /\ cancelled \in BOOLEAN /\ returned \in BOOLEAN
  /\ task \in [Specs -> TaskStates]
  /\ result \in [Specs -> RunResult]
  /\ state \in [Specs -> States]
  /\ closed \in [Specs -> BOOLEAN] /\ announced \in [Specs -> {0, 1}]

Init ==
  /\ \E c \in Calls : mode = c.mode /\ after = c.after /\ allow = c.allow
  /\ cancelled = FALSE /\ returned = FALSE
  /\ task = [s \in Specs |-> "remaining"]
  /\ result = [s \in Specs |-> zeroResult]
  /\ Records!Init

-----------------------------------------------------------------------------
(* Results.                                                                 *)

Passed(r) == ~r.skipped /\ ~r.error /\ r.exitCode = 0
ErrorsOnly == {s \in Specs : ~result[s].skipped /\ result[s].error}
Failures == {s \in Specs : ~result[s].skipped /\ ~Passed(result[s])}
Success == Failures = {}

skippedRunResult == [skipped |-> TRUE, error |-> FALSE, exitCode |-> 0]
dependencyResult == [skipped |-> TRUE, error |-> TRUE, exitCode |-> 0]
cancelledRunResult == [skipped |-> TRUE, error |-> TRUE, exitCode |-> 1]
commandNotFound == [skipped |-> FALSE, error |-> TRUE, exitCode |-> 127]
failedToStart == [skipped |-> FALSE, error |-> TRUE, exitCode |-> 0]

\* The exit codes that go with an outcome (classifyProcessExit).
ExitCodes(outcome) ==
  IF outcome = "exited" THEN {0, 1} ELSE IF outcome = "killed" THEN {-1} ELSE {0}

ranResult(outcome, code) ==
  [skipped |-> FALSE, error |-> outcome # "exited", exitCode |-> code]

Remaining == {s \in Specs : task[s] = "remaining"}
Completed == {s \in Specs : task[s] = "done"}
Active == Specs \ (Remaining \cup Completed)

ReportAll(S, r) ==
  /\ task' = [s \in Specs |-> IF s \in S THEN "done" ELSE task[s]]
  /\ result' = [s \in Specs |-> IF s \in S THEN r ELSE result[s]]

\* RunSequential stops at a failure that is not allowed.
StopsOnError(s, r) == mode = "sequential" /\ r.error /\ s \notin allow
Stops(s, r) == mode = "sequential" /\ ~Passed(r) /\ s \notin allow

SkipFromHere(s, r) ==
  LET rest == IF Stops(s, r) THEN Remaining \cup {s} ELSE {} IN
  /\ task' = [x \in Specs |-> IF x \in rest \cup {s} THEN "done" ELSE task[x]]
  /\ result' = [x \in Specs |-> IF x \in rest THEN skippedRunResult
                                ELSE IF x = s THEN r ELSE result[x]]
Report(s, r) ==
  LET rest == IF Stops(s, r) THEN Remaining ELSE {} IN
  /\ task' = [x \in Specs |-> IF x \in rest \cup {s} THEN "done" ELSE task[x]]
  /\ result' = [x \in Specs |-> IF x \in rest THEN skippedRunResult
                                ELSE IF x = s THEN r ELSE result[x]]

-----------------------------------------------------------------------------
(* RunAll: waves of specs whose dependencies are completed.                 *)

unchangedCall == UNCHANGED <<callVars, cancelled, returned, procVars>>

AtWaveEnd == mode = "all" /\ Remaining # {} /\ Active = {}

canRun(s) == after[s] \subseteq Completed

WaveStarts ==
  /\ AtWaveEnd /\ ~cancelled
  /\ \E s \in Remaining : canRun(s)
  /\ task' = [s \in Specs |->
                IF s \in Remaining /\ canRun(s) THEN "ready" ELSE task[s]]
  /\ UNCHANGED result /\ unchangedCall

\* Circular or missing dependencies.
StuckAtOnce ==
  /\ AtWaveEnd /\ ~cancelled /\ Completed = {}
  /\ \A s \in Remaining : ~canRun(s)
  /\ ReportAll(Remaining, dependencyResult) /\ unchangedCall
WaveStuck ==
  /\ AtWaveEnd /\ ~cancelled
  /\ \A s \in Remaining : ~canRun(s)
  /\ ReportAll(Remaining, dependencyResult) /\ unchangedCall

WaveCancelled ==
  /\ AtWaveEnd /\ cancelled
  /\ ReportAll(Remaining, cancelledRunResult) /\ unchangedCall

\* shouldSkip
BlockedByOwnFlag(s) ==
  mode = "all" /\ s \notin allow /\ \E dep \in after[s] : ~Passed(result[dep])
Blocked(s) ==
  mode = "all" /\ \E dep \in after[s] : ~Passed(result[dep]) /\ dep \notin allow

SkipDependent(s) ==
  /\ task[s] = "ready" /\ Blocked(s)
  /\ Report(s, dependencyResult) /\ unchangedCall

-----------------------------------------------------------------------------
(* RunSequential and RunParallel.                                           *)

NextInOrder(s) ==
  mode = "sequential" /\ Active = {} /\ s \in Remaining
    /\ \A x \in Remaining : s <= x

SequentialStarts(s) ==
  /\ NextInOrder(s) /\ ~cancelled
  /\ task' = [task EXCEPT ![s] = "ready"]
  /\ UNCHANGED result /\ unchangedCall

SequentialCancelled(s) ==
  /\ NextInOrder(s) /\ cancelled
  /\ ReportAll({s}, cancelledRunResult) /\ unchangedCall

\* Each goroutine looks at ctx once, before it starts its spec.
ParallelStarts(s) ==
  /\ mode = "parallel" /\ task[s] = "remaining" /\ ~cancelled
  /\ task' = [task EXCEPT ![s] = "ready"]
  /\ UNCHANGED result /\ unchangedCall

ParallelCancelled(s) ==
  /\ mode = "parallel" /\ task[s] = "remaining" /\ cancelled
  /\ ReportAll({s}, cancelledRunResult) /\ unchangedCall

-----------------------------------------------------------------------------
(* runSpec: StartWithOptions, then the wait for done.                       *)

Runs(s) == task[s] = "ready" /\ ~Blocked(s)

Launch(s) ==
  /\ Runs(s) /\ Records!Launch(s)
  /\ task' = [task EXCEPT ![s] = "waiting"]
  /\ UNCHANGED <<callVars, cancelled, result, returned>>

\* The command cannot be started: StartWithOptions still makes a record of it.
Rejected(s) ==
  /\ Runs(s) /\ Records!Reject(s)
  /\ task' = [task EXCEPT ![s] = "rejected"]
  /\ UNCHANGED <<callVars, cancelled, result, returned>>

\* The options are refused: there is no record.
Refused(s) == Runs(s) /\ Report(s, failedToStart) /\ unchangedCall

ReportRejected(s) ==
  /\ task[s] = "rejected" /\ announced[s] = 1
  /\ Report(s, failedToStart) /\ unchangedCall

Collect(s) ==
  /\ task[s] = "waiting" /\ closed[s]
  /\ \E code \in ExitCodes(state[s]) : Report(s, ranResult(state[s], code))
  /\ unchangedCall

ReturnEarly ==
  /\ Remaining = {} /\ ~returned /\ returned' = TRUE
  /\ UNCHANGED <<callVars, cancelled, task, result, procVars>>
Return ==
  /\ Remaining = {} /\ Active = {} /\ ~returned /\ returned' = TRUE
  /\ UNCHANGED <<callVars, cancelled, task, result, procVars>>

-----------------------------------------------------------------------------

Cancel ==
  /\ ~cancelled /\ ~returned /\ cancelled' = TRUE
  /\ UNCHANGED <<callVars, task, result, returned, procVars>>

\* The process service goes on with the records.
RecordStep(s) ==
  /\ Records!Finish(s) \/ Records!Close(s) \/ Records!Announce(s)
  /\ UNCHANGED <<callVars, cancelled, task, result, returned>>

RunnerStep ==
  \/ WaveStarts \/ WaveStuck \/ WaveCancelled \/ Return
  \/ \E s \in Specs :
       \/ SkipDependent(s) \/ SequentialStarts(s) \/ SequentialCancelled(s)
       \/ ParallelStarts(s) \/ ParallelCancelled(s)
       \/ Launch(s) \/ Rejected(s) \/ Refused(s) \/ ReportRejected(s)
       \/ Collect(s)

Next == RunnerStep \/ Cancel \/ \E s \in Specs : RecordStep(s)

Spec == Init /\ [][Next]_vars

\* Goroutines are scheduled, and every started command ends together with its
\* descendants: without that no method returns (DoneFollowsExit of Service).
FairSpec ==
  Spec /\ WF_vars(RunnerStep) /\ \A s \in Specs : WF_vars(RecordStep(s))

-----------------------------------------------------------------------------
(* Properties.                                                              *)

HasRun(s) == state[s] # "absent"

\* RunAll starts a command only when every dependency of its spec has been
\* reported, and has passed or may fail (runner.go:174-185): nothing that runs
\* in the same wave, is cancelled or is still running counts.
DependenciesHold ==
  \A s \in Specs :
    mode = "all" /\ HasRun(s) =>
      \A dep \in after[s] :
        dep \in Completed /\ (Passed(result[dep]) \/ dep \in allow)

\* RunSequential starts a command only when all earlier specs have been reported
\* and none of them failed without permission (runner.go:311-327).
SequentialOrder ==
  \A s \in Specs :
    mode = "sequential" /\ HasRun(s) =>
      \A x \in 1..(s - 1) :
        x \in Completed /\ (Passed(result[x]) \/ x \in allow)

\* A spec reported as skipped never had a process, and one that had a process
\* that ended is never reported as skipped (RunResult.Skipped).
SkippedNeverRan ==
  \A s \in Completed : result[s].skipped => ~HasRun(s)

\* When a method returns, every spec has been reported and nothing it started is
\* still running: wg.Wait is not passed by a goroutine that still waits.
ReturnsLast ==
  returned => \A s \in Specs : task[s] = "done" /\ state[s] # "running"

\* s waits, directly or not, for itself, for a missing spec, or for specs that
\* do: no wave can ever contain it.
Unsatisfiable(s) ==
  mode = "all" /\
    \E D \in SUBSET Specs :
      s \in D /\ \A d \in D : after[d] \cap (D \cup {Missing}) # {}

\* Success means what it says: unless the call was cancelled, a method that
\* reports no failure has run and passed every spec that could be run at all,
\* although skipped specs are not counted as failures (RunAllResult.Success).
HonestSuccess ==
  returned /\ Success /\ ~cancelled =>
    \A s \in Specs : Passed(result[s]) \/ Unsatisfiable(s)

\* The inductive invariant behind them: what the record of a spec looks like where
\* its task is, which tasks are active together, and why a spec was skipped.
TaskInv(s) ==
  /\ task[s] \in {"remaining", "ready"} => state[s] = "absent"
  /\ task[s] = "waiting" => state[s] # "absent"
  /\ task[s] = "rejected" => state[s] = "failed"
  /\ state[s] = "running" => task[s] = "waiting"
  /\ closed[s] => state[s] \in Records!Outcomes
  /\ task[s] # "done" => result[s] = zeroResult
  /\ task[s] = "done" /\ result[s].skipped => state[s] = "absent"

WaveInv(s) ==
  mode = "all" =>
    /\ s \in Active => after[s] \subseteq Completed
    /\ HasRun(s) => \A dep \in after[s] :
         dep \in Completed /\ (Passed(result[dep]) \/ dep \in allow)

OrderInv(s) ==
  mode = "sequential" =>
    /\ s \in Active => \A x \in Active : x = s
    /\ s \in Active \/ HasRun(s) =>
         \A x \in 1..(s - 1) :
           x \in Completed /\ (Passed(result[x]) \/ x \in allow)
    /\ s \notin Completed /\ ~cancelled =>
         \A x \in Completed : Passed(result[x]) \/ x \in allow

SkipInv(s) ==
  s \in Completed /\ result[s].skipped /\ ~cancelled =>
    Failures # {} \/ Unsatisfiable(s)

RunnerInv ==
  /\ \A s \in Specs : TaskInv(s) /\ WaveInv(s) /\ OrderInv(s) /\ SkipInv(s)
  /\ returned => Completed = Specs

\* Every method returns, also on circular and missing dependencies.
Returns == <>returned
=============================================================================
