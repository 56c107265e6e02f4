---------------------------- MODULE ProcessGroup ----------------------------
(***************************************************************************)
(* What the operating system keeps for a spawned command: the leader, and  *)
(* whether some descendant of its process group still holds the output     *)
(* pipes.  applyProcessGroup (platform_unix.go) makes every command the    *)
(* leader of its own group, and a signal reaches either the leader or the  *)
(* whole group.  A descendant that left the group, and the reuse of a      *)
(* reaped pid by another command, are outside this module.                 *)
(***************************************************************************)
EXTENDS Integers, FiniteSets

CONSTANT Ids        \* the records the service can create, one command each

VARIABLES
  leader,           \* [Ids -> LeaderStates]
  cause,            \* how the leader ended, as waitid reports it
  kids              \* a live descendant in the group holds the output pipes

osVars == <<leader, cause, kids>>

LeaderStates == {"none", "alive", "zombie", "reaped"}
Causes == {"none", "zero", "nonzero", "signal"}

OSTypeOK ==
  /\ leader \in [Ids -> LeaderStates]
  /\ cause \in [Ids -> Causes]
  /\ kids \in [Ids -> BOOLEAN]

OSInit ==
  /\ leader = [id \in Ids |-> "none"]
  /\ cause = [id \in Ids |-> "none"]
  /\ kids = [id \in Ids |-> FALSE]

-----------------------------------------------------------------------------
(* Signal delivery.  A zombie still accepts signals; a reaped leader does   *)
(* not, and a group exists until its last member is gone.                   *)

LeaderExists(id) == leader[id] \in {"alive", "zombie"}
GroupExists(id) == LeaderExists(id) \/ kids[id]

LeaderEnds(id, c) ==
  /\ leader' = [leader EXCEPT ![id] = IF @ = "alive" THEN "zombie" ELSE @]
  /\ cause' = [cause EXCEPT ![id] = IF leader[id] = "alive" THEN c ELSE @]

KillLeader(id) == LeaderEnds(id, "signal") /\ UNCHANGED kids

processKillGroup(id) ==
  LeaderEnds(id, "signal") /\ kids' = [kids EXCEPT ![id] = FALSE]

\* A catchable signal ends whom it ends: the leader and the descendants may
\* each handle or ignore it.
processSignal(id) == UNCHANGED osVars \/ KillLeader(id)

processSignalGroup(id) ==
  \/ processSignal(id)
  \/ UNCHANGED <<leader, cause>> /\ kids' = [kids EXCEPT ![id] = FALSE]
  \/ processKillGroup(id)

-----------------------------------------------------------------------------
(* What the processes do on their own.                                      *)

SpawnLeader(id) ==
  leader' = [leader EXCEPT ![id] = "alive"] /\ UNCHANGED <<cause, kids>>

\* The leader exits by itself or dies of a signal from outside the service.
LeaderExits(id) ==
  /\ leader[id] = "alive"
  /\ \E c \in Causes \ {"none"} : LeaderEnds(id, c)
  /\ UNCHANGED kids

Forks(id) ==
  /\ leader[id] = "alive" /\ ~kids[id]
  /\ kids' = [kids EXCEPT ![id] = TRUE]
  /\ UNCHANGED <<leader, cause>>

KidsExit(id) ==
  /\ kids[id]
  /\ kids' = [kids EXCEPT ![id] = FALSE]
  /\ UNCHANGED <<leader, cause>>

\* Both pipes reach end of file when no process of the group is left to write.
PipesClosed(id) == leader[id] # "alive" /\ ~kids[id]

Reap(id) ==
  /\ leader[id] = "zombie"
  /\ leader' = [leader EXCEPT ![id] = "reaped"]
  /\ UNCHANGED <<cause, kids>>
=============================================================================
