--------------------------- MODULE ProcessContract --------------------------
(***************************************************************************)
(* What the service promises about every record, whoever signals it and    *)
(* whenever: one launch or one rejection, one outcome, then the done        *)
(* channel, then one ActionProcessExited, and nothing about the record      *)
(* changes any more (docs/architecture.md, Status and Data Flow).           *)
(***************************************************************************)
EXTENDS Naturals

CONSTANT Ids
VARIABLES
  state,       \* [Ids -> the record's status]
  closed,      \* [Ids -> whether done is closed]
  announced    \* [Ids -> how often ActionProcessExited was broadcast]

vars == <<state, closed, announced>>

Outcomes == {"exited", "failed", "killed"}

Init ==
  /\ state = [id \in Ids |-> "absent"]
  /\ closed = [id \in Ids |-> FALSE]
  /\ announced = [id \in Ids |-> 0]

Launch(id) ==
  /\ state[id] = "absent"
  /\ state' = [state EXCEPT ![id] = "running"]
  /\ UNCHANGED <<closed, announced>>

Reject(id) ==
  /\ state[id] = "absent"
  /\ state' = [state EXCEPT ![id] = "failed"]
  /\ UNCHANGED <<closed, announced>>

Finish(id) ==
  /\ state[id] = "running"
  /\ \E o \in Outcomes : state' = [state EXCEPT ![id] = o]
  /\ UNCHANGED <<closed, announced>>

Close(id) ==
  /\ state[id] \in Outcomes /\ ~closed[id]
  /\ closed' = [closed EXCEPT ![id] = TRUE]
  /\ UNCHANGED <<state, announced>>

Announce(id) ==
  /\ closed[id] /\ announced[id] = 0
  /\ announced' = [announced EXCEPT ![id] = 1]
  /\ UNCHANGED <<state, closed>>

Next ==
  \E id \in Ids :
    Launch(id) \/ Reject(id) \/ Finish(id) \/ Close(id) \/ Announce(id)

Spec == Init /\ [][Next]_vars
=============================================================================
