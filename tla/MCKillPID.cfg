CONSTANTS
  Ids = {p1, p2}
  Callers = {c1}
  Pids = {q1, q2}
  Stranger = Stranger
  None = None
SPECIFICATION Spec
INVARIANT KillPIDTerminates
CHECK_DEADLOCK FALSE
