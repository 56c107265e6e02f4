CONSTANTS
  Instances = {d1, d2}
  Clients = {}
  Pids = {q1, q2, q3}
  Hosts <- OneUser
  None = None
  Absent = Absent
  Empty = Empty
  WithHealth = FALSE
SPECIFICATION Spec
INVARIANT SingleInstance
