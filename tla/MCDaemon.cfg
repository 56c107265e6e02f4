CONSTANTS
  Instances = {d1, d2}
  Clients = {c1}
  Pids = {q1, q2, q3}
  Hosts <- MCHosts
  None = None
  Absent = Absent
  Empty = Empty
  WithHealth = TRUE
SPECIFICATION Spec
INVARIANTS
  TypeOK
  RollsBack
  ListenerTracked
  PortExcludes
PROPERTIES
  SparesTheLiving
SYMMETRY Symmetry
