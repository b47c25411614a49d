SPECIFICATION Spec
CONSTANTS
  Workers = {w1, w2}
  Resources = {"vpc", "org"}
  Organizations = {"org"}
  Ids = {i1, i2}
  None = None
  Credentials = {"secret"}
  Faults = {}
  MaxErrors = 1
  Users = {}
SYMMETRY Symmetry
INVARIANTS OneEndpoint UsageRecorded
PROPERTIES NoOrphanEndpoint ImplementsEndpointLifecycle
CHECK_DEADLOCK FALSE
