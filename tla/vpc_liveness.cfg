SPECIFICATION FairSpec
CONSTANTS
  Workers = {w1}
  Resources = {"vpc"}
  Organizations = {}
  Ids = {"i1", "i2"}
  None = None
  Credentials = {"short", "secret"}
  Faults = {"describe", "lost"}
  MaxErrors = 1
  Users = {"config", "console"}
INVARIANTS VPCTypeOK
PROPERTIES ConfigKept EndpointDeletionCompletes EndpointRestored ConfigDeletionCompletes
CHECK_DEADLOCK FALSE
