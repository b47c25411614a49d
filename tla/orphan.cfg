SPECIFICATION Spec
CONSTANTS
  Replicas = {r1, r2}
  OrgIds = {"o1", "o2"}
  Foreign = {}
  OpaqueIds = {}
  None = None
  Unset = "(unset)"
  Roles = {"owner"}
  IPs = {}
  EgressIP = "egress"
  Names <- MCNames
  DefaultName = "aws"
  NameOfId <- MCNameOfId
  Specs <- OnePlain
  HasAWS = TRUE
  CacheLag = FALSE
  Faults = {"409"}
  MaxErrors = 1
  MaxCrashes = 0
  MaxApplies = 0
  Users = {"delete"}
SYMMETRY Symmetry
PROPERTIES KeyRetained OrphanOnlyWithoutKey
CHECK_DEADLOCK FALSE
