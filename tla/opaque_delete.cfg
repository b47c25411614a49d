SPECIFICATION Spec
CONSTANTS
  Replicas = {r1}
  OrgIds = {"o1", "o2"}
  Foreign = {}
  OpaqueIds = {"o1"}
  None = None
  Unset = "(unset)"
  Roles = {"owner"}
  IPs = {}
  EgressIP = "egress"
  Names <- MCNames
  DefaultName = "aws"
  NameOfId <- MCNameOfId
  Specs <- OnePlain
  HasAWS = TRUE
  CacheLag = FALSE
  Faults = {"500", "409"}
  MaxErrors = 0
  MaxCrashes = 0
  MaxApplies = 0
  Users = {"delete"}
PROPERTIES NoOrphan
CHECK_DEADLOCK FALSE
