SPECIFICATION Spec
CONSTANTS
  Replicas = {r1}
  OrgIds = {"o1", "o2"}
  Foreign = {}
  OpaqueIds = {}
  None = None
  Unset = "(unset)"
  Roles = {"owner", "reader"}
  IPs = {"egress", "other"}
  EgressIP = "egress"
  Names <- MCNames
  DefaultName = "aws"
  NameOfId <- MCNameOfId
  Specs <- AllStores
  HasAWS = TRUE
  CacheLag = FALSE
  Faults = {"409"}
  MaxErrors = 1
  MaxCrashes = 0
  MaxApplies = 0
  Users = {"clear", "edit"}
INVARIANTS TypeOK
PROPERTIES KeyRetained StaysListed
CHECK_DEADLOCK FALSE
