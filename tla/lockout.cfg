SPECIFICATION Spec
CONSTANTS
  Replicas = {r1}
  OrgIds = {"o1", "o2"}
  Foreign = {}
  OpaqueIds = {}
  None = None
  Unset = "(unset)"
  Roles = {"owner", "reader"}
  IPs = {"egress", "other"}
  EgressIP = "egress"
  Names <- MCNames
  DefaultName = "aws"
  NameOfId <- MCNameOfId
  Specs <- AllLists
  HasAWS = TRUE
  CacheLag = FALSE
  Faults = {"500", "409"}
  MaxErrors = 1
  MaxCrashes = 1
  MaxApplies = 0
  Users = {"clear", "edit", "delete"}
INVARIANTS NotLockedOut
CHECK_DEADLOCK FALSE
