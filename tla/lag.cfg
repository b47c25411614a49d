SPECIFICATION Spec
CONSTANTS
  Replicas = {r1}
  OrgIds = {"o1", "o2"}
  Foreign = {}
  OpaqueIds = {}
  None = None
  Unset = "(unset)"
  Roles = {"owner"}
  IPs = {}
  EgressIP = "egress"
  Names <- MCNames
  DefaultName = "aws"
  NameOfId <- MCNameOfId
  Specs <- OnePlain
  HasAWS = TRUE
  CacheLag = TRUE
  Faults = {"409"}
  MaxErrors = 1
  MaxCrashes = 1
  MaxApplies = 1
  Users = {"delete", "clear"}
INVARIANTS NameMatchesStatus
PROPERTIES OrphanOnlyWithoutKey RecordsKept
CHECK_DEADLOCK FALSE
