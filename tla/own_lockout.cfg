SPECIFICATION FairSpec
CONSTANTS
  Replicas = {r1}
  OrgIds = {"o1", "o2"}
  Foreign = {}
  OpaqueIds = {}
  None = None
  Unset = "(unset)"
  Roles = {"owner"}
  IPs = {"egress", "other"}
  EgressIP = "egress"
  Names <- MCNames
  DefaultName = "aws"
  NameOfId <- MCNameOfId
  Specs <- OneTidy
  HasAWS = TRUE
  CacheLag = FALSE
  Faults = {"500", "409"}
  MaxErrors = 0
  MaxCrashes = 0
  MaxApplies = 0
  Users = {"delete"}
PROPERTIES DeletionCompletes
CHECK_DEADLOCK FALSE
