SPECIFICATION FairSpec
CONSTANTS
  Replicas = {r1}
  OrgIds = {"o1", "o2"}
  Foreign = {"o2"}
  OpaqueIds = {}
  None = None
  Unset = "(unset)"
  Roles = {"owner"}
  IPs = {}
  EgressIP = "egress"
  Names <- MCNames
  DefaultName = "aws"
  NameOfId <- MCNameOfId
  Specs <- OnePlain
  HasAWS = TRUE
  CacheLag = FALSE
  Faults = {"500", "409"}
  MaxErrors = 2
  MaxCrashes = 1
  MaxApplies = 0
  Users = {"delete"}
PROPERTIES DeletionCompletes ForeignUntouched
CHECK_DEADLOCK FALSE
