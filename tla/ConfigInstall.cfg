SPECIFICATION FairSpec
CONSTANTS
  Version = {"v1", "v2"}
  None = None
  MaxInode = 5
  MaxDir = 2
  MaxActs = 2
  MaxChanges = 2
  MaxGrants = 1
  MaxFaults = 1
INVARIANT SecretsAreRecorded
PROPERTIES UsersFilesSurvive SyncsConverge
CHECK_DEADLOCK FALSE
