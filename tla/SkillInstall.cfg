SPECIFICATION FairSpec
CONSTANTS
  File = {"x"}
  v1 = v1
  v2 = v2
  Version = {v1, v2}
  None = None
  target = target
  candidate = candidate
  elsewhere = elsewhere
  Content <- MCContent
  MaxId = 7
  MaxTree = 4
  MaxUser = 2
  MaxCrash = 1
  MaxChange = 2
INVARIANTS RetainedAreRecorded OwnedAreRecorded LockfileDescribesTarget
PROPERTIES TreesSurvive UninstallCompletes
