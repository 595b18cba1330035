SPECIFICATION FairSpec
CONSTANTS
  File = {"x"}
  v1 = v1
  v2 = v2
  Version = {v1, v2}
  None = None
  target = target
  candidate = candidate
  elsewhere = elsewhere
  Content <- MCContent
  MaxId = 6
  MaxTree = 3
  MaxUser = 0
  MaxCrash = 1
  MaxChange = 2
PROPERTY InterruptedSwapRecovers
