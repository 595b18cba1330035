SPECIFICATION FairSpec
CONSTANTS
  Identity = {a, b, c}
  None = None
  MaxUsers = 2
  MaxUid = 3
  MaxFaults = 1
  MaxChanges = 1
INVARIANTS AccountsAreRecorded OneAccountForGood
PROPERTY RetriesSucceed
