SPECIFICATION FairSpec
CONSTANTS
  Path = {p1, p2}
  Target = {t1, t2}
  None = None
  MaxInode = 8
  MaxActs = 1
  MaxChanges = 2
  MaxFaults = 1
INVARIANTS LinksAreRecorded FanoutStaysLive
PROPERTIES UsersEntriesSurvive LinksConverge
CHECK_DEADLOCK FALSE
