SPECIFICATION FairSpec
CONSTANTS
  Request = {r1}
  Engine = {"claude", "codex_custom"}
  None = None
  Absent = Absent
  NoFile = NoFile
  Torn = Torn
  MaxCred = 1
  MaxBoots = 2
INVARIANTS SuccessIsSuccess HistoryIsAdopted
PROPERTIES KillReachesChild RequestsAreReleased HistoryIsKept
CHECK_DEADLOCK FALSE
