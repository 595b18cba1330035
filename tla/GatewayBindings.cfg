\* One slot, three logins in a table for two, two failed writes or restarts.
CONSTANTS
  Slot = {s1}
  None = None
  MaxGeneration = 3
  MaxBindings = 2
  MaxFaults = 2
SPECIFICATION Spec
INVARIANTS MemoryMatchesDisk LiveLoginsStayBound FailedCreatesReleased
PROPERTY RelaysNeverGoBack
CHECK_DEADLOCK FALSE
