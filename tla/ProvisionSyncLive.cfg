\* One config item, two publishers, an approval and a DELETE queued together.
CONSTANTS
  Item = {config}
  ConfigItem = {config}
  URL = {u1, u2}
  Pinned = None
  None = None
  MaxGeneration = 3
  MaxQueue = 2
SPECIFICATION FairSpec
PROPERTIES RequestsServed ShutdownCompletes
