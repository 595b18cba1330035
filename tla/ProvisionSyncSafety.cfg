\* A skill and a config item, two publishers, two queued requests.
CONSTANTS
  Item = {skill, config}
  ConfigItem = {config}
  URL = {u1, u2}
  Pinned = None
  None = None
  MaxGeneration = 2
  MaxQueue = 2
SPECIFICATION Spec
SYMMETRY MCSymmetry
INVARIANT OwnedOnDisk
PROPERTIES ConsentedInstalls DeleteIsNotUndone InstalledFromRegistered
           AdoptionIsOneShot
