CONSTANTS
  ROTATE_INTERVAL = 2
  RETAINED = 2
  DEADLINE = 4
  Msgs = {m1}
  NoPrekey = NoPrekey
  MaxEpoch = 1
  MaxGeneration = 3
  Timely = TRUE
SPECIFICATION LifeFairSpec
INVARIANTS RetriesOpen ExposureWhileRunning
PROPERTY Heals
