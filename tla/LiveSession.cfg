CONSTANTS
  QUEUE_CAP = 2
  MAX_BATCH = 1
  MaxSessions = 2
  MaxPackets = 3
SPECIFICATION FairSpec
INVARIANT Accounted
PROPERTIES ShownWhileRunning TroubleTold SnifferStopped
