CONSTANTS
  MaxChain = 1
  MAX_INDEX = 4
  MAX_SKIP = 2
  SKIPPED_CAP = 1
  CHAINS_PER_PEER = 1
  MaxInFlight = 2
SPECIFICATION ChainSpec
INVARIANTS InStep PastStaysShut
PROPERTY KeysLost
