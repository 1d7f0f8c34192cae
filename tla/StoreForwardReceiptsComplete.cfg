CONSTANTS
  Peers = {p1, p2}
  UserMsgs = {m1, m2}
  CAPACITY = 2
  BASE_BACKOFF = 1
  MAX_BACKOFF = 2
  DEADLINE = 3
  MAX_SHIFT = 1
  PEER_TTL = 1
  Timely = TRUE
SPECIFICATION Spec
INVARIANT ReceiptsComplete
