CONSTANTS
  Peers = {p1,p2}
  UserMsgs = {m1,m2}
  CAPACITY = 2
  BASE_BACKOFF = 1
  MAX_BACKOFF = 2
  DEADLINE = 2
  MAX_SHIFT = 1
  PEER_TTL = 1
  Timely = FALSE
SPECIFICATION FairSpec
INVARIANT UiHonest
PROPERTIES GivenUpOnlyWhenDue ImplementsReceipts Settles
