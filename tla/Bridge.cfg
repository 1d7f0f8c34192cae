CONSTANTS
  EventsOf <- MCEventsOf
  PeerTables <- MCPeerTables
  Lengths <- MCLengths
  MAX_BODY = 324
  MAX_FRAME = 512
  MaxCores = 2
  MaxCommands = 2
SPECIFICATION Spec
INVARIANTS RadioReleasedOnce HandlesLive AcceptedServed DecodedAsSent
