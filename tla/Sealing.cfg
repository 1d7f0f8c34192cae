CONSTANTS
  BROADCAST_ID = everyone
  Nodes = {a, b}
  Channel <- MCChannel
  Nickname <- MCNickname
  Ttl = 2
  RETAINED = 1
  Lengths <- MCLengths
  MaxFrames = 6
  Users = {a}
  Rotators = {b}
  MaxRotations = 1
  MaxFaults = 1
  FaultCost = 3
SPECIFICATION Spec
INVARIANTS Authentic PadlockHonest ChainsHandedOver Fits
PROPERTY NoDowngrade
