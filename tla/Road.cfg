CONSTANTS
  car = car
  drone = drone
  convoy = convoy
  slow = slow
  fast = fast
  Lanes = {slow, fast}
  Kinds = {car, drone, convoy}
  Drone = drone
  Convoy = convoy
  Speed <- MCSpeed
  Length <- MCLength
  ConvoyLength <- MCConvoyLength
  Cap <- MCCap
  Captures <- MCCaptures
  GAP = 1
  LONGEST = 3
  EXIT = 5
  LABELS = 1
  LABEL_MIN = 2
  STALE = 2
  FRAME = 2
  RATE = 2
  MaxPackets = 3
SPECIFICATION FairSpec
PROPERTY BurstsLeave
INVARIANTS NoOverlap Timeline
