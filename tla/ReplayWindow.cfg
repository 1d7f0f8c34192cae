CONSTANTS
  Senders = {s1}
  NoWindow = NoWindow
  WINDOW = 2
  MaxEpoch = 1
  MaxCounter = 4
SPECIFICATION WindowSpec
INVARIANTS AtMostOnce WindowInv
PROPERTIES NeverRefuseInWindow SessionsInOrder
