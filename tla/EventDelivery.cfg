CONSTANTS
  INBOX_CAPACITY = 2
  MaxEvents = 3
  MaxHosts = 2
SPECIFICATION EventFairSpec
INVARIANTS NoLateCallback MessagesKept FirstSightInOrder
PROPERTIES CallsReturn
CHECK_DEADLOCK FALSE
