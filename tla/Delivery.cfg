CONSTANTS
  Msgs = {m1}
  Relays = {r1, r2}
  Sender = Sender
  Recipient = Recipient
  HOPS = 3
  DEADLINE = 2
  TTL = 2
  CAPACITY = 1
  Forgetful = {Recipient}
SPECIFICATION Spec
INVARIANTS CarriesOnlyForAbsent
PROPERTIES ImplementsMailbox LateBound
