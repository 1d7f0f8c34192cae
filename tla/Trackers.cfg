CONSTANTS
  Conns = {c1, c2}
  TIMEOUT = 2
  REFAIL_WINDOW = 1
  PENDING_CAP = 1
  OPEN_CAP = 1
  FAIL_CAP = 1
  RETRIES = 2
  Interval <- MCInterval
  Lookups = {q1, q2, q3}
  Discovery = {q3}
  DNS_TIMEOUT = 2
  DNS_CAP = 1
  RESEND = 1
  ASKS = 2
  LAG = 2
  MaxWire = 2
  MaxBusy = 2
SPECIFICATION Spec
SYMMETRY Symmetry
INVARIANTS CountedOnce OpenIsExact TimeoutsHonest
