SPECIFICATION Spec
CONSTANTS
  d1 = d1
  d2 = d2
  d3 = d3
  w1 = w1
  w2 = w2
  r1 = r1
  t1 = t1
  Domains = {d1}
  Tenants = {t1}
  Owner <- MCOwner1
  Intervals = {1, 2}
  Workers = {w1}
  Requests = {r1}
  NoDomain = NoDomain
  QueueFactor = 1
  BatchFactor = 2
  MaxNow = 2
  MaxFaults = 0
  MaxEdits = 1
INVARIANTS NotDueBeforeInterval NeverParked AbortedNeverRecorded
