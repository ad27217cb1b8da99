SPECIFICATION FairSpec
CONSTANTS
  d1 = d1
  d2 = d2
  d3 = d3
  w1 = w1
  w2 = w2
  r1 = r1
  t1 = t1
  Domains = {d1, d2}
  Tenants = {t1}
  Owner <- MCOwner1
  Intervals = {1}
  Workers = {w1}
  Requests = {}
  NoDomain = NoDomain
  QueueFactor = 1
  BatchFactor = 2
  MaxNow = 1
  MaxFaults = 1
  MaxEdits = 0
INVARIANTS TypeOK NoLostClaim
PROPERTIES ShutdownDrains DueIsChecked
