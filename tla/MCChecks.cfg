SPECIFICATION SumSpec
CONSTANTS
  Checks = {c1, c2}
  Endpoints = {e1}
  Certs = {0, 8}
  ThresholdLists <- DefaultList
  NoPolicy = NoPolicy
  Nil = Nil
  MaxDay = 1
  MaxRenewals = 0
  MaxFaults = 0
  MaxEdits = 0
  DaysRange <- Days
  ThresholdInputs <- Lists
  LoneCheck = {c1}
  BothEndpoints = {e1, e2}
  Expiries = {0, 2}
  Domains = {d1, d2}
  Tenants = {t1}
  Owner <- OneOwner
  Intervals = {1}
  Workers = {w1}
  Requests = {}
  NoDomain = NoDomain
  QueueFactor = 1
  BatchFactor = 1
  MaxNow = 2
  MaxOrderFaults = 0
  MaxOrderEdits = 0
SYMMETRY Symmetry
CHECK_DEADLOCK FALSE
INVARIANTS BoundedOvertaking EveryAlertIsTried OnlyPassingsAnnounced
