SPECIFICATION Spec
CONSTANTS
  Checks = {c1}
  Endpoints = {e1}
  Certs = {0, 2}
  ThresholdLists <- TwoLists
  NoPolicy = NoPolicy
  Nil = Nil
  MaxDay = 1
  MaxRenewals = 1
  MaxFaults = 0
  MaxEdits = 1
INVARIANTS NoAlertLost
CHECK_DEADLOCK FALSE
