SPECIFICATION Spec
CONSTANTS
  Checks = {c1, c2}
  Endpoints = {e1}
  Certs = {8}
  ThresholdLists <- DefaultList
  NoPolicy = NoPolicy
  Nil = Nil
  MaxDay = 0
  MaxRenewals = 0
  MaxFaults = 1
  MaxEdits = 0
INVARIANTS TypeOK AtMostOnce NoPendingLeftBehind
PROPERTIES ImplementsAtMostOnce
