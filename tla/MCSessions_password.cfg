SPECIFICATION Spec
CONSTANTS
  Requests = {r1, r2}
  MaxSessions = 2
  MaxEpochs = 1
SYMMETRY AnyOrderOfRequests
INVARIANTS PasswordChangeEndsSessions
CHECK_DEADLOCK FALSE
