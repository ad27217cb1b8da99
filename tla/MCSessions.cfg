SPECIFICATION Spec
CONSTANTS
  Requests = {r1, r2}
  MaxSessions = 3
  MaxEpochs = 2
SYMMETRY AnyOrderOfRequests
INVARIANTS TypeOK OldPasswordOnlyByOverlap OnlyOverlapsSurvive ReplacedTwiceOnlyByOverlap
CHECK_DEADLOCK FALSE
