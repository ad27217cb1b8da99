SPECIFICATION FairSpec
CONSTANTS
  c1 = c1
  c2 = c2
  t1 = t1
  u1 = u1
  Nobody = Nobody
CHECK_DEADLOCK FALSE
PROPERTIES CallsEnd WaitingEnds
