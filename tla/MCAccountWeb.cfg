SPECIFICATION Spec
CONSTANTS
  c1 = c1
  c2 = c2
  c3 = c3
  t1 = t1
  t2 = t2
  t3 = t3
  u1 = u1
  u2 = u2
  Nobody = Nobody
SYMMETRY Symmetry
CHECK_DEADLOCK FALSE
INVARIANTS TypeOK SessionIsTheUsers  ReaderIsToldWhatIs
PROPERTIES OnlyCrossingsMislead OnlyTheAskedIsChanged
