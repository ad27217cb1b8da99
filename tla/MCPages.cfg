SPECIFICATION Spec
CONSTANTS
  c1 = c1
  c2 = c2
  c3 = c3
  d1 = d1
  d2 = d2
  d3 = d3
  e1 = e1
  Nobody = Nobody
SYMMETRY Symmetry
CHECK_DEADLOCK FALSE
INVARIANTS
  TypeOK FormsSaveWhatTheyShow  HeldForItsOwn
  OnlyTheConfirmedIsDone StatusAddsUp
