SPECIFICATION SumSpec
CONSTANTS
  r1 = r1
  r2 = r2
  t1 = t1
  t2 = t2
  h1 = h1
  h2 = h2
  h3 = h3
  Requests = {r1, r2}
  Names = {"ann", "Ann", "bob"}
  Capital <- MCCapital
  Emails = {"e"}
  Bases <- MCBases
  SQLite = FALSE
  MaxUsers = 2
  MaxSlugs = 2
  MaxSent = 4
  Tenants = {t1, t2}
  Handlers = {h1, h2, h3}
  MaxDomains = 2
  MaxWork = 4
SYMMETRY Symmetry
CHECK_DEADLOCK FALSE
INVARIANTS
  TypeOK DataTypeOK SameOnlyByOverlap NamesHaveOneOwner 
  OverridesHaveDomains StartsRepair
