SPECIFICATION Spec
CONSTANTS
  Address = {a1, a2}
  None = None
  MaxNodes = 1
  Client = {c1, c2}
  Commands = {"D", "Q", "E", "X"}
  MaxMishaps = 1
INVARIANTS TableTypeOK DistinctRows ConnectionOfRow DeletedForGood
PROPERTY DeletesNamed
SYMMETRY Interchangeable
CHECK_DEADLOCK FALSE
