SPECIFICATION Spec
CONSTANTS
  Names = {n1, n2}
  URLs = {u1, u2}
  Limit = 2
  Times <- MCTimes
  MaxRows = 3
SYMMETRY Symmetry
INVARIANTS
  TypeOK
  Interchangeable
PROPERTIES
  SQLiteIsStore
  MemoryIsStore
CHECK_DEADLOCK FALSE
