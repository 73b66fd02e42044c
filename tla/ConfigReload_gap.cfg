SPECIFICATION Spec
CONSTANTS
  Versions = {v1, v2}
  QueueCap = 2
  MaxEdits = 2
INVARIANT NothingMissed
