\* Three uploads of two chunks.
SPECIFICATION Spec
CONSTANTS
  Puts = {p1, p2, p3}
  Chunks = 2
  None = None
CHECK_DEADLOCK FALSE
INVARIANT
  NeverHalfWritten
