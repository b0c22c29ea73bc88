\* Two uploads of three chunks, two downloads, a buffer of one chunk.
SPECIFICATION Spec
CONSTANTS
  Puts = {p1, p2}
  Gets = {g1, g2}
  Chunks = 3
  MaxBuffer = 1
  None = None
CHECK_DEADLOCK FALSE
INVARIANTS
  TypeOK
  NoLostWakeup
  ReaderIsHeld
  BodyIsPrefix
  MissedOnlyIfShared
PROPERTIES
  BlockedIsReleased
  DrainedByAnother
