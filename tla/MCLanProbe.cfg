\* A PC and two apps, two rooms of two.
SPECIFICATION LanSpec
CONSTANTS
  Clients = {pc, app1, app2}
  Pcs = {pc}
  Apps = {app1, app2}
  Rooms = {r1, r2}
  NoRoom = NoRoom
  RoomMaxPeers = 2
SYMMETRY LanSymmetry
INVARIANTS
  AnnouncedCurrent
  PairIsProbed
PROPERTIES
  DepartureWithdrawsVerdict
