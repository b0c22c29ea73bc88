\* Three clients, three sockets, two rooms of capacity two.
SPECIFICATION Spec
CONSTANTS
  c1 = c1
  c2 = c2
  c3 = c3
  s1 = s1
  s2 = s2
  s3 = s3
  Clients = {c1, c2, c3}
  Sids = {s1, s2, s3}
  Rooms = {r1, r2}
  ClientTypes = {"pc", "unknown"}
  PcTypes = {"pc"}
  UnknownType = "unknown"
  RoomMaxPeers = 2
  Uses <- MCUses
  NoRoom = NoRoom
  NoClient = NoClient
SYMMETRY RoomSymmetry
INVARIANTS
  TypeOK
  ListsAgree
  StatsCurrent
  GhostsNeedTwoIds
PROPERTIES
  OnlyEvictionDropsSeveral
  EvictionFollowsOrder
  ImplementsMembership
