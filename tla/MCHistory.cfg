\* Three sockets, two clients, two public addresses and a private one, three events.
SPECIFICATION Spec
CONSTANTS
  Sids = {s1, s2, s3}
  Clients = {c1, c2}
  Ips = {home, mobile, lan}
  Private = {lan}
  MaxEvents = 3
  None = None
  Unknown = Unknown
  Local = Local
SYMMETRY Symmetry
INVARIANTS
  TypeOK
  ActiveIsOwnEvent
  OpenIsAccountedFor
  SessionsCounted
  CountryWasLookedUp
