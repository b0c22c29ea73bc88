\* Two devices in one room, two tokens each, one fan-out at a time, two calls.
SPECIFICATION DeliverySpec
CONSTANTS
  phone = phone
  pc = pc
  s1 = s1
  s3 = s3
  note = note
  line = line
  file = file
  Clients = {phone, pc}
  Rooms = {r1}
  Types = {"app", "unknown"}
  Fanouts = {f1}
  MaxRefresh = 2
  NoRow = NoRow
  Nobody = Nobody
  Sids = {s1, s3}
  Device <- McDevice
  Items = {note, line, file}
  Author <- McAuthor
  Files = {file}
  Identified = {note}
  MaxCalls = 2
INVARIANTS
  DeliveryTypeOK
  OneDevicePerType
  AgainOnlyIfRetried
  NobodyForgotten
PROPERTIES
  OnlyDisplacementDrops
