\* A PC and an app, two rooms, one transfer, an offer and a request in flight.
SPECIFICATION Spec
CONSTANTS
  Clients = {pc, app}
  Pcs = {pc}
  Apps = {app}
  Rooms = {r1, r2}
  NoRoom = NoRoom
  RoomMaxPeers = 2
  Transfers = {t1}
  MaxWaking = 1
  MaxTimers = 2
  NoContext = NoContext
INVARIANTS
  TransferTypeOK
  CommandsTellStatus
  WaitingHasTimer
PROPERTIES
  NoWaitAgainstVerdict
  WaitingIsDecided
