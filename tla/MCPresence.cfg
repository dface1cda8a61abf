SPECIFICATION FairSpec
CONSTANTS
  alice = alice
  bob = bob
  phone = phone
  laptop = laptop
  tablet = tablet
  Users <- OneUser
  Sockets <- TwoSockets
  Owner <- OwnerOfTwo
  Workspaces = {w1}
  Calls = {c1, c2, c3}
  MaxCount = 3
CHECK_DEADLOCK FALSE
INVARIANTS
  RoomMatchesTracking
  RoomViewFresh
  PresenceCount
  NoFalseOffline
  LastCommandWins
PROPERTY JoinSettles
