SPECIFICATION Spec
CONSTANTS
  alice = alice
  bob = bob
  phone = phone
  laptop = laptop
  tablet = tablet
  Users <- MCUsers
  Sockets <- ThreeSockets
  Owner <- OwnerOfThree
  Workspaces = {w1}
  Calls = {c1, c2, c3}
  MaxCount = 4
CHECK_DEADLOCK FALSE
INVARIANT
  OnlineMeansInRoom
