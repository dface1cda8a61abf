SPECIFICATION BothSpec
CONSTANTS
  Sockets = {1, 2}
  MaxJoins = 3
  MaxMutes = 1
  ann = ann
  ben = ben
  left = left
  Elsewhere = Elsewhere
  Users <- MCUsers
  Tabs <- OneTab
  Owner <- OwnerOfOne
  Subjects = {s1}
  Handlers = {h1, h2}
  Repeats = FALSE
  Remote = TRUE
  MaxRows = 2
  MaxMarks = 1
  MaxLosses = 1
CHECK_DEADLOCK FALSE
INVARIANTS
  NoGlare
  ListIsTrue
  MeshFollowsList
  FirstCallsConnect
  NothingAfterLeaving
  NoDuplicates
  NothingMissed
  InboxTrue
