SPECIFICATION Spec
CONSTANTS
  Clients = {c1}
  Moderators = {c1}
  Messages = {m1}
  Calls = {k1, k2}
  Operations = {"edit", "delete", "approve", "remove"}
  Review = TRUE
  Overlapping = {"send", "edit", "delete", "approve", "remove"}
  MaxBody = 1
  MaxWire = 2
  c1 = c1
  m1 = m1
  k1 = k1
  k2 = k2
INVARIANT NoDuplicates
INVARIANT NothingMissed
INVARIANT LiveCopyExact
