SPECIFICATION OfficeSpec
CONSTANTS
  FileIds = {f1, f2}
  FileCalls = {c1, c2, c3}
  BrowserTabs = {b1, b2}
  Tokens = {k1, k2, k3}
  NoToken = noToken
  Persons = {p1, p2}
  Offices = {w1, w2}
  OtherOffice = w2
  MemberIds = {i1, i2, i3}
  MemberCalls = {a1, a2}
  GivenRoles = {"ADMIN"}
  ProjectIds = {j1}
  TaskIds = {t1}
  TaskCalls = {a1, a2}
  Unassigned = nobody
  RecordCalls = {a1, a2}
  RecordOps <- AllRecordOps
  LastDay = 2
  MaxRows = 2
  ViewCalls = {c1, c2, c3}
  MaxChanges = 2
  MaxSwitches = 2
  PageCalls = {c1, c2, c3}
  LastRow = 4
  PageSize = 1
  LastFilter = 1
  EventIds = {e1}
  DayTicks = 2
  MaxSpan = 16
  Instants <- Moments
  Dates <- DeadlineDates
  LastNow = 3
  Clients = {p1, p2}
  limit = 2
  windowMs = 2
  MaxStore = 1
  LastTick = 4
  MaxBurst = 3
  Typists = {p1, p2}
  Rooms = {r1, r2}
  NoRoom = noRoom
  MaxKeys = 3
  MaxWaiting = 3
SYMMETRY Symmetry
CHECK_DEADLOCK FALSE
INVARIANT OverlapShown
