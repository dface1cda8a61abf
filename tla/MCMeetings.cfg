SPECIFICATION HalfSpec
CONSTANTS
  People = {ann, ben}
  Managers = {ann, ben}
  Tabs = {ann}
  Calls = {k1, k2}
  Operations = {"start", "end", "archive", "join"}
  Polls = {q1}
  MaxTyped = 2
  Nobody = Nobody
  ann = ann
  ben = ben
  k1 = k1
  k2 = k2
  q1 = q1
CHECK_DEADLOCK FALSE
INVARIANTS
  OnlyTheInvolvedWrite
  OneNoteEach
  WordsAreTheirs
  ShownOnce
PROPERTIES
  TabSettles
  LifecycleForward
