SPECIFICATION FairSpec
CONSTANTS
  Users = {u1, u2}
  Requests = {r1}
  Calls = {c1, c2}
  Grants = {{}, {"request.create", "request.approve"}}
  u1 = u1
  u2 = u2
  r1 = r1
  c1 = c1
  c2 = c2
  None = None
INVARIANTS SeparationOfDuties OnlyFactsReported TrailComplete OutcomeStands
PROPERTIES ImplementsWorkflow OutcomeAnnounced
