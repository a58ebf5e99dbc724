\* One session started at once, one request at a time, two faults.
SPECIFICATION FairSpec
CONSTANTS
  Sessions = {s1}
  Users = {u1}
  u1 = u1
  u2 = u2
  s1 = s1
  Owner <- SameOwner
  Slots = {r1}
  Listener = Listener
  Followup = Followup
  NoSession = NoSession
  CreateModes = {"now"}
  ProviderEvents = {}
  AutoAction = "retain"
  AwareTimestamps = TRUE
  RetentionOutlasts = TRUE
  Punctual = FALSE
  MaxQueued = 2
  MaxFaults = 2
PROPERTIES FollowsTable MovesOn DisposalResolves RequestsAnswered
CHECK_DEADLOCK FALSE
