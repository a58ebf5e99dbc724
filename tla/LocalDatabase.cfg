\* A local gateway: SQLite returns timestamps without a time zone.
SPECIFICATION FairSpec
CONSTANTS
  Sessions = {s1}
  Users = {u1}
  u1 = u1
  u2 = u2
  s1 = s1
  Owner <- SameOwner
  Slots = {r1}
  Listener = Listener
  Followup = Followup
  NoSession = NoSession
  CreateModes = {"now", "future"}
  ProviderEvents = {}
  AutoAction = "retain"
  AwareTimestamps = FALSE
  RetentionOutlasts = TRUE
  Punctual = FALSE
  MaxQueued = 2
  MaxFaults = 0
PROPERTIES DisposalResolves
CHECK_DEADLOCK FALSE
