\* Two sessions of one user are created at once.
SPECIFICATION Spec
CONSTANTS
  Sessions = {s1, s2}
  Users = {u1}
  u1 = u1
  u2 = u2
  s1 = s1
  Owner <- SameOwner
  Slots = {r1, r2}
  Listener = Listener
  Followup = Followup
  NoSession = NoSession
  CreateModes = {"now"}
  ProviderEvents = {}
  AutoAction = "delete"
  AwareTimestamps = TRUE
  RetentionOutlasts = FALSE
  Punctual = FALSE
  MaxQueued = 2
  MaxFaults = 0
INVARIANTS OneActivePerUser
CHECK_DEADLOCK FALSE
