\* Two users with a session each, whose workers share the command stream.
SPECIFICATION Spec
CONSTANTS
  Sessions = {s1, s2}
  Users = {u1, u2}
  u1 = u1
  u2 = u2
  s1 = s1
  Owner <- OwnEach
  Slots = {r1}
  Listener = Listener
  Followup = Followup
  NoSession = NoSession
  CreateModes = {"now"}
  ProviderEvents = {}
  AutoAction = "retain"
  AwareTimestamps = TRUE
  RetentionOutlasts = FALSE
  Punctual = FALSE
  MaxQueued = 2
  MaxFaults = 0
INVARIANTS AudioBacked LeftMeansGone
CHECK_DEADLOCK FALSE
