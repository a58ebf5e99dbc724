\* A scheduled session is cancelled while its join job fires.
SPECIFICATION Spec
CONSTANTS
  Sessions = {s1}
  Users = {u1}
  u1 = u1
  u2 = u2
  s1 = s1
  Owner <- SameOwner
  Slots = {r1}
  Listener = Listener
  Followup = Followup
  NoSession = NoSession
  CreateModes = {"future"}
  ProviderEvents = {}
  AutoAction = "delete"
  AwareTimestamps = TRUE
  RetentionOutlasts = FALSE
  Punctual = FALSE
  MaxQueued = 2
  MaxFaults = 0
PROPERTIES TerminalIsFinal
CHECK_DEADLOCK FALSE
