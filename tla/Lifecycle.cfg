\* The full dialogue of one session, two requests at a time.
SPECIFICATION Spec
CONSTANTS
  Sessions = {s1}
  Users = {u1}
  u1 = u1
  u2 = u2
  s1 = s1
  Owner <- SameOwner
  Slots = {r1, r2}
  Listener = Listener
  Followup = Followup
  NoSession = NoSession
  CreateModes = {"now", "future"}
  ProviderEvents = {}
  AutoAction = "delete"
  AwareTimestamps = TRUE
  RetentionOutlasts = FALSE
  Punctual = FALSE
  MaxQueued = 2
  MaxFaults = 0
SYMMETRY Interchangeable
INVARIANTS TypeOK AudioInv LeftMeansGone DeletedMeansGone
PROPERTIES SettledIsFinal OneVisit
CHECK_DEADLOCK FALSE
