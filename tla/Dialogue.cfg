\* The dialogue of one session; restarts of either side, a crash, lost answers.
SPECIFICATION BotSpec
CONSTANTS
  Sessions = {s1}
  Users = {u1}
  u1 = u1
  u2 = u2
  s1 = s1
  Owner <- SameOwner
  Slots = {r1}
  Listener = Listener
  Followup = Followup
  NoSession = NoSession
  CreateModes = {"now"}
  ProviderEvents = {}
  AutoAction = "delete"
  AwareTimestamps = TRUE
  RetentionOutlasts = FALSE
  Punctual = FALSE
  MaxQueued = 1
  MaxFaults = 1
  Silent = {}
  MaxBotFaults = 1
INVARIANTS BotTypeOK WayForward TranscriptSent DeleteOffered AskedBacked
CHECK_DEADLOCK FALSE
