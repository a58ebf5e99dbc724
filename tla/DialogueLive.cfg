\* The same under fairness: what reaches the chat in the end.
SPECIFICATION BotFairSpec
CONSTANTS
  Sessions = {s1}
  Users = {u1}
  u1 = u1
  u2 = u2
  s1 = s1
  Owner <- SameOwner
  Slots = {r1}
  Listener = Listener
  Followup = Followup
  NoSession = NoSession
  CreateModes = {"now", "future"}
  ProviderEvents = {}
  AutoAction = "delete"
  AwareTimestamps = TRUE
  RetentionOutlasts = FALSE
  Punctual = FALSE
  MaxQueued = 2
  MaxFaults = 0
  Silent = {s1}
  MaxBotFaults = 0
PROPERTIES StopOffered DisposalAsked
CHECK_DEADLOCK FALSE
