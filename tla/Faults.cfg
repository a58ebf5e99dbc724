\* One session; the gateway, its worker and the transcriber crash or restart.
SPECIFICATION FairSpec
CONSTANTS
  Sessions = {s1}
  Users = {u1}
  u1 = u1
  u2 = u2
  s1 = s1
  Owner <- SameOwner
  Slots = {r1}
  Listener = Listener
  Followup = Followup
  NoSession = NoSession
  CreateModes = {"now", "future"}
  ProviderEvents = {"waiting_room", "recording", "meeting_ended", "failed"}
  AutoAction = "retain"
  AwareTimestamps = TRUE
  RetentionOutlasts = FALSE
  Punctual = TRUE
  MaxQueued = 2
  MaxFaults = 2
INVARIANTS AudioBacked TranscriptBacked ScheduledIsArmed
PROPERTIES OneVisit SettledIsFinal JoinResolves TranscriptionResolves
CHECK_DEADLOCK FALSE
