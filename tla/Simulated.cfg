\* A simulated meeting, the transcription simulated or not, one restart.
SPECIFICATION FairSimSpec
CONSTANTS
  Sessions = {s1}
  Users = {u1}
  u1 = u1
  s1 = s1
  Owner <- SameOwner
  Slots = {r1}
  Listener = Listener
  Followup = Followup
  NoSession = NoSession
  CreateModes = {"now", "future"}
  ProviderEvents = {}
  AutoAction = "retain"
  AwareTimestamps = TRUE
  RetentionOutlasts = TRUE
  Punctual = FALSE
  MaxQueued = 2
  MaxFaults = 1
INVARIANTS SimTypeOK TranscriptBacked
PROPERTIES JoinResolves TranscriptionResolves
CHECK_DEADLOCK FALSE
