\* The worker process with its page: two chunks of sound, three commands, a kill.
SPECIFICATION Spec
CONSTANTS
  Session = Session
  Other = Other
  MaxChunks = 2
  MaxSent = 3
  MaxKills = 1
INVARIANTS ProviderTypeOK LeftMeansClosed
PROPERTIES ActsAsWorker RewriteIsSame
CHECK_DEADLOCK FALSE
