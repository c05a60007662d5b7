SPECIFICATION Spec
CONSTANTS
  MaxAttempts = 2
  MaxDrafts = 1
PROPERTIES
  NoRetryAfterPossibleCommit
CHECK_DEADLOCK FALSE
