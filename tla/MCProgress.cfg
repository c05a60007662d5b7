CONSTANTS
  Worker = {w1, w2}
  LeaseSeconds = 2
  MaximumSeconds = 3
  MaxRenewalAttempts = 2
  Workflows = {w}
  Commands = {k}
  Organizations = {o}
  Clients = {t}
  MaxAttempts = 2
  MaxFailedCodes = 2
  MaxIdentifiers = 2
  MaxMemberships = 1
  MaxPid = 3
SPECIFICATION MCSpec
CHECK_DEADLOCK FALSE
INVARIANTS
  RunFollowsAttempt
  OneDraft
  NothingSurvives
  NoCandidateLost
PROPERTIES
  AuthorityLossCancels
  StepIsSettled
  CarrierEnds
  OwnerGoesOn
