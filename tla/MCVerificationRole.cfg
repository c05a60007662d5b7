\* Two renewals under one membership.
CONSTANTS
  Workflows = {w1, w2}
  Commands = {c1}
  Organizations = {o1}
  Clients = {t1}
  MaxAttempts = 1
  MaxFailedCodes = 2
  MaxIdentifiers = 2
  MaxMemberships = 2
  MaxNames = 9
SPECIFICATION HistorySpec
CHECK_DEADLOCK FALSE
INVARIANTS
  CanBeReprovisioned
