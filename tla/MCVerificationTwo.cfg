\* Two renewals of one Party.
CONSTANTS
  Workflows = {w1, w2}
  Commands = {c1}
  Organizations = {o1}
  Clients = {t1}
  MaxAttempts = 1
  MaxFailedCodes = 2
  MaxIdentifiers = 2
  MaxMemberships = 1
  MaxNames = 9
SPECIFICATION HistorySpec
CHECK_DEADLOCK FALSE
PROPERTIES
  CodeProvesCurrentIdentifier
