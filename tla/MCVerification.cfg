\* Two requests about one renewal, transactions that overlap.
CONSTANTS
  Workflows = {w1}
  Commands = {c1, c2}
  Organizations = {o1, o2}
  Clients = {t1, t2}
  MaxAttempts = 1
  MaxFailedCodes = 1
  MaxIdentifiers = 2
  MaxMemberships = 1
  MaxNames = 5
SYMMETRY Symmetry
SPECIFICATION MCSpec
CHECK_DEADLOCK FALSE
INVARIANTS
  CommandFollowsChallenge
  DisclosedOnce
PROPERTIES
  AuthorityIsRevalidated
  OnlyOverlookedCodesAreStale
