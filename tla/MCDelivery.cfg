CONSTANTS
  Thread = {t1}
  Delivery = {d1, d2}
  Worker = {w1, w2}
  ChannelMessage = {m1}
  LeaseSeconds = 1
  Delays <- TwoAttempts
  None = None
SPECIFICATION FairSpec
CHECK_DEADLOCK FALSE
INVARIANTS
  RunningIsNewest
  DeliveredOnce
PROPERTIES
  LeaseProtects
  PendingIsSettled
