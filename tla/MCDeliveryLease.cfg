CONSTANTS
  Thread = {t1}
  Delivery = {d1}
  Worker = {w1, w2}
  ChannelMessage = {}
  LeaseSeconds = 1
  Delays <- TwoAttempts
  None = None
SPECIFICATION FairSpec
CHECK_DEADLOCK FALSE
PROPERTIES
  LeaseLossAbandons
