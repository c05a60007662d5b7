SPECIFICATION LiveSpec
CONSTANTS
  MaxAttempts = 2
  MaxDrafts = 2
INVARIANTS
  MailedAtMostOnce
  OnlyTheApprovedDraftIsMailed
  RedispatchNeedsEvidence
PROPERTIES
  ImplementsApprovedEffect
  DispatchIsResolved
CHECK_DEADLOCK FALSE
