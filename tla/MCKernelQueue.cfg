CONSTANTS
  Instance = {i1}
  Step = {s1, s2, s3}
  Wait = {w1, w2}
  Worker = {k1}
  Signal = {g1, g2}
  Source = {q1}
  Template = {gather, draft}
  Slot = {facts, letter, gate}
  Route = {begin, redraft, approve}
  gather = gather
  draft = draft
  facts = facts
  letter = letter
  gate = gate
  begin = begin
  redraft = redraft
  approve = approve
  None = None
  LeaseSeconds <- MCLeaseSeconds
  MaximumSeconds <- MCMaximumSeconds
  Delays <- MCDelays
  Activation <- MCActivation
  SourceTemplate <- MCSourceTemplate
  StepSlots <- MCStepSlots
  WaitSlots <- MCWaitSlots
  SlotTemplate <- MCSlotTemplate
  DependsOn <- MCDependsOn
SPECIFICATION FairSpec
CHECK_DEADLOCK FALSE
PROPERTIES
  EligibleIsSettled
  ImplementsWorkQueue
