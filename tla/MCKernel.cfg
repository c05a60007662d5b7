CONSTANTS
  Instance = {i1, i2}
  Step = {s1, s2, s3, s4}
  Wait = {w1, w2, w3}
  Worker = {k1}
  Signal = {g1, g2}
  Source = {q1}
  Template = {gather, draft}
  Slot = {facts, letter, gate}
  Route = {begin, redraft, approve}
  gather = gather
  draft = draft
  facts = facts
  letter = letter
  gate = gate
  begin = begin
  redraft = redraft
  approve = approve
  None = None
  LeaseSeconds <- MCLeaseSeconds
  MaximumSeconds <- MCMaximumSeconds
  Delays <- MCDelays
  Activation <- MCActivation
  SourceTemplate <- MCSourceTemplate
  StepSlots <- MCStepSlots
  WaitSlots <- MCWaitSlots
  SlotTemplate <- MCSlotTemplate
  DependsOn <- MCDependsOn
SPECIFICATION Spec
SYMMETRY Symmetry
CHECK_DEADLOCK FALSE
INVARIANTS
  LeaseIsCurrent
  PendingHasDriver
  DisposedExactlyOnce
  OutcomeBasis
  ClosedIsQuiet
  ActivatedOnce
