CONSTANTS
  Client = {c1, c2, c3}
  Command = {k1, k2}
  Workflow = {w1, w2}
  Thread = {t1, t2}
  Channel = {ch1, ch2}
  Policy = {p1}
  Fact = {f1, f2}
  Request <- MCRequest
  LockKey <- MCLockKey
  Creatable <- MCCreatable
  MaxRevision = 1
  None = None
  Slot = {1, 2, 3}
  k1 = k1
  k2 = k2
  w1 = w1
  w2 = w2
  t1 = t1
  t2 = t2
  ch1 = ch1
  ch2 = ch2
  p1 = p1
  f1 = f1
  f2 = f2
  s1 = s1
  s2 = s2
  b1 = b1
  b2 = b2
  Backend = {b1, b2}
  Process = {s1, s2}
  Manifest <- MCManifest
  Altered = 2
  Absent = Absent
  MaxOccurrences = 13
  MaxFaults = 2
  MaxPid = 5
  MaxMishaps = 2
  MaxSeeds = 2
  MaxTrouble = 1
  Build <- MCBuild
  Wheel <- MCWheel
  Archived <- MCArchived
  Clean <- MCClean
  Case <- MCCase
  TraceCase = "trace"
  Node <- MCCase
  Scenario <- MCCase
  nodes <- MCMatrix
  scenarios <- MCMatrix
  MaxWrong = 1
  MaxRebuilds = 1
  Nothing = Nothing
  Lockable <- MCLockable
  Plan <- MCPlan
  Level <- MCLevel
SPECIFICATION MCSpec
SYMMETRY Symmetry
CHECK_DEADLOCK FALSE
INVARIANTS
  AnswersStand
  VerdictIsRight
  AnswersAreTrue
  RunsWhatWasRegistered
  CirclesNeedProvisioning
  EffectConfirmedOnce
  StoppedIsGone
  TrialsAreSound
  ClaimsAreBacked
PROPERTIES
  ImplementsLedger
  ResetIsAlone
