CONSTANTS
  Process = {p, q}
  Manifest <- WithWaits
  Altered = 2
  Absent = Absent
  p = p
  q = q
SPECIFICATION RegistrySpec
SYMMETRY Symmetry
CHECK_DEADLOCK FALSE
INVARIANTS
  RegisteredCanBeMaterialized
