SPECIFICATION Spec
CONSTANTS
  d1 = d1
  d2 = d2
  e1 = e1
  e2 = e2
  Dir = {d1, d2}
  Entry = {e1, e2}
  Frame = {f1, f2}
  Target = {t1, t2}
  Lazy <- MCLazy
  None = None
SYMMETRY Symmetry
INVARIANTS
  EmergencyReachesTable
  TranslationsAreCurrent
  NoFault
PROPERTY ImplementsAddressMap
\* A panic stops the kernel.
CHECK_DEADLOCK FALSE
