\* A cache of large objects; no frame shortage while an object is being freed.
\* A destroyed cache stops.
CONSTANTS
  Slab = {s1, s2, s3}
  Holder = {h1, h2, h3, h4, h5, h6}
  Capacity = 3
  Large = TRUE
  TrimInFree = FALSE
  None = None
SPECIFICATION Spec
SYMMETRY Symmetry
CHECK_DEADLOCK FALSE
INVARIANTS ListsMatchUse BuffersAccountedFor HeldObjectsStay NoFault ConstructedExactly
PROPERTY ImplementsAllocator
