SPECIFICATION Spec
CONSTANTS
  Area = {a1, a2, a3, a4, a5, a6}
  Word = 32
  PageSize = 2
  Offset = 12
  LastAvail = 2
  Segments <- MCSegments
  Zones <- MCZones
  Requests <- MCRequests
  HeapMax = 4
  None = None
SYMMETRY Symmetry
INVARIANTS
  ListMatchesTree
  NoGapMeansFull
PROPERTY ImplementsRegions
\* A failed kassert stops the kernel.
CHECK_DEADLOCK FALSE
