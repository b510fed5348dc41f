\* A page is given back and handed out again; the bounds of MCKHeap.cfg.  A panic stops
\* the kernel.
CONSTANTS
  ChunkPages = 6
  Meta = 1
  Invalid = {4}
  TablePages = 3
  ZonePages = 7
  ZoneInfo = 1
  Caller = {c1, c2, c3, c4}
  Foreign = Foreign
  None = None
SPECIFICATION Spec
SYMMETRY Symmetry
CHECK_DEADLOCK FALSE
INVARIANT NoAliasing
