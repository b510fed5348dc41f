\* Six pages, of which one holds the buddy allocator and one is invalid; a page table maps
\* three.  A panic stops the kernel.
CONSTANTS
  ChunkPages = 6
  Meta = 1
  Invalid = {4}
  TablePages = 3
  ZonePages = 7
  ZoneInfo = 1
  Caller = {c1, c2, c3, c4}
  Foreign = Foreign
  None = None
SPECIFICATION Spec
SYMMETRY Symmetry
CHECK_DEADLOCK FALSE
INVARIANTS SpaceAccounted NoFrameLost
PROPERTY ImplementsAllocator
