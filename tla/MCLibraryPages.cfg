\* The kernel's use of the buddy allocator: single pages, an even number of them (not a
\* power of two), and an order that is refused (lvls = 3).  The other parts stand still.
SPECIFICATION Spec
CONSTANTS
  Parts = {"buddy"}
  Pages = 6
  Orders = {0, 5}
  Holder = {h1, h2, h3, h4, h5, h6, h7}
  Key = {k1}
  Value = {v1}
  Capacity = 1
  None = None
  Item = {i1}
  Slots = 1
  Nothing = Nothing
  Start = 3
  Size = 11
  Requests = {1, 3, 5, 8}
  Aligns = {4}
  Mem = 5
  MemSize = 0
  ElemSize = 6
  ElemAlign = 4
  NodeSize = 2
  LowPow = 1
  MaxPow = 3
  Align = 2
  Bytes = 0
  Line = {}
  Exception = {}
  Node = {}
  KeyOf <- MCKeyOf
  Null = Null
INVARIANTS
  FullMeansExhausted
  FreeBlocksAreUnused
  BitsInBounds
PROPERTY
  PagesImplementAllocator
