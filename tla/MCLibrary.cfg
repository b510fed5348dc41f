SPECIFICATION Spec
CONSTANTS
  Parts = {"kvstore", "cbuffer", "linear", "pool", "kmalloc", "interrupts", "rbtree"}
  Pages = 6
  Orders = {0, 5}
  Holder = {h1}
  Key = {k1, k2, k3}
  Value = {v1, v2}
  Capacity = 2
  None = None
  Item = {i1, i2}
  Slots = 3
  Nothing = Nothing
  Start = 3
  Size = 11
  Requests = {1, 3, 5, 8}
  Aligns = {4}
  Mem = 5
  MemSize = 30
  ElemSize = 6
  ElemAlign = 4
  NodeSize = 2
  LowPow = 1
  MaxPow = 3
  Align = 2
  Bytes = 14
  Line = {1, 7, 8}
  Exception = {0, 13, 14}
  Node = {1, 2, 3, 4, 5, 6, 7, 8}
  KeyOf <- MCKeyOf
  Null = Null
INVARIANTS
  LinesHandled
  HoldsMembers
  Balanced
  SearchesAreRight
PROPERTIES
  ContainersKeepOrder
  AllocatorsImplementRegions
  CallsReturn
\* A panic or a failed kassert stops the kernel.
CHECK_DEADLOCK FALSE
