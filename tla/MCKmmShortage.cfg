\* Frames run out while a large object is being freed.
CONSTANTS
  Slab = {s1, s2}
  HeapPage = {p1, p2, p3, p4, p5}
  UCap = 2
  BCap = 3
  SCap = 2
  ShortInFree = TRUE
  Holder = {h1, h2, h3, h4}
  None = None
SPECIFICATION Spec
CHECK_DEADLOCK FALSE
SYMMETRY Symmetry
INVARIANT NoUseAfterFree
