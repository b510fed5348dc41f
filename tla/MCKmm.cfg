\* Two user slabs of three objects; slab pages for two bufctls each; four heap pages, so that
\* the second slab finds a page only after a trim.  No symmetry, which liveness does not allow.
CONSTANTS
  Slab = {s1, s2}
  HeapPage = {p1, p2, p3, p4}
  UCap = 3
  BCap = 2
  SCap = 2
  ShortInFree = FALSE
  Holder = {h1, h2, h3, h4}
  None = None
SPECIFICATION Spec
CHECK_DEADLOCK FALSE
INVARIANT CachesSound
PROPERTIES TrimAllComplete CallsReturn
