\* Two zones; a run ends where a kassert fails.
CONSTANTS
  low = low
  high = high
  Zone = {low, high}
  Pages <- MCPages
  Info <- MCInfo
  Holder = {h1, h2, h3, h4, h5, h6}
  Foreign = Foreign
  None = None
SPECIFICATION Spec
SYMMETRY Symmetry
CHECK_DEADLOCK FALSE
INVARIANTS StateMatchesBuddy EveryFrameAccounted
PROPERTY ImplementsAllocator
