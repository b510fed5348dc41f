SPECIFICATION Spec
CONSTANTS
  Word = 64
  PageSize = 4
  KernelStart = 9
  KernelEnd = 18
  MaxResources = 5
  None = None
  Region = {r1, r2, r3, r4}
  AreaPages = 5
  MaxPages = 5
  Buffer <- MCBuffer
  BufferBase <- MCBase
  BufferLen <- MCLen
  Free = Free
  Maps <- MCMaps
  Module <- MCModule
SYMMETRY Symmetry
INVARIANTS
  ZonesAreFreeMemory
  ResourcesAccounted
  RegionsMatchPages
PROPERTIES
  ImplementsRegions
  UnregisterBetweenOthers
\* A panic or a failed kassert stops the kernel.
CHECK_DEADLOCK FALSE
