SPECIFICATION Spec
CONSTANTS
  PAGESIZE = 2
  HEADER = 3
  HEAP = 2
  HEAPEND = 5
  STACKEND = 6
  STACK = 6
  Programs <- MCPrograms
  Stores <- MCStores
  PROCS = 2
  FRAMES = 12
CHECK_DEADLOCK FALSE
INVARIANTS
    SameFrameSamePage
    StartOfFileLoaded
PROPERTIES
    LoadLeavesOthers
    StoreReachesOwnPage
