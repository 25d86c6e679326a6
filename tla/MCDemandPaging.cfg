CONSTANTS
    PAGESIZE       = 2
    FANOUT         = 2
    HEAP_START     = 8
    HEAP_END       = 16
    STACK_START    = 28
    STACK_MAX_SIZE = 6
    STACK_END      = 24
    ADDRESSES      = 30
    LASTFRAME      = 40
    Images        <- MCImages
SPECIFICATION Spec
CHECK_DEADLOCK FALSE
INVARIANTS
    FramesExclusive
    HeapBelowBrkPresent
    ImagePresent
PROPERTIES
    FaultKeepsPages
    GrowableBecomesPresent
