SPECIFICATION Spec
CONSTANTS
  INTMAX = 127
  WORDS = 65536
  ALIGN = 8
  HEAP_START = 24
  HEAP_END = 64
  Sizes <- MCSizes
  Calls <- MCCalls
  StringAt <- MCStringAt
  NoMemory = 1
  MAXTEXT = 1
CHECK_DEADLOCK FALSE
INVARIANTS
    BlocksApart
    ReadsBack
