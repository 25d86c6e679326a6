SPECIFICATION Spec
CONSTANTS
  FANOUT = 8
  CLEARED = 4
  KERNEL = 8
  FREELIST = 9
  VIDEO = 1
  FRAMES = 40
  Maxes <- MCMaxes
  Leftovers <- MCLeftovers
CHECK_DEADLOCK FALSE
INVARIANTS
    DirectMapRight
    NothingElseMapped
