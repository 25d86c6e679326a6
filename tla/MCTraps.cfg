SPECIFICATION Spec
CONSTANTS
  DEPTH = 3
CHECK_DEADLOCK FALSE
INVARIANTS
    StackBalanced
    ArgumentsArrive
PROPERTIES
    Transparent
    AnswerArrives
