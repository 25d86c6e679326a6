CONSTANTS
    SCANBUF   = 2
    Key       <- MCKey
    Char      <- MCChar
    NUL       = "NUL"
    BLANK     = " "
    Plain     <- MCPlain
    Shifted   <- MCShifted
    EchoOnly  = {"esc"}
    BACKSPACE = "bs"
    COMMA     = ","
    PERIOD    = "."
SPECIFICATION Spec
CHECK_DEADLOCK FALSE
INVARIANTS
    DeliversLine
    StartsFresh
    StopsOnlyWhenErased
    HangsOnlyWhenOverlong
PROPERTIES
    EnterEndsRead
