CONSTANTS
    Task     = {boot, first, c1, c2, c3, c4}
    Boot     = boot
    First    = first
    MAXPROC  = 5
    FRAME    = 55
    File     = {f1}
    FDS      = 4
    FIRSTFD  = 3
    NoNode   = NoNode
    Keyboard = Keyboard
    Nothing  = Nothing
SYMMETRY Symmetry
SPECIFICATION Spec
CHECK_DEADLOCK FALSE
INVARIANTS
    HeldStayOpen
    ListReachesAll
PROPERTIES
    OneSwitchSurvives
    BehindNeverRuns
