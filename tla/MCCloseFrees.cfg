CONSTANTS
    Task     = {t1}
    File     = {f1, f2}
    FDS      = 5
    FIRSTFD  = 3
    NoNode   = NoNode
    Keyboard = Keyboard
    Nothing  = Nothing
SPECIFICATION FileSpec
INVARIANTS
    RefusedOnlyWhenHeld
CHECK_DEADLOCK FALSE
