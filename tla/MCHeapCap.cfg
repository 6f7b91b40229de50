SPECIFICATION Spec
CONSTANTS
    Window = 512
    Cap = 1280
    Sizes = {64, 192, 320}
    Ball = 64
    Kept = {64, 448, 960, 1024, 1088}
INVARIANTS TypeOK CapIsCatchable HandlerHasRoom
PROPERTIES NotRaisedInVain
CHECK_DEADLOCK FALSE
