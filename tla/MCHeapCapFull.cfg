SPECIFICATION Spec
CONSTANTS
    Window = 512
    Cap = 512
    Sizes = {64, 192, 320}
    Ball = 64
    Kept = {64, 448}
INVARIANTS CapIsCatchable
CHECK_DEADLOCK FALSE
