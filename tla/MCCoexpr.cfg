SPECIFICATION Spec
CONSTANTS
    CoExprs = {x1, x2, x3}
    Root = root
    None = none
    Values = {v1}
    Versions = {0}
    HopLimit = 8
INVARIANTS
    TypeOK
    OneInControl
    EnvInOnePlace
    DeadStaysParked
    AnswerIsAwaited
    FailureIsSeen
    SourceIsAtRest
PROPERTIES
    EnvHandedOn
    HandOffEnds
    Implements
