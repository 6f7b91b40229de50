SPECIFICATION Spec
CONSTANT Cases <- OfKnown
INVARIANT MatchesAsMeant
CHECK_DEADLOCK FALSE
