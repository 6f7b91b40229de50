SPECIFICATION Spec
CONSTANT Cases <- WellFormed
INVARIANTS MatchesAsMeant AssignsAsMeant FindsItsCells HomesAreFresh LeavesNothing KeepsOlderCaptures
CHECK_DEADLOCK FALSE
PROPERTY Terminates
