\* Up to 1 January 1972.
SPECIFICATION Spec
INVARIANT CountsDays
CHECK_DEADLOCK FALSE
