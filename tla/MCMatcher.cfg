SPECIFICATION Spec
CONSTANT Searches <- All
INVARIANTS TypeOK FindsWhatMatches
PROPERTY Returns
CHECK_DEADLOCK FALSE
