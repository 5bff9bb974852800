CONSTANTS
    Vocabularies <- MCVocabularies
    Unmapped <- MCUnmapped
    Combined <- MCCombined
    Rooms <- MCRooms
    Hands <- MCHands
    Stops <- MCStops
SPECIFICATION Spec
INVARIANTS TypeOK InChunk OutputIsPrefix OutputComplete
PROPERTY CallsEnd
CHECK_DEADLOCK FALSE
