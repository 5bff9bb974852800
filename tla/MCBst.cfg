SPECIFICATION Spec
CONSTANTS
    Item <- SixItems
    Size <- Sizes
    Entry <- SixEntries
    NULL = NULL
INVARIANTS TypeOK SearchTree NoneLost
PROPERTY ImplementsCache
VIEW Shape
