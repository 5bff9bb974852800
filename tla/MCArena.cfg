SPECIFICATION Spec
CONSTANTS
    Handle = {h1, h2, h3}
    Size <- FewSizes
    Meta = 1
    MinSize = 5
    MaxChunks = 2
    MaxRefs = 3
    Cuts <- InHalves
    NULL = NULL
SYMMETRY AnyHandle
INVARIANTS TypeOK BlocksApart NothingLost CountCovers
