SPECIFICATION Spec
CONSTANTS
    Key = {1, 2, 3, 4, 5, 6, 7}
    Value = {v1, v2}
    NULL = NULL
    TypeLimit = 9
INVARIANTS TypeOK SearchTree
PROPERTIES BalanceKept ImplementsMap WalkVisitsAll WalkEnds
VIEW Shape
