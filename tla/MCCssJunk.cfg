CONSTANTS
    Ident <- MCIdent
    Property <- MCProperty
    Keyword <- MCKeyword
    NULL = NULL
    Texts <- MCJunk
SPECIFICATION Spec
PROPERTY ParseEnds
CHECK_DEADLOCK FALSE
