CONSTANTS
    Ident <- MCIdent
    Property <- MCProperty
    Keyword <- MCKeyword
    NULL = NULL
    Texts <- MCTexts
SPECIFICATION Spec
INVARIANT RulesAsSpecified
PROPERTY ParseEnds
\* The parser stops at the end of the text.
CHECK_DEADLOCK FALSE
