CONSTANTS
    Letters <- MCLetters
    HexValue <- MCHexValue
    Words <- MCWords
    Raw <- MCRaw
    Entities <- MCEntities
    Windows1252 <- MCWindows1252
    Texts <- MCTexts
    Reused <- MCReused
    Hands <- MCHands
SPECIFICATION Spec
INVARIANT TokensAsWhole
