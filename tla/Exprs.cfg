SPECIFICATION Spec
CONSTANTS
    Texts <- MCTexts
    Keywords <- MCKeywords
    WordBits = 8
INVARIANTS BufferSuffices TokensExact NothingLost GroupedByLevel
PROPERTIES Terminates
CHECK_DEADLOCK FALSE
