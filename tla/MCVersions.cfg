SPECIFICATION Spec
CONSTANTS
    Texts <- MCTexts
    MaxList = 3
INVARIANTS
    CmpIsTheOrder
    ListIsSorted
    MatchesAStretch
    TildeAndGlob
CHECK_DEADLOCK FALSE
