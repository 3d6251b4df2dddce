SPECIFICATION ProtectSpec
CONSTANTS
    Word <- MCWord
    MaxItems = 3
    Character <- MCCharacter
    Roots <- MCRoots
    Masks <- MCMasks
    Asked <- MCAsked
INVARIANTS
    ClosedForm
    ProtectionByNames
    RelativeLeadsBack
PROPERTIES
    WordsProtectTheirOwn
CHECK_DEADLOCK FALSE
