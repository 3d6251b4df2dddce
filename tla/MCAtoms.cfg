SPECIFICATION Spec
CONSTANTS
    Eapis = {0, 2}
    Factory = Factory
    Texts <- MCTexts
    Parts <- MCParts
    MaxHeld = 2
INVARIANTS
    AtomsTypeOK
    AtomClientIsSafe
    AtomsOutliveFactory
    AtomsDoNotLeak
    AnswersFollowEapi
CHECK_DEADLOCK FALSE
