SPECIFICATION IncSpec
CONSTANTS
    MCExpandNames = {"FOO", "FOO_BAR", "ZED"}
    MCFlag = "foo_bar_x"
    Vars <- MCVars
    ExpandNames <- MCExpandNames
    PlainVars <- MCPlain
    DefaultIncrementals <- MCDefaults
    Use = "USE"
    UseExpand = "USE_EXPAND"
    Arch = "ARCH"
    UseNoExpand = "CPORTAGE_USE_NO_EXPAND"
    Words <- MCWords
    ExpandFlag <- MCExpandFlag
    Rank <- MCRank
    NULL = NULL
    Inputs <- MCInputs
INVARIANTS
    IncTypeOK
    StackedOnce
    MaskBeatsForce
    ExpandFollowsUse
    UseIsDivided
PROPERTIES
    MakeConfReplaces
CHECK_DEADLOCK FALSE
