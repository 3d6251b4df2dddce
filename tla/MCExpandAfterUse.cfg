SPECIFICATION IncSpec
CONSTANTS
    MCExpandNames = {"FOO", "FOO_BAR", "ZED"}
    MCFlag = "zed_x"
    Vars <- MCVars
    ExpandNames <- MCExpandNames
    PlainVars <- MCPlain
    DefaultIncrementals <- MCDefaults
    Use = "USE"
    UseExpand = "USE_EXPAND"
    Arch = "ARCH"
    UseNoExpand = "CPORTAGE_USE_NO_EXPAND"
    Words <- MCWords
    ExpandFlag <- MCExpandFlag
    Rank <- MCRank
    NULL = NULL
    Inputs <- MCInputs
INVARIANT AllExpandFollowsUse
CHECK_DEADLOCK FALSE
