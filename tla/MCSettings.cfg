SPECIFICATION Spec
CONSTANTS
    MCDefaultsArgument <- OneDefault
    MCSourcing = {}
    Vars <- MCVars
    ExpandNames <- MCExpandNames
    PlainVars <- MCPlain
    DefaultIncrementals <- MCDefaultIncrementals
    Use = "USE"
    UseExpand = "USE_EXPAND"
    Arch = "ARCH"
    UseNoExpand = "CPORTAGE_USE_NO_EXPAND"
    Words <- MCWords
    ExpandFlag <- MCExpandFlag
    Rank <- MCRank
    NULL = NULL
    Inputs <- MCInputs
    Profiles <- MCProfiles
    NoProfile = "none"
    Files <- MCFiles
    MakeDefaults <- MCMakeDefaults
    Globals <- MCGlobals
    Confs <- MCConfs
    FileSystems <- MCFileSystems
    ConfigRoot = "PORTAGE_CONFIGROOT"
    RootDir = "ROOT"
    Cbuild = "CBUILD"
    Chost = "CHOST"
    Portdir = "PORTDIR"
    Portage <- MCPortage
    RealPath <- MCRealPath
    ConfigRootDir <- MCConfigRootDir
    Missing = Missing
    Unreadable = Unreadable
    Blank = Blank
    MaxDepth = 4
INVARIANTS
    UseIsByTheBook
    PlainLastWins
    ErrorsAreReported
PROPERTIES
    IncSpec
    Returns
