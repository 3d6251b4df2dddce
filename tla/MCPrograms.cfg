SPECIFICATION ProgramsSpec
CONSTANTS
    Paths <- MCPaths
    MainPath = "portage"
    RepoNames <- MCRepoNames
    Missing = Missing
    Basename <- MCBasename
    FileSystems <- MCFileSystems
    ExitCodes = {0, 1}
    Commands <- MCCommands
    Config <- MCConfig
    Answers <- MCAnswers
    LowerVars = {"distdir"}
    Upper <- MCUpper
    InfoPkgs <- MCInfoPkgs
    InfoVars <- MCInfoVars
    UseExpand <- MCUseExpand
INVARIANTS
    ProcessTypeOK
    ListAndTableAgree
    FirstOfANameWins
    PullsFollowTheList
    EverythingReleased
    FaultsAreKnown
    RepositoriesAreAnswered
    InfoIsWhole
PROPERTIES
    StatusFollowsVerdict
    Ends
