SPECIFICATION ProgramsSpec
CONSTANTS
    Paths <- MCPaths
    MainPath = "portage"
    RepoNames <- MCRepoNames
    Missing = Missing
    Basename <- MCBasename
    FileSystems <- MCFileSystems
    ExitCodes = {0, 1}
    Commands <- UnsafeCommands
    Config <- MCConfig
    Answers <- MCAnswers
    LowerVars = {"distdir"}
    Upper <- MCUpper
    InfoPkgs <- MCInfoPkgs
    InfoVars <- MCInfoVars
    UseExpand <- MCUseExpand
INVARIANT CommandIsSafe
CHECK_DEADLOCK FALSE
