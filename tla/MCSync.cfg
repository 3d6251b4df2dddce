SPECIFICATION Spec
CONSTANTS
    Paths <- MCPaths
    MainPath = "portage"
    RepoNames <- MCRepoNames
    Missing = Missing
    Basename <- MCBasename
    FileSystems <- MCFileSystems
    ExitCodes = {0, 1}
INVARIANT PullsAreReported
