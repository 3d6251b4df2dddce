----------------------------- MODULE Cportageq -----------------------------
(***************************************************************************)
(* cportageq/main.c: one question on the command line, the answer on the   *)
(* standard output and in the exit status.  A plan is what one of its      *)
(* functions does: whether it has parameters enough, what it makes, and    *)
(* the order it releases that in.                                          *)
(***************************************************************************)
EXTENDS Process

CONSTANTS
    LowerVars,      \* the table vars
    Upper(_)        \* g_ascii_strup

Sub == command.argv[1]
Params == Tail(command.argv)
Error == 2

PackageQueries == {"match", "has_version", "best_version"}
Words == PackageQueries \cup {"envvar", "get_repos", "get_repo_path", "vdb_path", "is_protected"}

\* The words main compares with by name are not in its table, which it looks at
\* last (cportageq/main.c:326-360).
ASSUME LowerVarsAssumption == LowerVars \cap Words = {}

Plan(enough, acquires, releases) ==
    [enough |-> enough, acquires |-> acquires, releases |-> releases]

\* A flag -v is a parameter as well: it passes the check alone.
EnvvarPlan == Plan(Sub \in LowerVars \/ Params # <<>>, <<"settings">>, <<"settings">>)
GetReposPlan == Plan(Params # <<>>, <<"settings">>, <<"settings">>)
GetRepoPathPlan == Plan(Len(Params) >= 2, <<"settings">>, <<"settings">>)

\* DoWithPkgsPlan with a bug: the atom is thought to go with its factory.
DoWithPkgsPlanKeepsAtom ==
    Plan(Len(Params) = 2,
         <<"factory", "atom", "settings", "vartree", "vardb", "packages">>,
         <<"factory", "packages", "vardb", "vartree", "settings">>)

DoWithPkgsPlan ==
    Plan(Len(Params) = 2,
         <<"factory", "atom", "settings", "vartree", "vardb", "packages">>,
         <<"factory", "packages", "atom", "vardb", "vartree", "settings">>)
VdbPathPlan == Plan(TRUE, <<"settings", "vartree">>, <<"settings", "vartree">>)
IsProtectedPlan == Plan(Len(Params) = 2, <<"settings", "protect">>, <<"settings", "protect">>)

\* The chain of strcmp in main.
ThePlan ==
    CASE Sub \in LowerVars \cup {"envvar"} -> EnvvarPlan
      [] Sub = "get_repos" -> GetReposPlan
      [] Sub = "get_repo_path" -> GetRepoPathPlan
      [] Sub \in PackageQueries -> DoWithPkgsPlan
      [] Sub = "vdb_path" -> VdbPathPlan
      [] Sub = "is_protected" -> IsProtectedPlan

Questions == LowerVars \cup Words

IsCportageq == command.program = "cportageq"
IsHelp == command.argv # <<>> /\ Sub \in {"--help", "-h"}
IsQuestion == command.argv # <<>> /\ Sub \in Questions

\* usage, which is not told on the standard error.
Usage ==
    /\ IsCportageq /\ at = "args"
    /\ ~IsQuestion
    /\ out' = <<"usage">>
    /\ retval' = IF IsHelp THEN 0 ELSE Error
    /\ at' = "exited"
    /\ UNCHANGED <<command, step, has, pkgs, memory, error, told>>

\* "insufficient parameters", told at once and without a GError.
TooFew ==
    /\ IsCportageq /\ at = "args"
    /\ IsQuestion /\ ~ThePlan.enough
    /\ told' = told + 1
    /\ retval' = Error
    /\ at' = "release"
    /\ UNCHANGED <<command, step, has, pkgs, memory, error, out>>

Begin ==
    /\ IsCportageq /\ at = "args"
    /\ IsQuestion /\ ThePlan.enough
    /\ at' = "acquire"
    /\ UNCHANGED <<command, step, has, pkgs, memory, retval, error, told, out>>

-----------------------------------------------------------------------------
\* The parameters behind an optional -v, and the line of each.
EnvvarLines ==
    LET all == IF Sub = "envvar" THEN Params ELSE <<Upper(Sub)>>
        verbose == Head(all) = "-v"
        names == IF verbose THEN Tail(all) ELSE all
    IN [i \in DOMAIN names |-> IF verbose THEN <<names[i], Value(names[i])>> ELSE Value(names[i])]

\* GetReposLine with a bug: the order the list was prepended in.
GetReposBackwards == <<Reverse(RepositoryNames)>>

GetReposLine == <<RepositoryNames>>

Answer(status, lines) == retval' = status /\ out' = lines

PrintPkgs == Answer(0, pkgs)
TestNonempty == Answer(IF pkgs = <<>> THEN 1 ELSE 0, <<>>)
PrintLast == Answer(0, <<IF pkgs = <<>> THEN "" ELSE Last(pkgs)>>)

\* What a function returns and prints; the paths of CONFIG_PROTECT are the
\* matter of ConfigProtect.tla.
CportageqAnswer ==
    /\ IsCportageq /\ at = "answer"
    /\ \/ Sub \in LowerVars \cup {"envvar"} /\ Answer(0, EnvvarLines)
       \/ Sub = "get_repos" /\ Answer(0, GetReposLine)
       \/ Sub = "match" /\ PrintPkgs
       \/ Sub = "has_version" /\ TestNonempty
       \/ Sub = "best_version" /\ PrintLast
       \/ Sub = "vdb_path" /\ Answer(0, <<"/var/db/pkg">>)
       \/ Sub = "is_protected" /\ (\E status \in {0, 1} : Answer(status, <<>>))
    /\ at' = "release"
    /\ UNCHANGED <<command, step, has, pkgs, memory, error, told>>

RepoPathLine(name) ==
    IF name \in DOMAIN name2repo THEN name2repo[name].path ELSE ""

\* One turn of the loop of get_repo_path.  cp_settings_get_repository lends the
\* repository, and it is released here.
PrintRepoPath ==
    /\ IsCportageq /\ at = "answer"
    /\ Sub = "get_repo_path"
    /\ step < Len(Params)
    /\ LET name == Params[step + 1] IN
       /\ out' = Append(out, RepoPathLine(name))
       /\ GoOn(IF name \in DOMAIN name2repo THEN Unref(memory, Repository(name)) ELSE memory, "answer")
    /\ step' = step + 1
    /\ UNCHANGED <<command, has, pkgs, retval, error, told>>

RepoPathsPrinted ==
    /\ IsCportageq /\ at = "answer"
    /\ Sub = "get_repo_path"
    /\ step = Len(Params)
    /\ retval' = 0
    /\ at' = "release"
    /\ step' = 1
    /\ UNCHANGED <<command, has, pkgs, memory, error, told, out>>

CportageqStep ==
    \/ Usage \/ TooFew \/ Begin
    \/ CportageqAnswer \/ PrintRepoPath \/ RepoPathsPrinted
    \/ /\ IsCportageq
       /\ IsQuestion
       /\ \/ Acquire(ThePlan.acquires, Error)
          \/ Acquired(ThePlan.acquires)
          \/ Release(ThePlan.releases)
          \/ Report(ThePlan.releases)
=============================================================================
