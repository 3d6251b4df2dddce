------------------------------- MODULE Cmerge -------------------------------
(***************************************************************************)
(* cmerge: one action is chosen by the options and run with the settings,  *)
(* the vartree and the atom factory at hand (main.c, nice.c, *_action.c).  *)
(***************************************************************************)
EXTENDS Process

CONSTANTS
    InfoPkgs,   \* profiles/info_pkgs, sorted: [atom, valid]
    InfoVars,   \* profiles/info_vars, sorted
    UseExpand   \* the words of USE_EXPAND

\* Both files are read line by line.
ASSUME InfoAssumption ==
    /\ InfoPkgs \in Seq([atom : STRING, valid : BOOLEAN])
    /\ InfoVars \in Seq(STRING)

VARIABLES
    warned,     \* messages of g_warning
    section     \* what is next of the adjustments, then of cmerge --info

cmerge == <<warned, section>>

CmergeInit == warned = 0 /\ section = 1

IsCmerge == command.program = "cmerge"

ActionOf(word) ==
    CASE word \in {"--help", "-h"} -> "help"
      [] word = "--info" -> "info"
      [] word = "--install" -> "install"
      [] word = "--sync" -> "sync"
      [] word \in {"--version", "-V"} -> "version"
      [] OTHER -> "none"

\* Switches, and words that begin with no dash.
Ignored == {"-v", "-q", "-p", "-u", "app-misc/foo"}

Chooses(word) == ActionOf(word) # "none"

Chosen == SelectSeq(command.argv, Chooses)

\* action_cb fails for a second action, and GLib for an option it does not
\* know; either way there is an error.
BadOptions ==
    \/ Len(Chosen) > 1
    \/ Range(command.argv) \ (Ignored \cup Range(Chosen)) # {}

Action == IF Chosen = <<>> THEN "install" ELSE ActionOf(Chosen[1])

CmergeAcquires == <<"factory", "settings", "vartree", "vardb">>
CmergeReleases == <<"factory", "vardb", "vartree", "settings">>

ParseOptions ==
    /\ IsCmerge /\ at = "args"
    /\ IF BadOptions THEN retval' = 1 /\ error' = TRUE /\ at' = "release"
                     ELSE at' = "acquire" /\ UNCHANGED <<retval, error>>
    /\ UNCHANGED <<command, step, has, pkgs, memory, told, out, warned, section>>

IsSet(key) == key \in DOMAIN Config(fs)

Adjusts(key, messages) ==
    /\ IsCmerge /\ at = "acquire"
    /\ \E n \in (IF IsSet(key) THEN messages ELSE {0}) : warned' = warned + n
    /\ section' = section + 1
    /\ UNCHANGED process

\* The value is 0 or is applied, or nice refuses: a warning.
AdjustNiceness == step = 3 /\ section = 1 /\ Adjusts("PORTAGE_NICENESS", {0, 1})

\* The command succeeds, it cannot be expanded or run, or it fails, which takes
\* two warnings.
AdjustIonice == step = 3 /\ section = 2 /\ Adjusts("PORTAGE_IONICE_COMMAND", {0, 1, 2})

CmergeAcquire ==
    /\ IsCmerge
    /\ at = "acquire" /\ step = 3 => section = 3
    /\ Acquire(CmergeAcquires, 1) \/ Acquired(CmergeAcquires)
    /\ UNCHANGED cmerge

-----------------------------------------------------------------------------
\* An action that returns retval and sets an error or not.
Return(status, fails, lines) ==
    /\ retval' = status
    /\ error' = (error \/ fails)
    /\ out' = out \o lines
    /\ at' = "release"

\* cmerge_install_action does nothing, cmerge_version_action prints.
InstallOrVersion ==
    /\ IsCmerge /\ at = "answer"
    /\ Action \in {"install", "version"}
    /\ Return(0, FALSE, IF Action = "version" THEN <<"version">> ELSE <<>>)
    /\ UNCHANGED <<command, step, has, pkgs, memory, told, warned, section>>

\* cmerge_help_action: the process becomes man, or execlp returns -1.
Help ==
    /\ IsCmerge /\ at = "answer"
    /\ Action = "help"
    /\ \/ at' = "replaced" /\ UNCHANGED <<retval, error, out>>
       \/ Return(255, TRUE, <<>>)
    /\ UNCHANGED <<command, step, has, pkgs, memory, told, warned, section>>

\* cmerge_sync_action is SyncNext of Repositories.tla, turn by turn; what it
\* returns is main's.
SyncReturns ==
    /\ IsCmerge /\ at = "answer"
    /\ Action = "sync"
    /\ phase = "stopped"
    /\ Return(result.retval, result.error, <<>>)
    /\ UNCHANGED <<command, step, has, pkgs, memory, told, warned, section>>

-----------------------------------------------------------------------------
\* cmerge_info_action: section 3 is the first line, 4 the system's name, 5 the
\* timestamp, 6 the linker, then one for each atom of info_pkgs, the
\* repositories, one for each variable of info_vars, and the last.
FirstPackage == 7
FirstVariable == FirstPackage + Len(InfoPkgs) + 1
LastSection == FirstVariable + Len(InfoVars)

InInfo == IsCmerge /\ at = "answer" /\ Action = "info"

\* A line of the report: the part it belongs to, the line of info_pkgs or of
\* info_vars it is for (0 if there is none), and what it names.
Line(part, of, names) == [part |-> part, of |-> of, names |-> names]

\* One more part has been printed.
Printed(lines) ==
    /\ out' = out \o lines
    /\ section' = section + 1
    /\ UNCHANGED <<command, at, step, has, pkgs, memory, retval, error, told, warned>>

\* A query for packages has failed.
QueryFails ==
    /\ Return(1, TRUE, <<>>)
    /\ UNCHANGED <<command, step, has, pkgs, memory, told, warned, section>>

\* print_version, with the path of the main repository, released before; and
\* print_porttree_timestamp, where a file that cannot be read is no error.
InfoHead ==
    /\ InInfo
    /\ \/ section = 3 /\ Printed(<<Line("version", 0, {})>>)
       \/ /\ section = 5
          /\ \E stamp \in {"stamp", "Unknown"} : Printed(<<Line("timestamp", 0, {stamp})>>)

\* print_system_name asks for the version of baselayout; without a package or
\* without uname -p it prints "unknown".
InfoSystem ==
    /\ InInfo
    /\ section = 4
    /\ \/ \E name \in {"system", "unknown"} : Printed(<<Line("system", 0, {name})>>)
       \/ QueryFails

\* get_command_output: a linker that cannot be run prints no line.
InfoLinker ==
    /\ InInfo
    /\ section = 6
    /\ Printed(<<Line("linker", 0, {})>>) \/ Printed(<<>>)

\* The line of info_pkgs that the loop of print_packages is at.
ThisPackage == section - FirstPackage + 1

\* InfoPackage with a bug: the result of the last atom counts.
InfoPackageGoesOn ==
    /\ InInfo
    /\ section \in FirstPackage..(FirstVariable - 2)
    /\ IF ~InfoPkgs[ThisPackage].valid THEN Printed(<<Line("package", ThisPackage, {})>>)
       ELSE \/ \E found \in Answers :
                  Printed(IF found = <<>> THEN <<>> ELSE <<Line("package", ThisPackage, Range(found))>>)
            \/ /\ error' = TRUE
               /\ section' = section + 1
               /\ UNCHANGED <<command, at, step, has, pkgs, memory, retval, told, out, warned>>

\* One turn of the loop of print_packages: a line for what is no atom, one for
\* what is installed and none for the rest.
InfoPackage ==
    /\ InInfo
    /\ section \in FirstPackage..(FirstVariable - 2)
    /\ IF ~InfoPkgs[ThisPackage].valid THEN Printed(<<Line("package", ThisPackage, {})>>)
       ELSE \/ \E found \in Answers :
                  Printed(IF found = <<>> THEN <<>> ELSE <<Line("package", ThisPackage, Range(found))>>)
            \/ QueryFails

\* print_repositories: one line with all names.
InfoRepositories ==
    /\ InInfo
    /\ section = FirstVariable - 1
    /\ Printed(<<Line("repositories", 0, Range(RepositoryNames))>>)

\* print_use: the variables of USE_EXPAND that have words follow USE.
Expanded == {key \in Range(UseExpand) : Value(key) # ""}

\* One turn of the loop of print_settings: a line for a variable that is set.
InfoVariable ==
    /\ InInfo
    /\ section \in FirstVariable..(LastSection - 1)
    /\ LET i == section - FirstVariable + 1 IN
       Printed(IF ~IsSet(InfoVars[i]) THEN <<>>
               ELSE <<Line("variable", i, IF InfoVars[i] = "USE" THEN Expanded ELSE {})>>)

\* The end of print_settings: those that are not set are on one line.
InfoEnd ==
    /\ InInfo
    /\ section = LastSection
    /\ LET unset == {v \in Range(InfoVars) : ~IsSet(v)} IN
       Return(0, FALSE, IF unset = {} THEN <<>> ELSE <<Line("unset", 0, unset)>>)
    /\ UNCHANGED <<command, step, has, pkgs, memory, told, warned, section>>

-----------------------------------------------------------------------------
\* main releases whatever the action has done, and asserts that a failure has
\* an error to report.
CmergeRelease ==
    /\ IsCmerge
    /\ Release(CmergeReleases)
    /\ UNCHANGED cmerge

CmergeReport ==
    /\ IsCmerge
    /\ retval = 0 \/ error
    /\ Report(CmergeReleases)
    /\ UNCHANGED cmerge

CmergeStep ==
    \/ ParseOptions \/ CmergeAcquire \/ AdjustNiceness \/ AdjustIonice
    \/ InstallOrVersion \/ Help \/ SyncReturns
    \/ InfoHead \/ InfoSystem \/ InfoLinker \/ InfoPackage
    \/ InfoRepositories \/ InfoVariable \/ InfoEnd
    \/ CmergeRelease \/ CmergeReport
=============================================================================
