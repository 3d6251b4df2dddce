------------------------------ MODULE Programs ------------------------------
(***************************************************************************)
(* One call of cmerge or of cportageq, on settings with the repositories   *)
(* that Repositories.tla makes of the disk.                                *)
(***************************************************************************)
EXTENDS Cportageq, Cmerge

allVars == <<vars, process, cmerge>>

ProgramsInit == Init /\ ProcessInit /\ CmergeInit

Load ==
    /\ InitMain \/ NextOverlay \/ InitReposDone
    /\ UNCHANGED <<process, cmerge>>

Start ==
    /\ \E c \in Commands(fs) : Invoke(c)
    /\ UNCHANGED <<vars, cmerge>>

Query ==
    /\ CportageqStep
    /\ UNCHANGED <<vars, cmerge>>

Merge ==
    /\ CmergeStep
    /\ UNCHANGED vars

\* The turns of the loop of cmerge_sync_action.
Pull ==
    /\ IsCmerge /\ at = "answer" /\ Action = "sync"
    /\ SyncDone \/ \E o \in Outcomes : SyncNext(o)
    /\ UNCHANGED <<process, cmerge>>

Gone == at \in Ended /\ UNCHANGED allVars

Work == Load \/ Start \/ Query \/ Merge \/ Pull

ProgramsNext == Work \/ Gone

\* Neither program waits for anything but the disk and the processes it starts,
\* which are taken to end: whatever can be done next is done.
ProgramsSpec ==
    /\ ProgramsInit
    /\ [][ProgramsNext]_allVars
    /\ WF_allVars(Work)

-----------------------------------------------------------------------------
ProcessTypeOK ==
    /\ RepositoriesTypeOK
    /\ at \in {"idle", "args", "acquire", "answer", "release"} \cup Ended
    /\ step \in Nat /\ section \in Nat /\ warned \in 0..3 /\ told \in Nat
    /\ has \subseteq {"factory", "atom", "settings", "vartree", "vardb", "packages", "protect"}
    /\ retval \in 0..255 \cup {Undecided}
    /\ error \in BOOLEAN

\* The verdict in what main is going to return: 1 is no failure of cportageq.
Verdict ==
    IF retval = Undecided THEN "none"
    ELSE IF retval = 0 THEN "yes"
    ELSE IF retval = 1 /\ IsCportageq THEN "no"
    ELSE "failure"

SeenStatus == IF at = "exited" THEN retval ELSE Undecided

Seen == INSTANCE ExitStatus WITH
            verdict <- Verdict, status <- SeenStatus, NoStatus <- Undecided

\* Every path through the labels ERR and OUT of the two programs gives one
\* verdict, that of the work and not of a release, tells a failure exactly once
\* and nothing else, and exits with the status of that verdict (cmerge/main.c
\* 167-208, cportageq/main.c 307-377).
StatusFollowsVerdict == Seen!Spec

\* A program that ends as it should has released all it made, by whichever path
\* it came to the label ERR and whoever else had a reference to it.
EverythingReleased ==
    at = "exited" /\ memory.fault = "none" =>
        \A o \in DOMAIN memory.refs : memory.refs[o] = 0

\* Where an object may be touched after its end or released too often: in every
\* command that comes to a vartree, which are those of cmerge with settings, and
\* match, has_version, best_version and vdb_path of cportageq, and there only once
\* the answer is decided; and in get_repo_path of a name that there is, since it
\* releases the repository it was lent.  Every other command is safe to the end
\* (vartree.c:354, 370-376, cportageq/main.c:138-140, 194-200, cmerge/main.c:193-197).
FaultsAreKnown ==
    memory.fault # "none" =>
        \/ IsCmerge /\ "settings" \in has /\ retval # Undecided
        \/ IsCportageq /\ Sub \in PackageQueries \cup {"vdb_path"} /\ retval # Undecided
        \/ IsCportageq /\ Sub = "get_repo_path" /\ \E i \in 2..Len(Params) : Params[i] \in DOMAIN name2repo

\* The path of the first directory, PORTDIR first, that has the name.
Named(name) == {i \in DOMAIN fs.overlays : fs.overlays[i] \in fs.dirs /\ NameOf(fs.overlays[i]) = name}
PathOf(name) ==
    IF NameOf(MainPath) = name THEN MainPath
    ELSE IF Named(name) = {} THEN ""
    ELSE fs.overlays[CHOOSE i \in Named(name) : \A j \in Named(name) : i <= j]

\* cportageq names each repository of the disk once, PORTDIR's first, and gives
\* for every one of these names, and for no other, a path: the one the load
\* keeps of the directories with that name (cportageq/main.c:100-107, 137-141).
RepositoriesAreAnswered ==
    IsCportageq /\ IsQuestion /\ memory.fault = "none" =>
        /\ Sub = "get_repos" /\ retval = 0 =>
             LET names == out[1] IN
             /\ IsInjective(names)
             /\ names[1] = NameOf(MainPath)
             /\ Range(names) = {n \in {NameOf(p) : p \in Paths} : PathOf(n) # ""}
        /\ Sub = "get_repo_path" =>
             \A i \in DOMAIN out : out[i] = PathOf(Params[i + 1])

\* What the lines of the report say of the i-th line of each file: a variable has
\* a line of its own or is one of those that are not set.
SaysVariable(i, line) ==
    \/ line.part = "variable" /\ line.of = i
    \/ line.part = "unset" /\ InfoVars[i] \in line.names
SaysPackage(i, line) == line.part = "package" /\ line.of = i

\* cmerge --info reports all or fails: the repositories are printed if and only
\* if every query for packages was answered, and then every line of info_vars,
\* set or not, and every line of info_pkgs that is no atom has been reported on
\* one line of the report and on no other (info_action.c:129-171, 204-242,
\* 367-394).
InfoIsWhole ==
    IsCmerge /\ Action = "info" /\ section > 3 /\ retval # Undecided =>
        /\ retval = 0 <=> ~error
        /\ retval = 0 <=> \E k \in DOMAIN out : out[k].part = "repositories"
        /\ retval = 0 =>
             /\ \A i \in DOMAIN InfoVars :
                  \E k \in DOMAIN out : \A j \in DOMAIN out : SaysVariable(i, out[j]) <=> j = k
             /\ \A i \in DOMAIN InfoPkgs : ~InfoPkgs[i].valid =>
                  \E k \in DOMAIN out : \A j \in DOMAIN out : SaysPackage(i, out[j]) <=> j = k

\* cportage.h:270 and 621-628: what is returned as a new reference is the
\* client's to release, and the last release frees it: no command of cmerge or
\* cportageq reads freed memory or fails an assertion.
CommandIsSafe == memory.fault = "none"

\* A command ends, whatever fails.
Ends == (at = "args") ~> (at \in Ended)
=============================================================================
