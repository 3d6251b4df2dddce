---------------------------- MODULE Repositories ----------------------------
(***************************************************************************)
(* The repositories of the settings: init_repos (settings.c) makes them    *)
(* from PORTDIR and from the words of PORTDIR_OVERLAY, cmerge --sync walks *)
(* over them (sync_action.c, repository.c).                                *)
(*                                                                         *)
(* A repository object is the number of its creation and its path, so that *)
(* a path that is listed twice makes two objects.                          *)
(***************************************************************************)
EXTENDS Naturals, FiniteSets, SequencesExt

CONSTANTS
    Paths,              \* directories and files PORTDIR_OVERLAY may list
    MainPath,           \* the canonical PORTDIR
    RepoNames,          \* what a file profiles/repo_name may say
    Missing,            \* there is no such file, or it is empty
    Basename(_),        \* the last part of a path
    FileSystems,        \* what the disk and PORTDIR_OVERLAY may hold
    ExitCodes           \* the exit codes of git pull

\* PORTDIR is a path, and so are the words of PORTDIR_OVERLAY, none of which is
\* empty.
ASSUME PathsAssumption ==
    /\ MainPath \in Paths
    /\ "" \notin Paths
    /\ \A d \in FileSystems : d.overlays \in Seq(Paths)

\* What fs says:
\*   dirs         the paths that are directories
\*   repoName[p]  the first line of profiles/repo_name, or Missing
\*   overlays     the words of PORTDIR_OVERLAY

VARIABLES
    fs,         \* the disk and the configuration: never modified
    phase,      \* "main", "overlays", "ready", "stopped"
    words,      \* words of PORTDIR_OVERLAY still to be looked at
    repos,      \* self->repos
    name2repo,  \* self->name2repo
    refs,       \* the count of every object; 0: freed
    overlay,    \* the new value of PORTDIR_OVERLAY
    pulls,      \* history: the calls of git pull, in order
    result      \* what the action returns: [retval, error]

settings == <<words, repos, name2repo, refs, overlay>>
vars == <<fs, phase, settings, pulls, result>>

\* read_repo_name.
NameOf(p) ==
    IF fs.repoName[p] = Missing THEN "x-" \o Basename(p) ELSE fs.repoName[p]

Success == [retval |-> 0, error |-> FALSE]

Init ==
    /\ fs \in FileSystems
    /\ phase = "main"
    /\ words = fs.overlays
    /\ repos = <<>>
    /\ name2repo = <<>>
    /\ refs = <<>>
    /\ overlay = <<>>
    /\ pulls = <<>>
    /\ result = Success

Bind(f, x, y) == [z \in DOMAIN f \cup {x} |-> IF z = x THEN y ELSE f[z]]

\* cp_repository_new: the next object.
New(p) == [id |-> Cardinality(DOMAIN refs), path |-> p]

\* InitMain with a bug: one reference for the two pointers.
InitMainOnce ==
    /\ phase = "main"
    /\ name2repo' = Bind(<<>>, NameOf(MainPath), New(MainPath))
    /\ refs' = Bind(refs, New(MainPath), 1)
    /\ repos' = <<New(MainPath)>>
    /\ phase' = "overlays"
    /\ UNCHANGED <<fs, words, overlay, pulls, result>>

\* init_main_repo, and the top of init_repos, which counts the repository once
\* for self->main_repo and once for self->name2repo.
InitMain ==
    /\ phase = "main"
    /\ name2repo' = Bind(<<>>, NameOf(MainPath), New(MainPath))
    /\ refs' = Bind(refs, New(MainPath), 2)
    /\ repos' = <<New(MainPath)>>
    /\ phase' = "overlays"
    /\ UNCHANGED <<fs, words, overlay, pulls, result>>

\* SkipWord with a bug: the word stays in PORTDIR_OVERLAY.
SkipButKeepWord ==
    /\ Head(words) \notin fs.dirs
    /\ overlay' = Append(overlay, Head(words))
    /\ UNCHANGED <<repos, name2repo, refs>>

\* A word that is not a directory.
SkipWord ==
    /\ Head(words) \notin fs.dirs
    /\ UNCHANGED <<repos, name2repo, refs, overlay>>

\* A directory whose repository has a name that is taken: it is made, and
\* released again.
DropDuplicate ==
    LET p == Head(words) IN
    /\ p \in fs.dirs
    /\ NameOf(p) \in DOMAIN name2repo
    /\ refs' = Bind(refs, New(p), 0)
    /\ UNCHANGED <<repos, name2repo, overlay>>

\* AddOverlay with a bug: whatever the name.
AddAnyOverlay ==
    LET p == Head(words) IN
    /\ p \in fs.dirs
    /\ name2repo' = Bind(name2repo, NameOf(p), New(p))
    /\ refs' = Bind(refs, New(p), 1)
    /\ repos' = Append(repos, New(p))
    /\ overlay' = Append(overlay, p)

\* AddOverlay with a bug: PORTDIR_OVERLAY gets the name.
AddOverlayName ==
    LET p == Head(words) IN
    /\ p \in fs.dirs
    /\ NameOf(p) \notin DOMAIN name2repo
    /\ name2repo' = Bind(name2repo, NameOf(p), New(p))
    /\ refs' = Bind(refs, New(p), 1)
    /\ repos' = Append(repos, New(p))
    /\ overlay' = Append(overlay, NameOf(p))

AddOverlay ==
    LET p == Head(words) IN
    /\ p \in fs.dirs
    /\ NameOf(p) \notin DOMAIN name2repo
    /\ name2repo' = Bind(name2repo, NameOf(p), New(p))
    /\ refs' = Bind(refs, New(p), 1)
    /\ repos' = Append(repos, New(p))
    /\ overlay' = Append(overlay, p)

\* One turn of the loop of init_repos.
NextOverlay ==
    /\ phase = "overlays"
    /\ words # <<>>
    /\ words' = Tail(words)
    /\ SkipWord \/ DropDuplicate \/ AddOverlay
    /\ UNCHANGED <<fs, phase, pulls, result>>

InitReposDone ==
    /\ phase = "overlays"
    /\ words = <<>>
    /\ phase' = "ready"
    /\ UNCHANGED <<fs, settings, pulls, result>>

-----------------------------------------------------------------------------
\* How git pull may end.
Outcomes == [kind: {"not started", "killed"}, code: {0}] \cup [kind: {"exited"}, code: ExitCodes]

\* WEXITSTATUS of a process that was killed is 0.
ExitStatus(o) == IF o.kind = "exited" THEN o.code ELSE 0

\* cp_repository_sync: WIFEXITED(status) is true of a process that has exited.
Sync(o) ==
    IF o.kind \in {"not started", "exited"} THEN [retval |-> 1, error |-> TRUE]
    ELSE IF ExitStatus(o) # 0 THEN [retval |-> ExitStatus(o), error |-> TRUE]
    ELSE Success

\* SyncNext with a bug: it goes on after a failure.
SyncAll(o) ==
    /\ phase = "ready"
    /\ Len(pulls) < Len(repos)
    /\ pulls' = Append(pulls, [repo |-> repos[Len(pulls) + 1], outcome |-> o])
    /\ result' = Sync(o)
    /\ UNCHANGED <<fs, phase, settings>>

\* One turn of the loop of cmerge_sync_action.
SyncNext(o) ==
    /\ phase = "ready"
    /\ Len(pulls) < Len(repos)
    /\ pulls' = Append(pulls, [repo |-> repos[Len(pulls) + 1], outcome |-> o])
    /\ result' = Sync(o)
    /\ phase' = IF Sync(o).retval # 0 THEN "stopped" ELSE phase
    /\ UNCHANGED <<fs, settings>>

SyncDone ==
    /\ phase = "ready"
    /\ Len(pulls) = Len(repos)
    /\ phase' = "stopped"
    /\ UNCHANGED <<fs, settings, pulls, result>>

Step == InitMain \/ NextOverlay \/ InitReposDone \/ SyncDone \/ (\E o \in Outcomes : SyncNext(o))

\* The action has returned.
Returned == phase = "stopped" /\ UNCHANGED vars

Next == Step \/ Returned

Spec == Init /\ [][Next]_vars
=============================================================================
