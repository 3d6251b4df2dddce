------------------------------ MODULE Process ------------------------------
(***************************************************************************)
(* What the two programs, cmerge and cportageq, have in common: they get   *)
(* the objects of the library one after the other, jump to a label when    *)
(* one cannot be had, do their work, release every object by name (NULL if *)
(* it was never there), report the error and exit.                         *)
(*                                                                         *)
(* The disk and the repositories are those of Repositories.tla: what the   *)
(* load has made when its phase is "ready" is what cp_settings_new gives   *)
(* the command.                                                            *)
(***************************************************************************)
EXTENDS RepositoriesProperties, RefCounts

CONSTANTS
    Commands(_),    \* the command lines that are tried on a disk
    Config(_),      \* [variable -> value]: what the settings of a disk hold
    Answers         \* what a query for packages may find, oldest first

\* The parameters of a program are words.
ASSUME CommandsAssumption ==
    \A disk \in FileSystems : \A c \in Commands(disk) : c.argv \in Seq(STRING)

VARIABLES
    command,    \* [program, argv]: the command line, argv[0] left out
    at,         \* where the program is
    step,       \* the position in the list of objects or of parameters
    has,        \* the pointers that are not NULL
    pkgs,       \* the packages found, oldest first
    memory,     \* the counts of the objects: [refs, freed, fault]
    retval,     \* what main is going to return
    error,      \* *error is set
    told,       \* messages of g_critical
    out         \* what was printed, line by line

process == <<command, at, step, has, pkgs, memory, retval, error, told, out>>

NoCommand == [program |-> "none", argv |-> <<>>]
Undecided == 1000       \* no status: an exit status is less than 256
Ended == {"exited", "died", "replaced"}

\* What a command has counts of: its own objects, where the atom stands for
\* itself and the packages of the vartree for one, and the repositories by name.
The(o) == <<"object", o>>
Repository(n) == <<"repository", n>>
Own == {The(o) : o \in {"factory", "atom", "settings", "protect", "tree", "package"}}
Listed == {Repository(n) : n \in DOMAIN name2repo}

NoMemory(objects) == [refs |-> [o \in objects |-> 0], freed |-> {}, fault |-> "none"]

ProcessInit ==
    /\ command = NoCommand
    /\ at = "idle"
    /\ step = 1
    /\ has = {}
    /\ pkgs = <<>>
    /\ memory = NoMemory({})
    /\ retval = Undecided
    /\ error = FALSE
    /\ told = 0
    /\ out = <<>>

Invoke(c) ==
    /\ phase = "ready"
    /\ at = "idle"
    /\ command' = c
    /\ at' = "args"
    /\ memory' = NoMemory(Own \cup Listed)
    /\ UNCHANGED <<step, has, pkgs, retval, error, told, out>>

\* The program goes on with the memory m: an assertion ends it, and a read of
\* freed memory, which the language leaves undefined, may.
GoOn(m, there) ==
    /\ memory' = m
    /\ \/ m.fault # "assertion" /\ at' = there
       \/ m.fault # "none" /\ at' = "died"

\* cp_settings_get_default(..., "").
Value(key) == IF key \in DOMAIN Config(fs) THEN Config(fs)[key] ELSE ""

\* The list cp_settings_repositories lends, by name.
RepositoryNames == [i \in DOMAIN repos |-> NameOf(repos[i].path)]

-----------------------------------------------------------------------------
CanFail == {"atom", "settings", "vartree", "packages"}

\* The memory when the call for o has succeeded: an atom is referenced by its
\* entry in the factory too, a package by the cache of the vartree, and the new
\* tree by nobody.
Made(o) ==
    CASE o \in {"factory", "protect"} -> [memory EXCEPT !.refs[The(o)] = 1]
      [] o = "atom" -> [memory EXCEPT !.refs[The(o)] = 2]
      [] o = "settings" ->
           [memory EXCEPT !.refs = [x \in DOMAIN @ |->
                IF x = The(o) THEN 1
                ELSE IF x \in Listed THEN refs[name2repo[x[2]]]
                ELSE @[x]]]
      [] o = "vartree" -> [memory EXCEPT !.refs[The("package")] = 1]
      [] o = "vardb" -> Ref(memory, The("tree"))
      [] o = "packages" -> IF pkgs' = <<>> THEN memory ELSE Ref(memory, The("package"))

Obtain(o) ==
    /\ pkgs' \in (IF o = "packages" THEN Answers ELSE {pkgs})
    /\ has' = has \cup {o}
    /\ memory' = Made(o)
    /\ step' = step + 1
    /\ UNCHANGED <<at, retval, error>>

\* CannotObtain with a bug: it starts again.
CannotObtainRetries(o, status) ==
    /\ o \in CanFail
    /\ step' = 1
    /\ UNCHANGED <<at, has, pkgs, memory, retval, error>>

\* goto ERR; cp_vartree_new releases the vartree it could not fill.
CannotObtain(o, status) ==
    /\ o \in CanFail
    /\ retval' = status
    /\ error' = TRUE
    /\ step' = 1
    /\ GoOn(IF o = "vartree" THEN Unref(memory, The("tree")) ELSE memory, "release")
    /\ UNCHANGED <<has, pkgs>>

Acquire(objects, status) ==
    /\ at = "acquire"
    /\ step <= Len(objects)
    /\ Obtain(objects[step]) \/ CannotObtain(objects[step], status)
    /\ UNCHANGED <<command, told, out>>

Acquired(objects) ==
    /\ at = "acquire"
    /\ step > Len(objects)
    /\ at' = "answer"
    /\ step' = 1
    /\ UNCHANGED <<command, has, pkgs, memory, retval, error, told, out>>

-----------------------------------------------------------------------------
\* What o owned is released when the last reference to o is given up.
UnrefOwner(m, o, owned) ==
    LET n == Unref(m, o) IN
    IF n.freed = m.freed THEN n ELSE UnrefAll(n, owned)

\* The settings: the table of the repositories goes, then the main repository.
UnrefSettings(m) ==
    LET n == UnrefOwner(m, The("settings"), Listed) IN
    IF The("settings") \in n.freed THEN Unref(n, Repository(NameOf(MainPath))) ELSE n

\* The release of a pointer.
UnrefPointer(o) ==
    CASE o \notin has -> memory
      [] o \in has /\ o = "settings" -> UnrefSettings(memory)
      [] o \in has /\ o = "factory" ->
           UnrefOwner(memory, The(o), IF "atom" \in has THEN {The("atom")} ELSE {})
      [] o \in has /\ o \in {"vardb", "vartree"} -> UnrefOwner(memory, The("tree"), {The("package")})
      [] o \in has /\ o = "packages" ->
           IF pkgs = <<>> THEN memory ELSE Unref(memory, The("package"))
      [] o \in has /\ o \in {"atom", "protect"} -> Unref(memory, The(o))

Release(objects) ==
    /\ at = "release"
    /\ step <= Len(objects)
    /\ GoOn(UnrefPointer(objects[step]), "release")
    /\ step' = step + 1
    /\ UNCHANGED <<command, has, pkgs, retval, error, told, out>>

\* Report with a bug: every status but 0 is a failure.
ReportAlways(objects) ==
    /\ at = "release"
    /\ step > Len(objects)
    /\ at' = "exited"
    /\ told' = IF retval # 0 THEN told + 1 ELSE told
    /\ UNCHANGED <<command, step, has, pkgs, memory, retval, error, out>>

\* The end of main: a failure is reported if there is an error to report.
Report(objects) ==
    /\ at = "release"
    /\ step > Len(objects)
    /\ at' = "exited"
    /\ told' = IF retval # 0 /\ error THEN told + 1 ELSE told
    /\ UNCHANGED <<command, step, has, pkgs, memory, retval, error, out>>
=============================================================================
