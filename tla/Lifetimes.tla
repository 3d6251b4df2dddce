----------------------------- MODULE Lifetimes -----------------------------
(***************************************************************************)
(* Reference counts of the settings and of the repositories they own       *)
(* (settings.c, repository.c), under a client that goes by what the code   *)
(* gives it and releases just that, in any order: a constructor, cp_*_ref  *)
(* and cp_settings_main_repository give it a reference, while              *)
(* cp_settings_repositories and cp_settings_get_repository lend what the   *)
(* settings own.  It is not the client of cportage.h:270, which calls the  *)
(* result of the last one a newref: that client, cportageq get_repo_path   *)
(* (main.c:137-141), releases what is not its own, see Cportageq.          *)
(***************************************************************************)
EXTENDS Naturals, RefCounts

CONSTANT MaxHeld    \* bound: references of one kind the client holds at a time

Repositories == {"main", "overlay"}
Objects == {"settings"} \cup Repositories

VARIABLES
    memory,     \* [refs, freed, fault]: counts, freed objects, how it died
    held,       \* references to each object that the client has to release
    lent        \* repositories lent to it, until it gives up the settings

vars == <<memory, held, lent>>

\* Init with a bug: one reference for the field and name2repo together.
InitOneReference ==
    /\ memory = [refs |-> [o \in Objects |-> 1], freed |-> {}, fault |-> "none"]
    /\ held = [o \in Objects |-> IF o = "settings" THEN 1 ELSE 0]
    /\ lent = {}

\* cp_settings_new has returned: main_repo is referenced by its field and by
\* name2repo, an overlay by name2repo alone.
Init ==
    /\ memory = [refs  |-> [o \in Objects |-> IF o = "main" THEN 2 ELSE 1],
                 freed |-> {},
                 fault |-> "none"]
    /\ held = [o \in Objects |-> IF o = "settings" THEN 1 ELSE 0]
    /\ lent = {}

\* UnrefSettings with a bug: the field main_repo is forgotten.
UnrefTableOnly(m) ==
    LET n == Unref(m, "settings") IN
    IF n.freed = m.freed THEN n ELSE Unref(Unref(n, "main"), "overlay")

\* cp_settings_unref: name2repo is destroyed first, then main_repo released.
UnrefSettings(m) ==
    LET n == Unref(m, "settings") IN
    IF n.freed = m.freed THEN n
    ELSE Unref(Unref(Unref(n, "main"), "overlay"), "main")

-----------------------------------------------------------------------------
Alive == memory.fault = "none"
Take(h) == held[h] < MaxHeld /\ held' = [held EXCEPT ![h] = @ + 1]
Give(h) == held[h] > 0 /\ held' = [held EXCEPT ![h] = @ - 1]

\* cp_settings_ref, cp_repository_ref on what the client has or is lent.
RefHandle(o) ==
    /\ Alive
    /\ held[o] > 0 \/ o \in lent
    /\ Take(o)
    /\ memory' = Ref(memory, o)
    /\ UNCHANGED lent

\* With its last reference to the settings the client gives up what they lend.
SettingsUnref ==
    /\ Alive
    /\ Give("settings")
    /\ memory' = UnrefSettings(memory)
    /\ lent' = IF held["settings"] = 1 THEN {} ELSE lent

RepositoryUnref(r) ==
    /\ Alive
    /\ Give(r)
    /\ memory' = Unref(memory, r)
    /\ UNCHANGED lent

\* MainRepository with a bug: the repository is lent, not referenced.
LendMainRepository ==
    /\ Alive
    /\ held["settings"] > 0
    /\ Take("main")
    /\ memory' = Touch(memory, "settings")
    /\ UNCHANGED lent

\* cp_settings_main_repository.
MainRepository ==
    /\ Alive
    /\ held["settings"] > 0
    /\ Take("main")
    /\ memory' = Ref(Touch(memory, "settings"), "main")
    /\ UNCHANGED lent

\* cp_settings_repositories: the list is lent, with all that is in it.
GetRepositories ==
    /\ Alive
    /\ held["settings"] > 0
    /\ memory' = Touch(memory, "settings")
    /\ lent' = Repositories
    /\ UNCHANGED held

\* cp_settings_get_repository: what is found is returned without a reference.
GetRepository(r) ==
    /\ Alive
    /\ held["settings"] > 0
    /\ memory' = Touch(memory, "settings")
    /\ lent' = lent \cup {r}
    /\ UNCHANGED held

Next ==
    \/ \E o \in Objects : RefHandle(o)
    \/ SettingsUnref \/ MainRepository \/ GetRepositories
    \/ \E r \in Repositories : RepositoryUnref(r) \/ GetRepository(r)

Spec == Init /\ [][Next]_vars

-----------------------------------------------------------------------------
\* "Decreases reference count by 1. When reference count drops to zero, it
\* frees all the memory" (cportage.h:163-172, 238-245): a client that releases
\* the references it has been given, and nothing it was lent, never reads freed
\* memory and never fails the assertion refs > 0, in whatever order it releases.
\* It is not said of a client that takes cportage.h:270 for true and releases
\* what cp_settings_get_repository lends (settings.c:499-502).
ClientIsSafe == memory.fault = "none"

\* What the client holds or is lent is there: a repository outlives the
\* settings it came from as long as somebody has a reference to it, and what
\* the settings lend is there as long as the client has the settings.
HeldIsAlive ==
    \A o \in Objects : held[o] > 0 \/ o \in lent => o \notin memory.freed

\* A client that has released everything leaves nothing behind.
NothingLeaks ==
    (\A o \in Objects : held[o] = 0) /\ Alive =>
        memory.freed = Objects
=============================================================================
