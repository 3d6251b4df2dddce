------------------------------- MODULE Vartree -------------------------------
(***************************************************************************)
(* vartree.c and the query of tree.c: installed packages, read from        *)
(* /var/db/pkg/<category>/<name>-<version>/ into a cache that is filled     *)
(* per category, at once or on the first query (CPORTAGE_VARTREE_LAZY),    *)
(* and never refreshed.                                                    *)
(*                                                                         *)
(* A package manager may run next to this process: it installs packages    *)
(* whole (a directory is renamed into place) and removes one file of a     *)
(* package after another.  A directory is read entry by entry: one that is *)
(* added or removed meanwhile may or may not be seen.  A directory may be  *)
(* closed to this process, by its rights or for any other reason, and may  *)
(* be opened later: g_dir_open then fails.                                 *)
(***************************************************************************)
EXTENDS Naturals, FiniteSets, SequencesExt

CONSTANTS
    Categories,         \* entries of /var/db/pkg
    ValidCategories,    \* those cp_atom_category_validate accepts
    Names, Versions,    \* packages; a version is a number, larger is newer
    Junk,               \* entries that cp_atom_pv_split rejects
    Matchings,          \* sets of versions that an atom may match
    Disks,              \* what /var/db/pkg holds at first
    VdbPath,            \* /var/db/pkg itself
    Closed,             \* the sets of directories that may be closed at first
    Absent, PlainFile,  \* no such entry; the entry is not a directory
    Unread,             \* the NULL of a category that has not been read
    MaxChanges          \* bound: steps of the package manager and the administrator

ASSUME VersionsAssumption == Versions \subseteq Nat
ASSUME ValidAssumption == ValidCategories \subseteq Categories

\* A package directory is whole, or some of its files are missing or invalid.
PV == [name: Names, ver: Versions]
Entries == PV \cup Junk
Conditions == {"whole", "partial"}
Directories == UNION {[S -> Conditions] : S \in SUBSET Entries}

ASSUME JunkAssumption == Junk \cap PV = {}

\* The packages of a category, by name.
Tables == UNION {[S -> Seq(Versions)] : S \in SUBSET Names}

ASSUME UnreadAssumption ==
    /\ \A S \in SUBSET Names : Unread \notin [S -> Seq(Versions)]
    /\ \A packages \in SUBSET PV : packages # Unread

ASSUME DisksAssumption ==
    /\ Absent \notin Directories /\ PlainFile \notin Directories
    /\ Disks \subseteq [Categories -> {Absent, PlainFile} \cup Directories]

ASSUME ClosedAssumption == VdbPath \notin Categories

VARIABLES
    disk,       \* [category -> Absent, PlainFile or [entry -> condition]]
    closed,     \* the directories that g_dir_open fails for
    changes,    \* steps that others have taken
    lazy,       \* the mode cp_vartree_new has chosen
    cache,      \* self->cache: [category -> Unread or [name -> packages]]
    todo,       \* init_cache: categories still to be populated
    at,         \* where the process is
    scan,       \* populate_cache: the directory being read
    query,      \* find_packages: the atom and the order that are asked for
    answer,     \* what the last query returned
    seenBy      \* history: what each cached category was read from

vars == <<disk, closed, changes, lazy, cache, todo, at, scan, query, answer, seenBy>>

Present == {c \in Categories : disk[c] # Absent}
IsDir(c) == disk[c] \notin {Absent, PlainFile}
Condition(c, e) == IF IsDir(c) /\ e \in DOMAIN disk[c] THEN disk[c][e] ELSE "gone"
Whole(c) == {e \in PV : Condition(c, e) = "whole"}

NoScan == [cat |-> Absent]
NoQuery == [cat |-> Absent]
NoAnswer == [ok |-> TRUE, list |-> <<>>, query |-> NoQuery]
Refusal(q) == [ok |-> FALSE, list |-> <<>>, query |-> q]

Init ==
    /\ disk \in Disks
    /\ closed \in {S \in Closed : \A c \in S \cap Categories : IsDir(c)}
    /\ changes = 0
    /\ lazy \in BOOLEAN
    /\ cache = <<>>
    /\ todo = {}
    /\ at = "new"
    /\ scan = NoScan
    /\ query = NoQuery
    /\ answer = NoAnswer
    /\ seenBy = <<>>

process == <<lazy, cache, todo, at, scan, query, answer, seenBy>>

-----------------------------------------------------------------------------
\* populate_cache: a category with a bad name or one that is not a directory
\* gets the NULL entry; a directory is opened, if it can be.
NotScannable(c) == c \notin ValidCategories \/ ~IsDir(c)

Bind(f, x, y) == [z \in DOMAIN f \cup {x} |-> IF z = x THEN y ELSE f[z]]

OpenDir(c) ==
    /\ c \notin closed
    /\ scan' = [cat |-> c, done |-> {}, found |-> [n \in {} |-> <<>>],
                opened |-> DOMAIN disk[c], always |-> Whole(c), ever |-> Whole(c)]

\* New with a bug: in the lazy mode no category is entered.
NewForgets ==
    /\ at = "new"
    /\ VdbPath \notin closed
    /\ cache' = <<>>
    /\ todo' = IF lazy THEN {} ELSE Present
    /\ at' = "init"
    /\ UNCHANGED <<disk, closed, changes, lazy, scan, query, answer, seenBy>>

\* cp_vartree_new, init_cache.
New ==
    /\ at = "new"
    /\ VdbPath \notin closed
    /\ cache' = IF lazy THEN [c \in Present |-> Unread] ELSE <<>>
    /\ todo' = IF lazy THEN {} ELSE Present
    /\ at' = "init"
    /\ UNCHANGED <<disk, closed, changes, lazy, scan, query, answer, seenBy>>

PopulateNext(c) ==
    /\ at = "init"
    /\ c \in todo
    /\ todo' = todo \ {c}
    /\ IF NotScannable(c)
       THEN cache' = Bind(cache, c, Unread) /\ UNCHANGED <<at, scan>>
       ELSE OpenDir(c) /\ at' = "initScan" /\ UNCHANGED cache
    /\ UNCHANGED <<disk, closed, changes, lazy, query, answer, seenBy>>

\* g_dir_open has failed, for the directory of the categories or, as they are
\* read at once, for one of them: cp_vartree_new fails.
NewFails ==
    /\ \/ at = "new" /\ VdbPath \in closed
       \/ at = "init" /\ \E c \in todo \cap closed : ~NotScannable(c)
    /\ at' = "failed"
    /\ UNCHANGED <<disk, closed, changes, lazy, cache, todo, scan, query, answer, seenBy>>

InitDone ==
    /\ at = "init"
    /\ todo = {}
    /\ at' = "idle"
    /\ UNCHANGED <<disk, closed, changes, lazy, cache, todo, scan, query, answer, seenBy>>

-----------------------------------------------------------------------------
\* g_slist_insert_sorted with cp_package_cmp, on the packages of one name.
InsertSorted(list, v) ==
    InsertAt(list, Cardinality({i \in DOMAIN list : list[i] < v}) + 1, v)

\* InsertPackage with a bug: the list of the name is not looked up.
InsertAlone(found, p) == Bind(found, p.name, <<p.ver>>)

\* insert_package.
InsertPackage(found, p) ==
    Bind(found, p.name,
         InsertSorted(IF p.name \in DOMAIN found THEN found[p.name] ELSE <<>>, p.ver))

\* An error of try_load_package: the table being filled is destroyed, the
\* cache is left alone, and cp_vartree_new or the query fails.
ScanFails ==
    /\ scan' = NoScan
    /\ at' = IF at = "initScan" THEN "failed" ELSE "idle"
    /\ answer' = IF at = "initScan" THEN answer
                 ELSE Refusal(query)
    /\ UNCHANGED <<cache, seenBy>>

Scanning == at \in {"initScan", "queryScan"}

\* One turn of the loop over the directory, try_load_package included: the
\* entry is one that was there when the directory was opened or is there now.
ReadEntry(e) ==
    /\ Scanning
    /\ e \notin scan.done
    /\ e \in scan.opened \/ Condition(scan.cat, e) # "gone"
    /\ \/ /\ e \in Junk
          /\ scan' = [scan EXCEPT !.done = @ \cup {e}]
          /\ UNCHANGED <<at, cache, answer, seenBy>>
       \/ /\ e \in PV
          /\ Condition(scan.cat, e) = "whole"
          /\ scan' = [scan EXCEPT !.done = @ \cup {e},
                                  !.found = InsertPackage(@, e)]
          /\ UNCHANGED <<at, cache, answer, seenBy>>
       \/ /\ e \in PV
          /\ Condition(scan.cat, e) # "whole"
          /\ ScanFails
    /\ UNCHANGED <<disk, closed, changes, lazy, todo, query>>

\* cp_vartree_find_packages prepends the packages that match: the k-th of the
\* result is the one that k - 1 others follow in the list.
Prepended(list, matching) ==
    LET kept == {i \in DOMAIN list : list[i] \in matching}
        Kth(k) == CHOOSE i \in kept : Cardinality({j \in kept : j > i}) = k - 1
    IN [k \in 1..Cardinality(kept) |-> list[Kth(k)]]

\* cp_tree_find_packages reverses the result if it is to ascend.
Found(table, q) ==
    LET list == IF q.name \in DOMAIN table THEN table[q.name] ELSE <<>>
        descending == Prepended(list, q.matching)
    IN [ok |-> TRUE, query |-> q,
        list |-> IF q.ascending THEN Reverse(descending) ELSE descending]

\* The end of the directory: everything that stayed in it has been returned.
EndScan ==
    /\ Scanning
    /\ \A e \in scan.opened \ scan.done : Condition(scan.cat, e) = "gone"
    /\ cache' = Bind(cache, scan.cat, scan.found)
    /\ seenBy' = Bind(seenBy, scan.cat, [always |-> scan.always, ever |-> scan.ever])
    /\ scan' = NoScan
    /\ at' = IF at = "initScan" THEN "init" ELSE "idle"
    /\ answer' = IF at = "initScan" THEN answer ELSE Found(scan.found, query)
    /\ UNCHANGED <<disk, closed, changes, lazy, todo, query>>

-----------------------------------------------------------------------------
\* IsCached with a bug: what has been read is not looked at.
NeverCached(c) == FALSE

\* The test of get_category_cache.
IsCached(c) == cache[c] # Unread

NoPackages(q) == [ok |-> TRUE, list |-> <<>>, query |-> q]

\* cp_tree_find_packages down to get_category_cache: an unknown category, one
\* that is cached, or one that has to be read now, which may fail at once.
Find(q) ==
    /\ at = "idle"
    /\ query' = q
    /\ \/ /\ q.cat \notin DOMAIN cache
          /\ answer' = NoPackages(q)
          /\ UNCHANGED <<at, scan>>
       \/ /\ q.cat \in DOMAIN cache
          /\ IsCached(q.cat)
          /\ answer' = Found(cache[q.cat], q)
          /\ UNCHANGED <<at, scan>>
       \/ /\ q.cat \in DOMAIN cache
          /\ ~IsCached(q.cat)
          /\ NotScannable(q.cat)
          /\ answer' = NoPackages(q)
          /\ UNCHANGED <<at, scan>>
       \/ /\ q.cat \in DOMAIN cache
          /\ ~IsCached(q.cat)
          /\ ~NotScannable(q.cat)
          /\ OpenDir(q.cat)
          /\ at' = "queryScan"
          /\ UNCHANGED answer
       \/ /\ q.cat \in DOMAIN cache
          /\ ~IsCached(q.cat)
          /\ ~NotScannable(q.cat)
          /\ q.cat \in closed
          /\ answer' = Refusal(q)
          /\ UNCHANGED <<at, scan>>
    /\ UNCHANGED <<disk, closed, changes, lazy, cache, todo, seenBy>>

Queries == [cat: Categories, name: Names, matching: Matchings, ascending: BOOLEAN]

-----------------------------------------------------------------------------
\* The package manager.
Change(c, entries) ==
    /\ changes < MaxChanges
    /\ changes' = changes + 1
    /\ disk' = [disk EXCEPT ![c] = entries]
    /\ scan' = IF scan.cat = c
               THEN LET now == {e \in PV : e \in DOMAIN entries /\ entries[e] = "whole"}
                    IN [scan EXCEPT !.always = @ \cap now, !.ever = @ \cup now]
               ELSE scan
    /\ UNCHANGED <<closed, lazy, cache, todo, at, query, answer, seenBy>>

Install(c, p) ==
    /\ disk[c] # PlainFile
    /\ Condition(c, p) = "gone"
    /\ Change(c, IF disk[c] = Absent THEN [e \in {p} |-> "whole"]
                 ELSE Bind(disk[c], p, "whole"))

RemoveFiles(c, p) ==
    /\ Condition(c, p) = "whole"
    /\ Change(c, Bind(disk[c], p, "partial"))

RemoveDir(c, p) ==
    /\ Condition(c, p) = "partial"
    /\ Change(c, [e \in DOMAIN disk[c] \ {p} |-> disk[c][e]])

PackageManager ==
    \E c \in ValidCategories, p \in PV : Install(c, p) \/ RemoveFiles(c, p) \/ RemoveDir(c, p)

\* The administrator closes a category or opens it again.
ChangeRights(c) ==
    /\ changes < MaxChanges
    /\ IsDir(c)
    /\ changes' = changes + 1
    /\ closed' = IF c \in closed THEN closed \ {c} ELSE closed \cup {c}
    /\ UNCHANGED <<disk, process>>

Others == PackageManager \/ \E c \in ValidCategories : ChangeRights(c)

Work ==
    \/ New \/ NewFails \/ InitDone \/ EndScan
    \/ \E c \in Categories : PopulateNext(c)
    \/ \E e \in Entries : ReadEntry(e)

Next == Work \/ (\E q \in Queries : Find(q)) \/ Others

Spec == Init /\ [][Next]_vars

-----------------------------------------------------------------------------
Packages(table) ==
    UNION {{[name |-> n, ver |-> table[n][i]] : i \in DOMAIN table[n]} : n \in DOMAIN table}

\* What is cached of a category was really there: every package that stayed
\* whole while its directory was read, and none that never was whole meanwhile
\* (populate_cache reads while others write).
CacheIsARead ==
    \A c \in DOMAIN cache : cache[c] # Unread =>
        /\ seenBy[c].always \subseteq Packages(cache[c])
        /\ Packages(cache[c]) \subseteq seenBy[c].ever

\* A category with a directory that cannot be opened, or with a package that
\* cannot be loaded.
Unreadable(c) ==
    /\ ~NotScannable(c)
    /\ c \in closed \/ \E p \in PV : Condition(c, p) = "partial"

\* Lazy or not, as long as nobody changes anything a query answers the same:
\* what is installed. It fails only on a category that cannot be read, and the
\* vartree cannot be made only if that holds of any of them, or of their parent
\* (vartree.c:147-167, 192-207).
UndisturbedAnswer ==
    changes = 0 =>
        /\ at = "failed" => VdbPath \in closed \/ \E c \in Categories : Unreadable(c)
        /\ answer.query # NoQuery =>
              LET q == answer.query IN
              IF answer.ok
              THEN Range(answer.list) =
                     IF NotScannable(q.cat) THEN {}
                     ELSE {v \in q.matching : [name |-> q.name, ver |-> v] \in Whole(q.cat)}
              ELSE Unreadable(q.cat)

\* What is known of a category: what its cache entry holds.
Known ==
    [c \in Categories |->
        IF c \in DOMAIN cache /\ cache[c] # Unread THEN Packages(cache[c]) ELSE Unread]

Service == INSTANCE InstalledPackages WITH
               AllPackages <- PV, Unknown <- Unread, known <- Known, reply <- answer

\* cportage.h:576-588: in both modes, and whatever happens on the disk, what has
\* been read of a category is never read again, so that two queries see the
\* same packages; and an answer is the list of all that match, no package
\* twice, in the order asked for.
AnswersFromOneRead == Service!Spec
=============================================================================
