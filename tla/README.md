# A TLA+ verification of cportage

cportage is a C library (`src/src/cportage`) with two programs on top of it,
`cmerge` and `cportageq`.  It reads the configuration of a Gentoo system, finds
the installed packages and pulls the repositories.  It is single-threaded and
keeps no file of its own; what makes it hard is the *order* in which small
pieces of configuration are merged, the ownership of its objects, and a disk
that other programs change while it reads.

The paths below are relative to the repository; line numbers are those of the
commit this directory was written for.

## Inventory

| component | state | operations | what makes it correct |
|---|---|---|---|
| incremental variables `incrementals.c`, `collections.c` | the shared table `config`, the sets `incrementals`, `use_mask`, `use_force` | new, config_changed, process_profile, config_finished, contains | every value stacked once, in reading order; mask over force; USE and the USE_EXPAND variables agree |
| settings `settings.c` | `config`, profile, repositories | new, ref/unref, getters | the result depends on the files in their order and on nothing else; any fault fails the load |
| shell files `shell_parser.y`, `shell_scanner.l` | a parser per file, sharing `config` | assignment, reference, source | a reference sees the file's own assignments; errors come back through nested files |
| repositories `repository.c`, `settings.c:248-345` | name, path, count; list and table of the settings | new, sync, ref/unref | list, table and counts agree; names unique |
| installed packages `vartree.c`, `tree.c`, `package.c` | cache per category, `NULL` for "not read yet" | new (lazy, eager), find_packages | a cache entry is a read of the directory; answers are ordered and repeatable |
| versions, atoms `atom_parser.y` | immutable versions and atoms | parse, compare, match | a total preorder of versions; operators consistent with it |
| atom factory `atom_parser.y:839-951` | per EAPI, a table of atoms and errors | new, atom_new, ref/unref | equal text, equal answer |
| EAPI `eapi.c` | the known EAPIs | pure functions | the grammar and the profiles ask the same EAPI |
| configuration protection `configprotect.c`, `path.c` | two lists of paths | new, is_protected | names decide and not texts; masks win; words count below the root |
| `strings.c`, `io.c`, `error.c` | none | pure functions, file reads | see their callers |
| `cmerge` `main.c`, `sync_action.c`, `nice.c`, `*_action.c` | the context | one action per call | status, error and message agree; all is released on every path; a report is whole or a failure |
| `cportageq` `main.c` | the objects of one question | one question per call | as for `cmerge`; "no" is no failure |

How they meet: `cp_settings_new` creates the incrementals over its own
`config`; the parser writes to `config` through a callback; after each file the
settings call `cp_incrementals_config_changed`, after each profile
`cp_incrementals_process_profile`, and once `cp_incrementals_config_finished`.
`cp_vartree_new` reads two settings.  `cmerge` owns settings, vartree and atom
factory and hands them to one action.

Hard behaviours: recursion (profiles above profiles, files that source files)
that shares one mutable table; tables that are changed by the walk that reads
them; reference counts split over several owners; directory scans that race
with the package manager; failures in the middle of each.  `PROJECT.json`,
"hazards", has each at its line.

## Modules

| module | models | how |
|---|---|---|
| `StackValue` | a value of an incremental variable | as what it does to a set: `[wipe, del, add]`; `Join` is `"${X} more"` |
| `StackItems` | the loop of `cp_stack_dict` | word by word, value after value; shows that the closed form of `StackValue` is right |
| `Incrementals` | `incrementals.c` | one action per function; the reader of files assigns anything, in any order |
| `Settings` | `cp_settings_new`, the parser's statements | extends `Incrementals`; an explicit stack `dfs` for the recursion over profiles, `reading` for nested files; `fs` is what the disk holds |
| `SettingsProperties` | what a load promises | the result computed from the disk without control state |
| `Repositories`, `RepositoriesProperties` | `init_repos`, `--sync` | an object is its number and path; the outcome of `git pull` is chosen freely |
| `InstalledPackages` | what a client of the vartree may rely on | abstract: what is known of a category never changes, an answer is the ordered list of what matches |
| `Vartree` | cache, scan, query | the directory is read entry by entry while a package manager installs and removes; a directory may be closed to the process, so that it cannot be opened; implements `InstalledPackages` |
| `Versions`, `VersionsProperties` | comparison, operators, sorted list | a numeral is its digits; the order is defined a second time, as place-by-place comparison with an end marker |
| `RefCounts` | `cp_*_ref`, `cp_*_unref`, the end of a table | operators on a memory `[refs, freed, fault]`, shared by `Lifetimes`, `Atoms`, `Process` |
| `Lifetimes` | counts of settings and repositories | a client that takes, is lent and releases references in any order, and releases just what it was given: `cp_settings_get_repository` lends, though `cportage.h:270` says `newref` |
| `Eapi` | `eapi.c` | the text of an eapi file, the predicates that the grammar asks |
| `Atoms` | the atom factory | the cache by EAPI and text, with what the parser makes of a text by its parts; counts of factory and atoms |
| `Paths` | `match_prefix` and the two tests on it, `g_build_filename` | a path is a sequence of characters, for a slash in the wrong place is what can go wrong; GLib's joining drops the slashes in front of the second element and keeps those at its end |
| `ConfigProtect` | `configprotect.c` | extends `StackItems`: CONFIG_PROTECT grows word by word, masks and roots are chosen; the root is canonical, what is asked is any text, as `cportageq is_protected` hands it on (`cportageq/main.c:284`); a second definition, by the names of a path, says what is meant |
| `Process` | what `cmerge` and `cportageq` have in common | extends `Repositories` and `RefCounts`: the objects are made one after the other, any call may fail, the label releases them by name, `Report` tells and exits |
| `Cportageq` | `cportageq/main.c` | for each function what it makes, the order it is released in, and its answer |
| `Cmerge` | `cmerge/*.c` | options, the adjustments of `nice.c`, one action per `*_action.c`; `--info` part by part |
| `ExitStatus` | what a script sees of a command | abstract: a verdict, messages, a status |
| `Programs` | one command on one disk | composes `Repositories`, `Cportageq`, `Cmerge`; implements `ExitStatus` |
| `SettingsProofs`, `RefCountsProofs`, `LifetimesProofs`, `AtomsProofs`, `ProgramsProofs`, `VartreeProofs`, `ConfigProtectProofs`, `VersionsProofs` | | theorems |
| `MC*` | | the small instances |

Every action is a whole function, or a turn of its loop where something can
happen between two turns (a failure, a change on disk, another file).  A
mutated form stands before the definition it mutates, marked "with a bug";
it is no part of the model.

Three refinements are checked, and proved for every value of the constants.

* `IncSpec` (run *settings*): each step of `Settings` is a step of
  `Incrementals`, by the identity on the shared variables.  So what is proved
  of `Incrementals` for any reader holds for the reader that the program has
  (`LoadedUse`).
* `AnswersFromOneRead` (run *vartree*): `Vartree` implements
  `InstalledPackages`.  `known` is what the cache has of a category and hides
  how it came there, at once or on demand, and every half-read directory.
* `StatusFollowsVerdict` (run *programs*): `Programs` implements `ExitStatus`.
  The verdict is read from `retval` by the rules of the program it is in; the
  exit status exists at `"exited"` only.

## Runs

| run | question | size |
|---|---|---|
| `incrementals` | Do the incremental variables do what PMS and the comments ask, whatever the files say? | 246,912 states |
| `settings` | Is a load the one the files define? Does each fault fail it? Does it return? | 40,133 states |
| `config_protect` | Is the closed form of a value right? Which paths do its words protect? | 56,560 states |
| `vartree` | Are cache and answers right while packages come and go, and when a directory cannot be opened? | 880,570 states |
| `lifetimes` | Is any order of loans and releases safe? | 265 states, with up to `MaxHeld` references of a kind |
| `programs` | Status, message, releases and answers of every command, whatever fails; list, table and counts of the repositories; the walk of `--sync` | 418,550 states |
| `versions` | Is the comparison the order of versions? Are lists sorted? | 18,943 lists |
| `atoms` | Do the cache and its clients share atoms safely? Is an answer that of its EAPI? | 234,240 states |
| `expand_after_use`, `source_disabled`, `command_safety`, `sync` | violations, see below | |

Bounds, and why they are enough.

* *incrementals*: three USE_EXPAND variables, which sort before USE (`FOO`,
  `FOO_BAR`) and after it (`ZED`), the name of one a prefix of the other's;
  the words are those that one variable can give and another own.  The runs are
  not bounded in the number of operations.
* *settings*: up to three profiles with one reached over two ways, one file of
  globals (three in the code, read one after the other in the same way), both
  `make.conf`, one sourced file; every combination of the contents, and each
  single fault on a disk where everything is present; an eapi file that is
  missing, known, unknown or unreadable; `make.profile` in either place, in both,
  in none; a parent that does not exist, a comment among the parents.  `MaxDepth` = 4 bounds the
  reference computation, not the program: the two properties of the result ask
  about the disks it reaches to the end of (`Settled`), which are all those of the
  runs without a cycle.  Some disks are loaded with a default, incremental or not,
  in place of `make.globals`.  A reference is to a variable that stacks or to one
  that does not; `CBUILD` and `CHOST` are set by some files and not by others.  `UseIsByTheBook`
  leaves out the loads in which `make.conf` changes USE_EXPAND; one disk
  (`NamedLate`) is there for what happens then, see below.
* *config_protect*: values of up to three words, names of which one begins like
  the other, slashes missing or too many, in front, at the end and in the middle,
  the root directory and one below it.  The paths that are asked for are canonical,
  relative, end with a slash, or have several in a row in front of a name or behind one.
* *vartree*: two versions of two names; `MaxChanges` = 2 lets a package be
  installed and another removed, or the two steps of one removal happen, in one
  scan, or a category be closed and opened again; at first all directories are
  open, or one category is closed, or `/var/db/pkg` is.
* *versions*: lists of three, which is what transitivity and "a stretch" need.
* *programs*: `PORTDIR_OVERLAY` of up to three words, over PORTDIR itself, two
  overlays with the same basename and a path that may be a file.  Every such
  disk is asked for its repositories; those with up to two words are synced
  and asked for paths too; the commands that do not look at the
  repositories, among them each question of `cportageq` and each action of
  `cmerge` with and without its parameters, run where there is no overlay.
  One object stands for all packages of an answer, since they are counted
  alike, and answers are of up to two packages: none, first and last differ.
* *atoms*: the oldest EAPI and one with slots and use dependencies; five texts:
  good everywhere, good under one EAPI only (twice), broken before and broken
  after the atom is complete.  `MaxHeld` = 2.
* *lifetimes*: `MaxHeld` bounds the references of a kind; the theorems have no
  such bound.

Deadlock is not checked where the client may stop asking (`lifetimes`, `atoms`,
`vartree`, `incrementals`) or a list has its bound (`versions`,
`config_protect`).  In `programs` it is: a command may stop only where it has
ended, and the assertion at the end of `cmerge` (`main.c:204`) is a guard whose
failure would be a deadlock.

Fairness: `Settings` and `Programs` have it, `WF_vars(Step)` and
`WF_allVars(Work)`: a load or a command is one thread that waits for nobody and
runs on whenever it can; the processes it starts (`git`, `ionice`, `uname`,
`ld`) are taken to end.  `Returns` says that a load ends, given profiles and
files without a cycle; with one, the code recurses until the stack is exhausted
(`settings.c:191` and `shell_parser.y:89` say so themselves).  `Ends` says that
a command ends, whatever fails.  The package manager of `Vartree` has no
fairness: it may do nothing.

## What the runs found

* `expand_after_use`: the final pass walks the variables by name; a USE_EXPAND
  variable that sorts after USE gets its own words back after
  `regenerate_use_expand`, so a masked flag stays in it (`incrementals.c:334`
  against the comment at 307-312).  `ExpandFollowsUse` is what does hold.
* `source_disabled`: `allow_source` is stored and never read
  (`shell_parser.y:168` against `shellconfig.h:38`).
* `command_safety`: a tree starts with count 0 (`tree.c:31`), so
  `cp_vartree_unref` of a vartree whose tree nobody else has fails an assertion
  (`cportageq vdb_path`); the queries for packages, and `cmerge`, which have a
  reference of their own to the tree, read a freed one.  `get_repo_path`
  releases a repository that it was lent.  `FaultsAreKnown` says that these are
  all: a fault is possible in every command of `cmerge` that has settings and in
  `match`, `has_version`, `best_version` and `vdb_path`, each once it has its
  answer, and in `get_repo_path` of a name that there is.  `get_repos`, `envvar`,
  `is_protected` and whatever ends before the settings are made are safe.
* `sync`: `cp_repository_sync` takes a `git pull` that exited, with 0 as well,
  for a failure, and one that a signal ended for a success
  (`repository.c:124`).

Met while modelling, without a run of its own: `cp_settings_get_repository` is
declared `newref` (`cportage.h:270`) and returns what the table has, without a
reference (`settings.c:499-502`), so that a client who releases it takes a reference
of the settings, and the repository is freed too early; `cportageq get_repo_path` is
such a client (`cportageq/main.c:138-140`) and faults in the model of the programs,
while `ClientIsSafe` and the theorems of `LifetimesProofs` are about a client that
does not; a USE_EXPAND variable is emptied before the
words of `make.conf` are stacked (`incrementals.c:78-83`), but by the USE_EXPAND
that the walk sees when it comes to the variable, so that one which sorts before
USE_EXPAND, and which the same file names, keeps its old words where one that sorts
after it loses them (`ExpandSeenBy`; on the disk `NamedLate` of *settings*, USE has
`foo_x` of the profiles and `foo_y` of `make.conf`); `cportage.h:216-218` says that no file in `/etc` is
read with defaults, and `settings.c:402-408` reads both `make.conf`; `cp_atom_pv_split` leaves `*name` and `*version`
alone if it fails, where `atom.h:73-80` says they become NULL;
`cp_eapi_has_subslots` is never called, so that a subslot is accepted under every
EAPI with slots, and dropped (`atom_parser.y:366`); `cp_tree_insert_all` copies one entry only
(`collections.c:78`), which the model follows; in `cp_atom_matches` the atom's
version is the left operand, so `<` matches newer packages, which no document
or test of the repository contradicts; a subslot is compared with the atom's
slot (`atom_parser.y:791`, slots are not modelled).

## Proofs

`SettingsProofs`, first of `Incrementals`, for all names, words, inputs and orders
of names that satisfy the assumptions of `Incrementals`:

* `TypeCorrect`: the inductive invariant is `TypeInv`, the type invariant
  checked by the run with what it lacks to be inductive: until the final pass,
  USE and the USE_EXPAND variables are typed by their own universe.  The walk of
  `config_changed` looks USE_EXPAND up in the middle of changing it
  (`ExpandSeenBy`), which is the case that makes the proof more than a check.
* `ValuesStackedOnce`: a value still in `config` was assigned by the file being
  read.  The new USE_EXPAND matters: names it adds are emptied as well.
* `UseRespectsProfiles`, `ExpandVariablesFollowUse`, `UseDivided`: from the
  definition of the final pass and the fact (`OverrideKeeps`) that nothing after
  it touches these variables.  `FirstOwner` is the one lemma with content: of
  the variables that own a flag there is a first, and it gets the flag.
* `MakeConfReplacesExpand`: an action property.

`LifetimesProofs`, for every bound `MaxHeld` and the client of `Spec`, which
releases what it was given and nothing it was lent: the properties of the run are
not inductive; `LifeInv` adds `CountsAddUp`, that the count of an object is the
number of pointers the settings own to it and of references the client has to
release, and that it is freed exactly if that is 0, and `LentByTheHeld`, that the
client has the settings as long as they lend it something.  One lemma per kind of step
(`TakingKeeps`, `RepositoryUnrefKeeps`, `SettingsUnrefKeeps`, `LendingKeeps`);
the hard one is the last release of the settings, which releases the main
repository twice and must find it alive both times.

`RefCountsProofs` has what the operations on a memory do when nothing they touch
is freed; both proofs about counts rest on it.

`AtomsProofs`, for all texts, EAPIs and bounds: `AtomInv` adds to the properties
of the run that a count is the cache's reference plus the client's
(`CountsAddUp`), that the cache holds what the parser makes of its key
(`CacheIsParsed`), and that as long as there is a factory its cache has every
atom ever made (`FactoryOwns`).  The last is what is needed when a text is parsed:
the new atom's count is set to 1, which is right only because nobody can hold, or
have released, an atom of that key.  `AnswersAreByEapi` follows from
`CacheIsParsed`: no answer depends on what was asked before.

`SettingsProofs`, then of `Settings`, for all names, files, profiles and disks:

* `LoadImplementsIncrementals`: every load is one of the orders of calls that
  `Incrementals` allows.  `SettingsInv` has the guards that the caller does not
  test and the callee relies on: files are read before the final pass and never
  after it, the two stacks hold profiles that can be used and files that are
  there, and `config` holds what a file may assign (`ValuesInv`); after the final
  pass the settings write the four plain variables only (`WritePlain`), which are
  none of those the theorems are about.  One lemma per action.
* `LoadedUse`: so the theorems about `Incrementals` hold of the USE that
  `cp_settings_new` returns, whatever is on the disk.
* `ErrorsComeBack`: the load fails exactly if there is an error in anything it
  may come to.  `ErrorInv` has one half for each direction.  For "no error is
  dropped" it says what each frame of the C stack has behind it and what the
  frame below waits for (`ReadInv`, `WalkInv`; `Chained` is the shape of a stack):
  the parents and the files up to the place a frame is at are *good*, and what
  returns is good because everything in it was.  Good are the members of the
  greatest sets of files and of profiles that read only one another
  (`GoodFiles`, `GoodProfiles`), so that cycles need no case of their own: a load
  that runs in one does not return.  For "nothing else fails" it says that the
  stacks stay inside every set of profiles and files that holds the top profile
  and what its members read (`ReachInv`), so that whatever fails is in all of
  them.

* `FilesMakeUse` and `LastAssignmentWins`: the result is what the files say in
  their order.  The reference is a *schedule*, computed from the disk without the
  control state of the program (every assignment, every end of a file that
  `load_make_config` opened, the two files of flags of every profile, depth first),
  and a *book*, in which it is entered event by event.  The invariant,
  `LoadBookInv`, is that at every step the variables are what the book of a
  *beginning* of the schedule says (`Agrees`), and it says which one: `Done`.  A
  file on the stack has come to the statements before the one it is at, a profile
  to the parents before the one it is at, then to its own files; a stack has come
  to what each frame below the top had before the call it waits for, and to what
  the top has (`StackDone`).  So a step at the top that does one more thing
  appends it (`ReplacedDone`), a call changes nothing (`PushedDone`), and a return
  changes nothing either, because what the frame has come to is all that the
  caller's schedule has in that place (`PoppedDone`, `CalledDone`).  This is where
  "parents before children", "a parent reached twice is read twice" and "a file
  that is read by another ends without a change" are decided.  The other half is
  that each operation of `Incrementals` and its entry in the book agree: for the
  walk of `config_changed`, that one pass over an ordered tree which it changes
  while it walks (`ExpandSeenBy`) comes to the result that the book states in one
  line (`Digested`).  At the end the schedule is complete (`AllDone`), and `EndInv`
  follows the values through the last three steps.  The recursions are functions on
  `0..n`; that they have the values their definitions say is by induction on a set
  of naturals (`CountedUp`, `RecursionEnds`).

`ConfigProtectProofs`, for all characters, words, masks, roots and paths:

* `LoopIsClosedForm`: `ClosedForm` is inductive.  Its core is `StackJoin`, that
  values stacked one after the other are their texts joined.  Every other module
  takes a value as `[wipe, del, add]` because of this.  `ProtectIsStacked` hands
  it to `ProtectSpec`.
* `NamesDecide`: `match_prefix` compares characters, `Within` names.  There is no
  induction over paths here; the proof looks at the *first position where two
  paths differ*, which exists because the positions are a finite set of
  naturals (`Ranked`, `Least`).  Up to it the names are the same; it is inside
  a name or at its end, and each case gives a name that the one has and the
  other has not.
  `FilenameParts` has what `g_build_filename` makes of a word, from which follow
  its names (`FilenameNames`) and that it has doubled slashes unless the word is
  `Plain` (`FilenameDoubled`): `//etc` stands for `/etc`, `/etc//x` for nothing
  that has no doubled slash itself, and `/` below the root `/` gives `//`.  What is
  asked may be any text: a relative path is covered by nothing, and behind the
  first of two slashes in a row nothing counts (`CoversUndoubled`).  One case is
  left out, and the property says so: where both a word and the path have slashes
  in a row that are not in front of the word's names, `match_prefix` compares the
  texts, and names say nothing.
* `ShownLeadsBack`: the names of a concatenation are the names of the parts if the
  parts meet at a slash.  The profile and its directory have been through
  `realpath`, so `RelativeLeadsBack` asks about canonical paths only.
* `OnlyWithinTheWord`: an action property; a new word changes nothing outside it.

`ProgramsProofs`, for all disks, commands, configurations, answers and outcomes
of a call:

* `StatusIsSound`: `ProgramsSpec` implements `ExitStatus`.  `StatusInv` is the
  contract of the label `ERR`: before it there is neither a verdict nor an
  error; behind it, the verdict is a failure exactly if there is an error to
  tell or it has been told, never both (`Decided`).  A step either leaves what
  is seen alone (`Undisturbed`), decides it (`Deciding`) or reports it
  (`Reporting`).  A fault that ends the process is allowed at any time.
* `RepositoriesAgree`: `RepoInv` says what `ListAndTableAgree` needs to be
  inductive, that a repository is in the table under its own name (so that the
  number of the table's pointers to it is 0 or 1, which gives the counts in
  closed form, `Counted`) and that objects are numbered by their creation, so
  that a new one is none of the old (`NewIsNew`).  Every step of the composition
  is a step of `Repositories` or leaves it alone (`ProgramsLoad`).
* `PullsInOrder`: `PullInv` adds that nothing has failed before the action stops.
* `OverlaysInOrder`: `FirstOfANameWins` is about the end of the loop over the
  words; `OrderInv` says it of the words that have been looked at, with the place
  of a word given by the number of kept words before it (`Earlier`), since the
  list grows at its end.
* `AnswersMatchTheDisk`: `PrintedInv` relates what has been printed to the
  parameters that have been looked at; `ListInv` makes the table complete.
* `ProcessTypeCorrect`: `MadeInv` (what has been made is a beginning of the plan,
  and what it needs has been made) and `CountersInv`.
* `ReportsAreWhole`: a line of the report is a record of its part and of the line
  of the file it is for, so that two lines of a file with one text are two, and
  nothing is assumed of `info_pkgs` and `info_vars`.  `ReportInv` has the order of
  the sections, which begins where the adjustments of the priorities end, and
  `ReportSoFar` says for every line of either file which lines of the report speak
  of it at each section: none before its turn, one after it (`LineAdded` is what a
  line more changes).  The variables that are not set get theirs at the end only,
  all on one.
* `AllIsReleased`, `NoOtherFaults`: `MemoryInv` gives each object its count by what
  the command has made and not yet given back (`Counts`), in every state without a
  fault.  The steps of the label release by name: the hard ones are the settings,
  whose end releases each repository for the list and for the table, and the
  vartree, whose tree has a count of its own only in the commands that made one;
  those are the commands `FaultsAreKnown` names, together with `get_repo_path`.

`VartreeProofs`, for all disks and any number of changes:

* `CacheIsFaithful`.  `ScanInv` relates the directory that is being read to what
  has been inserted: what stayed was there when it was opened, and what is whole
  now is in `ever`.  The content is in three places: an inserted package is whole
  when it is inserted, the end of the directory leaves out only what is gone, and
  `g_slist_insert_sorted` loses nothing (`InsertRange`).
* `OneReadForAllQueries`: `Vartree` implements `InstalledPackages`.  `ServiceInv`
  adds that tables are sorted (`TablesInv`) and that what is being read, or is
  still to be read, is not known (`UnknownInv`): a category is learned once.  The
  answer is built back to front from a descending list (`PrependedDescends`).
* `LazyOrNot`: `QuietInv` says what an undisturbed scan has seen so far, and which
  categories an eager start still has to read.  A query is refused, and the vartree
  not made, only where a directory cannot be opened or a package cannot be loaded
  (`Unreadable`).

`VersionsProofs`, for all versions, of any length, and any number of packages:

* `ComparisonIsAnOrder`: every part of the comparison is made a *row*, one result
  for each place, with the end of the shorter side as a value of its own, and
  the first place that is not 0 decides (`Leading`).  What holds of each cell
  then holds of the row: three results, turning round, and that two steps which
  do not go up lead to a third (`Chain`).  Components are the case with content:
  some pairs are compared as texts and others as numbers, which is a preorder
  only because an empty one, one with a leading zero and any other are three
  classes (`ComponentByClass`).
* `ComparisonIsTheOrder`: `Older` is defined on decimal fractions and on an end
  that is newer than `_rc`.  A fraction without its trailing zeroes, compared as
  a text, is in the order of the fractions padded to one length, compared as
  numbers (`FractionsOrdered`); the first digit that differs decides
  (`DigitsDecide`).  That `Number` is defined at all, and these facts, are by
  induction, on a *set* of naturals in place of a predicate (`SetInduction`).
* `ListStaysSorted`: `ListInv`, sorted between any two places, is inductive because
  the comparison is transitive.  `AtomsMatchAStretch` follows; for `~` the
  comparison is split into what is before the revision and the revision
  (`CmpSplits`).
* `TildeAndGlobDecide`: two globs that match each other have one text, and the text
  of a version can be read in one way only (`StrTells`): the major number, the
  minor ones, the letter, the suffixes and the revision each end at a character
  they cannot hold (`SplitPart`), and within the minor numbers and the suffixes the
  last `.` or `_` is where the last component begins (`FlattenTells`, by induction
  on the number of components).

What is assumed of the constants: in `Incrementals` that the names differ where
the code has different literals, that the order of names is one and puts ARCH before
USE, and that USE is not listed in USE_EXPAND.  In `Settings`, that the plain variables are four
different names and the values written to them values they may have
(`PlainAssumption`), that the places of files are files (`PlacesAssumption`), that a missing file and
an unreadable one are not taken for each other or for a text (`MarksAssumption`),
and that the disk holds statements about variables and a default refers to none
(`DiskAssumption`).  `MaxDepth` is any number (`DepthAssumption`).  In
`Repositories`, that no path is empty; in `Process` and `Cportageq`, that a command
line is a sequence of strings and that no variable of lower case is named like a
command (`LowerVarsAssumption`); in `Cmerge`, that the two files of `--info` are read
line by line (`InfoAssumption`).  In `Vartree`, that the constants for "absent",
"a plain file" and "not read" are none of the values they stand beside, and that
an entry without a version is no package, and that `/var/db/pkg` is none of its
categories (`ClosedAssumption`).  In `ConfigProtect`, that paths are
sequences of characters, that no word is empty (`cp_strings_pysplit` gives
none) and that roots are canonical.  In `Versions`, that digits are
digits and no component after a dot is empty, as the grammar has it
(`TextsAssumption`).
TLC evaluates all of them in the runs.

Only model-checked, and why:

* `Ends` and `Returns`: liveness under fairness.  Every invariant and every action
  property of a passing run is the statement of a theorem.

## Not modelled, and why

* The two grammars below the level of statements and versions, quoting and
  comments: characters, which the unit tests enumerate.
* The wording of messages and reports, and error codes: nothing depends on them.
* `--config-root`, which only chooses the disk, and what GLib makes of an option
  before `action_cb` sees it.
* Slots, subslots and repositories in `cp_atom_matches`: the grammar drops a
  subslot, so `atom_parser.y:791` is not reached.
* The counts of versions and of single packages: owned by one object each.
* Symbolic links; the files of a package beyond whether it can be loaded.
* `splint-include/`: declarations for a checker.

Assumed: USE is not itself listed in USE_EXPAND (`NamesAssumption`; the code would
then modify a tree while walking it).

## Plan

Done, in this order: values, incrementals, settings, vartree, lifetimes,
repositories, versions, atom factory, EAPI; configuration protection; the two
programs and their composition with the repositories; the theorems listed above.

Next:

1. `AtomMatch`: slot and repository on top of `Versions`.
2. The answers of `Programs` from `Vartree` in place of a free choice.
