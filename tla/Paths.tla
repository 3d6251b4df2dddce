------------------------------- MODULE Paths -------------------------------
(***************************************************************************)
(* The tests of path.c on the texts of paths.  A path is the sequence of   *)
(* its characters, for what can go wrong is a name that begins like        *)
(* another and a slash at the end.                                         *)
(***************************************************************************)
EXTENDS Naturals, SequencesExt

Slash == "/"
RootDirectory == <<Slash>>

\* match_prefix: what remains of the path behind the prefix, a slash at the end
\* of the prefix included; or nothing.
MatchPrefix(path, prefix) ==
    LET n == IF prefix # <<>> /\ Last(prefix) = Slash THEN Len(prefix) - 1 ELSE Len(prefix)
    IN IF IsPrefix(prefix, path) THEN {SubSeq(path, n + 1, Len(path))} ELSE {}

StartsWithSlash(text) == text # <<>> /\ Head(text) = Slash

\* GetRelative with a bug: what remains need not begin with a slash.
GetRelativeByText(parent, descendant) == {Tail(r) : r \in MatchPrefix(descendant, parent) \ {<<>>}}

\* cp_path_get_relative: NULL is the empty set.
GetRelative(parent, descendant) ==
    {Tail(r) : r \in {s \in MatchPrefix(descendant, parent) : StartsWithSlash(s)}}

\* cp_path_is_descendant.
IsDescendant(parent, descendant) ==
    \E r \in MatchPrefix(descendant, parent) : StartsWithSlash(r)

\* g_build_filename: one slash between the two, however many the second begins
\* with, and those behind its names as they are; an item of nothing but slashes
\* goes behind the directory as it is.
BuildFilename(directory, item) ==
    LET named == {n \in DOMAIN item : item[n] # Slash}
    IN IF named = {} THEN directory \o item
       ELSE (IF directory = RootDirectory THEN directory ELSE directory \o RootDirectory)
              \o SubSeq(item, Min(named), Len(item))

\* build_profile_str of cmerge --info: the profile below PORTDIR/profiles, or
\* its path behind a "!".
BuildProfileStr(profiles, profile) ==
    LET relative == GetRelative(profiles, profile)
    IN IF relative = {} THEN <<"!">> \o profile ELSE CHOOSE r \in relative : TRUE
=============================================================================
