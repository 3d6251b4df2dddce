--------------------------- MODULE ConfigProtect ---------------------------
(***************************************************************************)
(* CONFIG_PROTECT, stacked word by word like every incremental variable,   *)
(* and the question which paths it protects (configprotect.c), asked by    *)
(* cportageq is_protected and by whoever installs files.                   *)
(***************************************************************************)
EXTENDS StackItems, Paths

CONSTANTS
    Character,  \* what paths and words are made of
    Roots,      \* canonical configuration roots
    Masks,      \* what CONFIG_PROTECT_MASK may be
    Asked       \* paths that are asked for, as cportageq is_protected is given them

\* A text is a sequence of characters, and cp_strings_pysplit has no empty words.
Text == Seq(Character)

TextsAssumption ==
    /\ Slash \in Character
    /\ Word \subseteq Text \ {<<>>}
    /\ Masks \subseteq SUBSET (Text \ {<<>>})
    /\ Roots \subseteq Text
    /\ Asked \subseteq Text
ASSUME TextsAssumption

Doubled(path) == \E n \in 2..Len(path) : path[n - 1] = Slash /\ path[n] = Slash

\* What realpath returns, by "." and ".." nothing but names (path.c:29-44).
Canonical(path) ==
    /\ StartsWithSlash(path)
    /\ ~Doubled(path)
    /\ Last(path) = Slash => path = RootDirectory

CanonicalAssumption == \A path \in Roots : Canonical(path)
ASSUME CanonicalAssumption

VARIABLES
    root,       \* cp_settings_config_root
    masked      \* the words of CONFIG_PROTECT_MASK

protect == <<root, masked>>

ProtectInit == Init /\ root \in Roots /\ masked \in Masks
ProtectNext == Next /\ UNCHANGED protect
ProtectSpec == ProtectInit /\ [][ProtectNext]_<<vars, protect>>

\* BuildPathList with a bug: the words are taken as they are.
PathListOutsideRoot(words) == {BuildFilename(RootDirectory, w) : w \in words}

\* build_path_list.
BuildPathList(words) == {BuildFilename(root, w) : w \in words}

Covers(item, path) == item = path \/ IsDescendant(item, path)

\* IsProtected with a bug: the first list that has the path decides.
IsProtectedFirst(path) == \E item \in BuildPathList(tree) : Covers(item, path)

\* cp_config_protect_is_protected.
IsProtected(path) ==
    /\ \A item \in BuildPathList(masked) : ~Covers(item, path)
    /\ \E item \in BuildPathList(tree) : Covers(item, path)

-----------------------------------------------------------------------------
\* Where a name begins: behind a slash, or at the front.
NameStarts(path) ==
    {n \in DOMAIN path : path[n] # Slash /\ (n = 1 \/ path[n - 1] = Slash)}

\* The name that begins at n: all there is up to the next slash.
NameRun(path, n) == {m \in DOMAIN path : n <= m /\ \A k \in n..m : path[k] # Slash}
NameAt(path, n) == SubSeq(path, n, n + Cardinality(NameRun(path, n)) - 1)

\* The how manyeth name it is that begins at n.
NameRank(path) ==
    [n \in NameStarts(path) |-> Cardinality({m \in NameStarts(path) : m <= n})]

\* A path by its names.
Names(path) ==
    [k \in 1..Cardinality(NameStarts(path)) |->
        NameAt(path, CHOOSE n \in NameStarts(path) : NameRank(path)[n] = k)]

\* The paths a word stands for: those at and below the root's own, except that
\* one with a slash at its end does not stand for the directory itself.
Within(word, path) ==
    LET names == Names(root) \o Names(word)
    IN /\ IsPrefix(names, Names(path))
       /\ names = Names(path) => Last(word) # Slash \/ Last(path) = Slash

\* A word that stands for paths without a doubled slash: one with names, and
\* with doubled slashes in front of them at most; or one slash that goes behind
\* the name of a root.
Plain(word) ==
    IF \A n \in DOMAIN word : word[n] = Slash
    THEN word = RootDirectory /\ root # RootDirectory
    ELSE \A n \in 2..Len(word) :
            word[n - 1] = Slash /\ word[n] = Slash => \A m \in 1..n : word[m] = Slash

\* What there is of a path up to the first of two slashes in a row.
Undoubled(path) ==
    LET doubled == {n \in 2..Len(path) : path[n - 1] = Slash /\ path[n] = Slash}
    IN IF doubled = {} THEN path ELSE SubSeq(path, 1, Min(doubled) - 1)

\* Names decide what is protected, and not texts: /etcetera is not below /etc,
\* a mask wins over every word, the words count below the root only, whatever
\* slashes a word has in front, has not or has at its end.  What is asked is
\* taken as it is given: a relative path is never protected, and behind two
\* slashes in a row no name counts.  Where both a word and the path have such
\* slashes, texts alone decide (configprotect.c:31-45, 73-90).
ProtectionByNames ==
    \A path \in {p \in Asked : Doubled(p) => \A w \in tree \cup masked : Plain(w)} :
        IsProtected(path) <=>
            /\ StartsWithSlash(path)
            /\ \E w \in tree : Plain(w) /\ Within(w, Undoubled(path))
            /\ ~\E w \in masked : Plain(w) /\ Within(w, Undoubled(path))

\* What cp_path_get_relative returns leads from the one path to the other, and
\* it returns something just for the paths below: the profile that cmerge
\* --info names is the one in use (path.c:62-81, info_action.c:32-46).
RelativeLeadsBack ==
    \A p \in {item \in BuildPathList(tree) : Canonical(item)},
       q \in {path \in Asked : Canonical(path)} :
        LET below == IsPrefix(Names(p), Names(q)) /\ Len(Names(p)) < Len(Names(q))
            shown == BuildProfileStr(p, q)
        IN /\ below => Names(p) \o Names(shown) = Names(q) /\ shown[1] # Slash
           /\ ~below /\ p # q => shown = <<"!">> \o q

\* Where a profile or make.conf adds or removes a word of CONFIG_PROTECT, only
\* paths within that word change; "-*" leaves nothing protected.
WordsProtectTheirOwn ==
    [][\A i \in Item, path \in Asked :
         TakeItem(i) =>
            IF i.op = "wipe" THEN ~IsProtected(path)'
            ELSE IsProtected(path) # IsProtected(path)' => Within(i.word, path)]_<<vars, protect>>
=============================================================================
