------------------------------ MODULE Versions ------------------------------
(***************************************************************************)
(* Versions (atom_parser.y): what cp_version_new keeps of a version, how   *)
(* two are compared, which of them an atom matches; and the sorted list of *)
(* the packages of one name that vartree.c builds with the comparison.     *)
(*                                                                         *)
(* A numeral is the sequence of its digits; <<>> is one that is not there. *)
(***************************************************************************)
EXTENDS Integers, Sequences

CONSTANTS
    Texts,      \* the versions of the packages that may be installed
    MaxList     \* bound: packages of one name

Ops == {"<", "<=", "=", ">=", ">", "~", "=*"}
SuffixTypes == <<"alpha", "beta", "pre", "rc", "p">>
TypeRank(s) == CHOOSE n \in DOMAIN SuffixTypes : SuffixTypes[n] = s.type

Numeral == Seq(0..9)
Version ==
    [major: Numeral, minor: Seq(Numeral \ {<<>>}), letter: 0..26,
     suffixes: Seq([type: {SuffixTypes[n] : n \in DOMAIN SuffixTypes}, value: Numeral]),
     revision: Numeral]

ASSUME TextsAssumption == Texts \subseteq Version /\ MaxList \in Nat

Sign(n) == CASE n < 0 -> -1 [] n = 0 -> 0 [] n > 0 -> 1
First(S) == CHOOSE i \in S : \A j \in S : i <= j

\* The value of a numeral; mpz_init_set_str leaves 0 for "".
Number(d) ==
    LET n[i \in 0..Len(d)] == IF i = 0 THEN 0 ELSE 10 * n[i - 1] + d[i] IN n[Len(d)]

NumCmp(f, s) == Sign(Number(f) - Number(s))

StrCmp(f, s) ==
    LET D == {i \in DOMAIN f \cap DOMAIN s : f[i] # s[i]}
    IN IF D = {} THEN Sign(Len(f) - Len(s)) ELSE Sign(f[First(D)] - s[First(D)])

\* NormalizeMinor with a bug: the components stay as they are.
NormalizeNothing(d) == d

\* normalize_minor: trailing zeroes of a component that starts with one.
NormalizeMinor(d) ==
    IF d[1] # 0 THEN d
    ELSE SubSeq(d, 1, CHOOSE n \in 0..Len(d) :
                        /\ \A i \in DOMAIN d : i > n => d[i] = 0
                        /\ n = 0 \/ d[n] # 0)

LeadsWithZero(d) == d # <<>> /\ d[1] = 0

ComponentCmp(f, s) ==
    IF LeadsWithZero(f) \/ LeadsWithZero(s) THEN StrCmp(f, s) ELSE NumCmp(f, s)

\* The components, as cp_version_alloc has left them.
MinorCmp(first, second) ==
    LET f(i) == NormalizeMinor(first[i])
        s(i) == NormalizeMinor(second[i])
        D == {i \in DOMAIN first \cap DOMAIN second : ComponentCmp(f(i), s(i)) # 0}
    IN IF D = {} THEN Sign(Len(first) - Len(second))
       ELSE ComponentCmp(f(First(D)), s(First(D)))

SuffixCmp(f, s) ==
    IF f.type # s.type THEN Sign(TypeRank(f) - TypeRank(s)) ELSE NumCmp(f.value, s.value)

\* A version that goes on with _p is newer, with any other suffix older.
SuffixesCmp(f, s) ==
    LET D == {i \in DOMAIN f \cap DOMAIN s : SuffixCmp(f[i], s[i]) # 0} IN
    CASE D # {} -> SuffixCmp(f[First(D)], s[First(D)])
      [] D = {} /\ Len(f) = Len(s) -> 0
      [] D = {} /\ Len(f) < Len(s) -> IF s[Len(f) + 1].type = "p" THEN -1 ELSE 1
      [] D = {} /\ Len(f) > Len(s) -> IF f[Len(s) + 1].type = "p" THEN 1 ELSE -1

\* cp_version_cmp_internal: the first part that decides.
CmpInternal(v, w, checkRevision) ==
    LET parts == <<NumCmp(v.major, w.major), MinorCmp(v.minor, w.minor),
                   Sign(v.letter - w.letter), SuffixesCmp(v.suffixes, w.suffixes),
                   IF checkRevision THEN NumCmp(v.revision, w.revision) ELSE 0>>
        D == {i \in DOMAIN parts : parts[i] # 0}
    IN IF D = {} THEN 0 ELSE parts[First(D)]

Cmp(v, w) == CmpInternal(v, w, TRUE)

-----------------------------------------------------------------------------
\* TildeMatch with a bug: any revision, as Portage has it.
TildeAnyRevision(v, w) == CmpInternal(v, w, FALSE) = 0

TildeMatch(v, w) ==
    CmpInternal(v, w, FALSE) = 0 /\ NumCmp(v.revision, w.revision) <= 0

Letters == <<"a", "b", "c", "d", "e", "f", "g", "h", "i", "j", "k", "l", "m",
             "n", "o", "p", "q", "r", "s", "t", "u", "v", "w", "x", "y", "z">>
Digits == <<"0", "1", "2", "3", "4", "5", "6", "7", "8", "9">>
Written(d) == [i \in DOMAIN d |-> Digits[d[i] + 1]]
Spelling(type) ==
    CASE type = "alpha" -> <<"a", "l", "p", "h", "a">> [] type = "beta" -> <<"b", "e", "t", "a">>
      [] type = "pre" -> <<"p", "r", "e">> [] type = "rc" -> <<"r", "c">> [] type = "p" -> <<"p">>

Flatten(ss) ==
    LET all[n \in 0..Len(ss)] == IF n = 0 THEN <<>> ELSE all[n - 1] \o ss[n] IN all[Len(ss)]

\* The field str, character by character.
Str(v) ==
    Written(v.major)
      \o Flatten([i \in DOMAIN v.minor |-> <<".">> \o Written(v.minor[i])])
      \o (IF v.letter = 0 THEN <<>> ELSE <<Letters[v.letter]>>)
      \o Flatten([i \in DOMAIN v.suffixes |->
                    <<"_">> \o Spelling(v.suffixes[i].type) \o Written(v.suffixes[i].value)])
      \o (IF v.revision = <<>> THEN <<>> ELSE <<"-", "r">> \o Written(v.revision))

GlobMatch(v, w) ==
    Len(Str(v)) <= Len(Str(w)) /\ SubSeq(Str(w), 1, Len(Str(v))) = Str(v)

\* The versions w that an atom with the operator op and the version v matches:
\* the atom's version stands on the left.
VersionMatches(op, v, w) ==
    CASE op = "<"  -> Cmp(v, w) < 0
      [] op = "<=" -> Cmp(v, w) <= 0
      [] op = "="  -> Cmp(v, w) = 0
      [] op = ">=" -> Cmp(v, w) >= 0
      [] op = ">"  -> Cmp(v, w) > 0
      [] op = "~"  -> TildeMatch(v, w)
      [] op = "=*" -> GlobMatch(v, w)
-----------------------------------------------------------------------------
VARIABLE list       \* the packages of one name, by version

Init == list = <<>>

\* Position with a bug: the order of the directory.
PositionLast(v) == Len(list) + 1

\* Position with a bug: revisions do not count.
PositionOfUpstream(v) ==
    First({i \in DOMAIN list : CmpInternal(v, list[i], FALSE) <= 0} \cup {Len(list) + 1})

\* g_slist_insert_sorted puts the new one before the first that is not smaller.
Position(v) ==
    First({i \in DOMAIN list : Cmp(v, list[i]) <= 0} \cup {Len(list) + 1})

\* insert_package; a directory holds a name once.
Insert(v) ==
    /\ Len(list) < MaxList
    /\ \A i \in DOMAIN list : list[i] # v
    /\ list' = SubSeq(list, 1, Position(v) - 1) \o <<v>>
                 \o SubSeq(list, Position(v), Len(list))

Next == \E v \in Texts : Insert(v)

Spec == Init /\ [][Next]_list
=============================================================================
