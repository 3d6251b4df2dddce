------------------------- MODULE VersionsProperties -------------------------
(***************************************************************************)
(* The order of versions as package managers define it, independently of   *)
(* the comparison in the code, and what lists and atoms make of it.        *)
(***************************************************************************)
EXTENDS Versions

Longest(f, s) == IF Len(f) > Len(s) THEN Len(f) ELSE Len(s)
At(f, i, default) == IF i \in DOMAIN f THEN f[i] ELSE default

\* One is less than the other at the first place where they are not the same.
Lexicographic(Less(_, _), Same(_, _), f, s, default) ==
    \E i \in 1..Longest(f, s) :
        /\ Less(At(f, i, default), At(s, i, default))
        /\ \A j \in 1..(i - 1) : Same(At(f, j, default), At(s, j, default))

\* A component with a leading zero is a decimal fraction, smaller than any that
\* has none; the end is smaller than both.
End == <<-1>>
Fraction(d, places) == Number([i \in 1..places |-> At(d, i, 0)])
ComponentLess(f, s) ==
    CASE s = End -> FALSE
      [] s # End /\ f = End -> TRUE
      [] f # End /\ s # End ->
           IF f[1] = 0 /\ s[1] = 0
           THEN Fraction(f, Longest(f, s)) < Fraction(s, Longest(f, s))
           ELSE f[1] = 0 \/ (s[1] # 0 /\ Number(f) < Number(s))
ComponentSame(f, s) == ~ComponentLess(f, s) /\ ~ComponentLess(s, f)

\* The end of the suffixes is newer than _rc and older than _p.
NoSuffix == [type |-> "none", value |-> <<>>]
Order == <<"alpha", "beta", "pre", "rc", "none", "p">>
Key(s) == <<CHOOSE n \in DOMAIN Order : Order[n] = s.type, Number(s.value)>>
PairLess(f, s) ==
    \/ Key(f)[1] < Key(s)[1]
    \/ Key(f)[1] = Key(s)[1] /\ Key(f)[2] < Key(s)[2]
PairSame(f, s) == Key(f) = Key(s)

Older(v, w) ==
    LET Minor(x, y) == Lexicographic(ComponentLess, ComponentSame, x.minor, y.minor, End)
        Suffix(x, y) == Lexicographic(PairLess, PairSame, x.suffixes, y.suffixes, NoSuffix)
        less == <<Number(v.major) < Number(w.major), Minor(v, w), v.letter < w.letter,
                  Suffix(v, w), Number(v.revision) < Number(w.revision)>>
        more == <<Number(v.major) > Number(w.major), Minor(w, v), v.letter > w.letter,
                  Suffix(w, v), Number(v.revision) > Number(w.revision)>>
    IN \E i \in 1..5 : less[i] /\ \A j \in 1..(i - 1) : ~more[j]

Pairs == {<<list[i], list[j]>> : i, j \in DOMAIN list}

-----------------------------------------------------------------------------
\* cp_version_cmp is the order of versions: negative, zero and positive for an
\* older, an equal and a newer one, whichever of the two comes first
\* (atom_parser.y:141-156, 546-635).
CmpIsTheOrder ==
    \A p \in Pairs : Cmp(p[1], p[2]) = IF Older(p[1], p[2]) THEN -1
                                       ELSE IF Older(p[2], p[1]) THEN 1 ELSE 0

\* The list is sorted throughout, not only between neighbours, whatever order
\* the directory was read in: the comparison is transitive (vartree.c:120).
ListIsSorted ==
    \A i, j \in DOMAIN list : i < j => ~Older(list[j], list[i])

\* What an atom matches, unless it is a glob, is a stretch of the sorted list:
\* a version between two that match does too (atom_parser.y:803-831).
MatchesAStretch ==
    \A op \in Ops \ {"=*"}, v \in {list[n] : n \in DOMAIN list}, i, j, k \in DOMAIN list :
        i < j /\ j < k /\ VersionMatches(op, v, list[i]) /\ VersionMatches(op, v, list[k])
            => VersionMatches(op, v, list[j])

\* ~v matches what has the version of v up to the revision and is not older
\* than v; two packages each of which a glob for the other matches are the same
\* version, though the glob compares texts and the order does not
\* (atom_parser.y:642-656).
TildeAndGlob ==
    \A p \in Pairs :
        LET v == p[1]
            w == p[2]
            Upstream(x) == [x EXCEPT !.revision = <<>>]
            Same(x, y) == ~Older(x, y) /\ ~Older(y, x)
        IN /\ TildeMatch(v, w) <=> Same(Upstream(v), Upstream(w)) /\ ~Older(w, v)
           /\ GlobMatch(v, w) /\ GlobMatch(w, v) => Same(v, w)
=============================================================================
