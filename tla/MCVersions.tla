----------------------------- MODULE MCVersions -----------------------------
(***************************************************************************)
(* Versions that differ in their components (leading and trailing zeroes,  *)
(* no zero, one more component) and versions that differ behind them.      *)
(***************************************************************************)
EXTENDS VersionsProperties

V(minor, letter, suffixes, revision) ==
    [major |-> <<1>>, minor |-> minor, letter |-> letter, suffixes |-> suffixes,
     revision |-> revision]
S(type, value) == [type |-> type, value |-> value]

Components == {<<0>>, <<0, 0>>, <<0, 1>>, <<0, 1, 0>>, <<1>>, <<1, 0>>, <<2>>}
Minors == {<<>>} \cup {<<c>> : c \in Components} \cup {<<<<1>>, c>> : c \in Components}
            \cup {<<<<0>>, c>> : c \in Components}
Suffixes ==
    {<<>>, <<S("p", <<>>)>>, <<S("p", <<1>>)>>, <<S("p", <<0>>)>>, <<S("pre", <<2>>)>>,
     <<S("pre", <<1, 0>>)>>, <<S("pre", <<2>>), S("p", <<>>)>>,
     <<S("pre", <<2>>), S("alpha", <<>>)>>}

MCTexts ==
    {V(m, 0, <<>>, <<>>) : m \in Minors}
      \cup {V(<<>>, l, s, <<>>) : l \in {0, 2}, s \in Suffixes}
      \cup {V(<<<<1>>>>, 0, s, r) : s \in {<<>>, <<S("pre", <<2>>)>>},
                                   r \in {<<0>>, <<1>>, <<2>>, <<1, 0>>}}
      \cup {[V(<<>>, 0, <<>>, <<>>) EXCEPT !.major = m] : m \in {<<0, 1>>, <<2>>, <<1, 1>>}}
=============================================================================
