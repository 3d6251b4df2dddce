-------------------------- MODULE MCConfigProtect --------------------------
(***************************************************************************)
(* Names one of which begins like the other, words with and without         *)
(* slashes in front, doubled and at the end, two roots, and paths as they   *)
(* may be asked for: canonical, relative, with slashes doubled or at the    *)
(* end.                                                                    *)
(***************************************************************************)
EXTENDS ConfigProtect

e == <<"/", "e">>
ex == <<"/", "e", "x">>
r == <<"/", "r">>
below(path) == path \o <<"/", "x">>

MCCharacter == {"/", "e", "x", "r"}
MCWord == {e, ex \o <<"/">>, <<"e", "/", "x">>}
MCMasks ==
    {{}, {below(e)}, {e \o <<"/">>}, {<<"/">> \o e}, {e \o below(<<"/">>)},
     {ex, RootDirectory}, {RootDirectory \o RootDirectory}}
MCRoots == {RootDirectory, r}
MCCanonical ==
    {RootDirectory, r} \cup UNION {{p, below(p), r \o p, r \o below(p)} : p \in {e, ex, below(e)}}
MCGiven ==
    {<<"e">>, <<"e", "/", "x">>, RootDirectory \o e, r \o <<"/">>,
     below(e) \o <<"/">>, below(r \o e) \o <<"/", "/", "x">>,
     below(e \o <<"/">>), r \o below(e \o <<"/">>), r \o <<"/">> \o e}
MCAsked == MCCanonical \cup MCGiven
=============================================================================
