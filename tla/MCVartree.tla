----------------------------- MODULE MCVartree -----------------------------
(***************************************************************************)
(* Two categories, one with packages, one that starts absent, a plain file *)
(* or empty, an entry whose name is not that of a category, and a          *)
(* directory that is closed at first: the first category's, or all's.      *)
(***************************************************************************)
EXTENDS Vartree

CONSTANT README     \* an entry that is no package

P(n, v) == [name |-> n, ver |-> v]
W(S) == [e \in S |-> "whole"]

MCDisks ==
    {[app |-> a, sys |-> s, tmp |-> W({})] :
        a \in {W({P("p", 1), P("p", 2), README}),
               [e \in {P("p", 1), P("q", 1)} |-> IF e.name = "q" THEN "partial" ELSE "whole"],
               Absent},
        s \in {PlainFile, Absent}}

MCClosed == {{}, {"app"}, {VdbPath}}
MCMatchings == {{1, 2}, {2}}
=============================================================================
