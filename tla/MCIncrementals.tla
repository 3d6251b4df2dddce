--------------------------- MODULE MCIncrementals ---------------------------
(***************************************************************************)
(* Small instances of Incrementals: one USE_EXPAND variable that sorts     *)
(* before USE, one that sorts after it, or two of which one's name is a    *)
(* prefix of the other's.                                                  *)
(***************************************************************************)
EXTENDS Incrementals, Sequences

\* The names in the order of strcmp.
Names == <<"ARCH", "CPORTAGE_USE_NO_EXPAND", "FOO", "FOO_BAR", "PORTDIR",
           "USE", "USE_EXPAND", "ZED">>

CONSTANTS
    MCExpandNames,  \* the USE_EXPAND variables of the instance
    MCFlag          \* the flag that USE, use.mask and use.force are about

MCVars == {Names[i] : i \in {1, 2, 5, 6, 7}} \cup MCExpandNames
MCRank == [k \in MCVars |-> CHOOSE i \in DOMAIN Names : Names[i] = k]
MCDefaults == {"USE", "USE_EXPAND"}
MCPlain == {"PORTDIR"}
MCWords == {"a", "x", "bar_x"}

LowerCase(k) ==
    CASE k = "FOO" -> "foo" [] k = "FOO_BAR" -> "foo_bar" [] k = "ZED" -> "zed"
      [] OTHER -> k

MCExpandFlag(k, w) == LowerCase(k) \o "_" \o w

Add(w) == Concat({w})
Del(w) == [Empty EXCEPT !.del = {w}]

\* What files assign: an addition, a removal or nothing; use.mask and use.force
\* hold the same lines as USE.
MCInputs ==
    [k \in MCVars |->
        CASE k = "USE"        -> {Add(MCFlag)}
          [] k = "USE_EXPAND" -> {Concat(MCExpandNames), Add("ZED"), Del("FOO")}
          [] k = "CPORTAGE_USE_NO_EXPAND" -> {}
          [] k = "FOO"        -> {Add("x"), Empty}
          [] k \in MCExpandNames -> {Add("x")}
          [] OTHER            -> {Add("a")}]
=============================================================================
