----------------------------- MODULE MCSettings -----------------------------
(***************************************************************************)
(* A small disk: a profile with up to two others above it, one of which    *)
(* may be reached twice, one file of globals, two make.conf and a file     *)
(* they may read; every combination of the contents below, and one that is *)
(* complete with each single fault.                                        *)
(***************************************************************************)
EXTENDS SettingsProperties

CONSTANTS
    MCDefaultsArgument,     \* the values of the argument `defaults'
    MCSourcing              \* files outside make.conf that may read another

Names == <<"ARCH", "CBUILD", "CHOST", "CPORTAGE_USE_NO_EXPAND", "FOO", "PORTAGE_CONFIGROOT",
           "PORTDIR", "ROOT", "USE", "USE_EXPAND", "ZED">>

MCVars == {Names[i] : i \in DOMAIN Names}
MCRank == [k \in MCVars |-> CHOOSE i \in DOMAIN Names : Names[i] = k]
MCExpandNames == {"FOO", "ZED"}
MCPlain == {"CBUILD", "PORTAGE_CONFIGROOT", "PORTDIR", "ROOT"}
MCDefaultIncrementals == {"USE", "USE_EXPAND"}
MCWords == {"a", "b", "x", "y"}
MCExpandFlag(k, w) ==
    (CASE k = "FOO" -> "foo" [] k = "ZED" -> "zed" [] OTHER -> k) \o "_" \o w

Add(w) == Concat({w})
Del(w) == [Empty EXCEPT !.del = {w}]
Wipe == [Empty EXCEPT !.wipe = TRUE]

\* What a file writes into USE, and that after what it wrote before.
UseTexts ==
    {Empty, Add("a"), Add("b"), Del("a"), Wipe, Add("foo_x"), Del("foo_x")}

MCInputs ==
    [k \in MCVars |->
        CASE k = "USE"        -> {Join(v, Concat(S)) : v \in UseTexts, S \in SUBSET {"a", "b"}}
          [] k = "USE_EXPAND" -> {Concat(MCExpandNames), Del("FOO")}
          [] k \in MCExpandNames -> {Add("x"), Del("x"), Add("y")}
          [] k \in {"CBUILD", "CHOST"} -> {Concat(S) : S \in SUBSET {"a", "b"}}
          [] OTHER            -> {Add("a"), Add("b"), Add("x")}]

MCPortage == Add("b")
MCConfigRootDir == Add("a")
MCRealPath(d) == IF d = Add("a") THEN Add("x") ELSE d

Set(k, v) == [op |-> "set", var |-> k, ref |-> NULL, val |-> v]
Refer(k, l, v) == [op |-> "set", var |-> k, ref |-> l, val |-> v]
More(k, v) == Refer(k, k, v)
Source(f) == [op |-> "source", file |-> f]
Sound(s) == [stmts |-> s, sound |-> TRUE]

MCProfiles == {"base", "extra", "root", "none"}
MCMakeDefaults == [p \in MCProfiles |-> p]
MCGlobals == <<"globals">>
MCConfs == <<"makeConf", "portageMakeConf">>
MCFiles == MCProfiles \cup {"globals", "makeConf", "portageMakeConf", "local"}

ParentLists ==
    {[base |-> <<>>, extra |-> <<>>, root |-> r, none |-> <<>>] : r \in {<<>>, <<"base">>}}
      \cup {[base |-> <<>>, extra |-> <<"base">>, root |-> r, none |-> <<>>] :
               r \in {<<"base", "extra">>, <<"extra", Blank, "base">>}}

ExpandAll == Set("USE_EXPAND", Concat(MCExpandNames))
BaseStmts == <<Set("USE", Add("a")), Set("FOO", Add("x")), Set("PORTDIR", Add("a"))>>

\* USE_EXPAND comes from the globals, or from the first profile.
GlobalsAndBase ==
    {<<Missing, Sound(<<ExpandAll>> \o BaseStmts)>>,
     <<Sound(<<ExpandAll, Set("CHOST", Add("b"))>>), Sound(BaseStmts)>>}

RootContents ==
    {Missing,
     Sound(<<Set("USE", Add("b")), Set("FOO", Add("y")), Refer("CBUILD", "CHOST", Add("a"))>>),
     Sound(<<Set("USE_EXPAND", Del("FOO")), Set("FOO", Del("x"))>>)}

\* make.conf may read the file local between two assignments.
MakeConfContents ==
    {Missing,
     Sound(<<Set("USE", Wipe), Set("FOO", Add("y"))>>),
     Sound(<<Set("USE", Del("a")), Source("local"), More("USE", Add("b"))>>)}

PortageConfContents ==
    {Missing, Sound(<<More("USE", Add("a")), Set("ROOT", Add("a")), Set("ARCH", Add("b")),
                      More("CHOST", Add("a"))>>)}

LocalContents == {Sound(<<Set("USE", Add("a")), Set("FOO", Del("x"))>>), Missing}

Contents ==
    {[globals |-> gb[1], base |-> gb[2],
      extra |-> Sound(<<Set("USE", Del("a")), Set("ZED", Add("x"))>>),
      root |-> r, none |-> Missing, makeConf |-> m, portageMakeConf |-> c, local |-> l] :
       gb \in GlobalsAndBase, r \in RootContents, m \in MakeConfContents,
       c \in PortageConfContents, l \in LocalContents}

Lists == {[p \in MCProfiles |-> Empty],
          [base |-> Add("foo_x"), extra |-> Add("b"), root |-> Del("foo_x"), none |-> Empty]}

Links(etc, portage) == [etc |-> etc, portage |-> portage]

AnyDisk(contents, parents, masks, forces, defaults) ==
    [content: contents, parents: parents, links: {Links("root", Missing)},
     eapi: {[p \in MCProfiles |-> IF p = "base" THEN "5" ELSE Missing]},
     mask: masks, force: forces, rootOk: {TRUE}, portdirOk: {TRUE},
     defaults: defaults]

\* A disk on which every kind of file is there.
Complete ==
    CHOOSE d \in AnyDisk(Contents, ParentLists, Lists, Lists, {NULL}) :
        /\ d.parents["root"] = <<"extra", Blank, "base">>
        /\ \A f \in MCFiles \ {"none"} : d.content[f] # Missing
        /\ \E i \in DOMAIN d.content["makeConf"].stmts :
              d.content["makeConf"].stmts[i].op = "source"

\* What can go wrong on it, each alone (the eapi "0" goes well).
Faulty ==
    {[Complete EXCEPT !.rootOk = FALSE], [Complete EXCEPT !.portdirOk = FALSE],
     [Complete EXCEPT !.content["local"] = Missing]}
      \cup {[Complete EXCEPT !.eapi[p] = e] :
                p \in MCProfiles \ {"none"}, e \in {"6", "0", Unreadable}}
      \cup {[Complete EXCEPT !.parents[p] = Unreadable] : p \in MCProfiles \ {"none"}}
      \cup {[Complete EXCEPT !.mask[p] = Unreadable] : p \in MCProfiles \ {"none"}}
      \cup {[Complete EXCEPT !.force[p] = Unreadable] : p \in MCProfiles \ {"none"}}
      \cup {[Complete EXCEPT !.content[f].sound = FALSE] : f \in MCFiles \ {"none"}}

\* make.profile elsewhere, in two places, or nowhere; a parent that is not there.
Linked ==
    {[Complete EXCEPT !.parents["base"] = <<"none">>]} \cup
    {[Complete EXCEPT !.links = l] :
        l \in {Links(Missing, "root"), Links("base", "root"), Links(Missing, Missing)}}

\* A statement that reads a file, where settings.c does not allow it.
Disallowed ==
    {[Complete EXCEPT !.content[f].stmts = <<Source("local")>> \o @] : f \in MCSourcing}

\* A default of an incremental variable, which the first file that is read
\* replaces, adds to, or leaves.
Defaulted ==
    {[Complete EXCEPT !.defaults = <<Set("USE", Add("b"))>>,
                      !.content["base"].stmts = <<ExpandAll, Set("FOO", Add("x"))>> \o s] :
        s \in {<<>>, <<Set("USE", Add("a"))>>, <<More("USE", Add("a"))>>}}

\* make.conf names a variable again that a profile has taken out of USE_EXPAND.
NamedLate ==
    {[Complete EXCEPT !.content["root"].stmts = <<Set("USE_EXPAND", Del("FOO"))>>,
                      !.content["makeConf"].stmts = <<ExpandAll, Set("FOO", Add("y"))>>]}

MCFileSystems ==
    AnyDisk(Contents, ParentLists, Lists, Lists, {NULL})
      \cup Disallowed
      \cup Defaulted
      \cup {[Complete EXCEPT !.defaults = d] : d \in MCDefaultsArgument}
      \cup Faulty
      \cup Linked
      \cup NamedLate

\* The argument of the unit tests, empty or with the one entry that arrives.
OneDefault == {<<>>, <<Set("PORTDIR", Add("b"))>>}
=============================================================================
