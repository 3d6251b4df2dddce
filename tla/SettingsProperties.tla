------------------------- MODULE SettingsProperties -------------------------
(***************************************************************************)
(* What cp_settings_new promises: the result of the load as a function of  *)
(* the files, computed without the program's control state, and the        *)
(* properties that compare the program with it.                            *)
(***************************************************************************)
EXTENDS Settings

CONSTANT MaxDepth   \* bound: the deepest nesting of `parent' and of `source'

\* A nesting has a depth.
ASSUME DepthAssumption == MaxDepth \in Nat

-----------------------------------------------------------------------------
\* Where make.profile leads: the link in etc, if there is one.
TopOf(d) ==
    CASE d.links["etc"] # Missing -> d.links["etc"]
      [] d.links["etc"] = Missing /\ d.links["portage"] = Missing -> NoProfile
      [] OTHER -> d.links["portage"]

Top == TopOf(fs)

\* What a load does one after the other: assignments, the ends of the files that
\* load_make_config reads, and the two files of flags of each profile.
Changed(stack) == [op |-> "changed", stack |-> stack]
Masked(v) == [op |-> "mask", val |-> v]
Forced(v) == [op |-> "force", val |-> v]

\* The assignments of the file f, where `inner' has those of the files it reads.
Assignments(d, f, inner) ==
    IF d.content[f] = Missing THEN <<>>
    ELSE FlattenSeq([i \in DOMAIN d.content[f].stmts |->
            LET s == d.content[f].stmts[i]
            IN IF s.op = "set" THEN <<s>> ELSE inner[s.file]])

Inlined(d) ==
    LET inlined[n \in 0..MaxDepth] ==
          [f \in Files |-> IF n = 0 THEN <<>> ELSE Assignments(d, f, inlined[n - 1])]
    IN inlined[MaxDepth]

Loaded(d, f, stack) ==
    IF d.content[f] = Missing THEN <<>> ELSE Inlined(d)[f] \o <<Changed(stack)>>

\* What the profile p is worth, where `above' has what its parents are: every
\* parent in the order of the file `parent', then the files of p itself.
Ancestry(d, p, above) ==
    LET lines == GetLines(d.parents[p])
    IN IF lines = NULL THEN <<>>
       ELSE FlattenSeq([i \in DOMAIN lines |-> above[lines[i]]])
              \o Loaded(d, MakeDefaults[p], TRUE)
              \o <<Masked(d.mask[p]), Forced(d.force[p])>>

Inherited(d) ==
    LET inherited[n \in 0..MaxDepth] ==
          [p \in Profiles |-> IF n = 0 THEN <<>> ELSE Ancestry(d, p, inherited[n - 1])]
    IN inherited[MaxDepth]

\* Nothing on the disk is nested deeper than MaxDepth: one more level of it
\* changes nothing.
Settled(d) ==
    /\ \A f \in Files : Inlined(d)[f] = Assignments(d, f, Inlined(d))
    /\ \A p \in Profiles : Inherited(d)[p] = Ancestry(d, p, Inherited(d))

\* The whole load: the global files or the one default that cp_settings_new takes
\* over, the profiles, the two make.conf.
Beginning(d) ==
    IF d.defaults = NULL THEN FlattenSeq([i \in DOMAIN Globals |-> Loaded(d, Globals[i], TRUE)])
    ELSE IF d.defaults = <<>> THEN <<>> ELSE <<d.defaults[1]>>

Schedule(d) ==
    Beginning(d) \o Inherited(d)[TopOf(d)]
      \o FlattenSeq([i \in DOMAIN Confs |-> Loaded(d, Confs[i], FALSE)])

\* What the variables are after some of it: their texts, the words of those that
\* stack, which those are, the flags of use.mask and use.force, and whether
\* make.conf has changed USE_EXPAND.
NoBook ==
    [text |-> [k \in Vars |-> NULL], words |-> [k \in Vars |-> {}],
     known |-> DefaultIncrementals, mask |-> {}, force |-> {}, late |-> FALSE]

OrEmpty(v) == IF v = NULL THEN Empty ELSE v

\* An assignment, after the text of the variable it refers to.
Assigned(b, s) ==
    [b EXCEPT !.text[s.var] =
        IF s.ref = NULL THEN s.val ELSE Join(OrEmpty(b.text[s.ref]), s.val)]

\* The end of a file: variables that USE_EXPAND names begin to stack when they
\* have a text, and the texts of all that stack turn into words, in make.conf
\* afresh for those of USE_EXPAND.
Digested(b, stack) ==
    LET names == Stack(b.words[UseExpand], OrEmpty(b.text[UseExpand]))
        known == b.known \cup {k \in names : b.text[k] # NULL}
        old(k) == IF ~stack /\ k \in names THEN {} ELSE b.words[k]
    IN [b EXCEPT
          !.text = [k \in Vars |-> IF k \in known THEN NULL ELSE b.text[k]],
          !.words = [k \in Vars |-> IF k \in known /\ b.text[k] # NULL
                                    THEN Stack(old(k), b.text[k]) ELSE b.words[k]],
          !.known = known,
          !.late = b.late \/ (~stack /\ b.text[UseExpand] # NULL)]

Entered(b, e) ==
    CASE e.op = "set" -> Assigned(b, e)
      [] e.op = "changed" -> Digested(b, e.stack)
      [] e.op = "mask" -> [b EXCEPT !.mask = Stack(b.mask, e.val)]
      [] e.op = "force" -> [b EXCEPT !.force = Stack(b.force, e.val)]

Book(events) ==
    LET book[n \in 0..Len(events)] ==
          IF n = 0 THEN NoBook ELSE Entered(book[n - 1], events[n])
    IN book[Len(events)]

\* USE after it: its own words and those of ARCH, the flags of the variables that
\* USE_EXPAND names, and use.force, without use.mask.
UseByTheBook(b) ==
    LET arch == IF Arch \in b.known THEN Concat(b.words[Arch]) ELSE OrEmpty(b.text[Arch])
        expanded == UNION {{ExpandFlag(k, w) : w \in b.words[k]} : k \in b.words[UseExpand]}
    IN (Stack(b.words[Use], arch) \cup expanded \cup b.force) \ b.mask

AfterFinish == phase \in {"finished", "mainRepo", "ready"}

\* The final USE is what the files say read in their order: profiles depth
\* first, parents before children, a parent reached twice read twice, then the
\* two make.conf; use.mask and use.force along the same order; a reference to
\* a variable that stacks sees what the same file has assigned and nothing older,
\* but for a default that the first file sees
\* (settings.c:168-246, 374-409, incrementals.c:277-337, 436-468).
UseIsByTheBook ==
    AfterFinish /\ Settled(fs) =>
        LET b == Book(Schedule(fs))
        IN ~b.late => incrementals[Use] = UseByTheBook(b)

\* A variable that is not incremental has the text of the last assignment in
\* reading order, a default only if there is none; PORTDIR and CBUILD are
\* derived only when no file sets them, PORTDIR ends canonical, and a file cannot
\* set ROOT
\* (settings.c:71-98, 411-424).
PlainLastWins ==
    phase = "ready" /\ Settled(fs) =>
        LET text == Book(Schedule(fs)).text
        IN /\ config[Portdir] = RealPath(IF text[Portdir] = NULL THEN Portage ELSE text[Portdir])
           /\ config[Cbuild] = IF text[Cbuild] = NULL THEN text[Chost] ELSE text[Cbuild]
           /\ config[RootDir] = ConfigRootDir
           /\ config[ConfigRoot] = ConfigRootDir

\* F are files without an error and hold every file they read.
SoundFiles(d, F) ==
    \A f \in F :
        /\ d.content[f] # Missing
        /\ d.content[f].sound
        /\ \A i \in DOMAIN d.content[f].stmts :
              d.content[f].stmts[i].op = "source" => d.content[f].stmts[i].file \in F

\* A file that need not be there.
Loadable(d, f, F) == d.content[f] = Missing \/ f \in F

\* S are profiles without an error and hold all their parents.
SoundProfiles(d, S, F) ==
    \A p \in S :
        /\ d.eapi[p] \in {Missing} \cup {EapiTexts[j] : j \in DOMAIN EapiTexts}
        /\ GetLines(d.parents[p]) # NULL
        /\ \A i \in DOMAIN GetLines(d.parents[p]) : GetLines(d.parents[p])[i] \in S
        /\ Unreadable \notin {d.mask[p], d.force[p]}
        /\ Loadable(d, MakeDefaults[p], F)

\* S and F hold everything the load of the disk d may come to.
Flawless(d, S, F) ==
    /\ SoundProfiles(d, S, F)
    /\ SoundFiles(d, F)
    /\ d.defaults = NULL => \A i \in DOMAIN Globals : Loadable(d, Globals[i], F)
    /\ \A i \in DOMAIN Confs : Loadable(d, Confs[i], F)

NothingWrong ==
    /\ fs.rootOk /\ fs.portdirOk
    /\ \E S \in SUBSET Profiles, F \in SUBSET Files : Top \in S /\ Flawless(fs, S, F)

\* An error anywhere in the tree of profiles and sourced files fails the whole
\* load, and nothing else does: no error is dropped on the way up the stack
\* (settings.c:168-246, shell_parser.y:85-111).
ErrorsAreReported ==
    /\ phase = "ready" => NothingWrong
    /\ phase = "failed" => ~NothingWrong

\* Without a cycle of profiles or of sourced files cp_settings_new returns.
Returns == <>(phase \in {"ready", "failed"})

\* shellconfig.h:38 and settings.c:106: "if %TRUE, source statements are
\* handled", so that one in a file read with allow_source = FALSE is not.
SourceOnlyWhereAllowed == Len(reading) > 1 => phase = "confs"
=============================================================================
