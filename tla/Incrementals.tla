---------------------------- MODULE Incrementals ----------------------------
(***************************************************************************)
(* incrementals.c: the variables whose values stack over the configuration *)
(* files, and the final pass that turns them into USE.                     *)
(*                                                                         *)
(* The component shares the table `config' with the settings that own it.  *)
(* Whoever reads a configuration file assigns to config; ConfigChanged     *)
(* then moves the values of the incremental variables out of config, and   *)
(* ConfigFinished, called once, writes the results back.  This module lets *)
(* the reader assign anything and call the operations in any number and    *)
(* order, so that what holds here holds for every set of files.            *)
(*                                                                         *)
(* A word of USE that comes from a USE_EXPAND variable k is the flag       *)
(* ExpandFlag(k, w), "<k in lower case>_<w>".  g_tree_foreach visits the   *)
(* variables in the order of strcmp, which is Rank.                        *)
(***************************************************************************)
EXTENDS Naturals, StackValue

CONSTANTS
    Vars,               \* names of configuration variables
    ExpandNames,        \* the names a USE_EXPAND value may list
    PlainVars,          \* the names cp_settings_new writes after the files
    DefaultIncrementals, \* the table default_incrementals
    Use, UseExpand, Arch, UseNoExpand, \* four names the code treats apart
    Words,              \* words of every other variable; closed under
                        \* dropping a prefix that ExpandFlag adds
    ExpandFlag(_, _),   \* ExpandFlag(k, w) is the flag "<lower k>_<w>"
    Rank,               \* the position of a name in the order of strcmp
    NULL,               \* g_tree_lookup found nothing
    Inputs              \* Inputs[k]: the values a file may assign to k

\* Every word that can be a member of USE, use.mask or use.force.
Flags == Words \cup {ExpandFlag(k, w) : k \in Vars, w \in Words}

\* The words a variable holds: names in USE_EXPAND, flags in USE.
Universe(k) ==
    CASE k = Use       -> Flags
      [] k = UseExpand -> ExpandNames
      [] OTHER         -> Words

Before(k, l) == Rank[k] < Rank[l]

ASSUME NamesAssumption ==
    /\ {Use, UseExpand} \subseteq DefaultIncrementals
    /\ DefaultIncrementals \subseteq Vars
    /\ {Arch, UseNoExpand} \subseteq Vars \ DefaultIncrementals
    /\ Use # UseExpand
    /\ Arch # UseNoExpand
    /\ ExpandNames \subseteq Vars \ {Use, UseExpand, UseNoExpand}
    /\ PlainVars \subseteq
         Vars \ (DefaultIncrementals \cup ExpandNames \cup {Arch, UseNoExpand})

\* "ARCH" is less than "USE".
ASSUME OrderAssumption ==
    /\ Rank \in [Vars -> Nat]
    /\ \A k, l \in Vars : Rank[k] = Rank[l] => k = l
    /\ Before(Arch, Use)

ASSUME InputsAssumption ==
    /\ \A k \in Vars : Inputs[k] \subseteq Values(Universe(k))
    /\ \A k \in Vars : NULL \notin Values(Universe(k))

VARIABLES
    config,         \* self->config, shared with the settings
    incrementals,   \* self->incrementals: registered name -> set of words
    useMask,        \* self->use_mask
    useForce,       \* self->use_force
    pending,        \* history: names assigned since the last ConfigChanged
    finished        \* ConfigFinished has been called

incVars == <<config, incrementals, useMask, useForce, pending, finished>>

Registered == DOMAIN incrementals

\* cp_incrementals_new.
IncInit ==
    /\ config = [k \in Vars |-> NULL]
    /\ incrementals = [k \in DefaultIncrementals |-> {}]
    /\ useMask = {}
    /\ useForce = {}
    /\ pending = {}
    /\ finished = FALSE

-----------------------------------------------------------------------------
\* The reader of a file, or the table of defaults, assigns v to k.
Assign(k, v) ==
    /\ ~finished
    /\ config' = [config EXCEPT ![k] = v]
    /\ pending' = pending \cup {k}
    /\ UNCHANGED <<incrementals, useMask, useForce, finished>>

\* AddIncremental with a bug: stack_use_expand is not looked at.
AddIncrementalStacks(old, k, names, stack) ==
    IF config[k] = NULL THEN old ELSE Stack(old, config[k])

\* add_incremental on the set `old' of k, when `names' is USE_EXPAND at the
\* time of the call: a variable of USE_EXPAND starts afresh unless `stack'.
AddIncremental(old, k, names, stack) ==
    IF config[k] = NULL THEN old
    ELSE Stack(IF ~stack /\ k \in names THEN {} ELSE old, config[k])

\* NewExpand with a bug: USE_EXPAND is looked up before the walk.
NewExpandIsOld(stack) == incrementals[UseExpand]

\* USE_EXPAND after the walk over self->incrementals.
NewExpand(stack) ==
    AddIncremental(incrementals[UseExpand], UseExpand,
                   incrementals[UseExpand], stack)

\* The USE_EXPAND that the walk sees when it comes to k.
ExpandSeenBy(k, stack) ==
    IF Before(UseExpand, k) THEN NewExpand(stack)
    ELSE incrementals[UseExpand]

\* The second walk registers the variables USE_EXPAND has just named, if the
\* file gave them a value.
NewlyRegistered(stack) ==
    {k \in NewExpand(stack) \ Registered : config[k] # NULL}

\* cp_incrementals_config_changed.
ConfigChanged(stack) ==
    /\ ~finished
    /\ incrementals' =
         [k \in Registered \cup NewlyRegistered(stack) |->
            IF k \in Registered
            THEN AddIncremental(incrementals[k], k, ExpandSeenBy(k, stack), stack)
            ELSE AddIncremental({}, k, NewExpand(stack), stack)]
    /\ config' = [k \in Vars |->
                    IF k \in Registered \cup NewExpand(stack)
                    THEN NULL ELSE config[k]]
    /\ pending' = {}
    /\ UNCHANGED <<useMask, useForce, finished>>

\* cp_incrementals_process_profile, in two steps: the file use.mask is stacked
\* before use.force is opened, and stays stacked when use.force fails.
ProcessMask(v) ==
    /\ ~finished
    /\ useMask' = Stack(useMask, v)
    /\ UNCHANGED <<config, incrementals, useForce, pending, finished>>

ProcessForce(v) ==
    /\ ~finished
    /\ useForce' = Stack(useForce, v)
    /\ UNCHANGED <<config, incrementals, useMask, pending, finished>>
-----------------------------------------------------------------------------
\* post_process_incremental on USE.  ARCH is read from config, where the walk
\* has already put its words back if ARCH is an incremental variable.
ArchValue ==
    IF Arch \in Registered /\ Before(Arch, Use) THEN Concat(incrementals[Arch])
    ELSE IF config[Arch] = NULL THEN Empty ELSE config[Arch]

\* Populated with a bug: the variable is added, not its flags.
PopulatedNames == incrementals[UseExpand] \cap Registered

\* populate_from_use_expands.
Populated ==
    UNION {{ExpandFlag(k, w) : w \in incrementals[k]} :
           k \in incrementals[UseExpand] \cap Registered}

\* FinalUse with a bug: use.mask comes before use.force.
FinalUseForceLast ==
    ((Stack(incrementals[Use], ArchValue) \cup Populated) \ useMask)
      \cup useForce

\* ARCH, the USE_EXPAND variables, use.force and, last, use.mask.
FinalUse ==
    ((Stack(incrementals[Use], ArchValue) \cup Populated) \cup useForce)
      \ useMask

Owns(k, f) == \E w \in Words : f = ExpandFlag(k, w)

\* Regenerated with a bug: a flag that was taken stays for the others.
RegeneratedShared(k) == {w \in Words : ExpandFlag(k, w) \in FinalUse}

\* regenerate_use_expand on the members of USE_EXPAND, in order: each takes
\* the flags with its prefix that those before it have left.
Regenerated(k) ==
    {w \in Words :
        /\ ExpandFlag(k, w) \in FinalUse
        /\ \A l \in incrementals[UseExpand] :
              Before(l, k) => ~Owns(l, ExpandFlag(k, w))}

Unexpanded ==
    {f \in FinalUse : \A k \in incrementals[UseExpand] : ~Owns(k, f)}

\* KeepsOwnWords with a bug: nothing is regenerated for a variable with words.
KeepsOwnWordsAlways(k) == k \in Registered \ {Use}

\* The walk writes the words of k over what regenerate_use_expand wrote, if it
\* comes to k after USE.
KeepsOwnWords(k) ==
    /\ k \in Registered \ {Use}
    /\ Before(Use, k) \/ k \notin incrementals[UseExpand]

FinalValue(k) ==
    CASE k = Use -> Concat(FinalUse)
      [] k = UseNoExpand -> Concat(Unexpanded)
      [] KeepsOwnWords(k) -> Concat(incrementals[k])
      [] k \in incrementals[UseExpand] /\ ~KeepsOwnWords(k)
           -> Concat(Regenerated(k))
      [] OTHER -> config[k]

\* cp_incrementals_config_finished.
ConfigFinished ==
    /\ ~finished
    /\ config' = [k \in Vars |-> FinalValue(k)]
    /\ incrementals' = [incrementals EXCEPT ![Use] = FinalUse]
    /\ finished' = TRUE
    /\ pending' = {}
    /\ UNCHANGED <<useMask, useForce>>

\* After the files the settings write variables that are not incremental.
Override(new) ==
    /\ finished
    /\ config' = [k \in Vars |-> IF k \in PlainVars THEN new[k] ELSE config[k]]
    /\ UNCHANGED <<incrementals, useMask, useForce, pending, finished>>

PlainValues == {NULL} \cup UNION {Inputs[k] : k \in Vars \ {Use, UseExpand}}

IncNext ==
    \/ \E k \in Vars : \E v \in Inputs[k] : Assign(k, v)
    \/ \E stack \in BOOLEAN : ConfigChanged(stack)
    \/ \E v \in Inputs[Use] : ProcessMask(v) \/ ProcessForce(v)
    \/ ConfigFinished
    \/ \E new \in [PlainVars -> PlainValues] : Override(new)

IncSpec == IncInit /\ [][IncNext]_incVars

-----------------------------------------------------------------------------
IncTypeOK ==
    /\ config \in [Vars -> {NULL} \cup Values(Flags \cup ExpandNames)]
    /\ Registered \subseteq Vars
    /\ DefaultIncrementals \subseteq Registered
    /\ \A k \in Registered : incrementals[k] \subseteq Universe(k)
    /\ useMask \subseteq Flags
    /\ useForce \subseteq Flags
    /\ pending \subseteq Vars
    /\ finished \in BOOLEAN

\* "We also clear incremental variables in self->config after each file was
\* parsed" (incrementals.c:328-330): a value of an incremental variable that is
\* still in config comes from the file being read, so no value is ever stacked
\* twice, whatever the files say USE_EXPAND is in between.
StackedOnce ==
    ~finished =>
        \A k \in Registered \cup incrementals[UseExpand] :
            config[k] # NULL => k \in pending

\* PMS 5.2.12 as the code reads it: a masked flag is never in the final USE,
\* neither forced nor brought in by ARCH or by a USE_EXPAND variable, and a
\* forced flag is there unless it is masked; config says the same as the set.
MaskBeatsForce ==
    finished =>
        /\ incrementals[Use] \cap useMask = {}
        /\ useForce \ useMask \subseteq incrementals[Use]
        /\ config[Use] = Concat(incrementals[Use])

\* The flags of the final USE that config reports under the variable k.
ReportedBy(k) == {ExpandFlag(k, w) : w \in config[k].add}

\* "We push values back from USE to USE_EXPAND variables" (incrementals.c:307):
\* in the variables the walk visits before USE, no flag is reported that
\* use.mask took away, and every flag of USE that has the prefix of such a
\* variable, a forced one included, is reported by it or by an earlier one.
ExpandFollows(k) ==
    /\ ReportedBy(k) \subseteq incrementals[Use]
    /\ \A w \in Words :
          ExpandFlag(k, w) \in incrementals[Use] =>
             \E l \in incrementals[UseExpand] :
                /\ l = k \/ Before(l, k)
                /\ ExpandFlag(k, w) \in ReportedBy(l)

ExpandFollowsUse ==
    finished => \A k \in incrementals[UseExpand] :
                    Before(k, Use) => ExpandFollows(k)

\* The same for every USE_EXPAND variable, which is what the comment promises.
AllExpandFollowsUse ==
    finished => \A k \in incrementals[UseExpand] : ExpandFollows(k)

\* CPORTAGE_USE_NO_EXPAND and the USE_EXPAND variables divide USE: a flag of
\* the one is never a flag of the others, and two variables that the walk
\* visits before USE never report the same flag, one's name being a prefix of
\* the other's or not.
UseIsDivided ==
    finished =>
        /\ \A k \in incrementals[UseExpand] :
              Before(k, Use) => ReportedBy(k) \cap config[UseNoExpand].add = {}
        /\ \A k, l \in incrementals[UseExpand] :
              k # l /\ Before(k, Use) /\ Before(l, Use) =>
                 ReportedBy(k) \cap ReportedBy(l) = {}

\* "USE_EXPAND variables are only stacked across profiles, but not in
\* make.conf" (incrementals.c:71-76): a variable that is in USE_EXPAND before
\* and after make.conf has the words make.conf gives it and no others.
MakeConfReplaces ==
    [][ConfigChanged(FALSE) =>
          \A k \in incrementals[UseExpand] \cap incrementals'[UseExpand] :
             config[k] # NULL => incrementals'[k] = config[k].add]_incVars
=============================================================================
