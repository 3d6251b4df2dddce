--------------------------- MODULE SettingsProofs ---------------------------
(***************************************************************************)
(* Proofs about Incrementals, for every set of names, every order of them, *)
(* every set of words and every sequence of calls; and about Settings, for *)
(* every disk and every set of names: each step of cp_settings_new is a    *)
(* call of an operation of Incrementals or leaves its state alone, so that *)
(* what the first part shows of every order of calls holds of every load.  *)
(* Then the errors: a load fails for an error it comes to and for nothing  *)
(* else. Last the result: at every step of the load the stacks of          *)
(* profiles and files say how far the schedule of the disk has been        *)
(* followed, and the variables are what the book of that much of it says.  *)
(***************************************************************************)
EXTENDS SettingsProperties, TLAPS, WellFoundedInduction, SequenceTheorems

\* Stacking words of W into a set of words of W gives words of W (cp_stack_dict).
LEMMA StackType ==
    ASSUME NEW W, NEW S \in SUBSET W, NEW v \in Values(W)
    PROVE  Stack(S, v) \subseteq W
  BY DEF Stack, Values

\* A value that wipes or starts from nothing leaves the words it adds.
LEMMA StackFresh ==
    ASSUME NEW W, NEW v \in Values(W)
    PROVE  Stack({}, v) = v.add
  BY DEF Stack, Values

\* A plain list of words is a value.
LEMMA ConcatType ==
    ASSUME NEW W, NEW S \in SUBSET W
    PROVE  Concat(S) \in Values(W) /\ Concat(S).add = S
  BY DEF Concat, Values

\* A value over some words is a value over more.
LEMMA ValuesMonotone ==
    ASSUME NEW W, NEW X, W \subseteq X
    PROVE  Values(W) \subseteq Values(X)
  BY DEF Values

\* The words of a variable are of its own kind, and the kinds are all typed.
LEMMA UniverseType ==
    /\ Universe(Use) = Flags
    /\ Universe(UseExpand) = ExpandNames
    /\ \A k \in Vars \ {Use, UseExpand} : Universe(k) = Words
    /\ \A k \in Vars : Universe(k) \subseteq Flags \cup ExpandNames
  BY NamesAssumption DEF Universe, Flags

\* Before the final pass the words of config, too, are of the variable's kind.
ConfigByKind ==
    ~finished => \A k \in Vars : config[k] # NULL => config[k] \in Values(Universe(k))

\* Only names that USE_EXPAND may list are ever registered.
RegisteredNames == Registered \subseteq DefaultIncrementals \cup ExpandNames

TypeInv ==
    /\ IncTypeOK
    /\ ConfigByKind
    /\ RegisteredNames

-----------------------------------------------------------------------------
\* cp_incrementals_new leaves a well-typed state.
LEMMA InitType == IncInit => TypeInv
<1> SUFFICES ASSUME IncInit PROVE TypeInv
  OBVIOUS
<1>1. IncTypeOK
  BY NamesAssumption DEF IncInit, IncTypeOK, Registered
<1>2. ConfigByKind /\ RegisteredNames
  BY NamesAssumption DEF IncInit, ConfigByKind, RegisteredNames, Registered
<1> QED  BY <1>1, <1>2 DEF TypeInv

\* An assignment of a configuration file keeps the types (var_def).
LEMMA AssignType ==
    ASSUME TypeInv, NEW k \in Vars, NEW v \in Inputs[k], Assign(k, v)
    PROVE  TypeInv'
<1>1. v \in Values(Universe(k))
  BY InputsAssumption
<1>2. v \in Values(Flags \cup ExpandNames)
  BY <1>1, UniverseType, ValuesMonotone
<1>3. IncTypeOK'
  BY <1>2 DEF TypeInv, IncTypeOK, Assign, Registered
<1>4. ConfigByKind' /\ RegisteredNames'
  BY <1>1 DEF TypeInv, IncTypeOK, ConfigByKind, RegisteredNames, Registered, Assign
<1> QED  BY <1>3, <1>4 DEF TypeInv

\* add_incremental keeps the words of a variable of the variable's kind.
LEMMA AddType ==
    ASSUME TypeInv, ~finished, NEW k \in Vars, NEW old \in SUBSET Universe(k),
           NEW names, NEW stack \in BOOLEAN
    PROVE  AddIncremental(old, k, names, stack) \subseteq Universe(k)
<1>1. CASE config[k] = NULL
  BY <1>1 DEF AddIncremental
<1>2. CASE config[k] # NULL
  <2>1. config[k] \in Values(Universe(k))
    BY <1>2 DEF TypeInv, ConfigByKind
  <2>2. (IF ~stack /\ k \in names THEN {} ELSE old) \in SUBSET Universe(k)
    OBVIOUS
  <2> QED  BY <1>2, <2>1, <2>2, StackType DEF AddIncremental
<1> QED  BY <1>1, <1>2

\* The USE_EXPAND list after the walk holds names of USE_EXPAND variables.
LEMMA NewExpandType ==
    ASSUME TypeInv, ~finished, NEW stack \in BOOLEAN
    PROVE  NewExpand(stack) \subseteq ExpandNames
<1>1. UseExpand \in Vars /\ incrementals[UseExpand] \in SUBSET Universe(UseExpand)
  BY NamesAssumption DEF TypeInv, IncTypeOK, Registered
<1> QED  BY <1>1, AddType, UniverseType DEF NewExpand

\* The walks of cp_incrementals_config_changed keep the types.
LEMMA ConfigChangedType ==
    ASSUME TypeInv, NEW stack \in BOOLEAN, ConfigChanged(stack)
    PROVE  TypeInv'
<1> DEFINE New == NewlyRegistered(stack)
<1>1. ~finished /\ finished' = finished
  BY DEF ConfigChanged
<1>2. NewExpand(stack) \subseteq ExpandNames
  BY <1>1, NewExpandType
<1>3. New \subseteq ExpandNames
  BY <1>2 DEF NewlyRegistered
<1>4. Registered' = Registered \cup New
  BY DEF ConfigChanged, Registered
<1>5. ASSUME NEW k \in Registered'
      PROVE  incrementals'[k] \subseteq Universe(k)
  <2>1. k \in Vars
    BY <1>3, <1>4, NamesAssumption DEF TypeInv, IncTypeOK
  <2>2. CASE k \in Registered
    <3>1. incrementals'[k] =
             AddIncremental(incrementals[k], k, ExpandSeenBy(k, stack), stack)
      BY <2>2 DEF ConfigChanged
    <3>2. incrementals[k] \in SUBSET Universe(k)
      BY <2>2 DEF TypeInv, IncTypeOK
    <3> QED  BY <1>1, <2>1, <3>1, <3>2, AddType
  <2>3. CASE k \notin Registered
    <3>1. incrementals'[k] = AddIncremental({}, k, NewExpand(stack), stack)
      BY <1>4, <2>3 DEF ConfigChanged
    <3> QED  BY <1>1, <2>1, <3>1, AddType
  <2> QED  BY <2>2, <2>3
<1>6. config' \in [Vars -> {NULL} \cup Values(Flags \cup ExpandNames)]
  BY DEF TypeInv, IncTypeOK, ConfigChanged
<1>7. IncTypeOK'
  <2>1. Registered' \subseteq Vars /\ DefaultIncrementals \subseteq Registered'
    BY <1>3, <1>4, NamesAssumption DEF TypeInv, IncTypeOK
  <2>2. /\ useMask' \subseteq Flags
        /\ useForce' \subseteq Flags
        /\ pending' \subseteq Vars
        /\ finished' \in BOOLEAN
    BY DEF TypeInv, IncTypeOK, ConfigChanged
  <2> QED  BY <1>5, <1>6, <2>1, <2>2 DEF IncTypeOK
<1>8. ConfigByKind'
  BY <1>1 DEF TypeInv, ConfigByKind, ConfigChanged
<1>9. RegisteredNames'
  BY <1>3, <1>4 DEF TypeInv, RegisteredNames
<1> QED  BY <1>7, <1>8, <1>9 DEF TypeInv

\* So does a use.mask or a use.force file of a profile.
LEMMA ProfileType ==
    ASSUME TypeInv, NEW v \in Inputs[Use], ProcessMask(v) \/ ProcessForce(v)
    PROVE  TypeInv'
<1>1. v \in Values(Flags)
  BY InputsAssumption, NamesAssumption, UniverseType
<1>2. useMask' \subseteq Flags /\ useForce' \subseteq Flags
  BY <1>1, StackType DEF TypeInv, IncTypeOK, ProcessMask, ProcessForce
<1>3. UNCHANGED <<config, incrementals, pending, finished>>
  BY DEF ProcessMask, ProcessForce
<1> QED
  BY <1>2, <1>3 DEF TypeInv, IncTypeOK, ConfigByKind, RegisteredNames, Registered
-----------------------------------------------------------------------------
\* What the final pass computes is made of flags.
LEMMA FinalUseType ==
    ASSUME TypeInv, ~finished
    PROVE  FinalUse \subseteq Flags
<1>1. Arch \in Vars \ {Use, UseExpand} /\ Use \in Vars
  BY NamesAssumption
<1>2. ArchValue \in Values(Flags)
  <2>1. config[Arch] # NULL => config[Arch] \in Values(Words)
    BY <1>1, UniverseType DEF TypeInv, ConfigByKind
  <2>2. Arch \in Registered => incrementals[Arch] \in SUBSET Words
    BY <1>1, UniverseType DEF TypeInv, IncTypeOK
  <2>3. Empty \in Values(Words)
    BY DEF Empty, Values
  <2>4. ArchValue \in Values(Words)
    BY <2>1, <2>2, <2>3, ConcatType DEF ArchValue
  <2> QED  BY <2>4, ValuesMonotone DEF Flags
<1>3. Populated \subseteq Flags
  <2> SUFFICES ASSUME NEW k \in incrementals[UseExpand] \cap Registered,
                      NEW w \in incrementals[k]
               PROVE  ExpandFlag(k, w) \in Flags
    BY DEF Populated
  <2>1. k \in Vars \ {Use, UseExpand}
    BY NamesAssumption, UniverseType DEF TypeInv, IncTypeOK
  <2>2. w \in Words
    BY <2>1, UniverseType DEF TypeInv, IncTypeOK
  <2> QED  BY <2>1, <2>2 DEF Flags
<1>4. incrementals[Use] \in SUBSET Flags /\ useForce \subseteq Flags
  BY NamesAssumption, UniverseType DEF TypeInv, IncTypeOK
<1>5. Stack(incrementals[Use], ArchValue) \subseteq Flags
  BY <1>2, <1>4, StackType
<1> QED  BY <1>3, <1>4, <1>5 DEF FinalUse

\* The branch of FinalValue that a variable takes.
LEMMA FinalValues ==
    ASSUME TypeInv
    PROVE  /\ FinalValue(Use) = Concat(FinalUse)
           /\ FinalValue(UseNoExpand) = Concat(Unexpanded)
           /\ \A k \in Vars : KeepsOwnWords(k) =>
                 FinalValue(k) = Concat(incrementals[k])
           /\ \A k \in incrementals[UseExpand] : ~KeepsOwnWords(k) =>
                 FinalValue(k) = Concat(Regenerated(k))
           /\ \A k \in Vars \ (incrementals[UseExpand] \cup {Use, UseNoExpand}) :
                 ~KeepsOwnWords(k) => FinalValue(k) = config[k]
<1>1. incrementals[UseExpand] \subseteq ExpandNames
  BY NamesAssumption, UniverseType DEF TypeInv, IncTypeOK
<1>2. Use \notin incrementals[UseExpand] /\ UseNoExpand \notin incrementals[UseExpand]
  BY <1>1, NamesAssumption
<1>3. ~KeepsOwnWords(Use) /\ ~KeepsOwnWords(UseNoExpand) /\ Use # UseNoExpand
  BY NamesAssumption DEF KeepsOwnWords, TypeInv, RegisteredNames
<1> QED  BY <1>2, <1>3 DEF FinalValue

\* The final pass keeps the types.
LEMMA FinishType ==
    ASSUME TypeInv, ConfigFinished
    PROVE  TypeInv'
<1>1. ~finished /\ finished' = TRUE
  BY DEF ConfigFinished
<1>2. FinalUse \in SUBSET Flags
  BY <1>1, FinalUseType
<1>3. Use \in Registered /\ Registered' = Registered
  BY NamesAssumption DEF ConfigFinished, Registered, TypeInv, IncTypeOK
<1>4. \A k \in Registered' : incrementals'[k] \subseteq Universe(k)
  BY <1>2, <1>3, UniverseType DEF ConfigFinished, TypeInv, IncTypeOK, Registered
<1>5. ASSUME NEW k \in Vars
      PROVE  FinalValue(k) \in {NULL} \cup Values(Flags \cup ExpandNames)
  <2>1. CASE k = Use
    BY <2>1, <1>2, FinalValues, ConcatType, ValuesMonotone
  <2>2. CASE k = UseNoExpand
    <3>1. Unexpanded \in SUBSET Flags
      BY <1>2 DEF Unexpanded
    <3> QED  BY <2>2, <3>1, FinalValues, ConcatType, ValuesMonotone
  <2>3. CASE KeepsOwnWords(k)
    <3>1. incrementals[k] \in SUBSET (Flags \cup ExpandNames)
      BY <2>3, UniverseType DEF KeepsOwnWords, TypeInv, IncTypeOK
    <3> QED  BY <2>3, <3>1, FinalValues, ConcatType
  <2>4. CASE k \in incrementals[UseExpand] /\ ~KeepsOwnWords(k)
    <3>1. Regenerated(k) \in SUBSET (Flags \cup ExpandNames)
      BY DEF Regenerated, Flags
    <3> QED  BY <2>4, <3>1, FinalValues, ConcatType
  <2>5. CASE k \notin incrementals[UseExpand] \cup {Use, UseNoExpand} /\ ~KeepsOwnWords(k)
    <3>1. FinalValue(k) = config[k]
      BY <2>5, FinalValues
    <3>2. config[k] \in {NULL} \cup Values(Flags \cup ExpandNames)
      BY DEF TypeInv, IncTypeOK
    <3> QED  BY <3>1, <3>2
  <2> QED  BY <2>1, <2>2, <2>3, <2>4, <2>5
<1>6. config' \in [Vars -> {NULL} \cup Values(Flags \cup ExpandNames)]
  BY <1>5 DEF ConfigFinished
<1>7. IncTypeOK'
  BY <1>1, <1>3, <1>4, <1>6 DEF TypeInv, IncTypeOK, ConfigFinished
<1>8. ConfigByKind' /\ RegisteredNames'
  BY <1>1, <1>3 DEF TypeInv, ConfigByKind, RegisteredNames
<1> QED  BY <1>7, <1>8 DEF TypeInv

\* What cp_settings_new writes after the final pass is no incremental variable.
LEMMA OverrideType ==
    ASSUME TypeInv, NEW new \in [PlainVars -> PlainValues], Override(new)
    PROVE  TypeInv'
<1>1. PlainValues \subseteq {NULL} \cup Values(Flags \cup ExpandNames)
  BY InputsAssumption, UniverseType, ValuesMonotone DEF PlainValues
<1>2. config' \in [Vars -> {NULL} \cup Values(Flags \cup ExpandNames)]
  BY <1>1 DEF Override, TypeInv, IncTypeOK
<1> QED
  BY <1>2 DEF Override, TypeInv, IncTypeOK, ConfigByKind, RegisteredNames, Registered

\* Every operation keeps the types.
LEMMA TypeStep == TypeInv /\ [IncNext]_incVars => TypeInv'
<1> SUFFICES ASSUME TypeInv, [IncNext]_incVars PROVE TypeInv'
  OBVIOUS
<1>1. CASE UNCHANGED incVars
  BY <1>1 DEF incVars, TypeInv, IncTypeOK, ConfigByKind, RegisteredNames, Registered
<1>2. CASE IncNext
  BY <1>2, AssignType, ConfigChangedType, ProfileType, FinishType, OverrideType
     DEF IncNext
<1> QED  BY <1>1, <1>2

\* The state of the incremental variables is well typed whatever is assigned
\* and in whatever order the operations are called.
THEOREM TypeCorrect == IncSpec => []TypeInv
  BY InitType, TypeStep, PTL DEF IncSpec

\* The type invariant the runs check.
THEOREM IncTypeCorrect == IncSpec => []IncTypeOK
<1>1. TypeInv => IncTypeOK
  BY DEF TypeInv
<1> QED  BY TypeCorrect, <1>1, PTL
-----------------------------------------------------------------------------
\* Each value of an incremental variable is stacked once: the walks of
\* config_changed leave none in config, the newly registered ones included.
THEOREM ValuesStackedOnce == IncSpec => []StackedOnce
<1>1. IncInit => StackedOnce
  BY NamesAssumption DEF IncInit, StackedOnce, Registered
<1>2. TypeInv /\ StackedOnce /\ [IncNext]_incVars => StackedOnce'
  <2> SUFFICES ASSUME TypeInv, StackedOnce, [IncNext]_incVars PROVE StackedOnce'
    OBVIOUS
  <2>1. ASSUME NEW k \in Vars, NEW v \in Inputs[k], Assign(k, v)
        PROVE  StackedOnce'
    BY <2>1, NamesAssumption, UniverseType
       DEF Assign, StackedOnce, Registered, TypeInv, IncTypeOK
  <2>2. ASSUME NEW stack \in BOOLEAN, ConfigChanged(stack)
        PROVE  StackedOnce'
    <3>1. UseExpand \in Registered /\ ~Before(UseExpand, UseExpand)
      BY NamesAssumption, OrderAssumption DEF TypeInv, IncTypeOK, Before
    <3>2. incrementals'[UseExpand] = NewExpand(stack)
      BY <2>2, <3>1 DEF ConfigChanged, ExpandSeenBy, NewExpand
    <3>3. Registered' \subseteq Registered \cup NewExpand(stack)
      BY <2>2 DEF ConfigChanged, Registered, NewlyRegistered
    <3>4. Registered \cup NewExpand(stack) \subseteq Vars
      BY <2>2, NewExpandType, NamesAssumption DEF ConfigChanged, TypeInv, IncTypeOK
    <3>5. \A k \in Registered \cup NewExpand(stack) : config'[k] = NULL
      BY <2>2, <3>4 DEF ConfigChanged
    <3> QED  BY <3>2, <3>3, <3>5 DEF StackedOnce
  <2>3. ASSUME NEW v \in Inputs[Use], ProcessMask(v) \/ ProcessForce(v)
        PROVE  StackedOnce'
    BY <2>3 DEF ProcessMask, ProcessForce, StackedOnce, Registered
  <2>4. CASE ConfigFinished
    BY <2>4 DEF ConfigFinished, StackedOnce
  <2>5. ASSUME NEW new \in [PlainVars -> PlainValues], Override(new)
        PROVE  StackedOnce'
    BY <2>5 DEF Override, StackedOnce
  <2>6. CASE UNCHANGED incVars
    BY <2>6 DEF incVars, StackedOnce, Registered
  <2> QED  BY <2>1, <2>2, <2>3, <2>4, <2>5, <2>6 DEF IncNext
<1> QED  BY TypeCorrect, <1>1, <1>2, PTL DEF IncSpec

-----------------------------------------------------------------------------
\* What the final pass writes for a USE_EXPAND variable that it visits before
\* USE.
LEMMA FinishedExpand ==
    ASSUME TypeInv, ConfigFinished, NEW k \in incrementals[UseExpand], Before(k, Use)
    PROVE  /\ k \in Vars
           /\ config'[k] = Concat(Regenerated(k))
           /\ ReportedBy(k)' = {ExpandFlag(k, w) : w \in Regenerated(k)}
           /\ ReportedBy(k)' \subseteq FinalUse
<1>1. k \in Vars \ {Use, UseExpand, UseNoExpand}
  BY NamesAssumption, UniverseType DEF TypeInv, IncTypeOK
<1>2. ~Before(Use, k)
  BY <1>1, NamesAssumption, OrderAssumption DEF Before
<1>3. ~KeepsOwnWords(k)
  BY <1>2 DEF KeepsOwnWords
<1>4. config'[k] = Concat(Regenerated(k))
  BY <1>1, <1>3, FinalValues DEF ConfigFinished
<1>5. config'[k].add = Regenerated(k)
  BY <1>4 DEF Concat
<1>6. ReportedBy(k)' = {ExpandFlag(k, w) : w \in Regenerated(k)}
  BY <1>5 DEF ReportedBy
<1>7. ReportedBy(k)' \subseteq FinalUse
  BY <1>6 DEF Regenerated
<1> QED  BY <1>1, <1>4, <1>6, <1>7

\* After the final pass nothing that the properties of USE are about changes.
LEMMA OverrideKeeps ==
    ASSUME TypeInv, NEW new \in [PlainVars -> PlainValues], Override(new)
    PROVE  /\ UNCHANGED <<incrementals, useMask, useForce, finished>>
           /\ \A k \in ExpandNames \cup {Use, UseNoExpand} : config'[k] = config[k]
<1>1. \A k \in ExpandNames \cup {Use, UseNoExpand} : k \in Vars \ PlainVars
  BY NamesAssumption
<1> QED  BY <1>1 DEF Override

\* USE_EXPAND lists nothing but names of USE_EXPAND variables.
LEMMA ExpandListed == TypeInv => incrementals[UseExpand] \subseteq ExpandNames
  BY NamesAssumption, UniverseType DEF TypeInv, IncTypeOK

\* Every step that is not the final pass and not an Override is taken before
\* the final pass.
LEMMA OnlyTwoWhenFinished ==
    ASSUME [IncNext]_incVars
    PROVE  \/ ConfigFinished
           \/ \E new \in [PlainVars -> PlainValues] : Override(new)
           \/ ~finished'
           \/ UNCHANGED incVars
<1>1. ASSUME NEW k, NEW v, Assign(k, v) PROVE ~finished'
  BY <1>1 DEF Assign
<1>2. ASSUME NEW stack, ConfigChanged(stack) PROVE ~finished'
  BY <1>2 DEF ConfigChanged
<1>3. ASSUME NEW v, ProcessMask(v) \/ ProcessForce(v) PROVE ~finished'
  BY <1>3 DEF ProcessMask, ProcessForce
<1> QED  BY <1>1, <1>2, <1>3 DEF IncNext

\* The final USE respects use.mask and use.force, whatever the profiles and
\* make.conf say, and config agrees with the set contains() looks at.
THEOREM UseRespectsProfiles == IncSpec => []MaskBeatsForce
<1>1. IncInit => MaskBeatsForce
  BY DEF IncInit, MaskBeatsForce
<1>2. TypeInv /\ MaskBeatsForce /\ [IncNext]_incVars => MaskBeatsForce'
  <2> SUFFICES ASSUME TypeInv, MaskBeatsForce, [IncNext]_incVars PROVE MaskBeatsForce'
    OBVIOUS
  <2>1. CASE ConfigFinished
    <3>1. incrementals'[Use] = FinalUse
      BY <2>1, NamesAssumption DEF ConfigFinished, TypeInv, IncTypeOK, Registered
    <3>2. config'[Use] = Concat(FinalUse)
      BY <2>1, NamesAssumption, FinalValues DEF ConfigFinished
    <3>3. FinalUse \cap useMask = {} /\ useForce \ useMask \subseteq FinalUse
      BY DEF FinalUse
    <3> QED  BY <2>1, <3>1, <3>2, <3>3 DEF ConfigFinished, MaskBeatsForce
  <2>2. ASSUME NEW new \in [PlainVars -> PlainValues], Override(new)
        PROVE  MaskBeatsForce'
    BY <2>2, OverrideKeeps DEF MaskBeatsForce
  <2>3. CASE ~finished'
    BY <2>3 DEF MaskBeatsForce
  <2>4. CASE UNCHANGED incVars
    BY <2>4 DEF incVars, MaskBeatsForce
  <2> QED  BY <2>1, <2>2, <2>3, <2>4, OnlyTwoWhenFinished
<1> QED  BY TypeCorrect, <1>1, <1>2, PTL DEF IncSpec
-----------------------------------------------------------------------------
\* Among the variables that own a flag there is a first one: regenerate_use_expand
\* gives the flag to it.
LEMMA FirstOwner ==
    ASSUME NEW S \in SUBSET Vars, NEW f, NEW k \in S, Owns(k, f)
    PROVE  \E l \in S : /\ Owns(l, f)
                        /\ l = k \/ Before(l, k)
                        /\ \A j \in S : Before(j, l) => ~Owns(j, f)
<1> DEFINE Owners == {j \in S : Owns(j, f)}
           Ranks == {Rank[j] : j \in Owners}
           Less == OpToRel(<, Nat)
<1>1. \A j \in Vars : Rank[j] \in Nat
  BY OrderAssumption
<1>2. Ranks \subseteq Nat /\ Ranks # {}
  BY <1>1
<1>3. PICK r \in Ranks : \A q \in Ranks : ~(<<q, r>> \in Less)
  <2>1. \A R, D, T : IsWellFoundedOn(R, D) /\ T \subseteq D /\ T # {} =>
           \E x \in T : \A y \in T : ~(<<y, x>> \in R)
    BY WFMin
  <2> HIDE DEF Ranks, Less
  <2>2. IsWellFoundedOn(Less, Nat)
    BY NatLessThanWellFounded DEF Less
  <2> QED  BY <1>2, <2>1, <2>2
<1>4. \A q \in Ranks : ~(q < r)
  BY <1>2, <1>3 DEF OpToRel
<1>5. PICK l \in Owners : r = Rank[l]
  OBVIOUS
<1>6. \A j \in Owners : ~Before(j, l)
  BY <1>4, <1>5 DEF Before
<1>7. l = k \/ Before(l, k)
  <2>1. l \in Vars /\ k \in Vars /\ k \in Owners
    OBVIOUS
  <2>2. ~(Rank[k] < Rank[l])
    BY <1>6, <2>1 DEF Before
  <2>3. Rank[l] \in Nat /\ Rank[k] \in Nat
    BY <1>1, <2>1
  <2>4. Rank[l] = Rank[k] \/ Rank[l] < Rank[k]
    BY <2>2, <2>3
  <2> QED  BY <2>1, <2>4, OrderAssumption DEF Before
<1> QED  BY <1>6, <1>7

\* Every flag of USE with the prefix of a variable that the final pass visits
\* before USE is reported by it or by an earlier one, and no masked flag is.
THEOREM ExpandVariablesFollowUse == IncSpec => []ExpandFollowsUse
<1>1. IncInit => ExpandFollowsUse
  BY DEF IncInit, ExpandFollowsUse
<1>2. TypeInv /\ ExpandFollowsUse /\ [IncNext]_incVars => ExpandFollowsUse'
  <2> SUFFICES ASSUME TypeInv, ExpandFollowsUse, [IncNext]_incVars
               PROVE  ExpandFollowsUse'
    OBVIOUS
  <2>1. CASE ConfigFinished
    <3>1. /\ incrementals'[Use] = FinalUse
          /\ incrementals'[UseExpand] = incrementals[UseExpand]
      BY <2>1, NamesAssumption DEF ConfigFinished, TypeInv, IncTypeOK, Registered
    <3>2. SUFFICES ASSUME NEW k \in incrementals[UseExpand], Before(k, Use)
                   PROVE  ExpandFollows(k)'
      BY <3>1 DEF ExpandFollowsUse
    <3>3. ReportedBy(k)' \subseteq incrementals'[Use]
      BY <2>1, <3>1, <3>2, FinishedExpand
    <3>4. ASSUME NEW w \in Words, ExpandFlag(k, w) \in incrementals'[Use]
          PROVE  \E l \in incrementals'[UseExpand] :
                    /\ l = k \/ Before(l, k)
                    /\ ExpandFlag(k, w) \in ReportedBy(l)'
      <4> DEFINE f == ExpandFlag(k, w)
      <4>1. incrementals[UseExpand] \in SUBSET Vars /\ Use \in Vars
        BY ExpandListed, NamesAssumption
      <4>2. Owns(k, f)
        BY DEF Owns
      <4>3. PICK l \in incrementals[UseExpand] :
               /\ Owns(l, f)
               /\ l = k \/ Before(l, k)
               /\ \A j \in incrementals[UseExpand] : Before(j, l) => ~Owns(j, f)
        <5> HIDE DEF f
        <5> QED  BY <4>1, <4>2, FirstOwner
      <4>4. PICK x \in Words : f = ExpandFlag(l, x)
        BY <4>3 DEF Owns
      <4>5. x \in Regenerated(l)
        BY <3>1, <3>4, <4>3, <4>4 DEF Regenerated
      <4>6. Before(l, Use)
        <5>1. l \in Vars /\ k \in Vars
          BY <4>1
        <5> QED  BY <3>2, <4>1, <4>3, <5>1, OrderAssumption DEF Before
      <4>7. f \in ReportedBy(l)'
        BY <2>1, <4>4, <4>5, <4>6, FinishedExpand
      <4> QED  BY <3>1, <4>3, <4>7
    <3> QED  BY <3>3, <3>4 DEF ExpandFollows
  <2>2. ASSUME NEW new \in [PlainVars -> PlainValues], Override(new)
        PROVE  ExpandFollowsUse'
    <3>1. /\ UNCHANGED <<incrementals, finished>>
          /\ finished
          /\ \A k \in incrementals[UseExpand] : config'[k] = config[k]
      BY <2>2, OverrideKeeps, ExpandListed DEF Override
    <3> QED
      BY <3>1 DEF ExpandFollowsUse, ExpandFollows, ReportedBy
  <2>3. CASE ~finished'
    BY <2>3 DEF ExpandFollowsUse
  <2>4. CASE UNCHANGED incVars
    BY <2>4 DEF incVars, ExpandFollowsUse, ExpandFollows, ReportedBy
  <2> QED  BY <2>1, <2>2, <2>3, <2>4, OnlyTwoWhenFinished
<1> QED  BY TypeCorrect, <1>1, <1>2, PTL DEF IncSpec

\* CPORTAGE_USE_NO_EXPAND and the variables visited before USE share no flag.
THEOREM UseDivided == IncSpec => []UseIsDivided
<1>1. IncInit => UseIsDivided
  BY DEF IncInit, UseIsDivided
<1>2. TypeInv /\ UseIsDivided /\ [IncNext]_incVars => UseIsDivided'
  <2> SUFFICES ASSUME TypeInv, UseIsDivided, [IncNext]_incVars PROVE UseIsDivided'
    OBVIOUS
  <2>1. CASE ConfigFinished
    <3>1. incrementals'[UseExpand] = incrementals[UseExpand]
      BY <2>1, NamesAssumption DEF ConfigFinished, TypeInv, IncTypeOK, Registered
    <3>2. config'[UseNoExpand].add = Unexpanded
      BY <2>1, NamesAssumption, FinalValues DEF ConfigFinished, Concat
    <3>3. ASSUME NEW k \in incrementals[UseExpand], Before(k, Use)
          PROVE  ReportedBy(k)' \cap Unexpanded = {}
      BY <2>1, <3>3, FinishedExpand DEF Unexpanded, Regenerated, Owns
    <3>4. ASSUME NEW k \in incrementals[UseExpand], NEW l \in incrementals[UseExpand],
                 k # l, Before(k, Use), Before(l, Use)
          PROVE  ReportedBy(k)' \cap ReportedBy(l)' = {}
      <4>1. k \in Vars /\ l \in Vars
        BY <2>1, <3>4, FinishedExpand
      <4>2. Before(k, l) \/ Before(l, k)
        BY <3>4, <4>1, OrderAssumption DEF Before
      <4>3. /\ ReportedBy(k)' = {ExpandFlag(k, w) : w \in Regenerated(k)}
            /\ ReportedBy(l)' = {ExpandFlag(l, w) : w \in Regenerated(l)}
        BY <2>1, <3>4, FinishedExpand
      <4>4. CASE Before(k, l)
        <5>1. \A x \in Regenerated(l) : ~Owns(k, ExpandFlag(l, x))
          BY <4>4 DEF Regenerated
        <5> QED  BY <4>3, <5>1 DEF Regenerated, Owns
      <4>5. CASE Before(l, k)
        <5>1. \A x \in Regenerated(k) : ~Owns(l, ExpandFlag(k, x))
          BY <4>5 DEF Regenerated
        <5> QED  BY <4>3, <5>1 DEF Regenerated, Owns
      <4> QED  BY <4>2, <4>4, <4>5
    <3> QED  BY <3>1, <3>2, <3>3, <3>4 DEF UseIsDivided
  <2>2. ASSUME NEW new \in [PlainVars -> PlainValues], Override(new)
        PROVE  UseIsDivided'
    <3>1. /\ UNCHANGED <<incrementals, finished>>
          /\ finished
          /\ config'[UseNoExpand] = config[UseNoExpand]
          /\ \A k \in incrementals[UseExpand] : config'[k] = config[k]
      BY <2>2, OverrideKeeps, ExpandListed DEF Override
    <3> QED  BY <3>1 DEF UseIsDivided, ReportedBy
  <2>3. CASE ~finished'
    BY <2>3 DEF UseIsDivided
  <2>4. CASE UNCHANGED incVars
    BY <2>4 DEF incVars, UseIsDivided, ReportedBy
  <2> QED  BY <2>1, <2>2, <2>3, <2>4, OnlyTwoWhenFinished
<1> QED  BY TypeCorrect, <1>1, <1>2, PTL DEF IncSpec

\* In make.conf a USE_EXPAND variable is replaced and not stacked.
THEOREM MakeConfReplacesExpand == IncSpec => MakeConfReplaces
<1> DEFINE Replaces ==
      ConfigChanged(FALSE) =>
         \A k \in incrementals[UseExpand] \cap incrementals'[UseExpand] :
            config[k] # NULL => incrementals'[k] = config[k].add
<1>1. TypeInv => Replaces
  <2> SUFFICES ASSUME TypeInv, ConfigChanged(FALSE),
                      NEW k \in incrementals[UseExpand] \cap incrementals'[UseExpand],
                      config[k] # NULL
               PROVE  incrementals'[k] = config[k].add
    OBVIOUS
  <2>1. UseExpand \in Registered /\ ~Before(UseExpand, UseExpand)
    BY NamesAssumption, OrderAssumption DEF TypeInv, IncTypeOK, Before
  <2>2. incrementals'[UseExpand] = NewExpand(FALSE)
    BY <2>1 DEF ConfigChanged, ExpandSeenBy, NewExpand
  <2>3. k \in Registered \cup NewlyRegistered(FALSE)
    BY <2>2 DEF NewlyRegistered
  <2>4. incrementals'[k] = Stack({}, config[k])
    <3>1. k \in ExpandSeenBy(k, FALSE) /\ k \in NewExpand(FALSE)
      BY <2>2 DEF ExpandSeenBy
    <3> QED  BY <2>3, <3>1 DEF ConfigChanged, AddIncremental
  <2>5. config[k] \in Values(Universe(k))
    BY ExpandListed, NamesAssumption DEF TypeInv, ConfigByKind, ConfigChanged
  <2> QED  BY <2>4, <2>5, StackFresh
<1> QED  BY TypeCorrect, <1>1, PTL DEF MakeConfReplaces

-----------------------------------------------------------------------------
\* The phases in which files are read.
Reading == {"globals", "profile", "confs"}

Phases == {"start", "defaults", "insertedDefaults", "finished", "mainRepo", "ready", "failed"}
            \cup Reading

\* A call of add_profile that has passed its checks, and one of
\* cp_read_shellconfig, whose file is there.
CallRecords == [profile: Profiles, next: Nat \ {0}, at: {"parents", "mask", "force"}]
Calls == {c \in CallRecords : Usable(c.profile)}
Opened == {r \in [file: Files, next: Nat \ {0}] : fs.content[r.file] # Missing}

ControlInv ==
    /\ fs \in FileSystems
    /\ phase \in Phases
    /\ index \in Nat \ {0}
    /\ dfs \in Seq(Calls)
    /\ reading \in Seq(Opened)
    /\ reading # <<>> => phase \in Reading
    /\ phase = "profile" => dfs # <<>>
    /\ phase = "defaults" => fs.defaults # NULL
    /\ finished => phase \in {"finished", "mainRepo", "ready", "failed"}
    /\ phase \in {"finished", "mainRepo", "ready"} => finished

\* What config holds: before the final pass a value that a file may assign,
\* after it, in the variables the settings still write, a value of that kind.
ValuesInv ==
    /\ ~finished => \A k \in Vars : config[k] \in {NULL} \cup Inputs[k]
    /\ finished => \A k \in PlainVars \cup {Chost} : config[k] \in PlainValues
    /\ phase = "mainRepo" => config[Portdir] # NULL

SettingsInv == TypeInv /\ ControlInv /\ ValuesInv

-----------------------------------------------------------------------------
\* The top of a stack, and what is left without it.
LEMMA TopType ==
    ASSUME NEW S, NEW stack \in Seq(S), stack # <<>>
    PROVE  /\ Last(stack) \in S
           /\ Front(stack) \in Seq(S)
           /\ Front(stack) = <<>> <=> Len(stack) = 1
<1>1. PICK n \in Nat : n = Len(stack) /\ n # 0
  BY EmptySeq
<1>2. \A i \in 1..n : stack[i] \in S
  BY <1>1
<1>3. Last(stack) \in S
  BY <1>1, <1>2 DEF Last
<1>4. /\ SubSeq(stack, 1, n - 1) \in Seq(S)
      /\ Len(SubSeq(stack, 1, n - 1)) = IF 1 <= n - 1 THEN (n - 1) - 1 + 1 ELSE 0
  BY <1>2, SubSeqProperties
<1>5. PICK front \in Seq(S) : front = SubSeq(stack, 1, n - 1)
  BY <1>4
<1>6. Len(front) = n - 1
  BY <1>1, <1>4, <1>5
<1>7. front = <<>> <=> n = 1
  BY <1>6, EmptySeq
<1> QED  BY <1>1, <1>3, <1>5, <1>7 DEF Front

\* The top of a stack is replaced.
LEMMA ReplaceTop ==
    ASSUME NEW S, NEW stack \in Seq(S), stack # <<>>, NEW top \in S
    PROVE  /\ [stack EXCEPT ![Len(stack)] = top] \in Seq(S)
           /\ [stack EXCEPT ![Len(stack)] = top] # <<>>
<1>1. Len(stack) \in Nat \ {0}
  BY EmptySeq
<1>2. Len(stack) \in 1..Len(stack)
  BY <1>1
<1>3. /\ [stack EXCEPT ![Len(stack)] = top] \in Seq(S)
      /\ Len([stack EXCEPT ![Len(stack)] = top]) = Len(stack)
  BY <1>2, ExceptSeq
<1> QED  BY <1>1, <1>3, EmptySeq

\* Something is pushed.
LEMMA Push ==
    ASSUME NEW S, NEW stack \in Seq(S), NEW top \in S
    PROVE  Append(stack, top) \in Seq(S) /\ Append(stack, top) # <<>>
<1>1. Append(stack, top) \in Seq(S) /\ Len(Append(stack, top)) = Len(stack) + 1
  OBVIOUS
<1>2. Len(stack) \in Nat
  OBVIOUS
<1> QED  BY <1>1, <1>2, EmptySeq

\* One element is a stack.
LEMMA Single ==
    ASSUME NEW S, NEW top \in S
    PROVE  <<top>> \in Seq(S) /\ <<top>> # <<>>
  OBVIOUS
-----------------------------------------------------------------------------
\* find_profile gives a path.
LEMMA RootType ==
    ASSUME fs \in FileSystems
    PROVE  Root \in Profiles
<1>1. fs.links \in [{"etc", "portage"} -> {Missing} \cup Profiles]
  BY DiskAssumption
<1>2. fs.links["etc"] \in {Missing} \cup Profiles /\ fs.links["portage"] \in {Missing} \cup Profiles
  BY <1>1
<1>3. CASE fs.links["etc"] # Missing
  BY <1>2, <1>3 DEF Root
<1>4. CASE fs.links["etc"] = Missing /\ fs.links["portage"] # Missing
  BY <1>2, <1>4 DEF Root
<1>5. CASE fs.links["etc"] = Missing /\ fs.links["portage"] = Missing
  BY <1>5, PlacesAssumption DEF Root
<1> QED  BY <1>3, <1>4, <1>5

\* The file being read is there, and the statement to run is one of those the
\* disk may hold.
LEMMA CurrentType ==
    ASSUME ControlInv, reading # <<>>
    PROVE  /\ File \in Opened
           /\ AtStatement => Current \in Statement /\ WellFormed(Current)
<1>1. File \in Opened
  BY TopType DEF File, ControlInv
<1>2. File.file \in Files /\ File.next \in Nat \ {0} /\ Text # Missing
  BY <1>1 DEF Opened, Text
<1>3. /\ Text.stmts \in Seq(Statement)
      /\ \A i \in DOMAIN Text.stmts : WellFormed(Text.stmts[i])
  BY <1>2, DiskAssumption DEF ControlInv, Text
<1>4. ASSUME AtStatement
      PROVE  File.next \in DOMAIN Text.stmts
  BY <1>2, <1>3, <1>4 DEF AtStatement
<1> QED  BY <1>1, <1>3, <1>4 DEF Current, WellFormed

\* What a step of Settings has to be shown to do.
StepOK == SettingsInv' /\ [IncNext]_incVars

\* A step that calls no operation of Incrementals.
LEMMA QuietStep ==
    ASSUME SettingsInv, UNCHANGED <<incVars, fs>>, ControlInv',
           phase' = "mainRepo" => phase = "mainRepo"
    PROVE  StepOK
<1>1. [IncNext]_incVars
  OBVIOUS
<1>2. TypeInv'
  BY <1>1, TypeStep DEF SettingsInv
<1>3. ValuesInv'
  BY DEF SettingsInv, ValuesInv, incVars
<1> QED  BY <1>1, <1>2, <1>3 DEF StepOK, SettingsInv

\* What may be on the stacks depends on the disk alone.
LEMMA SameDisk ==
    ASSUME UNCHANGED fs
    PROVE  Opened' = Opened /\ Calls' = Calls
  BY DEF Opened, Calls, Usable

\* The error path.
LEMMA FailStep ==
    ASSUME SettingsInv, UNCHANGED fs, Fail
    PROVE  StepOK
<1>1. ControlInv'
  BY EmptySeq DEF Fail, SettingsInv, ControlInv, Phases, Reading, incVars
<1> QED  BY <1>1, QuietStep DEF Fail

\* cp_read_shellconfig opens a file that is there.
LEMMA OpenType ==
    ASSUME NEW f \in Files, fs.content[f] # Missing
    PROVE  Open(f) \in Opened
  BY DEF Open, Opened
-----------------------------------------------------------------------------
\* add_profile goes on in the same call.
LEMMA MoveType ==
    ASSUME ControlInv, dfs # <<>>, NEW where \in {"parents", "mask", "force"}, MoveTo(where)
    PROVE  dfs' \in Seq(Calls) /\ dfs' # <<>> /\ UNCHANGED index
<1>1. dfs \in Seq(Calls) /\ Last(dfs) \in Calls
  BY TopType DEF ControlInv
<1>2. PICK top \in Calls : top = [Last(dfs) EXCEPT !.at = where]
  <2>1. PICK c \in Calls : c = Last(dfs)
    BY <1>1
  <2>2. [c EXCEPT !.at = where] = [profile |-> c.profile, next |-> c.next, at |-> where]
    BY DEF Calls, CallRecords
  <2> QED  BY <2>1, <2>2 DEF Calls, CallRecords
<1>3. dfs' = [dfs EXCEPT ![Len(dfs)] = top] /\ UNCHANGED index
  BY <1>2 DEF MoveTo, Last
<1> QED  BY <1>1, <1>3, ReplaceTop

\* The loop over the files goes on.
LEMMA NextType ==
    ASSUME ControlInv, NextFile
    PROVE  index' \in Nat \ {0} /\ UNCHANGED dfs
  BY DEF ControlInv, NextFile

\* load_make_config on a file that may not be there.
LEMMA LoadStep ==
    ASSUME SettingsInv, NEW f \in Files, phase \in Reading,
           UNCHANGED <<incVars, fs, phase>>,
           \/ /\ fs.content[f] = Missing
              /\ UNCHANGED reading
              /\ index' \in Nat \ {0} /\ dfs' \in Seq(Calls)
              /\ phase = "profile" => dfs' # <<>>
           \/ /\ fs.content[f] # Missing
              /\ reading' = <<Open(f)>>
              /\ UNCHANGED <<index, dfs>>
    PROVE  StepOK
<1>1. reading' \in Seq(Opened)
  BY OpenType, Single DEF SettingsInv, ControlInv
<1>2. index' \in Nat \ {0} /\ dfs' \in Seq(Calls) /\ (phase = "profile" => dfs' # <<>>)
  BY DEF SettingsInv, ControlInv
<1>3. ControlInv'
  BY <1>1, <1>2, SameDisk DEF SettingsInv, ControlInv, incVars, Reading
<1> QED  BY <1>3, QuietStep

LEMMA LoadGlobalStep ==
    ASSUME SettingsInv, LoadGlobal
    PROVE  StepOK
<1>1. index \in 1..Len(Globals) /\ Globals[index] \in Files
  BY PlacesAssumption DEF LoadGlobal, SettingsInv, ControlInv
<1>2. CASE fs.content[Globals[index]] = Missing
  <2>1. NextFile /\ UNCHANGED <<reading, incVars, fs, phase>> /\ phase = "globals"
    BY <1>2 DEF LoadGlobal, Load
  <2>2. index' \in Nat \ {0} /\ UNCHANGED dfs
    BY <2>1, NextType DEF SettingsInv
  <2> QED  BY <1>1, <1>2, <2>1, <2>2, LoadStep DEF Reading, SettingsInv, ControlInv
<1>3. CASE fs.content[Globals[index]] # Missing
  BY <1>1, <1>3, LoadStep DEF LoadGlobal, Load, Reading
<1> QED  BY <1>2, <1>3

LEMMA LoadConfStep ==
    ASSUME SettingsInv, LoadConf
    PROVE  StepOK
<1>1. index \in 1..Len(Confs) /\ Confs[index] \in Files
  BY PlacesAssumption DEF LoadConf, SettingsInv, ControlInv
<1>2. CASE fs.content[Confs[index]] = Missing
  <2>1. NextFile /\ UNCHANGED <<reading, incVars, fs, phase>> /\ phase = "confs"
    BY <1>2 DEF LoadConf, Load
  <2>2. index' \in Nat \ {0} /\ UNCHANGED dfs
    BY <2>1, NextType DEF SettingsInv
  <2> QED  BY <1>1, <1>2, <2>1, <2>2, LoadStep DEF Reading, SettingsInv, ControlInv
<1>3. CASE fs.content[Confs[index]] # Missing
  BY <1>1, <1>3, LoadStep DEF LoadConf, Load, Reading
<1> QED  BY <1>2, <1>3

\* The call of add_profile that is on top.
LEMMA CallerType ==
    ASSUME ControlInv, phase = "profile"
    PROVE  dfs # <<>> /\ Caller \in Calls
  BY TopType DEF ControlInv, Caller

LEMMA LoadMakeDefaultsStep ==
    ASSUME SettingsInv, LoadMakeDefaults
    PROVE  StepOK
<1>1. phase = "profile" /\ dfs # <<>> /\ Caller \in Calls
  BY CallerType DEF LoadMakeDefaults, SettingsInv
<1>2. PICK f \in Files : f = MakeDefaults[Caller.profile]
  BY <1>1, PlacesAssumption DEF Calls, CallRecords
<1>3. CASE fs.content[f] = Missing
  <2>1. MoveTo("mask") /\ UNCHANGED <<reading, incVars, fs, phase>>
    BY <1>2, <1>3 DEF LoadMakeDefaults, Load
  <2>2. dfs' \in Seq(Calls) /\ dfs' # <<>> /\ UNCHANGED index
    BY <1>1, <2>1, MoveType DEF SettingsInv
  <2> QED  BY <1>1, <1>3, <2>1, <2>2, LoadStep DEF Reading, SettingsInv, ControlInv
<1>4. CASE fs.content[f] # Missing
  BY <1>1, <1>2, <1>4, LoadStep DEF LoadMakeDefaults, Load, Reading
<1> QED  BY <1>3, <1>4
-----------------------------------------------------------------------------
\* A step that calls operations of Incrementals as their module allows.
LEMMA CallStep ==
    ASSUME SettingsInv, IncNext, ControlInv', ValuesInv'
    PROVE  StepOK
  BY TypeStep DEF StepOK, SettingsInv

LEMMA StartStep ==
    ASSUME SettingsInv, Start
    PROVE  StepOK
<1>1. CASE ~fs.rootOk
  BY <1>1, FailStep DEF Start
<1>2. CASE fs.rootOk
  <2>1. /\ phase = "start" /\ phase' = IF fs.defaults = NULL THEN "globals" ELSE "defaults"
        /\ UNCHANGED <<incVars, fs, index, dfs, reading>>
    BY <1>2 DEF Start
  <2>2. ControlInv'
    BY <2>1, SameDisk DEF SettingsInv, ControlInv, incVars, Phases, Reading
  <2> QED  BY <2>1, <2>2, QuietStep
<1> QED  BY <1>1, <1>2

\* An assignment of a value that the variable may get.
LEMMA AssignStep ==
    ASSUME SettingsInv, NEW k \in Vars, NEW v \in Inputs[k], Assign(k, v), ControlInv',
           phase' # "mainRepo"
    PROVE  StepOK
<1>1. IncNext
  BY DEF IncNext
<1>2. ~finished /\ ~finished' /\ config' = [config EXCEPT ![k] = v]
  BY DEF Assign
<1>3. config \in [Vars -> {NULL} \cup Values(Flags \cup ExpandNames)]
  BY DEF SettingsInv, TypeInv, IncTypeOK
<1>4. ValuesInv'
  BY <1>2, <1>3 DEF SettingsInv, ValuesInv
<1> QED  BY <1>1, <1>4, CallStep

LEMMA InsertDefaultsStep ==
    ASSUME SettingsInv, InsertDefaults
    PROVE  StepOK
<1>1. /\ phase = "defaults" /\ phase' = "insertedDefaults"
      /\ UNCHANGED <<fs, index, dfs, reading>>
      /\ UNCHANGED finished
  BY DEF InsertDefaults, Assign, incVars
<1>2. ControlInv'
  BY <1>1, SameDisk DEF SettingsInv, ControlInv, Phases, Reading
<1>3. CASE fs.defaults = <<>>
  BY <1>1, <1>2, <1>3, QuietStep DEF InsertDefaults
<1>4. CASE fs.defaults # <<>>
  <2>1. /\ fs.defaults \in Seq(Statement)
        /\ \A i \in DOMAIN fs.defaults :
             fs.defaults[i].op = "set" /\ fs.defaults[i].val \in Inputs[fs.defaults[i].var]
    BY <1>1, DiskAssumption DEF SettingsInv, ControlInv
  <2>2. 1 \in DOMAIN fs.defaults
    BY <1>4, <2>1, EmptySeq
  <2>3. PICK s \in Statement : s = fs.defaults[1] /\ s.op = "set" /\ s.val \in Inputs[s.var]
    BY <2>1, <2>2
  <2>4. s.var \in Vars
    BY <2>3 DEF Statement
  <2> QED  BY <1>1, <1>2, <1>4, <2>3, <2>4, AssignStep DEF InsertDefaults
<1> QED  BY <1>3, <1>4

LEMMA EnterProfileStep ==
    ASSUME SettingsInv, EnterProfile
    PROVE  StepOK
<1>1. UNCHANGED <<incVars, fs>>
  BY DEF EnterProfile
<1>2. CASE ~Usable(Root)
  BY <1>1, <1>2, FailStep DEF EnterProfile, EnterRoot
<1>3. CASE Usable(Root)
  <2>1. /\ phase' = "profile" /\ dfs' = <<Call(Root)>> /\ index' = 1 /\ UNCHANGED reading
        /\ phase \in {"insertedDefaults", "globals"}
    BY <1>3 DEF EnterProfile, EnterRoot
  <2>2. Call(Root) \in Calls
    BY <1>3, RootType DEF SettingsInv, ControlInv, Call, Calls, CallRecords
  <2>3. dfs' \in Seq(Calls) /\ dfs' # <<>>
    BY <2>1, <2>2, Single
  <2>4. ControlInv'
    BY <1>1, <2>1, <2>3, SameDisk DEF SettingsInv, ControlInv, incVars, Phases, Reading
  <2> QED  BY <1>1, <2>1, <2>4, QuietStep
<1> QED  BY <1>2, <1>3

\* The reader goes on to the next statement.
LEMMA AdvanceType ==
    ASSUME ControlInv, reading # <<>>
    PROVE  Advanced \in Seq(Opened) /\ Advanced # <<>>
<1>1. reading \in Seq(Opened) /\ Last(reading) \in Opened
  BY TopType DEF ControlInv
<1>2. PICK top \in Opened : top = [Last(reading) EXCEPT !.next = @ + 1]
  <2>1. PICK r \in Opened : r = Last(reading)
    BY <1>1
  <2>2. r.file \in Files /\ r.next + 1 \in Nat \ {0} /\ fs.content[r.file] # Missing
    BY DEF Opened
  <2>3. [r EXCEPT !.next = @ + 1] = [file |-> r.file, next |-> r.next + 1]
    BY DEF Opened
  <2> QED  BY <2>1, <2>2, <2>3 DEF Opened
<1>3. Advanced = [reading EXCEPT ![Len(reading)] = top]
  BY <1>2 DEF Advanced, Last
<1> QED  BY <1>1, <1>3, ReplaceTop

LEMMA RunAssignmentStep ==
    ASSUME SettingsInv, RunAssignment
    PROVE  StepOK
<1>1. /\ reading # <<>> /\ AtStatement /\ reading' = Advanced
      /\ UNCHANGED <<fs, phase, index, dfs>>
      /\ Current.op = "set"
  BY DEF RunAssignment, AtStatement
<1>2. ~finished /\ ~finished' /\ phase \in Reading
  BY <1>1 DEF RunAssignment, Assign, SettingsInv, ControlInv
<1>3. Current \in Statement /\ WellFormed(Current)
  BY <1>1, CurrentType DEF SettingsInv
<1>4. Current.var \in Vars /\ Current.ref \in Vars \cup {NULL}
  BY <1>1, <1>3 DEF Statement
<1>5. PICK v : v = IF Current.ref = NULL THEN Current.val
                   ELSE Join(Lookup(Current.ref), Current.val)
  OBVIOUS
<1>6. v \in Inputs[Current.var]
  <2>1. CASE Current.ref = NULL
    BY <1>1, <1>3, <1>5, <2>1 DEF WellFormed
  <2>2. CASE Current.ref # NULL
    <3>1. Lookup(Current.ref) \in Inputs[Current.ref] \cup {Empty}
      BY <1>2, <1>4, <2>2 DEF Lookup, SettingsInv, ValuesInv
    <3> QED  BY <1>1, <1>3, <1>5, <2>2, <3>1 DEF WellFormed
  <2> QED  BY <2>1, <2>2
<1>7. Advanced \in Seq(Opened)
  BY <1>1, AdvanceType DEF SettingsInv
<1>8. ControlInv'
  BY <1>1, <1>2, <1>7, SameDisk DEF SettingsInv, ControlInv
<1>9. Assign(Current.var, v)
  BY <1>5 DEF RunAssignment
<1> QED  BY <1>1, <1>2, <1>4, <1>6, <1>8, <1>9, AssignStep DEF Reading

LEMMA RunSourceStep ==
    ASSUME SettingsInv, RunSource
    PROVE  StepOK
<1>1. /\ reading # <<>> /\ AtStatement /\ UNCHANGED fs /\ Current.op = "source"
  BY DEF RunSource, AtStatement
<1>2. PICK f \in Files : f = Current.file
  BY <1>1, CurrentType DEF SettingsInv, Statement
<1>3. CASE fs.content[f] = Missing
  BY <1>2, <1>3, FailStep DEF RunSource
<1>4. CASE fs.content[f] # Missing
  <2>1. reading' = Append(Advanced, Open(f)) /\ UNCHANGED <<incVars, phase, index, dfs>>
    BY <1>2, <1>4 DEF RunSource
  <2>2. reading' \in Seq(Opened)
    BY <1>1, <1>4, <2>1, AdvanceType, OpenType, Push DEF SettingsInv
  <2>3. ControlInv'
    BY <1>1, <2>1, <2>2, SameDisk DEF SettingsInv, ControlInv, incVars
  <2> QED  BY <1>1, <2>1, <2>3, QuietStep
<1> QED  BY <1>3, <1>4
-----------------------------------------------------------------------------
\* The end of a file; that of the outermost one moves the values out of config.
LEMMA EndFileStep ==
    ASSUME SettingsInv, EndFile
    PROVE  StepOK
<1>1. reading # <<>> /\ UNCHANGED fs /\ phase \in Reading /\ ~finished
  BY DEF EndFile, SettingsInv, ControlInv, Reading
<1>2. CASE ~Text.sound
  BY <1>1, <1>2, FailStep DEF EndFile
<1>3. CASE Text.sound
  <2>1. /\ reading' = Front(reading) /\ UNCHANGED phase
        /\ IF Len(reading) > 1 THEN UNCHANGED <<incVars, index, dfs>>
           ELSE ConfigChanged(phase # "confs") /\ AfterFile
    BY <1>3 DEF EndFile
  <2>2. reading' \in Seq(Opened)
    BY <1>1, <2>1, TopType DEF SettingsInv, ControlInv
  <2>3. CASE Len(reading) > 1
    <3>1. ControlInv'
      BY <1>1, <2>1, <2>2, <2>3, SameDisk DEF SettingsInv, ControlInv, incVars
    <3> QED  BY <1>1, <2>1, <2>3, <3>1, QuietStep
  <2>4. CASE ~(Len(reading) > 1)
    <3>1. ConfigChanged(phase # "confs") /\ AfterFile
      BY <2>1, <2>4
    <3>2. IncNext /\ UNCHANGED finished
      <4>1. PICK stack \in BOOLEAN : stack = (phase # "confs")
        OBVIOUS
      <4>2. ConfigChanged(stack)
        BY <3>1, <4>1
      <4>3. IncNext
        BY <4>2 DEF IncNext
      <4>4. UNCHANGED finished
        BY <4>2 DEF ConfigChanged
      <4> QED  BY <4>3, <4>4
    <3>3. /\ index' \in Nat \ {0} /\ dfs' \in Seq(Calls)
          /\ phase = "profile" => dfs' # <<>>
      <4>1. CASE phase = "profile"
        <5>1. dfs # <<>> /\ MoveTo("mask")
          BY <3>1, <4>1, CallerType DEF AfterFile, SettingsInv
        <5> QED  BY <5>1, MoveType DEF SettingsInv, ControlInv
      <4>2. CASE phase # "profile"
        <5>1. NextFile
          BY <3>1, <4>2 DEF AfterFile
        <5> QED  BY <4>2, <5>1, NextType DEF SettingsInv, ControlInv
      <4> QED  BY <4>1, <4>2
    <3>4. ControlInv'
      BY <1>1, <2>1, <2>2, <3>2, <3>3, SameDisk DEF SettingsInv, ControlInv
    <3>5. \A k \in Vars : config'[k] \in {NULL, config[k]}
      <4>1. PICK stack \in BOOLEAN : ConfigChanged(stack)
        <5>1. PICK stack \in BOOLEAN : stack = (phase # "confs")
          OBVIOUS
        <5> QED  BY <3>1, <5>1
      <4> QED  BY <4>1 DEF ConfigChanged
    <3>6. ValuesInv'
      BY <1>1, <2>1, <3>2, <3>5 DEF SettingsInv, ValuesInv, Reading
    <3> QED  BY <3>2, <3>4, <3>6, CallStep
  <2> QED  BY <2>3, <2>4
<1> QED  BY <1>2, <1>3

LEMMA EnterParentStep ==
    ASSUME SettingsInv, EnterParent
    PROVE  StepOK
<1>1. /\ phase = "profile" /\ reading = <<>> /\ UNCHANGED fs
      /\ dfs # <<>> /\ Caller \in Calls
  BY CallerType DEF EnterParent, SettingsInv
<1>2. PICK lines : lines = GetLines(fs.parents[Caller.profile])
  OBVIOUS
<1>3. PICK p : p = lines[Caller.next]
  OBVIOUS
<1>4. CASE ~Usable(p)
  BY <1>1, <1>2, <1>3, <1>4, FailStep DEF EnterParent
<1>5. CASE Usable(p)
  <2>1. /\ dfs' = Append([dfs EXCEPT ![Len(dfs)].next = @ + 1], Call(p))
        /\ UNCHANGED <<incVars, phase, index, reading>>
        /\ Caller.next <= Len(lines)
    BY <1>2, <1>3, <1>5 DEF EnterParent
  <2>2. PICK top \in Calls : top = [Last(dfs) EXCEPT !.next = @ + 1]
    <3>1. PICK c \in Calls : c = Last(dfs)
      BY <1>1 DEF Caller
    <3>2. [c EXCEPT !.next = @ + 1] = [profile |-> c.profile, next |-> c.next + 1, at |-> c.at]
      BY DEF Calls, CallRecords
    <3>3. c.next + 1 \in Nat \ {0}
      BY DEF Calls, CallRecords
    <3> QED  BY <3>1, <3>2, <3>3 DEF Calls, CallRecords
  <2>3. [dfs EXCEPT ![Len(dfs)].next = @ + 1] = [dfs EXCEPT ![Len(dfs)] = top]
    BY <2>2 DEF Last
  <2>4. [dfs EXCEPT ![Len(dfs)] = top] \in Seq(Calls)
    BY <1>1, <2>2, ReplaceTop DEF SettingsInv, ControlInv
  <2>5. Call(p) \in Calls
    <3>1. lines \in Seq(Profiles)
      BY <1>1, <1>2, DiskAssumption DEF Calls, CallRecords, Usable, SettingsInv, ControlInv
    <3>2. Caller.next \in 1..Len(lines)
      BY <1>1, <2>1, <3>1 DEF Calls, CallRecords
    <3> QED  BY <1>3, <1>5, <3>1, <3>2 DEF Call, Calls, CallRecords
  <2>6. dfs' \in Seq(Calls) /\ dfs' # <<>>
    BY <2>1, <2>3, <2>4, <2>5, Push
  <2>7. ControlInv'
    BY <1>1, <2>1, <2>6, SameDisk DEF SettingsInv, ControlInv, incVars
  <2> QED  BY <1>1, <2>1, <2>7, QuietStep
<1> QED  BY <1>4, <1>5
-----------------------------------------------------------------------------
LEMMA ReadMaskStep ==
    ASSUME SettingsInv, ReadMask
    PROVE  StepOK
<1>1. phase = "profile" /\ UNCHANGED fs /\ dfs # <<>> /\ Caller \in Calls
  BY CallerType DEF ReadMask, SettingsInv
<1>2. PICK v : v = fs.mask[Caller.profile]
  OBVIOUS
<1>3. CASE v = Unreadable
  BY <1>1, <1>2, <1>3, FailStep DEF ReadMask
<1>4. CASE v # Unreadable
  <2>1. ProcessMask(v) /\ MoveTo("force") /\ UNCHANGED <<phase, reading>>
    BY <1>2, <1>4 DEF ReadMask
  <2>2. v \in Inputs[Use]
    BY <1>1, <1>2, <1>4, DiskAssumption DEF Calls, CallRecords, SettingsInv, ControlInv
  <2>3. IncNext /\ UNCHANGED <<config, finished>>
    BY <2>1, <2>2 DEF IncNext, ProcessMask
  <2>4. dfs' \in Seq(Calls) /\ dfs' # <<>> /\ UNCHANGED index
    BY <1>1, <2>1, MoveType DEF SettingsInv
  <2>5. ControlInv'
    BY <1>1, <2>1, <2>3, <2>4, SameDisk DEF SettingsInv, ControlInv
  <2>6. ValuesInv'
    BY <2>1, <2>3 DEF SettingsInv, ValuesInv
  <2> QED  BY <2>3, <2>5, <2>6, CallStep
<1> QED  BY <1>3, <1>4

LEMMA ReadForceStep ==
    ASSUME SettingsInv, ReadForce
    PROVE  StepOK
<1>1. phase = "profile" /\ UNCHANGED fs /\ dfs # <<>> /\ Caller \in Calls
  BY CallerType DEF ReadForce, SettingsInv
<1>2. PICK v : v = fs.force[Caller.profile]
  OBVIOUS
<1>3. CASE v = Unreadable
  BY <1>1, <1>2, <1>3, FailStep DEF ReadForce
<1>4. CASE v # Unreadable
  <2>1. /\ ProcessForce(v) /\ dfs' = Front(dfs)
        /\ phase' = IF Len(dfs) = 1 THEN "confs" ELSE "profile"
        /\ UNCHANGED <<index, reading>>
    BY <1>2, <1>4 DEF ReadForce
  <2>2. v \in Inputs[Use]
    BY <1>1, <1>2, <1>4, DiskAssumption DEF Calls, CallRecords, SettingsInv, ControlInv
  <2>3. IncNext /\ UNCHANGED <<config, finished>> /\ ~finished
    BY <2>1, <2>2 DEF IncNext, ProcessForce
  <2>4. dfs' \in Seq(Calls) /\ (phase' = "profile" => dfs' # <<>>)
    BY <1>1, <2>1, TopType DEF SettingsInv, ControlInv
  <2>5. ControlInv'
    BY <1>1, <2>1, <2>3, <2>4, SameDisk DEF SettingsInv, ControlInv, Phases, Reading
  <2>6. ValuesInv'
    BY <2>1, <2>3 DEF SettingsInv, ValuesInv
  <2> QED  BY <2>3, <2>5, <2>6, CallStep
<1> QED  BY <1>3, <1>4

\* The variables that the settings write, and CHOST, are out of the reach of
\* the final pass.
LEMMA PlainUntouched ==
    ASSUME TypeInv, NEW k \in PlainVars \cup {Chost}
    PROVE  /\ FinalValue(k) = config[k]
           /\ k \in Vars
           /\ {NULL} \cup Inputs[k] \subseteq PlainValues
<1>1. /\ k \in Vars \ {Use, UseExpand, UseNoExpand}
      /\ k \notin DefaultIncrementals \cup ExpandNames
  BY NamesAssumption, PlainAssumption
<1>2. k \notin Registered /\ k \notin incrementals[UseExpand]
  BY <1>1, ExpandListed DEF TypeInv, RegisteredNames
<1>3. ~KeepsOwnWords(k)
  BY <1>2 DEF KeepsOwnWords
<1>4. FinalValue(k) = config[k]
  BY <1>1, <1>2, <1>3 DEF FinalValue
<1> QED  BY <1>1, <1>4 DEF PlainValues

LEMMA FinishStep ==
    ASSUME SettingsInv, Finish
    PROVE  StepOK
<1>1. /\ ConfigFinished /\ phase = "confs" /\ phase' = "finished"
      /\ reading = <<>> /\ UNCHANGED <<fs, index, dfs, reading>>
  BY DEF Finish
<1>2. IncNext /\ ~finished /\ finished'
  BY <1>1 DEF IncNext, ConfigFinished
<1>3. ControlInv'
  BY <1>1, <1>2, SameDisk DEF SettingsInv, ControlInv, Phases
<1>4. ASSUME NEW k \in PlainVars \cup {Chost}
      PROVE  config'[k] \in PlainValues
  <2>1. k \in Vars /\ config'[k] = config[k]
    BY <1>1, PlainUntouched DEF ConfigFinished, SettingsInv
  <2> QED  BY <1>2, <2>1, PlainUntouched DEF SettingsInv, ValuesInv
<1>5. ValuesInv'
  BY <1>1, <1>2, <1>4 DEF ValuesInv
<1> QED  BY <1>2, <1>3, <1>5, CallStep

\* The settings write values that are not incremental.
LEMMA OverrideStep ==
    ASSUME SettingsInv, NEW new \in [PlainVars -> PlainValues], Override(new),
           phase \in {"finished", "mainRepo"}, phase' \in {"mainRepo", "ready"},
           UNCHANGED <<fs, index, dfs, reading>>,
           phase' = "mainRepo" => new[Portdir] # NULL
    PROVE  StepOK
<1>1. IncNext /\ finished /\ finished'
  BY DEF IncNext, Override
<1>2. config' = [k \in Vars |-> IF k \in PlainVars THEN new[k] ELSE config[k]]
  BY DEF Override
<1>3. PlainVars \cup {Chost} \subseteq Vars /\ Portdir \in PlainVars
  BY NamesAssumption, PlainAssumption
<1>4. ValuesInv'
  BY <1>1, <1>2, <1>3 DEF SettingsInv, ValuesInv
<1>5. ControlInv'
  BY <1>1, SameDisk DEF SettingsInv, ControlInv, Phases, Reading
<1> QED  BY <1>1, <1>4, <1>5, CallStep
LEMMA WritePlainStep ==
    ASSUME SettingsInv, WritePlain
    PROVE  StepOK
<1>1. PICK new : new = [k \in PlainVars |->
          CASE k \in {ConfigRoot, RootDir} -> ConfigRootDir
            [] k = Cbuild /\ config[k] = NULL -> config[Chost]
            [] k = Portdir /\ config[k] = NULL -> Portage
            [] OTHER -> config[k]]
  OBVIOUS
<1>2. /\ phase = "finished" /\ phase' = "mainRepo" /\ Override(new)
      /\ UNCHANGED <<fs, index, dfs, reading>>
  BY <1>1 DEF WritePlain
<1>3. \A k \in PlainVars \cup {Chost} : config[k] \in PlainValues
  BY <1>2 DEF SettingsInv, ControlInv, ValuesInv
<1>4. ASSUME NEW k \in PlainVars
      PROVE  new[k] \in PlainValues /\ (k = Portdir => new[k] # NULL)
  <2>1. CASE k \in {ConfigRoot, RootDir}
    <3>1. k # Portdir /\ k # Cbuild
      BY <2>1, PlainAssumption
    <3>2. new[k] = ConfigRootDir
      BY <1>1, <2>1, <3>1
    <3> QED  BY <3>1, <3>2, PlainAssumption
  <2>2. CASE k = Cbuild /\ config[k] = NULL
    BY <1>1, <1>3, <2>2, PlainAssumption
  <2>3. CASE k = Portdir /\ config[k] = NULL
    BY <1>1, <2>3, PlainAssumption
  <2>4. CASE k \notin {ConfigRoot, RootDir} /\ config[k] # NULL
    BY <1>1, <1>3, <2>4
  <2> QED  BY <2>1, <2>2, <2>3, <2>4, PlainAssumption
<1>5. new \in [PlainVars -> PlainValues] /\ new[Portdir] # NULL
  BY <1>1, <1>4, PlainAssumption
<1> QED  BY <1>2, <1>5, OverrideStep

LEMMA InitMainRepoStep ==
    ASSUME SettingsInv, InitMainRepo
    PROVE  StepOK
<1>1. UNCHANGED fs /\ phase = "mainRepo"
  BY DEF InitMainRepo
<1>2. CASE ~fs.portdirOk
  BY <1>1, <1>2, FailStep DEF InitMainRepo
<1>3. CASE fs.portdirOk
  <2>1. PICK new : new = [k \in PlainVars |->
                            IF k = Portdir THEN RealPath(config[k]) ELSE config[k]]
    OBVIOUS
  <2>2. Override(new) /\ phase' = "ready" /\ UNCHANGED <<fs, index, dfs, reading>>
    BY <1>3, <2>1 DEF InitMainRepo
  <2>3. \A k \in PlainVars : config[k] \in PlainValues
    BY <1>1 DEF SettingsInv, ControlInv, ValuesInv
  <2>4. config[Portdir] \in PlainValues \ {NULL}
    BY <1>1, <2>3, PlainAssumption DEF SettingsInv, ValuesInv
  <2>5. RealPath(config[Portdir]) \in PlainValues
    BY <2>4, PlainAssumption
  <2>6. new \in [PlainVars -> PlainValues]
    BY <2>1, <2>3, <2>5
  <2> QED  BY <1>1, <2>2, <2>6, OverrideStep
<1> QED  BY <1>2, <1>3
-----------------------------------------------------------------------------
\* The start of cp_settings_new.
LEMMA SettingsInit == Init => SettingsInv
<1> SUFFICES ASSUME Init PROVE SettingsInv
  OBVIOUS
<1>1. TypeInv
  BY InitType DEF Init
<1>2. ControlInv
  BY EmptySeq DEF Init, IncInit, ControlInv, Phases, Reading
<1>3. ValuesInv
  BY DEF Init, IncInit, ValuesInv
<1> QED  BY <1>1, <1>2, <1>3 DEF SettingsInv

\* Every step of the load is a step of Incrementals and keeps the invariant.
LEMMA SettingsStep == SettingsInv /\ [Next]_vars => StepOK
<1> SUFFICES ASSUME SettingsInv, [Next]_vars PROVE StepOK
  OBVIOUS
<1>1. CASE UNCHANGED vars
  <2>1. UNCHANGED <<incVars, fs, phase, index, dfs, reading>>
    BY <1>1 DEF vars, control
  <2>2. ControlInv'
    BY <2>1, SameDisk DEF SettingsInv, ControlInv, incVars
  <2> QED  BY <2>1, <2>2, QuietStep
<1>2. CASE Step
  BY <1>2, StartStep, InsertDefaultsStep, EnterProfileStep, LoadGlobalStep, LoadConfStep,
     LoadMakeDefaultsStep, RunAssignmentStep, RunSourceStep, EndFileStep, EnterParentStep,
     ReadMaskStep, ReadForceStep, FinishStep, WritePlainStep, InitMainRepoStep DEF Step
<1> QED  BY <1>1, <1>2 DEF Next, Returned

\* The stacks of the load hold profiles that can be used and files that are
\* there, files are read before the final pass and never after it, and config
\* holds what files may assign.
THEOREM LoadIsSound == Spec => []SettingsInv
<1>1. SettingsInv /\ [Next]_vars => SettingsInv'
  BY SettingsStep DEF StepOK
<1> QED  BY SettingsInit, <1>1, PTL DEF Spec

\* cp_settings_new calls the operations of incrementals.c only as Incrementals
\* allows: it implements that module.
THEOREM LoadImplementsIncrementals == Spec => IncSpec
<1>1. Init => IncInit
  BY DEF Init
<1>2. SettingsInv /\ [Next]_vars => [IncNext]_incVars
  BY SettingsStep DEF StepOK
<1> QED  BY <1>1, <1>2, LoadIsSound, PTL DEF Spec, IncSpec

\* What cp_settings_new returns: in every load, whatever the disk, no value is
\* stacked twice, the final USE respects use.mask and use.force, and the
\* USE_EXPAND variables that the walk visits before USE divide it.
THEOREM LoadedUse == Spec => [](StackedOnce /\ MaskBeatsForce /\ ExpandFollowsUse /\ UseIsDivided)
  BY LoadImplementsIncrementals, ValuesStackedOnce, UseRespectsProfiles,
     ExpandVariablesFollowUse, UseDivided, PTL
-----------------------------------------------------------------------------
\* The C stack: its lowest element is in B, its top in T, and each element is
\* related by W to the one above it.
Chained(st, B, T, W) ==
    st # <<>> =>
        /\ st[1] \in B
        /\ st[Len(st)] \in T
        /\ \A i \in 1..(Len(st) - 1) : <<st[i], st[i + 1]>> \in W

LEMMA StackOfOne ==
    ASSUME NEW B, NEW T, NEW W, NEW x \in B, x \in T
    PROVE  Chained(<<x>>, B, T, W)
<1>1. PICK st : st = <<x>>
  OBVIOUS
<1>2. Len(st) = 1 /\ st[1] = x /\ 1..(1 - 1) = {}
  BY <1>1
<1>3. Chained(st, B, T, W)
  BY <1>2 DEF Chained
<1> QED  BY <1>1, <1>3

LEMMA StackOfNone ==
    ASSUME NEW B, NEW T, NEW W
    PROVE  Chained(<<>>, B, T, W)
BY DEF Chained

\* The top is replaced by what the element below it accepts.
LEMMA StackReplaced ==
    ASSUME NEW S, NEW st \in Seq(S), st # <<>>, NEW B, NEW T, NEW W, Chained(st, B, T, W),
           NEW top \in S, top \in T, st[Len(st)] \in B => top \in B,
           \A a \in S : <<a, st[Len(st)]>> \in W => <<a, top>> \in W
    PROVE  Chained([st EXCEPT ![Len(st)] = top], B, T, W)
<1>1. PICK n \in Nat \ {0} : n = Len(st)
  BY EmptySeq
<1>2. PICK t : t = [st EXCEPT ![n] = top]
  OBVIOUS
<1>3. /\ Len(t) = n /\ t[n] = top
      /\ \A i \in 1..n : i # n => t[i] = st[i]
      /\ \A i \in 1..n : st[i] \in S
  BY <1>1, <1>2
<1>4. st[1] \in B /\ \A i \in 1..(n - 1) : <<st[i], st[i + 1]>> \in W
  BY <1>1 DEF Chained
<1>5. t[1] \in B
  BY <1>1, <1>3, <1>4
<1>6. ASSUME NEW i \in 1..(n - 1) PROVE <<t[i], t[i + 1]>> \in W
  <2>1. i \in 1..n /\ i # n /\ i + 1 \in 1..n /\ t[i] = st[i] /\ st[i] \in S
    BY <1>3, <1>6
  <2>2. <<st[i], st[i + 1]>> \in W
    BY <1>4, <1>6
  <2>3. CASE i + 1 = n
    BY <1>1, <1>3, <2>1, <2>2, <2>3
  <2>4. CASE i + 1 # n
    BY <1>3, <2>1, <2>2, <2>4
  <2> QED  BY <2>3, <2>4
<1>7. Chained(t, B, T, W)
  BY <1>3, <1>5, <1>6 DEF Chained
<1> QED  BY <1>1, <1>2, <1>7

\* The top is replaced, and something is pushed for which it waits.
LEMMA StackPushed ==
    ASSUME NEW S, NEW st \in Seq(S), st # <<>>, NEW B, NEW T, NEW W, Chained(st, B, T, W),
           NEW top \in S, st[Len(st)] \in B => top \in B,
           \A a \in S : <<a, st[Len(st)]>> \in W => <<a, top>> \in W,
           NEW new \in T, <<top, new>> \in W
    PROVE  Chained(Append([st EXCEPT ![Len(st)] = top], new), B, T, W)
<1>1. PICK n \in Nat \ {0} : n = Len(st)
  BY EmptySeq
<1>2. PICK t : t = [st EXCEPT ![n] = top]
  OBVIOUS
<1>3. /\ Len(t) = n /\ t[n] = top
      /\ \A i \in 1..n : i # n => t[i] = st[i]
      /\ \A i \in 1..n : st[i] \in S
      /\ t \in Seq(S)
  BY <1>1, <1>2
<1>4. PICK u : u = Append(t, new)
  OBVIOUS
<1>5. Len(u) = n + 1 /\ u[n + 1] = new /\ \A i \in 1..n : u[i] = t[i]
  BY <1>3, <1>4
<1>6. st[1] \in B /\ \A i \in 1..(n - 1) : <<st[i], st[i + 1]>> \in W
  BY <1>1 DEF Chained
<1>7. u[1] \in B
  BY <1>1, <1>3, <1>5, <1>6
<1>8. ASSUME NEW i \in 1..n PROVE <<u[i], u[i + 1]>> \in W
  <2>1. u[i] = t[i]
    BY <1>5
  <2>2. CASE i = n
    BY <1>3, <1>5, <2>1, <2>2
  <2>3. CASE i # n
    <3>1. i \in 1..(n - 1) /\ i + 1 \in 1..n /\ t[i] = st[i] /\ st[i] \in S /\ u[i + 1] = t[i + 1]
      BY <1>3, <1>5, <2>3
    <3>2. <<st[i], st[i + 1]>> \in W
      BY <1>6, <3>1
    <3>3. CASE i + 1 = n
      BY <1>1, <1>3, <2>1, <3>1, <3>2, <3>3
    <3>4. CASE i + 1 # n
      BY <1>3, <2>1, <3>1, <3>2, <3>4
    <3> QED  BY <3>3, <3>4
  <2> QED  BY <2>2, <2>3
<1>9. u # <<>> /\ Len(u) - 1 = n
  BY <1>5, EmptySeq
<1>10. Chained(u, B, T, W)
  BY <1>5, <1>7, <1>8, <1>9 DEF Chained
<1> QED  BY <1>1, <1>2, <1>4, <1>10

\* The top is popped, and what is below it goes on.
LEMMA StackPopped ==
    ASSUME NEW S, NEW st \in Seq(S), st # <<>>, NEW B, NEW T, NEW W, Chained(st, B, T, W),
           \A a \in S : <<a, st[Len(st)]>> \in W => a \in T
    PROVE  Chained(Front(st), B, T, W)
<1>1. PICK n \in Nat \ {0} : n = Len(st)
  BY EmptySeq
<1>2. \A i \in 1..n : st[i] \in S
  BY <1>1
<1>3. PICK t : t = Front(st)
  OBVIOUS
<1>4. t = SubSeq(st, 1, n - 1)
  BY <1>1, <1>3 DEF Front
<1>5. Len(t) = n - 1 /\ \A i \in 1..(n - 1) : t[i] = st[i]
  BY <1>1, <1>2, <1>4, SubSeqProperties
<1>6. st[1] \in B /\ \A i \in 1..(n - 1) : <<st[i], st[i + 1]>> \in W
  BY <1>1 DEF Chained
<1>7. CASE n = 1
  BY <1>3, <1>5, <1>7, EmptySeq, TopType, <1>1 DEF Chained
<1>8. CASE n # 1
  <2>1. n - 1 \in 1..(n - 1) /\ n - 1 \in 1..n /\ (n - 1) + 1 = n /\ 1 \in 1..(n - 1)
    BY <1>8
  <2>2. t[1] \in B
    BY <1>5, <1>6, <2>1
  <2>3. t[n - 1] \in T
    BY <1>1, <1>2, <1>5, <1>6, <2>1
  <2>4. ASSUME NEW i \in 1..((n - 1) - 1) PROVE <<t[i], t[i + 1]>> \in W
    <3>1. i \in 1..(n - 1) /\ i + 1 \in 1..(n - 1)
      BY <2>4
    <3> QED  BY <1>5, <1>6, <3>1
  <2>5. Chained(t, B, T, W)
    BY <1>5, <2>2, <2>3, <2>4 DEF Chained
  <2> QED  BY <1>3, <2>5
<1> QED  BY <1>7, <1>8

-----------------------------------------------------------------------------
\* The files of the disk d without an error in them or in what they read, and
\* the profiles without one in them or above them.
GoodFiles(d) == UNION {F \in SUBSET Files : SoundFiles(d, F)}
GoodProfiles(d) == UNION {S \in SUBSET Profiles : SoundProfiles(d, S, GoodFiles(d))}

FileIsGood(d, f) ==
    /\ d.content[f] # Missing
    /\ d.content[f].sound
    /\ \A i \in DOMAIN d.content[f].stmts :
          d.content[f].stmts[i].op = "source" => d.content[f].stmts[i].file \in GoodFiles(d)

LEMMA GoodFileIs ==
    ASSUME NEW d
    PROVE  /\ GoodFiles(d) \in SUBSET Files
           /\ SoundFiles(d, GoodFiles(d))
           /\ \A f \in Files : FileIsGood(d, f) => f \in GoodFiles(d)
<1>1. GoodFiles(d) \in SUBSET Files
  BY DEF GoodFiles
<1>2. SoundFiles(d, GoodFiles(d))
  <2>1. ASSUME NEW f \in GoodFiles(d) PROVE FileIsGood(d, f)
    <3>1. PICK F \in SUBSET Files : SoundFiles(d, F) /\ f \in F
      BY <2>1 DEF GoodFiles
    <3>2. F \subseteq GoodFiles(d)
      BY <3>1 DEF GoodFiles
    <3> QED  BY <3>1, <3>2 DEF SoundFiles, FileIsGood
  <2> QED  BY <2>1 DEF SoundFiles, FileIsGood
<1>3. ASSUME NEW f \in Files, FileIsGood(d, f) PROVE f \in GoodFiles(d)
  <2>1. PICK G : G = GoodFiles(d)
    OBVIOUS
  <2>2. SoundFiles(d, G \cup {f})
    BY <1>2, <1>3, <2>1 DEF SoundFiles, FileIsGood
  <2>3. G \cup {f} \in SUBSET Files
    BY <1>1, <2>1
  <2> QED  BY <2>2, <2>3 DEF GoodFiles
<1> QED  BY <1>1, <1>2, <1>3

ProfileIsGood(d, p) ==
    /\ d.eapi[p] \in {Missing} \cup {EapiTexts[j] : j \in DOMAIN EapiTexts}
    /\ GetLines(d.parents[p]) # NULL
    /\ \A i \in DOMAIN GetLines(d.parents[p]) : GetLines(d.parents[p])[i] \in GoodProfiles(d)
    /\ Unreadable \notin {d.mask[p], d.force[p]}
    /\ Loadable(d, MakeDefaults[p], GoodFiles(d))

LEMMA GoodProfileIs ==
    ASSUME NEW d
    PROVE  /\ GoodProfiles(d) \in SUBSET Profiles
           /\ SoundProfiles(d, GoodProfiles(d), GoodFiles(d))
           /\ \A p \in Profiles : ProfileIsGood(d, p) => p \in GoodProfiles(d)
<1>1. GoodProfiles(d) \in SUBSET Profiles
  BY DEF GoodProfiles
<1>2. SoundProfiles(d, GoodProfiles(d), GoodFiles(d))
  <2>1. ASSUME NEW p \in GoodProfiles(d) PROVE ProfileIsGood(d, p)
    <3>1. PICK S \in SUBSET Profiles : SoundProfiles(d, S, GoodFiles(d)) /\ p \in S
      BY <2>1 DEF GoodProfiles
    <3>2. S \subseteq GoodProfiles(d)
      BY <3>1 DEF GoodProfiles
    <3> QED  BY <3>1, <3>2 DEF SoundProfiles, ProfileIsGood
  <2> QED  BY <2>1 DEF SoundProfiles, ProfileIsGood
<1>3. ASSUME NEW p \in Profiles, ProfileIsGood(d, p) PROVE p \in GoodProfiles(d)
  <2>1. PICK G : G = GoodProfiles(d)
    OBVIOUS
  <2>2. SoundProfiles(d, G \cup {p}, GoodFiles(d))
    BY <1>2, <1>3, <2>1 DEF SoundProfiles, ProfileIsGood
  <2>3. G \cup {p} \in SUBSET Profiles
    BY <1>1, <2>1
  <2> QED  BY <2>2, <2>3 DEF GoodProfiles
<1> QED  BY <1>1, <1>2, <1>3

\* What cp_read_shellconfig has read of a file, and what the call below waits for.
OpenRecords == [file: Files, next: Nat \ {0}]

ReadBefore(d, f, n) ==
    \A i \in DOMAIN d.content[f].stmts :
        i < n /\ d.content[f].stmts[i].op = "source"
            => d.content[f].stmts[i].file \in GoodFiles(d)

Reader(d) == {r \in OpenRecords : ReadBefore(d, r.file, r.next)}

ReadsFor(d, r, f, n) ==
    /\ r.next = n + 1
    /\ n \in DOMAIN d.content[r.file].stmts
    /\ d.content[r.file].stmts[n].op = "source"
    /\ d.content[r.file].stmts[n].file = f
    /\ ReadBefore(d, r.file, n)

Sourcing(d) ==
    {x \in OpenRecords \X OpenRecords : \E n \in Nat : ReadsFor(d, x[1], x[2].file, n)}

\* What add_profile has done for a profile, and what the call below waits for.
TriedBefore(d, p, n) ==
    \A i \in DOMAIN GetLines(d.parents[p]) : i < n => GetLines(d.parents[p])[i] \in GoodProfiles(d)

MakeDefaultsDone(d, p, n) ==
    Len(GetLines(d.parents[p])) < n /\ Loadable(d, MakeDefaults[p], GoodFiles(d))

Walker(d) ==
    {c \in CallRecords :
        /\ TriedBefore(d, c.profile, c.next)
        /\ c.at \in {"mask", "force"} => MakeDefaultsDone(d, c.profile, c.next)
        /\ c.at = "force" => d.mask[c.profile] # Unreadable}

WalksFor(d, c, p, n) ==
    /\ c.at = "parents"
    /\ c.next = n + 1
    /\ n \in DOMAIN GetLines(d.parents[c.profile])
    /\ GetLines(d.parents[c.profile])[n] = p
    /\ TriedBefore(d, c.profile, n)

Above(d) ==
    {x \in CallRecords \X CallRecords : \E n \in Nat : WalksFor(d, x[1], x[2].profile, n)}

\* The last statement of a file, and the return to the file that reads it.
LEMMA FileEnds ==
    ASSUME NEW d, NEW r \in Reader(d), d.content[r.file] # Missing, d.content[r.file].sound,
           d.content[r.file].stmts \in Seq(Statement), ~ (r.next <= Len(d.content[r.file].stmts))
    PROVE  r.file \in GoodFiles(d)
<1>1. r.file \in Files /\ r.next \in Nat
  BY DEF Reader, OpenRecords
<1>2. PICK t : t = d.content[r.file].stmts
  OBVIOUS
<1>3. PICK L \in Nat : L = Len(t) /\ DOMAIN t = 1..L
  BY <1>2
<1>4. \A i \in DOMAIN t : i < r.next
  BY <1>1, <1>2, <1>3
<1>5. ReadBefore(d, r.file, r.next)
  BY DEF Reader
<1>6. FileIsGood(d, r.file)
  BY <1>2, <1>4, <1>5 DEF FileIsGood, ReadBefore
<1> QED  BY <1>1, <1>6, GoodFileIs

LEMMA FileResumes ==
    ASSUME NEW d, NEW a, NEW b, <<a, b>> \in Sourcing(d), b.file \in GoodFiles(d),
           d.content[a.file].stmts \in Seq(Statement)
    PROVE  a \in Reader(d)
<1>1. a \in OpenRecords /\ b \in OpenRecords
  BY DEF Sourcing
<1>2. PICK n \in Nat : ReadsFor(d, a, b.file, n)
  BY DEF Sourcing
<1>3. PICK t : t = d.content[a.file].stmts
  OBVIOUS
<1>4. PICK L \in Nat : L = Len(t) /\ DOMAIN t = 1..L
  BY <1>3
<1>5. \A i \in DOMAIN t : i < n + 1 => i < n \/ i = n
  BY <1>4
<1>6. ReadBefore(d, a.file, n + 1)
  BY <1>2, <1>3, <1>5 DEF ReadBefore, ReadsFor
<1> QED  BY <1>1, <1>2, <1>6 DEF Reader, ReadsFor

LEMMA ParentReturns ==
    ASSUME NEW d, NEW a, NEW b, <<a, b>> \in Above(d), b.profile \in GoodProfiles(d),
           GetLines(d.parents[a.profile]) \in Seq(Profiles)
    PROVE  a \in Walker(d)
<1>1. a \in CallRecords /\ b \in CallRecords
  BY DEF Above
<1>2. PICK n \in Nat : WalksFor(d, a, b.profile, n)
  BY DEF Above
<1>3. PICK t : t = GetLines(d.parents[a.profile])
  OBVIOUS
<1>4. PICK L \in Nat : L = Len(t) /\ DOMAIN t = 1..L
  BY <1>3
<1>5. \A i \in DOMAIN t : i < n + 1 => i < n \/ i = n
  BY <1>4
<1>6. TriedBefore(d, a.profile, n + 1)
  BY <1>2, <1>3, <1>5 DEF TriedBefore, WalksFor
<1> QED  BY <1>1, <1>2, <1>6 DEF Walker, WalksFor

\* A frame that keeps its file or its profile is waited for as before.
LEMMA SameWait ==
    ASSUME NEW d
    PROVE  /\ \A a, b, c \in OpenRecords :
                 b.file = c.file /\ <<a, b>> \in Sourcing(d) => <<a, c>> \in Sourcing(d)
           /\ \A a, b, c \in CallRecords :
                 b.profile = c.profile /\ <<a, b>> \in Above(d) => <<a, c>> \in Above(d)
BY DEF Sourcing, Above

\* A statement has been run, which reads a file or does not.
LEMMA FileGoesOn ==
    ASSUME NEW d, NEW r \in Reader(d), d.content[r.file].stmts \in Seq(Statement),
           r.next \in DOMAIN d.content[r.file].stmts
    PROVE  LET s == d.content[r.file].stmts[r.next]
               next == [r EXCEPT !.next = @ + 1]
           IN /\ next \in OpenRecords /\ next.file = r.file
              /\ s.op = "set" => next \in Reader(d)
              /\ s.op = "source" /\ s.file \in Files => <<next, Open(s.file)>> \in Sourcing(d)
<1>1. r \in OpenRecords /\ r.file \in Files /\ r.next \in Nat \ {0}
  BY DEF Reader, OpenRecords
<1>2. PICK n \in Nat \ {0} : n = r.next
  BY <1>1
<1>3. PICK t : t = d.content[r.file].stmts
  OBVIOUS
<1>4. PICK next \in OpenRecords : next = [r EXCEPT !.next = @ + 1] /\ next.file = r.file /\ next.next = n + 1
  <2>1. [r EXCEPT !.next = @ + 1] = [file |-> r.file, next |-> n + 1]
    BY <1>1, <1>2 DEF OpenRecords
  <2>2. [file |-> r.file, next |-> n + 1] \in OpenRecords
    BY <1>1 DEF OpenRecords
  <2> QED  BY <2>1, <2>2
<1>5. ReadBefore(d, r.file, n)
  BY <1>2 DEF Reader
<1>6. PICK L \in Nat : L = Len(t) /\ DOMAIN t = 1..L
  BY <1>3
<1>7. ASSUME t[n].op = "set" PROVE next \in Reader(d)
  <2>1. \A i \in DOMAIN t : i < n + 1 => i < n \/ i = n
    BY <1>6
  <2>2. ReadBefore(d, r.file, n + 1)
    BY <1>3, <1>5, <1>7, <2>1 DEF ReadBefore
  <2> QED  BY <1>4, <2>2 DEF Reader
<1>8. ASSUME t[n].op = "source", t[n].file \in Files PROVE <<next, Open(t[n].file)>> \in Sourcing(d)
  <2>1. PICK f \in Files : f = t[n].file
    BY <1>8
  <2>2. Open(f) \in OpenRecords /\ Open(f).file = f
    BY DEF Open, OpenRecords
  <2>3. ReadsFor(d, next, f, n)
    BY <1>2, <1>3, <1>4, <1>5, <1>8, <2>1 DEF ReadsFor
  <2> QED  BY <1>4, <2>1, <2>2, <2>3 DEF Sourcing
<1> QED  BY <1>2, <1>3, <1>4, <1>7, <1>8

\* A file that has just been opened.
LEMMA FileBegins ==
    ASSUME NEW d, NEW f \in Files, d.content[f].stmts \in Seq(Statement)
    PROVE  Open(f) \in Reader(d) /\ Open(f) \in OpenRecords /\ Open(f).file = f
<1>1. Open(f) \in OpenRecords /\ Open(f).file = f /\ Open(f).next = 1
  BY DEF Open, OpenRecords
<1>2. \A i \in DOMAIN d.content[f].stmts : ~ (i < 1)
  OBVIOUS
<1> QED  BY <1>1, <1>2 DEF Reader, ReadBefore

\* A profile that has just been entered, and the call that has entered it.
LEMMA ProfileBegins ==
    ASSUME NEW d, NEW p \in Profiles, GetLines(d.parents[p]) \in Seq(Profiles)
    PROVE  Call(p) \in Walker(d) /\ Call(p) \in CallRecords /\ Call(p).profile = p
<1>1. Call(p) \in CallRecords /\ Call(p).profile = p /\ Call(p).next = 1 /\ Call(p).at = "parents"
  BY DEF Call, CallRecords
<1>2. \A i \in DOMAIN GetLines(d.parents[p]) : ~ (i < 1)
  OBVIOUS
<1> QED  BY <1>1, <1>2 DEF Walker, TriedBefore

LEMMA ProfileGoesOn ==
    ASSUME NEW d, NEW c \in Walker(d), GetLines(d.parents[c.profile]) \in Seq(Profiles),
           c.at = "parents", c.next \in DOMAIN GetLines(d.parents[c.profile])
    PROVE  LET p == GetLines(d.parents[c.profile])[c.next]
               next == [c EXCEPT !.next = @ + 1]
           IN /\ p \in Profiles
              /\ next \in CallRecords /\ next.profile = c.profile
              /\ <<next, Call(p)>> \in Above(d)
<1>1. c \in CallRecords /\ c.profile \in Profiles /\ c.next \in Nat \ {0}
  BY DEF Walker, CallRecords
<1>2. PICK n \in Nat \ {0} : n = c.next
  BY <1>1
<1>3. PICK next \in CallRecords :
         /\ next = [c EXCEPT !.next = @ + 1] /\ next.profile = c.profile
         /\ next.next = n + 1 /\ next.at = "parents"
  <2>1. [c EXCEPT !.next = @ + 1] = [profile |-> c.profile, next |-> n + 1, at |-> "parents"]
    BY <1>1, <1>2 DEF CallRecords
  <2>2. [profile |-> c.profile, next |-> n + 1, at |-> "parents"] \in CallRecords
    BY <1>1 DEF CallRecords
  <2> QED  BY <2>1, <2>2
<1>4. TriedBefore(d, c.profile, n)
  BY <1>2 DEF Walker
<1>5. PICK p \in Profiles : p = GetLines(d.parents[c.profile])[n]
  BY <1>2
<1>6. Call(p) \in CallRecords /\ Call(p).profile = p
  BY DEF Call, CallRecords
<1>7. WalksFor(d, next, p, n)
  BY <1>2, <1>3, <1>4, <1>5 DEF WalksFor
<1>8. <<next, Call(p)>> \in Above(d)
  BY <1>3, <1>6, <1>7 DEF Above
<1> QED  BY <1>2, <1>3, <1>5, <1>8

\* make.defaults and use.mask are done.
LEMMA ProfileMoves ==
    ASSUME NEW d, NEW c \in Walker(d), NEW where \in {"mask", "force"},
           \/ /\ where = "mask" /\ c.at = "parents"
              /\ MakeDefaultsDone(d, c.profile, c.next)
           \/ where = "force" /\ c.at = "mask" /\ d.mask[c.profile] # Unreadable
    PROVE  LET next == [c EXCEPT !.at = where]
           IN next \in Walker(d) /\ next \in CallRecords /\ next.profile = c.profile
<1>1. c \in CallRecords
  BY DEF Walker
<1>2. PICK next \in CallRecords :
         /\ next = [c EXCEPT !.at = where] /\ next.profile = c.profile
         /\ next.next = c.next /\ next.at = where
  <2>1. [c EXCEPT !.at = where] = [profile |-> c.profile, next |-> c.next, at |-> where]
    BY <1>1 DEF CallRecords
  <2>2. [profile |-> c.profile, next |-> c.next, at |-> where] \in CallRecords
    BY <1>1 DEF CallRecords
  <2> QED  BY <2>1, <2>2
<1>3. next \in Walker(d)
  BY <1>2 DEF Walker
<1> QED  BY <1>2, <1>3

-----------------------------------------------------------------------------
\* The file load_make_config is at, and that it is at one.
Loading ==
    IF phase = "globals" THEN Globals[index]
    ELSE IF phase = "confs" THEN Confs[index]
    ELSE MakeDefaults[Caller.profile]

AtLoad ==
    /\ phase = "globals" => index \in DOMAIN Globals
    /\ phase = "confs" => index \in DOMAIN Confs
    /\ phase = "profile" => Caller.at = "parents" /\ Len(GetLines(fs.parents[Caller.profile])) < Caller.next

ReadInv ==
    /\ Chained(reading, {r \in OpenRecords : r.file = Loading}, Reader(fs), Sourcing(fs))
    /\ reading # <<>> => AtLoad

WalkInv == Chained(dfs, {c \in CallRecords : c.profile = Root}, Walker(fs), Above(fs))

\* The files before the n-th have been read if they are there.
GlobalsRead(d, n) == \A i \in DOMAIN Globals : i < n => Loadable(d, Globals[i], GoodFiles(d))
ConfsRead(d, n) == \A i \in DOMAIN Confs : i < n => Loadable(d, Confs[i], GoodFiles(d))

PhaseInv ==
    /\ phase \notin {"start", "failed"} => fs.rootOk
    /\ phase \in {"defaults", "insertedDefaults"} => fs.defaults # NULL
    /\ phase = "globals" => fs.defaults = NULL /\ GlobalsRead(fs, index)
    /\ phase \in {"profile", "confs", "finished", "mainRepo", "ready"} /\ fs.defaults = NULL =>
          GlobalsRead(fs, Len(Globals) + 1)
    /\ phase \in {"start", "profile"} => index = 1
    /\ phase \in {"confs", "finished", "mainRepo", "ready"} => Root \in GoodProfiles(fs)
    /\ phase = "confs" => ConfsRead(fs, index)
    /\ phase \in {"finished", "mainRepo", "ready"} => ConfsRead(fs, Len(Confs) + 1)
    /\ phase = "ready" => fs.portdirOk
    /\ phase = "failed" => ~NothingWrong

\* Whatever holds all that the load may come to holds what it has come to.
CallsOf(S) == {c \in CallRecords : c.profile \in S}
OpenOf(F) == {r \in OpenRecords : r.file \in F}

ReachInv ==
    \A S \in SUBSET Profiles, F \in SUBSET Files :
        Top \in S /\ Flawless(fs, S, F) => dfs \in Seq(CallsOf(S)) /\ reading \in Seq(OpenOf(F))

ErrorInv == ReadInv /\ WalkInv /\ PhaseInv /\ ReachInv

LEMMA OnDisk ==
    ASSUME fs \in FileSystems
    PROVE  /\ \A f \in Files : fs.content[f] # Missing => fs.content[f].stmts \in Seq(Statement)
           /\ \A p \in Profiles : GetLines(fs.parents[p]) # NULL =>
                 GetLines(fs.parents[p]) \in Seq(Profiles)
BY DiskAssumption

LEMMA UsableIs ==
    ASSUME NEW p
    PROVE  Usable(p) <=>
              /\ fs.eapi[p] \in {Missing} \cup {EapiTexts[j] : j \in DOMAIN EapiTexts}
              /\ GetLines(fs.parents[p]) # NULL
<1>1. PICK e : e = fs.eapi[p]
  OBVIOUS
<1>2. PICK t : t = EapiTexts
  OBVIOUS
<1>3. Len(t) = 6 /\ DOMAIN t = 1..6
  BY <1>2 DEF EapiTexts
<1>4. EapiParseFile(e) # UnknownEapi <=> e \in {Missing} \cup {t[j] : j \in DOMAIN t}
  <2>1. CASE e = Missing
    <3>1. EapiParseFile(e) = LatestEapi
      BY <2>1, MarksAssumption DEF EapiParseFile
    <3>2. LatestEapi = 5 /\ UnknownEapi = -1
      BY <1>2, <1>3 DEF LatestEapi, UnknownEapi
    <3>3. EapiParseFile(e) # UnknownEapi
      BY <3>1, <3>2
    <3> QED  BY <2>1, <3>3
  <2>2. CASE e = Unreadable
    BY <1>2, <2>2, MarksAssumption DEF EapiParseFile
  <2>3. CASE e # Missing /\ e # Unreadable
    <3>1. EapiParseFile(e) = EapiParse(e)
      BY <2>3 DEF EapiParseFile
    <3>2. CASE \E j \in DOMAIN t : t[j] = e
      <4>1. PICK j \in 1..6 : j = CHOOSE i \in DOMAIN t : t[i] = e
        BY <1>3, <3>2
      <4>2. EapiParse(e) = j - 1
        BY <1>2, <3>2, <4>1 DEF EapiParse
      <4>3. j - 1 # -1
        OBVIOUS
      <4>4. EapiParseFile(e) # UnknownEapi
        BY <3>1, <4>2, <4>3 DEF UnknownEapi
      <4> QED  BY <3>2, <4>4
    <3>3. CASE ~ \E j \in DOMAIN t : t[j] = e
      BY <1>2, <2>3, <3>1, <3>3 DEF EapiParse
    <3> QED  BY <3>2, <3>3
  <2> QED  BY <2>1, <2>2, <2>3
<1> QED  BY <1>1, <1>2, <1>4 DEF Usable

LEMMA TopIsRoot == Top = Root /\ TopOf(fs) = Root
BY DEF Top, TopOf, Root

LEMMA SameOnDisk ==
    ASSUME UNCHANGED fs
    PROVE  Root' = Root /\ Top' = Top /\ NothingWrong' = NothingWrong
BY DEF Root, Top, TopOf, NothingWrong

LEMMA FailErr ==
    ASSUME ErrorInv, UNCHANGED fs, Fail, ~NothingWrong
    PROVE  ErrorInv'
<1>1. phase' = "failed" /\ dfs' = <<>> /\ reading' = <<>>
  BY DEF Fail
<1>2. ReadInv'
  BY <1>1, StackOfNone DEF ReadInv
<1>3. WalkInv'
  BY <1>1, StackOfNone DEF WalkInv
<1>4. PhaseInv'
  BY <1>1, SameOnDisk DEF PhaseInv
<1>5. ReachInv'
  BY <1>1 DEF ReachInv
<1> QED  BY <1>2, <1>3, <1>4, <1>5 DEF ErrorInv

\* A step that leaves the stacks alone while no file is open.
LEMMA QuietErr ==
    ASSUME ErrorInv, UNCHANGED <<fs, dfs, reading>>, reading = <<>>, PhaseInv'
    PROVE  ErrorInv'
<1>1. ReadInv'
  BY StackOfNone DEF ReadInv
<1>2. WalkInv'
  BY SameOnDisk DEF ErrorInv, WalkInv
<1>3. ReachInv'
  BY SameOnDisk DEF ErrorInv, ReachInv
<1> QED  BY <1>1, <1>2, <1>3 DEF ErrorInv

\* The load comes to no other place where nothing is wrong.
LEMMA ReachErr ==
    ASSUME ErrorInv, UNCHANGED fs,
           \A S \in SUBSET Profiles, F \in SUBSET Files :
              Top \in S /\ Flawless(fs, S, F) /\ dfs \in Seq(CallsOf(S)) /\ reading \in Seq(OpenOf(F))
                 => dfs' \in Seq(CallsOf(S)) /\ reading' \in Seq(OpenOf(F))
    PROVE  ReachInv'
<1>1. ASSUME NEW S \in SUBSET Profiles, NEW F \in SUBSET Files, Top' \in S, Flawless(fs', S, F)
      PROVE  dfs' \in Seq(CallsOf(S)) /\ reading' \in Seq(OpenOf(F))
  <2>1. Top \in S /\ Flawless(fs, S, F)
    BY <1>1, SameOnDisk
  <2>2. dfs \in Seq(CallsOf(S)) /\ reading \in Seq(OpenOf(F))
    BY <2>1 DEF ErrorInv, ReachInv
  <2> QED  BY <2>1, <2>2
<1> QED  BY <1>1 DEF ReachInv

\* An error at a place that the load would come to where nothing is wrong.
LEMMA WrongErr ==
    ASSUME ErrorInv,
           \A S \in SUBSET Profiles, F \in SUBSET Files :
              ~ (Top \in S /\ Flawless(fs, S, F)
                   /\ dfs \in Seq(CallsOf(S)) /\ reading \in Seq(OpenOf(F)))
    PROVE  ~ NothingWrong
BY DEF ErrorInv, ReachInv, NothingWrong

\* Only the stack of open files changes.
LEMMA ReadErr ==
    ASSUME ErrorInv, UNCHANGED <<fs, phase, index, dfs>>, AtLoad,
           Chained(reading', {r \in OpenRecords : r.file = Loading}, Reader(fs), Sourcing(fs)),
           \A S \in SUBSET Profiles, F \in SUBSET Files :
              Top \in S /\ Flawless(fs, S, F) /\ dfs \in Seq(CallsOf(S)) /\ reading \in Seq(OpenOf(F))
                 => reading' \in Seq(OpenOf(F))
    PROVE  ErrorInv'
<1>1. Loading' = Loading /\ AtLoad' = AtLoad
  BY DEF Loading, AtLoad, Caller
<1>2. ReadInv'
  BY <1>1 DEF ReadInv
<1>3. WalkInv'
  BY SameOnDisk DEF ErrorInv, WalkInv
<1>4. PhaseInv'
  BY SameOnDisk DEF ErrorInv, PhaseInv
<1>5. ReachInv'
  BY ReachErr
<1> QED  BY <1>2, <1>3, <1>4, <1>5 DEF ErrorInv

\* load_make_config opens its file.
LEMMA OpenErr ==
    ASSUME SettingsInv, ErrorInv, UNCHANGED <<fs, phase, index, dfs>>, AtLoad,
           Loading \in Files, fs.content[Loading] # Missing, reading' = <<Open(Loading)>>,
           \A S \in SUBSET Profiles, F \in SUBSET Files :
              Top \in S /\ Flawless(fs, S, F) /\ dfs \in Seq(CallsOf(S)) => Loadable(fs, Loading, F)
    PROVE  ErrorInv'
<1>1. PICK f \in Files : f = Loading
  OBVIOUS
<1>2. fs.content[f].stmts \in Seq(Statement)
  BY <1>1, OnDisk DEF SettingsInv, ControlInv
<1>3. Open(f) \in Reader(fs) /\ Open(f) \in OpenRecords /\ Open(f).file = f
  BY <1>2, FileBegins
<1>4. Chained(<<Open(f)>>, {r \in OpenRecords : r.file = f}, Reader(fs), Sourcing(fs))
  BY <1>3, StackOfOne
<1>5. ASSUME NEW S \in SUBSET Profiles, NEW F \in SUBSET Files,
             Top \in S, Flawless(fs, S, F), dfs \in Seq(CallsOf(S))
      PROVE  reading' \in Seq(OpenOf(F))
  <2>1. f \in F
    BY <1>1, <1>5 DEF Loadable
  <2>2. Open(f) \in OpenOf(F)
    BY <1>3, <2>1 DEF OpenOf
  <2> QED  BY <1>1, <2>2
<1> QED  BY <1>1, <1>4, <1>5, ReadErr

\* load_make_config is done with a global file or a make.conf.
LEMMA NextErr ==
    ASSUME SettingsInv, ErrorInv, UNCHANGED <<fs, phase>>, NextFile, AtLoad,
           phase \in {"globals", "confs"}, reading' = <<>>, Loadable(fs, Loading, GoodFiles(fs))
    PROVE  ErrorInv'
<1>1. dfs' = dfs /\ index' = index + 1 /\ index \in Nat
  BY DEF NextFile, SettingsInv, ControlInv
<1>2. ReadInv'
  BY StackOfNone DEF ReadInv
<1>3. WalkInv'
  BY <1>1, SameOnDisk DEF ErrorInv, WalkInv
<1>4. ReachInv'
  BY <1>1, ReachErr
<1>5. PICK n \in Nat : n = index
  BY <1>1
<1>6. CASE phase = "globals"
  <2>1. GlobalsRead(fs, n) /\ Loadable(fs, Globals[n], GoodFiles(fs))
    BY <1>5, <1>6 DEF ErrorInv, PhaseInv, Loading
  <2>2. \A i \in DOMAIN Globals : i < n + 1 => i < n \/ i = n
    BY PlacesAssumption
  <2>3. GlobalsRead(fs, n + 1)
    BY <2>1, <2>2 DEF GlobalsRead
  <2> QED  BY <1>1, <1>2, <1>3, <1>4, <1>5, <1>6, <2>3 DEF ErrorInv, PhaseInv
<1>7. CASE phase = "confs"
  <2>1. ConfsRead(fs, n) /\ Loadable(fs, Confs[n], GoodFiles(fs))
    BY <1>5, <1>7 DEF ErrorInv, PhaseInv, Loading
  <2>2. \A i \in DOMAIN Confs : i < n + 1 => i < n \/ i = n
    BY PlacesAssumption
  <2>3. ConfsRead(fs, n + 1)
    BY <2>1, <2>2 DEF ConfsRead
  <2>4. PhaseInv'
    BY <1>1, <1>5, <1>7, <2>3, SameOnDisk DEF ErrorInv, PhaseInv
  <2> QED  BY <1>2, <1>3, <1>4, <2>4 DEF ErrorInv
<1> QED  BY <1>6, <1>7

\* The call of add_profile that runs.
LEMMA CallerIs ==
    ASSUME SettingsInv, ErrorInv, phase = "profile"
    PROVE  /\ dfs # <<>> /\ dfs \in Seq(CallRecords)
           /\ Caller = dfs[Len(dfs)]
           /\ Caller \in CallRecords /\ Caller \in Walker(fs)
           /\ Caller.profile \in Profiles /\ Caller.next \in Nat \ {0}
           /\ GetLines(fs.parents[Caller.profile]) \in Seq(Profiles)
           /\ Usable(Caller.profile)
           /\ \A S \in SUBSET Profiles : dfs \in Seq(CallsOf(S)) => Caller.profile \in S
<1>1. dfs # <<>> /\ dfs \in Seq(Calls) /\ Caller = dfs[Len(dfs)]
  BY DEF SettingsInv, ControlInv, Caller, Last
<1>2. Caller \in Calls
  BY <1>1, TopType DEF Caller
<1>3. dfs \in Seq(CallRecords) /\ Caller \in CallRecords /\ Usable(Caller.profile)
  BY <1>1, <1>2 DEF Calls
<1>4. Caller.profile \in Profiles /\ Caller.next \in Nat \ {0}
  BY <1>3 DEF CallRecords
<1>5. GetLines(fs.parents[Caller.profile]) \in Seq(Profiles)
  BY <1>3, <1>4, OnDisk DEF Usable, SettingsInv, ControlInv
<1>6. Caller \in Walker(fs)
  BY <1>1 DEF ErrorInv, WalkInv, Chained
<1>7. ASSUME NEW S \in SUBSET Profiles, dfs \in Seq(CallsOf(S)) PROVE Caller.profile \in S
  BY <1>1, <1>7, TopType DEF Caller, CallsOf
<1> QED  BY <1>1, <1>3, <1>4, <1>5, <1>6, <1>7

\* add_profile is done with make.defaults or with use.mask.
LEMMA MoveErr ==
    ASSUME SettingsInv, ErrorInv, UNCHANGED <<fs, phase>>, phase = "profile", reading' = <<>>,
           NEW where \in {"mask", "force"}, MoveTo(where),
           \/ /\ where = "mask" /\ Caller.at = "parents"
              /\ MakeDefaultsDone(fs, Caller.profile, Caller.next)
           \/ where = "force" /\ Caller.at = "mask" /\ fs.mask[Caller.profile] # Unreadable
    PROVE  ErrorInv'
<1>1. PICK c \in CallRecords : c = Caller
  BY CallerIs
<1>2. PICK next \in CallRecords : next = [c EXCEPT !.at = where] /\ next \in Walker(fs)
                                  /\ next.profile = c.profile
  BY <1>1, CallerIs, ProfileMoves
<1>3. dfs # <<>> /\ dfs \in Seq(CallRecords) /\ dfs[Len(dfs)] = c
  BY <1>1, CallerIs
<1>4. dfs' = [dfs EXCEPT ![Len(dfs)] = next] /\ index' = index
  BY <1>2, <1>3 DEF MoveTo
<1>5. Chained(dfs, {x \in CallRecords : x.profile = Root}, Walker(fs), Above(fs))
  BY DEF ErrorInv, WalkInv
<1>6. \A a \in CallRecords : <<a, c>> \in Above(fs) => <<a, next>> \in Above(fs)
  BY <1>2, SameWait
<1>7. Chained([dfs EXCEPT ![Len(dfs)] = next], {x \in CallRecords : x.profile = Root}, Walker(fs), Above(fs))
  BY <1>2, <1>3, <1>5, <1>6, StackReplaced
<1>8. WalkInv'
  BY <1>4, <1>7, SameOnDisk DEF WalkInv
<1>9. ReadInv'
  BY StackOfNone DEF ReadInv
<1>10. PhaseInv'
  BY <1>4, SameOnDisk DEF ErrorInv, PhaseInv
<1>11. ASSUME NEW S \in SUBSET Profiles, dfs \in Seq(CallsOf(S))
       PROVE  dfs' \in Seq(CallsOf(S))
  <2>1. next \in CallsOf(S)
    BY <1>1, <1>2, <1>11, CallerIs DEF CallsOf
  <2> QED  BY <1>3, <1>4, <1>11, <2>1, ReplaceTop
<1>12. ReachInv'
  BY <1>11, ReachErr
<1> QED  BY <1>8, <1>9, <1>10, <1>12 DEF ErrorInv
-----------------------------------------------------------------------------
LEMMA StartErr ==
    ASSUME SettingsInv, ErrorInv, Start
    PROVE  ErrorInv'
<1>1. phase = "start" /\ UNCHANGED fs /\ reading = <<>>
  BY DEF Start, SettingsInv, ControlInv, Reading
<1>2. CASE ~fs.rootOk
  <2>1. Fail /\ ~NothingWrong
    BY <1>2 DEF Start, NothingWrong
  <2> QED  BY <1>1, <2>1, FailErr
<1>3. CASE fs.rootOk
  <2>1. /\ phase' = IF fs.defaults = NULL THEN "globals" ELSE "defaults"
        /\ UNCHANGED <<index, dfs, reading>>
    BY <1>3 DEF Start
  <2>2. index = 1
    BY <1>1 DEF ErrorInv, PhaseInv
  <2>3. GlobalsRead(fs, 1)
    <3>1. \A i \in DOMAIN Globals : ~ (i < 1)
      BY PlacesAssumption
    <3> QED  BY <3>1 DEF GlobalsRead
  <2>4. PhaseInv'
    BY <1>1, <1>3, <2>1, <2>2, <2>3 DEF PhaseInv
  <2> QED  BY <1>1, <2>1, <2>4, QuietErr
<1> QED  BY <1>2, <1>3

LEMMA InsertDefaultsErr ==
    ASSUME SettingsInv, ErrorInv, InsertDefaults
    PROVE  ErrorInv'
<1>1. /\ phase = "defaults" /\ phase' = "insertedDefaults"
      /\ UNCHANGED <<fs, index, dfs, reading>> /\ reading = <<>>
  BY DEF InsertDefaults, SettingsInv, ControlInv, Reading
<1>2. PhaseInv'
  BY <1>1 DEF ErrorInv, PhaseInv
<1> QED  BY <1>1, <1>2, QuietErr

\* A profile that the load comes to can be used where nothing is wrong.
LEMMA SoundIsUsable ==
    ASSUME NEW S \in SUBSET Profiles, NEW F \in SUBSET Files, Flawless(fs, S, F), NEW p \in S
    PROVE  Usable(p)
BY UsableIs DEF Flawless, SoundProfiles

LEMMA EnterProfileErr ==
    ASSUME SettingsInv, ErrorInv, EnterProfile
    PROVE  ErrorInv'
<1>1. UNCHANGED fs /\ EnterRoot /\ reading = <<>>
  BY DEF EnterProfile, SettingsInv, ControlInv, Reading
<1>2. CASE ~Usable(Root)
  <2>1. Fail
    BY <1>1, <1>2 DEF EnterRoot
  <2>2. ~NothingWrong
    BY <1>2, TopIsRoot, SoundIsUsable DEF NothingWrong
  <2> QED  BY <1>1, <2>1, <2>2, FailErr
<1>3. CASE Usable(Root)
  <2>1. phase' = "profile" /\ dfs' = <<Call(Root)>> /\ index' = 1 /\ reading' = <<>>
    BY <1>1, <1>3 DEF EnterRoot
  <2>2. Root \in Profiles
    BY RootType DEF SettingsInv, ControlInv
  <2>3. GetLines(fs.parents[Root]) \in Seq(Profiles)
    BY <1>3, <2>2, OnDisk DEF Usable, SettingsInv, ControlInv
  <2>4. Call(Root) \in Walker(fs) /\ Call(Root) \in CallRecords /\ Call(Root).profile = Root
    BY <2>2, <2>3, ProfileBegins
  <2>5. Chained(<<Call(Root)>>, {x \in CallRecords : x.profile = Root}, Walker(fs), Above(fs))
    BY <2>4, StackOfOne
  <2>6. WalkInv'
    BY <1>1, <2>1, <2>5, SameOnDisk DEF WalkInv
  <2>7. ReadInv'
    BY <2>1, StackOfNone DEF ReadInv
  <2>8. fs.rootOk /\ (fs.defaults = NULL => GlobalsRead(fs, Len(Globals) + 1))
    <3>1. CASE phase = "insertedDefaults"
      BY <3>1 DEF ErrorInv, PhaseInv
    <3>2. CASE phase = "globals" /\ index > Len(Globals)
      <4>1. fs.rootOk /\ GlobalsRead(fs, index)
        BY <3>2 DEF ErrorInv, PhaseInv
      <4>2. index \in Nat /\ \A i \in DOMAIN Globals : i < index
        BY <3>2, PlacesAssumption DEF SettingsInv, ControlInv
      <4> QED  BY <4>1, <4>2 DEF GlobalsRead
    <3> QED  BY <3>1, <3>2 DEF EnterProfile
  <2>9. PhaseInv'
    BY <1>1, <2>1, <2>8 DEF PhaseInv
  <2>10. ASSUME NEW S \in SUBSET Profiles, Top \in S PROVE dfs' \in Seq(CallsOf(S))
    <3>1. Call(Root) \in CallsOf(S)
      BY <2>4, <2>10, TopIsRoot DEF CallsOf
    <3> QED  BY <2>1, <3>1
  <2>11. ReachInv'
    BY <1>1, <2>1, <2>10, ReachErr
  <2> QED  BY <2>6, <2>7, <2>9, <2>11 DEF ErrorInv
<1> QED  BY <1>2, <1>3
-----------------------------------------------------------------------------
LEMMA LoadGlobalErr ==
    ASSUME SettingsInv, ErrorInv, LoadGlobal
    PROVE  ErrorInv'
<1>1. /\ phase = "globals" /\ UNCHANGED <<fs, phase>> /\ reading = <<>>
      /\ index \in DOMAIN Globals /\ Globals[index] \in Files
  BY PlacesAssumption DEF LoadGlobal, Load, SettingsInv, ControlInv
<1>2. AtLoad /\ Loading = Globals[index]
  BY <1>1 DEF AtLoad, Loading
<1>3. CASE fs.content[Globals[index]] = Missing
  <2>1. NextFile /\ reading' = <<>> /\ Loadable(fs, Loading, GoodFiles(fs))
    BY <1>1, <1>2, <1>3 DEF LoadGlobal, Load, Loadable
  <2> QED  BY <1>1, <1>2, <2>1, NextErr
<1>4. CASE fs.content[Globals[index]] # Missing
  <2>1. reading' = <<Open(Loading)>> /\ UNCHANGED <<index, dfs>>
    BY <1>2, <1>4 DEF LoadGlobal, Load
  <2>2. fs.defaults = NULL
    BY <1>1 DEF ErrorInv, PhaseInv
  <2>3. \A S \in SUBSET Profiles, F \in SUBSET Files :
           Flawless(fs, S, F) => Loadable(fs, Loading, F)
    BY <1>1, <1>2, <2>2 DEF Flawless
  <2> QED  BY <1>1, <1>2, <1>4, <2>1, <2>3, OpenErr
<1> QED  BY <1>3, <1>4

LEMMA LoadConfErr ==
    ASSUME SettingsInv, ErrorInv, LoadConf
    PROVE  ErrorInv'
<1>1. /\ phase = "confs" /\ UNCHANGED <<fs, phase>> /\ reading = <<>>
      /\ index \in DOMAIN Confs /\ Confs[index] \in Files
  BY PlacesAssumption DEF LoadConf, Load, SettingsInv, ControlInv
<1>2. AtLoad /\ Loading = Confs[index]
  BY <1>1 DEF AtLoad, Loading
<1>3. CASE fs.content[Confs[index]] = Missing
  <2>1. NextFile /\ reading' = <<>> /\ Loadable(fs, Loading, GoodFiles(fs))
    BY <1>1, <1>2, <1>3 DEF LoadConf, Load, Loadable
  <2> QED  BY <1>1, <1>2, <2>1, NextErr
<1>4. CASE fs.content[Confs[index]] # Missing
  <2>1. reading' = <<Open(Loading)>> /\ UNCHANGED <<index, dfs>>
    BY <1>2, <1>4 DEF LoadConf, Load
  <2>2. \A S \in SUBSET Profiles, F \in SUBSET Files :
           Flawless(fs, S, F) => Loadable(fs, Loading, F)
    BY <1>1, <1>2 DEF Flawless
  <2> QED  BY <1>1, <1>2, <1>4, <2>1, <2>2, OpenErr
<1> QED  BY <1>3, <1>4

LEMMA LoadMakeDefaultsErr ==
    ASSUME SettingsInv, ErrorInv, LoadMakeDefaults
    PROVE  ErrorInv'
<1>1. /\ phase = "profile" /\ UNCHANGED <<fs, phase>> /\ reading = <<>>
      /\ Caller.at = "parents" /\ Caller.next > Len(GetLines(fs.parents[Caller.profile]))
  BY DEF LoadMakeDefaults, Load
<1>2. PICK p \in Profiles : p = Caller.profile
  BY <1>1, CallerIs
<1>3. /\ Caller.next \in Nat /\ Len(GetLines(fs.parents[p])) \in Nat
      /\ Len(GetLines(fs.parents[p])) < Caller.next
  BY <1>1, <1>2, CallerIs
<1>4. AtLoad /\ Loading = MakeDefaults[p] /\ Loading \in Files
  BY <1>1, <1>2, <1>3, PlacesAssumption DEF AtLoad, Loading
<1>5. CASE fs.content[Loading] = Missing
  <2>1. MoveTo("mask") /\ reading' = <<>>
    BY <1>1, <1>2, <1>4, <1>5 DEF LoadMakeDefaults, Load
  <2>2. MakeDefaultsDone(fs, Caller.profile, Caller.next)
    BY <1>2, <1>3, <1>4, <1>5 DEF MakeDefaultsDone, Loadable
  <2> QED  BY <1>1, <2>1, <2>2, MoveErr
<1>6. CASE fs.content[Loading] # Missing
  <2>1. reading' = <<Open(Loading)>> /\ UNCHANGED <<index, dfs>>
    BY <1>2, <1>4, <1>6 DEF LoadMakeDefaults, Load
  <2>2. ASSUME NEW S \in SUBSET Profiles, NEW F \in SUBSET Files,
               Flawless(fs, S, F), dfs \in Seq(CallsOf(S))
        PROVE  Loadable(fs, Loading, F)
    <3>1. p \in S
      BY <1>1, <1>2, <2>2, CallerIs
    <3> QED  BY <1>4, <2>2, <3>1 DEF Flawless, SoundProfiles
  <2> QED  BY <1>1, <1>4, <1>6, <2>1, <2>2, OpenErr
<1> QED  BY <1>5, <1>6
-----------------------------------------------------------------------------
\* The call of cp_read_shellconfig that runs.
LEMMA FileIs ==
    ASSUME SettingsInv, ErrorInv, reading # <<>>
    PROVE  /\ reading \in Seq(OpenRecords) /\ AtLoad
           /\ File = reading[Len(reading)]
           /\ File \in OpenRecords /\ File \in Reader(fs)
           /\ File.file \in Files /\ File.next \in Nat \ {0}
           /\ Text # Missing /\ Text.stmts \in Seq(Statement)
           /\ AtStatement => File.next \in DOMAIN Text.stmts /\ Current \in Statement
           /\ Chained(reading, {r \in OpenRecords : r.file = Loading}, Reader(fs), Sourcing(fs))
           /\ \A F \in SUBSET Files : reading \in Seq(OpenOf(F)) => File.file \in F
<1>1. reading \in Seq(Opened) /\ File = reading[Len(reading)]
  BY DEF SettingsInv, ControlInv, File, Last
<1>2. File \in Opened
  BY CurrentType DEF SettingsInv
<1>3. reading \in Seq(OpenRecords) /\ File \in OpenRecords
  <2>1. Opened \subseteq OpenRecords
    BY DEF Opened, OpenRecords
  <2> QED  BY <1>1, <1>2, <2>1
<1>4. File.file \in Files /\ File.next \in Nat \ {0} /\ Text # Missing
  BY <1>2 DEF Opened, Text
<1>5. Text.stmts \in Seq(Statement)
  BY <1>4, OnDisk DEF Text, SettingsInv, ControlInv
<1>6. AtLoad /\ Chained(reading, {r \in OpenRecords : r.file = Loading}, Reader(fs), Sourcing(fs))
  BY DEF ErrorInv, ReadInv
<1>7. File \in Reader(fs)
  BY <1>1, <1>6 DEF Chained
<1>8. ASSUME AtStatement PROVE File.next \in DOMAIN Text.stmts /\ Current \in Statement
  BY <1>4, <1>5, <1>8 DEF AtStatement, Current
<1>9. ASSUME NEW F \in SUBSET Files, reading \in Seq(OpenOf(F)) PROVE File.file \in F
  <2>1. File \in OpenOf(F)
    BY <1>9, TopType DEF File
  <2> QED  BY <2>1 DEF OpenOf
<1> QED  BY <1>1, <1>3, <1>4, <1>5, <1>6, <1>7, <1>8, <1>9

\* What cp_read_shellconfig is after a statement.
LEMMA AdvancedIs ==
    ASSUME SettingsInv, ErrorInv, AtStatement
    PROVE  \E next \in OpenRecords :
              /\ Advanced = [reading EXCEPT ![Len(reading)] = next]
              /\ next.file = File.file
              /\ Current.op = "set" => next \in Reader(fs)
              /\ Current.op = "source" /\ Current.file \in Files
                    => <<next, Open(Current.file)>> \in Sourcing(fs)
<1>1. reading # <<>>
  BY DEF AtStatement
<1>2. PICK r \in Reader(fs) : r = File
  BY <1>1, FileIs
<1>3. PICK s : s = fs.content[r.file].stmts[r.next]
  OBVIOUS
<1>4. s = Current
  BY <1>2, <1>3 DEF Current, Text
<1>5. fs.content[r.file].stmts \in Seq(Statement) /\ r.next \in DOMAIN fs.content[r.file].stmts
  BY <1>1, <1>2, FileIs DEF Text
<1>6. PICK next \in OpenRecords :
         /\ next = [r EXCEPT !.next = @ + 1] /\ next.file = r.file
         /\ s.op = "set" => next \in Reader(fs)
         /\ s.op = "source" /\ s.file \in Files => <<next, Open(s.file)>> \in Sourcing(fs)
  BY <1>3, <1>5, FileGoesOn
<1>7. Advanced = [reading EXCEPT ![Len(reading)] = next]
  BY <1>1, <1>2, <1>6, FileIs DEF Advanced
<1> QED  BY <1>2, <1>4, <1>6, <1>7

LEMMA RunAssignmentErr ==
    ASSUME SettingsInv, ErrorInv, RunAssignment
    PROVE  ErrorInv'
<1>1. /\ AtStatement /\ Current.op = "set" /\ reading # <<>>
      /\ reading' = Advanced /\ UNCHANGED <<fs, phase, index, dfs>>
  BY DEF RunAssignment, AtStatement
<1>2. PICK next \in OpenRecords :
         /\ Advanced = [reading EXCEPT ![Len(reading)] = next]
         /\ next.file = File.file /\ next \in Reader(fs)
  BY <1>1, AdvancedIs
<1>3. PICK r \in OpenRecords : r = File
  BY <1>1, FileIs
<1>4. /\ reading \in Seq(OpenRecords) /\ reading[Len(reading)] = r /\ next.file = r.file
      /\ Chained(reading, {x \in OpenRecords : x.file = Loading}, Reader(fs), Sourcing(fs))
  BY <1>1, <1>2, <1>3, FileIs
<1>5. /\ r \in {x \in OpenRecords : x.file = Loading} => next \in {x \in OpenRecords : x.file = Loading}
      /\ \A a \in OpenRecords : <<a, r>> \in Sourcing(fs) => <<a, next>> \in Sourcing(fs)
  BY <1>4, SameWait
<1>6. Chained([reading EXCEPT ![Len(reading)] = next],
              {x \in OpenRecords : x.file = Loading}, Reader(fs), Sourcing(fs))
  BY <1>1, <1>2, <1>4, <1>5, StackReplaced
<1>7. ASSUME NEW F \in SUBSET Files, reading \in Seq(OpenOf(F)) PROVE reading' \in Seq(OpenOf(F))
  <2>1. next \in OpenOf(F)
    BY <1>1, <1>3, <1>4, <1>7, FileIs DEF OpenOf
  <2> QED  BY <1>1, <1>2, <1>7, <2>1, ReplaceTop
<1> QED  BY <1>1, <1>2, <1>6, <1>7, FileIs, ReadErr

LEMMA RunSourceErr ==
    ASSUME SettingsInv, ErrorInv, RunSource
    PROVE  ErrorInv'
<1>1. AtStatement /\ Current.op = "source" /\ reading # <<>> /\ UNCHANGED fs
  BY DEF RunSource, AtStatement
<1>2. PICK f \in Files : f = Current.file
  BY <1>1, FileIs DEF Statement
<1>3. ASSUME NEW S \in SUBSET Profiles, NEW F \in SUBSET Files,
             Flawless(fs, S, F), reading \in Seq(OpenOf(F))
      PROVE  f \in F /\ fs.content[f] # Missing
  <2>1. File.file \in F /\ SoundFiles(fs, F)
    BY <1>1, <1>3, FileIs DEF Flawless
  <2>2. File.next \in DOMAIN Text.stmts
    BY <1>1, FileIs
  <2>3. Text.stmts[File.next].file = f /\ Text.stmts[File.next].op = "source"
    BY <1>1, <1>2 DEF Current
  <2>4. f \in F
    BY <2>1, <2>2, <2>3 DEF SoundFiles, Text
  <2> QED  BY <2>1, <2>4 DEF SoundFiles
<1>4. CASE fs.content[f] = Missing
  <2>1. Fail
    BY <1>2, <1>4 DEF RunSource
  <2>2. ~NothingWrong
    BY <1>3, <1>4, WrongErr
  <2> QED  BY <1>1, <2>1, <2>2, FailErr
<1>5. CASE fs.content[f] # Missing
  <2>1. reading' = Append(Advanced, Open(f)) /\ UNCHANGED <<phase, index, dfs>>
    BY <1>2, <1>5 DEF RunSource
  <2>2. PICK next \in OpenRecords :
           /\ Advanced = [reading EXCEPT ![Len(reading)] = next]
           /\ next.file = File.file /\ <<next, Open(f)>> \in Sourcing(fs)
    BY <1>1, <1>2, AdvancedIs
  <2>3. PICK r \in OpenRecords : r = File
    BY <1>1, FileIs
  <2>4. /\ reading \in Seq(OpenRecords) /\ reading[Len(reading)] = r /\ next.file = r.file
        /\ Chained(reading, {x \in OpenRecords : x.file = Loading}, Reader(fs), Sourcing(fs))
    BY <1>1, <2>2, <2>3, FileIs
  <2>5. /\ r \in {x \in OpenRecords : x.file = Loading} => next \in {x \in OpenRecords : x.file = Loading}
        /\ \A a \in OpenRecords : <<a, r>> \in Sourcing(fs) => <<a, next>> \in Sourcing(fs)
    BY <2>4, SameWait
  <2>6. fs.content[f].stmts \in Seq(Statement)
    BY <1>5, OnDisk DEF SettingsInv, ControlInv
  <2>7. Open(f) \in Reader(fs) /\ Open(f) \in OpenRecords /\ Open(f).file = f
    BY <2>6, FileBegins
  <2>8. Chained(Append([reading EXCEPT ![Len(reading)] = next], Open(f)),
                {x \in OpenRecords : x.file = Loading}, Reader(fs), Sourcing(fs))
    BY <1>1, <2>2, <2>4, <2>5, <2>7, StackPushed
  <2>9. ASSUME NEW S \in SUBSET Profiles, NEW F \in SUBSET Files,
               Flawless(fs, S, F), reading \in Seq(OpenOf(F))
        PROVE  reading' \in Seq(OpenOf(F))
    <3>1. next \in OpenOf(F) /\ Open(f) \in OpenOf(F)
      BY <1>1, <1>3, <2>3, <2>4, <2>7, <2>9, FileIs DEF OpenOf
    <3>2. Advanced \in Seq(OpenOf(F))
      BY <1>1, <2>2, <2>9, <3>1, ReplaceTop
    <3> QED  BY <2>1, <3>1, <3>2, Push
  <2> QED  BY <1>1, <2>1, <2>2, <2>8, <2>9, FileIs, ReadErr
<1> QED  BY <1>4, <1>5

LEMMA EndFileErr ==
    ASSUME SettingsInv, ErrorInv, EndFile
    PROVE  ErrorInv'
<1>1. reading # <<>> /\ ~AtStatement /\ UNCHANGED fs
  BY DEF EndFile
<1>2. CASE ~Text.sound
  <2>1. Fail
    BY <1>2 DEF EndFile
  <2>2. ASSUME NEW S \in SUBSET Profiles, NEW F \in SUBSET Files,
               Flawless(fs, S, F), reading \in Seq(OpenOf(F))
        PROVE  FALSE
    BY <1>1, <1>2, <2>2, FileIs DEF Flawless, SoundFiles, Text
  <2>3. ~NothingWrong
    BY <2>2, WrongErr
  <2> QED  BY <1>1, <2>1, <2>3, FailErr
<1>3. CASE Text.sound
  <2>1. /\ reading' = Front(reading) /\ UNCHANGED phase
        /\ IF Len(reading) > 1 THEN UNCHANGED <<index, dfs>> ELSE AfterFile
    BY <1>3 DEF EndFile
  <2>2. PICK r \in Reader(fs) : r = File /\ r \in OpenRecords
    BY <1>1, FileIs
  <2>3. /\ reading \in Seq(OpenRecords) /\ reading[Len(reading)] = r /\ AtLoad
        /\ Chained(reading, {x \in OpenRecords : x.file = Loading}, Reader(fs), Sourcing(fs))
    BY <1>1, <2>2, FileIs
  <2>4. r.file \in GoodFiles(fs)
    BY <1>1, <1>3, <2>2, FileIs, FileEnds DEF AtStatement, Text
  <2>5. CASE Len(reading) > 1
    <3>1. ASSUME NEW a \in Opened, <<a, r>> \in Sourcing(fs) PROVE a \in Reader(fs)
      <4>1. a.file \in Files /\ fs.content[a.file] # Missing
        BY DEF Opened
      <4>2. fs.content[a.file].stmts \in Seq(Statement)
        BY <4>1, OnDisk DEF SettingsInv, ControlInv
      <4> QED  BY <2>4, <3>1, <4>2, FileResumes
    <3>2. Chained(Front(reading), {x \in OpenRecords : x.file = Loading}, Reader(fs), Sourcing(fs))
      BY <1>1, <2>3, <3>1, StackPopped DEF SettingsInv, ControlInv
    <3>3. \A F \in SUBSET Files : reading \in Seq(OpenOf(F)) => reading' \in Seq(OpenOf(F))
      BY <1>1, <2>1, TopType
    <3> QED  BY <1>1, <2>1, <2>3, <2>5, <3>2, <3>3, ReadErr
  <2>6. CASE ~ (Len(reading) > 1)
    <3>1. Len(reading) = 1
      <4>1. PICK n \in Nat : n = Len(reading) /\ n # 0
        BY <1>1, <2>3, EmptySeq
      <4> QED  BY <2>6, <4>1
    <3>2. reading' = <<>> /\ AfterFile
      BY <1>1, <2>1, <2>3, <2>6, <3>1, TopType
    <3>3. r.file = Loading
      BY <1>1, <2>3, <3>1 DEF Chained
    <3>4. Loadable(fs, Loading, GoodFiles(fs))
      BY <2>4, <3>3 DEF Loadable
    <3>5. CASE phase = "profile"
      <4>1. MoveTo("mask") /\ Loading = MakeDefaults[Caller.profile]
        BY <3>2, <3>5 DEF AfterFile, Loading
      <4>2. /\ Caller.at = "parents" /\ MakeDefaultsDone(fs, Caller.profile, Caller.next)
        BY <2>3, <3>4, <3>5, <4>1 DEF AtLoad, MakeDefaultsDone
      <4> QED  BY <1>1, <2>1, <3>2, <3>5, <4>1, <4>2, MoveErr
    <3>6. CASE phase # "profile"
      <4>1. phase \in {"globals", "confs"}
        BY <1>1, <3>6 DEF SettingsInv, ControlInv, Reading
      <4>2. NextFile
        BY <3>2, <3>6 DEF AfterFile
      <4> QED  BY <1>1, <2>1, <2>3, <3>2, <3>4, <4>1, <4>2, NextErr
    <3> QED  BY <3>5, <3>6
  <2> QED  BY <2>5, <2>6
<1> QED  BY <1>2, <1>3
-----------------------------------------------------------------------------
LEMMA EnterParentErr ==
    ASSUME SettingsInv, ErrorInv, EnterParent
    PROVE  ErrorInv'
<1>1. /\ phase = "profile" /\ reading = <<>> /\ UNCHANGED fs
      /\ Caller.at = "parents" /\ Caller.next <= Len(GetLines(fs.parents[Caller.profile]))
  BY DEF EnterParent
<1>2. PICK c \in Walker(fs) : c = Caller /\ c \in CallRecords
  BY <1>1, CallerIs
<1>3. PICK lines \in Seq(Profiles) : lines = GetLines(fs.parents[c.profile])
  BY <1>1, <1>2, CallerIs
<1>4. c.at = "parents" /\ c.next \in DOMAIN lines
  BY <1>1, <1>2, <1>3, CallerIs
<1>5. PICK p \in Profiles : p = lines[c.next]
  BY <1>4
<1>6. PICK next \in CallRecords :
         /\ next = [c EXCEPT !.next = @ + 1] /\ next.profile = c.profile
         /\ <<next, Call(p)>> \in Above(fs)
  BY <1>3, <1>4, <1>5, ProfileGoesOn
<1>7. ASSUME NEW S \in SUBSET Profiles, NEW F \in SUBSET Files,
             Flawless(fs, S, F), dfs \in Seq(CallsOf(S))
      PROVE  p \in S
  <2>1. c.profile \in S
    BY <1>1, <1>2, <1>7, CallerIs
  <2> QED  BY <1>3, <1>4, <1>5, <1>7, <2>1 DEF Flawless, SoundProfiles
<1>8. CASE ~Usable(p)
  <2>1. Fail
    BY <1>2, <1>3, <1>5, <1>8 DEF EnterParent
  <2>2. ~NothingWrong
    BY <1>7, <1>8, SoundIsUsable, WrongErr
  <2> QED  BY <1>1, <2>1, <2>2, FailErr
<1>9. CASE Usable(p)
  <2>1. /\ dfs' = Append([dfs EXCEPT ![Len(dfs)].next = @ + 1], Call(p))
        /\ UNCHANGED <<phase, index, reading>>
    BY <1>2, <1>3, <1>5, <1>9 DEF EnterParent
  <2>2. dfs # <<>> /\ dfs \in Seq(CallRecords) /\ dfs[Len(dfs)] = c
    BY <1>1, <1>2, CallerIs
  <2>3. [dfs EXCEPT ![Len(dfs)].next = @ + 1] = [dfs EXCEPT ![Len(dfs)] = next]
    BY <1>6, <2>2
  <2>4. Chained(dfs, {x \in CallRecords : x.profile = Root}, Walker(fs), Above(fs))
    BY DEF ErrorInv, WalkInv
  <2>5. \A a \in CallRecords : <<a, c>> \in Above(fs) => <<a, next>> \in Above(fs)
    BY <1>2, <1>6, SameWait
  <2>6. GetLines(fs.parents[p]) \in Seq(Profiles)
    BY <1>9, OnDisk DEF Usable, SettingsInv, ControlInv
  <2>7. Call(p) \in Walker(fs) /\ Call(p) \in CallRecords /\ Call(p).profile = p
    BY <2>6, ProfileBegins
  <2>8. Chained(Append([dfs EXCEPT ![Len(dfs)] = next], Call(p)),
                {x \in CallRecords : x.profile = Root}, Walker(fs), Above(fs))
    BY <1>2, <1>6, <2>2, <2>4, <2>5, <2>7, StackPushed
  <2>9. WalkInv'
    BY <1>1, <2>1, <2>3, <2>8, SameOnDisk DEF WalkInv
  <2>10. ReadInv'
    BY <1>1, <2>1, StackOfNone DEF ReadInv
  <2>11. PhaseInv'
    BY <1>1, <2>1, SameOnDisk DEF ErrorInv, PhaseInv
  <2>12. ASSUME NEW S \in SUBSET Profiles, NEW F \in SUBSET Files,
                Flawless(fs, S, F), dfs \in Seq(CallsOf(S))
         PROVE  dfs' \in Seq(CallsOf(S))
    <3>1. next \in CallsOf(S)
      BY <1>1, <1>2, <1>6, <2>12, CallerIs DEF CallsOf
    <3>2. Call(p) \in CallsOf(S)
      BY <1>7, <2>7, <2>12 DEF CallsOf
    <3>3. [dfs EXCEPT ![Len(dfs)] = next] \in Seq(CallsOf(S))
      BY <2>2, <2>12, <3>1, ReplaceTop
    <3> QED  BY <2>1, <2>3, <3>2, <3>3, Push
  <2>13. ReachInv'
    BY <1>1, <2>1, <2>12, ReachErr
  <2> QED  BY <2>9, <2>10, <2>11, <2>13 DEF ErrorInv
<1> QED  BY <1>8, <1>9

\* While use.mask and use.force are read no file is open.
LEMMA NoneOpen ==
    ASSUME SettingsInv, ErrorInv, phase = "profile", Caller.at # "parents"
    PROVE  reading = <<>>
BY DEF ErrorInv, ReadInv, AtLoad

\* A profile whose use.mask or use.force cannot be read is an error.
LEMMA UnreadableErr ==
    ASSUME SettingsInv, ErrorInv, phase = "profile",
           Unreadable \in {fs.mask[Caller.profile], fs.force[Caller.profile]}
    PROVE  ~NothingWrong
<1>1. ASSUME NEW S \in SUBSET Profiles, NEW F \in SUBSET Files,
             Flawless(fs, S, F), dfs \in Seq(CallsOf(S))
      PROVE  FALSE
  <2>1. Caller.profile \in S
    BY <1>1, CallerIs
  <2> QED  BY <1>1, <2>1 DEF Flawless, SoundProfiles
<1> QED  BY <1>1, WrongErr

LEMMA ReadMaskErr ==
    ASSUME SettingsInv, ErrorInv, ReadMask
    PROVE  ErrorInv'
<1>1. phase = "profile" /\ Caller.at = "mask" /\ UNCHANGED fs
  BY DEF ReadMask
<1>2. CASE fs.mask[Caller.profile] = Unreadable
  <2>1. Fail /\ ~NothingWrong
    BY <1>1, <1>2, UnreadableErr DEF ReadMask
  <2> QED  BY <1>1, <2>1, FailErr
<1>3. CASE fs.mask[Caller.profile] # Unreadable
  <2>1. MoveTo("force") /\ UNCHANGED <<phase, reading>>
    BY <1>3 DEF ReadMask
  <2>2. reading' = <<>>
    BY <1>1, <2>1, NoneOpen
  <2> QED  BY <1>1, <1>3, <2>1, <2>2, MoveErr
<1> QED  BY <1>2, <1>3

LEMMA ReadForceErr ==
    ASSUME SettingsInv, ErrorInv, ReadForce
    PROVE  ErrorInv'
<1>1. phase = "profile" /\ Caller.at = "force" /\ UNCHANGED fs /\ index = 1
  BY DEF ReadForce, ErrorInv, PhaseInv
<1>2. CASE fs.force[Caller.profile] = Unreadable
  <2>1. Fail /\ ~NothingWrong
    BY <1>1, <1>2, UnreadableErr DEF ReadForce
  <2> QED  BY <1>1, <2>1, FailErr
<1>3. CASE fs.force[Caller.profile] # Unreadable
  <2>1. /\ dfs' = Front(dfs) /\ phase' = IF Len(dfs) = 1 THEN "confs" ELSE "profile"
        /\ UNCHANGED <<index, reading>>
    BY <1>3 DEF ReadForce
  <2>2. reading' = <<>>
    BY <1>1, <2>1, NoneOpen
  <2>3. PICK c \in CallRecords : c = Caller
    BY <1>1, CallerIs
  <2>4. /\ dfs # <<>> /\ dfs \in Seq(Calls) /\ dfs[Len(dfs)] = c
        /\ c \in Walker(fs) /\ c.profile \in Profiles /\ Usable(c.profile)
    BY <1>1, <2>3, CallerIs DEF SettingsInv, ControlInv
  <2>5. c.profile \in GoodProfiles(fs)
    <3>1. /\ TriedBefore(fs, c.profile, c.next) /\ MakeDefaultsDone(fs, c.profile, c.next)
          /\ fs.mask[c.profile] # Unreadable /\ fs.force[c.profile] # Unreadable
      BY <1>1, <1>3, <2>3, <2>4 DEF Walker
    <3>2. PICK lines \in Seq(Profiles) : lines = GetLines(fs.parents[c.profile])
      BY <1>1, <2>3, CallerIs
    <3>3. Len(lines) < c.next /\ c.next \in Nat
      BY <3>1, <3>2 DEF MakeDefaultsDone, CallRecords
    <3>4. \A i \in DOMAIN lines : i < c.next
      BY <3>3
    <3>5. ProfileIsGood(fs, c.profile)
      BY <2>4, <3>1, <3>2, <3>4, UsableIs DEF ProfileIsGood, TriedBefore, MakeDefaultsDone
    <3> QED  BY <2>4, <3>5, GoodProfileIs
  <2>6. Chained(dfs, {x \in CallRecords : x.profile = Root}, Walker(fs), Above(fs))
    BY DEF ErrorInv, WalkInv
  <2>7. ASSUME NEW a \in Calls, <<a, c>> \in Above(fs) PROVE a \in Walker(fs)
    <3>1. GetLines(fs.parents[a.profile]) \in Seq(Profiles)
      BY OnDisk DEF Calls, CallRecords, Usable, SettingsInv, ControlInv
    <3> QED  BY <2>5, <2>7, <3>1, ParentReturns
  <2>8. Chained(Front(dfs), {x \in CallRecords : x.profile = Root}, Walker(fs), Above(fs))
    BY <2>4, <2>6, <2>7, StackPopped
  <2>9. WalkInv'
    BY <1>1, <2>1, <2>8, SameOnDisk DEF WalkInv
  <2>10. ReadInv'
    BY <2>2, StackOfNone DEF ReadInv
  <2>11. PhaseInv'
    <3>1. fs.rootOk /\ (fs.defaults = NULL => GlobalsRead(fs, Len(Globals) + 1))
      BY <1>1 DEF ErrorInv, PhaseInv
    <3>2. CASE Len(dfs) # 1
      BY <1>1, <2>1, <3>1, <3>2 DEF PhaseInv
    <3>3. CASE Len(dfs) = 1
      <4>1. Root \in GoodProfiles(fs)
        BY <2>4, <2>5, <2>6, <3>3 DEF Chained
      <4>2. ConfsRead(fs, 1)
        <5>1. \A i \in DOMAIN Confs : ~ (i < 1)
          BY PlacesAssumption
        <5> QED  BY <5>1 DEF ConfsRead
      <4> QED  BY <1>1, <2>1, <3>1, <3>3, <4>1, <4>2, SameOnDisk DEF PhaseInv
    <3> QED  BY <3>2, <3>3
  <2>12. ASSUME NEW S \in SUBSET Profiles, dfs \in Seq(CallsOf(S))
         PROVE  dfs' \in Seq(CallsOf(S))
    BY <2>1, <2>4, <2>12, TopType
  <2>13. ReachInv'
    BY <1>1, <2>2, <2>12, ReachErr
  <2> QED  BY <2>9, <2>10, <2>11, <2>13 DEF ErrorInv
<1> QED  BY <1>2, <1>3
-----------------------------------------------------------------------------
LEMMA FinishErr ==
    ASSUME SettingsInv, ErrorInv, Finish
    PROVE  ErrorInv'
<1>1. /\ phase = "confs" /\ reading = <<>> /\ index > Len(Confs) /\ phase' = "finished"
      /\ UNCHANGED <<fs, index, dfs, reading>>
  BY DEF Finish
<1>2. ConfsRead(fs, Len(Confs) + 1)
  <2>1. index \in Nat /\ \A i \in DOMAIN Confs : i < index
    BY <1>1, PlacesAssumption DEF SettingsInv, ControlInv
  <2>2. ConfsRead(fs, index)
    BY <1>1 DEF ErrorInv, PhaseInv
  <2> QED  BY <2>1, <2>2 DEF ConfsRead
<1>3. PhaseInv'
  BY <1>1, <1>2, SameOnDisk DEF ErrorInv, PhaseInv
<1> QED  BY <1>1, <1>3, QuietErr

LEMMA WritePlainErr ==
    ASSUME SettingsInv, ErrorInv, WritePlain
    PROVE  ErrorInv'
<1>1. /\ phase = "finished" /\ phase' = "mainRepo" /\ reading = <<>>
      /\ UNCHANGED <<fs, index, dfs, reading>>
  BY DEF WritePlain, SettingsInv, ControlInv, Reading
<1>2. PhaseInv'
  BY <1>1, SameOnDisk DEF ErrorInv, PhaseInv
<1> QED  BY <1>1, <1>2, QuietErr

LEMMA InitMainRepoErr ==
    ASSUME SettingsInv, ErrorInv, InitMainRepo
    PROVE  ErrorInv'
<1>1. phase = "mainRepo" /\ reading = <<>> /\ UNCHANGED fs
  BY DEF InitMainRepo, SettingsInv, ControlInv, Reading
<1>2. CASE ~fs.portdirOk
  <2>1. Fail /\ ~NothingWrong
    BY <1>2 DEF InitMainRepo, NothingWrong
  <2> QED  BY <1>1, <2>1, FailErr
<1>3. CASE fs.portdirOk
  <2>1. phase' = "ready" /\ UNCHANGED <<index, dfs, reading>>
    BY <1>3 DEF InitMainRepo
  <2>2. PhaseInv'
    BY <1>1, <1>3, <2>1, SameOnDisk DEF ErrorInv, PhaseInv
  <2> QED  BY <1>1, <2>1, <2>2, QuietErr
<1> QED  BY <1>2, <1>3
-----------------------------------------------------------------------------
LEMMA ErrorInit == Init => ErrorInv
<1> SUFFICES ASSUME Init PROVE ErrorInv
  OBVIOUS
<1>1. ReadInv /\ WalkInv
  BY StackOfNone DEF Init, ReadInv, WalkInv
<1>2. PhaseInv
  BY DEF Init, PhaseInv
<1>3. ReachInv
  BY DEF Init, ReachInv
<1> QED  BY <1>1, <1>2, <1>3 DEF ErrorInv

LEMMA ErrorStep == SettingsInv /\ ErrorInv /\ [Next]_vars => ErrorInv'
<1> SUFFICES ASSUME SettingsInv, ErrorInv, [Next]_vars PROVE ErrorInv'
  OBVIOUS
<1>1. CASE UNCHANGED vars
  <2>1. UNCHANGED <<fs, phase, index, dfs, reading>>
    BY <1>1 DEF vars, control
  <2>2. Loading' = Loading /\ AtLoad' = AtLoad
    BY <2>1 DEF Loading, AtLoad, Caller
  <2>3. ReadInv'
    BY <2>1, <2>2 DEF ErrorInv, ReadInv
  <2>4. WalkInv' /\ PhaseInv'
    BY <2>1, SameOnDisk DEF ErrorInv, WalkInv, PhaseInv
  <2>5. ReachInv'
    BY <2>1, ReachErr
  <2> QED  BY <2>3, <2>4, <2>5 DEF ErrorInv
<1>2. CASE Step
  BY <1>2, StartErr, InsertDefaultsErr, EnterProfileErr, LoadGlobalErr, LoadConfErr,
     LoadMakeDefaultsErr, RunAssignmentErr, RunSourceErr, EndFileErr, EnterParentErr,
     ReadMaskErr, ReadForceErr, FinishErr, WritePlainErr, InitMainRepoErr DEF Step
<1> QED  BY <1>1, <1>2 DEF Next, Returned

\* An error in anything the load comes to fails it, and nothing else does,
\* however deep the profiles and the files that read each other are.
THEOREM ErrorsComeBack == Spec => []ErrorsAreReported
<1>1. SettingsInv /\ [Next]_vars => SettingsInv'
  BY SettingsStep DEF StepOK
<1>2. ErrorInv => ErrorsAreReported
  <2> SUFFICES ASSUME ErrorInv PROVE ErrorsAreReported
    OBVIOUS
  <2>1. phase = "failed" => ~NothingWrong
    BY DEF ErrorInv, PhaseInv
  <2>2. ASSUME phase = "ready" PROVE NothingWrong
    <3>1. /\ fs.rootOk /\ fs.portdirOk /\ Root \in GoodProfiles(fs)
          /\ ConfsRead(fs, Len(Confs) + 1)
          /\ fs.defaults = NULL => GlobalsRead(fs, Len(Globals) + 1)
      BY <2>2 DEF ErrorInv, PhaseInv
    <3>2. \A i \in DOMAIN Confs : Loadable(fs, Confs[i], GoodFiles(fs))
      <4>1. \A i \in DOMAIN Confs : i < Len(Confs) + 1
        BY PlacesAssumption
      <4> QED  BY <3>1, <4>1 DEF ConfsRead
    <3>3. fs.defaults = NULL => \A i \in DOMAIN Globals : Loadable(fs, Globals[i], GoodFiles(fs))
      <4>1. \A i \in DOMAIN Globals : i < Len(Globals) + 1
        BY PlacesAssumption
      <4> QED  BY <3>1, <4>1 DEF GlobalsRead
    <3>4. Flawless(fs, GoodProfiles(fs), GoodFiles(fs))
      BY <3>2, <3>3, GoodFileIs, GoodProfileIs DEF Flawless
    <3>5. Top \in GoodProfiles(fs)
      BY <3>1, TopIsRoot
    <3> QED  BY <3>1, <3>4, <3>5, GoodFileIs, GoodProfileIs DEF NothingWrong
  <2> QED  BY <2>1, <2>2 DEF ErrorsAreReported
<1> QED  BY SettingsInit, ErrorInit, ErrorStep, <1>1, <1>2, PTL DEF Spec
-----------------------------------------------------------------------------
\* A set of numbers that holds 0 and the next of each holds them all.
LEMMA CountedUp ==
    ASSUME NEW S, 0 \in S, \A n \in Nat : n \in S => n + 1 \in S
    PROVE  Nat \subseteq S
<1> SUFFICES ASSUME Nat \ S # {} PROVE FALSE
  OBVIOUS
<1> DEFINE Less == OpToRel(<, Nat)
<1>1. IsWellFoundedOn(Less, Nat)
  BY NatLessThanWellFounded
<1>2. \A m, n \in Nat : m < n => <<m, n>> \in Less
  BY DEF OpToRel
<1> HIDE DEF Less
<1>3. PICK n \in Nat \ S : \A m \in Nat \ S : ~(<<m, n>> \in Less)
  BY <1>1, WFMin
<1>4. n - 1 \in Nat /\ (n - 1) + 1 = n /\ n - 1 < n /\ n \notin S
  BY <1>3
<1>5. n - 1 \in S
  BY <1>2, <1>3, <1>4
<1> QED  BY <1>4, <1>5

\* A recursion over numbers has a solution.
Follows(g, base, step, n) ==
    g[0] = base /\ \A i \in 1..n : g[i] = step[<<i, g[i - 1]>>]

\* A function of that kind exists, whatever the base and the step.
LEMMA RecursionEnds ==
    ASSUME NEW T, NEW base \in T, NEW step \in [Nat \X T -> T], NEW n \in Nat
    PROVE  \E g \in [0..n -> T] : Follows(g, base, step, n)
<1> DEFINE Long == {k \in Nat : \E g \in [0..k -> T] : Follows(g, base, step, k)}
<1>1. 0 \in Long
  <2>1. [i \in 0..0 |-> base] \in [0..0 -> T]
    OBVIOUS
  <2>2. Follows([i \in 0..0 |-> base], base, step, 0)
    BY DEF Follows
  <2> QED  BY <2>1, <2>2
<1>2. ASSUME NEW k \in Nat, k \in Long PROVE k + 1 \in Long
  <2>1. PICK g \in [0..k -> T] : Follows(g, base, step, k)
    BY <1>2
  <2>2. PICK c \in T : c = step[<<k + 1, g[k]>>]
    <3>1. g[k] \in T /\ k + 1 \in Nat
      OBVIOUS
    <3> QED  BY <3>1
  <2>3. PICK h : h = [i \in 0..(k + 1) |-> IF i <= k THEN g[i] ELSE c]
    OBVIOUS
  <2>4. h \in [0..(k + 1) -> T]
    BY <2>2, <2>3
  <2>5. \A i \in 0..k : h[i] = g[i]
    BY <2>3
  <2>6. h[k + 1] = step[<<k + 1, h[(k + 1) - 1]>>]
    <3>1. h[k + 1] = c /\ (k + 1) - 1 = k /\ h[k] = g[k]
      BY <2>3, <2>5
    <3> QED  BY <2>2, <3>1
  <2>7. ASSUME NEW i \in 1..k PROVE h[i] = step[<<i, h[i - 1]>>]
    <3>1. i \in 0..k /\ i - 1 \in 0..k
      OBVIOUS
    <3>2. h[i] = g[i] /\ h[i - 1] = g[i - 1]
      BY <2>5, <3>1
    <3>3. g[i] = step[<<i, g[i - 1]>>]
      BY <2>1 DEF Follows
    <3> QED  BY <3>2, <3>3
  <2>8. \A i \in 1..(k + 1) : i \in 1..k \/ i = k + 1
    OBVIOUS
  <2>9. h[0] = base
    BY <2>1, <2>5 DEF Follows
  <2>10. Follows(h, base, step, k + 1)
    BY <2>6, <2>7, <2>8, <2>9 DEF Follows
  <2> QED  BY <2>4, <2>10
<1>3. Nat \subseteq Long
  <2> HIDE DEF Long
  <2> QED  BY <1>1, <1>2, CountedUp
<1> QED  BY <1>3

-----------------------------------------------------------------------------
\* The texts of a list joined one after the other.
Joins(g, s) == g[0] = <<>> /\ \A i \in 1..Len(s) : g[i] = g[i - 1] \o s[i]

\* The joins of a sequence of texts exist.
LEMMA JoinsEnd ==
    ASSUME NEW E, NEW s \in Seq(Seq(E))
    PROVE  \E g \in [0..Len(s) -> Seq(E)] : Joins(g, s)
<1>1. PICK n \in Nat : n = Len(s)
  OBVIOUS
<1>2. PICK T : T = Seq(E)
  OBVIOUS
<1>3. <<>> \in T /\ \A a, b \in T : a \o b \in T
  BY <1>2, ConcatProperties, EmptySeq
<1>4. \A i \in 1..n : s[i] \in T
  BY <1>1, <1>2, ElementOfSeq
<1>5. PICK step : step = [x \in Nat \X T |-> IF x[1] \in 1..n THEN x[2] \o s[x[1]] ELSE <<>>]
  OBVIOUS
<1>6. step \in [Nat \X T -> T]
  BY <1>3, <1>4, <1>5
<1>7. PICK g \in [0..n -> T] : Follows(g, <<>>, step, n)
  BY <1>1, <1>3, <1>6, RecursionEnds
<1>8. ASSUME NEW i \in 1..n PROVE g[i] = g[i - 1] \o s[i]
  <2>1. i \in Nat /\ i - 1 \in 0..n /\ g[i - 1] \in T
    OBVIOUS
  <2>2. step[<<i, g[i - 1]>>] = g[i - 1] \o s[i]
    BY <1>5, <1>8, <2>1
  <2> QED  BY <1>7, <1>8, <2>2 DEF Follows
<1>9. Joins(g, s)
  BY <1>1, <1>7, <1>8 DEF Joins, Follows
<1> QED  BY <1>1, <1>2, <1>9

\* FlattenSeq is the last of the joins.
LEMMA JoinsIs ==
    ASSUME NEW E, NEW s \in Seq(Seq(E)), NEW g \in [0..Len(s) -> Seq(E)], Joins(g, s)
    PROVE  FlattenSeq(s) = g[Len(s)]
<1>1. PICK n \in Nat : n = Len(s)
  OBVIOUS
<1>2. CASE n = 0
  <2>1. s = <<>>
    BY <1>1, <1>2, EmptySeq
  <2>2. FlattenSeq(s) = s
    BY <1>1, <1>2 DEF FlattenSeq
  <2> QED  BY <1>1, <1>2, <2>1, <2>2 DEF Joins
<1>3. CASE n # 0
  <2> DEFINE Joining(m) == [i \in 1..n |-> IF i = 1 THEN s[i] ELSE m[i - 1] \o s[i]]
  <2>1. PICK h : h = [i \in 1..n |-> g[i]]
    OBVIOUS
  <2>2. h = Joining(h)
    <3>1. ASSUME NEW i \in 1..n PROVE h[i] = IF i = 1 THEN s[i] ELSE h[i - 1] \o s[i]
      <4>1. h[i] = g[i - 1] \o s[i]
        BY <1>1, <2>1, <3>1 DEF Joins
      <4>2. CASE i = 1
        <5>1. s[i] \in Seq(E)
          BY <1>1, <3>1, ElementOfSeq
        <5>2. g[i - 1] = <<>>
          BY <4>2 DEF Joins
        <5> QED  BY <4>1, <4>2, <5>1, <5>2, ConcatEmptySeq
      <4>3. CASE i # 1
        <5>1. i - 1 \in 1..n
          BY <4>3
        <5> QED  BY <2>1, <4>1, <4>3, <5>1
      <4> QED  BY <4>2, <4>3
    <3> QED  BY <2>1, <3>1
  <2>3. PICK p : p = CHOOSE m : m = Joining(m)
    OBVIOUS
  <2>4. FlattenSeq(s) = p[n]
    BY <1>1, <1>3, <2>3 DEF FlattenSeq
  <2>5. p = Joining(p)
    BY <2>2, <2>3
  <2>6. \A i \in 1..n : p[i] = IF i = 1 THEN s[i] ELSE p[i - 1] \o s[i]
    <3>1. PICK q : q = Joining(p)
      OBVIOUS
    <3>2. \A i \in 1..n : q[i] = IF i = 1 THEN s[i] ELSE p[i - 1] \o s[i]
      BY <3>1
    <3> QED  BY <2>5, <3>1, <3>2
  <2>7. \A i \in 1..n : h[i] = IF i = 1 THEN s[i] ELSE h[i - 1] \o s[i]
    <3>1. PICK q : q = Joining(h)
      OBVIOUS
    <3>2. \A i \in 1..n : q[i] = IF i = 1 THEN s[i] ELSE h[i - 1] \o s[i]
      BY <3>1
    <3> QED  BY <2>2, <3>1, <3>2
  <2> HIDE DEF Joining
  <2>8. PICK Same : Same = {k \in Nat : k \in 1..n => p[k] = h[k]}
    OBVIOUS
  <2>9. 0 \in Same
    BY <2>8
  <2>10. ASSUME NEW k \in Nat, k \in Same PROVE k + 1 \in Same
    <3>1. CASE k + 1 \notin 1..n
      BY <2>8, <3>1
    <3>2. CASE k = 0 /\ k + 1 \in 1..n
      BY <2>6, <2>7, <2>8, <3>2
    <3>3. CASE k # 0 /\ k + 1 \in 1..n
      <4>1. k \in 1..n /\ (k + 1) - 1 = k /\ k + 1 # 1
        BY <3>3
      <4>2. p[k] = h[k]
        BY <2>8, <2>10, <4>1
      <4>3. p[k + 1] = h[k + 1]
        BY <2>6, <2>7, <3>3, <4>1, <4>2
      <4> QED  BY <2>8, <4>3
    <3> QED  BY <3>1, <3>2, <3>3
  <2>11. Nat \subseteq Same
    BY <2>9, <2>10, CountedUp
  <2>12. n \in 1..n
    BY <1>3
  <2>13. p[n] = h[n] /\ h[n] = g[n]
    BY <2>1, <2>8, <2>11, <2>12
  <2> QED  BY <1>1, <2>4, <2>13
<1> QED  BY <1>2, <1>3

\* What comes before the n-th of a list of texts, joined; all of it if there is
\* no n-th.
UpTo(s, n) == FlattenSeq([i \in 1..(IF n <= Len(s) THEN n - 1 ELSE Len(s)) |-> s[i]])

\* What UpTo is at the first piece, and from one piece to the next.
LEMMA UpToIs ==
    ASSUME NEW E, NEW s \in Seq(Seq(E))
    PROVE  /\ \A n \in Nat : UpTo(s, n) \in Seq(E)
           /\ UpTo(s, 0) = <<>> /\ UpTo(s, 1) = <<>>
           /\ \A n \in 1..Len(s) : UpTo(s, n + 1) = UpTo(s, n) \o s[n]
           /\ \A n \in Nat : ~ (n <= Len(s)) => UpTo(s, n) = FlattenSeq(s)
<1>1. PICK L \in Nat : L = Len(s)
  OBVIOUS
<1>2. PICK g \in [0..L -> Seq(E)] : Joins(g, s)
  BY <1>1, JoinsEnd
<1>3. ASSUME NEW m \in 0..L PROVE FlattenSeq([i \in 1..m |-> s[i]]) = g[m]
  <2>1. PICK u : u = [i \in 1..m |-> s[i]]
    OBVIOUS
  <2>2. \A i \in 1..m : s[i] \in Seq(E)
    BY <1>1, ElementOfSeq
  <2>3. u \in Seq(Seq(E)) /\ Len(u) = m /\ \A i \in 1..m : u[i] = s[i]
    BY <2>1, <2>2
  <2>4. PICK h : h = [i \in 0..m |-> g[i]]
    OBVIOUS
  <2>5. h \in [0..m -> Seq(E)] /\ h[m] = g[m]
    BY <2>4
  <2>6. ASSUME NEW i \in 1..m PROVE h[i] = h[i - 1] \o u[i]
    <3>1. i \in 0..m /\ i - 1 \in 0..m /\ i \in 1..L
      OBVIOUS
    <3>2. g[i] = g[i - 1] \o s[i]
      BY <1>1, <1>2, <3>1 DEF Joins
    <3> QED  BY <2>3, <2>4, <3>1, <3>2
  <2>7. h[0] = <<>>
    BY <1>2, <2>4 DEF Joins
  <2>8. Joins(h, u)
    BY <2>3, <2>6, <2>7 DEF Joins
  <2>9. FlattenSeq(u) = h[m]
    BY <2>3, <2>5, <2>8, JoinsIs
  <2> QED  BY <2>1, <2>5, <2>9
<1>4. ASSUME NEW n \in Nat
      PROVE  UpTo(s, n) = g[IF n = 0 THEN 0 ELSE IF n <= L THEN n - 1 ELSE L]
  <2>1. CASE n = 0
    <3>1. [i \in 1..(0 - 1) |-> s[i]] = [i \in 1..0 |-> s[i]]
      OBVIOUS
    <3>2. 0 <= L /\ 0 \in 0..L
      OBVIOUS
    <3>3. UpTo(s, 0) = FlattenSeq([i \in 1..(0 - 1) |-> s[i]])
      BY <1>1, <3>2 DEF UpTo
    <3> QED  BY <1>3, <2>1, <3>1, <3>2, <3>3
  <2>2. CASE n # 0 /\ n <= L
    <3>1. n - 1 \in 0..L
      BY <2>2
    <3> QED  BY <1>1, <1>3, <2>2, <3>1 DEF UpTo
  <2>3. CASE n # 0 /\ ~ (n <= L)
    <3>1. L \in 0..L
      OBVIOUS
    <3> QED  BY <1>1, <1>3, <2>3, <3>1 DEF UpTo
  <2> QED  BY <2>1, <2>2, <2>3
<1>5. g[0] = <<>> /\ \A i \in 1..L : g[i] = g[i - 1] \o s[i]
  BY <1>1, <1>2 DEF Joins
<1>6. \A n \in Nat : (IF n = 0 THEN 0 ELSE IF n <= L THEN n - 1 ELSE L) \in 0..L
  OBVIOUS
<1>7. \A n \in Nat : UpTo(s, n) \in Seq(E)
  BY <1>4, <1>6
<1>8. UpTo(s, 0) = <<>> /\ UpTo(s, 1) = <<>>
  <2>1. (IF 1 <= L THEN 1 - 1 ELSE L) = 0
    OBVIOUS
  <2> QED  BY <1>4, <1>5, <2>1
<1>9. ASSUME NEW n \in 1..L PROVE UpTo(s, n + 1) = UpTo(s, n) \o s[n]
  <2>1. (IF n + 1 <= L THEN (n + 1) - 1 ELSE L) = n /\ n \in Nat /\ n + 1 \in Nat /\ n + 1 # 0
        /\ n # 0 /\ n <= L
    OBVIOUS
  <2>2. UpTo(s, n + 1) = g[n] /\ UpTo(s, n) = g[n - 1]
    BY <1>4, <2>1
  <2> QED  BY <1>5, <2>2
<1>10. ASSUME NEW n \in Nat, ~ (n <= L) PROVE UpTo(s, n) = FlattenSeq(s)
  <2>1. UpTo(s, n) = g[L]
    BY <1>4, <1>10
  <2> QED  BY <1>1, <1>2, <2>1, JoinsIs
<1> QED  BY <1>1, <1>7, <1>8, <1>9, <1>10

\* UpTo looks only at the pieces before it.
LEMMA UpToSame ==
    ASSUME NEW s, NEW u, Len(s) \in Nat, Len(u) \in Nat,
           NEW n \in Nat, n <= Len(s), n <= Len(u), \A i \in 1..(n - 1) : s[i] = u[i]
    PROVE  UpTo(s, n) = UpTo(u, n)
<1>1. [i \in 1..(n - 1) |-> s[i]] = [i \in 1..(n - 1) |-> u[i]]
  OBVIOUS
<1> QED  BY <1>1 DEF UpTo

-----------------------------------------------------------------------------
\* What the calls of a stack have come to, the lowest first: each call below the
\* top has come to before what it waits for.
Waiting(w, st) == [i \in DOMAIN st |-> w[st[i]]]

StackDone(w, t, st) ==
    IF st = <<>> THEN <<>> ELSE UpTo(Waiting(w, st), Len(st)) \o t[st[Len(st)]]

\* One text after another.
Then(a, b) == a \o b

Texts(w, S, E) == w \in [S -> Seq(E)]

\* What an element of the stack below the top has come to.
LEMMA WaitingAt ==
    ASSUME NEW S, NEW w, NEW st \in Seq(S)
    PROVE  /\ Len(Waiting(w, st)) = Len(st)
           /\ \A i \in 1..Len(st) : Waiting(w, st)[i] = w[st[i]]
<1>1. PICK n \in Nat : n = Len(st) /\ DOMAIN st = 1..n
  OBVIOUS
<1>2. PICK v : v = [i \in 1..n |-> w[st[i]]]
  OBVIOUS
<1>3. Len(v) = n /\ \A i \in 1..n : v[i] = w[st[i]]
  BY <1>2
<1> QED  BY <1>1, <1>2, <1>3 DEF Waiting

\* The texts of what waits on the stack.
LEMMA WaitingIs ==
    ASSUME NEW S, NEW E, NEW w \in [S -> Seq(E)], NEW st \in Seq(S)
    PROVE  Waiting(w, st) \in Seq(Seq(E))
<1>1. PICK n \in Nat : n = Len(st) /\ DOMAIN st = 1..n
  OBVIOUS
<1>2. \A i \in 1..n : w[st[i]] \in Seq(E)
  BY <1>1, ElementOfSeq
<1> QED  BY <1>1, <1>2 DEF Waiting

\* A stack has come to a sequence of events.
LEMMA StackDoneType ==
    ASSUME NEW S, NEW E, NEW w \in [S -> Seq(E)], NEW t \in [S -> Seq(E)], NEW st \in Seq(S)
    PROVE  StackDone(w, t, st) \in Seq(E)
<1>1. PICK n \in Nat : n = Len(st)
  OBVIOUS
<1>2. CASE st = <<>>
  BY <1>2, EmptySeq DEF StackDone
<1>3. CASE st # <<>>
  <2>1. n \in 1..n
    BY <1>1, <1>3, EmptySeq
  <2>2. t[st[n]] \in Seq(E)
    BY <1>1, <2>1, ElementOfSeq
  <2>3. Waiting(w, st) \in Seq(Seq(E))
    BY WaitingIs
  <2>4. UpTo(Waiting(w, st), n) \in Seq(E)
    BY <2>3, UpToIs
  <2>5. UpTo(Waiting(w, st), n) \o t[st[n]] \in Seq(E)
    BY <2>2, <2>4, ConcatProperties
  <2> QED  BY <1>1, <1>3, <2>5 DEF StackDone
<1> QED  BY <1>2, <1>3

\* A stack of one element has come to what that element has.
LEMMA OneDone ==
    ASSUME NEW S, NEW E, NEW w, NEW t, Texts(w, S, E), Texts(t, S, E), NEW x \in S
    PROVE  StackDone(w, t, <<x>>) = t[x]
<1> USE DEF Texts
<1>1. PICK st : st = <<x>>
  OBVIOUS
<1>2. st \in Seq(S) /\ Len(st) = 1 /\ st[1] = x /\ st # <<>>
  BY <1>1
<1>3. Waiting(w, st) \in Seq(Seq(E))
  BY <1>2, WaitingIs
<1>4. UpTo(Waiting(w, st), 1) = <<>>
  BY <1>3, UpToIs
<1>5. <<>> \o t[x] = t[x]
  BY ConcatEmptySeq
<1>6. StackDone(w, t, st) = UpTo(Waiting(w, st), Len(st)) \o t[st[Len(st)]]
  BY <1>2 DEF StackDone
<1> QED  BY <1>1, <1>2, <1>4, <1>5, <1>6

\* The top comes to something.
LEMMA ReplacedDone ==
    ASSUME NEW S, NEW E, NEW w, NEW t, Texts(w, S, E), Texts(t, S, E),
           NEW st \in Seq(S), st # <<>>, NEW top \in S, NEW e \in Seq(E),
           t[top] = Then(t[st[Len(st)]], e)
    PROVE  StackDone(w, t, [st EXCEPT ![Len(st)] = top]) = Then(StackDone(w, t, st), e)
<1> USE DEF Texts, Then
<1>1. PICK n \in Nat : n = Len(st) /\ n \in 1..n /\ n # 0
  BY EmptySeq
<1>2. PICK u \in Seq(S) : u = [st EXCEPT ![n] = top] /\ Len(u) = n
  <2>1. n \in 1..Len(st)
    BY <1>1
  <2>2. [st EXCEPT ![n] = top] \in Seq(S) /\ Len([st EXCEPT ![n] = top]) = Len(st)
    BY <2>1, ExceptSeq
  <2> QED  BY <1>1, <2>2
<1>3. u[n] = top /\ (\A i \in 1..(n - 1) : u[i] = st[i]) /\ u # <<>>
  BY <1>1, <1>2, EmptySeq
<1>4. PICK v \in Seq(Seq(E)) : v = Waiting(w, st)
  BY WaitingIs
<1>5. PICK x \in Seq(Seq(E)) : x = Waiting(w, u)
  BY WaitingIs
<1>6. Len(v) = n /\ Len(x) = n /\ \A i \in 1..(n - 1) : v[i] = x[i]
  <2>1. Len(v) = n /\ \A i \in 1..n : v[i] = w[st[i]]
    <3>1. /\ Len(Waiting(w, st)) = Len(st)
          /\ \A i \in 1..Len(st) : Waiting(w, st)[i] = w[st[i]]
      <4>1. st \in Seq(S) /\ Len(st) \in Nat
        OBVIOUS
      <4>2. Len(Waiting(w, st)) = Len(st)
        <5> HIDE DEF Texts
        <5> QED  BY <4>1, WaitingAt
      <4>3. ASSUME NEW i \in 1..Len(st) PROVE Waiting(w, st)[i] = w[st[i]]
        <5>1. i \in DOMAIN st
          BY <4>1
        <5> QED  BY <5>1 DEF Waiting
      <4> QED  BY <4>2, <4>3
    <3> QED  BY <1>1, <1>4, <3>1
  <2>2. Len(x) = n /\ \A i \in 1..n : x[i] = w[u[i]]
    <3>1. /\ Len(Waiting(w, u)) = Len(u)
          /\ \A i \in 1..Len(u) : Waiting(w, u)[i] = w[u[i]]
      <4>1. u \in Seq(S) /\ Len(u) \in Nat
        BY <1>2
      <4>2. Len(Waiting(w, u)) = Len(u)
        <5> HIDE DEF Texts
        <5> QED  BY <4>1, WaitingAt
      <4>3. ASSUME NEW i \in 1..Len(u) PROVE Waiting(w, u)[i] = w[u[i]]
        <5>1. i \in DOMAIN u
          BY <4>1
        <5> QED  BY <5>1 DEF Waiting
      <4> QED  BY <4>2, <4>3
    <3> QED  BY <1>2, <1>5, <3>1
  <2>3. \A i \in 1..(n - 1) : i \in 1..n
    OBVIOUS
  <2> QED  BY <1>3, <2>1, <2>2, <2>3
<1>7. UpTo(v, n) = UpTo(x, n)
  <2>1. n <= Len(v) /\ n <= Len(x) /\ Len(v) \in Nat /\ Len(x) \in Nat
    BY <1>1, <1>6
  <2> QED  BY <1>6, <2>1, UpToSame
<1>8. PICK a \in Seq(E) : a = UpTo(v, n)
  BY UpToIs
<1>9. PICK b \in Seq(E) : b = t[st[n]]
  <2>1. st[n] \in S
    BY <1>1, ElementOfSeq
  <2> QED  BY <2>1
<1>10. a \o (b \o e) = (a \o b) \o e
  BY SMTT(30)
<1>11. StackDone(w, t, u) = a \o (b \o e)
  BY <1>1, <1>2, <1>3, <1>5, <1>7, <1>8, <1>9 DEF StackDone
<1>12. StackDone(w, t, st) = a \o b
  BY <1>1, <1>4, <1>8, <1>9 DEF StackDone
<1> QED  BY <1>1, <1>2, <1>10, <1>11, <1>12

\* The top begins to wait for a new call that has come to nothing.
LEMMA PushedDone ==
    ASSUME NEW S, NEW E, NEW w, NEW t, Texts(w, S, E), Texts(t, S, E),
           NEW st \in Seq(S), st # <<>>, NEW top \in S, NEW new \in S,
           w[top] = t[st[Len(st)]], t[new] = <<>>
    PROVE  StackDone(w, t, Append([st EXCEPT ![Len(st)] = top], new)) = StackDone(w, t, st)
<1> USE DEF Texts
<1>1. PICK n \in Nat : n = Len(st) /\ n \in 1..n /\ n # 0
  BY EmptySeq
<1>2. PICK u \in Seq(S) : u = [st EXCEPT ![n] = top] /\ Len(u) = n
  <2>1. n \in 1..Len(st)
    BY <1>1
  <2>2. [st EXCEPT ![n] = top] \in Seq(S) /\ Len([st EXCEPT ![n] = top]) = Len(st)
    BY <2>1, ExceptSeq
  <2> QED  BY <1>1, <2>2
<1>3. u[n] = top /\ (\A i \in 1..(n - 1) : u[i] = st[i]) /\ u # <<>>
  BY <1>1, <1>2, EmptySeq
<1>4. PICK p \in Seq(S) : p = Append(u, new) /\ Len(p) = n + 1 /\ p[n + 1] = new
                         /\ (\A i \in 1..n : p[i] = u[i]) /\ p # <<>>
  <2>1. /\ Append(u, new) \in Seq(S)
        /\ Append(u, new) # <<>>
        /\ Len(Append(u, new)) = Len(u) + 1
        /\ \A i \in 1..Len(u) : Append(u, new)[i] = u[i]
        /\ Append(u, new)[Len(u) + 1] = new
    BY AppendProperties
  <2> QED  BY <1>2, <2>1
<1>5. PICK v \in Seq(Seq(E)) : v = Waiting(w, st)
  BY WaitingIs
<1>6. PICK x \in Seq(Seq(E)) : x = Waiting(w, p)
  BY WaitingIs
<1>7. Len(v) = n /\ Len(x) = n + 1 /\ x[n] = w[top] /\ \A i \in 1..(n - 1) : v[i] = x[i]
  <2>1. Len(v) = n /\ \A i \in 1..n : v[i] = w[st[i]]
    <3>1. /\ Len(Waiting(w, st)) = Len(st)
          /\ \A i \in 1..Len(st) : Waiting(w, st)[i] = w[st[i]]
      <4>1. st \in Seq(S) /\ Len(st) \in Nat
        OBVIOUS
      <4>2. Len(Waiting(w, st)) = Len(st)
        <5> HIDE DEF Texts
        <5> QED  BY <4>1, WaitingAt
      <4>3. ASSUME NEW i \in 1..Len(st) PROVE Waiting(w, st)[i] = w[st[i]]
        <5>1. i \in DOMAIN st
          BY <4>1
        <5> QED  BY <5>1 DEF Waiting
      <4> QED  BY <4>2, <4>3
    <3> QED  BY <1>1, <1>5, <3>1
  <2>2. Len(x) = n + 1 /\ \A i \in 1..(n + 1) : x[i] = w[p[i]]
    <3>1. p \in Seq(S)
      BY <1>4
    <3>2. Len(Waiting(w, p)) = Len(p)
      <4> HIDE DEF Texts
      <4> QED  BY <3>1, WaitingAt
    <3>3. ASSUME NEW i \in 1..Len(p) PROVE Waiting(w, p)[i] = w[p[i]]
      <4>1. i \in DOMAIN p
        BY <3>1
      <4> QED  BY <4>1 DEF Waiting
    <3> QED  BY <1>4, <1>6, <3>2, <3>3
  <2>3. \A i \in 1..n : i \in 1..(n + 1) /\ p[i] = u[i]
    BY <1>4
  <2>4. x[n] = w[top]
    BY <1>1, <1>3, <2>2, <2>3
  <2>5. ASSUME NEW i \in 1..(n - 1) PROVE v[i] = x[i]
    <3>1. i \in 1..n /\ i \in 1..(n + 1)
      BY <1>1
    <3>2. v[i] = w[st[i]]
      BY <2>1, <3>1
    <3>3. x[i] = w[p[i]]
      BY <2>2, <3>1
    <3> QED  BY <1>3, <2>3, <3>1, <3>2, <3>3
  <2> QED  BY <2>1, <2>2, <2>4, <2>5
<1>8. UpTo(v, n) = UpTo(x, n)
  <2>1. n <= Len(v) /\ n <= Len(x) /\ Len(v) \in Nat /\ Len(x) \in Nat
    BY <1>1, <1>7
  <2> QED  BY <1>7, <2>1, UpToSame
<1>9. UpTo(x, n + 1) = UpTo(x, n) \o x[n]
  <2>1. n \in 1..Len(x)
    BY <1>1, <1>7
  <2> QED  BY <2>1, UpToIs
<1>10. PICK a \in Seq(E) : a = UpTo(v, n)
  BY UpToIs
<1>11. PICK b \in Seq(E) : b = t[st[n]]
  <2>1. st[n] \in S
    BY <1>1, ElementOfSeq
  <2> QED  BY <2>1
<1>12. (a \o b) \o <<>> = a \o b
  <2>1. a \o b \in Seq(E)
    BY ConcatProperties
  <2> QED  BY <2>1, ConcatEmptySeq
<1>13. StackDone(w, t, p) = UpTo(x, n + 1) \o t[new]
  BY <1>4, <1>6 DEF StackDone
<1>14. StackDone(w, t, p) = (a \o b) \o <<>>
  BY <1>1, <1>7, <1>8, <1>9, <1>10, <1>11, <1>13
<1>15. StackDone(w, t, st) = a \o b
  BY <1>1, <1>5, <1>10, <1>11 DEF StackDone
<1> QED  BY <1>1, <1>2, <1>4, <1>12, <1>14, <1>15

\* The top ends, with something more, and has been what the call below waited for.
LEMMA PoppedDone ==
    ASSUME NEW S, NEW E, NEW w, NEW t, Texts(w, S, E), Texts(t, S, E),
           NEW st \in Seq(S), Len(st) > 1, NEW e \in Seq(E),
           t[st[Len(st) - 1]] = Then(w[st[Len(st) - 1]], Then(t[st[Len(st)]], e))
    PROVE  StackDone(w, t, Front(st)) = Then(StackDone(w, t, st), e)
<1> USE DEF Texts, Then
<1>1. PICK n \in Nat : n = Len(st) /\ n > 1 /\ n \in 1..n /\ n - 1 \in 1..n /\ n - 1 \in Nat
  OBVIOUS
<1>2. SubSeq(st, 1, n - 1) \in Seq(S) /\ Len(SubSeq(st, 1, n - 1)) = n - 1
      /\ \A i \in 1..(n - 1) : SubSeq(st, 1, n - 1)[i] = st[i]
  <2>1. \A i \in 1..n : st[i] \in S
    BY <1>1, ElementOfSeq
  <2> QED  BY <1>1, <2>1, SubSeqProperties
<1>3. PICK u : u = SubSeq(st, 1, n - 1)
  OBVIOUS
<1>4. u \in Seq(S) /\ Len(u) = n - 1 /\ (\A i \in 1..(n - 1) : u[i] = st[i]) /\ Front(st) = u
  BY <1>1, <1>2, <1>3 DEF Front
<1>5. u # <<>> /\ st # <<>>
  BY <1>1, <1>4, EmptySeq
<1>6. PICK v \in Seq(Seq(E)) : v = Waiting(w, st)
  BY WaitingIs
<1>7. PICK x \in Seq(Seq(E)) : x = Waiting(w, u)
  BY <1>4, WaitingIs
<1>8. Len(v) = n /\ Len(x) = n - 1 /\ v[n - 1] = w[st[n - 1]]
      /\ \A i \in 1..((n - 1) - 1) : v[i] = x[i]
  <2>1. Len(v) = n /\ \A i \in 1..n : v[i] = w[st[i]]
    <3>1. /\ Len(Waiting(w, st)) = Len(st)
          /\ \A i \in 1..Len(st) : Waiting(w, st)[i] = w[st[i]]
      <4>1. st \in Seq(S) /\ Len(st) \in Nat
        OBVIOUS
      <4>2. Len(Waiting(w, st)) = Len(st)
        <5> HIDE DEF Texts
        <5> QED  BY <4>1, WaitingAt
      <4>3. ASSUME NEW i \in 1..Len(st) PROVE Waiting(w, st)[i] = w[st[i]]
        <5>1. i \in DOMAIN st
          BY <4>1
        <5> QED  BY <5>1 DEF Waiting
      <4> QED  BY <4>2, <4>3
    <3> QED  BY <1>1, <1>6, <3>1
  <2>2. Len(x) = n - 1 /\ \A i \in 1..(n - 1) : x[i] = w[u[i]]
    <3>1. u \in Seq(S)
      BY <1>4
    <3>2. /\ Len(Waiting(w, u)) = Len(u)
          /\ \A i \in 1..Len(u) : Waiting(w, u)[i] = w[u[i]]
      BY <3>1, WaitingAt
    <3> QED  BY <1>4, <1>7, <3>2
  <2>3. ASSUME NEW i \in 1..((n - 1) - 1) PROVE v[i] = x[i]
    <3>1. i \in 1..n /\ i \in 1..(n - 1)
      BY <1>1
    <3>2. v[i] = w[st[i]]
      BY <2>1, <3>1
    <3>3. x[i] = w[u[i]] /\ u[i] = st[i]
      BY <1>4, <2>2, <3>1
    <3> QED  BY <3>2, <3>3
  <2>4. v[n - 1] = w[st[n - 1]]
    BY <1>1, <2>1
  <2> QED  BY <2>1, <2>2, <2>3, <2>4
<1>9. UpTo(v, n - 1) = UpTo(x, n - 1)
  <2>1. n - 1 <= Len(v) /\ n - 1 <= Len(x)
    BY <1>1, <1>8
  <2> QED  BY <1>1, <1>8, <2>1, UpToSame
<1>10. UpTo(v, n) = UpTo(v, n - 1) \o v[n - 1]
  <2>1. n - 1 \in 1..Len(v) /\ (n - 1) + 1 = n
    BY <1>1, <1>8
  <2> QED  BY <2>1, UpToIs
<1>11. PICK a \in Seq(E) : a = UpTo(v, n - 1)
  BY <1>1, UpToIs
<1>12. st[n - 1] \in S /\ st[n] \in S
  BY <1>1, ElementOfSeq
<1>13. PICK b \in Seq(E) : b = w[st[n - 1]]
  BY <1>12
<1>14. PICK c \in Seq(E) : c = t[st[n]]
  BY <1>12
<1>15. a \o (b \o (c \o e)) = ((a \o b) \o c) \o e
  <2> HIDE DEF Texts
  <2> QED  BY SMTT(30)
<1>16. StackDone(w, t, u) = a \o (b \o (c \o e))
  <2>1. StackDone(w, t, u) = UpTo(x, n - 1) \o t[u[n - 1]]
    BY <1>4, <1>5, <1>7 DEF StackDone
  <2>2. u[n - 1] = st[n - 1]
    <3>1. n - 1 \in 1..(n - 1)
      BY <1>1
    <3> QED  BY <1>4, <3>1
  <2>3. t[st[n - 1]] = b \o (c \o e)
    BY <1>1, <1>13, <1>14
  <2> QED  BY <1>9, <1>11, <2>1, <2>2, <2>3
<1>17. StackDone(w, t, st) = (a \o b) \o c
  BY <1>1, <1>5, <1>6, <1>8, <1>10, <1>11, <1>13, <1>14 DEF StackDone
<1> QED  BY <1>4, <1>15, <1>16, <1>17

-----------------------------------------------------------------------------
\* The texts of a list joined are a text.
LEMMA FlattenType ==
    ASSUME NEW E, NEW s \in Seq(Seq(E))
    PROVE  FlattenSeq(s) \in Seq(E)
<1>1. PICK n \in Nat : n = Len(s) /\ n \in 0..n
  OBVIOUS
<1>2. PICK g \in [0..n -> Seq(E)] : Joins(g, s)
  BY <1>1, JoinsEnd
<1>3. FlattenSeq(s) = g[n]
  BY <1>1, <1>2, JoinsIs
<1> QED  BY <1>1, <1>3

\* What holds first and is carried on holds last.
LEMMA CarriedOn ==
    ASSUME NEW T, NEW g, NEW m \in Nat, g[0] \in T,
           \A n \in 1..m : g[n - 1] \in T => g[n] \in T
    PROVE  g[m] \in T
<1>1. PICK S : S = {n \in Nat : n <= m => g[n] \in T}
  OBVIOUS
<1>2. 0 \in S
  BY <1>1
<1>3. ASSUME NEW n \in Nat, n \in S PROVE n + 1 \in S
  <2>1. CASE ~ (n + 1 <= m)
    BY <1>1, <2>1
  <2>2. CASE n + 1 <= m
    <3>1. n + 1 \in 1..m /\ (n + 1) - 1 = n /\ n <= m
      BY <2>2
    <3>2. g[n] \in T
      BY <1>1, <1>3, <3>1
    <3>3. g[n + 1] \in T
      BY <3>1, <3>2
    <3> QED  BY <1>1, <3>3
  <2> QED  BY <2>1, <2>2
<1>4. m \in S
  BY <1>2, <1>3, CountedUp
<1> QED  BY <1>1, <1>4

-----------------------------------------------------------------------------
\* What a load of the disk d may do.
Happenings(d) ==
    Statement \cup {Changed(b) : b \in BOOLEAN}
      \cup {Masked(d.mask[p]) : p \in Profiles} \cup {Forced(d.force[p]) : p \in Profiles}

StatementPieces(d, f, inner) ==
    [i \in DOMAIN d.content[f].stmts |->
        LET s == d.content[f].stmts[i]
        IN IF s.op = "set" THEN <<s>> ELSE inner[s.file]]

\* The assignments of a file that is there are its pieces joined.
LEMMA AssignmentsAre ==
    ASSUME NEW d, NEW f, NEW inner
    PROVE  Assignments(d, f, inner) =
              IF d.content[f] = Missing THEN <<>> ELSE FlattenSeq(StatementPieces(d, f, inner))
BY DEF Assignments, StatementPieces

\* A statement assigns or names a file.
LEMMA StatementIs ==
    ASSUME NEW s \in Statement
    PROVE  (s.op = "set" \/ s.op = "source") /\ (s.op # "set" => s.file \in Files)
BY DEF Statement

\* The pieces of a file, one for each statement.
LEMMA StatementPiecesAre ==
    ASSUME NEW d \in FileSystems, NEW f \in Files, d.content[f] # Missing,
           NEW inner \in [Files -> Seq(Happenings(d))]
    PROVE  /\ StatementPieces(d, f, inner) \in Seq(Seq(Happenings(d)))
           /\ Len(StatementPieces(d, f, inner)) = Len(d.content[f].stmts)
<1>1. PICK stmts \in Seq(Statement) : stmts = d.content[f].stmts
  BY DiskAssumption
<1>2. PICK n \in Nat : n = Len(stmts) /\ DOMAIN stmts = 1..n
  OBVIOUS
<1>3. PICK v : v = [i \in 1..n |-> LET s == stmts[i]
                                  IN IF s.op = "set" THEN <<s>> ELSE inner[s.file]]
  OBVIOUS
<1>4. ASSUME NEW i \in 1..n PROVE v[i] \in Seq(Happenings(d))
  <2>1. PICK s \in Statement : s = stmts[i]
    BY <1>2, ElementOfSeq
  <2>2. v[i] = IF s.op = "set" THEN <<s>> ELSE inner[s.file]
    BY <1>3, <2>1
  <2>3. CASE s.op = "set"
    <3>1. s \in Happenings(d)
      BY DEF Happenings
    <3>2. <<s>> \in Seq(Happenings(d))
      BY <3>1
    <3> QED  BY <2>2, <2>3, <3>2
  <2>4. CASE s.op # "set"
    <3>1. s.file \in Files
      BY <2>4, StatementIs
    <3> QED  BY <2>2, <2>4, <3>1
  <2> QED  BY <2>3, <2>4
<1>5. v \in Seq(Seq(Happenings(d))) /\ Len(v) = n
  BY <1>3, <1>4
<1>6. StatementPieces(d, f, inner) = v
  BY <1>1, <1>2, <1>3 DEF StatementPieces
<1> QED  BY <1>1, <1>2, <1>5, <1>6

\* The assignments of a file are events of the disk.
LEMMA AssignmentsType ==
    ASSUME NEW d \in FileSystems, NEW f \in Files, NEW inner \in [Files -> Seq(Happenings(d))]
    PROVE  Assignments(d, f, inner) \in Seq(Happenings(d))
<1>1. CASE d.content[f] = Missing
  BY <1>1, AssignmentsAre, EmptySeq
<1>2. CASE d.content[f] # Missing
  <2>1. StatementPieces(d, f, inner) \in Seq(Seq(Happenings(d)))
    BY <1>2, StatementPiecesAre
  <2>2. FlattenSeq(StatementPieces(d, f, inner)) \in Seq(Happenings(d))
    BY <2>1, FlattenType
  <2> QED  BY <1>2, <2>2, AssignmentsAre
<1> QED  BY <1>1, <1>2

\* So are those of the file with everything it reads.
LEMMA InlinedType ==
    ASSUME NEW d \in FileSystems
    PROVE  Inlined(d) \in [Files -> Seq(Happenings(d))]
<1>1. PICK T : T = [Files -> Seq(Happenings(d))]
  OBVIOUS
<1>2. PICK M \in Nat : M = MaxDepth
  BY DepthAssumption
<1> DEFINE Deeper(m) ==
      [n \in 0..M |-> [f \in Files |-> IF n = 0 THEN <<>> ELSE Assignments(d, f, m[n - 1])]]
<1>3. PICK step : step = [x \in Nat \X T |-> [f \in Files |-> Assignments(d, f, x[2])]]
  OBVIOUS
<1>4. step \in [Nat \X T -> T]
  <2>1. ASSUME NEW x \in Nat \X T PROVE [f \in Files |-> Assignments(d, f, x[2])] \in T
    <3>1. x[2] \in [Files -> Seq(Happenings(d))]
      BY <1>1
    <3>2. \A f \in Files : Assignments(d, f, x[2]) \in Seq(Happenings(d))
      BY <3>1, AssignmentsType
    <3> QED  BY <1>1, <3>2
  <2> QED  BY <1>3, <2>1
<1>5. PICK base \in T : base = [f \in Files |-> <<>>]
  <2>1. <<>> \in Seq(Happenings(d))
    BY EmptySeq
  <2> QED  BY <1>1, <2>1
<1>6. PICK g \in [0..M -> T] : Follows(g, base, step, M)
  BY <1>4, RecursionEnds
<1>7. g = Deeper(g)
  <2>1. ASSUME NEW n \in 0..M
        PROVE  g[n] = [f \in Files |-> IF n = 0 THEN <<>> ELSE Assignments(d, f, g[n - 1])]
    <3>1. CASE n = 0
      <4>1. g[0] = base
        BY <1>6 DEF Follows
      <4> QED  BY <1>5, <3>1, <4>1
    <3>2. CASE n # 0
      <4>1. n \in 1..M /\ n - 1 \in 0..M /\ n \in Nat
        BY <3>2
      <4>2. g[n] = step[<<n, g[n - 1]>>]
        BY <1>6, <4>1 DEF Follows
      <4>3. step[<<n, g[n - 1]>>] = [f \in Files |-> Assignments(d, f, g[n - 1])]
        <5>1. <<n, g[n - 1]>> \in Nat \X T
          BY <4>1
        <5> QED  BY <1>3, <5>1
      <4> QED  BY <3>2, <4>2, <4>3
    <3> QED  BY <3>1, <3>2
  <2> QED  BY <2>1
<1>8. PICK p : p = CHOOSE m : m = Deeper(m)
  OBVIOUS
<1>9. Inlined(d) = p[M]
  BY <1>2, <1>8 DEF Inlined
<1>10. p = Deeper(p)
  BY <1>7, <1>8
<1>11. \A n \in 0..M :
          p[n] = [f \in Files |-> IF n = 0 THEN <<>> ELSE Assignments(d, f, p[n - 1])]
  <2>1. PICK q : q = Deeper(p)
    OBVIOUS
  <2>2. \A n \in 0..M :
          q[n] = [f \in Files |-> IF n = 0 THEN <<>> ELSE Assignments(d, f, p[n - 1])]
    BY <2>1
  <2> QED  BY <1>10, <2>1, <2>2
<1> HIDE DEF Deeper
<1>12. p[0] \in T
  <2>1. p[0] = [f \in Files |-> <<>>]
    BY <1>11
  <2> QED  BY <1>5, <2>1
<1>13. ASSUME NEW n \in 1..M, p[n - 1] \in T PROVE p[n] \in T
  <2>1. p[n] = [f \in Files |-> Assignments(d, f, p[n - 1])]
    BY <1>11
  <2>2. \A f \in Files : Assignments(d, f, p[n - 1]) \in Seq(Happenings(d))
    BY <1>1, <1>13, AssignmentsType
  <2> QED  BY <1>1, <2>1, <2>2
<1>14. p[M] \in T
  BY <1>12, <1>13, CarriedOn
<1> QED  BY <1>1, <1>9, <1>14
-----------------------------------------------------------------------------
\* One happening is a text.
LEMMA HappeningIs ==
    ASSUME NEW d
    PROVE  /\ \A s \in Statement : <<s>> \in Seq(Happenings(d))
           /\ \A b \in BOOLEAN : <<Changed(b)>> \in Seq(Happenings(d))
           /\ \A p \in Profiles : /\ <<Masked(d.mask[p])>> \in Seq(Happenings(d))
                                  /\ <<Forced(d.force[p])>> \in Seq(Happenings(d))
<1>1. ASSUME NEW e \in Happenings(d) PROVE <<e>> \in Seq(Happenings(d))
  OBVIOUS
<1>2. \A s \in Statement : s \in Happenings(d)
  BY DEF Happenings
<1>3. \A b \in BOOLEAN : Changed(b) \in Happenings(d)
  BY DEF Happenings
<1>4. \A p \in Profiles : Masked(d.mask[p]) \in Happenings(d) /\ Forced(d.force[p]) \in Happenings(d)
  BY DEF Happenings
<1> QED  BY <1>1, <1>2, <1>3, <1>4

\* Two texts one after the other are a text.
LEMMA TextsJoin ==
    ASSUME NEW E, NEW a \in Seq(E), NEW b \in Seq(E)
    PROVE  a \o b \in Seq(E)
  OBVIOUS

\* So is what load_make_config does with a file.
LEMMA LoadedType ==
    ASSUME NEW d \in FileSystems, NEW f \in Files, NEW stack \in BOOLEAN
    PROVE  Loaded(d, f, stack) \in Seq(Happenings(d))
<1>1. Inlined(d)[f] \in Seq(Happenings(d))
  BY InlinedType
<1>2. <<Changed(stack)>> \in Seq(Happenings(d))
  BY HappeningIs
<1>3. Inlined(d)[f] \o <<Changed(stack)>> \in Seq(Happenings(d))
  BY <1>1, <1>2, TextsJoin
<1>4. <<>> \in Seq(Happenings(d))
  BY EmptySeq
<1> QED  BY <1>3, <1>4 DEF Loaded

ParentPieces(d, p, above) ==
    [i \in DOMAIN GetLines(d.parents[p]) |-> above[GetLines(d.parents[p])[i]]]

\* The pieces of a profile, one for each parent.
LEMMA ParentPiecesAre ==
    ASSUME NEW d \in FileSystems, NEW p \in Profiles, GetLines(d.parents[p]) # NULL,
           NEW above \in [Profiles -> Seq(Happenings(d))]
    PROVE  /\ ParentPieces(d, p, above) \in Seq(Seq(Happenings(d)))
           /\ Len(ParentPieces(d, p, above)) = Len(GetLines(d.parents[p]))
<1>1. PICK lines \in Seq(Profiles) : lines = GetLines(d.parents[p])
  BY DiskAssumption
<1>2. PICK n \in Nat : n = Len(lines) /\ DOMAIN lines = 1..n
  OBVIOUS
<1>3. PICK v : v = [i \in 1..n |-> above[lines[i]]]
  OBVIOUS
<1>4. ASSUME NEW i \in 1..n PROVE v[i] \in Seq(Happenings(d))
  <2>1. lines[i] \in Profiles
    BY <1>2, ElementOfSeq
  <2> QED  BY <1>3, <2>1
<1>5. v \in Seq(Seq(Happenings(d))) /\ Len(v) = n
  BY <1>3, <1>4
<1>6. ParentPieces(d, p, above) = v
  BY <1>1, <1>2, <1>3 DEF ParentPieces
<1> QED  BY <1>1, <1>2, <1>5, <1>6

\* What a profile whose parents can be read is worth.
LEMMA AncestryIs ==
    ASSUME NEW d, NEW p, NEW above
    PROVE  Ancestry(d, p, above) =
              IF GetLines(d.parents[p]) = NULL THEN <<>>
              ELSE FlattenSeq(ParentPieces(d, p, above)) \o Loaded(d, MakeDefaults[p], TRUE)
                     \o <<Masked(d.mask[p]), Forced(d.force[p])>>
BY DEF Ancestry, ParentPieces

\* It is events of the disk.
LEMMA AncestryType ==
    ASSUME NEW d \in FileSystems, NEW p \in Profiles, NEW above \in [Profiles -> Seq(Happenings(d))]
    PROVE  Ancestry(d, p, above) \in Seq(Happenings(d))
<1>1. CASE GetLines(d.parents[p]) = NULL
  BY <1>1, AncestryIs, EmptySeq
<1>2. CASE GetLines(d.parents[p]) # NULL
  <2>1. PICK a \in Seq(Happenings(d)) : a = FlattenSeq(ParentPieces(d, p, above))
    <3>1. ParentPieces(d, p, above) \in Seq(Seq(Happenings(d)))
      BY <1>2, ParentPiecesAre
    <3> QED  BY <3>1, FlattenType
  <2>2. PICK b \in Seq(Happenings(d)) : b = Loaded(d, MakeDefaults[p], TRUE)
    <3>1. MakeDefaults[p] \in Files
      BY PlacesAssumption
    <3> QED  BY <3>1, LoadedType
  <2>3. PICK c \in Seq(Happenings(d)) : c = <<Masked(d.mask[p]), Forced(d.force[p])>>
    <3>1. Masked(d.mask[p]) \in Happenings(d) /\ Forced(d.force[p]) \in Happenings(d)
      BY DEF Happenings
    <3>2. \A x, y \in Happenings(d) : <<x, y>> \in Seq(Happenings(d))
      OBVIOUS
    <3> QED  BY <3>1, <3>2
  <2>4. a \o b \o c \in Seq(Happenings(d))
    OBVIOUS
  <2> QED  BY <1>2, <2>1, <2>2, <2>3, <2>4, AncestryIs
<1> QED  BY <1>1, <1>2

\* So is what it inherits.
LEMMA InheritedType ==
    ASSUME NEW d \in FileSystems
    PROVE  Inherited(d) \in [Profiles -> Seq(Happenings(d))]
<1>1. PICK T : T = [Profiles -> Seq(Happenings(d))]
  OBVIOUS
<1>2. PICK M \in Nat : M = MaxDepth
  BY DepthAssumption
<1> DEFINE Deeper(m) ==
      [n \in 0..M |-> [p \in Profiles |-> IF n = 0 THEN <<>> ELSE Ancestry(d, p, m[n - 1])]]
<1>3. PICK step : step = [x \in Nat \X T |-> [p \in Profiles |-> Ancestry(d, p, x[2])]]
  OBVIOUS
<1>4. step \in [Nat \X T -> T]
  <2>1. ASSUME NEW x \in Nat \X T PROVE [p \in Profiles |-> Ancestry(d, p, x[2])] \in T
    <3>1. x[2] \in [Profiles -> Seq(Happenings(d))]
      BY <1>1
    <3>2. \A p \in Profiles : Ancestry(d, p, x[2]) \in Seq(Happenings(d))
      BY <3>1, AncestryType
    <3> QED  BY <1>1, <3>2
  <2> QED  BY <1>3, <2>1
<1>5. PICK base \in T : base = [p \in Profiles |-> <<>>]
  <2>1. <<>> \in Seq(Happenings(d))
    BY EmptySeq
  <2> QED  BY <1>1, <2>1
<1>6. PICK g \in [0..M -> T] : Follows(g, base, step, M)
  BY <1>4, RecursionEnds
<1>7. g = Deeper(g)
  <2>1. ASSUME NEW n \in 0..M
        PROVE  g[n] = [p \in Profiles |-> IF n = 0 THEN <<>> ELSE Ancestry(d, p, g[n - 1])]
    <3>1. CASE n = 0
      <4>1. g[0] = base
        BY <1>6 DEF Follows
      <4> QED  BY <1>5, <3>1, <4>1
    <3>2. CASE n # 0
      <4>1. n \in 1..M /\ n - 1 \in 0..M /\ n \in Nat
        BY <3>2
      <4>2. g[n] = step[<<n, g[n - 1]>>]
        BY <1>6, <4>1 DEF Follows
      <4>3. step[<<n, g[n - 1]>>] = [p \in Profiles |-> Ancestry(d, p, g[n - 1])]
        <5>1. <<n, g[n - 1]>> \in Nat \X T
          BY <4>1
        <5> QED  BY <1>3, <5>1
      <4> QED  BY <3>2, <4>2, <4>3
    <3> QED  BY <3>1, <3>2
  <2> QED  BY <2>1
<1>8. PICK a : a = CHOOSE m : m = Deeper(m)
  OBVIOUS
<1>9. Inherited(d) = a[M]
  BY <1>2, <1>8 DEF Inherited
<1>10. a = Deeper(a)
  BY <1>7, <1>8
<1>11. \A n \in 0..M :
          a[n] = [p \in Profiles |-> IF n = 0 THEN <<>> ELSE Ancestry(d, p, a[n - 1])]
  <2>1. PICK q : q = Deeper(a)
    OBVIOUS
  <2>2. \A n \in 0..M :
          q[n] = [p \in Profiles |-> IF n = 0 THEN <<>> ELSE Ancestry(d, p, a[n - 1])]
    BY <2>1
  <2> QED  BY <1>10, <2>1, <2>2
<1> HIDE DEF Deeper
<1>12. a[0] \in T
  <2>1. a[0] = [p \in Profiles |-> <<>>]
    BY <1>11
  <2> QED  BY <1>5, <2>1
<1>13. ASSUME NEW n \in 1..M, a[n - 1] \in T PROVE a[n] \in T
  <2>1. a[n] = [p \in Profiles |-> Ancestry(d, p, a[n - 1])]
    BY <1>11
  <2>2. \A p \in Profiles : Ancestry(d, p, a[n - 1]) \in Seq(Happenings(d))
    BY <1>1, <1>13, AncestryType
  <2> QED  BY <1>1, <2>1, <2>2
<1>14. a[M] \in T
  BY <1>12, <1>13, CarriedOn
<1> QED  BY <1>1, <1>9, <1>14
-----------------------------------------------------------------------------
\* The book is kept entry by entry.
Kept(g, s) == g = [n \in 0..Len(s) |-> IF n = 0 THEN NoBook ELSE Entered(g[n - 1], s[n])]

\* The function that Book is defined by follows its recursion.
LEMMA KeptIs ==
    ASSUME NEW g, NEW s, Len(s) \in Nat
    PROVE  Kept(g, s) => /\ g[0] = NoBook
                         /\ \A n \in 1..Len(s) : g[n] = Entered(g[n - 1], s[n])
<1>1. PICK L \in Nat : L = Len(s)
  OBVIOUS
<1>2. PICK h : h = [n \in 0..L |-> IF n = 0 THEN NoBook ELSE Entered(g[n - 1], s[n])]
  OBVIOUS
<1>3. h[0] = NoBook /\ \A n \in 1..L : h[n] = Entered(g[n - 1], s[n])
  BY <1>2
<1> QED  BY <1>1, <1>2, <1>3 DEF Kept

\* Book is that function at the last event.
LEMMA BookIsKept ==
    ASSUME NEW s, Len(s) \in Nat
    PROVE  \E g : Kept(g, s) /\ Book(s) = g[Len(s)]
<1>1. PICK L \in Nat : L = Len(s)
  OBVIOUS
<1> DEFINE Page(n, g) == IF n = 0 THEN NoBook ELSE Entered(g[n - 1], s[n])
           Long == {k \in Nat : \E g : g = [n \in 0..k |-> Page(n, g)]}
<1>2. 0 \in Long
  <2>1. PICK g : g = [n \in 0..0 |-> NoBook]
    OBVIOUS
  <2>2. g = [n \in 0..0 |-> Page(n, g)]
    BY <2>1
  <2> QED  BY <2>2
<1>3. ASSUME NEW k \in Nat, k \in Long PROVE k + 1 \in Long
  <2>1. PICK g : g = [n \in 0..k |-> Page(n, g)]
    BY <1>3
  <2>2. PICK h : h = [n \in 0..(k + 1) |-> IF n <= k THEN g[n] ELSE Page(n, g)]
    OBVIOUS
  <2>3. ASSUME NEW n \in 0..(k + 1) PROVE h[n] = Page(n, h)
    <3>1. h[n] = Page(n, g)
      <4>1. CASE n <= k
        <5>1. n \in 0..k /\ h[n] = g[n]
          BY <2>2, <4>1
        <5>2. PICK p : p = [j \in 0..k |-> Page(j, g)]
          OBVIOUS
        <5>3. p[n] = Page(n, g)
          BY <5>1, <5>2
        <5> QED  BY <2>1, <5>1, <5>2, <5>3
      <4>2. CASE ~ (n <= k)
        BY <2>2, <4>2
      <4> QED  BY <4>1, <4>2
    <3>2. CASE n = 0
      BY <3>1, <3>2
    <3>3. CASE n # 0
      <4>1. n - 1 \in 0..(k + 1) /\ n - 1 <= k
        BY <3>3
      <4>2. h[n - 1] = g[n - 1]
        BY <2>2, <4>1
      <4> QED  BY <3>1, <3>3, <4>2
    <3> QED  BY <3>2, <3>3
  <2>4. h = [n \in 0..(k + 1) |-> Page(n, h)]
    <3> HIDE DEF Page
    <3> QED  BY <2>2, <2>3
  <2> QED  BY <2>4
<1>4. L \in Long
  <2> HIDE DEF Long
  <2> QED  BY <1>2, <1>3, CountedUp
<1>5. \E g : g = [n \in 0..L |-> Page(n, g)]
  BY <1>4
<1>6. PICK p : p = CHOOSE g : g = [n \in 0..L |-> Page(n, g)]
  OBVIOUS
<1>7. p = [n \in 0..L |-> Page(n, p)]
  <2> HIDE DEF Page
  <2> QED  BY <1>5, <1>6
<1>8. Kept(p, s)
  BY <1>1, <1>7 DEF Kept
<1>9. Book(s) = p[L]
  BY <1>1, <1>6 DEF Book
<1> QED  BY <1>1, <1>8, <1>9

\* Nothing has happened: the book is empty.
LEMMA BookBegins == Book(<<>>) = NoBook
<1>1. PICK s : s = <<>>
  OBVIOUS
<1>2. Len(s) = 0 /\ Len(s) \in Nat
  BY <1>1
<1>3. PICK g : Kept(g, s) /\ Book(s) = g[Len(s)]
  BY <1>2, BookIsKept
<1> QED  BY <1>1, <1>2, <1>3, KeptIs

\* One more event is entered into the book of those before it.
LEMMA BookGoesOn ==
    ASSUME NEW E, NEW s \in Seq(E), NEW e \in E
    PROVE  Book(s \o <<e>>) = Entered(Book(s), e)
<1>1. PICK L \in Nat : L = Len(s)
  OBVIOUS
<1>2. PICK u : u = s \o <<e>>
  OBVIOUS
<1>3. Len(u) = L + 1 /\ u[L + 1] = e /\ \A i \in 1..L : u[i] = s[i]
  BY <1>1, <1>2
<1>4. PICK g : Kept(g, s) /\ Book(s) = g[L]
  BY <1>1, BookIsKept
<1>5. PICK h : Kept(h, u) /\ Book(u) = h[L + 1]
  <2>1. Len(u) \in Nat
    BY <1>3
  <2> QED  BY <1>3, <2>1, BookIsKept
<1>6. g[0] = NoBook /\ \A n \in 1..L : g[n] = Entered(g[n - 1], s[n])
  BY <1>1, <1>4, KeptIs
<1>7. h[0] = NoBook /\ \A n \in 1..(L + 1) : h[n] = Entered(h[n - 1], u[n])
  <2>1. Len(u) \in Nat
    BY <1>3
  <2> QED  BY <1>3, <1>5, <2>1, KeptIs
<1>8. PICK Same : Same = {n \in Nat : n <= L => g[n] = h[n]}
  OBVIOUS
<1>9. 0 \in Same
  BY <1>6, <1>7, <1>8
<1>10. ASSUME NEW n \in Nat, n \in Same PROVE n + 1 \in Same
  <2>1. CASE ~ (n + 1 <= L)
    BY <1>8, <2>1
  <2>2. CASE n + 1 <= L
    <3>1. n + 1 \in 1..L /\ n + 1 \in 1..(L + 1) /\ (n + 1) - 1 = n /\ n <= L
      BY <2>2
    <3>2. g[n] = h[n]
      BY <1>8, <1>10, <3>1
    <3>3. g[n + 1] = Entered(g[n], s[n + 1])
      BY <1>6, <3>1
    <3>4. h[n + 1] = Entered(h[n], u[n + 1])
      BY <1>7, <3>1
    <3>5. g[n + 1] = h[n + 1]
      BY <1>3, <3>1, <3>2, <3>3, <3>4
    <3> QED  BY <1>8, <3>5
  <2> QED  BY <2>1, <2>2
<1>11. g[L] = h[L]
  <2>1. L \in Same
    BY <1>9, <1>10, CountedUp
  <2> QED  BY <1>8, <2>1
<1>12. h[L + 1] = Entered(h[L], e)
  <2>1. L + 1 \in 1..(L + 1) /\ (L + 1) - 1 = L
    OBVIOUS
  <2> QED  BY <1>3, <1>7, <2>1
<1> QED  BY <1>2, <1>4, <1>5, <1>11, <1>12

-----------------------------------------------------------------------------
\* A book has its six entries.
IsBook(b) ==
    /\ b = [text |-> b.text, words |-> b.words, known |-> b.known,
            mask |-> b.mask, force |-> b.force, late |-> b.late]
    /\ b.late \in BOOLEAN

\* The book says what the program holds; once make.conf has changed USE_EXPAND,
\* of the words only those of USE_EXPAND.
Agrees(b) ==
    /\ b.text = config /\ b.known = Registered /\ b.mask = useMask /\ b.force = useForce
    /\ \A k \in Vars \ Registered : b.words[k] = {}
    /\ \A k \in Registered : ~b.late \/ k = UseExpand => b.words[k] = incrementals[k]

\* The variables start as the empty book says.
LEMMA NoBookAgrees == IncInit => IsBook(NoBook) /\ Agrees(NoBook)
<1> SUFFICES ASSUME IncInit PROVE IsBook(NoBook) /\ Agrees(NoBook)
  OBVIOUS
<1>1. IsBook(NoBook)
  BY DEF IsBook, NoBook
<1>2. DefaultIncrementals \subseteq Vars
  BY NamesAssumption
<1>3. Agrees(NoBook)
  BY <1>2 DEF IncInit, Agrees, NoBook, Registered
<1> QED  BY <1>1, <1>3

\* A variable that is not in config adds nothing.
LEMMA StackEmpty == \A S : Stack(S, Empty) = S
  BY DEF Stack, Empty

\* The fields of a book after an assignment.
LEMMA AssignedIs ==
    ASSUME NEW b, IsBook(b), NEW s
    PROVE  Assigned(b, s) =
             [text |-> [b.text EXCEPT ![s.var] =
                          IF s.ref = NULL THEN s.val ELSE Join(OrEmpty(b.text[s.ref]), s.val)],
              words |-> b.words, known |-> b.known, mask |-> b.mask, force |-> b.force,
              late |-> b.late]
<1>1. PICK v : v = IF s.ref = NULL THEN s.val ELSE Join(OrEmpty(b.text[s.ref]), s.val)
  OBVIOUS
<1>2. Assigned(b, s) = [b EXCEPT !.text[s.var] = v]
  BY <1>1 DEF Assigned
<1>3. PICK text, words, known, mask, force, late :
         b = [text |-> text, words |-> words, known |-> known, mask |-> mask,
              force |-> force, late |-> late]
  BY DEF IsBook
<1>4. [b EXCEPT !.text[s.var] = v] =
        [text |-> [text EXCEPT ![s.var] = v], words |-> words, known |-> known,
         mask |-> mask, force |-> force, late |-> late]
  BY <1>3
<1>5. /\ b.text = text /\ b.words = words /\ b.known = known /\ b.mask = mask
      /\ b.force = force /\ b.late = late
  BY <1>3
<1> QED  BY <1>1, <1>2, <1>4, <1>5

\* An assignment in a file.
LEMMA AssignedAgrees ==
    ASSUME NEW b, IsBook(b), Agrees(b), NEW s \in Statement, s.op = "set",
           Assign(s.var, IF s.ref = NULL THEN s.val ELSE Join(Lookup(s.ref), s.val))
    PROVE  IsBook(Entered(b, s)) /\ Agrees(Entered(b, s))'
<1>1. Entered(b, s) = Assigned(b, s)
  BY DEF Entered
<1>2. PICK v : v = IF s.ref = NULL THEN s.val ELSE Join(OrEmpty(b.text[s.ref]), s.val)
  OBVIOUS
<1>3. v = IF s.ref = NULL THEN s.val ELSE Join(Lookup(s.ref), s.val)
  <2>1. b.text = config
    BY DEF Agrees
  <2>2. OrEmpty(b.text[s.ref]) = Lookup(s.ref)
    BY <2>1 DEF OrEmpty, Lookup
  <2> QED  BY <1>2, <2>2
<1>4. PICK c : c = [text |-> [b.text EXCEPT ![s.var] = v], words |-> b.words, known |-> b.known,
                    mask |-> b.mask, force |-> b.force, late |-> b.late]
  OBVIOUS
<1>5. Entered(b, s) = c
  BY <1>1, <1>2, <1>4, AssignedIs
<1>6. /\ c.text = [b.text EXCEPT ![s.var] = v]
      /\ c.words = b.words /\ c.known = b.known /\ c.mask = b.mask /\ c.force = b.force
      /\ c.late = b.late
  BY <1>4
<1>7. IsBook(c)
  BY <1>4, <1>6 DEF IsBook
<1>8. /\ config' = [config EXCEPT ![s.var] = v]
      /\ UNCHANGED <<incrementals, useMask, useForce>>
  BY <1>3 DEF Assign
<1>9. Agrees(c)'
  BY <1>6, <1>8 DEF Agrees, Registered
<1> QED  BY <1>5, <1>7, <1>9

\* use.mask and use.force of a profile.
LEMMA MaskedAgrees ==
    ASSUME NEW b, IsBook(b), Agrees(b), NEW v, ProcessMask(v)
    PROVE  IsBook(Entered(b, Masked(v))) /\ Agrees(Entered(b, Masked(v)))'
<1>1. PICK e : e = Masked(v)
  OBVIOUS
<1>2. e.op = "mask" /\ e.val = v
  BY <1>1 DEF Masked
<1>3. Entered(b, e) = [b EXCEPT !.mask = Stack(b.mask, e.val)]
  BY <1>2 DEF Entered
<1>4. PICK c : c = [text |-> b.text, words |-> b.words, known |-> b.known,
                    mask |-> Stack(b.mask, v), force |-> b.force, late |-> b.late]
  OBVIOUS
<1>5. Entered(b, e) = c
  BY <1>2, <1>3, <1>4 DEF IsBook
<1>6. /\ c.text = b.text /\ c.words = b.words /\ c.known = b.known
      /\ c.mask = Stack(b.mask, v) /\ c.force = b.force /\ c.late = b.late
  BY <1>4
<1>7. IsBook(c)
  BY <1>4, <1>6 DEF IsBook
<1>8. Agrees(c)'
  BY <1>6 DEF Agrees, Registered, ProcessMask
<1> QED  BY <1>1, <1>5, <1>7, <1>8

\* use.force: the step of Incrementals and the entry in the book agree.
LEMMA ForcedAgrees ==
    ASSUME NEW b, IsBook(b), Agrees(b), NEW v, ProcessForce(v)
    PROVE  IsBook(Entered(b, Forced(v))) /\ Agrees(Entered(b, Forced(v)))'
<1>1. PICK e : e = Forced(v)
  OBVIOUS
<1>2. e.op = "force" /\ e.val = v
  BY <1>1 DEF Forced
<1>3. Entered(b, e) = [b EXCEPT !.force = Stack(b.force, e.val)]
  BY <1>2 DEF Entered
<1>4. PICK c : c = [text |-> b.text, words |-> b.words, known |-> b.known,
                    mask |-> b.mask, force |-> Stack(b.force, v), late |-> b.late]
  OBVIOUS
<1>5. Entered(b, e) = c
  BY <1>2, <1>3, <1>4 DEF IsBook
<1>6. /\ c.text = b.text /\ c.words = b.words /\ c.known = b.known
      /\ c.mask = b.mask /\ c.force = Stack(b.force, v) /\ c.late = b.late
  BY <1>4
<1>7. IsBook(c)
  BY <1>4, <1>6 DEF IsBook
<1>8. Agrees(c)'
  BY <1>6 DEF Agrees, Registered, ProcessForce
<1> QED  BY <1>1, <1>5, <1>7, <1>8

-----------------------------------------------------------------------------
\* The names in USE_EXPAND after a file, as the book has them.
LEMMA NamesByTheBook ==
    ASSUME TypeInv, NEW b, Agrees(b), NEW stack \in BOOLEAN
    PROVE  /\ Stack(b.words[UseExpand], OrEmpty(b.text[UseExpand])) = NewExpand(stack)
           /\ config[UseExpand] = NULL => NewExpand(stack) = incrementals[UseExpand]
           /\ UseExpand \notin incrementals[UseExpand]
<1>1. UseExpand \in Registered
  BY NamesAssumption DEF TypeInv, IncTypeOK
<1>2. b.words[UseExpand] = incrementals[UseExpand] /\ b.text = config
  BY <1>1 DEF Agrees
<1>3. UseExpand \notin incrementals[UseExpand]
  BY ExpandListed, NamesAssumption
<1>4. NewExpand(stack) = IF config[UseExpand] = NULL THEN incrementals[UseExpand]
                         ELSE Stack(incrementals[UseExpand], config[UseExpand])
  BY <1>3 DEF NewExpand, AddIncremental
<1> QED  BY <1>2, <1>3, <1>4, StackEmpty DEF OrEmpty

\* The end of a file that load_make_config reads.
LEMMA DigestedAgrees ==
    ASSUME TypeInv, NEW b, IsBook(b), Agrees(b), NEW stack \in BOOLEAN, ConfigChanged(stack)
    PROVE  IsBook(Entered(b, Changed(stack))) /\ Agrees(Entered(b, Changed(stack)))'
<1>1. PICK names : names = NewExpand(stack)
  OBVIOUS
<1>2. /\ names = Stack(b.words[UseExpand], OrEmpty(b.text[UseExpand]))
      /\ config[UseExpand] = NULL => names = incrementals[UseExpand]
      /\ UseExpand \notin incrementals[UseExpand]
  BY <1>1, NamesByTheBook
<1>3. names \subseteq ExpandNames /\ UseExpand \notin names
  BY <1>1, NewExpandType, NamesAssumption DEF ConfigChanged
<1>4. b.text = config /\ b.known = Registered
  BY DEF Agrees
<1>5. PICK known : known = b.known \cup {k \in names : b.text[k] # NULL}
  OBVIOUS
<1>6. known = Registered \cup NewlyRegistered(stack) /\ Registered' = known
  BY <1>1, <1>4, <1>5 DEF ConfigChanged, Registered, NewlyRegistered
<1>7. Registered \subseteq Vars /\ known \subseteq Vars
  BY <1>3, <1>4, <1>5, NamesAssumption DEF TypeInv, IncTypeOK
<1>8. PICK old : old = [k \in Vars |-> IF ~stack /\ k \in names THEN {} ELSE b.words[k]]
  OBVIOUS
<1>9. PICK words : words = [k \in Vars |-> IF k \in known /\ b.text[k] # NULL
                                          THEN Stack(old[k], b.text[k]) ELSE b.words[k]]
  OBVIOUS
<1>10. PICK text : text = [k \in Vars |-> IF k \in known THEN NULL ELSE b.text[k]]
  OBVIOUS
<1>11. PICK late \in BOOLEAN : late = (b.late \/ (~stack /\ b.text[UseExpand] # NULL))
  OBVIOUS
<1>12. PICK c : c = [text |-> text, words |-> words, known |-> known,
                     mask |-> b.mask, force |-> b.force, late |-> late]
  OBVIOUS
<1>13. /\ c.text = text /\ c.words = words /\ c.known = known
       /\ c.mask = b.mask /\ c.force = b.force /\ c.late = late
  BY <1>12
<1>14. IsBook(c)
  BY <1>11, <1>12, <1>13 DEF IsBook
<1>15. Digested(b, stack) = c
  <2>1. words = [k \in Vars |-> IF k \in known /\ b.text[k] # NULL
                                THEN Stack(IF ~stack /\ k \in names THEN {} ELSE b.words[k], b.text[k])
                                ELSE b.words[k]]
    BY <1>8, <1>9
  <2>2. Digested(b, stack) = [b EXCEPT !.text = text, !.words = words, !.known = known,
                                       !.late = late]
    BY <1>2, <1>5, <1>10, <1>11, <2>1 DEF Digested
  <2>3. [b EXCEPT !.text = text, !.words = words, !.known = known, !.late = late] = c
    <3>1. PICK t, w, k, m, f, l : b = [text |-> t, words |-> w, known |-> k, mask |-> m,
                                       force |-> f, late |-> l]
      BY DEF IsBook
    <3>2. b.mask = m /\ b.force = f
      BY <3>1
    <3>3. [b EXCEPT !.text = text, !.words = words, !.known = known, !.late = late]
            = [text |-> text, words |-> words, known |-> known, mask |-> m,
               force |-> f, late |-> late]
      <4>1. PICK b1 : b1 = [text |-> text, words |-> w, known |-> k, mask |-> m,
                            force |-> f, late |-> l]
        OBVIOUS
      <4>2. PICK b2 : b2 = [text |-> text, words |-> words, known |-> k, mask |-> m,
                            force |-> f, late |-> l]
        OBVIOUS
      <4>3. PICK b3 : b3 = [text |-> text, words |-> words, known |-> known, mask |-> m,
                            force |-> f, late |-> l]
        OBVIOUS
      <4>4. [b EXCEPT !.text = text] = b1
        BY <3>1, <4>1
      <4>5. [b1 EXCEPT !.words = words] = b2
        BY <4>1, <4>2
      <4>6. [b2 EXCEPT !.known = known] = b3
        BY <4>2, <4>3
      <4>7. [b3 EXCEPT !.late = late] = [text |-> text, words |-> words, known |-> known,
                                         mask |-> m, force |-> f, late |-> late]
        BY <4>3
      <4>8. [b EXCEPT !.text = text, !.words = words, !.known = known, !.late = late]
              = [[[[b EXCEPT !.text = text] EXCEPT !.words = words] EXCEPT !.known = known]
                   EXCEPT !.late = late]
        OBVIOUS
      <4> QED  BY <4>4, <4>5, <4>6, <4>7, <4>8
    <3> QED  BY <1>12, <3>2, <3>3
  <2> QED  BY <2>2, <2>3
<1>16. Entered(b, Changed(stack)) = c
  <2>1. PICK e : e = Changed(stack)
    OBVIOUS
  <2>2. e.op = "changed" /\ e.stack = stack
    BY <2>1 DEF Changed
  <2>3. Entered(b, e) = Digested(b, stack)
    BY <2>2 DEF Entered
  <2> QED  BY <1>15, <2>1, <2>3
<1>17. text = config'
  <2>1. config' = [k \in Vars |-> IF k \in Registered \cup names THEN NULL ELSE config[k]]
    BY <1>1 DEF ConfigChanged
  <2>2. ASSUME NEW k \in Vars
        PROVE  (IF k \in known THEN NULL ELSE b.text[k])
                  = IF k \in Registered \cup names THEN NULL ELSE config[k]
    BY <1>4, <1>5
  <2> QED  BY <1>10, <2>1, <2>2
<1>18. ASSUME NEW k \in Vars \ Registered'
       PROVE  words[k] = {}
  <2>1. k \notin known /\ k \in Vars \ Registered
    BY <1>6
  <2> QED  BY <1>9, <2>1 DEF Agrees
<1>19. ASSUME NEW k \in Registered', ~late \/ k = UseExpand
       PROVE  words[k] = incrementals'[k]
  <2>1. k \in known /\ k \in Vars
    BY <1>6, <1>7
  <2>2. words[k] = IF config[k] # NULL THEN Stack(old[k], config[k]) ELSE b.words[k]
    BY <1>4, <1>9, <2>1
  <2>3. ~b.late \/ k = UseExpand
    BY <1>11, <1>19
  <2>4. CASE k \in Registered
    <3>1. incrementals'[k] = AddIncremental(incrementals[k], k, ExpandSeenBy(k, stack), stack)
      BY <1>6, <2>1, <2>4 DEF ConfigChanged
    <3>2. b.words[k] = incrementals[k]
      BY <2>3, <2>4 DEF Agrees
    <3>3. ~stack => (k \in names <=> k \in ExpandSeenBy(k, stack))
      <4>1. CASE k = UseExpand
        BY <1>1, <1>2, <1>3, <4>1 DEF ExpandSeenBy
      <4>2. CASE ~late
        <5>1. stack \/ config[UseExpand] = NULL
          BY <1>4, <1>11, <4>2
        <5> QED  BY <1>1, <1>2, <5>1 DEF ExpandSeenBy
      <4> QED  BY <1>19, <4>1, <4>2
    <3>4. old[k] = IF ~stack /\ k \in ExpandSeenBy(k, stack) THEN {} ELSE incrementals[k]
      BY <1>8, <2>1, <3>2, <3>3
    <3> QED  BY <2>2, <3>1, <3>2, <3>4 DEF AddIncremental
  <2>5. CASE k \notin Registered
    <3>1. incrementals'[k] = AddIncremental({}, k, names, stack)
      BY <1>1, <1>6, <2>1, <2>5 DEF ConfigChanged
    <3>2. b.words[k] = {}
      BY <2>1, <2>5 DEF Agrees
    <3>3. old[k] = {}
      BY <1>8, <2>1, <3>2
    <3> QED  BY <2>2, <3>1, <3>2, <3>3 DEF AddIncremental
  <2> QED  BY <2>4, <2>5
<1>20. Agrees(c)'
  <2>1. UNCHANGED <<useMask, useForce>>
    BY DEF ConfigChanged
  <2>2. c.mask = useMask' /\ c.force = useForce'
    BY <1>13, <2>1 DEF Agrees
  <2> QED  BY <1>6, <1>13, <1>17, <1>18, <1>19, <2>2 DEF Agrees
<1> QED  BY <1>14, <1>16, <1>20

\* The final pass.
LEMMA FinalUseByTheBook ==
    ASSUME TypeInv, NEW b, Agrees(b), ~b.late, ConfigFinished
    PROVE  incrementals'[Use] = UseByTheBook(b)
<1>1. {Use, UseExpand} \subseteq Registered /\ Registered \subseteq Vars
  BY NamesAssumption DEF TypeInv, IncTypeOK
<1>2. incrementals'[Use] = FinalUse
  BY <1>1 DEF ConfigFinished, Registered
<1>3. \A k \in Registered : b.words[k] = incrementals[k]
  BY DEF Agrees
<1>4. b.text = config /\ b.known = Registered /\ b.mask = useMask /\ b.force = useForce
  BY DEF Agrees
<1>5. ArchValue = IF Arch \in b.known THEN Concat(b.words[Arch]) ELSE OrEmpty(b.text[Arch])
  BY <1>3, <1>4, OrderAssumption DEF ArchValue, OrEmpty
<1>6. Populated = UNION {{ExpandFlag(k, w) : w \in b.words[k]} : k \in b.words[UseExpand]}
  <2>1. b.words[UseExpand] = incrementals[UseExpand]
    BY <1>1, <1>3
  <2>2. incrementals[UseExpand] \subseteq Vars
    BY ExpandListed, NamesAssumption
  <2>3. \A k \in incrementals[UseExpand] :
           b.words[k] = IF k \in Registered THEN incrementals[k] ELSE {}
    BY <1>3, <2>2 DEF Agrees
  <2>4. ASSUME NEW f
        PROVE  f \in Populated <=>
                 f \in UNION {{ExpandFlag(k, w) : w \in b.words[k]} : k \in b.words[UseExpand]}
    BY <2>1, <2>3 DEF Populated
  <2> QED  BY <2>4
<1> QED  BY <1>1, <1>2, <1>3, <1>4, <1>5, <1>6 DEF FinalUse, UseByTheBook

-----------------------------------------------------------------------------
\* The calls of cp_read_shellconfig and of add_profile on the disk d.  What each
\* has come to, and what it had come to before the last of its calls, which it
\* waits for when it is not on top.
Frames(d) == {r \in OpenRecords : d.content[r.file] # Missing}
CallFrames(d) == {c \in CallRecords : GetLines(d.parents[c.profile]) # NULL}

FrameWaits(d) ==
    [r \in Frames(d) |-> UpTo(StatementPieces(d, r.file, Inlined(d)), r.next - 1)]
FrameDone(d) ==
    [r \in Frames(d) |-> UpTo(StatementPieces(d, r.file, Inlined(d)), r.next)]

CallWaits(d) ==
    [c \in CallFrames(d) |-> UpTo(ParentPieces(d, c.profile, Inherited(d)), c.next - 1)]
CallDone(d) ==
    [c \in CallFrames(d) |->
        UpTo(ParentPieces(d, c.profile, Inherited(d)), c.next)
          \o (IF c.at = "parents" THEN <<>> ELSE Loaded(d, MakeDefaults[c.profile], TRUE))
          \o (IF c.at = "force" THEN <<Masked(d.mask[c.profile])>> ELSE <<>>)]

\* What the pieces of a file are.
LEMMA FramePieces ==
    ASSUME NEW d \in FileSystems, NEW r \in Frames(d)
    PROVE  /\ StatementPieces(d, r.file, Inlined(d)) \in Seq(Seq(Happenings(d)))
           /\ Len(StatementPieces(d, r.file, Inlined(d))) = Len(d.content[r.file].stmts)
           /\ d.content[r.file].stmts \in Seq(Statement)
           /\ r.next \in Nat \ {0} /\ r.next - 1 \in Nat /\ r.file \in Files
<1>1. r.file \in Files /\ r.next \in Nat \ {0} /\ d.content[r.file] # Missing
  BY DEF Frames, OpenRecords
<1>2. r.next - 1 \in Nat
  BY <1>1
<1>3. Inlined(d) \in [Files -> Seq(Happenings(d))]
  BY InlinedType
<1>4. d.content[r.file].stmts \in Seq(Statement)
  BY <1>1, DiskAssumption
<1> QED  BY <1>1, <1>2, <1>3, <1>4, StatementPiecesAre

\* What a file on the stack has come to is events of the disk.
LEMMA FrameTypes ==
    ASSUME NEW d \in FileSystems
    PROVE  /\ FrameWaits(d) \in [Frames(d) -> Seq(Happenings(d))]
           /\ FrameDone(d) \in [Frames(d) -> Seq(Happenings(d))]
<1>1. ASSUME NEW r \in Frames(d)
      PROVE  /\ UpTo(StatementPieces(d, r.file, Inlined(d)), r.next - 1) \in Seq(Happenings(d))
             /\ UpTo(StatementPieces(d, r.file, Inlined(d)), r.next) \in Seq(Happenings(d))
  <2>1. PICK s \in Seq(Seq(Happenings(d))) : s = StatementPieces(d, r.file, Inlined(d))
    BY FramePieces
  <2>2. r.next \in Nat /\ r.next - 1 \in Nat
    BY FramePieces
  <2>3. \A n \in Nat : UpTo(s, n) \in Seq(Happenings(d))
    BY UpToIs
  <2> QED  BY <2>1, <2>2, <2>3
<1> QED  BY <1>1 DEF FrameWaits, FrameDone

\* A file that has just been opened has come to nothing.
LEMMA OpenedDone ==
    ASSUME NEW d \in FileSystems, NEW f \in Files, d.content[f] # Missing
    PROVE  Open(f) \in Frames(d) /\ FrameDone(d)[Open(f)] = <<>>
<1>1. PICK r : r = Open(f)
  OBVIOUS
<1>2. r.file = f /\ r.next = 1 /\ r \in Frames(d)
  BY <1>1 DEF Open, Frames, OpenRecords
<1>3. PICK s \in Seq(Seq(Happenings(d))) : s = StatementPieces(d, r.file, Inlined(d))
  BY <1>2, FramePieces
<1>4. UpTo(s, 1) = <<>>
  BY UpToIs
<1> QED  BY <1>1, <1>2, <1>3, <1>4 DEF FrameDone

\* The reader runs an assignment, or begins to wait for another file.
LEMMA FrameGoesOn ==
    ASSUME NEW d \in FileSystems, NEW r \in Frames(d), NEW next,
           next = [r EXCEPT !.next = @ + 1]
    PROVE  /\ next \in Frames(d)
           /\ FrameWaits(d)[next] = FrameDone(d)[r]
           /\ r.next \in DOMAIN d.content[r.file].stmts
                 /\ d.content[r.file].stmts[r.next].op = "set"
              => FrameDone(d)[next] = FrameDone(d)[r] \o <<d.content[r.file].stmts[r.next]>>
<1>1. r = [file |-> r.file, next |-> r.next] /\ r.next \in Nat \ {0}
      /\ r.file \in Files /\ d.content[r.file] # Missing
  BY DEF Frames, OpenRecords
<1>2. next = [file |-> r.file, next |-> r.next + 1] /\ r.next + 1 \in Nat \ {0}
  BY <1>1
<1>3. next \in Frames(d) /\ next.file = r.file /\ next.next = r.next + 1
  BY <1>1, <1>2 DEF Frames, OpenRecords
<1>4. next.next - 1 = r.next
  BY <1>1, <1>3
<1>5. FrameWaits(d)[next] = FrameDone(d)[r]
  <2>1. PICK s : s = StatementPieces(d, r.file, Inlined(d))
    OBVIOUS
  <2>2. FrameWaits(d)[next] = UpTo(s, r.next)
    BY <1>3, <1>4, <2>1 DEF FrameWaits
  <2>3. FrameDone(d)[r] = UpTo(s, r.next)
    BY <2>1 DEF FrameDone
  <2> QED  BY <2>2, <2>3
<1>6. ASSUME r.next \in DOMAIN d.content[r.file].stmts,
             d.content[r.file].stmts[r.next].op = "set"
      PROVE  FrameDone(d)[next] = FrameDone(d)[r] \o <<d.content[r.file].stmts[r.next]>>
  <2>1. PICK s \in Seq(Seq(Happenings(d))) : s = StatementPieces(d, r.file, Inlined(d))
    BY FramePieces
  <2>2. r.next \in 1..Len(s)
    <3>1. Len(s) = Len(d.content[r.file].stmts) /\ d.content[r.file].stmts \in Seq(Statement)
      BY <2>1, FramePieces
    <3> QED  BY <1>6, <3>1
  <2>3. UpTo(s, r.next + 1) = UpTo(s, r.next) \o s[r.next]
    BY <2>2, UpToIs
  <2>4. s[r.next] = <<d.content[r.file].stmts[r.next]>>
    BY <1>6, <2>1 DEF StatementPieces
  <2>5. FrameDone(d)[next] = UpTo(s, r.next + 1)
    BY <1>3, <2>1 DEF FrameDone
  <2>6. FrameDone(d)[r] = UpTo(s, r.next)
    BY <2>1 DEF FrameDone
  <2> QED  BY <2>3, <2>4, <2>5, <2>6
<1> QED  BY <1>3, <1>5, <1>6

\* At the end of a file the reader has come to what the file is worth.
LEMMA FrameEnds ==
    ASSUME NEW d \in FileSystems, Settled(d), NEW r \in Frames(d),
           ~ (r.next <= Len(d.content[r.file].stmts))
    PROVE  FrameDone(d)[r] = Inlined(d)[r.file]
<1>1. PICK s \in Seq(Seq(Happenings(d))) : s = StatementPieces(d, r.file, Inlined(d))
  BY FramePieces
<1>2. Len(s) = Len(d.content[r.file].stmts) /\ r.next \in Nat /\ r.file \in Files
  BY <1>1, FramePieces
<1>3. UpTo(s, r.next) = FlattenSeq(s)
  BY <1>2, UpToIs
<1>4. Assignments(d, r.file, Inlined(d)) = FlattenSeq(s)
  BY <1>1, AssignmentsAre DEF Frames
<1>5. Inlined(d)[r.file] = Assignments(d, r.file, Inlined(d))
  BY <1>2 DEF Settled
<1> QED  BY <1>1, <1>3, <1>4, <1>5 DEF FrameDone

\* A file has been read for the one below it.
LEMMA FrameReturns ==
    ASSUME NEW d \in FileSystems, NEW a \in Frames(d), NEW r \in OpenRecords,
           <<a, r>> \in Sourcing(d)
    PROVE  FrameDone(d)[a] = FrameWaits(d)[a] \o Inlined(d)[r.file]
<1>1. PICK n \in Nat : ReadsFor(d, a, r.file, n)
  BY DEF Sourcing
<1>2. /\ a.next = n + 1 /\ n \in DOMAIN d.content[a.file].stmts
      /\ d.content[a.file].stmts[n].op = "source"
      /\ d.content[a.file].stmts[n].file = r.file
  BY <1>1 DEF ReadsFor
<1>3. PICK s \in Seq(Seq(Happenings(d))) : s = StatementPieces(d, a.file, Inlined(d))
  BY FramePieces
<1>4. n \in 1..Len(s)
  <2>1. Len(s) = Len(d.content[a.file].stmts) /\ d.content[a.file].stmts \in Seq(Statement)
    BY <1>3, FramePieces
  <2> QED  BY <1>2, <2>1
<1>5. UpTo(s, n + 1) = UpTo(s, n) \o s[n]
  BY <1>4, UpToIs
<1>6. s[n] = Inlined(d)[r.file]
  BY <1>2, <1>3 DEF StatementPieces
<1>7. FrameDone(d)[a] = UpTo(s, n + 1)
  BY <1>2, <1>3 DEF FrameDone
<1>8. FrameWaits(d)[a] = UpTo(s, n)
  <2>1. a.next - 1 = n
    BY <1>2
  <2> QED  BY <1>3, <2>1 DEF FrameWaits
<1> QED  BY <1>5, <1>6, <1>7, <1>8
-----------------------------------------------------------------------------
\* The same for the calls of add_profile.
LEMMA CallPieces ==
    ASSUME NEW d \in FileSystems, NEW c \in CallFrames(d)
    PROVE  /\ ParentPieces(d, c.profile, Inherited(d)) \in Seq(Seq(Happenings(d)))
           /\ Len(ParentPieces(d, c.profile, Inherited(d))) = Len(GetLines(d.parents[c.profile]))
           /\ GetLines(d.parents[c.profile]) \in Seq(Profiles)
           /\ c.next \in Nat \ {0} /\ c.next - 1 \in Nat /\ c.profile \in Profiles
           /\ c.at \in {"parents", "mask", "force"}
           /\ Loaded(d, MakeDefaults[c.profile], TRUE) \in Seq(Happenings(d))
           /\ <<Masked(d.mask[c.profile])>> \in Seq(Happenings(d))
<1>1. /\ c.profile \in Profiles /\ c.next \in Nat \ {0} /\ c.at \in {"parents", "mask", "force"}
      /\ GetLines(d.parents[c.profile]) # NULL
  BY DEF CallFrames, CallRecords
<1>2. c.next - 1 \in Nat
  BY <1>1
<1>3. Inherited(d) \in [Profiles -> Seq(Happenings(d))]
  BY InheritedType
<1>4. GetLines(d.parents[c.profile]) \in Seq(Profiles)
  BY <1>1, DiskAssumption
<1>5. Loaded(d, MakeDefaults[c.profile], TRUE) \in Seq(Happenings(d))
  <2>1. MakeDefaults[c.profile] \in Files
    BY <1>1, PlacesAssumption
  <2> QED  BY <2>1, LoadedType
<1>6. <<Masked(d.mask[c.profile])>> \in Seq(Happenings(d))
  BY <1>1, HappeningIs
<1> QED  BY <1>1, <1>2, <1>3, <1>4, <1>5, <1>6, ParentPiecesAre

\* So is what a profile on the stack has come to.
LEMMA CallTypes ==
    ASSUME NEW d \in FileSystems
    PROVE  /\ CallWaits(d) \in [CallFrames(d) -> Seq(Happenings(d))]
           /\ CallDone(d) \in [CallFrames(d) -> Seq(Happenings(d))]
<1>1. ASSUME NEW c \in CallFrames(d)
      PROVE  /\ UpTo(ParentPieces(d, c.profile, Inherited(d)), c.next - 1) \in Seq(Happenings(d))
             /\ CallDone(d)[c] \in Seq(Happenings(d))
  <2>1. PICK s \in Seq(Seq(Happenings(d))) : s = ParentPieces(d, c.profile, Inherited(d))
    BY CallPieces
  <2>2. c.next \in Nat /\ c.next - 1 \in Nat
    BY CallPieces
  <2>3. \A n \in Nat : UpTo(s, n) \in Seq(Happenings(d))
    BY UpToIs
  <2>4. PICK x \in Seq(Happenings(d)) : x = UpTo(s, c.next)
    BY <2>2, <2>3
  <2>5. PICK y \in Seq(Happenings(d)) :
           y = IF c.at = "parents" THEN <<>> ELSE Loaded(d, MakeDefaults[c.profile], TRUE)
    <3>1. <<>> \in Seq(Happenings(d)) /\ Loaded(d, MakeDefaults[c.profile], TRUE) \in Seq(Happenings(d))
      BY CallPieces, EmptySeq
    <3> QED  BY <3>1
  <2>6. PICK z \in Seq(Happenings(d)) :
           z = IF c.at = "force" THEN <<Masked(d.mask[c.profile])>> ELSE <<>>
    <3>1. <<>> \in Seq(Happenings(d)) /\ <<Masked(d.mask[c.profile])>> \in Seq(Happenings(d))
      BY CallPieces, EmptySeq
    <3> QED  BY <3>1
  <2>7. x \o y \o z \in Seq(Happenings(d))
    OBVIOUS
  <2>8. CallDone(d)[c] = x \o y \o z
    BY <2>1, <2>4, <2>5, <2>6 DEF CallDone
  <2> QED  BY <2>1, <2>2, <2>3, <2>7, <2>8
<1>2. CallWaits(d) \in [CallFrames(d) -> Seq(Happenings(d))]
  BY <1>1 DEF CallWaits
<1>3. CallDone(d) = [c \in CallFrames(d) |-> CallDone(d)[c]]
  BY DEF CallDone
<1> QED  BY <1>1, <1>2, <1>3

\* What a call has come to in each of its parts.
LEMMA CallDoneIs ==
    ASSUME NEW d \in FileSystems, NEW c \in CallFrames(d), NEW s \in Seq(Seq(Happenings(d))),
           s = ParentPieces(d, c.profile, Inherited(d))
    PROVE  /\ c.at = "parents" => CallDone(d)[c] = UpTo(s, c.next)
           /\ c.at = "mask" => CallDone(d)[c] = UpTo(s, c.next) \o Loaded(d, MakeDefaults[c.profile], TRUE)
           /\ c.at = "force" =>
                CallDone(d)[c] = UpTo(s, c.next) \o Loaded(d, MakeDefaults[c.profile], TRUE)
                                   \o <<Masked(d.mask[c.profile])>>
<1>1. PICK x \in Seq(Happenings(d)) : x = UpTo(s, c.next)
  <2>1. c.next \in Nat
    BY CallPieces
  <2> QED  BY <2>1, UpToIs
<1>2. PICK y \in Seq(Happenings(d)) : y = Loaded(d, MakeDefaults[c.profile], TRUE)
  BY CallPieces
<1>3. CallDone(d)[c] = x \o (IF c.at = "parents" THEN <<>> ELSE y)
                         \o (IF c.at = "force" THEN <<Masked(d.mask[c.profile])>> ELSE <<>>)
  BY <1>1, <1>2 DEF CallDone
<1>4. x \o <<>> = x /\ (x \o <<>>) \o <<>> = x
  BY ConcatEmptySeq
<1>5. (x \o y) \o <<>> = x \o y
  <2>1. x \o y \in Seq(Happenings(d))
    BY TextsJoin
  <2> QED  BY <2>1, ConcatEmptySeq
<1> QED  BY <1>1, <1>2, <1>3, <1>4, <1>5

\* A caller has come, after its parent, to what it had before and all of that parent.
LEMMA CalledDone ==
    ASSUME NEW d \in FileSystems, NEW p \in Profiles, GetLines(d.parents[p]) # NULL
    PROVE  Call(p) \in CallFrames(d) /\ CallDone(d)[Call(p)] = <<>>
<1>1. PICK c : c = Call(p)
  OBVIOUS
<1>2. c.profile = p /\ c.next = 1 /\ c.at = "parents" /\ c \in CallFrames(d)
  BY <1>1 DEF Call, CallFrames, CallRecords
<1>3. PICK s \in Seq(Seq(Happenings(d))) : s = ParentPieces(d, c.profile, Inherited(d))
  BY <1>2, CallPieces
<1>4. UpTo(s, 1) = <<>>
  BY UpToIs
<1>5. CallDone(d)[c] = UpTo(s, c.next)
  BY <1>2, <1>3, CallDoneIs
<1> QED  BY <1>1, <1>2, <1>4, <1>5

\* add_parent_profiles begins to wait for a parent.
LEMMA CallGoesOn ==
    ASSUME NEW d \in FileSystems, NEW c \in CallFrames(d), c.at = "parents", NEW next,
           next = [c EXCEPT !.next = @ + 1]
    PROVE  next \in CallFrames(d) /\ CallWaits(d)[next] = CallDone(d)[c]
<1>1. c = [profile |-> c.profile, next |-> c.next, at |-> c.at] /\ c.next \in Nat \ {0}
      /\ c.profile \in Profiles /\ GetLines(d.parents[c.profile]) # NULL
      /\ c.at \in {"parents", "mask", "force"}
  BY DEF CallFrames, CallRecords
<1>2. next = [profile |-> c.profile, next |-> c.next + 1, at |-> c.at] /\ c.next + 1 \in Nat \ {0}
  BY <1>1
<1>3. next \in CallFrames(d) /\ next.profile = c.profile /\ next.next = c.next + 1
  BY <1>1, <1>2 DEF CallFrames, CallRecords
<1>4. next.next - 1 = c.next
  BY <1>1, <1>3
<1>5. PICK s \in Seq(Seq(Happenings(d))) : s = ParentPieces(d, c.profile, Inherited(d))
  BY CallPieces
<1>6. CallWaits(d)[next] = UpTo(s, c.next)
  BY <1>3, <1>4, <1>5 DEF CallWaits
<1>7. CallDone(d)[c] = UpTo(s, c.next)
  BY <1>5, CallDoneIs
<1> QED  BY <1>3, <1>6, <1>7

\* The parents are done and make.defaults has been read, or is not there; then
\* use.mask has been read.
LEMMA CallMoves ==
    ASSUME NEW d \in FileSystems, NEW c \in CallFrames(d), NEW where \in {"mask", "force"},
           NEW next, next = [c EXCEPT !.at = where]
    PROVE  /\ next \in CallFrames(d)
           /\ c.at = "parents" /\ where = "mask" =>
                CallDone(d)[next] = CallDone(d)[c] \o Loaded(d, MakeDefaults[c.profile], TRUE)
           /\ c.at = "mask" /\ where = "force" =>
                CallDone(d)[next] = CallDone(d)[c] \o <<Masked(d.mask[c.profile])>>
<1>1. c = [profile |-> c.profile, next |-> c.next, at |-> c.at] /\ c.next \in Nat \ {0}
      /\ c.profile \in Profiles /\ GetLines(d.parents[c.profile]) # NULL
  BY DEF CallFrames, CallRecords
<1>2. next = [profile |-> c.profile, next |-> c.next, at |-> where]
  BY <1>1
<1>3. next \in CallFrames(d) /\ next.profile = c.profile /\ next.next = c.next /\ next.at = where
  BY <1>1, <1>2 DEF CallFrames, CallRecords
<1>4. PICK s \in Seq(Seq(Happenings(d))) : s = ParentPieces(d, c.profile, Inherited(d))
  BY CallPieces
<1>5. s = ParentPieces(d, next.profile, Inherited(d))
  BY <1>3, <1>4
<1>6. /\ c.at = "parents" => CallDone(d)[c] = UpTo(s, c.next)
      /\ c.at = "mask" => CallDone(d)[c] = UpTo(s, c.next) \o Loaded(d, MakeDefaults[c.profile], TRUE)
  BY <1>4, CallDoneIs
<1>7. /\ next.at = "mask" =>
           CallDone(d)[next] = UpTo(s, next.next) \o Loaded(d, MakeDefaults[next.profile], TRUE)
      /\ next.at = "force" =>
           CallDone(d)[next] = UpTo(s, next.next) \o Loaded(d, MakeDefaults[next.profile], TRUE)
                                 \o <<Masked(d.mask[next.profile])>>
  BY <1>3, <1>5, CallDoneIs
<1> QED  BY <1>3, <1>6, <1>7

\* With use.force a profile has come to what it is worth.
LEMMA CallEnds ==
    ASSUME NEW d \in FileSystems, Settled(d), NEW c \in CallFrames(d), c.at = "force",
           Len(GetLines(d.parents[c.profile])) < c.next
    PROVE  CallDone(d)[c] \o <<Forced(d.force[c.profile])>> = Inherited(d)[c.profile]
<1>1. PICK s \in Seq(Seq(Happenings(d))) : s = ParentPieces(d, c.profile, Inherited(d))
  BY CallPieces
<1>2. Len(s) = Len(GetLines(d.parents[c.profile])) /\ c.next \in Nat /\ c.profile \in Profiles
  BY <1>1, CallPieces
<1>3. UpTo(s, c.next) = FlattenSeq(s)
  <2>1. Len(s) \in Nat /\ ~ (c.next <= Len(s))
    BY <1>2
  <2> QED  BY <1>2, <2>1, UpToIs
<1>4. PICK x \in Seq(Happenings(d)) : x = FlattenSeq(s)
  BY FlattenType
<1>5. PICK y \in Seq(Happenings(d)) : y = Loaded(d, MakeDefaults[c.profile], TRUE)
  BY CallPieces
<1>6. PICK m : m = Masked(d.mask[c.profile])
  OBVIOUS
<1>7. PICK e : e = Forced(d.force[c.profile])
  OBVIOUS
<1>8. CallDone(d)[c] = x \o y \o <<m>>
  BY <1>1, <1>3, <1>4, <1>5, <1>6, CallDoneIs
<1>9. Inherited(d)[c.profile] = x \o y \o <<m, e>>
  <2>1. Inherited(d)[c.profile] = Ancestry(d, c.profile, Inherited(d))
    BY <1>2 DEF Settled
  <2>2. GetLines(d.parents[c.profile]) # NULL
    BY DEF CallFrames
  <2> QED  BY <1>1, <1>4, <1>5, <1>6, <1>7, <2>1, <2>2, AncestryIs
<1>10. m \in Happenings(d) /\ e \in Happenings(d)
  BY <1>2, <1>6, <1>7 DEF Happenings
<1>11. (x \o y \o <<m>>) \o <<e>> = x \o y \o <<m, e>>
  <2>1. PICK E : E = Happenings(d)
    OBVIOUS
  <2>2. PICK z \in Seq(E) : z = x \o y
    BY <2>1, TextsJoin
  <2>3. m \in E /\ e \in E
    BY <1>10, <2>1
  <2>4. (z \o <<m>>) \o <<e>> = z \o <<m, e>>
    BY <2>2, <2>3, SMTT(30)
  <2> QED  BY <2>2, <2>4
<1> QED  BY <1>7, <1>8, <1>9, <1>11

\* A parent has been read for the profile below it.
LEMMA CallReturns ==
    ASSUME NEW d \in FileSystems, NEW a \in CallFrames(d), NEW c \in CallRecords,
           <<a, c>> \in Above(d)
    PROVE  CallDone(d)[a] = CallWaits(d)[a] \o Inherited(d)[c.profile]
<1>1. PICK n \in Nat : WalksFor(d, a, c.profile, n)
  BY DEF Above
<1>2. /\ a.at = "parents" /\ a.next = n + 1 /\ n \in DOMAIN GetLines(d.parents[a.profile])
      /\ GetLines(d.parents[a.profile])[n] = c.profile
  BY <1>1 DEF WalksFor
<1>3. PICK s \in Seq(Seq(Happenings(d))) : s = ParentPieces(d, a.profile, Inherited(d))
  BY CallPieces
<1>4. n \in 1..Len(s)
  <2>1. Len(s) = Len(GetLines(d.parents[a.profile])) /\ GetLines(d.parents[a.profile]) \in Seq(Profiles)
    BY <1>3, CallPieces
  <2> QED  BY <1>2, <2>1
<1>5. UpTo(s, n + 1) = UpTo(s, n) \o s[n]
  BY <1>4, UpToIs
<1>6. s[n] = Inherited(d)[c.profile]
  BY <1>2, <1>3 DEF ParentPieces
<1>7. CallDone(d)[a] = UpTo(s, n + 1)
  BY <1>2, <1>3, CallDoneIs
<1>8. CallWaits(d)[a] = UpTo(s, n)
  <2>1. a.next - 1 = n
    BY <1>2
  <2> QED  BY <1>3, <2>1 DEF CallWaits
<1> QED  BY <1>5, <1>6, <1>7, <1>8

-----------------------------------------------------------------------------
\* What the load has come to: the part before the file being read, and what has
\* been read of that file.
FilePieces(d, files, stack) == [i \in DOMAIN files |-> Loaded(d, files[i], stack)]

ReadDone(d, st) == StackDone(FrameWaits(d), FrameDone(d), st)
WalkDone(d, st) == StackDone(CallWaits(d), CallDone(d), st)

DoneBefore(d, ph, i, calls) ==
    CASE ph \in {"start", "defaults"} -> <<>>
      [] ph = "insertedDefaults" -> Beginning(d)
      [] ph = "globals" -> UpTo(FilePieces(d, Globals, TRUE), i)
      [] ph = "profile" -> Beginning(d) \o WalkDone(d, calls)
      [] ph = "confs" -> Beginning(d) \o Inherited(d)[TopOf(d)]
                           \o UpTo(FilePieces(d, Confs, FALSE), i)
      [] OTHER -> Schedule(d)

DoneAt(d, ph, i, calls, st) == DoneBefore(d, ph, i, calls) \o ReadDone(d, st)

Done == DoneAt(fs, phase, index, dfs, reading)

\* The pieces of a list of files, one for each file.
LEMMA FilePiecesAre ==
    ASSUME NEW d \in FileSystems, NEW files \in Seq(Files), NEW stack \in BOOLEAN
    PROVE  /\ FilePieces(d, files, stack) \in Seq(Seq(Happenings(d)))
           /\ Len(FilePieces(d, files, stack)) = Len(files)
           /\ \A i \in 1..Len(files) : FilePieces(d, files, stack)[i] = Loaded(d, files[i], stack)
<1>1. PICK n \in Nat : n = Len(files) /\ DOMAIN files = 1..n
  OBVIOUS
<1>2. PICK g : g = [i \in 1..n |-> Loaded(d, files[i], stack)]
  OBVIOUS
<1>3. FilePieces(d, files, stack) = g
  BY <1>1, <1>2 DEF FilePieces
<1>4. \A i \in 1..n : Loaded(d, files[i], stack) \in Seq(Happenings(d))
  <2> SUFFICES ASSUME NEW i \in 1..n PROVE Loaded(d, files[i], stack) \in Seq(Happenings(d))
    OBVIOUS
  <2>1. files[i] \in Files
    BY <1>1
  <2> QED  BY <2>1, LoadedType
<1>5. g \in [1..n -> Seq(Happenings(d))]
  BY <1>2, <1>4
<1>6. g \in Seq(Seq(Happenings(d))) /\ Len(g) = n
  BY <1>5
<1> QED  BY <1>1, <1>2, <1>3, <1>6

\* The files of one of the loops up to the n-th.
LEMMA FilesDone ==
    ASSUME NEW d \in FileSystems, NEW files \in Seq(Files), NEW stack \in BOOLEAN
    PROVE  /\ \A n \in Nat : UpTo(FilePieces(d, files, stack), n) \in Seq(Happenings(d))
           /\ UpTo(FilePieces(d, files, stack), 1) = <<>>
           /\ \A n \in 1..Len(files) :
                 UpTo(FilePieces(d, files, stack), n + 1)
                   = UpTo(FilePieces(d, files, stack), n) \o Loaded(d, files[n], stack)
           /\ \A n \in Nat : n > Len(files) =>
                 UpTo(FilePieces(d, files, stack), n) = FlattenSeq(FilePieces(d, files, stack))
           /\ FlattenSeq(FilePieces(d, files, stack)) \in Seq(Happenings(d))
<1>1. PICK s \in Seq(Seq(Happenings(d))) : s = FilePieces(d, files, stack)
  BY FilePiecesAre
<1>2. Len(s) = Len(files) /\ Len(files) \in Nat
  BY <1>1, FilePiecesAre
<1>3. \A i \in 1..Len(files) : s[i] = Loaded(d, files[i], stack)
  BY <1>1, FilePiecesAre
<1>4. \A n \in Nat : UpTo(s, n) \in Seq(Happenings(d))
  BY UpToIs
<1>5. UpTo(s, 1) = <<>>
  BY UpToIs
<1>6. \A n \in 1..Len(files) : UpTo(s, n + 1) = UpTo(s, n) \o s[n]
  BY <1>2, UpToIs
<1>7. \A n \in Nat : n > Len(files) => UpTo(s, n) = FlattenSeq(s)
  <2>1. \A n \in Nat : ~ (n <= Len(s)) => UpTo(s, n) = FlattenSeq(s)
    BY UpToIs
  <2>2. \A n \in Nat : n > Len(files) => ~ (n <= Len(s))
    BY <1>2
  <2> QED  BY <2>1, <2>2
<1>8. FlattenSeq(s) \in Seq(Happenings(d))
  BY FlattenType
<1> QED  BY <1>1, <1>3, <1>4, <1>5, <1>6, <1>7, <1>8

\* The global files or the default are events of the disk.
LEMMA BeginningIs ==
    ASSUME NEW d \in FileSystems
    PROVE  /\ Beginning(d) \in Seq(Happenings(d))
           /\ d.defaults = NULL => Beginning(d) = FlattenSeq(FilePieces(d, Globals, TRUE))
           /\ d.defaults # NULL /\ d.defaults = <<>> => Beginning(d) = <<>>
           /\ d.defaults # NULL /\ d.defaults # <<>> =>
                 /\ d.defaults[1] \in Statement
                 /\ d.defaults[1].op = "set" /\ d.defaults[1].ref = NULL
                 /\ Beginning(d) = <<d.defaults[1]>>
<1>1. CASE d.defaults = NULL
  <2>1. Beginning(d) = FlattenSeq(FilePieces(d, Globals, TRUE))
    <3>1. Beginning(d) = FlattenSeq([i \in DOMAIN Globals |-> Loaded(d, Globals[i], TRUE)])
      BY <1>1 DEF Beginning
    <3> QED  BY <3>1 DEF FilePieces
  <2>2. Globals \in Seq(Files) /\ TRUE \in BOOLEAN
    BY PlacesAssumption
  <2>3. FlattenSeq(FilePieces(d, Globals, TRUE)) \in Seq(Happenings(d))
    BY <2>2, FilesDone
  <2> QED  BY <1>1, <2>1, <2>3
<1>2. CASE d.defaults # NULL
  <2>1. /\ d.defaults \in Seq(Statement)
        /\ \A i \in DOMAIN d.defaults : d.defaults[i].op = "set" /\ d.defaults[i].ref = NULL
    BY <1>2, DiskAssumption
  <2>2. CASE d.defaults = <<>>
    <3>1. Beginning(d) = <<>>
      BY <1>2, <2>2 DEF Beginning
    <3> QED  BY <1>2, <2>2, <3>1, EmptySeq
  <2>3. CASE d.defaults # <<>>
    <3>1. 1 \in DOMAIN d.defaults
      BY <2>1, <2>3, EmptySeq
    <3>2. d.defaults[1] \in Statement /\ d.defaults[1].op = "set" /\ d.defaults[1].ref = NULL
      BY <2>1, <3>1
    <3>3. Beginning(d) = <<d.defaults[1]>>
      BY <1>2, <2>3 DEF Beginning
    <3>4. <<d.defaults[1]>> \in Seq(Happenings(d))
      BY <3>2, HappeningIs
    <3> QED  BY <1>2, <2>3, <3>2, <3>3, <3>4
  <2> QED  BY <2>2, <2>3
<1> QED  BY <1>1, <1>2

\* The whole load, as the three parts it is made of.
LEMMA ScheduleIs ==
    ASSUME NEW d \in FileSystems
    PROVE  Schedule(d) = Beginning(d) \o Inherited(d)[TopOf(d)]
                           \o FlattenSeq(FilePieces(d, Confs, FALSE))
BY DEF Schedule, FilePieces

-----------------------------------------------------------------------------
\* The control state in terms of a constant disk.
LEMMA StacksOnDisk ==
    ASSUME SettingsInv
    PROVE  /\ fs \in FileSystems
           /\ reading \in Seq(Frames(fs)) /\ dfs \in Seq(CallFrames(fs))
           /\ TopOf(fs) = Root /\ Root \in Profiles
           /\ Confs \in Seq(Files) /\ Globals \in Seq(Files) /\ index \in Nat \ {0}
<1>1. fs \in FileSystems /\ reading \in Seq(Opened) /\ dfs \in Seq(Calls) /\ index \in Nat \ {0}
  BY DEF SettingsInv, ControlInv
<1>2. Opened = Frames(fs)
  BY DEF Opened, Frames, OpenRecords
<1>3. Calls \subseteq CallFrames(fs)
  BY DEF Calls, CallFrames, Usable
<1>4. dfs \in Seq(CallFrames(fs))
  BY <1>1, <1>3
<1> QED  BY <1>1, <1>2, <1>4, TopIsRoot, RootType, PlacesAssumption

\* No file is open: none has come to anything.
LEMMA NothingRead == \A d : ReadDone(d, <<>>) = <<>>
BY DEF ReadDone, StackDone

\* What the load has come to before the file being read, phase by phase.
LEMMA DoneBeforeIs ==
    ASSUME NEW d, NEW ph, NEW i, NEW calls
    PROVE  /\ ph \in {"start", "defaults"} => DoneBefore(d, ph, i, calls) = <<>>
           /\ ph = "insertedDefaults" => DoneBefore(d, ph, i, calls) = Beginning(d)
           /\ ph = "globals" => DoneBefore(d, ph, i, calls) = UpTo(FilePieces(d, Globals, TRUE), i)
           /\ ph = "profile" => DoneBefore(d, ph, i, calls) = Beginning(d) \o WalkDone(d, calls)
           /\ ph = "confs" =>
                DoneBefore(d, ph, i, calls)
                  = Beginning(d) \o Inherited(d)[TopOf(d)] \o UpTo(FilePieces(d, Confs, FALSE), i)
BY DEF DoneBefore

\* The same for the phase of the profiles.
LEMMA ProfileDone ==
    ASSUME NEW d, NEW i, NEW calls
    PROVE  DoneBefore(d, "profile", i, calls) = Beginning(d) \o WalkDone(d, calls)
BY DEF DoneBefore

\* What the top of the profiles inherits, when there is one.
LEMMA InheritedIs ==
    ASSUME SettingsInv
    PROVE  Inherited(fs)[TopOf(fs)] \in Seq(Happenings(fs))
<1>1. TopOf(fs) \in Profiles
  BY StacksOnDisk
<1> QED  BY <1>1, StacksOnDisk, InheritedType

\* The walk of the profiles has come to events of the disk.
LEMMA WalkType ==
    ASSUME NEW d \in FileSystems, NEW st \in Seq(CallFrames(d))
    PROVE  WalkDone(d, st) \in Seq(Happenings(d))
<1>1. PICK E : E = Happenings(d)
  OBVIOUS
<1>2. PICK w \in [CallFrames(d) -> Seq(E)] : w = CallWaits(d)
  BY <1>1, CallTypes
<1>3. PICK t \in [CallFrames(d) -> Seq(E)] : t = CallDone(d)
  BY <1>1, CallTypes
<1>4. StackDone(w, t, st) \in Seq(E)
  BY StackDoneType
<1> QED  BY <1>1, <1>2, <1>3, <1>4 DEF WalkDone

\* So has everything before the file being read.
LEMMA BeforeType ==
    ASSUME SettingsInv, phase \in {"start", "defaults", "insertedDefaults"} \cup Reading
    PROVE  DoneBefore(fs, phase, index, dfs) \in Seq(Happenings(fs))
<1>1. fs \in FileSystems /\ index \in Nat
  BY StacksOnDisk
<1>2. Beginning(fs) \in Seq(Happenings(fs))
  BY <1>1, BeginningIs
<1>3. CASE phase \in {"start", "defaults"}
  BY <1>3, DoneBeforeIs, EmptySeq
<1>4. CASE phase = "insertedDefaults"
  BY <1>2, <1>4, DoneBeforeIs
<1>5. CASE phase = "globals"
  <2>1. UpTo(FilePieces(fs, Globals, TRUE), index) \in Seq(Happenings(fs))
    <3>1. Globals \in Seq(Files) /\ TRUE \in BOOLEAN
      BY PlacesAssumption
    <3> QED  BY <1>1, <3>1, FilesDone
  <2> QED  BY <1>5, <2>1, DoneBeforeIs
<1>6. CASE phase = "profile"
  <2>1. WalkDone(fs, dfs) \in Seq(Happenings(fs))
    <3>1. dfs \in Seq(CallFrames(fs))
      BY StacksOnDisk
    <3> QED  BY <1>1, <3>1, WalkType
  <2>2. Beginning(fs) \o WalkDone(fs, dfs) \in Seq(Happenings(fs))
    BY <1>2, <2>1, TextsJoin
  <2>3. DoneBefore(fs, phase, index, dfs) = Beginning(fs) \o WalkDone(fs, dfs)
    BY <1>6, ProfileDone
  <2> QED  BY <2>2, <2>3
<1>7. CASE phase = "confs"
  <2>1. UpTo(FilePieces(fs, Confs, FALSE), index) \in Seq(Happenings(fs))
    <3>1. Confs \in Seq(Files) /\ FALSE \in BOOLEAN
      BY PlacesAssumption
    <3> QED  BY <1>1, <3>1, FilesDone
  <2>2. PICK x \in Seq(Happenings(fs)) : x = Beginning(fs) \o Inherited(fs)[TopOf(fs)]
    BY <1>2, InheritedIs, TextsJoin
  <2>3. x \o UpTo(FilePieces(fs, Confs, FALSE), index) \in Seq(Happenings(fs))
    BY <2>1, TextsJoin
  <2> QED  BY <1>7, <2>2, <2>3, DoneBeforeIs
<1> QED  BY <1>3, <1>4, <1>5, <1>6, <1>7 DEF Reading

\* So has the file being read.
LEMMA ReadType ==
    ASSUME NEW d \in FileSystems, NEW st \in Seq(Frames(d))
    PROVE  ReadDone(d, st) \in Seq(Happenings(d))
<1>1. PICK E : E = Happenings(d)
  OBVIOUS
<1>2. PICK w \in [Frames(d) -> Seq(E)] : w = FrameWaits(d)
  BY <1>1, FrameTypes
<1>3. PICK t \in [Frames(d) -> Seq(E)] : t = FrameDone(d)
  BY <1>1, FrameTypes
<1>4. StackDone(w, t, st) \in Seq(E)
  BY StackDoneType
<1> QED  BY <1>1, <1>2, <1>3, <1>4 DEF ReadDone

\* So has the load.
LEMMA DoneType ==
    ASSUME SettingsInv, phase \in {"start", "defaults", "insertedDefaults"} \cup Reading
    PROVE  Done \in Seq(Happenings(fs))
<1>1. PICK x \in Seq(Happenings(fs)) : x = DoneBefore(fs, phase, index, dfs)
  BY BeforeType
<1>2. PICK y \in Seq(Happenings(fs)) : y = ReadDone(fs, reading)
  BY StacksOnDisk, ReadType
<1>3. x \o y \in Seq(Happenings(fs))
  BY TextsJoin
<1> QED  BY <1>1, <1>2, <1>3 DEF Done, DoneAt
-----------------------------------------------------------------------------
\* While the files are read the book agrees with the state.
OnTheBook == IsBook(Book(Done)) /\ Agrees(Book(Done))

BookInv == phase \in {"start", "defaults", "insertedDefaults"} \cup Reading => OnTheBook

\* Nothing has happened.
LEMMA NothingNew ==
    ASSUME OnTheBook, UNCHANGED incVars, Done' = Done
    PROVE  OnTheBook'
<1>1. PICK b : b = Book(Done)
  OBVIOUS
<1>2. IsBook(b) /\ Agrees(b)
  BY <1>1 DEF OnTheBook
<1>3. Agrees(b)'
  BY <1>2 DEF Agrees, incVars, Registered
<1>4. Book(Done)' = b
  BY <1>1
<1>5. (IsBook(Book(Done)))' /\ (Agrees(Book(Done)))'
  BY <1>2, <1>3, <1>4 DEF Agrees
<1> QED  BY <1>5 DEF OnTheBook

-----------------------------------------------------------------------------
\* What the steps on the stacks do to what the load has come to.
LEMMA ReadReplaced ==
    ASSUME NEW d \in FileSystems, NEW st \in Seq(Frames(d)), st # <<>>, NEW top \in Frames(d),
           NEW e \in Seq(Happenings(d)), FrameDone(d)[top] = FrameDone(d)[st[Len(st)]] \o e
    PROVE  ReadDone(d, [st EXCEPT ![Len(st)] = top]) = ReadDone(d, st) \o e
<1>1. PICK E : E = Happenings(d)
  OBVIOUS
<1>2. PICK S : S = Frames(d)
  OBVIOUS
<1>3. PICK w : w = FrameWaits(d) /\ Texts(w, S, E)
  BY <1>1, <1>2, FrameTypes DEF Texts
<1>4. PICK t : t = FrameDone(d) /\ Texts(t, S, E)
  BY <1>1, <1>2, FrameTypes DEF Texts
<1>5. e \in Seq(E) /\ st \in Seq(S) /\ top \in S /\ t[top] = Then(t[st[Len(st)]], e)
  BY <1>1, <1>2, <1>4 DEF Then
<1>6. StackDone(w, t, [st EXCEPT ![Len(st)] = top]) = Then(StackDone(w, t, st), e)
  BY <1>3, <1>4, <1>5, ReplacedDone
<1> QED  BY <1>3, <1>4, <1>6 DEF ReadDone, Then

\* A file is opened by another: it has come to nothing yet.
LEMMA ReadPushed ==
    ASSUME NEW d \in FileSystems, NEW st \in Seq(Frames(d)), st # <<>>, NEW top \in Frames(d),
           NEW new \in Frames(d), FrameWaits(d)[top] = FrameDone(d)[st[Len(st)]], FrameDone(d)[new] = <<>>
    PROVE  ReadDone(d, Append([st EXCEPT ![Len(st)] = top], new)) = ReadDone(d, st)
<1>1. PICK E : E = Happenings(d)
  OBVIOUS
<1>2. PICK S : S = Frames(d)
  OBVIOUS
<1>3. PICK w : w = FrameWaits(d) /\ Texts(w, S, E)
  BY <1>1, <1>2, FrameTypes DEF Texts
<1>4. PICK t : t = FrameDone(d) /\ Texts(t, S, E)
  BY <1>1, <1>2, FrameTypes DEF Texts
<1>5. st \in Seq(S) /\ top \in S /\ new \in S /\ w[top] = t[st[Len(st)]] /\ t[new] = <<>>
  BY <1>2, <1>3, <1>4
<1>6. StackDone(w, t, Append([st EXCEPT ![Len(st)] = top], new)) = StackDone(w, t, st)
  BY <1>3, <1>4, <1>5, PushedDone
<1> QED  BY <1>3, <1>4, <1>6 DEF ReadDone

\* A file read by another ends.
LEMMA ReadPopped ==
    ASSUME NEW d \in FileSystems, NEW st \in Seq(Frames(d)), Len(st) > 1,
           NEW e \in Seq(Happenings(d)),
           FrameDone(d)[st[Len(st) - 1]]
             = FrameWaits(d)[st[Len(st) - 1]] \o (FrameDone(d)[st[Len(st)]] \o e)
    PROVE  ReadDone(d, Front(st)) = ReadDone(d, st) \o e
<1>1. PICK E : E = Happenings(d)
  OBVIOUS
<1>2. PICK S : S = Frames(d)
  OBVIOUS
<1>3. PICK w : w = FrameWaits(d) /\ Texts(w, S, E)
  BY <1>1, <1>2, FrameTypes DEF Texts
<1>4. PICK t : t = FrameDone(d) /\ Texts(t, S, E)
  BY <1>1, <1>2, FrameTypes DEF Texts
<1>5. e \in Seq(E) /\ st \in Seq(S) /\ t[st[Len(st) - 1]] = Then(w[st[Len(st) - 1]], Then(t[st[Len(st)]], e))
  BY <1>1, <1>2, <1>3, <1>4 DEF Then
<1>6. StackDone(w, t, Front(st)) = Then(StackDone(w, t, st), e)
  BY <1>3, <1>4, <1>5, PoppedDone
<1> QED  BY <1>3, <1>4, <1>6 DEF ReadDone, Then

\* The outermost file.
LEMMA ReadSingle ==
    ASSUME NEW d \in FileSystems, NEW x \in Frames(d)
    PROVE  ReadDone(d, <<x>>) = FrameDone(d)[x]
<1>1. PICK E : E = Happenings(d)
  OBVIOUS
<1>2. PICK S : S = Frames(d)
  OBVIOUS
<1>3. PICK w : w = FrameWaits(d) /\ Texts(w, S, E)
  BY <1>1, <1>2, FrameTypes DEF Texts
<1>4. PICK t : t = FrameDone(d) /\ Texts(t, S, E)
  BY <1>1, <1>2, FrameTypes DEF Texts
<1>5. StackDone(w, t, <<x>>) = t[x]
  <2>1. x \in S
    BY <1>2
  <2> QED  BY <1>3, <1>4, <2>1, OneDone
<1> QED  BY <1>3, <1>4, <1>5 DEF ReadDone

\* The same for the calls of add_profile.
LEMMA WalkReplaced ==
    ASSUME NEW d \in FileSystems, NEW st \in Seq(CallFrames(d)), st # <<>>, NEW top \in CallFrames(d),
           NEW e \in Seq(Happenings(d)), CallDone(d)[top] = CallDone(d)[st[Len(st)]] \o e
    PROVE  WalkDone(d, [st EXCEPT ![Len(st)] = top]) = WalkDone(d, st) \o e
<1>1. PICK E : E = Happenings(d)
  OBVIOUS
<1>2. PICK S : S = CallFrames(d)
  OBVIOUS
<1>3. PICK w : w = CallWaits(d) /\ Texts(w, S, E)
  BY <1>1, <1>2, CallTypes DEF Texts
<1>4. PICK t : t = CallDone(d) /\ Texts(t, S, E)
  BY <1>1, <1>2, CallTypes DEF Texts
<1>5. e \in Seq(E) /\ st \in Seq(S) /\ top \in S /\ t[top] = Then(t[st[Len(st)]], e)
  BY <1>1, <1>2, <1>4 DEF Then
<1>6. StackDone(w, t, [st EXCEPT ![Len(st)] = top]) = Then(StackDone(w, t, st), e)
  BY <1>3, <1>4, <1>5, ReplacedDone
<1> QED  BY <1>3, <1>4, <1>6 DEF WalkDone, Then

\* A parent is entered: it has come to nothing yet.
LEMMA WalkPushed ==
    ASSUME NEW d \in FileSystems, NEW st \in Seq(CallFrames(d)), st # <<>>, NEW top \in CallFrames(d),
           NEW new \in CallFrames(d), CallWaits(d)[top] = CallDone(d)[st[Len(st)]], CallDone(d)[new] = <<>>
    PROVE  WalkDone(d, Append([st EXCEPT ![Len(st)] = top], new)) = WalkDone(d, st)
<1>1. PICK E : E = Happenings(d)
  OBVIOUS
<1>2. PICK S : S = CallFrames(d)
  OBVIOUS
<1>3. PICK w : w = CallWaits(d) /\ Texts(w, S, E)
  BY <1>1, <1>2, CallTypes DEF Texts
<1>4. PICK t : t = CallDone(d) /\ Texts(t, S, E)
  BY <1>1, <1>2, CallTypes DEF Texts
<1>5. st \in Seq(S) /\ top \in S /\ new \in S /\ w[top] = t[st[Len(st)]] /\ t[new] = <<>>
  BY <1>2, <1>3, <1>4
<1>6. StackDone(w, t, Append([st EXCEPT ![Len(st)] = top], new)) = StackDone(w, t, st)
  BY <1>3, <1>4, <1>5, PushedDone
<1> QED  BY <1>3, <1>4, <1>6 DEF WalkDone

\* A parent returns.
LEMMA WalkPopped ==
    ASSUME NEW d \in FileSystems, NEW st \in Seq(CallFrames(d)), Len(st) > 1,
           NEW e \in Seq(Happenings(d)),
           CallDone(d)[st[Len(st) - 1]]
             = CallWaits(d)[st[Len(st) - 1]] \o (CallDone(d)[st[Len(st)]] \o e)
    PROVE  WalkDone(d, Front(st)) = WalkDone(d, st) \o e
<1>1. PICK E : E = Happenings(d)
  OBVIOUS
<1>2. PICK S : S = CallFrames(d)
  OBVIOUS
<1>3. PICK w : w = CallWaits(d) /\ Texts(w, S, E)
  BY <1>1, <1>2, CallTypes DEF Texts
<1>4. PICK t : t = CallDone(d) /\ Texts(t, S, E)
  BY <1>1, <1>2, CallTypes DEF Texts
<1>5. e \in Seq(E) /\ st \in Seq(S) /\ t[st[Len(st) - 1]] = Then(w[st[Len(st) - 1]], Then(t[st[Len(st)]], e))
  BY <1>1, <1>2, <1>3, <1>4 DEF Then
<1>6. StackDone(w, t, Front(st)) = Then(StackDone(w, t, st), e)
  BY <1>3, <1>4, <1>5, PoppedDone
<1> QED  BY <1>3, <1>4, <1>6 DEF WalkDone, Then

\* The outermost profile.
LEMMA WalkSingle ==
    ASSUME NEW d \in FileSystems, NEW x \in CallFrames(d)
    PROVE  WalkDone(d, <<x>>) = CallDone(d)[x]
<1>1. PICK E : E = Happenings(d)
  OBVIOUS
<1>2. PICK S : S = CallFrames(d)
  OBVIOUS
<1>3. PICK w : w = CallWaits(d) /\ Texts(w, S, E)
  BY <1>1, <1>2, CallTypes DEF Texts
<1>4. PICK t : t = CallDone(d) /\ Texts(t, S, E)
  BY <1>1, <1>2, CallTypes DEF Texts
<1>5. StackDone(w, t, <<x>>) = t[x]
  <2>1. x \in S
    BY <1>2
  <2> QED  BY <1>3, <1>4, <2>1, OneDone
<1> QED  BY <1>3, <1>4, <1>5 DEF WalkDone

\* One more thing has happened.
LEMMA OneNew ==
    ASSUME NEW E, Done \in Seq(E), NEW e \in E, Done' = Done \o <<e>>,
           NEW b, b = Book(Done), IsBook(Entered(b, e)), Agrees(Entered(b, e))'
    PROVE  OnTheBook'
<1>1. PICK s \in Seq(E) : s = Done
  OBVIOUS
<1>2. Book(s \o <<e>>) = Entered(Book(s), e)
  BY BookGoesOn
<1>3. PICK c : c = Entered(b, e)
  OBVIOUS
<1>4. Book(Done)' = c
  BY <1>1, <1>2, <1>3
<1>5. IsBook(c) /\ Agrees(c)'
  BY <1>3
<1>6. (IsBook(Book(Done)))' /\ (Agrees(Book(Done)))'
  BY <1>4, <1>5 DEF Agrees
<1> QED  BY <1>6 DEF OnTheBook

\* The file that is read is there.
LEMMA FrameRuns ==
    ASSUME SettingsInv, reading # <<>>
    PROVE  /\ File \in Frames(fs) /\ File = reading[Len(reading)] /\ reading \in Seq(Frames(fs))
           /\ phase \in Reading
           /\ AtStatement => /\ Current = fs.content[File.file].stmts[File.next]
                             /\ File.next \in DOMAIN fs.content[File.file].stmts
                             /\ Current \in Statement
<1>1. reading \in Seq(Frames(fs)) /\ fs \in FileSystems
  BY StacksOnDisk
<1>2. File \in Frames(fs) /\ File = reading[Len(reading)]
  BY <1>1, TopType DEF File, Last
<1>3. ASSUME AtStatement
      PROVE  /\ Current = fs.content[File.file].stmts[File.next]
             /\ File.next \in DOMAIN fs.content[File.file].stmts
             /\ Current \in Statement
  <2>1. File.next \in Nat \ {0} /\ fs.content[File.file].stmts \in Seq(Statement)
    BY <1>1, <1>2, FramePieces
  <2>2. File.next <= Len(fs.content[File.file].stmts)
    BY <1>3 DEF AtStatement, Text
  <2> QED  BY <2>1, <2>2 DEF Current, Text
<1> QED  BY <1>1, <1>2, <1>3 DEF SettingsInv, ControlInv

\* The record of a call that goes on.
LEMMA AdvancedRecord ==
    ASSUME SettingsInv, reading # <<>>, NEW r, r = File
    PROVE  Advanced = [reading EXCEPT ![Len(reading)] = [r EXCEPT !.next = @ + 1]]
BY FrameRuns DEF Advanced

\* RunAssignment enters its assignment.
LEMMA RunAssignmentBook ==
    ASSUME SettingsInv, OnTheBook, RunAssignment
    PROVE  OnTheBook'
<1>1. /\ AtStatement /\ reading # <<>> /\ Current.op = "set" /\ reading' = Advanced
      /\ UNCHANGED <<fs, phase, index, dfs>>
  BY DEF RunAssignment, AtStatement
<1>2. PICK d \in FileSystems : d = fs
  BY StacksOnDisk
<1>3. PICK r \in Frames(d) : r = File /\ r = reading[Len(reading)]
  BY <1>1, <1>2, FrameRuns
<1>4. PICK s \in Statement : s = Current
  BY <1>1, FrameRuns
<1>5. s = d.content[r.file].stmts[r.next] /\ r.next \in DOMAIN d.content[r.file].stmts /\ s.op = "set"
  BY <1>1, <1>2, <1>3, <1>4, FrameRuns
<1>6. PICK next : next = [r EXCEPT !.next = @ + 1]
  OBVIOUS
<1>7. next \in Frames(d) /\ FrameDone(d)[next] = FrameDone(d)[r] \o <<s>>
  BY <1>5, <1>6, FrameGoesOn
<1>8. reading' = [reading EXCEPT ![Len(reading)] = next]
  BY <1>1, <1>3, <1>6, AdvancedRecord
<1>9. s \in Happenings(d)
  BY DEF Happenings
<1>10. PICK E : E = Happenings(d)
  OBVIOUS
<1>11. PICK st \in Seq(Frames(d)) : st = reading
  BY <1>1, <1>2, FrameRuns
<1>12. ReadDone(d, [st EXCEPT ![Len(st)] = next]) = ReadDone(d, st) \o <<s>>
  <2>1. <<s>> \in Seq(Happenings(d))
    BY <1>9
  <2>2. st # <<>> /\ FrameDone(d)[next] = FrameDone(d)[st[Len(st)]] \o <<s>> /\ next \in Frames(d)
    BY <1>1, <1>3, <1>7, <1>11
  <2> QED  BY <2>1, <2>2, ReadReplaced
<1>13. ReadDone(d, reading)' = ReadDone(d, reading) \o <<s>>
  BY <1>8, <1>11, <1>12
<1>14. Done' = Done \o <<s>>
  <2>1. PICK x \in Seq(E) : x = DoneBefore(fs, phase, index, dfs)
    BY <1>1, <1>2, <1>10, BeforeType, FrameRuns
  <2>2. PICK y \in Seq(E) : y = ReadDone(fs, reading)
    BY <1>2, <1>10, <1>11, ReadType
  <2>3. (DoneBefore(fs, phase, index, dfs))' = x
    BY <1>1, <2>1
  <2>4. (ReadDone(fs, reading))' = y \o <<s>>
    BY <1>1, <1>2, <1>13, <2>2
  <2>5. x \o (y \o <<s>>) = (x \o y) \o <<s>>
    <3>1. s \in E
      BY <1>9, <1>10
    <3> QED  BY <3>1, SMTT(30)
  <2>6. Done = x \o y
    BY <2>1, <2>2 DEF Done, DoneAt
  <2>7. Done' = x \o (y \o <<s>>)
    BY <2>3, <2>4 DEF Done, DoneAt
  <2> QED  BY <2>5, <2>6, <2>7
<1>15. PICK b : b = Book(Done)
  OBVIOUS
<1>16. IsBook(b) /\ Agrees(b)
  BY <1>15 DEF OnTheBook
<1>17. Assign(s.var, IF s.ref = NULL THEN s.val ELSE Join(Lookup(s.ref), s.val))
  BY <1>4 DEF RunAssignment
<1>18. IsBook(Entered(b, s)) /\ Agrees(Entered(b, s))'
  BY <1>5, <1>16, <1>17, AssignedAgrees
<1>19. Done \in Seq(E)
  BY <1>1, <1>2, <1>10, DoneType, FrameRuns
<1>20. s \in E
  BY <1>9, <1>10
<1> QED  BY <1>14, <1>15, <1>18, <1>19, <1>20, OneNew

-----------------------------------------------------------------------------
\* A file that another reads begins: nothing has happened yet.
LEMMA RunSourceBook ==
    ASSUME SettingsInv, BookInv, RunSource
    PROVE  BookInv'
<1>1. /\ AtStatement /\ reading # <<>> /\ Current.op = "source" /\ UNCHANGED fs
  BY DEF RunSource, AtStatement
<1>2. PICK f \in Files : f = Current.file
  BY <1>1, FrameRuns DEF Statement
<1>3. CASE fs.content[f] = Missing
  <2>1. phase' = "failed"
    BY <1>2, <1>3 DEF RunSource, Fail
  <2> QED  BY <2>1 DEF BookInv, Reading
<1>4. CASE fs.content[f] # Missing
  <2>1. reading' = Append(Advanced, Open(f)) /\ UNCHANGED <<incVars, phase, index, dfs>>
    BY <1>2, <1>4 DEF RunSource
  <2>2. PICK d \in FileSystems : d = fs
    BY StacksOnDisk
  <2>3. PICK r \in Frames(d) : r = File /\ r = reading[Len(reading)]
    BY <1>1, <2>2, FrameRuns
  <2>4. PICK next : next = [r EXCEPT !.next = @ + 1]
    OBVIOUS
  <2>5. next \in Frames(d) /\ FrameWaits(d)[next] = FrameDone(d)[r]
    BY <2>4, FrameGoesOn
  <2>6. PICK new \in Frames(d) : new = Open(f) /\ FrameDone(d)[new] = <<>>
    BY <1>4, <2>2, OpenedDone
  <2>7. PICK st \in Seq(Frames(d)) : st = reading /\ st # <<>>
    BY <1>1, <2>2, FrameRuns
  <2>8. reading' = Append([st EXCEPT ![Len(st)] = next], new)
    BY <1>1, <2>1, <2>3, <2>4, <2>6, <2>7, AdvancedRecord
  <2>9. ReadDone(d, Append([st EXCEPT ![Len(st)] = next], new)) = ReadDone(d, st)
    <3>1. FrameWaits(d)[next] = FrameDone(d)[st[Len(st)]]
      BY <2>3, <2>5, <2>7
    <3> QED  BY <2>5, <2>6, <2>7, <3>1, ReadPushed
  <2>10. (DoneBefore(fs, phase, index, dfs))' = DoneBefore(fs, phase, index, dfs)
    BY <1>1, <2>1
  <2>11. (ReadDone(fs, reading))' = ReadDone(fs, reading)
    BY <1>1, <2>2, <2>7, <2>8, <2>9
  <2>12. Done' = Done
    BY <2>10, <2>11 DEF Done, DoneAt
  <2>13. OnTheBook
    BY <1>1, FrameRuns DEF BookInv
  <2>14. OnTheBook'
    BY <2>1, <2>12, <2>13, NothingNew
  <2> QED  BY <2>14 DEF BookInv
<1> QED  BY <1>3, <1>4
-----------------------------------------------------------------------------
\* What load_make_config has come to when it returns, whether its file is there
\* or not.
LEMMA FileLoaded ==
    ASSUME SettingsInv, ErrorInv, phase \in Reading, AtLoad, UNCHANGED <<fs, phase>>, AfterFile
    PROVE  /\ Loading \in Files
           /\ (DoneBefore(fs, phase, index, dfs))'
                = DoneBefore(fs, phase, index, dfs) \o Loaded(fs, Loading, phase # "confs")
<1>1. PICK d \in FileSystems : d = fs /\ fs' = d
  BY StacksOnDisk
<1>2. PICK E : E = Happenings(d)
  OBVIOUS
<1>3. PICK b \in Seq(E) : b = Beginning(d)
  BY <1>2, BeginningIs
<1>4. CASE phase = "globals"
  <2>1. index \in 1..Len(Globals) /\ Globals \in Seq(Files) /\ Loading = Globals[index]
    BY <1>4, StacksOnDisk DEF AtLoad, Loading
  <2>2. index' = index + 1
    BY <1>4 DEF AfterFile, NextFile
  <2>3. Loading \in Files
    BY <2>1
  <2>4. PICK stack \in BOOLEAN : stack = TRUE /\ stack = (phase # "confs")
    BY <1>4
  <2>5. PICK n \in 1..Len(Globals) : n = index
    BY <2>1
  <2>6. UpTo(FilePieces(d, Globals, stack), n + 1)
          = UpTo(FilePieces(d, Globals, stack), n) \o Loaded(d, Globals[n], stack)
    BY <2>1, FilesDone
  <2>7. DoneBefore(d, phase, index, dfs) = UpTo(FilePieces(d, Globals, stack), n)
    BY <1>4, <2>4, <2>5, DoneBeforeIs
  <2>8. DoneBefore(d, phase', index', dfs') = UpTo(FilePieces(d, Globals, stack), n + 1)
    BY <1>4, <2>2, <2>4, <2>5, DoneBeforeIs
  <2>9. (DoneBefore(fs, phase, index, dfs))' = DoneBefore(d, phase', index', dfs')
    BY <1>1
  <2> QED  BY <1>1, <2>1, <2>3, <2>4, <2>5, <2>6, <2>7, <2>8, <2>9
<1>5. CASE phase = "confs"
  <2>1. index \in 1..Len(Confs) /\ Confs \in Seq(Files) /\ Loading = Confs[index]
    BY <1>5, StacksOnDisk DEF AtLoad, Loading
  <2>2. index' = index + 1
    BY <1>5 DEF AfterFile, NextFile
  <2>3. Loading \in Files
    BY <2>1
  <2>4. PICK stack \in BOOLEAN : stack = FALSE /\ stack = (phase # "confs")
    BY <1>5
  <2>5. PICK n \in 1..Len(Confs) : n = index
    BY <2>1
  <2>6. PICK x \in Seq(E) : x = b \o Inherited(d)[TopOf(d)]
    BY <1>1, <1>2, InheritedIs, TextsJoin
  <2>7. PICK y \in Seq(E) : y = UpTo(FilePieces(d, Confs, stack), n)
    <3>1. n \in Nat
      BY <2>1
    <3> QED  BY <1>2, <2>1, <3>1, FilesDone
  <2>8. PICK z \in Seq(E) : z = Loaded(d, Confs[n], stack)
    <3>1. Confs[n] \in Files
      BY <2>1
    <3> QED  BY <1>2, <3>1, LoadedType
  <2>9. UpTo(FilePieces(d, Confs, stack), n + 1) = y \o z
    BY <2>1, <2>7, <2>8, FilesDone
  <2>10. DoneBefore(d, phase, index, dfs) = x \o y
    BY <1>3, <1>5, <2>4, <2>5, <2>6, <2>7, DoneBeforeIs
  <2>11. DoneBefore(d, phase', index', dfs') = x \o (y \o z)
    <3>1. PICK i : i = n + 1 /\ i = index'
      BY <2>2, <2>5
    <3>2. DoneBefore(d, phase', i, dfs')
            = Beginning(d) \o Inherited(d)[TopOf(d)] \o UpTo(FilePieces(d, Confs, FALSE), i)
      BY <1>5, DoneBeforeIs
    <3>3. UpTo(FilePieces(d, Confs, FALSE), i) = y \o z
      BY <2>4, <2>9, <3>1
    <3> QED  BY <1>3, <2>6, <3>1, <3>2, <3>3
  <2>12. (DoneBefore(fs, phase, index, dfs))' = DoneBefore(d, phase', index', dfs')
    BY <1>1
  <2>13. x \o (y \o z) = (x \o y) \o z
    BY SMTT(30)
  <2> QED  BY <1>1, <2>1, <2>3, <2>4, <2>5, <2>8, <2>10, <2>11, <2>12, <2>13
<1>6. CASE phase = "profile"
  <2>1. MoveTo("mask")
    BY <1>6 DEF AfterFile
  <2>2. PICK c \in CallFrames(d) : c = Caller /\ c = dfs[Len(dfs)] /\ c.at = "parents"
    <3>1. Caller \in CallFrames(d)
      BY <1>1, <1>6, CallerIs DEF CallFrames, Usable
    <3> QED  BY <1>6, <3>1, CallerIs DEF AtLoad
  <2>3. Loading = MakeDefaults[c.profile]
    BY <1>6, <2>2 DEF Loading
  <2>4. Loading \in Files
    BY <1>6, <2>2, <2>3, CallerIs, PlacesAssumption
  <2>5. PICK stack \in BOOLEAN : stack = TRUE /\ stack = (phase # "confs")
    BY <1>6
  <2>6. PICK z \in Seq(E) : z = Loaded(d, MakeDefaults[c.profile], stack)
    BY <1>2, <2>3, <2>4, LoadedType
  <2>7. PICK next : next = [c EXCEPT !.at = "mask"]
    OBVIOUS
  <2>8. next \in CallFrames(d) /\ CallDone(d)[next] = CallDone(d)[c] \o z
    BY <2>2, <2>5, <2>6, <2>7, CallMoves
  <2>9. PICK st \in Seq(CallFrames(d)) : st = dfs /\ st # <<>>
    BY <1>1, <1>6, CallerIs, StacksOnDisk
  <2>10. dfs' = [st EXCEPT ![Len(st)] = next]
    BY <2>1, <2>2, <2>7, <2>9 DEF MoveTo
  <2>11. WalkDone(d, [st EXCEPT ![Len(st)] = next]) = WalkDone(d, st) \o z
    <3>1. CallDone(d)[next] = CallDone(d)[st[Len(st)]] \o z /\ z \in Seq(Happenings(d))
      BY <1>2, <2>2, <2>8, <2>9
    <3> QED  BY <2>8, <2>9, <3>1, WalkReplaced
  <2>12. PICK y \in Seq(E) : y = WalkDone(d, st)
    BY <1>2, WalkType
  <2>13. DoneBefore(d, phase, index, dfs) = b \o y
    <3>1. DoneBefore(d, phase, index, dfs) = Beginning(d) \o WalkDone(d, dfs)
      BY <1>6, DoneBeforeIs
    <3> QED  BY <1>3, <2>9, <2>12, <3>1
  <2>14. DoneBefore(d, phase', index', dfs') = b \o (y \o z)
    BY <1>3, <1>6, <2>10, <2>11, <2>12, DoneBeforeIs
  <2>15. (DoneBefore(fs, phase, index, dfs))' = DoneBefore(d, phase', index', dfs')
    BY <1>1
  <2>16. b \o (y \o z) = (b \o y) \o z
    BY SMTT(30)
  <2> QED  BY <1>1, <2>3, <2>4, <2>5, <2>6, <2>13, <2>14, <2>15, <2>16
<1> QED  BY <1>4, <1>5, <1>6 DEF Reading

-----------------------------------------------------------------------------
\* load_make_config passes over a file that is not there, or opens it.
LEMMA LoadBook ==
    ASSUME SettingsInv, ErrorInv, BookInv, phase \in Reading, reading = <<>>, AtLoad,
           UNCHANGED <<incVars, fs, phase>>, Loading \in Files,
           IF fs.content[Loading] = Missing THEN AfterFile /\ UNCHANGED reading
           ELSE reading' = <<Open(Loading)>> /\ UNCHANGED <<index, dfs>>
    PROVE  BookInv'
<1>1. OnTheBook
  BY DEF BookInv
<1>2. PICK x \in Seq(Happenings(fs)) : x = DoneBefore(fs, phase, index, dfs)
  BY BeforeType
<1>3. ReadDone(fs, reading) = <<>>
  BY NothingRead
<1>4. (DoneBefore(fs, phase, index, dfs))' = x /\ (ReadDone(fs, reading))' = <<>>
  <2>1. CASE fs.content[Loading] = Missing
    <3>1. Loaded(fs, Loading, phase # "confs") = <<>>
      BY <2>1 DEF Loaded
    <3>2. (DoneBefore(fs, phase, index, dfs))'
             = DoneBefore(fs, phase, index, dfs) \o Loaded(fs, Loading, phase # "confs")
      BY <2>1, FileLoaded
    <3>3. x \o <<>> = x
      BY ConcatEmptySeq
    <3>4. reading' = <<>>
      BY <2>1
    <3> QED  BY <1>2, <3>1, <3>2, <3>3, <3>4, NothingRead
  <2>2. CASE fs.content[Loading] # Missing
    <3>1. reading' = <<Open(Loading)>> /\ UNCHANGED <<index, dfs>>
      BY <2>2
    <3>2. PICK d \in FileSystems : d = fs /\ d = fs'
      BY StacksOnDisk
    <3>3. Open(Loading) \in Frames(d) /\ FrameDone(d)[Open(Loading)] = <<>>
      BY <2>2, <3>2, OpenedDone
    <3>4. ReadDone(d, <<Open(Loading)>>) = <<>>
      BY <3>3, ReadSingle
    <3>5. (DoneBefore(fs, phase, index, dfs))' = DoneBefore(fs, phase, index, dfs)
      BY <3>1
    <3> QED  BY <1>2, <3>1, <3>2, <3>4, <3>5
  <2> QED  BY <2>1, <2>2
<1>5. Done' = Done
  BY <1>2, <1>3, <1>4 DEF Done, DoneAt
<1>6. OnTheBook'
  BY <1>1, <1>5, NothingNew
<1> QED  BY <1>6 DEF BookInv

\* LoadGlobal opens or skips a file.
LEMMA LoadGlobalBook ==
    ASSUME SettingsInv, ErrorInv, BookInv, LoadGlobal
    PROVE  BookInv'
<1>1. /\ phase = "globals" /\ index <= Len(Globals) /\ reading = <<>>
      /\ UNCHANGED <<incVars, fs, phase>>
      /\ IF fs.content[Globals[index]] = Missing THEN NextFile /\ UNCHANGED reading
         ELSE reading' = <<Open(Globals[index])>> /\ UNCHANGED <<index, dfs>>
  BY DEF LoadGlobal, Load
<1>2. index \in DOMAIN Globals /\ Globals[index] \in Files
  BY <1>1, StacksOnDisk
<1>3. AtLoad /\ Loading = Globals[index] /\ Loading \in Files
  BY <1>1, <1>2 DEF AtLoad, Loading
<1>4. NextFile <=> AfterFile
  BY <1>1 DEF AfterFile
<1>5. IF fs.content[Loading] = Missing THEN AfterFile /\ UNCHANGED reading
      ELSE reading' = <<Open(Loading)>> /\ UNCHANGED <<index, dfs>>
  BY <1>1, <1>3, <1>4
<1> QED  BY <1>1, <1>3, <1>5, LoadBook DEF Reading

\* LoadConf opens or skips a file.
LEMMA LoadConfBook ==
    ASSUME SettingsInv, ErrorInv, BookInv, LoadConf
    PROVE  BookInv'
<1>1. /\ phase = "confs" /\ index <= Len(Confs) /\ reading = <<>>
      /\ UNCHANGED <<incVars, fs, phase>>
      /\ IF fs.content[Confs[index]] = Missing THEN NextFile /\ UNCHANGED reading
         ELSE reading' = <<Open(Confs[index])>> /\ UNCHANGED <<index, dfs>>
  BY DEF LoadConf, Load
<1>2. index \in DOMAIN Confs /\ Confs[index] \in Files
  BY <1>1, StacksOnDisk
<1>3. AtLoad /\ Loading = Confs[index] /\ Loading \in Files
  BY <1>1, <1>2 DEF AtLoad, Loading
<1>4. NextFile <=> AfterFile
  BY <1>1 DEF AfterFile
<1>5. IF fs.content[Loading] = Missing THEN AfterFile /\ UNCHANGED reading
      ELSE reading' = <<Open(Loading)>> /\ UNCHANGED <<index, dfs>>
  BY <1>1, <1>3, <1>4
<1> QED  BY <1>1, <1>3, <1>5, LoadBook DEF Reading

\* LoadMakeDefaults opens or skips a file.
LEMMA LoadMakeDefaultsBook ==
    ASSUME SettingsInv, ErrorInv, BookInv, LoadMakeDefaults
    PROVE  BookInv'
<1>1. /\ phase = "profile" /\ reading = <<>> /\ UNCHANGED <<incVars, fs, phase>>
      /\ Caller.at = "parents" /\ Caller.next > Len(GetLines(fs.parents[Caller.profile]))
      /\ IF fs.content[MakeDefaults[Caller.profile]] = Missing
         THEN MoveTo("mask") /\ UNCHANGED reading
         ELSE reading' = <<Open(MakeDefaults[Caller.profile])>> /\ UNCHANGED <<index, dfs>>
  BY DEF LoadMakeDefaults, Load
<1>2. PICK p \in Profiles : p = Caller.profile
  BY <1>1, CallerIs
<1>3. /\ Caller.next \in Nat /\ Len(GetLines(fs.parents[p])) \in Nat
      /\ Len(GetLines(fs.parents[p])) < Caller.next
  BY <1>1, <1>2, CallerIs
<1>4. AtLoad /\ Loading = MakeDefaults[p] /\ Loading \in Files
  BY <1>1, <1>2, <1>3, PlacesAssumption DEF AtLoad, Loading
<1>5. AfterFile <=> MoveTo("mask")
  BY <1>1 DEF AfterFile
<1>6. IF fs.content[Loading] = Missing THEN AfterFile /\ UNCHANGED reading
      ELSE reading' = <<Open(Loading)>> /\ UNCHANGED <<index, dfs>>
  BY <1>1, <1>2, <1>4, <1>5
<1> QED  BY <1>1, <1>4, <1>6, LoadBook DEF Reading
-----------------------------------------------------------------------------
\* A file that another has read ends: the other goes on where it was.
LEMMA SourcedBook ==
    ASSUME SettingsInv, ErrorInv, Settled(fs), OnTheBook, reading # <<>>, ~AtStatement,
           Len(reading) > 1, reading' = Front(reading),
           UNCHANGED <<incVars, fs, phase, index, dfs>>
    PROVE  OnTheBook'
<1>1. PICK d \in FileSystems : d = fs /\ d = fs'
  BY StacksOnDisk
<1>2. PICK st \in Seq(Frames(d)) : st = reading /\ Len(st) > 1
  BY <1>1, StacksOnDisk
<1>3. PICK n \in Nat : n = Len(st) /\ n - 1 \in 1..n /\ n \in 1..n /\ n - 1 + 1 = n
                       /\ n - 1 \in 1..(n - 1)
  BY <1>2
<1>4. PICK r \in Frames(d) : r = File /\ r = st[n]
  BY <1>1, <1>2, <1>3, FrameRuns
<1>5. PICK a \in Frames(d) : a = st[n - 1]
  <2>1. st[n - 1] \in Frames(d)
    BY <1>3, ElementOfSeq
  <2> QED  BY <2>1
<1>6. r \in OpenRecords /\ <<a, r>> \in Sourcing(d)
  <2>1. Chained(st, {x \in OpenRecords : x.file = Loading}, Reader(d), Sourcing(d))
    BY <1>1, <1>2, FileIs
  <2>2. \A i \in 1..(n - 1) : <<st[i], st[i + 1]>> \in Sourcing(d)
    BY <1>2, <1>3, <2>1, EmptySeq DEF Chained
  <2>3. <<st[n - 1], st[n - 1 + 1]>> \in Sourcing(d)
    BY <1>3, <2>2
  <2> QED  BY <1>3, <1>4, <1>5, <2>3 DEF Frames
<1>7. FrameDone(d)[a] = FrameWaits(d)[a] \o Inlined(d)[r.file]
  BY <1>6, FrameReturns
<1>8. FrameDone(d)[r] = Inlined(d)[r.file]
  <2>1. ~ (r.next <= Len(d.content[r.file].stmts))
    BY <1>1, <1>4 DEF AtStatement, Text
  <2> QED  BY <1>1, <2>1, FrameEnds
<1>9. PICK x \in Seq(Happenings(d)) : x = FrameDone(d)[r]
  BY FrameTypes
<1>10. x \o <<>> = x /\ <<>> \in Seq(Happenings(d))
  BY ConcatEmptySeq, EmptySeq
<1>11. FrameDone(d)[a] = FrameWaits(d)[a] \o (x \o <<>>)
  BY <1>7, <1>8, <1>9, <1>10
<1>12. ReadDone(d, Front(st)) = ReadDone(d, st) \o <<>>
  <2>1. FrameDone(d)[st[Len(st) - 1]]
          = FrameWaits(d)[st[Len(st) - 1]] \o (FrameDone(d)[st[Len(st)]] \o <<>>)
    BY <1>3, <1>4, <1>5, <1>9, <1>11
  <2> QED  BY <1>2, <1>10, <2>1, ReadPopped
<1>13. PICK y \in Seq(Happenings(d)) : y = ReadDone(d, st)
  BY ReadType
<1>14. y \o <<>> = y
  BY ConcatEmptySeq
<1>15. (ReadDone(fs, reading))' = ReadDone(fs, reading)
  BY <1>1, <1>2, <1>12, <1>13, <1>14
<1>16. (DoneBefore(fs, phase, index, dfs))' = DoneBefore(fs, phase, index, dfs)
  OBVIOUS
<1>17. Done' = Done
  BY <1>15, <1>16 DEF Done, DoneAt
<1> QED  BY <1>17, NothingNew

-----------------------------------------------------------------------------
\* The outermost file ends: the values move out of config.
LEMMA DigestBook ==
    ASSUME SettingsInv, ErrorInv, Settled(fs), OnTheBook, reading # <<>>, ~AtStatement,
           ~ (Len(reading) > 1), reading' = Front(reading),
           UNCHANGED <<fs, phase>>, ConfigChanged(phase # "confs"), AfterFile
    PROVE  OnTheBook'
<1>1. PICK d \in FileSystems : d = fs /\ d = fs'
  BY StacksOnDisk
<1>2. PICK E : E = Happenings(d)
  OBVIOUS
<1>3. PICK stack \in BOOLEAN : stack = (phase # "confs")
  OBVIOUS
<1>4. phase \in Reading /\ AtLoad
  BY FrameRuns, FileIs
<1>5. PICK r \in Frames(d) : r = File /\ reading = <<r>> /\ r.file = Loading
  <2>1. reading \in Seq(Frames(d)) /\ Len(reading) = 1
    <3>1. reading \in Seq(Frames(d))
      BY <1>1, StacksOnDisk
    <3>2. PICK n \in Nat : n = Len(reading) /\ n # 0
      BY <3>1, EmptySeq
    <3>3. ~ (n > 1)
      BY <3>2
    <3>4. n = 1
      BY <3>2, <3>3
    <3> QED  BY <3>1, <3>2, <3>4
  <2>2. PICK r \in Frames(d) : r = File /\ r = reading[1]
    BY <1>1, <2>1, FrameRuns
  <2>3. reading = <<r>>
    BY <2>1, <2>2
  <2>4. r.file = Loading
    BY <2>1, <2>2, FileIs DEF Chained
  <2> QED  BY <2>2, <2>3, <2>4
<1>6. PICK v \in Seq(E) : v = Inlined(d)[r.file] /\ v = FrameDone(d)[r]
  <2>1. ~ (r.next <= Len(d.content[r.file].stmts))
    BY <1>1, <1>5 DEF AtStatement, Text
  <2>2. FrameDone(d)[r] = Inlined(d)[r.file]
    BY <1>1, <2>1, FrameEnds
  <2> QED  BY <1>2, <2>2, FrameTypes
<1>7. PICK e \in E : e = Changed(stack)
  BY <1>2 DEF Happenings
<1>8. Loaded(d, Loading, stack) = v \o <<e>>
  BY <1>5, <1>6, <1>7 DEF Loaded, Frames
<1>9. PICK x \in Seq(E) : x = DoneBefore(fs, phase, index, dfs)
  BY <1>1, <1>2, <1>4, BeforeType
<1>10. ReadDone(d, reading) = v
  BY <1>5, <1>6, ReadSingle
<1>11. Done = x \o v
  BY <1>1, <1>9, <1>10 DEF Done, DoneAt
<1>12. (DoneBefore(fs, phase, index, dfs))' = x \o (v \o <<e>>)
  BY <1>1, <1>3, <1>4, <1>8, <1>9, FileLoaded
<1>13. reading' = <<>>
  <2>1. PICK st \in Seq(Frames(d)) : st = <<r>>
    <3>1. r \in Frames(d) => <<r>> \in Seq(Frames(d)) /\ <<r>> # <<>>
      BY Single
    <3> QED  BY <3>1
  <2>2. Len(st) = 1 /\ st # <<>>
    BY <2>1
  <2>3. Front(st) = <<>>
    BY <2>2, TopType
  <2> QED  BY <1>5, <2>1, <2>3
<1>14. (ReadDone(fs, reading))' = <<>>
  BY <1>13, NothingRead
<1>15. x \o (v \o <<e>>) = (x \o v) \o <<e>>
  BY SMTT(30)
<1>16. (x \o v) \o <<e>> \o <<>> = (x \o v) \o <<e>>
  <2>1. PICK z \in Seq(E) : z = (x \o v) \o <<e>>
    <3>1. x \o v \in Seq(E) /\ <<e>> \in Seq(E)
      BY TextsJoin
    <3> QED  BY <3>1, TextsJoin
  <2> QED  BY <2>1, ConcatEmptySeq
<1>17. Done' = Done \o <<e>>
  BY <1>11, <1>12, <1>14, <1>15, <1>16 DEF Done, DoneAt
<1>18. PICK b : b = Book(Done)
  OBVIOUS
<1>19. IsBook(Entered(b, e)) /\ Agrees(Entered(b, e))'
  <2>1. IsBook(b) /\ Agrees(b)
    BY <1>18 DEF OnTheBook
  <2>2. ConfigChanged(stack) /\ TypeInv
    BY <1>3 DEF SettingsInv
  <2> QED  BY <1>7, <2>1, <2>2, DigestedAgrees
<1>20. Done \in Seq(E)
  BY <1>11, TextsJoin
<1> QED  BY <1>17, <1>18, <1>19, <1>20, OneNew

\* EndFile, of a file read by another or of the outermost one.
LEMMA EndFileBook ==
    ASSUME SettingsInv, ErrorInv, Settled(fs), BookInv, EndFile
    PROVE  BookInv'
<1>1. reading # <<>> /\ ~AtStatement /\ UNCHANGED fs
  BY DEF EndFile
<1>2. CASE ~Text.sound
  <2>1. phase' = "failed"
    BY <1>2 DEF EndFile, Fail
  <2> QED  BY <2>1 DEF BookInv, Reading
<1>3. CASE Text.sound
  <2>1. /\ reading' = Front(reading) /\ UNCHANGED phase
        /\ IF Len(reading) > 1 THEN UNCHANGED <<incVars, index, dfs>>
           ELSE ConfigChanged(phase # "confs") /\ AfterFile
    BY <1>3 DEF EndFile
  <2>2. OnTheBook
    BY <1>1, FrameRuns DEF BookInv
  <2>3. CASE Len(reading) > 1
    <3>1. OnTheBook'
      BY <1>1, <2>1, <2>2, <2>3, SourcedBook
    <3> QED  BY <3>1 DEF BookInv
  <2>4. CASE ~ (Len(reading) > 1)
    <3>1. OnTheBook'
      BY <1>1, <2>1, <2>2, <2>4, DigestBook
    <3> QED  BY <3>1 DEF BookInv
  <2> QED  BY <2>3, <2>4
<1> QED  BY <1>2, <1>3

-----------------------------------------------------------------------------
\* Nothing has been read and the book is empty.
LEMMA BookInit == Init => BookInv
<1> SUFFICES ASSUME Init PROVE OnTheBook
  BY DEF BookInv
<1>1. phase = "start" /\ reading = <<>> /\ IncInit
  BY DEF Init
<1>2. Done = <<>> \o <<>>
  BY <1>1, DoneBeforeIs, NothingRead DEF Done, DoneAt
<1>3. <<>> \o <<>> = <<>>
  BY EmptySeq, ConcatEmptySeq
<1>4. Book(Done) = NoBook
  BY <1>2, <1>3, BookBegins
<1>5. IsBook(NoBook) /\ Agrees(NoBook)
  BY <1>1, NoBookAgrees
<1> QED  BY <1>4, <1>5 DEF OnTheBook

\* While no file is open.
LEMMA NoFileDone ==
    ASSUME SettingsInv, phase \in {"start", "defaults", "insertedDefaults"} \cup Reading,
           reading = <<>>
    PROVE  Done = DoneBefore(fs, phase, index, dfs)
<1>1. PICK x \in Seq(Happenings(fs)) : x = DoneBefore(fs, phase, index, dfs)
  BY BeforeType
<1>2. x \o <<>> = x
  BY ConcatEmptySeq
<1> QED  BY <1>1, <1>2, NothingRead DEF Done, DoneAt

\* Start reads nothing.
LEMMA StartBook ==
    ASSUME SettingsInv, ErrorInv, BookInv, Start
    PROVE  BookInv'
<1>1. phase = "start" /\ UNCHANGED fs /\ index = 1
  BY DEF Start, ErrorInv, PhaseInv
<1>2. CASE ~fs.rootOk
  <2>1. phase' = "failed"
    BY <1>2 DEF Start, Fail
  <2> QED  BY <2>1 DEF BookInv, Reading
<1>3. CASE fs.rootOk
  <2>1. phase' \in {"globals", "defaults"} /\ UNCHANGED <<incVars, index, dfs, reading>>
    BY <1>3 DEF Start
  <2>2. DoneBefore(fs, phase, index, dfs) = <<>>
    BY <1>1, DoneBeforeIs
  <2>3. DoneBefore(fs, phase', index, dfs) = <<>>
    <3>1. CASE phase' = "defaults"
      BY <3>1, DoneBeforeIs
    <3>2. CASE phase' = "globals"
      <4>1. fs \in FileSystems /\ Globals \in Seq(Files) /\ TRUE \in BOOLEAN
        BY StacksOnDisk
      <4>2. UpTo(FilePieces(fs, Globals, TRUE), 1) = <<>>
        BY <4>1, FilesDone
      <4> QED  BY <1>1, <3>2, <4>2, DoneBeforeIs
    <3> QED  BY <2>1, <3>1, <3>2
  <2>4. (DoneBefore(fs, phase, index, dfs))' = DoneBefore(fs, phase, index, dfs)
    BY <1>1, <2>1, <2>2, <2>3
  <2>5. Done' = Done
    BY <1>1, <2>1, <2>4 DEF Done, DoneAt
  <2>6. OnTheBook'
    BY <1>1, <2>1, <2>5, NothingNew DEF BookInv
  <2> QED  BY <2>6 DEF BookInv
<1> QED  BY <1>2, <1>3

\* InsertDefaults enters the first default.
LEMMA InsertDefaultsBook ==
    ASSUME SettingsInv, ErrorInv, BookInv, InsertDefaults
    PROVE  BookInv'
<1>1. /\ phase = "defaults" /\ phase' = "insertedDefaults"
      /\ UNCHANGED <<fs, index, dfs, reading>> /\ fs.defaults # NULL
  BY DEF InsertDefaults, SettingsInv, ControlInv
<1>2. reading = <<>>
  BY <1>1 DEF SettingsInv, ControlInv, Reading
<1>3. Done = <<>>
  BY <1>1, <1>2, NoFileDone, DoneBeforeIs
<1>4. fs \in FileSystems
  BY StacksOnDisk
<1>5. PICK x \in Seq(Happenings(fs)) : x = Beginning(fs)
  BY <1>4, BeginningIs
<1>6. Done' = x
  <2>1. (DoneBefore(fs, phase, index, dfs))' = x
    <3>1. DoneBefore(fs, phase', index', dfs') = Beginning(fs)
      BY <1>1, DoneBeforeIs
    <3> QED  BY <1>1, <1>5, <3>1
  <2>2. (ReadDone(fs, reading))' = <<>>
    BY <1>1, <1>2, NothingRead
  <2>3. x \o <<>> = x
    BY ConcatEmptySeq
  <2> QED  BY <2>1, <2>2, <2>3 DEF Done, DoneAt
<1>7. OnTheBook
  BY <1>1 DEF BookInv
<1>8. CASE fs.defaults = <<>>
  <2>1. x = <<>>
    BY <1>1, <1>4, <1>5, <1>8, BeginningIs
  <2>2. UNCHANGED incVars
    BY <1>8 DEF InsertDefaults
  <2>3. OnTheBook'
    BY <1>3, <1>6, <1>7, <2>1, <2>2, NothingNew
  <2> QED  BY <2>3 DEF BookInv
<1>9. CASE fs.defaults # <<>>
  <2>1. PICK s \in Statement : s = fs.defaults[1] /\ s.op = "set" /\ s.ref = NULL /\ x = <<s>>
    BY <1>1, <1>4, <1>5, <1>9, BeginningIs
  <2>2. PICK E : E = Happenings(fs)
    OBVIOUS
  <2>3. s \in E
    BY <2>2 DEF Happenings
  <2>4. <<>> \o <<s>> = <<s>> /\ <<>> \in Seq(E)
    <3>1. <<s>> \in Seq(E)
      BY <2>3
    <3> QED  BY <3>1, ConcatEmptySeq, EmptySeq
  <2>5. Done \in Seq(E) /\ Done' = Done \o <<s>>
    BY <1>3, <1>6, <2>1, <2>4
  <2>6. PICK b : b = Book(Done)
    OBVIOUS
  <2>7. IsBook(Entered(b, s)) /\ Agrees(Entered(b, s))'
    <3>1. IsBook(b) /\ Agrees(b)
      BY <1>7, <2>6 DEF OnTheBook
    <3>2. Assign(s.var, s.val)
      BY <1>9, <2>1 DEF InsertDefaults
    <3>3. Assign(s.var, IF s.ref = NULL THEN s.val ELSE Join(Lookup(s.ref), s.val))
      BY <2>1, <3>2
    <3> QED  BY <2>1, <3>1, <3>3, AssignedAgrees
  <2>8. OnTheBook'
    BY <2>3, <2>5, <2>6, <2>7, OneNew
  <2> QED  BY <2>8 DEF BookInv
<1> QED  BY <1>8, <1>9

\* EnterProfile begins the walk after the beginning of the load.
LEMMA EnterProfileBook ==
    ASSUME SettingsInv, ErrorInv, BookInv, EnterProfile
    PROVE  BookInv'
<1>1. /\ \/ phase = "insertedDefaults"
         \/ phase = "globals" /\ reading = <<>> /\ index > Len(Globals)
      /\ UNCHANGED <<incVars, fs>> /\ EnterRoot
  BY DEF EnterProfile
<1>2. reading = <<>>
  BY <1>1 DEF SettingsInv, ControlInv, Reading
<1>3. CASE ~Usable(Root)
  <2>1. phase' = "failed"
    BY <1>1, <1>3 DEF EnterRoot, Fail
  <2> QED  BY <2>1 DEF BookInv, Reading
<1>4. CASE Usable(Root)
  <2>1. phase' = "profile" /\ dfs' = <<Call(Root)>> /\ UNCHANGED reading
    BY <1>1, <1>4 DEF EnterRoot
  <2>2. PICK d \in FileSystems : d = fs /\ d = fs'
    BY <1>1, StacksOnDisk
  <2>3. PICK x \in Seq(Happenings(d)) : x = Beginning(d)
    BY BeginningIs
  <2>4. Done = x
    <3>1. CASE phase = "insertedDefaults"
      <4>1. Done = DoneBefore(d, phase, index, dfs)
        BY <1>2, <2>2, <3>1, NoFileDone
      <4> QED  BY <2>3, <3>1, <4>1, DoneBeforeIs
    <3>2. CASE phase = "globals"
      <4>1. d.defaults = NULL
        BY <2>2, <3>2 DEF ErrorInv, PhaseInv
      <4>2. x = FlattenSeq(FilePieces(d, Globals, TRUE))
        BY <2>3, <4>1, BeginningIs
      <4>3. index \in Nat /\ index > Len(Globals) /\ Globals \in Seq(Files) /\ TRUE \in BOOLEAN
        BY <1>1, <3>2, StacksOnDisk
      <4>4. UpTo(FilePieces(d, Globals, TRUE), index) = FlattenSeq(FilePieces(d, Globals, TRUE))
        BY <4>3, FilesDone
      <4>5. Done = DoneBefore(d, phase, index, dfs)
        BY <1>2, <2>2, <3>2, NoFileDone DEF Reading
      <4> QED  BY <3>2, <4>2, <4>4, <4>5, DoneBeforeIs
    <3> QED  BY <1>1, <3>1, <3>2
  <2>5. WalkDone(d, <<Call(Root)>>) = <<>>
    <3>1. Root \in Profiles /\ GetLines(d.parents[Root]) # NULL
      BY <1>4, <2>2, StacksOnDisk DEF Usable
    <3>2. PICK c \in CallFrames(d) : c = Call(Root) /\ CallDone(d)[c] = <<>>
      BY <3>1, CalledDone
    <3> QED  BY <3>2, WalkSingle
  <2>6. (DoneBefore(fs, phase, index, dfs))' = x \o <<>>
    <3>1. DoneBefore(d, phase', index', dfs') = Beginning(d) \o WalkDone(d, dfs')
      BY <2>1, DoneBeforeIs
    <3> QED  BY <2>1, <2>2, <2>3, <2>5, <3>1
  <2>7. (ReadDone(fs, reading))' = <<>>
    BY <1>2, <2>1, NothingRead
  <2>8. x \o <<>> = x /\ (x \o <<>>) \o <<>> = x
    BY ConcatEmptySeq
  <2>9. Done' = Done
    BY <2>4, <2>6, <2>7, <2>8 DEF Done, DoneAt
  <2>10. OnTheBook
    BY <1>1 DEF BookInv, Reading
  <2>11. OnTheBook'
    BY <1>1, <2>9, <2>10, NothingNew
  <2> QED  BY <2>11 DEF BookInv
<1> QED  BY <1>3, <1>4

\* A parent is entered: nothing has happened yet.
LEMMA EnterParentBook ==
    ASSUME SettingsInv, ErrorInv, BookInv, EnterParent
    PROVE  BookInv'
<1>1. /\ phase = "profile" /\ reading = <<>> /\ Caller.at = "parents" /\ UNCHANGED fs
      /\ Caller.next <= Len(GetLines(fs.parents[Caller.profile]))
  BY DEF EnterParent
<1>2. PICK p : p = GetLines(fs.parents[Caller.profile])[Caller.next]
  OBVIOUS
<1>3. p \in Profiles
  <2>1. PICK lines \in Seq(Profiles) : lines = GetLines(fs.parents[Caller.profile])
    BY <1>1, CallerIs
  <2>2. Caller.next \in 1..Len(lines)
    BY <1>1, <2>1, CallerIs
  <2> QED  BY <1>2, <2>1, <2>2, ElementOfSeq
<1>4. CASE ~Usable(p)
  <2>1. phase' = "failed"
    BY <1>2, <1>4 DEF EnterParent, Fail
  <2> QED  BY <2>1 DEF BookInv, Reading
<1>5. CASE Usable(p)
  <2>1. /\ dfs' = Append([dfs EXCEPT ![Len(dfs)].next = @ + 1], Call(p))
        /\ UNCHANGED <<incVars, phase, index, reading>>
    BY <1>2, <1>5 DEF EnterParent
  <2>2. PICK d \in FileSystems : d = fs /\ d = fs'
    BY <1>1, StacksOnDisk
  <2>3. PICK c \in CallFrames(d) : c = Caller /\ c = dfs[Len(dfs)] /\ c.at = "parents"
    <3>1. Caller \in CallFrames(d)
      BY <1>1, <2>2, CallerIs DEF CallFrames, Usable
    <3> QED  BY <1>1, <3>1, CallerIs
  <2>4. PICK next : next = [c EXCEPT !.next = @ + 1]
    OBVIOUS
  <2>5. next \in CallFrames(d) /\ CallWaits(d)[next] = CallDone(d)[c]
    BY <2>3, <2>4, CallGoesOn
  <2>6. PICK new \in CallFrames(d) : new = Call(p) /\ CallDone(d)[new] = <<>>
    BY <1>3, <1>5, <2>2, CalledDone DEF Usable
  <2>7. PICK st \in Seq(CallFrames(d)) : st = dfs /\ st # <<>>
    BY <1>1, <2>2, CallerIs, StacksOnDisk
  <2>8. dfs' = Append([st EXCEPT ![Len(st)] = next], new)
    BY <2>1, <2>3, <2>4, <2>6, <2>7
  <2>9. WalkDone(d, Append([st EXCEPT ![Len(st)] = next], new)) = WalkDone(d, st)
    <3>1. CallWaits(d)[next] = CallDone(d)[st[Len(st)]]
      BY <2>3, <2>5, <2>7
    <3> QED  BY <2>5, <2>6, <2>7, <3>1, WalkPushed
  <2>10. DoneBefore(d, phase', index', dfs') = DoneBefore(d, phase, index, dfs)
    <3>1. DoneBefore(d, phase', index', dfs') = Beginning(d) \o WalkDone(d, dfs')
      BY <1>1, <2>1, DoneBeforeIs
    <3>2. DoneBefore(d, phase, index, dfs) = Beginning(d) \o WalkDone(d, dfs)
      <4>1. phase = "profile"
        BY <1>1
      <4>2. DoneBefore(d, "profile", index, dfs) = Beginning(d) \o WalkDone(d, dfs)
        BY ProfileDone
      <4> QED  BY <4>1, <4>2
    <3> QED  BY <2>7, <2>8, <2>9, <3>1, <3>2
  <2>11. (DoneBefore(fs, phase, index, dfs))' = DoneBefore(fs, phase, index, dfs)
    BY <2>2, <2>10
  <2>12. Done' = Done
    BY <1>1, <2>1, <2>11 DEF Done, DoneAt
  <2>13. OnTheBook'
    BY <1>1, <2>1, <2>12, NothingNew DEF BookInv, Reading
  <2> QED  BY <2>13 DEF BookInv
<1> QED  BY <1>4, <1>5

-----------------------------------------------------------------------------
\* Something happens in a profile while no file is open.
LEMMA ProfileGrows ==
    ASSUME SettingsInv, phase = "profile", phase' = "profile", UNCHANGED fs,
           reading = <<>>, reading' = <<>>, NEW e \in Happenings(fs),
           WalkDone(fs, dfs') = WalkDone(fs, dfs) \o <<e>>
    PROVE  Done' = Done \o <<e>>
<1>1. PICK d \in FileSystems : d = fs /\ d = fs'
  BY StacksOnDisk
<1>2. PICK E : E = Happenings(d) /\ e \in E
  BY <1>1
<1>3. PICK b \in Seq(E) : b = Beginning(d)
  BY <1>2, BeginningIs
<1>4. PICK y \in Seq(E) : y = WalkDone(d, dfs)
  BY <1>1, <1>2, StacksOnDisk, WalkType
<1>5. Done = b \o y
  <2>1. Done = DoneBefore(d, phase, index, dfs)
    BY <1>1, NoFileDone DEF Reading
  <2>2. DoneBefore(d, "profile", index, dfs) = Beginning(d) \o WalkDone(d, dfs)
    BY ProfileDone
  <2> QED  BY <1>3, <1>4, <2>1, <2>2
<1>6. (DoneBefore(fs, phase, index, dfs))' = b \o (y \o <<e>>)
  <2>1. DoneBefore(d, "profile", index', dfs') = Beginning(d) \o WalkDone(d, dfs')
    BY ProfileDone
  <2>2. WalkDone(d, dfs') = y \o <<e>>
    BY <1>1, <1>4
  <2> QED  BY <1>1, <1>3, <2>1, <2>2
<1>7. (ReadDone(fs, reading))' = <<>>
  BY NothingRead
<1>8. b \o (y \o <<e>>) = (b \o y) \o <<e>>
  BY <1>2, SMTT(30)
<1>9. (b \o (y \o <<e>>)) \o <<>> = b \o (y \o <<e>>)
  <2>1. <<e>> \in Seq(E)
    BY <1>2
  <2>2. b \o (y \o <<e>>) \in Seq(E)
    BY <2>1, TextsJoin
  <2> QED  BY <2>2, ConcatEmptySeq
<1> QED  BY <1>5, <1>6, <1>7, <1>8, <1>9 DEF Done, DoneAt

\* The call of add_profile that runs, on its disk.
LEMMA CallRuns ==
    ASSUME SettingsInv, ErrorInv, phase = "profile"
    PROVE  /\ Caller \in CallFrames(fs) /\ Caller = dfs[Len(dfs)] /\ dfs # <<>>
           /\ Caller.profile \in Profiles
           /\ Masked(fs.mask[Caller.profile]) \in Happenings(fs)
           /\ Forced(fs.force[Caller.profile]) \in Happenings(fs)
<1>1. Caller \in CallFrames(fs)
  BY CallerIs DEF CallFrames, Usable
<1>2. Caller.profile \in Profiles
  BY CallerIs
<1>3. /\ Masked(fs.mask[Caller.profile]) \in Happenings(fs)
      /\ Forced(fs.force[Caller.profile]) \in Happenings(fs)
  BY <1>2 DEF Happenings
<1> QED  BY <1>1, <1>2, <1>3, CallerIs

\* ReadMask enters the flags of use.mask.
LEMMA ReadMaskBook ==
    ASSUME SettingsInv, ErrorInv, BookInv, ReadMask
    PROVE  BookInv'
<1>1. phase = "profile" /\ Caller.at = "mask" /\ UNCHANGED fs
  BY DEF ReadMask
<1>2. CASE fs.mask[Caller.profile] = Unreadable
  <2>1. phase' = "failed"
    BY <1>2 DEF ReadMask, Fail
  <2> QED  BY <2>1 DEF BookInv, Reading
<1>3. CASE fs.mask[Caller.profile] # Unreadable
  <2>1. ProcessMask(fs.mask[Caller.profile]) /\ MoveTo("force") /\ UNCHANGED <<phase, reading>>
    BY <1>3 DEF ReadMask
  <2>2. reading = <<>> /\ reading' = <<>>
    BY <1>1, <2>1, NoneOpen
  <2>3. PICK d \in FileSystems : d = fs /\ d = fs'
    BY <1>1, StacksOnDisk
  <2>4. PICK c \in CallFrames(d) : c = Caller /\ c = dfs[Len(dfs)] /\ c.at = "mask"
    BY <1>1, <2>3, CallRuns
  <2>5. PICK e \in Happenings(d) : e = Masked(d.mask[c.profile])
    BY <1>1, <2>3, <2>4, CallRuns
  <2>6. PICK next : next = [c EXCEPT !.at = "force"]
    OBVIOUS
  <2>7. next \in CallFrames(d) /\ CallDone(d)[next] = CallDone(d)[c] \o <<e>>
    BY <2>4, <2>5, <2>6, CallMoves
  <2>8. PICK st \in Seq(CallFrames(d)) : st = dfs /\ st # <<>>
    BY <1>1, <2>3, CallRuns, StacksOnDisk
  <2>9. dfs' = [st EXCEPT ![Len(st)] = next]
    BY <2>1, <2>4, <2>6, <2>8 DEF MoveTo
  <2>10. WalkDone(d, [st EXCEPT ![Len(st)] = next]) = WalkDone(d, st) \o <<e>>
    <3>1. CallDone(d)[next] = CallDone(d)[st[Len(st)]] \o <<e>> /\ <<e>> \in Seq(Happenings(d))
      BY <2>4, <2>7, <2>8
    <3> QED  BY <2>7, <2>8, <3>1, WalkReplaced
  <2>11. Done' = Done \o <<e>>
    <3>1. WalkDone(fs, dfs') = WalkDone(fs, dfs) \o <<e>> /\ e \in Happenings(fs)
      BY <2>3, <2>8, <2>9, <2>10
    <3> QED  BY <1>1, <2>1, <2>2, <3>1, ProfileGrows
  <2>12. PICK b : b = Book(Done)
    OBVIOUS
  <2>13. IsBook(Entered(b, e)) /\ Agrees(Entered(b, e))'
    <3>1. IsBook(b) /\ Agrees(b)
      BY <1>1, <2>12 DEF BookInv, Reading, OnTheBook
    <3>2. PICK v : v = d.mask[c.profile]
      OBVIOUS
    <3>3. ProcessMask(v) /\ e = Masked(v)
      BY <2>1, <2>3, <2>4, <2>5, <3>2
    <3> QED  BY <3>1, <3>3, MaskedAgrees
  <2>14. PICK E : E = Happenings(d) /\ Done \in Seq(E) /\ e \in E
    BY <1>1, <2>3, DoneType DEF Reading
  <2>15. OnTheBook'
    BY <2>11, <2>12, <2>13, <2>14, OneNew
  <2> QED  BY <2>15 DEF BookInv
<1> QED  BY <1>2, <1>3

\* A profile ends for the one whose parent it is.
LEMMA ParentEnds ==
    ASSUME SettingsInv, ErrorInv, Settled(fs), phase = "profile", Caller.at = "force",
           Len(dfs) > 1
    PROVE  WalkDone(fs, Front(dfs)) = WalkDone(fs, dfs) \o <<Forced(fs.force[Caller.profile])>>
<1>1. PICK d \in FileSystems : d = fs
  BY StacksOnDisk
<1>2. PICK st \in Seq(CallFrames(d)) : st = dfs /\ Len(st) > 1
  BY <1>1, StacksOnDisk
<1>3. PICK n \in Nat : n = Len(st) /\ n - 1 \in 1..n /\ n \in 1..n /\ n - 1 + 1 = n
                       /\ n - 1 \in 1..(n - 1)
  BY <1>2
<1>4. PICK c \in CallFrames(d) : c = Caller /\ c = st[n] /\ c.at = "force"
  BY <1>1, <1>2, <1>3, CallRuns
<1>5. PICK a \in CallFrames(d) : a = st[n - 1]
  <2>1. st[n - 1] \in CallFrames(d)
    BY <1>3, ElementOfSeq
  <2> QED  BY <2>1
<1>6. c \in CallRecords /\ <<a, c>> \in Above(d)
  <2>1. Chained(st, {x \in CallRecords : x.profile = Root}, Walker(d), Above(d))
    BY <1>1, <1>2 DEF ErrorInv, WalkInv
  <2>2. \A i \in 1..(n - 1) : <<st[i], st[i + 1]>> \in Above(d)
    BY <1>2, <1>3, <2>1, EmptySeq DEF Chained
  <2>3. <<st[n - 1], st[n - 1 + 1]>> \in Above(d)
    BY <1>3, <2>2
  <2> QED  BY <1>3, <1>4, <1>5, <2>3 DEF CallFrames
<1>7. CallDone(d)[a] = CallWaits(d)[a] \o Inherited(d)[c.profile]
  BY <1>6, CallReturns
<1>8. PICK e \in Happenings(d) : e = Forced(d.force[c.profile])
  BY <1>1, <1>4, CallRuns
<1>9. CallDone(d)[c] \o <<e>> = Inherited(d)[c.profile]
  <2>1. Len(GetLines(d.parents[c.profile])) < c.next
    <3>1. c \in Walker(d)
      BY <1>1, <1>4, CallerIs
    <3> QED  BY <1>4, <3>1 DEF Walker, MakeDefaultsDone
  <2> QED  BY <1>1, <1>4, <1>8, <2>1, CallEnds
<1>10. WalkDone(d, Front(st)) = WalkDone(d, st) \o <<e>>
  <2>1. CallDone(d)[st[Len(st) - 1]]
          = CallWaits(d)[st[Len(st) - 1]] \o (CallDone(d)[st[Len(st)]] \o <<e>>)
    BY <1>3, <1>4, <1>5, <1>7, <1>9
  <2>2. <<e>> \in Seq(Happenings(d))
    OBVIOUS
  <2> QED  BY <1>2, <2>1, <2>2, WalkPopped
<1> QED  BY <1>1, <1>2, <1>4, <1>8, <1>10

-----------------------------------------------------------------------------
\* The outermost profile ends: the load goes on to make.conf.
LEMMA RootEnds ==
    ASSUME SettingsInv, ErrorInv, Settled(fs), phase = "profile", Caller.at = "force",
           Len(dfs) = 1, phase' = "confs", UNCHANGED <<fs, index>>, reading = <<>>, reading' = <<>>
    PROVE  Done' = Done \o <<Forced(fs.force[Caller.profile])>>
<1>1. PICK d \in FileSystems : d = fs /\ d = fs'
  BY StacksOnDisk
<1>2. PICK c \in CallFrames(d) : c = Caller /\ c = dfs[1] /\ c.at = "force"
  BY <1>1, CallRuns
<1>3. dfs = <<c>>
  BY <1>2, StacksOnDisk
<1>4. c.profile = TopOf(d)
  <2>1. Chained(dfs, {x \in CallRecords : x.profile = Root}, Walker(d), Above(d)) /\ dfs # <<>>
    BY <1>1, CallRuns DEF ErrorInv, WalkInv
  <2> QED  BY <1>1, <1>2, <2>1, StacksOnDisk DEF Chained
<1>5. PICK E : E = Happenings(d)
  OBVIOUS
<1>6. PICK e \in E : e = Forced(d.force[c.profile])
  BY <1>1, <1>2, <1>5, CallRuns
<1>7. PICK y \in Seq(E) : y = CallDone(d)[c]
  BY <1>5, CallTypes
<1>8. y \o <<e>> = Inherited(d)[TopOf(d)]
  <2>1. Len(GetLines(d.parents[c.profile])) < c.next
    <3>1. c \in Walker(d)
      BY <1>1, <1>2, CallerIs
    <3> QED  BY <1>2, <3>1 DEF Walker, MakeDefaultsDone
  <2> QED  BY <1>1, <1>2, <1>4, <1>6, <1>7, <2>1, CallEnds
<1>9. PICK b \in Seq(E) : b = Beginning(d)
  BY <1>5, BeginningIs
<1>10. Done = b \o y
  <2>1. Done = DoneBefore(d, phase, index, dfs)
    BY <1>1, NoFileDone DEF Reading
  <2>2. DoneBefore(d, "profile", index, dfs) = Beginning(d) \o WalkDone(d, dfs)
    BY ProfileDone
  <2>3. WalkDone(d, <<c>>) = y
    BY <1>7, WalkSingle
  <2> QED  BY <1>3, <1>9, <2>1, <2>2, <2>3
<1>11. (DoneBefore(fs, phase, index, dfs))' = (b \o (y \o <<e>>)) \o <<>>
  <2>1. DoneBefore(d, phase', index', dfs')
          = Beginning(d) \o Inherited(d)[TopOf(d)] \o UpTo(FilePieces(d, Confs, FALSE), index')
    BY DoneBeforeIs
  <2>2. UpTo(FilePieces(d, Confs, FALSE), 1) = <<>>
    <3>1. Confs \in Seq(Files) /\ FALSE \in BOOLEAN
      BY StacksOnDisk
    <3> QED  BY <3>1, FilesDone
  <2>3. index' = 1
    BY DEF ErrorInv, PhaseInv
  <2> QED  BY <1>1, <1>8, <1>9, <2>1, <2>2, <2>3
<1>12. (ReadDone(fs, reading))' = <<>>
  BY NothingRead
<1>13. b \o (y \o <<e>>) = (b \o y) \o <<e>>
  BY <1>6, SMTT(30)
<1>14. /\ (b \o (y \o <<e>>)) \o <<>> = b \o (y \o <<e>>)
       /\ ((b \o (y \o <<e>>)) \o <<>>) \o <<>> = b \o (y \o <<e>>)
  <2>1. <<e>> \in Seq(E)
    BY <1>6
  <2>2. PICK z \in Seq(E) : z = b \o (y \o <<e>>)
    BY <2>1, TextsJoin
  <2>3. z \o <<>> = z /\ (z \o <<>>) \o <<>> = z
    BY ConcatEmptySeq
  <2> QED  BY <2>2, <2>3
<1> QED  BY <1>1, <1>2, <1>6, <1>10, <1>11, <1>12, <1>13, <1>14 DEF Done, DoneAt

\* ReadForce enters those of use.force; the profile has come to all of it.
LEMMA ReadForceBook ==
    ASSUME SettingsInv, ErrorInv, Settled(fs), BookInv, ReadForce
    PROVE  BookInv'
<1>1. phase = "profile" /\ Caller.at = "force" /\ UNCHANGED fs
  BY DEF ReadForce
<1>2. CASE fs.force[Caller.profile] = Unreadable
  <2>1. phase' = "failed"
    BY <1>2 DEF ReadForce, Fail
  <2> QED  BY <2>1 DEF BookInv, Reading
<1>3. CASE fs.force[Caller.profile] # Unreadable
  <2>1. /\ ProcessForce(fs.force[Caller.profile])
        /\ dfs' = Front(dfs) /\ phase' = IF Len(dfs) = 1 THEN "confs" ELSE "profile"
        /\ UNCHANGED <<index, reading>>
    BY <1>3 DEF ReadForce
  <2>2. reading = <<>> /\ reading' = <<>>
    BY <1>1, <2>1, NoneOpen
  <2>3. PICK e \in Happenings(fs) : e = Forced(fs.force[Caller.profile])
    BY <1>1, CallRuns
  <2>4. Done' = Done \o <<e>>
    <3>1. CASE Len(dfs) = 1
      BY <1>1, <2>1, <2>2, <2>3, <3>1, RootEnds
    <3>2. CASE Len(dfs) # 1
      <4>1. Len(dfs) > 1
        <5>1. PICK n \in Nat : n = Len(dfs) /\ n # 0
          <6>1. dfs \in Seq(CallFrames(fs)) /\ dfs # <<>>
            BY <1>1, StacksOnDisk, CallRuns
          <6> QED  BY <6>1, EmptySeq
        <5>2. n # 1
          BY <3>2, <5>1
        <5>3. n > 1
          BY <5>1, <5>2
        <5> QED  BY <5>1, <5>3
      <4>2. WalkDone(fs, dfs') = WalkDone(fs, dfs) \o <<e>>
        BY <1>1, <2>1, <2>3, <4>1, ParentEnds
      <4> QED  BY <1>1, <2>1, <2>2, <3>2, <4>2, ProfileGrows
    <3> QED  BY <3>1, <3>2
  <2>5. PICK b : b = Book(Done)
    OBVIOUS
  <2>6. IsBook(Entered(b, e)) /\ Agrees(Entered(b, e))'
    <3>1. IsBook(b) /\ Agrees(b)
      BY <1>1, <2>5 DEF BookInv, Reading, OnTheBook
    <3>2. PICK v : v = fs.force[Caller.profile]
      OBVIOUS
    <3>3. ProcessForce(v) /\ e = Forced(v)
      BY <2>1, <2>3, <3>2
    <3> QED  BY <3>1, <3>3, ForcedAgrees
  <2>7. PICK E : E = Happenings(fs) /\ Done \in Seq(E) /\ e \in E
    BY <1>1, DoneType DEF Reading
  <2>8. OnTheBook'
    BY <2>4, <2>5, <2>6, <2>7, OneNew
  <2> QED  BY <2>8 DEF BookInv
<1> QED  BY <1>2, <1>3
-----------------------------------------------------------------------------
\* What the end of the load makes of the book.
PlainByTheBook ==
    \A k \in PlainVars \cup {Chost} : config[k] = Book(Schedule(fs)).text[k]

DerivedByTheBook ==
    LET text == Book(Schedule(fs)).text
    IN /\ config[Portdir] = IF text[Portdir] = NULL THEN Portage ELSE text[Portdir]
       /\ config[Cbuild] = IF text[Cbuild] = NULL THEN text[Chost] ELSE text[Cbuild]
       /\ config[RootDir] = ConfigRootDir
       /\ config[ConfigRoot] = ConfigRootDir

UseEnds ==
    LET b == Book(Schedule(fs)) IN ~b.late => incrementals[Use] = UseByTheBook(b)

PlainEnds ==
    LET text == Book(Schedule(fs)).text
    IN /\ config[Portdir] = RealPath(IF text[Portdir] = NULL THEN Portage ELSE text[Portdir])
       /\ config[Cbuild] = IF text[Cbuild] = NULL THEN text[Chost] ELSE text[Cbuild]
       /\ config[RootDir] = ConfigRootDir
       /\ config[ConfigRoot] = ConfigRootDir

EndInv ==
    /\ AfterFinish => UseEnds
    /\ phase = "finished" => PlainByTheBook
    /\ phase = "mainRepo" => DerivedByTheBook
    /\ phase = "ready" => PlainEnds

\* Everything is read before the final pass.
LEMMA AllDone ==
    ASSUME SettingsInv, phase = "confs", reading = <<>>, index > Len(Confs)
    PROVE  Done = Schedule(fs)
<1>1. PICK d \in FileSystems : d = fs
  BY StacksOnDisk
<1>2. Done = DoneBefore(d, phase, index, dfs)
  BY <1>1, NoFileDone DEF Reading
<1>3. DoneBefore(d, phase, index, dfs)
        = Beginning(d) \o Inherited(d)[TopOf(d)] \o UpTo(FilePieces(d, Confs, FALSE), index)
  BY DoneBeforeIs
<1>4. UpTo(FilePieces(d, Confs, FALSE), index) = FlattenSeq(FilePieces(d, Confs, FALSE))
  <2>1. Confs \in Seq(Files) /\ FALSE \in BOOLEAN /\ index \in Nat
    BY StacksOnDisk
  <2> QED  BY <2>1, FilesDone
<1>5. Schedule(d) = Beginning(d) \o Inherited(d)[TopOf(d)]
                      \o FlattenSeq(FilePieces(d, Confs, FALSE))
  BY ScheduleIs
<1> QED  BY <1>1, <1>2, <1>3, <1>4, <1>5

\* The final pass: USE is what the book says.
LEMMA FinishBook ==
    ASSUME SettingsInv, BookInv, Finish
    PROVE  BookInv' /\ EndInv'
<1>1. /\ phase = "confs" /\ reading = <<>> /\ index > Len(Confs) /\ ConfigFinished
      /\ phase' = "finished" /\ UNCHANGED fs
  BY DEF Finish
<1>2. PICK b : b = Book(Schedule(fs)) /\ b = Book(Schedule(fs))'
  BY <1>1
<1>3. Agrees(b)
  BY <1>1, <1>2, AllDone DEF BookInv, Reading, OnTheBook
<1>4. ~b.late => incrementals'[Use] = UseByTheBook(b)
  BY <1>1, <1>3, FinalUseByTheBook DEF SettingsInv
<1>5. UseEnds'
  BY <1>2, <1>4 DEF UseEnds
<1>6. ASSUME NEW k \in PlainVars \cup {Chost}
      PROVE  config'[k] = b.text[k]
  <2>1. FinalValue(k) = config[k] /\ k \in Vars
    BY PlainUntouched DEF SettingsInv
  <2>2. config'[k] = FinalValue(k)
    BY <1>1, <2>1 DEF ConfigFinished
  <2> QED  BY <1>3, <2>1, <2>2 DEF Agrees
<1>7. PlainByTheBook'
  BY <1>2, <1>6 DEF PlainByTheBook
<1>8. BookInv'
  BY <1>1 DEF BookInv, Reading
<1> QED  BY <1>1, <1>5, <1>7, <1>8 DEF EndInv

\* WritePlain: the derived values.
LEMMA WritePlainBook ==
    ASSUME EndInv, WritePlain
    PROVE  BookInv' /\ EndInv'
<1>1. PICK new : new = [k \in PlainVars |->
          CASE k \in {ConfigRoot, RootDir} -> ConfigRootDir
            [] k = Cbuild /\ config[k] = NULL -> config[Chost]
            [] k = Portdir /\ config[k] = NULL -> Portage
            [] OTHER -> config[k]]
  OBVIOUS
<1>2. /\ phase = "finished" /\ phase' = "mainRepo" /\ Override(new) /\ UNCHANGED fs
  BY <1>1 DEF WritePlain
<1>3. PICK b : b = Book(Schedule(fs)) /\ b = Book(Schedule(fs))'
  BY <1>2
<1>4. UseEnds'
  <2>1. ~b.late => incrementals[Use] = UseByTheBook(b)
    BY <1>2, <1>3 DEF EndInv, AfterFinish, UseEnds
  <2>2. incrementals' = incrementals
    BY <1>2 DEF Override
  <2> QED  BY <1>3, <2>1, <2>2 DEF UseEnds
<1>5. {Portdir, Cbuild, RootDir, ConfigRoot} \subseteq PlainVars /\ PlainVars \subseteq Vars
  BY PlainAssumption, NamesAssumption
<1>6. \A k \in PlainVars : config'[k] = new[k]
  BY <1>2, <1>5 DEF Override
<1>7. \A k \in PlainVars \cup {Chost} : config[k] = b.text[k]
  BY <1>2, <1>3 DEF EndInv, PlainByTheBook
<1>8. new[RootDir] = ConfigRootDir /\ new[ConfigRoot] = ConfigRootDir
  <2>1. \A k \in {ConfigRoot, RootDir} : k # Portdir /\ k # Cbuild
    BY PlainAssumption
  <2> QED  BY <1>1, <1>5, <2>1
<1>9. new[Portdir] = IF b.text[Portdir] = NULL THEN Portage ELSE b.text[Portdir]
  <2>1. Portdir \notin {ConfigRoot, RootDir, Cbuild}
    BY PlainAssumption
  <2>2. new[Portdir] = IF config[Portdir] = NULL THEN Portage ELSE config[Portdir]
    BY <1>1, <1>5, <2>1
  <2> QED  BY <1>5, <1>7, <2>2
<1>10. new[Cbuild] = IF b.text[Cbuild] = NULL THEN b.text[Chost] ELSE b.text[Cbuild]
  <2>1. Cbuild \notin {ConfigRoot, RootDir, Portdir}
    BY PlainAssumption
  <2>2. new[Cbuild] = IF config[Cbuild] = NULL THEN config[Chost] ELSE config[Cbuild]
    BY <1>1, <1>5, <2>1
  <2> QED  BY <1>5, <1>7, <2>2
<1>11. DerivedByTheBook'
  BY <1>3, <1>5, <1>6, <1>8, <1>9, <1>10 DEF DerivedByTheBook
<1> QED  BY <1>2, <1>4, <1>11 DEF EndInv, BookInv, Reading

\* InitMainRepo: PORTDIR becomes canonical.
LEMMA InitMainRepoBook ==
    ASSUME EndInv, InitMainRepo
    PROVE  BookInv' /\ EndInv'
<1>1. phase = "mainRepo" /\ UNCHANGED fs
  BY DEF InitMainRepo
<1>2. CASE ~fs.portdirOk
  <2>1. phase' = "failed"
    BY <1>2 DEF InitMainRepo, Fail
  <2> QED  BY <2>1 DEF BookInv, EndInv, AfterFinish, Reading
<1>3. CASE fs.portdirOk
  <2>1. PICK new : new = [k \in PlainVars |->
                            IF k = Portdir THEN RealPath(config[k]) ELSE config[k]]
    OBVIOUS
  <2>2. Override(new) /\ phase' = "ready"
    BY <1>3, <2>1 DEF InitMainRepo
  <2>3. PICK b : b = Book(Schedule(fs)) /\ b = Book(Schedule(fs))'
    BY <1>1
  <2>4. UseEnds'
    <3>1. ~b.late => incrementals[Use] = UseByTheBook(b)
      BY <1>1, <2>3 DEF EndInv, AfterFinish, UseEnds
    <3>2. incrementals' = incrementals
      BY <2>2 DEF Override
    <3> QED  BY <2>3, <3>1, <3>2 DEF UseEnds
  <2>5. {Portdir, Cbuild, RootDir, ConfigRoot} \subseteq PlainVars /\ PlainVars \subseteq Vars
        /\ Portdir \notin {Cbuild, RootDir, ConfigRoot}
    BY PlainAssumption, NamesAssumption
  <2>6. \A k \in PlainVars : config'[k] = IF k = Portdir THEN RealPath(config[k]) ELSE config[k]
    BY <2>1, <2>2, <2>5 DEF Override
  <2>7. /\ config[Portdir] = IF b.text[Portdir] = NULL THEN Portage ELSE b.text[Portdir]
        /\ config[Cbuild] = IF b.text[Cbuild] = NULL THEN b.text[Chost] ELSE b.text[Cbuild]
        /\ config[RootDir] = ConfigRootDir
        /\ config[ConfigRoot] = ConfigRootDir
    BY <1>1, <2>3 DEF EndInv, DerivedByTheBook
  <2>8. PICK p : p = (IF b.text[Portdir] = NULL THEN Portage ELSE b.text[Portdir])
    OBVIOUS
  <2>9. /\ config'[Portdir] = RealPath(p)
        /\ config'[Cbuild] = config[Cbuild] /\ config'[RootDir] = config[RootDir]
        /\ config'[ConfigRoot] = config[ConfigRoot]
    <3>1. config[Portdir] = p
      BY <2>7, <2>8
    <3> QED  BY <2>5, <2>6, <3>1
  <2>10. PlainEnds'
    BY <2>3, <2>7, <2>8, <2>9 DEF PlainEnds
  <2> QED  BY <2>2, <2>4, <2>10 DEF EndInv, BookInv, Reading
<1> QED  BY <1>2, <1>3

-----------------------------------------------------------------------------
\* What a whole load has done is on the book, and its end what the book says.
LoadBookInv == Settled(fs) => BookInv /\ EndInv

\* Nothing has been read and nothing is said of the end.
LEMMA LoadBookInit == Init => LoadBookInv
<1> SUFFICES ASSUME Init PROVE LoadBookInv
  OBVIOUS
<1>1. BookInv
  BY BookInit
<1>2. phase = "start"
  BY DEF Init
<1> QED  BY <1>1, <1>2 DEF LoadBookInv, EndInv, AfterFinish

\* While files are read, and after an error, nothing is said of the end.
LEMMA ReadingSteps ==
    ASSUME SettingsInv,
           \/ Start \/ InsertDefaults \/ EnterProfile
           \/ LoadGlobal \/ LoadConf \/ LoadMakeDefaults
           \/ RunAssignment \/ RunSource \/ EndFile
           \/ EnterParent \/ ReadMask \/ ReadForce
    PROVE  EndInv'
<1>1. reading # <<>> => phase \in Reading
  BY DEF SettingsInv, ControlInv
<1>2. phase' \notin {"finished", "mainRepo", "ready"}
  <2>1. CASE Start
    BY <2>1 DEF Start, Fail
  <2>2. CASE InsertDefaults
    BY <2>2 DEF InsertDefaults
  <2>3. CASE EnterProfile
    BY <2>3 DEF EnterProfile, EnterRoot, Fail
  <2>4. CASE LoadGlobal
    BY <2>4 DEF LoadGlobal, Load
  <2>5. CASE LoadConf
    BY <2>5 DEF LoadConf, Load
  <2>6. CASE LoadMakeDefaults
    BY <2>6 DEF LoadMakeDefaults, Load
  <2>7. CASE RunAssignment
    BY <1>1, <2>7 DEF RunAssignment, AtStatement, Reading
  <2>8. CASE RunSource
    BY <1>1, <2>8 DEF RunSource, AtStatement, Reading, Fail
  <2>9. CASE EndFile
    BY <1>1, <2>9 DEF EndFile, Reading, Fail
  <2>10. CASE EnterParent
    BY <2>10 DEF EnterParent, Fail
  <2>11. CASE ReadMask
    BY <2>11 DEF ReadMask, Fail
  <2>12. CASE ReadForce
    BY <2>12 DEF ReadForce, Fail
  <2> QED  BY <2>1, <2>2, <2>3, <2>4, <2>5, <2>6, <2>7, <2>8, <2>9, <2>10, <2>11, <2>12
<1> QED  BY <1>2 DEF EndInv, AfterFinish

\* Every step of the load is one on the book.
LEMMA LoadBookStep == SettingsInv /\ ErrorInv /\ LoadBookInv /\ [Next]_vars => LoadBookInv'
<1> SUFFICES ASSUME SettingsInv, ErrorInv, LoadBookInv, [Next]_vars, Settled(fs)'
             PROVE  BookInv' /\ EndInv'
  BY DEF LoadBookInv
<1>1. CASE UNCHANGED vars
  <2>1. UNCHANGED <<fs, phase, index, dfs, reading>> /\ UNCHANGED incVars
    BY <1>1 DEF vars, control
  <2>2. BookInv /\ EndInv
    BY <2>1 DEF LoadBookInv
  <2>3. BookInv'
    <3>1. Done' = Done
      BY <2>1 DEF Done
    <3> QED  BY <2>1, <2>2, <3>1, NothingNew DEF BookInv
  <2>4. config' = config /\ incrementals' = incrementals
    BY <2>1 DEF incVars
  <2>5. Book(Schedule(fs))' = Book(Schedule(fs))
    BY <2>1
  <2>6. (AfterFinish => UseEnds)' /\ (phase = "ready" => PlainEnds)'
    BY <2>1, <2>2, <2>4, <2>5 DEF EndInv, AfterFinish, UseEnds, PlainEnds
  <2>7. (phase = "finished" => PlainByTheBook)' /\ (phase = "mainRepo" => DerivedByTheBook)'
    BY <2>1, <2>2, <2>4, <2>5 DEF EndInv, PlainByTheBook, DerivedByTheBook
  <2> QED  BY <2>3, <2>6, <2>7 DEF EndInv
<1>2. CASE Step
  <2>1. UNCHANGED fs
    BY <1>2 DEF Step, Start, InsertDefaults, EnterProfile, LoadGlobal, LoadConf, LoadMakeDefaults,
       Load, RunAssignment, RunSource, EndFile, EnterParent, ReadMask, ReadForce, Finish,
       WritePlain, InitMainRepo
  <2>2. Settled(fs)
    BY <2>1
  <2>3. BookInv /\ EndInv
    BY <2>2 DEF LoadBookInv
  <2>4. ASSUME RunAssignment PROVE BookInv'
    <3>1. phase \in Reading /\ phase' = phase
      BY <2>4 DEF SettingsInv, ControlInv, RunAssignment, AtStatement
    <3>2. OnTheBook'
      BY <2>3, <2>4, <3>1, RunAssignmentBook DEF BookInv
    <3> QED  BY <3>2 DEF BookInv
  <2>5. CASE \/ Start \/ InsertDefaults \/ EnterProfile
             \/ LoadGlobal \/ LoadConf \/ LoadMakeDefaults
             \/ RunAssignment \/ RunSource \/ EndFile
             \/ EnterParent \/ ReadMask \/ ReadForce
    <3>1. EndInv'
      BY <2>5, ReadingSteps
    <3>2. BookInv'
      BY <2>2, <2>3, <2>4, <2>5, StartBook, InsertDefaultsBook, EnterProfileBook, LoadGlobalBook,
         LoadConfBook, LoadMakeDefaultsBook, RunSourceBook, EndFileBook, EnterParentBook,
         ReadMaskBook, ReadForceBook
    <3> QED  BY <3>1, <3>2
  <2>6. CASE Finish \/ WritePlain \/ InitMainRepo
    BY <2>3, <2>6, FinishBook, WritePlainBook, InitMainRepoBook
  <2> QED  BY <1>2, <2>5, <2>6 DEF Step
<1> QED  BY <1>1, <1>2 DEF Next, Returned

\* The whole load is on the book, and ends as it says.
LEMMA LoadIsOnTheBook == Spec => []LoadBookInv
<1>1. SettingsInv /\ [Next]_vars => SettingsInv'
  BY SettingsStep DEF StepOK
<1> QED  BY SettingsInit, ErrorInit, ErrorStep, LoadBookInit, LoadBookStep, <1>1, PTL DEF Spec

\* The USE of the settings is what the files say when they are read in their
\* order, whatever the disk, however deep the profiles and the files that read
\* each other are.
THEOREM FilesMakeUse == Spec => []UseIsByTheBook
<1>1. LoadBookInv => UseIsByTheBook
  BY DEF LoadBookInv, EndInv, UseEnds, UseIsByTheBook
<1> QED  BY LoadIsOnTheBook, <1>1, PTL

\* A variable that does not stack ends with the text of the last file that
\* assigns it, or with the value that cp_settings_new derives.
THEOREM LastAssignmentWins == Spec => []PlainLastWins
<1>1. LoadBookInv => PlainLastWins
  BY DEF LoadBookInv, EndInv, PlainEnds, PlainLastWins
<1> QED  BY LoadIsOnTheBook, <1>1, PTL
=============================================================================
