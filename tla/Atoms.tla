------------------------------- MODULE Atoms -------------------------------
(***************************************************************************)
(* The atom factory (atom_parser.y): a table per EAPI that remembers for   *)
(* every text the atom it was parsed to or the error, and the counts of    *)
(* the factory and of the atoms, which the client releases in any order.   *)
(*                                                                         *)
(* A text is parsed once per EAPI, so the pair of both names the atom.     *)
(***************************************************************************)
EXTENDS Eapi, RefCounts

CONSTANTS
    Eapis,      \* the supported EAPIs that clients ask for
    Texts,
    Factory,    \* the factory, as an object that is counted
    Parts,      \* Parts[t]: what the text t has
    MaxHeld     \* bound: references to one object the client holds at a time

\* Junk stands inside the atom, what is trailing after its end.
PartNames == {"slot", "use", "junk", "trailing"}

ASSUME AtomsAssumption ==
    /\ Eapis \subseteq 0..LatestEapi
    /\ Parts \in [Texts -> SUBSET PartNames]
    /\ Factory \notin Eapis \X Texts

Keys == Eapis \X Texts
Objects == {Factory} \cup Keys

VARIABLES
    memory,     \* counts of the factory and of the atoms
    cache,      \* self->cache: [key -> CPAtomFactoryEntry]
    held,       \* references to each object that the client has to release
    answer      \* what the last cp_atom_new was asked and returned

vars == <<memory, cache, held, answer>>

NoAnswer == [eapi |-> UnknownEapi, error |-> TRUE]

\* cp_atom_factory_new.
Init ==
    /\ memory = [refs |-> [o \in Objects |-> IF o = Factory THEN 1 ELSE 0],
                 freed |-> {}, fault |-> "none"]
    /\ cache = <<>>
    /\ held = [o \in Objects |-> IF o = Factory THEN 1 ELSE 0]
    /\ answer = NoAnswer

Alive == memory.fault = "none"
Take(o) == held[o] < MaxHeld /\ held' = [held EXCEPT ![o] = @ + 1]
Give(o) == held[o] > 0 /\ held' = [held EXCEPT ![o] = @ - 1]

-----------------------------------------------------------------------------
\* The rules of atom and atom_slot_repo have all been reduced; what is built on
\* the way to a failure is released by %destructor or before YYABORT.
Built(eapi, t) ==
    /\ "junk" \notin Parts[t]
    /\ "slot" \in Parts[t] => HasSlotDeps(eapi)
    /\ "use" \in Parts[t] => HasUseDeps(eapi)

\* Parse with a bug: it fails on an incomplete atom only if that has an end.
ParseForgetsJunk(eapi, t) ==
    [error |-> "trailing" \in Parts[t], atom |-> Built(eapi, t)]

\* doparse: an atom that is followed by something else is left in ctx->atom by
\* a parse that fails.
Parse(eapi, t) ==
    [error |-> ~Built(eapi, t) \/ "trailing" \in Parts[t], atom |-> Built(eapi, t)]

\* Key with a bug: one table for all EAPIs.
KeyWithoutEapi(eapi, t) == <<CHOOSE e \in Eapis : TRUE, t>>

\* Where the entry of a text is: the table of the EAPI.
Key(eapi, t) == <<eapi, t>>

Known(k) == k \in DOMAIN cache
Remember(k, entry) ==
    cache' = [j \in DOMAIN cache \cup {k} |-> IF j = k THEN entry ELSE cache[j]]

\* Created with a bug: the entry is left without a reference of its own.
CreatedForClient(k, entry) ==
    IF entry.atom /\ ~Known(k) THEN [memory EXCEPT !.refs[k] = 0] ELSE memory

\* The memory after the entry of k is there: a new atom has one reference,
\* which is the entry's.
Created(k, entry) ==
    IF entry.atom /\ ~Known(k) THEN [memory EXCEPT !.refs[k] = 1] ELSE memory

\* AtomNew with a bug: what the entry owns is lent.
AtomNewLends(eapi, t) ==
    /\ Alive
    /\ held[Factory] > 0
    /\ EapiCheck(eapi)
    /\ LET k == Key(eapi, t)
           entry == IF Known(k) THEN cache[k] ELSE Parse(eapi, t)
       IN /\ Remember(k, entry)
          /\ answer' = [eapi |-> eapi, text |-> t, error |-> entry.error]
          /\ memory' = Created(k, entry)
          /\ IF entry.error THEN UNCHANGED held ELSE Take(k)

\* cp_atom_new with an EAPI that is supported: it parses what it does not know;
\* the error of an entry is copied,
\* its atom gets a reference more.
AtomNew(eapi, t) ==
    /\ Alive
    /\ held[Factory] > 0
    /\ EapiCheck(eapi)
    /\ LET k == Key(eapi, t)
           entry == IF Known(k) THEN cache[k] ELSE Parse(eapi, t)
       IN /\ Remember(k, entry)
          /\ answer' = [eapi |-> eapi, text |-> t, error |-> entry.error]
          /\ \/ /\ entry.error
                /\ memory' = Created(k, entry)
                /\ UNCHANGED held
             \/ /\ ~entry.error
                /\ memory' = Ref(Created(k, entry), k)
                /\ Take(k)

AtomNewUnknown(eapi) ==
    /\ Alive
    /\ held[Factory] > 0
    /\ ~EapiCheck(eapi)
    /\ answer' = NoAnswer
    /\ UNCHANGED <<memory, cache, held>>

RefHandle(o) ==
    /\ Alive
    /\ held[o] > 0
    /\ Take(o)
    /\ memory' = Ref(memory, o)
    /\ UNCHANGED <<cache, answer>>

AtomUnref(k) ==
    /\ Alive
    /\ Give(k)
    /\ memory' = Unref(memory, k)
    /\ UNCHANGED <<cache, answer>>

\* EntryAtoms with a bug: an entry with an error is taken to have no atom.
EntryAtomsWithoutError == {k \in DOMAIN cache : cache[k].atom /\ ~cache[k].error}

\* What free_entry releases.
EntryAtoms == {k \in DOMAIN cache : cache[k].atom}

FactoryUnref ==
    /\ Alive
    /\ Give(Factory)
    /\ IF memory.refs[Factory] > 1
       THEN memory' = Unref(memory, Factory) /\ UNCHANGED cache
       ELSE memory' = UnrefAll(Unref(memory, Factory), EntryAtoms) /\ cache' = <<>>
    /\ UNCHANGED answer

Next ==
    \/ \E eapi \in Eapis \cup {UnknownEapi}, t \in Texts : AtomNew(eapi, t)
    \/ \E eapi \in Eapis \cup {UnknownEapi} : AtomNewUnknown(eapi)
    \/ \E o \in Objects : RefHandle(o)
    \/ \E k \in Keys : AtomUnref(k)
    \/ FactoryUnref

Spec == Init /\ [][Next]_vars

-----------------------------------------------------------------------------
Entry == [error : BOOLEAN, atom : BOOLEAN]

\* An entry without an error has an atom, which the end of cp_atom_new takes
\* for granted (atom_parser.y:950).
AtomsTypeOK ==
    /\ DOMAIN memory.refs = Objects /\ \A o \in Objects : memory.refs[o] \in Nat
    /\ memory.freed \subseteq Objects
    /\ DOMAIN cache \subseteq Keys
    /\ \A k \in DOMAIN cache : cache[k] \in Entry /\ (cache[k].error \/ cache[k].atom)
    /\ \A o \in Objects : held[o] \in Nat

\* A client that releases what it was given, and no more, never reads freed
\* memory and never fails the assertion refs > 0, though a text it asks for again
\* may be remembered or not (atom_parser.y:733-763, 866-951).
AtomClientIsSafe == Alive

\* An atom that the client holds outlives the factory that made it
\* (cportage.h:498-503).
AtomsOutliveFactory == \A o \in Objects : held[o] > 0 => o \notin memory.freed

\* When everything is released no atom is left, that of a text which was
\* rejected after the atom in it had been built included (atom_parser.y:850-860).
AtomsDoNotLeak ==
    Alive /\ (\A o \in Objects : held[o] = 0) =>
        \A o \in Objects : memory.refs[o] = 0

\* Whatever was asked before, and for whatever EAPI: a text is accepted if and
\* only if it is an atom of the EAPI it is asked for, that is, the table
\* remembers neither an atom nor an error for another EAPI (eapi.c:109-130,
\* atom_parser.y:266-292, 927-951).
AnswersFollowEapi ==
    answer # NoAnswer =>
        LET parts == Parts[answer.text] IN
        ~answer.error <=>
            /\ parts \cap {"junk", "trailing"} = {}
            /\ "slot" \in parts => answer.eapi # 0
            /\ "use" \in parts => answer.eapi \notin {0, 1}
=============================================================================
