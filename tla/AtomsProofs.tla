---------------------------- MODULE AtomsProofs ----------------------------
(***************************************************************************)
(* Proofs about Atoms, for all texts and EAPIs and any number of           *)
(* references: an atom's count is the entry of the cache plus the client,  *)
(* and what the cache holds is what the parser makes of its key.           *)
(***************************************************************************)
EXTENDS Atoms, RefCountsProofs

\* The reference an object has from the cache.
Owned(o) == IF o \in DOMAIN cache /\ cache[o].atom THEN 1 ELSE 0

TypeInv == /\ memory \in Memories(Objects)
           /\ held \in [Objects -> Nat]
           /\ DOMAIN cache \subseteq Keys

CacheIsParsed ==
    \A e \in Eapis, t \in Texts :
        <<e, t>> \in DOMAIN cache => cache[<<e, t>>] = Parse(e, t)

CountsAddUp ==
    \A o \in Objects : /\ memory.refs[o] = held[o] + Owned(o)
                       /\ o \in memory.freed => memory.refs[o] = 0

\* While there is a factory, its cache has every atom that was ever made.
FactoryOwns ==
    /\ held[Factory] > 0 =>
          \A k \in Keys : held[k] > 0 \/ k \in memory.freed => Owned(k) = 1
    /\ held[Factory] = 0 => DOMAIN cache = {}

AnswerIsParsed ==
    answer = NoAnswer \/
        \E e \in Eapis, t \in Texts :
            answer = [eapi |-> e, text |-> t, error |-> Parse(e, t).error]

AtomInv == /\ TypeInv /\ CacheIsParsed /\ Alive
           /\ CountsAddUp /\ FactoryOwns /\ AnswerIsParsed

\* What the parser returns is an entry; without an error it has an atom.
LEMMA ParseIsEntry ==
    ASSUME NEW e, NEW t
    PROVE  /\ Parse(e, t) \in Entry
           /\ Parse(e, t).error \/ Parse(e, t).atom
BY DEF Parse, Entry, Built

\* The factory is not among the keys.
LEMMA FactoryIsNoKey == Factory \in Objects /\ Factory \notin Keys /\ Keys \subseteq Objects
BY AtomsAssumption DEF Objects, Keys

\* cp_atom_factory_new.
LEMMA InitHolds == Init => AtomInv
<1> SUFFICES ASSUME Init PROVE AtomInv
  OBVIOUS
<1>1. DOMAIN cache = {}
  BY DEF Init
<1>2. TypeInv
  <2> DEFINE r == [o \in Objects |-> IF o = Factory THEN 1 ELSE 0]
  <2>1. r \in [Objects -> Nat]
    OBVIOUS
  <2>2. memory = [refs |-> r, freed |-> {}, fault |-> "none"]
    BY DEF Init
  <2> HIDE DEF r
  <2>3. memory \in Memories(Objects)
    BY <2>1, <2>2 DEF Memories
  <2> QED  BY <1>1, <2>3 DEF Init, TypeInv
<1>3. CountsAddUp /\ Alive
  BY <1>1 DEF Init, CountsAddUp, Owned, Alive
<1>4. FactoryOwns
  BY <1>1, FactoryIsNoKey DEF Init, FactoryOwns
<1> QED  BY <1>1, <1>2, <1>3, <1>4 DEF Init, AtomInv, CacheIsParsed, AnswerIsParsed

\* The entry of a text is there: cache and counts agree on it, before the client
\* gets its reference.
LEMMA CreatedKeeps ==
    ASSUME AtomInv, NEW e \in Eapis, NEW t \in Texts, NEW entry,
           held[Factory] > 0,
           entry = IF Known(<<e, t>>) THEN cache[<<e, t>>] ELSE Parse(e, t),
           Remember(<<e, t>>, entry)
    PROVE  /\ entry = Parse(e, t)
           /\ DOMAIN cache' \subseteq Keys
           /\ CacheIsParsed'
           /\ Created(<<e, t>>, entry) \in Memories(Objects)
           /\ Created(<<e, t>>, entry).fault = "none"
           /\ Created(<<e, t>>, entry).freed = memory.freed
           /\ \A o \in Objects :
                 /\ Created(<<e, t>>, entry).refs[o] = held[o] + Owned(o)'
                 /\ o \in memory.freed => Created(<<e, t>>, entry).refs[o] = 0
           /\ \A k \in Keys : Owned(k) = 1 => Owned(k)' = 1
           /\ entry.atom => Owned(<<e, t>>)' = 1
<1> DEFINE k == <<e, t>>
           m == Created(k, entry)
<1>1. k \in Keys /\ k \in Objects /\ k # Factory
  BY FactoryIsNoKey DEF Keys
<1>2. entry = Parse(e, t)
  BY DEF AtomInv, CacheIsParsed, Known
<1>3. /\ DOMAIN cache' = DOMAIN cache \cup {k}
      /\ \A j \in DOMAIN cache' : cache'[j] = IF j = k THEN entry ELSE cache[j]
  BY DEF Remember
<1>4. DOMAIN cache' \subseteq Keys
  BY <1>1, <1>3 DEF AtomInv, TypeInv
<1>5. CacheIsParsed'
  <2> SUFFICES ASSUME NEW a \in Eapis, NEW u \in Texts, <<a, u>> \in DOMAIN cache'
               PROVE  cache'[<<a, u>>] = Parse(a, u)
    BY DEF CacheIsParsed, Parse, Built
  <2>1. CASE <<a, u>> = k
    BY <1>2, <1>3, <2>1
  <2>2. CASE <<a, u>> # k
    BY <1>3, <2>2 DEF AtomInv, CacheIsParsed
  <2> QED  BY <2>1, <2>2
<1>6. entry.atom \in BOOLEAN
  BY <1>2, ParseIsEntry DEF Entry
<1>7. \A o \in Objects : o # k => Owned(o)' = Owned(o)
  BY <1>3 DEF Owned
<1>8. Owned(k)' = IF entry.atom THEN 1 ELSE 0
  BY <1>3 DEF Owned
<1>9. memory \in Memories(Objects) /\ memory.fault = "none"
      /\ memory.refs \in [Objects -> Nat] /\ held \in [Objects -> Nat]
  BY DEF AtomInv, TypeInv, Alive, Memories
<1>10. \A o \in Objects : /\ memory.refs[o] = held[o] + Owned(o)
                          /\ o \in memory.freed => memory.refs[o] = 0
  BY DEF AtomInv, CountsAddUp
<1>11. CASE Known(k)
  <2>1. m = memory
    BY <1>11 DEF Created
  <2>2. Owned(k)' = Owned(k)
    BY <1>8, <1>11 DEF Owned, Known
  <2>3. \A o \in Objects : Owned(o)' = Owned(o)
    BY <1>7, <2>2
  <2>4. \A j \in Keys : Owned(j)' = Owned(j)
    BY <2>3, FactoryIsNoKey
  <2> HIDE DEF m
  <2>5. \A o \in Objects : /\ m.refs[o] = held[o] + Owned(o)'
                           /\ o \in memory.freed => m.refs[o] = 0
    BY <1>10, <2>1, <2>3
  <2> QED  BY <1>2, <1>4, <1>5, <1>6, <1>8, <1>9, <2>1, <2>4, <2>5 DEF m
<1>12. CASE ~Known(k)
  <2>1. Owned(k) = 0
    BY <1>12 DEF Owned, Known
  <2>2. held[k] = 0 /\ k \notin memory.freed /\ memory.refs[k] = 0
    BY <1>1, <1>9, <1>10, <2>1 DEF AtomInv, FactoryOwns
  <2>3. \A j \in Keys : Owned(j) = 1 => Owned(j)' = 1
    BY <1>7, <2>1, FactoryIsNoKey
  <2>4. CASE entry.atom
    <3>1. m = [memory EXCEPT !.refs[k] = 1]
      BY <1>12, <2>4 DEF Created
    <3>2. m = [refs |-> [memory.refs EXCEPT ![k] = 1], freed |-> memory.freed,
               fault |-> memory.fault]
      BY <1>9, <3>1 DEF Memories
    <3>3. [memory.refs EXCEPT ![k] = 1] \in [Objects -> Nat]
      BY <1>9
    <3>4. memory.freed \in SUBSET Objects
      BY <1>9 DEF Memories
    <3> HIDE DEF m
    <3>5. /\ m \in Memories(Objects) /\ m.refs = [memory.refs EXCEPT ![k] = 1]
          /\ m.freed = memory.freed /\ m.fault = "none"
      BY <1>9, <3>2, <3>3, <3>4, MakeMemory
    <3>6. \A o \in Objects : /\ m.refs[o] = held[o] + Owned(o)'
                             /\ o \in memory.freed => m.refs[o] = 0
      BY <1>1, <1>7, <1>8, <1>9, <1>10, <2>2, <2>4, <3>5
    <3> QED  BY <1>2, <1>4, <1>5, <1>8, <2>3, <2>4, <3>5, <3>6 DEF m
  <2>5. CASE ~entry.atom
    <3>1. m = memory
      BY <2>5 DEF Created
    <3>2. \A o \in Objects : Owned(o)' = Owned(o)
      BY <1>7, <1>8, <2>1, <2>5
    <3> HIDE DEF m
    <3>3. \A o \in Objects : /\ m.refs[o] = held[o] + Owned(o)'
                             /\ o \in memory.freed => m.refs[o] = 0
      BY <1>10, <3>1, <3>2
    <3> QED  BY <1>2, <1>4, <1>5, <1>9, <2>3, <2>5, <3>1, <3>3 DEF m
  <2> QED  BY <1>6, <2>4, <2>5
<1> QED  BY <1>11, <1>12

\* cp_atom_new of a supported EAPI.
LEMMA AtomNewKeeps ==
    ASSUME AtomInv, NEW e \in Eapis, NEW t \in Texts, AtomNew(e, t)
    PROVE  AtomInv'
<1> DEFINE k == <<e, t>>
           entry == IF Known(k) THEN cache[k] ELSE Parse(e, t)
           m == Created(k, entry)
<1>1. k \in Keys /\ k \in Objects /\ k # Factory
  BY FactoryIsNoKey DEF Keys
<1>2. /\ held[Factory] > 0
      /\ Remember(k, entry)
      /\ answer' = [eapi |-> e, text |-> t, error |-> entry.error]
      /\ \/ entry.error /\ memory' = m /\ held' = held
         \/ ~entry.error /\ memory' = Ref(m, k) /\ held' = [held EXCEPT ![k] = @ + 1]
  BY DEF AtomNew, Key, Take
<1>3. /\ entry = Parse(e, t)
      /\ DOMAIN cache' \subseteq Keys
      /\ CacheIsParsed'
      /\ m \in Memories(Objects)
      /\ m.fault = "none"
      /\ m.freed = memory.freed
      /\ \A o \in Objects : /\ m.refs[o] = held[o] + Owned(o)'
                            /\ o \in memory.freed => m.refs[o] = 0
      /\ \A j \in Keys : Owned(j) = 1 => Owned(j)' = 1
      /\ entry.atom => Owned(k)' = 1
  BY <1>2, CreatedKeeps
<1> HIDE DEF m, entry
<1>4. AnswerIsParsed'
  BY <1>2, <1>3 DEF AnswerIsParsed, Parse, Built
<1>5. held \in [Objects -> Nat] /\ Factory \in Objects
  BY FactoryIsNoKey DEF AtomInv, TypeInv
<1>6. \A j \in Keys : held[j] > 0 \/ j \in memory.freed => Owned(j)' = 1
  BY <1>2, <1>3 DEF AtomInv, FactoryOwns
<1>7. CASE entry.error
  <2>1. memory' = m /\ held' = held
    BY <1>2, <1>7
  <2>2. TypeInv' /\ Alive'
    BY <1>3, <1>5, <2>1 DEF TypeInv, Alive
  <2>3. CountsAddUp'
    BY <1>3, <2>1 DEF CountsAddUp
  <2>4. FactoryOwns'
    BY <1>2, <1>3, <1>6, <2>1 DEF FactoryOwns
  <2> QED  BY <1>3, <1>4, <2>2, <2>3, <2>4 DEF AtomInv
<1>8. CASE ~entry.error
  <2>1. memory' = Ref(m, k) /\ held' = [held EXCEPT ![k] = @ + 1]
    BY <1>2, <1>8
  <2>2. Owned(k)' = 1
    BY <1>3, <1>8, ParseIsEntry
  <2>3. m.refs \in [Objects -> Nat]
    BY <1>3 DEF Memories
  <2>4. k \notin m.freed
    BY <1>1, <1>3, <1>5, <2>2
  <2>5. /\ memory' \in Memories(Objects)
        /\ memory'.refs = [m.refs EXCEPT ![k] = @ + 1]
        /\ memory'.freed = memory.freed
        /\ memory'.fault = "none"
    BY <1>1, <1>3, <2>1, <2>4, RefEffect
  <2>6. held' \in [Objects -> Nat]
    BY <1>1, <1>5, <2>1
  <2>7. TypeInv' /\ Alive'
    BY <1>3, <2>5, <2>6 DEF TypeInv, Alive
  <2>8. CountsAddUp'
    <3> SUFFICES ASSUME NEW o \in Objects
                 PROVE  /\ memory'.refs[o] = held'[o] + Owned(o)'
                        /\ o \in memory'.freed => memory'.refs[o] = 0
      BY DEF CountsAddUp
    <3>1. m.refs[o] = held[o] + Owned(o)' /\ Owned(o)' \in Nat
          /\ (o \in memory.freed => m.refs[o] = 0)
      BY <1>3 DEF Owned
    <3> HIDE DEF k
    <3>2. CASE o = k
      BY <1>3, <1>5, <2>1, <2>3, <2>4, <2>5, <3>1, <3>2
    <3>3. CASE o # k
      BY <1>5, <2>1, <2>3, <2>5, <3>1, <3>3
    <3> QED  BY <3>2, <3>3
  <2>9. \A j \in Keys : held'[j] > 0 \/ j \in memory'.freed => Owned(j)' = 1
    <3> SUFFICES ASSUME NEW j \in Keys, held'[j] > 0 \/ j \in memory'.freed
                 PROVE  Owned(j)' = 1
      OBVIOUS
    <3>1. j \in Objects
      BY FactoryIsNoKey
    <3> QED  BY <1>5, <1>6, <2>1, <2>2, <2>5, <3>1
  <2>10. FactoryOwns'
    BY <1>1, <1>2, <1>5, <2>1, <2>9 DEF FactoryOwns
  <2> QED  BY <1>3, <1>4, <2>7, <2>8, <2>10 DEF AtomInv
<1> QED  BY <1>7, <1>8

\* cp_atom_ref, cp_atom_factory_ref.
LEMMA RefKeeps ==
    ASSUME AtomInv, NEW o \in Objects, RefHandle(o)
    PROVE  AtomInv'
<1>1. /\ held[o] > 0 /\ held' = [held EXCEPT ![o] = @ + 1]
      /\ memory' = Ref(memory, o)
      /\ UNCHANGED <<cache, answer>>
  BY DEF RefHandle, Take
<1>2. /\ memory \in Memories(Objects) /\ memory.fault = "none"
      /\ memory.refs \in [Objects -> Nat] /\ held \in [Objects -> Nat]
  BY DEF AtomInv, TypeInv, Alive, Memories
<1>3. \A p \in Objects : Owned(p) \in Nat /\ Owned(p)' = Owned(p)
  BY <1>1 DEF Owned
<1>4. o \notin memory.freed
  BY <1>1, <1>2, <1>3 DEF AtomInv, CountsAddUp
<1>5. /\ memory' \in Memories(Objects)
      /\ memory'.refs = [memory.refs EXCEPT ![o] = @ + 1]
      /\ memory'.freed = memory.freed
      /\ memory'.fault = "none"
  BY <1>1, <1>2, <1>4, RefEffect
<1>6. TypeInv' /\ Alive'
  BY <1>1, <1>2, <1>5 DEF AtomInv, TypeInv, Alive
<1>7. CountsAddUp'
  BY <1>1, <1>2, <1>3, <1>4, <1>5 DEF AtomInv, CountsAddUp
<1>8. \A k \in Keys : k \in Objects /\ Owned(k)' = Owned(k)
  BY <1>3, FactoryIsNoKey
<1>9. FactoryOwns'
  BY <1>1, <1>2, <1>5, <1>8, FactoryIsNoKey DEF AtomInv, FactoryOwns
<1> QED  BY <1>1, <1>6, <1>7, <1>9 DEF AtomInv, CacheIsParsed, AnswerIsParsed, Parse, Built

\* UnrefEffect of the objects here.
LEMMA UnrefObject ==
    ASSUME NEW m \in Memories(Objects), NEW o \in Objects,
           m.fault = "none", o \notin m.freed, m.refs[o] # 0
    PROVE  /\ Unref(m, o) \in Memories(Objects)
           /\ Unref(m, o).refs = [m.refs EXCEPT ![o] = @ - 1]
           /\ Unref(m, o).freed = IF m.refs[o] = 1 THEN m.freed \cup {o} ELSE m.freed
           /\ Unref(m, o).fault = "none"
BY UnrefEffect

\* UnrefAllEffect of the objects here.
LEMMA UnrefAllObjects ==
    ASSUME NEW m \in Memories(Objects), NEW S \in SUBSET Objects,
           m.fault = "none", S \cap m.freed = {}, \A o \in S : m.refs[o] # 0
    PROVE  /\ UnrefAll(m, S) \in Memories(Objects)
           /\ UnrefAll(m, S).refs =
                [o \in Objects |-> IF o \in S THEN m.refs[o] - 1 ELSE m.refs[o]]
           /\ UnrefAll(m, S).freed = m.freed \cup {o \in S : m.refs[o] = 1}
           /\ UnrefAll(m, S).fault = "none"
BY UnrefAllEffect

\* cp_atom_unref by a client that holds the atom.
LEMMA AtomUnrefKeeps ==
    ASSUME AtomInv, NEW k \in Keys, AtomUnref(k)
    PROVE  AtomInv'
<1>1. /\ held[k] > 0 /\ held' = [held EXCEPT ![k] = @ - 1]
      /\ memory' = Unref(memory, k)
      /\ UNCHANGED <<cache, answer>>
      /\ k \in Objects /\ k # Factory
  BY FactoryIsNoKey DEF AtomUnref, Give
<1>2. /\ memory \in Memories(Objects) /\ memory.fault = "none"
      /\ memory.refs \in [Objects -> Nat] /\ held \in [Objects -> Nat]
  BY DEF AtomInv, TypeInv, Alive, Memories
<1>3. \A p \in Objects : Owned(p) \in Nat /\ Owned(p)' = Owned(p)
  BY <1>1 DEF Owned
<1>4. k \notin memory.freed /\ memory.refs[k] # 0 /\ memory.refs[k] = held[k] + Owned(k)
  BY <1>1, <1>2, <1>3 DEF AtomInv, CountsAddUp
<1>5. /\ memory' \in Memories(Objects)
      /\ memory'.refs = [memory.refs EXCEPT ![k] = @ - 1]
      /\ memory'.freed = IF memory.refs[k] = 1 THEN memory.freed \cup {k} ELSE memory.freed
      /\ memory'.fault = "none"
  BY <1>1, <1>2, <1>4, UnrefObject
<1>6. TypeInv' /\ Alive'
  BY <1>1, <1>2, <1>5 DEF AtomInv, TypeInv, Alive
<1>7. CountsAddUp'
  BY <1>1, <1>2, <1>3, <1>4, <1>5 DEF AtomInv, CountsAddUp
<1>8. FactoryOwns'
  <2>1. held'[Factory] = held[Factory]
    BY <1>1, <1>2, FactoryIsNoKey
  <2>2. ASSUME held[Factory] > 0, NEW j \in Keys, held'[j] > 0 \/ j \in memory'.freed
        PROVE  Owned(j)' = 1
    <3>1. j \in Objects
      BY FactoryIsNoKey
    <3>2. Owned(k) = 1
      BY <1>1, <2>2 DEF AtomInv, FactoryOwns
    <3>3. CASE j = k
      BY <1>1, <1>3, <3>2, <3>3
    <3>4. CASE j # k
      BY <1>1, <1>2, <1>3, <1>5, <2>2, <3>1, <3>4 DEF AtomInv, FactoryOwns
    <3> QED  BY <3>3, <3>4
  <2> QED  BY <1>1, <2>1, <2>2 DEF AtomInv, FactoryOwns
<1> QED  BY <1>1, <1>6, <1>7, <1>8 DEF AtomInv, CacheIsParsed, AnswerIsParsed, Parse, Built

\* The release of the factory: with the last one the cache gives up its atoms,
\* each of which is still there.
LEMMA FactoryUnrefKeeps ==
    ASSUME AtomInv, FactoryUnref
    PROVE  AtomInv'
<1> DEFINE n == Unref(memory, Factory)
<1>1. /\ held[Factory] > 0 /\ held' = [held EXCEPT ![Factory] = @ - 1]
      /\ answer' = answer
      /\ Factory \in Objects /\ Factory \notin Keys
  BY FactoryIsNoKey DEF FactoryUnref, Give
<1>2. /\ memory \in Memories(Objects) /\ memory.fault = "none"
      /\ memory.refs \in [Objects -> Nat] /\ held \in [Objects -> Nat]
  BY DEF AtomInv, TypeInv, Alive, Memories
<1>3. Owned(Factory) = 0 /\ \A p \in Objects : Owned(p) \in {0, 1}
  BY <1>1 DEF Owned, AtomInv, TypeInv
<1>4. /\ memory.refs[Factory] = held[Factory] /\ Factory \notin memory.freed
      /\ \A p \in Objects : /\ memory.refs[p] = held[p] + Owned(p)
                            /\ p \in memory.freed => memory.refs[p] = 0
  BY <1>1, <1>2, <1>3 DEF AtomInv, CountsAddUp
<1>5. /\ n \in Memories(Objects)
      /\ n.refs = [memory.refs EXCEPT ![Factory] = @ - 1]
      /\ n.freed = IF memory.refs[Factory] = 1 THEN memory.freed \cup {Factory}
                   ELSE memory.freed
      /\ n.fault = "none"
  BY <1>1, <1>2, <1>4, UnrefObject
<1> HIDE DEF n
<1>6. held' \in [Objects -> Nat]
  BY <1>1, <1>2
<1>7. AnswerIsParsed'
  BY <1>1 DEF AtomInv, AnswerIsParsed, Parse, Built
<1>8. CASE memory.refs[Factory] > 1
  <2>1. memory' = n /\ cache' = cache
    BY <1>8 DEF FactoryUnref, n
  <2>2. \A p \in Objects : Owned(p)' = Owned(p)
    BY <2>1 DEF Owned
  <2>3. n.freed = memory.freed
    BY <1>5, <1>8
  <2>4. CountsAddUp'
    BY <1>1, <1>2, <1>3, <1>4, <1>5, <2>1, <2>2, <2>3 DEF CountsAddUp
  <2>5. \A j \in Keys : j \in Objects /\ Owned(j)' = Owned(j) /\ held'[j] = held[j]
    BY <1>1, <1>2, <2>2, FactoryIsNoKey
  <2>6. FactoryOwns'
    BY <1>1, <1>2, <1>4, <1>8, <2>1, <2>3, <2>5 DEF AtomInv, FactoryOwns
  <2> QED  BY <1>5, <1>6, <1>7, <2>1, <2>4, <2>6
           DEF AtomInv, TypeInv, Alive, CacheIsParsed, Parse, Built
<1>9. CASE ~(memory.refs[Factory] > 1)
  <2>1. memory.refs[Factory] = 1 /\ held[Factory] = 1
    BY <1>1, <1>2, <1>4, <1>9
  <2>2. memory' = UnrefAll(n, EntryAtoms) /\ DOMAIN cache' = {}
    BY <1>9 DEF FactoryUnref, n
  <2>3. \A p : p \in EntryAtoms <=> Owned(p) = 1
    BY DEF EntryAtoms, Owned
  <2>4. EntryAtoms \in SUBSET Objects /\ Factory \notin EntryAtoms
    BY <1>1, FactoryIsNoKey DEF AtomInv, TypeInv, EntryAtoms
  <2>5. \A p \in EntryAtoms : n.refs[p] # 0 /\ p \notin n.freed
    BY <1>1, <1>2, <1>4, <1>5, <2>3, <2>4
  <2>6. EntryAtoms \cap n.freed = {}
    BY <2>5
  <2> DEFINE S == EntryAtoms
  <2> HIDE DEF S
  <2>7. /\ memory' \in Memories(Objects)
        /\ memory'.refs = [o \in Objects |-> IF o \in S THEN n.refs[o] - 1 ELSE n.refs[o]]
        /\ memory'.freed = n.freed \cup {o \in S : n.refs[o] = 1}
        /\ memory'.fault = "none"
    <3>1. S \in SUBSET Objects /\ S \cap n.freed = {} /\ \A o \in S : n.refs[o] # 0
      BY <2>4, <2>5, <2>6 DEF S
    <3>2. memory' = UnrefAll(n, S)
      BY <2>2 DEF S
    <3> QED  BY <1>5, <3>1, <3>2, UnrefAllObjects
  <2>8. \A p \in Objects : Owned(p)' = 0
    BY <2>2 DEF Owned
  <2>9. CountsAddUp'
    <3> SUFFICES ASSUME NEW o \in Objects
                 PROVE  /\ memory'.refs[o] = held'[o]
                        /\ o \in memory'.freed => memory'.refs[o] = 0
      BY <1>6, <2>8 DEF CountsAddUp
    <3>1. memory.refs[o] = held[o] + Owned(o) /\ (o \in memory.freed => memory.refs[o] = 0)
      BY <1>4
    <3>2. CASE o = Factory
      BY <1>1, <1>2, <1>5, <2>1, <2>4, <2>7, <3>2 DEF S
    <3>3. CASE o \in S
      <4>1. o # Factory /\ Owned(o) = 1
        BY <2>3, <2>4, <3>3 DEF S
      <4>2. n.refs[o] = held[o] + 1 /\ held'[o] = held[o] /\ o \notin n.freed
        BY <1>1, <1>2, <1>5, <2>5, <3>1, <3>3, <4>1 DEF S
      <4> QED  BY <1>2, <2>7, <3>3, <4>2
    <3>4. CASE o # Factory /\ o \notin S
      <4>1. Owned(o) = 0
        BY <1>3, <2>3, <3>4 DEF S
      <4>2. n.refs[o] = held[o] /\ held'[o] = held[o]
            /\ (o \in n.freed => n.refs[o] = 0)
        BY <1>1, <1>2, <1>5, <3>1, <3>4, <4>1
      <4> QED  BY <2>7, <3>4, <4>2
    <3> QED  BY <3>2, <3>3, <3>4
  <2>10. FactoryOwns'
    BY <1>1, <1>2, <2>1, <2>2 DEF FactoryOwns
  <2> QED  BY <1>6, <1>7, <2>2, <2>7, <2>9, <2>10
           DEF AtomInv, TypeInv, Alive, CacheIsParsed
<1> QED  BY <1>8, <1>9

\* Every step keeps the invariant.
LEMMA NextKeeps == AtomInv /\ [Next]_vars => AtomInv'
<1> SUFFICES ASSUME AtomInv, [Next]_vars PROVE AtomInv'
  OBVIOUS
<1>1. ASSUME NEW e \in Eapis \cup {UnknownEapi}, NEW t \in Texts, AtomNew(e, t)
      PROVE  AtomInv'
  <2>1. e \in Eapis
    BY <1>1 DEF AtomNew, EapiCheck
  <2> QED  BY <1>1, <2>1, AtomNewKeeps
<1>2. ASSUME NEW e \in Eapis \cup {UnknownEapi}, AtomNewUnknown(e)
      PROVE  AtomInv'
  BY <1>2 DEF AtomNewUnknown, AtomInv, TypeInv, Alive, CacheIsParsed, CountsAddUp,
              Owned, FactoryOwns, AnswerIsParsed, Parse, Built
<1>3. CASE UNCHANGED vars
  BY <1>3 DEF vars, AtomInv, TypeInv, Alive, CacheIsParsed, CountsAddUp,
              Owned, FactoryOwns, AnswerIsParsed, Parse, Built
<1> QED  BY <1>1, <1>2, <1>3, RefKeeps, AtomUnrefKeeps, FactoryUnrefKeeps DEF Next

\* Under every client the count of an atom is the number of its references,
\* and the cache holds what the parser makes of each key.
THEOREM AtomCountsAreReferences == Spec => []AtomInv
<1>1. Init => AtomInv
  BY InitHolds
<1>2. AtomInv /\ [Next]_vars => AtomInv'
  BY NextKeeps
<1> QED  BY <1>1, <1>2, PTL DEF Spec

\* The state keeps its types, and an entry without an error has an atom.
THEOREM AtomsTypeCorrect == Spec => []AtomsTypeOK
<1>1. AtomInv => AtomsTypeOK
  <2> SUFFICES ASSUME AtomInv PROVE AtomsTypeOK
    OBVIOUS
  <2>1. /\ memory.refs \in [Objects -> Nat] /\ memory.freed \subseteq Objects
        /\ held \in [Objects -> Nat] /\ DOMAIN cache \subseteq Keys
    BY DEF AtomInv, TypeInv, Memories
  <2>2. ASSUME NEW k \in DOMAIN cache
        PROVE  cache[k] \in Entry /\ (cache[k].error \/ cache[k].atom)
    <3>1. PICK e \in Eapis, t \in Texts : k = <<e, t>>
      BY <2>1 DEF Keys
    <3>2. cache[k] = Parse(e, t)
      BY <3>1 DEF AtomInv, CacheIsParsed
    <3> QED  BY <3>2, ParseIsEntry
  <2> QED  BY <2>1, <2>2 DEF AtomsTypeOK
<1> QED  BY <1>1, AtomCountsAreReferences, PTL

\* No order of requests and releases touches a freed atom or fails an assertion.
THEOREM AtomClientsAreSafe == Spec => []AtomClientIsSafe
<1>1. AtomInv => AtomClientIsSafe
  BY DEF AtomInv, AtomClientIsSafe
<1> QED  BY <1>1, AtomCountsAreReferences, PTL

\* What the client holds is alive, also after the factory is gone.
THEOREM AtomsOutlive == Spec => []AtomsOutliveFactory
<1>1. AtomInv => AtomsOutliveFactory
  <2> SUFFICES ASSUME AtomInv, NEW o \in Objects, held[o] > 0, o \in memory.freed
               PROVE  FALSE
    BY DEF AtomsOutliveFactory
  <2>1. held[o] \in Nat /\ Owned(o) \in Nat
    BY DEF AtomInv, TypeInv, Owned
  <2> QED  BY <2>1 DEF AtomInv, CountsAddUp
<1> QED  BY <1>1, AtomCountsAreReferences, PTL

\* When everything has been released no atom is left, whatever was rejected.
THEOREM NoAtomLeaks == Spec => []AtomsDoNotLeak
<1>1. AtomInv => AtomsDoNotLeak
  <2> SUFFICES ASSUME AtomInv, \A o \in Objects : held[o] = 0, NEW o \in Objects
               PROVE  memory.refs[o] = 0
    BY DEF AtomsDoNotLeak
  <2>1. DOMAIN cache = {}
    BY FactoryIsNoKey DEF AtomInv, FactoryOwns
  <2> QED  BY <2>1 DEF AtomInv, CountsAddUp, Owned
<1> QED  BY <1>1, AtomCountsAreReferences, PTL

\* A text is accepted if and only if it is an atom of the EAPI it is asked for.
THEOREM AnswersAreByEapi == Spec => []AnswersFollowEapi
<1>1. AtomInv => AnswersFollowEapi
  <2> SUFFICES ASSUME AtomInv, answer # NoAnswer PROVE AnswersFollowEapi
    BY DEF AnswersFollowEapi
  <2>1. PICK e \in Eapis, t \in Texts :
            answer = [eapi |-> e, text |-> t, error |-> Parse(e, t).error]
    BY DEF AtomInv, AnswerIsParsed
  <2>2. e \in Nat /\ answer.eapi = e /\ answer.text = t
        /\ answer.error = Parse(e, t).error
    BY <2>1, AtomsAssumption
  <2>3. Parse(e, t).error <=> ~Built(e, t) \/ "trailing" \in Parts[t]
    BY DEF Parse
  <2>4. Built(e, t) <=> /\ "junk" \notin Parts[t]
                        /\ "slot" \in Parts[t] => e # 0
                        /\ "use" \in Parts[t] => e \notin {0, 1}
    BY <2>2 DEF Built, HasSlotDeps, HasUseDeps
  <2> QED  BY <2>2, <2>3, <2>4 DEF AnswersFollowEapi
<1> QED  BY <1>1, AtomCountsAreReferences, PTL
=============================================================================
