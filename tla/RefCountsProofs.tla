-------------------------- MODULE RefCountsProofs --------------------------
(***************************************************************************)
(* What the operations of RefCounts do to a memory over a set O of objects *)
(* when no object they touch is freed or without a reference.              *)
(***************************************************************************)
EXTENDS RefCounts, TLAPS

Memories(O) == [refs: [O -> Nat], freed: SUBSET O,
                fault: {"none", "freed memory", "assertion"}]

\* A record with these fields is a memory.
LEMMA MakeMemory ==
    ASSUME NEW O, NEW r \in [O -> Nat], NEW f \in SUBSET O,
           NEW e \in {"none", "freed memory", "assertion"}
    PROVE  LET n == [refs |-> r, freed |-> f, fault |-> e] IN
           n \in Memories(O) /\ n.refs = r /\ n.freed = f /\ n.fault = e
BY DEF Memories

\* cp_*_unref of an object that is there and has references.
LEMMA UnrefEffect ==
    ASSUME NEW O, NEW m \in Memories(O), NEW o \in O,
           m.fault = "none", o \notin m.freed, m.refs[o] # 0
    PROVE  /\ Unref(m, o) \in Memories(O)
           /\ Unref(m, o).refs = [m.refs EXCEPT ![o] = @ - 1]
           /\ Unref(m, o).freed = IF m.refs[o] = 1 THEN m.freed \cup {o} ELSE m.freed
           /\ Unref(m, o).fault = "none"
<1> DEFINE n == Unref(m, o)
<1>1. Touch(m, o) = m
  BY DEF Touch
<1>2. n = [m EXCEPT !.refs[o] = @ - 1,
                    !.freed = IF m.refs[o] = 1 THEN @ \cup {o} ELSE @]
  BY <1>1 DEF Unref
<1>3. n = [refs |-> [m.refs EXCEPT ![o] = @ - 1],
           freed |-> IF m.refs[o] = 1 THEN m.freed \cup {o} ELSE m.freed,
           fault |-> m.fault]
  BY <1>2 DEF Memories
<1>4. [m.refs EXCEPT ![o] = @ - 1] \in [O -> Nat]
  <2>1. m.refs \in [O -> Nat]
    BY DEF Memories
  <2> QED  BY <2>1
<1>5. (IF m.refs[o] = 1 THEN m.freed \cup {o} ELSE m.freed) \in SUBSET O
  BY DEF Memories
<1>6. m.fault \in {"none", "freed memory", "assertion"}
  BY DEF Memories
<1> HIDE DEF n
<1>7. /\ n \in Memories(O)
      /\ n.refs = [m.refs EXCEPT ![o] = @ - 1]
      /\ n.freed = IF m.refs[o] = 1 THEN m.freed \cup {o} ELSE m.freed
      /\ n.fault = m.fault
  BY ONLY <1>3, <1>4, <1>5, <1>6, MakeMemory
<1> QED  BY <1>7 DEF n

\* cp_*_ref of an object that is there.
LEMMA RefEffect ==
    ASSUME NEW O, NEW m \in Memories(O), NEW o \in O, m.fault = "none", o \notin m.freed
    PROVE  /\ Ref(m, o) \in Memories(O)
           /\ Ref(m, o).refs = [m.refs EXCEPT ![o] = @ + 1]
           /\ Ref(m, o).freed = m.freed
           /\ Ref(m, o).fault = "none"
<1> DEFINE n == Ref(m, o)
<1>1. Touch(m, o) = m
  BY DEF Touch
<1>2. n = [m EXCEPT !.refs[o] = @ + 1]
  BY <1>1 DEF Ref
<1>3. n = [refs |-> [m.refs EXCEPT ![o] = @ + 1], freed |-> m.freed,
           fault |-> m.fault]
  BY <1>2 DEF Memories
<1>4. [m.refs EXCEPT ![o] = @ + 1] \in [O -> Nat]
  <2>1. m.refs \in [O -> Nat]
    BY DEF Memories
  <2> QED  BY <2>1
<1>5. m.freed \in SUBSET O /\ m.fault \in {"none", "freed memory", "assertion"}
  BY DEF Memories
<1> HIDE DEF n
<1>6. /\ n \in Memories(O)
      /\ n.refs = [m.refs EXCEPT ![o] = @ + 1]
      /\ n.freed = m.freed
      /\ n.fault = m.fault
  BY ONLY <1>3, <1>4, <1>5, MakeMemory
<1> QED  BY <1>6 DEF n

\* The end of a table that has one reference to each object of S.
LEMMA UnrefAllEffect ==
    ASSUME NEW O, NEW m \in Memories(O), NEW S \in SUBSET O,
           m.fault = "none", S \cap m.freed = {}, \A o \in S : m.refs[o] # 0
    PROVE  /\ UnrefAll(m, S) \in Memories(O)
           /\ UnrefAll(m, S).refs =
                [o \in O |-> IF o \in S THEN m.refs[o] - 1 ELSE m.refs[o]]
           /\ UnrefAll(m, S).freed = m.freed \cup {o \in S : m.refs[o] = 1}
           /\ UnrefAll(m, S).fault = "none"
<1> DEFINE n == UnrefAll(m, S)
           r == [o \in O |-> IF o \in S THEN m.refs[o] - 1 ELSE m.refs[o]]
           f == m.freed \cup {o \in S : m.refs[o] = 1}
<1>1. m.refs \in [O -> Nat] /\ m.freed \in SUBSET O
  BY DEF Memories
<1>2. n = [m EXCEPT !.refs = [o \in DOMAIN m.refs |->
                                IF o \in S THEN m.refs[o] - 1 ELSE m.refs[o]],
                    !.freed = @ \cup {o \in S : m.refs[o] = 1}]
  BY DEF UnrefAll
<1>3. DOMAIN m.refs = O
  BY <1>1
<1>4. n = [refs |-> r, freed |-> f, fault |-> m.fault]
  BY <1>2, <1>3 DEF Memories
<1>5. r \in [O -> Nat]
  BY <1>1
<1>6. f \in SUBSET O
  BY <1>1
<1>7. m.fault \in {"none", "freed memory", "assertion"}
  BY DEF Memories
<1> HIDE DEF n, r, f
<1>8. n \in Memories(O) /\ n.refs = r /\ n.freed = f /\ n.fault = m.fault
  BY ONLY <1>4, <1>5, <1>6, <1>7, MakeMemory
<1> QED  BY <1>8 DEF n, r, f

-----------------------------------------------------------------------------
\* The same, object by object.
LEMMA UnrefAt ==
    ASSUME NEW O, NEW m \in Memories(O), NEW o \in O, NEW n, n = Unref(m, o),
           m.fault = "none", o \notin m.freed, m.refs[o] # 0
    PROVE  /\ n \in Memories(O) /\ n.fault = "none"
           /\ n.refs[o] = m.refs[o] - 1
           /\ \A x \in O : x # o => n.refs[x] = m.refs[x]
           /\ \A x \in O : x \in n.freed <=> x \in m.freed \/ (x = o /\ m.refs[o] = 1)
<1>1. m.refs \in [O -> Nat]
  BY DEF Memories
<1>2. /\ Unref(m, o) \in Memories(O)
      /\ Unref(m, o).refs = [m.refs EXCEPT ![o] = @ - 1]
      /\ Unref(m, o).freed = IF m.refs[o] = 1 THEN m.freed \cup {o} ELSE m.freed
      /\ Unref(m, o).fault = "none"
  BY UnrefEffect
<1>3. /\ n \in Memories(O) /\ n.fault = "none"
      /\ n.refs = [m.refs EXCEPT ![o] = @ - 1]
      /\ n.freed = IF m.refs[o] = 1 THEN m.freed \cup {o} ELSE m.freed
  BY <1>2
<1> QED  BY <1>1, <1>3

LEMMA RefAt ==
    ASSUME NEW O, NEW m \in Memories(O), NEW o \in O, NEW n, n = Ref(m, o),
           m.fault = "none", o \notin m.freed
    PROVE  /\ n \in Memories(O) /\ n.fault = "none" /\ n.freed = m.freed
           /\ n.refs[o] = m.refs[o] + 1
           /\ \A x \in O : x # o => n.refs[x] = m.refs[x]
<1>1. m.refs \in [O -> Nat]
  BY DEF Memories
<1>2. n.refs = [m.refs EXCEPT ![o] = @ + 1]
  BY RefEffect
<1> QED  BY <1>1, <1>2, RefEffect

LEMMA UnrefAllAt ==
    ASSUME NEW O, NEW m \in Memories(O), NEW S \in SUBSET O, NEW n, n = UnrefAll(m, S),
           m.fault = "none", S \cap m.freed = {}, \A o \in S : m.refs[o] # 0
    PROVE  /\ n \in Memories(O) /\ n.fault = "none"
           /\ \A x \in O : n.refs[x] = IF x \in S THEN m.refs[x] - 1 ELSE m.refs[x]
           /\ \A x \in O : x \in n.freed <=> x \in m.freed \/ (x \in S /\ m.refs[x] = 1)
<1>1. n.refs = [o \in O |-> IF o \in S THEN m.refs[o] - 1 ELSE m.refs[o]]
  BY UnrefAllEffect
<1> QED  BY <1>1, UnrefAllEffect

\* Without a fault there was no reason for one.
LEMMA UnrefSucceeds ==
    ASSUME NEW O, NEW m \in Memories(O), NEW o \in O, m.fault = "none",
           Unref(m, o).fault = "none"
    PROVE  o \notin m.freed /\ m.refs[o] # 0
<1>1. \A e : [m EXCEPT !.fault = e].fault = e
  BY DEF Memories
<1>2. ASSUME o \in m.freed PROVE FALSE
  <2>1. Touch(m, o) = [m EXCEPT !.fault = "freed memory"]
    BY <1>2 DEF Touch
  <2>2. Touch(m, o).fault = "freed memory"
    BY <1>1, <2>1
  <2>3. Unref(m, o) = Touch(m, o)
    BY <2>2 DEF Unref
  <2> QED  BY <2>2, <2>3
<1>3. ASSUME o \notin m.freed, m.refs[o] = 0 PROVE FALSE
  <2>1. Touch(m, o) = m
    BY <1>3 DEF Touch
  <2>2. Unref(m, o) = [m EXCEPT !.fault = "assertion"]
    BY <1>3, <2>1 DEF Unref
  <2>3. Unref(m, o).fault = "assertion"
    BY <1>1, <2>2
  <2> QED  BY <2>3
<1> QED  BY <1>2, <1>3

LEMMA UnrefAllSucceeds ==
    ASSUME NEW O, NEW m \in Memories(O), NEW S \in SUBSET O, m.fault = "none",
           UnrefAll(m, S).fault = "none"
    PROVE  S \cap m.freed = {} /\ \A o \in S : m.refs[o] # 0
<1>1. \A e : [m EXCEPT !.fault = e].fault = e
  BY DEF Memories
<1>2. ASSUME S \cap m.freed # {} PROVE FALSE
  <2>1. UnrefAll(m, S) = [m EXCEPT !.fault = "freed memory"]
    BY <1>2 DEF UnrefAll
  <2>2. UnrefAll(m, S).fault = "freed memory"
    BY <1>1, <2>1
  <2> QED  BY <2>2
<1>3. ASSUME S \cap m.freed = {}, \E o \in S : m.refs[o] = 0 PROVE FALSE
  <2>1. UnrefAll(m, S) = [m EXCEPT !.fault = "assertion"]
    BY <1>3 DEF UnrefAll
  <2>2. UnrefAll(m, S).fault = "assertion"
    BY <1>1, <2>1
  <2> QED  BY <2>2
<1> QED  BY <1>2, <1>3

\* A memory with other counts.
LEMMA RefsReplaced ==
    ASSUME NEW O, NEW m \in Memories(O), NEW r \in [O -> Nat], NEW n, n = [m EXCEPT !.refs = r]
    PROVE  n \in Memories(O) /\ n.refs = r /\ n.freed = m.freed /\ n.fault = m.fault
<1>1. m.freed \in SUBSET O /\ m.fault \in {"none", "freed memory", "assertion"}
  BY DEF Memories
<1>2. n = [refs |-> r, freed |-> m.freed, fault |-> m.fault]
  BY DEF Memories
<1> QED  BY ONLY <1>1, <1>2, r \in [O -> Nat], MakeMemory

\* A memory with one object more in use.
LEMMA RefsSet ==
    ASSUME NEW O, NEW m \in Memories(O), NEW o \in O, NEW v \in Nat, NEW n,
           n = [m EXCEPT !.refs[o] = v]
    PROVE  /\ n \in Memories(O) /\ n.freed = m.freed /\ n.fault = m.fault
           /\ n.refs[o] = v
           /\ \A x \in O : x # o => n.refs[x] = m.refs[x]
<1>1. m.refs \in [O -> Nat]
  BY DEF Memories
<1>2. PICK r : r = [m.refs EXCEPT ![o] = v]
  OBVIOUS
<1>3. r \in [O -> Nat] /\ r[o] = v /\ \A x \in O : x # o => r[x] = m.refs[x]
  BY <1>1, <1>2
<1>4. n = [m EXCEPT !.refs = r]
  BY <1>2
<1>5. n \in Memories(O) /\ n.refs = r /\ n.freed = m.freed /\ n.fault = m.fault
  BY ONLY <1>3, <1>4, m \in Memories(O), RefsReplaced
<1> QED  BY <1>3, <1>5
=============================================================================
