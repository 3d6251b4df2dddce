------------------------ MODULE ConfigProtectProofs ------------------------
(***************************************************************************)
(* Proofs about ConfigProtect: the closed form of cp_stack_dict for any    *)
(* number of values, that the tests of path.c on characters decide by the  *)
(* names of a path, and what a word of CONFIG_PROTECT can change.          *)
(***************************************************************************)
EXTENDS ConfigProtect, TLAPS, FiniteSetTheorems, SequenceTheorems

-----------------------------------------------------------------------------
\* The closed form of a word is what the loop does with it.
LEMMA ItemsStack ==
    ASSUME NEW S, NEW i \in Item
    PROVE  StackItem(S, i) = Stack(S, ItemValue(i))
<1>1. CASE i.op = "wipe"
  BY <1>1 DEF StackItem, Stack, ItemValue, Empty
<1>2. CASE i.op = "del"
  BY <1>2 DEF StackItem, Stack, ItemValue, Empty
<1>3. CASE i.op = "add"
  BY <1>3 DEF StackItem, Stack, ItemValue, Concat
<1> QED  BY <1>1, <1>2, <1>3 DEF Item

\* Stacking one text after the other is stacking the text of both.
LEMMA StackJoin ==
    ASSUME NEW S, NEW v, NEW w
    PROVE  Stack(Stack(S, v), w) = Stack(S, Join(v, w))
<1>1. CASE w.wipe
  BY <1>1 DEF Stack, Join
<1>2. CASE ~w.wipe
  <2>1. CASE v.wipe
    BY <1>2, <2>1 DEF Stack, Join
  <2>2. CASE ~v.wipe
    BY <1>2, <2>2 DEF Stack, Join
  <2> QED  BY <2>1, <2>2
<1> QED  BY <1>1, <1>2

\* The empty text changes nothing, and comes for nothing at the end of another.
LEMMA StackEmpty ==
    ASSUME NEW S
    PROVE  Stack(S, Empty) = S
BY DEF Stack, Empty

\* Stacking the value of the words taken is taking them: the closed form of
\* cp_stack_dict that every other module uses is right for any words, any tree
\* to begin with and however many values are stacked (collections.c:90-133).
THEOREM LoopIsClosedForm == Spec => []ClosedForm
<1>1. Init => ClosedForm
  BY StackEmpty, StackJoin DEF Init, ClosedForm
<1>2. ClosedForm /\ [Next]_vars => ClosedForm'
  <2> SUFFICES ASSUME ClosedForm, [Next]_vars PROVE ClosedForm'
    OBVIOUS
  <2>1. ASSUME NEW i \in Item, TakeItem(i) PROVE ClosedForm'
    <3>1. tree' = Stack(tree, ItemValue(i))
      BY <2>1, ItemsStack DEF TakeItem
    <3>2. tree' = Stack(Stack(before, first), text')
      BY <2>1, <3>1, StackJoin DEF TakeItem, ClosedForm
    <3> QED  BY <2>1, <3>2, StackJoin DEF TakeItem, ClosedForm
  <2>2. CASE NextText
    <3>1. tree' = Stack(Stack(before', first'), text')
      BY <2>2, StackEmpty DEF NextText, ClosedForm
    <3> QED  BY <3>1, StackJoin DEF ClosedForm
  <2>3. CASE UNCHANGED vars
    BY <2>3 DEF ClosedForm, vars
  <2> QED  BY <2>1, <2>2, <2>3 DEF Next
<1> QED  BY <1>1, <1>2, PTL DEF Spec

-----------------------------------------------------------------------------
\* Counting the members up to one of them numbers a finite set of naturals.
LEMMA Ranked ==
    ASSUME NEW kept \in SUBSET Nat, IsFiniteSet(kept),
           NEW Rank, Rank = [n \in kept |-> Cardinality({m \in kept : m <= n})],
           NEW size, size = Cardinality(kept)
    PROVE  /\ size \in Nat
           /\ Rank \in [kept -> 1..size]
           /\ \A i, j \in kept : Rank[i] = Rank[j] => i = j
           /\ \A k \in 1..size : \E i \in kept : Rank[i] = k
<1> DEFINE Upto(n) == {m \in kept : m <= n}
<1>1. size \in Nat
  BY FS_CardinalityType
<1>2. ASSUME NEW n \in kept
      PROVE  /\ IsFiniteSet(Upto(n)) /\ Cardinality(Upto(n)) \in 1..size
             /\ n \in Upto(n) /\ Upto(n) \in SUBSET kept
  <2>1. n \in Upto(n) /\ Upto(n) \in SUBSET kept
    OBVIOUS
  <2> HIDE DEF Upto
  <2>2. IsFiniteSet(Upto(n)) /\ Cardinality(Upto(n)) <= size
    BY <2>1, FS_Subset
  <2>3. Cardinality(Upto(n)) \in Nat /\ Cardinality(Upto(n)) # 0
    BY <2>1, <2>2, FS_CardinalityType, FS_EmptySet
  <2> QED  BY <1>1, <2>1, <2>2, <2>3
<1>3. \A n \in kept : Rank[n] = Cardinality(Upto(n))
  OBVIOUS
<1>4. Rank \in [kept -> 1..size]
  <2> HIDE DEF Upto
  <2>1. Rank = [n \in kept |-> Rank[n]]
    OBVIOUS
  <2> QED  BY <1>2, <1>3, <2>1
<1>5. ASSUME NEW i \in kept, NEW j \in kept, i < j
      PROVE  Rank[i] # Rank[j]
  <2>1. Upto(i) \in SUBSET Upto(j) /\ j \in Upto(j) /\ j \notin Upto(i)
    <3>1. i \in Nat /\ j \in Nat /\ \A x \in kept : x \in Nat
      OBVIOUS
    <3>2. \A x \in kept : x <= i => x <= j
      BY <1>5, <3>1
    <3>3. j <= j /\ ~(j <= i)
      BY <1>5, <3>1
    <3>4. Upto(i) \in SUBSET Upto(j)
      BY ONLY <3>2
    <3>5. j \in Upto(j) /\ j \notin Upto(i)
      BY ONLY <3>3, j \in kept
    <3> QED  BY <3>4, <3>5
  <2> HIDE DEF Upto
  <2>2. Cardinality(Upto(i)) # Cardinality(Upto(j))
    BY <1>2, <2>1, FS_Subset
  <2> QED  BY <1>3, <2>2
<1>6. \A i, j \in kept : Rank[i] = Rank[j] => i = j
  <2>1. \A i, j \in kept : i < j \/ j < i \/ i = j
    OBVIOUS
  <2> QED  BY <1>5, <2>1
<1>7. Rank \in Injection(kept, 1..size)
  BY <1>4, <1>6 DEF Injection, IsInjective
<1>8. IsFiniteSet(1..size) /\ Cardinality(1..size) = size
  <2>1. 1 \in Int /\ size \in Int /\ (1 > size => size = 0) /\ size - 1 + 1 = size
    BY <1>1
  <2> QED  BY <2>1, FS_Interval
<1>9. Rank \in Surjection(kept, 1..size)
  BY <1>7, <1>8, FS_Injection
<1>10. \A k \in 1..size : \E i \in kept : Rank[i] = k
  BY <1>9 DEF Surjection
<1> QED  BY <1>1, <1>4, <1>6, <1>10

\* Numbers moved up by d.
Further(d, T) == {d + t : t \in T}
IsFurther(f, d, t) == f = d + t

\* A set of numbers keeps its size when all are moved.
LEMMA Moved ==
    ASSUME NEW T \in SUBSET Nat, IsFiniteSet(T), NEW d \in Nat,
           NEW M, M = Further(d, T)
    PROVE  IsFiniteSet(M) /\ Cardinality(M) = Cardinality(T)
<1> DEFINE f == [t \in T |-> d + t]
<1>1. f \in [T -> M] /\ \A t \in T : f[t] = d + t
  BY DEF Further
<1>2. \A s, t \in T : f[s] = f[t] => s = t
  <2>1. \A s, t \in T : s \in Nat /\ t \in Nat /\ (d + s = d + t => s = t)
    OBVIOUS
  <2> QED  BY <1>1, <2>1
<1>3. \A m \in M : \E t \in T : f[t] = m
  BY <1>1 DEF Further
<1> HIDE DEF f
<1>4. f \in Bijection(T, M)
  BY <1>1, <1>2, <1>3 DEF Bijection, Injection, Surjection, IsInjective
<1> QED  BY <1>4, FS_Bijection DEF ExistsBijection

\* The starts of a text, finitely many.
LEMMA StartsType ==
    ASSUME NEW p \in Text
    PROVE  /\ NameStarts(p) \in SUBSET (1..Len(p)) /\ NameStarts(p) \in SUBSET Nat
           /\ IsFiniteSet(NameStarts(p)) /\ Cardinality(NameStarts(p)) \in Nat
<1>1. DOMAIN p = 1..Len(p) /\ Len(p) \in Nat
  BY DEF Text
<1>2. NameStarts(p) \in SUBSET (1..Len(p))
  BY <1>1 DEF NameStarts
<1>3. IsFiniteSet(1..Len(p))
  BY <1>1, FS_Interval
<1>4. IsFiniteSet(NameStarts(p))
  BY <1>2, <1>3, FS_Subset
<1>5. \A n \in 1..Len(p) : n \in Nat
  OBVIOUS
<1> QED  BY <1>2, <1>4, <1>5, FS_CardinalityType

\* The k-th name of a path is the one whose start has rank k.
LEMMA NamesByRank ==
    ASSUME NEW p \in Text,
           NEW size, size = Cardinality(NameStarts(p))
    PROVE  /\ size \in Nat
           /\ NameRank(p) \in [NameStarts(p) -> 1..size]
           /\ \A k \in 1..size : \E n \in NameStarts(p) : NameRank(p)[n] = k
           /\ \A n \in NameStarts(p) : Names(p)[NameRank(p)[n]] = NameAt(p, n)
           /\ Names(p) \in Seq(Range(Names(p)))
           /\ Len(Names(p)) = size
<1>1. PICK Rank, S : Rank = NameRank(p) /\ S = NameStarts(p)
  OBVIOUS
<1>2. /\ size \in Nat
      /\ Rank \in [S -> 1..size]
      /\ \A i, j \in S : Rank[i] = Rank[j] => i = j
      /\ \A k \in 1..size : \E i \in S : Rank[i] = k
  <2>1. Rank = [n \in S |-> Cardinality({m \in S : m <= n})]
    BY <1>1 DEF NameRank
  <2>2. S \in SUBSET Nat /\ IsFiniteSet(S) /\ size = Cardinality(S)
    BY <1>1, StartsType
  <2> QED  BY <2>1, <2>2, Ranked
<1>3. Names(p) = [k \in 1..size |-> NameAt(p, CHOOSE n \in S : Rank[n] = k)]
  BY <1>1 DEF Names
<1>4. ASSUME NEW n \in S
      PROVE  Names(p)[Rank[n]] = NameAt(p, n)
  <2>1. PICK k \in 1..size : k = Rank[n]
    BY <1>2
  <2>2. (CHOOSE m \in S : Rank[m] = k) = n
    BY <1>2, <2>1
  <2>3. Names(p)[k] = NameAt(p, CHOOSE m \in S : Rank[m] = k)
    BY <1>3
  <2> QED  BY <2>1, <2>2, <2>3
<1>5. Names(p) \in Seq(Range(Names(p))) /\ Len(Names(p)) = size
  <2>1. PICK names : names = Names(p)
    OBVIOUS
  <2>2. DOMAIN names = 1..size /\ names = [k \in 1..size |-> names[k]]
    BY <1>3, <2>1
  <2>3. \A k \in 1..size : names[k] \in Range(names)
    BY <2>2 DEF Range
  <2> QED  BY <1>2, <2>1, <2>2, <2>3
<1> QED  BY <1>1, <1>2, <1>4, <1>5

-----------------------------------------------------------------------------
\* No name goes across from the one text to the other.
Apart(a, b) ==
    /\ a \in Text /\ b \in Text
    /\ a = <<>> \/ b = <<>> \/ a[Len(a)] = Slash \/ b[1] = Slash

\* The one text behind the other, character by character.
Behind(ab, a, b, la, lb) ==
    /\ ab = a \o b
    /\ a \in Text /\ b \in Text /\ ab \in Text
    /\ la = Len(a) /\ lb = Len(b) /\ la \in Nat /\ lb \in Nat
    /\ DOMAIN a = 1..la /\ DOMAIN b = 1..lb /\ DOMAIN ab = 1..la + lb
    /\ Len(ab) = la + lb
    /\ \A i \in 1..la : ab[i] = a[i]
    /\ \A i \in 1..lb : ab[la + i] = b[i]
    /\ la > 0 /\ lb > 0 => a[la] = Slash \/ b[1] = Slash

LEMMA Concatenated ==
    ASSUME NEW a, NEW b, Apart(a, b)
    PROVE  Behind(a \o b, a, b, Len(a), Len(b))
<1>1. a \in Seq(Character) /\ b \in Seq(Character) /\ Len(a) \in Nat /\ Len(b) \in Nat
  BY DEF Text, Apart
<1>2. PICK ab, la, lb : ab = a \o b /\ la = Len(a) /\ lb = Len(b)
  OBVIOUS
<1>3. /\ ab \in Seq(Character) /\ Len(ab) = la + lb
      /\ \A i \in 1..la + lb : ab[i] = IF i <= la THEN a[i] ELSE b[i - la]
  BY <1>1, <1>2, ConcatProperties
<1>4. \A i \in 1..la : ab[i] = a[i]
  BY <1>1, <1>2, <1>3
<1>5. ASSUME NEW i \in 1..lb PROVE ab[la + i] = b[i]
  <2>1. la + i \in 1..la + lb /\ ~(la + i <= la) /\ (la + i) - la = i
    BY <1>1, <1>2
  <2> QED  BY <1>3, <2>1
<1>6. DOMAIN a = 1..la /\ DOMAIN b = 1..lb /\ DOMAIN ab = 1..la + lb
  BY <1>1, <1>2, <1>3
<1>7. la > 0 /\ lb > 0 => a[la] = Slash \/ b[1] = Slash
  BY <1>1, <1>2 DEF Apart
<1> QED  BY <1>1, <1>2, <1>3, <1>4, <1>5, <1>6, <1>7 DEF Behind, Text

\* The names of both texts begin where they did.
LEMMA StartsOfBoth ==
    ASSUME NEW ab, NEW a, NEW b, NEW la, NEW lb, Behind(ab, a, b, la, lb)
    PROVE  NameStarts(ab) = NameStarts(a) \cup Further(la, NameStarts(b))
<1>1. ASSUME NEW n \in NameStarts(ab)
      PROVE  n \in NameStarts(a) \/ \E k \in NameStarts(b) : n = la + k
  <2>1. n \in 1..la + lb /\ la \in Nat /\ lb \in Nat /\ ab[n] # Slash
        /\ (n = 1 \/ ab[n - 1] = Slash)
    BY DEF NameStarts, Behind
  <2>2. CASE n <= la
    <3>1. n \in 1..la /\ (n # 1 => n - 1 \in 1..la)
      BY <2>1, <2>2
    <3> QED  BY <2>1, <3>1 DEF NameStarts, Behind
  <2>3. CASE n > la
    <3>1. PICK k \in 1..lb : n = la + k
      <4>1. n - la \in 1..lb /\ n = la + (n - la)
        BY <2>1, <2>3
      <4> QED  BY <4>1
    <3>2. b[k] = ab[n]
      BY <3>1 DEF Behind
    <3>3. CASE k = 1
      BY <2>1, <3>1, <3>2, <3>3 DEF NameStarts, Behind
    <3>4. CASE k # 1
      <4>1. k - 1 \in 1..lb /\ n - 1 = la + (k - 1) /\ n # 1
        BY <2>1, <3>1, <3>4
      <4>2. b[k - 1] = ab[n - 1]
        BY <4>1 DEF Behind
      <4> QED  BY <2>1, <3>1, <3>2, <4>1, <4>2 DEF NameStarts, Behind
    <3> QED  BY <3>3, <3>4
  <2> QED  BY <2>1, <2>2, <2>3
<1>2. ASSUME NEW n \in NameStarts(a) PROVE n \in NameStarts(ab)
  <2>1. n \in 1..la /\ la \in Nat /\ lb \in Nat /\ a[n] # Slash
        /\ (n = 1 \/ a[n - 1] = Slash)
    BY DEF NameStarts, Behind
  <2>2. n \in 1..la + lb /\ (n # 1 => n - 1 \in 1..la)
    BY <2>1
  <2> QED  BY <2>1, <2>2 DEF NameStarts, Behind
<1>3. ASSUME NEW n \in NameStarts(b) PROVE la + n \in NameStarts(ab)
  <2>1. n \in 1..lb /\ la \in Nat /\ lb \in Nat /\ b[n] # Slash
        /\ (n = 1 \/ b[n - 1] = Slash)
    BY DEF NameStarts, Behind
  <2>2. la + n \in 1..la + lb
    BY <2>1
  <2>3. ab[la + n] = b[n] /\ DOMAIN ab = 1..la + lb
    BY <2>1 DEF Behind
  <2>4. CASE n = 1
    <3>1. (la + n) - 1 = la /\ (la # 0 => la \in 1..la /\ la > 0) /\ lb > 0
      BY <2>1, <2>4
    <3>2. la = 0 \/ ab[la] = Slash
      BY <2>1, <2>4, <3>1 DEF Behind
    <3>3. la + n = 1 \/ ab[(la + n) - 1] = Slash
      BY <2>1, <2>4, <3>1, <3>2
    <3> QED  BY <2>1, <2>2, <2>3, <3>3 DEF NameStarts
  <2>5. CASE n # 1
    <3>1. n - 1 \in 1..lb /\ (la + n) - 1 = la + (n - 1)
      BY <2>1, <2>5
    <3>2. ab[(la + n) - 1] = b[n - 1]
      BY <2>1, <3>1 DEF Behind
    <3> QED  BY <2>1, <2>2, <2>3, <2>5, <3>2 DEF NameStarts
  <2> QED  BY <2>4, <2>5
<1> QED  BY <1>1, <1>2, <1>3 DEF Further

\* A run is a few numbers, one at least.
LEMMA RunType ==
    ASSUME NEW p \in Text, NEW n \in NameStarts(p)
    PROVE  /\ NameRun(p, n) \in SUBSET Nat /\ IsFiniteSet(NameRun(p, n))
           /\ Cardinality(NameRun(p, n)) \in 1..Len(p) - n + 1
<1>1. n \in 1..Len(p) /\ Len(p) \in Nat /\ DOMAIN p = 1..Len(p) /\ p[n] # Slash
  BY DEF NameStarts, Text
<1>2. NameRun(p, n) \in SUBSET (n..Len(p))
  BY <1>1 DEF NameRun
<1>3. n \in NameRun(p, n)
  <2>1. n <= n /\ \A k \in n..n : k = n
    BY <1>1
  <2> QED  BY <1>1, <2>1 DEF NameRun
<1>4. IsFiniteSet(n..Len(p)) /\ Cardinality(n..Len(p)) = Len(p) - n + 1
  <2>1. n \in Int /\ Len(p) \in Int /\ ~(n > Len(p))
    BY <1>1
  <2> QED  BY <2>1, FS_Interval
<1>5. IsFiniteSet(NameRun(p, n)) /\ Cardinality(NameRun(p, n)) <= Len(p) - n + 1
  BY <1>2, <1>4, FS_Subset
<1>6. Cardinality(NameRun(p, n)) \in Nat /\ Cardinality(NameRun(p, n)) # 0
  BY <1>3, <1>5, FS_CardinalityType, FS_EmptySet
<1>7. \A m \in n..Len(p) : m \in Nat
  BY <1>1
<1> QED  BY <1>1, <1>2, <1>5, <1>6, <1>7

\* The names of the first text are what they were,
LEMMA NameOfFirst ==
    ASSUME NEW ab, NEW a, NEW b, NEW la, NEW lb, Behind(ab, a, b, la, lb),
           NEW n \in NameStarts(a)
    PROVE  NameAt(ab, n) = NameAt(a, n)
<1>1. /\ n \in 1..la /\ la \in Nat /\ lb \in Nat
      /\ DOMAIN a = 1..la /\ DOMAIN ab = 1..la + lb
  BY DEF NameStarts, Behind
<1>2. ASSUME NEW m \in NameRun(ab, n) PROVE m \in NameRun(a, n)
  <2>1. m \in 1..la + lb /\ n <= m /\ \A k \in n..m : ab[k] # Slash
    BY <1>1 DEF NameRun
  <2>2. m <= la
    <3>1. SUFFICES ASSUME m > la PROVE FALSE
      BY <1>1, <2>1
    <3>2. /\ la + 1 \in n..m /\ 1 \in 1..lb /\ lb > 0
          /\ la \in n..m /\ la \in 1..la /\ la > 0
      BY <1>1, <2>1, <3>1
    <3>3. ab[la + 1] = Slash \/ ab[la] = Slash
      BY <3>2 DEF Behind
    <3> QED  BY <2>1, <3>2, <3>3
  <2>3. m \in 1..la /\ \A k \in n..m : k \in 1..la
    BY <1>1, <2>1, <2>2
  <2>4. \A k \in n..m : a[k] # Slash
    BY <2>1, <2>3 DEF Behind
  <2> QED  BY <1>1, <2>1, <2>3, <2>4 DEF NameRun
<1>3. ASSUME NEW m \in NameRun(a, n) PROVE m \in NameRun(ab, n)
  <2>1. m \in 1..la /\ n <= m /\ \A k \in n..m : a[k] # Slash
    BY <1>1 DEF NameRun
  <2>2. m \in 1..la + lb /\ \A k \in n..m : k \in 1..la
    BY <1>1, <2>1
  <2>3. \A k \in n..m : ab[k] # Slash
    BY <2>1, <2>2 DEF Behind
  <2> QED  BY <1>1, <2>1, <2>2, <2>3 DEF NameRun
<1>4. PICK e : e = n + Cardinality(NameRun(a, n)) - 1
  OBVIOUS
<1>5. NameAt(a, n) = SubSeq(a, n, e) /\ NameAt(ab, n) = SubSeq(ab, n, e)
  <2>1. NameRun(ab, n) = NameRun(a, n)
    BY <1>2, <1>3
  <2> QED  BY <1>4, <2>1 DEF NameAt
<1>6. e \in 1..la
  <2>1. PICK c : c = Cardinality(NameRun(a, n)) /\ c \in 1..la - n + 1
    BY RunType DEF Behind
  <2> QED  BY <1>1, <1>4, <2>1
<1>7. a \in Seq(Character) /\ b \in Seq(Character) /\ la = Len(a) /\ ab = a \o b
  BY DEF Behind, Text
<1> QED  BY <1>1, <1>5, <1>6, <1>7, SubSeqOfConcat1

\* and those of the second too, further back.
LEMMA NameOfSecond ==
    ASSUME NEW ab, NEW a, NEW b, NEW la, NEW lb, Behind(ab, a, b, la, lb),
           NEW n \in NameStarts(b), NEW f, IsFurther(f, la, n)
    PROVE  NameAt(ab, f) = NameAt(b, n)
<1>1. /\ n \in 1..lb /\ la \in Nat /\ lb \in Nat
      /\ DOMAIN b = 1..lb /\ DOMAIN ab = 1..la + lb
  BY DEF NameStarts, Behind
<1>2. ASSUME NEW m \in NameRun(ab, la + n)
      PROVE  \E j \in NameRun(b, n) : m = la + j
  <2>1. m \in 1..la + lb /\ la + n <= m /\ \A k \in la + n..m : ab[k] # Slash
    BY <1>1 DEF NameRun
  <2>2. PICK j \in 1..lb : m = la + j /\ n <= j
    <3>1. m - la \in 1..lb /\ m = la + (m - la) /\ n <= m - la
      BY <1>1, <2>1
    <3> QED  BY <3>1
  <2>3. ASSUME NEW k \in n..j PROVE b[k] # Slash
    <3>1. k \in 1..lb /\ la + k \in la + n..m
      BY <1>1, <2>2
    <3>2. ab[la + k] = b[k]
      BY <3>1 DEF Behind
    <3> QED  BY <2>1, <3>1, <3>2
  <2> QED  BY <1>1, <2>2, <2>3 DEF NameRun
<1>3. ASSUME NEW j \in NameRun(b, n)
      PROVE  la + j \in NameRun(ab, la + n)
  <2>1. j \in 1..lb /\ n <= j /\ \A k \in n..j : b[k] # Slash
    BY <1>1 DEF NameRun
  <2>2. la + j \in 1..la + lb /\ la + n <= la + j
    BY <1>1, <2>1
  <2>3. ASSUME NEW k \in la + n..la + j PROVE ab[k] # Slash
    <3>1. k - la \in n..j /\ k - la \in 1..lb /\ k = la + (k - la)
      BY <1>1, <2>1
    <3>2. ab[la + (k - la)] = b[k - la]
      BY <3>1 DEF Behind
    <3> QED  BY <2>1, <3>1, <3>2
  <2> QED  BY <1>1, <2>2, <2>3 DEF NameRun
<1>4. PICK c : c = Cardinality(NameRun(b, n)) /\ c \in 1..lb - n + 1
  BY RunType DEF Behind
<1>5. Cardinality(NameRun(ab, la + n)) = c
  <2>1. NameRun(ab, la + n) = Further(la, NameRun(b, n))
    BY <1>2, <1>3 DEF Further
  <2>2. NameRun(b, n) \in SUBSET Nat /\ IsFiniteSet(NameRun(b, n)) /\ la \in Nat
    BY <1>1, RunType DEF Behind
  <2> QED  BY <1>4, <2>1, <2>2, Moved
<1>6. PICK l : l = f + c - 1
  OBVIOUS
<1>7. NameAt(b, n) = SubSeq(b, n, n + c - 1) /\ NameAt(ab, f) = SubSeq(ab, f, l)
  BY <1>4, <1>5, <1>6 DEF NameAt, IsFurther
<1>8. /\ f \in la + 1..la + lb /\ l \in la + 1..la + lb
      /\ f - la = n /\ l - la = n + c - 1
  BY <1>1, <1>4, <1>6 DEF IsFurther
<1>9. a \in Seq(Character) /\ b \in Seq(Character) /\ la = Len(a) /\ lb = Len(b) /\ ab = a \o b
  BY DEF Behind, Text
<1>10. SubSeq(ab, f, l) = SubSeq(b, f - la, l - la)
  BY <1>8, <1>9, SubSeqOfConcat2
<1> QED  BY <1>7, <1>8, <1>10

\* The size of a set of starts and one of starts further back.
LEMMA SizeOfBoth ==
    ASSUME NEW la \in Nat, NEW A \in SUBSET (1..la), NEW B \in SUBSET Nat, IsFiniteSet(B),
           \A n \in B : n > 0,
           NEW U, U = A \cup Further(la, B)
    PROVE  IsFiniteSet(U) /\ Cardinality(U) = Cardinality(A) + Cardinality(B)
<1>1. PICK M : M = Further(la, B)
  OBVIOUS
<1>2. IsFiniteSet(M) /\ Cardinality(M) = Cardinality(B)
  BY <1>1, Moved
<1>3. IsFiniteSet(A)
  <2>1. IsFiniteSet(1..la)
    BY FS_Interval
  <2> QED  BY <2>1, FS_Subset
<1>4. A \cap M = {}
  <2>1. ASSUME NEW n \in B PROVE la + n \notin A
    <3>1. n \in Nat /\ n > 0
      OBVIOUS
    <3>2. la + n \notin 1..la
      BY <3>1
    <3> QED  BY <3>2
  <2> QED  BY <1>1, <2>1 DEF Further
<1>5. IsFiniteSet(A \cup M)
      /\ Cardinality(A \cup M) = Cardinality(A) + Cardinality(M) - Cardinality(A \cap M)
  BY <1>2, <1>3, FS_Union
<1>6. Cardinality(A) \in Nat /\ Cardinality(M) \in Nat /\ Cardinality({}) = 0
  BY <1>2, <1>3, FS_CardinalityType, FS_EmptySet
<1>7. Cardinality(A \cup M) = Cardinality(A) + Cardinality(M)
  <2>1. Cardinality(A \cap M) = 0
    BY <1>4, <1>6
  <2>2. PICK cu, ca, cm, cn :
          /\ cu = Cardinality(A \cup M) /\ ca = Cardinality(A)
          /\ cm = Cardinality(M) /\ cn = Cardinality(A \cap M)
    OBVIOUS
  <2>3. cu = ca + cm - cn /\ ca \in Nat /\ cm \in Nat /\ cn = 0
    BY <1>5, <1>6, <2>1, <2>2
  <2>4. cu = ca + cm
    BY ONLY <2>3
  <2> QED  BY <2>2, <2>4
<1> QED  BY <1>1, <1>2, <1>5, <1>7

\* The names of the first text keep their places, those of the second follow.
LEMMA RanksOfBoth ==
    ASSUME NEW ab, NEW a, NEW b, NEW la, NEW lb, Behind(ab, a, b, la, lb),
           NEW size, size = Cardinality(NameStarts(a))
    PROVE  /\ \A n \in NameStarts(a) : NameRank(ab)[n] = NameRank(a)[n]
           /\ \A n \in NameStarts(b) : NameRank(ab)[la + n] = size + NameRank(b)[n]
           /\ Cardinality(NameStarts(ab)) = size + Cardinality(NameStarts(b))
<1>1. /\ la \in Nat /\ lb \in Nat /\ a \in Text /\ b \in Text
      /\ la = Len(a) /\ lb = Len(b)
  BY DEF Behind
<1>2. /\ NameStarts(a) \in SUBSET (1..la) /\ NameStarts(b) \in SUBSET (1..lb)
      /\ NameStarts(b) \in SUBSET Nat /\ IsFiniteSet(NameStarts(b))
  BY <1>1, StartsType
<1>3. PICK A, B, U : A = NameStarts(a) /\ B = NameStarts(b) /\ U = NameStarts(ab)
  OBVIOUS
<1>4. U = A \cup Further(la, B)
  BY <1>3, StartsOfBoth
<1>5. /\ A \in SUBSET (1..la) /\ B \in SUBSET (1..lb) /\ B \in SUBSET Nat
      /\ IsFiniteSet(B) /\ \A n \in B : n > 0
  BY <1>1, <1>2, <1>3
<1>6. ASSUME NEW n \in A PROVE NameRank(ab)[n] = NameRank(a)[n]
  <2>1. {m \in U : m <= n} = {m \in A : m <= n}
    <3>1. \A m \in B : ~(la + m <= n)
      BY <1>1, <1>5
    <3> QED  BY <1>4, <3>1 DEF Further
  <2>2. n \in U
    BY <1>4
  <2> QED  BY <1>3, <2>1, <2>2 DEF NameRank
<1>7. ASSUME NEW n \in B PROVE NameRank(ab)[la + n] = size + NameRank(b)[n]
  <2>1. PICK D : D = {m \in B : m <= n}
    OBVIOUS
  <2>2. {m \in U : m <= la + n} = A \cup Further(la, D)
    <3>1. \A m \in B : m <= n <=> la + m <= la + n
      BY <1>1, <1>5
    <3>2. \A m \in A : m <= la + n
      BY <1>1, <1>5
    <3> QED  BY <1>4, <2>1, <3>1, <3>2 DEF Further
  <2>3. D \in SUBSET B /\ D \in SUBSET Nat /\ \A m \in D : m > 0
    BY <1>5, <2>1
  <2>4. IsFiniteSet(D)
    BY <1>5, <2>3, FS_Subset
  <2>5. Cardinality({m \in U : m <= la + n}) = Cardinality(A) + Cardinality(D)
    <3>1. PICK V : V = A \cup Further(la, D)
      OBVIOUS
    <3>2. Cardinality(V) = Cardinality(A) + Cardinality(D)
      BY <1>1, <1>5, <2>3, <2>4, <3>1, SizeOfBoth
    <3> QED  BY <2>2, <3>1, <3>2
  <2>6. la + n \in U
    BY <1>4 DEF Further
  <2>7. NameRank(ab)[la + n] = Cardinality({m \in U : m <= la + n})
    BY <1>3, <2>6 DEF NameRank
  <2>8. NameRank(b)[n] = Cardinality(D)
    BY <1>3, <2>1 DEF NameRank
  <2> QED  BY <1>3, <2>5, <2>7, <2>8
<1>8. Cardinality(U) = Cardinality(A) + Cardinality(B)
  BY <1>1, <1>4, <1>5, SizeOfBoth
<1> QED  BY <1>3, <1>6, <1>7, <1>8

\* The names of a text behind another come behind its names.
LEMMA NamesOfBoth ==
    ASSUME NEW a, NEW b, Apart(a, b)
    PROVE  Names(a \o b) = Names(a) \o Names(b)
<1>1. PICK ab, la, lb : ab = a \o b /\ la = Len(a) /\ lb = Len(b)
  OBVIOUS
<1>2. Behind(ab, a, b, la, lb)
  BY <1>1, Concatenated
<1>3. ab \in Text /\ a \in Text /\ b \in Text
  BY <1>2 DEF Behind
<1>4. PICK sa, sb, su : /\ sa = Cardinality(NameStarts(a)) /\ sb = Cardinality(NameStarts(b))
                        /\ su = Cardinality(NameStarts(ab))
  OBVIOUS
<1>5. /\ \A n \in NameStarts(a) : NameRank(ab)[n] = NameRank(a)[n]
      /\ \A n \in NameStarts(b) : NameRank(ab)[la + n] = sa + NameRank(b)[n]
      /\ su = sa + sb
  BY <1>2, <1>4, RanksOfBoth
<1>6. PICK na, nb, nu : na = Names(a) /\ nb = Names(b) /\ nu = Names(ab)
  OBVIOUS
<1>7. /\ sa \in Nat /\ na \in Seq(Range(na)) /\ Len(na) = sa
      /\ \A k \in 1..sa : \E n \in NameStarts(a) : NameRank(a)[n] = k
      /\ \A n \in NameStarts(a) : na[NameRank(a)[n]] = NameAt(a, n)
  BY <1>3, <1>4, <1>6, NamesByRank
<1>8. /\ sb \in Nat /\ nb \in Seq(Range(nb)) /\ Len(nb) = sb
      /\ \A k \in 1..sb : \E n \in NameStarts(b) : NameRank(b)[n] = k
      /\ \A n \in NameStarts(b) : nb[NameRank(b)[n]] = NameAt(b, n)
  BY <1>3, <1>4, <1>6, NamesByRank
<1>9. /\ nu \in Seq(Range(nu)) /\ Len(nu) = su
      /\ \A n \in NameStarts(ab) : nu[NameRank(ab)[n]] = NameAt(ab, n)
  BY <1>3, <1>4, <1>6, NamesByRank
<1>10. NameStarts(ab) = NameStarts(a) \cup Further(la, NameStarts(b))
  BY <1>2, StartsOfBoth
<1>11. ASSUME NEW k \in 1..sa PROVE nu[k] = na[k]
  <2>1. PICK n \in NameStarts(a) : NameRank(a)[n] = k
    BY <1>7
  <2>2. nu[k] = NameAt(ab, n)
    BY <1>5, <1>9, <1>10, <2>1
  <2>3. na[k] = NameAt(a, n)
    BY <1>7, <2>1
  <2> QED  BY <1>1, <1>2, <2>2, <2>3, NameOfFirst
<1>12. ASSUME NEW k \in 1..sb PROVE nu[sa + k] = nb[k]
  <2>1. PICK n \in NameStarts(b) : NameRank(b)[n] = k
    BY <1>8
  <2>2. nu[sa + k] = NameAt(ab, la + n)
    BY <1>5, <1>9, <1>10, <2>1 DEF Further
  <2>3. nb[k] = NameAt(b, n)
    BY <1>8, <2>1
  <2>4. NameAt(ab, la + n) = NameAt(b, n)
    <3>1. PICK f : IsFurther(f, la, n)
      BY DEF IsFurther
    <3>2. NameAt(ab, f) = NameAt(b, n)
      BY <1>1, <1>2, <2>1, <3>1, NameOfSecond
    <3> QED  BY <3>1, <3>2 DEF IsFurther
  <2> QED  BY <2>2, <2>3, <2>4
<1>13. PICK T : T = Range(na) \cup Range(nb) \cup Range(nu)
  OBVIOUS
<1>14. na \in Seq(T) /\ nb \in Seq(T) /\ nu \in Seq(T)
  BY <1>7, <1>8, <1>9, <1>13
<1> HIDE <1>1
<1>15. PICK c : c = na \o nb
  OBVIOUS
<1>16. /\ c \in Seq(T) /\ Len(c) = sa + sb
       /\ \A i \in 1..sa + sb : c[i] = IF i <= sa THEN na[i] ELSE nb[i - sa]
  <2>1. /\ c \in Seq(T) /\ Len(c) = Len(na) + Len(nb)
        /\ \A i \in 1..Len(na) + Len(nb) :
              c[i] = IF i <= Len(na) THEN na[i] ELSE nb[i - Len(na)]
    BY <1>14, <1>15, ConcatProperties
  <2>2. Len(na) = sa /\ Len(nb) = sb
    BY <1>7, <1>8
  <2> QED  BY <2>1, <2>2
<1>17. \A i \in 1..sa + sb : c[i] = nu[i]
  <2> SUFFICES ASSUME NEW i \in 1..sa + sb PROVE c[i] = nu[i]
    OBVIOUS
  <2>1. CASE i <= sa
    <3>1. i \in 1..sa
      BY <1>7, <1>8, <2>1
    <3> QED  BY <1>11, <1>16, <2>1, <3>1
  <2>2. CASE ~(i <= sa)
    <3>1. i - sa \in 1..sb /\ sa + (i - sa) = i
      BY <1>7, <1>8, <2>2
    <3> QED  BY <1>12, <1>16, <2>2, <3>1
  <2> QED  BY <2>1, <2>2
<1>18. c = nu
  BY <1>5, <1>7, <1>8, <1>9, <1>14, <1>16, <1>17
<1> QED  BY <1>1, <1>6, <1>15, <1>18

-----------------------------------------------------------------------------
\* Any numbers have a least one.
LEMMA Least ==
    ASSUME NEW kept \in SUBSET Nat, IsFiniteSet(kept), kept # {}
    PROVE  \E n \in kept : \A m \in kept : n <= m
<1> DEFINE Upto(n) == {m \in kept : m <= n}
<1>1. PICK Rank, size :
        Rank = [n \in kept |-> Cardinality(Upto(n))] /\ size = Cardinality(kept)
  OBVIOUS
<1>2. /\ size \in Nat
      /\ \A k \in 1..size : \E i \in kept : Rank[i] = k
  BY <1>1, Ranked
<1>3. size # 0
  BY <1>1, FS_EmptySet
<1>4. PICK n \in kept : Rank[n] = 1
  <2>1. 1 \in 1..size
    BY <1>2, <1>3
  <2> QED  BY <1>2, <2>1
<1>5. \A m \in kept : m <= n => m = n
  <2>1. Cardinality(Upto(n)) = 1 /\ Upto(n) \in SUBSET kept /\ n \in Upto(n)
    BY <1>1, <1>4
  <2>2. \E x : Upto(n) = {x}
    <3> HIDE DEF Upto
    <3>1. IsFiniteSet(Upto(n))
      BY <2>1, FS_Subset
    <3> QED  BY <2>1, <3>1, FS_Singleton
  <2> QED  BY <2>1, <2>2
<1>6. \A m \in kept : n <= m
  <2>1. n \in Nat /\ \A m \in kept : m \in Nat
    BY <1>4
  <2> QED  BY <1>5, <2>1
<1> QED  BY <1>4, <1>6

\* A character that is no slash is in a name.
LEMMA InAName ==
    ASSUME NEW r \in Text, NEW e \in 1..Len(r), r[e] # Slash
    PROVE  \E n \in NameStarts(r) : n <= e /\ \A k \in n..e : r[k] # Slash
<1> DEFINE Z == {m \in 1..e : \A k \in m..e : r[k] # Slash}
<1>1. Len(r) \in Nat /\ e \in Nat /\ e > 0 /\ DOMAIN r = 1..Len(r)
  BY DEF Text
<1>2. e \in Z
  <2>1. e \in 1..e /\ \A k \in e..e : k = e
    BY <1>1
  <2> QED  BY <2>1
<1>3. PICK n \in Z : \A m \in Z : n <= m
  <2>1. Z \in SUBSET (1..e) /\ IsFiniteSet(1..e)
    BY <1>1, FS_Interval
  <2>2. Z \in SUBSET Nat
    BY <1>1
  <2> HIDE DEF Z
  <2>3. IsFiniteSet(Z)
    BY <2>1, FS_Subset
  <2> QED  BY <1>2, <2>2, <2>3, Least
<1>4. n \in 1..Len(r) /\ n <= e /\ r[n] # Slash
  <2>1. n \in n..e
    BY <1>1, <1>3
  <2> QED  BY <1>1, <1>3, <2>1
<1>5. n = 1 \/ r[n - 1] = Slash
  <2> SUFFICES ASSUME n # 1, r[n - 1] # Slash PROVE FALSE
    OBVIOUS
  <2>1. n - 1 \in 1..e /\ ~(n <= n - 1)
    BY <1>1, <1>4
  <2>2. ASSUME NEW k \in n - 1..e PROVE r[k] # Slash
    <3>1. k = n - 1 \/ k \in n..e
      BY <1>1, <1>4
    <3> QED  BY <1>3, <3>1
  <2>3. n - 1 \in Z
    BY <2>1, <2>2
  <2> QED  BY <1>3, <2>1, <2>3
<1>6. n \in NameStarts(r)
  BY <1>1, <1>4, <1>5 DEF NameStarts
<1> QED  BY <1>3, <1>4, <1>6

\* The root directory as a text.
LEMMA RootType ==
    /\ RootDirectory \in Text /\ Len(RootDirectory) = 1 /\ DOMAIN RootDirectory = 1..1
    /\ RootDirectory[1] = Slash
<1>1. PICK c : c = Slash /\ c \in Character
  BY TextsAssumption DEF TextsAssumption
<1>2. <<c>> \in Seq(Character)
  BY <1>1
<1>3. Len(<<c>>) = 1
  OBVIOUS
<1>4. DOMAIN <<c>> = 1..1
  OBVIOUS
<1>5. <<c>>[1] = c
  OBVIOUS
<1> QED  BY <1>1, <1>2, <1>3, <1>4, <1>5 DEF Text, RootDirectory

\* Slashes alone are no name.
LEMMA NoNames ==
    /\ Names(<<>>) = <<>>
    /\ Names(RootDirectory) = <<>>
<1>1. ASSUME NEW p \in Text, NameStarts(p) = {}
      PROVE  Names(p) = <<>>
  <2>1. Cardinality(NameStarts(p)) = 0
    BY <1>1, FS_EmptySet
  <2>2. Len(Names(p)) = 0 /\ Names(p) \in Seq(Range(Names(p)))
    BY <2>1, NamesByRank
  <2>3. PICK names, T : names = Names(p) /\ T = Range(Names(p))
    OBVIOUS
  <2>4. names \in Seq(T) /\ Len(names) = 0
    BY <2>2, <2>3
  <2> QED  BY <2>3, <2>4, EmptySeq
<1>2. <<>> \in Text /\ NameStarts(<<>>) = {}
  BY DEF Text, NameStarts
<1>3. RootDirectory \in Text /\ NameStarts(RootDirectory) = {}
  <2>1. \A n \in 1..1 : n = 1
    OBVIOUS
  <2> QED  BY <2>1, RootType DEF NameStarts
<1> QED  BY <1>1, <1>2, <1>3

\* A word with names is the slashes in front of them and what follows.
Parts(w, l, t) ==
    /\ l \in Text /\ t \in Text /\ w = l \o t
    /\ \A k \in 1..Len(l) : l[k] = Slash
    /\ t # <<>> /\ t[1] # Slash

\* The directory, and the slash that g_build_filename puts behind it.
Opened(dir) == IF dir = RootDirectory THEN dir ELSE dir \o RootDirectory

\* What g_build_filename makes: the slashes in front of the word's names are
\* dropped, unless there are no names.
LEMMA FilenameParts ==
    ASSUME NEW dir \in Text, NEW w \in Text, w # <<>>,
           NEW item, item = BuildFilename(dir, w)
    PROVE  \/ (\A n \in 1..Len(w) : w[n] = Slash) /\ item = dir \o w
           \/ \E l, t : Parts(w, l, t) /\ item = Opened(dir) \o t
<1>1. PICK named : named = {n \in 1..Len(w) : w[n] # Slash}
  OBVIOUS
<1>2. w \in Seq(Character) /\ Len(w) \in Nat /\ DOMAIN w = 1..Len(w)
  BY DEF Text
<1>3. item = IF named = {} THEN dir \o w ELSE Opened(dir) \o SubSeq(w, Min(named), Len(w))
  BY <1>1, <1>2 DEF BuildFilename, Opened
<1>4. CASE named = {}
  BY <1>1, <1>3, <1>4
<1>5. CASE named # {}
  <2>1. named \in SUBSET Nat /\ IsFiniteSet(named)
    <3>1. IsFiniteSet(1..Len(w)) /\ named \subseteq 1..Len(w)
      BY <1>1, <1>2, FS_Interval
    <3>2. \A n \in named : n \in Nat
      BY <1>2, <3>1
    <3> QED  BY <3>1, <3>2, FS_Subset
  <2>2. PICK m \in named : m = Min(named) /\ \A n \in named : m <= n
    <3>1. \E n \in named : \A k \in named : n <= k
      BY <1>5, <2>1, Least
    <3> QED  BY <3>1 DEF Min
  <2>3. /\ m \in 1..Len(w) /\ w[m] # Slash /\ m \in Nat
        /\ \A n \in 1..m - 1 : w[n] = Slash
    <3>1. m \in 1..Len(w) /\ w[m] # Slash /\ m \in Nat
      BY <1>1, <1>2, <2>2
    <3>2. \A n \in 1..m - 1 : n \in 1..Len(w) /\ ~(m <= n)
      BY <1>2, <3>1
    <3> QED  BY <1>1, <2>2, <3>1, <3>2
  <2>4. PICK l, t : l = SubSeq(w, 1, m - 1) /\ t = SubSeq(w, m, Len(w))
    OBVIOUS
  <2>5. \A i \in 1..Len(w) : w[i] \in Character
    BY <1>2
  <2>6. /\ 1 \in Int /\ m - 1 \in Int /\ m \in Int /\ Len(w) \in Int
        /\ \A i \in 1..m - 1 : i \in 1..Len(w)
        /\ \A i \in m..Len(w) : i \in 1..Len(w)
    BY <1>2, <2>3
  <2>7. l \in Text /\ Len(l) = m - 1 /\ \A k \in 1..Len(l) : l[k] = Slash
    <3>1. /\ l \in Seq(Character) /\ Len(l) = IF 1 <= m - 1 THEN (m - 1) - 1 + 1 ELSE 0
          /\ \A i \in 1..(m - 1) - 1 + 1 : l[i] = w[1 + i - 1]
      BY <2>4, <2>5, <2>6, SubSeqProperties
    <3>2. Len(l) = m - 1 /\ \A i \in 1..m - 1 : l[i] = w[i]
      BY <2>3, <3>1
    <3> QED  BY <2>3, <3>1, <3>2 DEF Text
  <2>8. t \in Text /\ t # <<>> /\ t[1] # Slash
    <3>1. /\ t \in Seq(Character) /\ Len(t) = IF m <= Len(w) THEN Len(w) - m + 1 ELSE 0
          /\ \A i \in 1..Len(w) - m + 1 : t[i] = w[m + i - 1]
      BY <2>4, <2>5, <2>6, SubSeqProperties
    <3>2. Len(t) > 0 /\ 1 \in 1..Len(w) - m + 1 /\ m + 1 - 1 = m
      BY <1>2, <2>3, <3>1
    <3>3. t[1] = w[m]
      BY <3>1, <3>2
    <3> QED  BY <2>3, <3>1, <3>2, <3>3 DEF Text
  <2>9. w = l \o t
    <3>1. 1 \in 1..Len(w) + 1 /\ m - 1 \in 1 - 1..Len(w) /\ Len(w) \in m - 1..Len(w)
          /\ (m - 1) + 1 = m
      BY <1>2, <2>3
    <3>2. SubSeq(w, 1, m - 1) \o SubSeq(w, (m - 1) + 1, Len(w)) = SubSeq(w, 1, Len(w))
      BY <1>2, <3>1, ConcatAdjacentSubSeq
    <3>3. SubSeq(w, 1, Len(w)) = w
      BY <1>2, SubSeqFull
    <3> QED  BY <2>4, <3>1, <3>2, <3>3
  <2>10. Parts(w, l, t)
    BY <2>7, <2>8, <2>9 DEF Parts
  <2>11. item = Opened(dir) \o t
    BY <1>3, <1>5, <2>2, <2>4
  <2> QED  BY <2>10, <2>11
<1> QED  BY <1>4, <1>5

\* A text of slashes has no names.
LEMMA SlashesHaveNoNames ==
    ASSUME NEW p \in Text, \A n \in 1..Len(p) : p[n] = Slash
    PROVE  Names(p) = <<>>
<1>1. NameStarts(p) = {}
  BY DEF NameStarts, Text
<1>2. Cardinality(NameStarts(p)) = 0
  BY <1>1, FS_EmptySet
<1>3. Len(Names(p)) = 0 /\ Names(p) \in Seq(Range(Names(p)))
  BY <1>2, NamesByRank
<1>4. PICK names, T : names = Names(p) /\ T = Range(Names(p))
  OBVIOUS
<1>5. names \in Seq(T) /\ Len(names) = 0
  BY <1>3, <1>4
<1> QED  BY <1>4, <1>5, EmptySeq

\* A directory is called the same with the slash behind it.
LEMMA OpenedNames ==
    ASSUME NEW dir \in Text
    PROVE  /\ Opened(dir) \in Text /\ Opened(dir) # <<>> /\ Names(Opened(dir)) = Names(dir)
           /\ Opened(dir)[Len(Opened(dir))] = Slash
<1>1. CASE dir = RootDirectory
  <2>1. Opened(dir) = RootDirectory
    BY <1>1 DEF Opened
  <2>2. RootDirectory # <<>> /\ RootDirectory[Len(RootDirectory)] = Slash
    BY RootType
  <2> QED  BY <1>1, <2>1, <2>2, RootType
<1>2. CASE dir # RootDirectory
  <2>1. PICK d : d = dir \o RootDirectory
    OBVIOUS
  <2>2. Apart(dir, RootDirectory)
    BY RootType DEF Apart
  <2>3. Names(d) = Names(dir) \o Names(RootDirectory)
    BY <2>1, <2>2, NamesOfBoth
  <2>4. Names(dir) \o <<>> = Names(dir)
    BY NamesByRank, ConcatEmptySeq
  <2>5. /\ d \in Seq(Character) /\ Len(d) = Len(dir) + Len(RootDirectory)
        /\ \A i \in 1..Len(dir) + Len(RootDirectory) :
              d[i] = IF i <= Len(dir) THEN dir[i] ELSE RootDirectory[i - Len(dir)]
    <3>1. dir \in Seq(Character) /\ RootDirectory \in Seq(Character)
      BY RootType DEF Text
    <3> QED  BY <2>1, <3>1, ConcatProperties
  <2>6. /\ Len(dir) \in Nat /\ Len(d) = Len(dir) + 1 /\ Len(d) \in 1..Len(dir) + Len(RootDirectory)
        /\ ~(Len(d) <= Len(dir)) /\ Len(d) - Len(dir) = 1
    <3>1. Len(dir) \in Nat
      BY DEF Text
    <3> QED  BY <2>5, <3>1, RootType
  <2>7. d[Len(d)] = Slash
    BY <2>5, <2>6, RootType
  <2>8. d # <<>>
    BY <2>6
  <2>9. Opened(dir) = d
    BY <1>2, <2>1 DEF Opened
  <2> QED  BY <2>3, <2>4, <2>5, <2>7, <2>8, <2>9, NoNames DEF Text
<1> QED  BY <1>1, <1>2

\* Where two texts meet at a slash, the last character is that of the second.
LEMMA LastOfBoth ==
    ASSUME NEW a \in Text, NEW b \in Text, b # <<>>, NEW c, c = a \o b
    PROVE  c \in Text /\ c # <<>> /\ c[Len(c)] = b[Len(b)]
<1>1. a \in Seq(Character) /\ b \in Seq(Character) /\ Len(a) \in Nat /\ Len(b) \in Nat /\ Len(b) > 0
  BY DEF Text
<1>2. /\ c \in Seq(Character) /\ Len(c) = Len(a) + Len(b)
      /\ \A i \in 1..Len(a) + Len(b) : c[i] = IF i <= Len(a) THEN a[i] ELSE b[i - Len(a)]
  BY <1>1, ConcatProperties
<1>3. Len(c) \in 1..Len(a) + Len(b) /\ ~(Len(c) <= Len(a)) /\ Len(c) - Len(a) = Len(b)
  BY <1>1, <1>2
<1>4. c[Len(c)] = b[Len(b)]
  BY <1>2, <1>3
<1> QED  BY <1>1, <1>2, <1>4 DEF Text

\* What g_build_filename makes: the names of the root, and those of the word.
LEMMA FilenameNames ==
    ASSUME NEW dir \in Text, NEW w \in Text, w # <<>>,
           NEW item, item = BuildFilename(dir, w)
    PROVE  /\ item \in Text /\ item # <<>>
           /\ Names(item) = Names(dir) \o Names(w)
           /\ item[Len(item)] = w[Len(w)]
<1>1. CASE (\A n \in 1..Len(w) : w[n] = Slash) /\ item = dir \o w
  <2>1. 1 \in 1..Len(w)
    BY DEF Text
  <2>2. Apart(dir, w)
    BY <1>1, <2>1 DEF Apart
  <2>3. Names(item) = Names(dir) \o Names(w)
    BY <1>1, <2>2, NamesOfBoth
  <2> QED  BY <1>1, <2>3, LastOfBoth
<1>2. ASSUME NEW l, NEW t, Parts(w, l, t), item = Opened(dir) \o t
      PROVE  /\ item \in Text /\ item # <<>>
             /\ Names(item) = Names(dir) \o Names(w)
             /\ item[Len(item)] = w[Len(w)]
  <2>1. l \in Text /\ t \in Text /\ w = l \o t /\ t # <<>>
    BY <1>2 DEF Parts
  <2>2. item \in Text /\ item # <<>> /\ item[Len(item)] = t[Len(t)] /\ w[Len(w)] = t[Len(t)]
    BY <1>2, <2>1, OpenedNames, LastOfBoth
  <2>3. Names(w) = Names(t)
    <3>1. Apart(l, t)
      <4>1. l # <<>> => Len(l) \in 1..Len(l)
        BY <2>1 DEF Text
      <4>2. l # <<>> => l[Len(l)] = Slash
        BY <1>2, <4>1 DEF Parts
      <4> QED  BY <2>1, <4>2 DEF Apart
    <3>2. Names(w) = Names(l) \o Names(t)
      BY <2>1, <3>1, NamesOfBoth
    <3>3. Names(l) = <<>>
      BY <1>2, <2>1, SlashesHaveNoNames DEF Parts
    <3>4. <<>> \o Names(t) = Names(t)
      BY <2>1, NamesByRank, ConcatEmptySeq
    <3> QED  BY <3>2, <3>3, <3>4
  <2>4. Names(item) = Names(dir) \o Names(t)
    <3>1. Apart(Opened(dir), t)
      BY <2>1, OpenedNames DEF Apart
    <3>2. Names(item) = Names(Opened(dir)) \o Names(t)
      BY <1>2, <3>1, NamesOfBoth
    <3> QED  BY <3>2, OpenedNames
  <2> QED  BY <2>2, <2>3, <2>4
<1> QED  BY <1>1, <1>2, FilenameParts

\* A text begins as it begins, however long it goes on.
LEMMA PrefixOfBoth ==
    ASSUME NEW T, NEW a \in Seq(T), NEW b \in Seq(T)
    PROVE  IsPrefix(a, a \o b) /\ (a = a \o b => b = <<>>)
<1>1. PICK c : c = a \o b
  OBVIOUS
<1>2. /\ c \in Seq(T) /\ Len(c) = Len(a) + Len(b)
      /\ \A i \in 1..Len(a) + Len(b) : c[i] = IF i <= Len(a) THEN a[i] ELSE b[i - Len(a)]
  BY <1>1, ConcatProperties
<1>3. Len(a) \in Nat /\ Len(b) \in Nat /\ Len(a) <= Len(c)
  BY <1>2
<1>4. SubSeq(c, 1, Len(a)) = SubSeq(a, 1, Len(a))
  <2>1. CASE Len(a) = 0
    <3>1. 1 \in Int /\ 0 \in Int /\ 0 < 1
      OBVIOUS
    <3> QED  BY <2>1, <3>1, SubSeqEmpty
  <2>2. CASE Len(a) # 0
    <3>1. 1 \in 1..Len(a) /\ Len(a) \in 1..Len(a)
      BY <1>3, <2>2
    <3> QED  BY <1>1, <3>1, SubSeqOfConcat1
  <2> QED  BY <2>1, <2>2
<1>5. IsPrefix(a, c)
  BY <1>3, <1>4 DEF IsPrefix
<1>6. a = c => b = <<>>
  BY <1>1, ConcatEqualIffEmpty
<1> QED  BY <1>1, <1>5, <1>6

\* What lies below a path is the path, but for a slash at its end, and the rest
\* that begins with a slash.
LEMMA BelowIsBehind ==
    ASSUME NEW item \in Text, item # <<>>, NEW path \in Text,
           NEW r \in MatchPrefix(path, item), StartsWithSlash(r)
    PROVE  /\ r \in Text /\ r # <<>> /\ r[1] = Slash
           /\ \E base \in Text : path = base \o r /\ Names(base) = Names(item)
<1>1. PICK n : n = IF item # <<>> /\ Last(item) = Slash THEN Len(item) - 1 ELSE Len(item)
  OBVIOUS
<1>3. IsPrefix(item, path) /\ r = SubSeq(path, n + 1, Len(path))
  BY <1>1 DEF MatchPrefix
<1>4. /\ Len(item) \in Nat /\ Len(item) > 0 /\ Len(path) \in Nat /\ Len(item) <= Len(path)
      /\ SubSeq(item, 1, Len(item)) = SubSeq(path, 1, Len(item))
  BY <1>3 DEF IsPrefix, Text
<1>5. n \in 0..Len(item) /\ (Last(item) = Slash => n = Len(item) - 1)
      /\ (Last(item) # Slash => n = Len(item))
  BY <1>1, <1>4
<1>6. item = SubSeq(path, 1, Len(item))
  BY <1>4, SubSeqFull DEF Text
<1>7. r # <<>> /\ r[1] = Slash
  BY DEF StartsWithSlash
<1>8. PICK base : base = SubSeq(path, 1, n)
  OBVIOUS
<1>9. base \in Text /\ r \in Text
  <2>1. \A i \in 1..Len(path) : path[i] \in Character
    BY DEF Text
  <2>2. /\ \A i \in 1..n : i \in 1..Len(path)
        /\ \A i \in n + 1..Len(path) : i \in 1..Len(path)
        /\ 1 \in Int /\ n \in Int /\ n + 1 \in Int /\ Len(path) \in Int
    BY <1>4, <1>5
  <2>3. base \in Seq(Character)
    BY <1>8, <2>1, <2>2, SubSeqProperties
  <2>4. r \in Seq(Character)
    BY <1>3, <2>1, <2>2, SubSeqProperties
  <2> QED  BY <2>3, <2>4 DEF Text
<1>10. path = base \o r
  <2>1. 1 \in 1..Len(path) + 1 /\ n \in 1 - 1..Len(path) /\ Len(path) \in n..Len(path)
    BY <1>4, <1>5
  <2>2. SubSeq(path, 1, n) \o SubSeq(path, n + 1, Len(path)) = SubSeq(path, 1, Len(path))
    BY <2>1, ConcatAdjacentSubSeq DEF Text
  <2>3. SubSeq(path, 1, Len(path)) = path
    BY SubSeqFull DEF Text
  <2> QED  BY <1>3, <1>8, <2>2, <2>3
<1>11. Names(base) = Names(item)
  <2>1. CASE Last(item) # Slash
    BY <1>5, <1>6, <1>8, <2>1
  <2>2. CASE Last(item) = Slash
    <3>1. n = Len(item) - 1 /\ n + 1 = Len(item)
      BY <1>4, <1>5, <2>2
    <3>2. /\ 1 \in 1..Len(path) + 1 /\ n \in 1 - 1..Len(path)
          /\ Len(item) \in n..Len(path) /\ Len(item) \in 1..Len(path)
          /\ n + 1 \in 1..Len(path) /\ 1 \in 1..Len(path)
      BY <1>4, <1>5, <3>1
    <3>3. item = base \o SubSeq(path, Len(item), Len(item))
      <4>1. SubSeq(path, 1, n) \o SubSeq(path, n + 1, Len(item)) = SubSeq(path, 1, Len(item))
        BY <3>2, ConcatAdjacentSubSeq DEF Text
      <4> QED  BY <1>6, <1>8, <3>1, <4>1
    <3>4. SubSeq(path, Len(item), Len(item)) = RootDirectory
      <4>1. path[Len(item)] = Slash
        <5>1. Len(item) \in 1..Len(item) - 1 + 1 /\ 1 + Len(item) - 1 = Len(item)
              /\ \A i \in 1..Len(item) : path[i] \in Character
          BY <1>4 DEF Text
        <5>2. item[Len(item)] = path[Len(item)]
          BY <1>4, <1>6, <5>1, SubSeqProperties
        <5> QED  BY <2>2, <5>2 DEF Last
      <4>2. PICK l : l = Len(item) /\ l \in 1..Len(path)
        BY <3>2
      <4>3. PICK s : s = SubSeq(path, l, l)
        OBVIOUS
      <4>4. s \in Seq(Character) /\ Len(s) = 1 /\ s[1] = path[l]
        <5>1. l \in Int /\ l <= l /\ l - l + 1 = 1 /\ 1 \in 1..1 /\ l + 1 - 1 = l
              /\ \A i \in l..l : path[i] \in Character
          BY <4>2 DEF Text
        <5>2. /\ s \in Seq(Character)
              /\ Len(s) = IF l <= l THEN l - l + 1 ELSE 0
              /\ \A i \in 1..l - l + 1 : s[i] = path[l + i - 1]
          BY <4>3, <5>1, SubSeqProperties
        <5> QED  BY <5>1, <5>2
      <4>5. s = RootDirectory
        BY <4>1, <4>2, <4>4, RootType DEF Text
      <4> QED  BY <4>2, <4>3, <4>5
    <3>5. Apart(base, RootDirectory)
      BY <1>9, RootType DEF Apart
    <3>6. Names(item) = Names(base) \o Names(RootDirectory)
      BY <3>3, <3>4, <3>5, NamesOfBoth
    <3>7. Names(base) \o <<>> = Names(base)
      BY <1>9, NamesByRank, ConcatEmptySeq
    <3> QED  BY <3>6, <3>7, NoNames
  <2> QED  BY <2>1, <2>2
<1> QED  BY <1>7, <1>9, <1>10, <1>11

\* What an item of the list covers is within its word.
LEMMA CoveredIsWithin ==
    ASSUME root \in Text, NEW w \in Text, w # <<>>, NEW path \in Text,
           Covers(BuildFilename(root, w), path)
    PROVE  Within(w, path)
<1>1. PICK item : item = BuildFilename(root, w)
  OBVIOUS
<1>2. PICK names : names = Names(root) \o Names(w)
  OBVIOUS
<1>3. /\ item \in Text /\ item # <<>> /\ Names(item) = names
      /\ item[Len(item)] = w[Len(w)]
  BY <1>1, <1>2, FilenameNames
<1>4. names \in Seq(Range(names))
  <2>1. Names(item) \in Seq(Range(Names(item)))
    BY <1>3, NamesByRank
  <2> QED  BY <1>3, <2>1
<1>5. CASE item = path
  <2>1. names = Names(path) /\ Last(path) = Last(w)
    BY <1>3, <1>5 DEF Last
  <2>2. IsPrefix(names, names)
    <3>1. PICK T : T = Range(names)
      OBVIOUS
    <3>2. names \in Seq(T) /\ <<>> \in Seq(T) /\ names \o <<>> = names
      BY <1>4, <3>1, ConcatEmptySeq
    <3> QED  BY <3>2, PrefixOfBoth
  <2> QED  BY <1>2, <2>1, <2>2 DEF Within
<1>6. CASE IsDescendant(item, path)
  <2> PICK r \in MatchPrefix(path, item) : StartsWithSlash(r)
    BY <1>6 DEF IsDescendant
  <2>1. PICK base \in Text :
          /\ path = base \o r /\ Names(base) = names
          /\ r \in Text /\ r # <<>> /\ r[1] = Slash
    BY <1>3, BelowIsBehind
  <2>2. Apart(base, r)
    BY <2>1 DEF Apart
  <2>3. Names(path) = names \o Names(r)
    BY <2>1, <2>2, NamesOfBoth
  <2>4. PICK nr, T : nr = Names(r) /\ T = Range(names) \cup Range(nr)
    OBVIOUS
  <2>5. nr \in Seq(Range(nr)) /\ Len(nr) = Cardinality(NameStarts(r))
    BY <2>1, <2>4, NamesByRank
  <2>6. names \in Seq(T) /\ nr \in Seq(T)
    BY <1>4, <2>4, <2>5
  <2>7. IsPrefix(names, Names(path)) /\ (names = Names(path) => nr = <<>>)
    BY <2>3, <2>4, <2>6, PrefixOfBoth
  <2>8. nr = <<>> => Last(path) = Slash
    <3> SUFFICES ASSUME nr = <<>> PROVE Last(path) = Slash
      OBVIOUS
    <3>1. NameStarts(r) = {}
      <4>1. Cardinality(NameStarts(r)) = 0
        BY <2>5
      <4> QED  BY <2>1, <4>1, StartsType, FS_EmptySet
    <3>2. r[Len(r)] = Slash
      <4>1. Len(r) \in 1..Len(r)
        BY <2>1 DEF Text
      <4> QED  BY <2>1, <3>1, <4>1, InAName
    <3>3. path[Len(path)] = r[Len(r)]
      <4>1. /\ Len(path) = Len(base) + Len(r) /\ Len(base) \in Nat /\ Len(r) \in Nat
            /\ Len(r) > 0
            /\ \A i \in 1..Len(base) + Len(r) :
                  path[i] = IF i <= Len(base) THEN base[i] ELSE r[i - Len(base)]
        BY <2>1, ConcatProperties DEF Text
      <4>2. Len(path) \in 1..Len(base) + Len(r) /\ ~(Len(path) <= Len(base))
            /\ Len(path) - Len(base) = Len(r)
        BY <4>1
      <4> QED  BY <4>1, <4>2
    <3> QED  BY <3>2, <3>3 DEF Last
  <2> QED  BY <1>2, <2>7, <2>8 DEF Within
<1> QED  BY <1>1, <1>5, <1>6 DEF Covers

-----------------------------------------------------------------------------
\* A prefix, character by character.
LEMMA PrefixByItems ==
    ASSUME NEW T, NEW p \in Seq(T), NEW q \in Seq(T)
    PROVE  IsPrefix(p, q) <=> Len(p) <= Len(q) /\ \A i \in 1..Len(p) : p[i] = q[i]
<1>1. Len(p) \in Nat /\ Len(q) \in Nat
  OBVIOUS
<1>2. ASSUME Len(p) <= Len(q)
      PROVE  SubSeq(p, 1, Len(p)) = SubSeq(q, 1, Len(p)) <=> \A i \in 1..Len(p) : p[i] = q[i]
  <2>1. PICK l, sp, sq : l = Len(p) /\ sp = SubSeq(p, 1, l) /\ sq = SubSeq(q, 1, l)
    OBVIOUS
  <2>2. /\ l \in Nat /\ 1 \in Int /\ l \in Int /\ l - 1 + 1 = l /\ (~(1 <= l) => l = 0)
        /\ \A i \in 1..l : p[i] \in T /\ q[i] \in T /\ 1 + i - 1 = i
    BY <1>1, <1>2, <2>1
  <2>3. /\ sp \in Seq(T) /\ Len(sp) = IF 1 <= l THEN l - 1 + 1 ELSE 0
        /\ \A i \in 1..l - 1 + 1 : sp[i] = p[1 + i - 1]
    BY <2>1, <2>2, SubSeqProperties
  <2>4. /\ sq \in Seq(T) /\ Len(sq) = IF 1 <= l THEN l - 1 + 1 ELSE 0
        /\ \A i \in 1..l - 1 + 1 : sq[i] = q[1 + i - 1]
    BY <2>1, <2>2, SubSeqProperties
  <2>5. sp \in Seq(T) /\ Len(sp) = l /\ \A i \in 1..l : sp[i] = p[i]
    BY <2>2, <2>3
  <2>6. sq \in Seq(T) /\ Len(sq) = l /\ \A i \in 1..l : sq[i] = q[i]
    BY <2>2, <2>4
  <2>7. (\A i \in 1..l : p[i] = q[i]) => sp = sq
    BY <2>2, <2>5, <2>6
  <2>8. sp = sq => \A i \in 1..l : p[i] = q[i]
    BY <2>5, <2>6
  <2> QED  BY <2>1, <2>7, <2>8
<1> QED  BY <1>1, <1>2 DEF IsPrefix

\* How far a name reaches says how long it is.
LEMMA RunReaches ==
    ASSUME NEW p \in Text, NEW s \in NameStarts(p), NEW d \in Nat, s <= d,
           \A k \in s..d - 1 : k \in DOMAIN p /\ p[k] # Slash,
           NEW c, c = Cardinality(NameRun(p, s))
    PROVE  d \in DOMAIN p /\ p[d] # Slash <=> c >= d - s + 1
<1>1. /\ s \in 1..Len(p) /\ s \in Nat /\ Len(p) \in Nat /\ DOMAIN p = 1..Len(p)
      /\ NameRun(p, s) \in SUBSET Nat /\ IsFiniteSet(NameRun(p, s))
      /\ c \in Nat
  <2>1. /\ c \in 1..Len(p) - s + 1
        /\ NameRun(p, s) \in SUBSET Nat /\ IsFiniteSet(NameRun(p, s))
    BY RunType
  <2>2. s \in 1..Len(p) /\ Len(p) \in Nat /\ DOMAIN p = 1..Len(p)
    BY DEF NameStarts, Text
  <2> QED  BY <2>1, <2>2
<1>2. CASE d \in DOMAIN p /\ p[d] # Slash
  <2>1. s..d \in SUBSET NameRun(p, s)
    <3> SUFFICES ASSUME NEW m \in s..d PROVE m \in NameRun(p, s)
      OBVIOUS
    <3>1. m \in 1..Len(p) /\ s <= m
      BY <1>1, <1>2
    <3>2. \A k \in s..m : k = d \/ k \in s..d - 1
      BY <1>1
    <3> QED  BY <1>1, <1>2, <3>1, <3>2 DEF NameRun
  <2>2. Cardinality(s..d) = d - s + 1
    <3>1. s \in Int /\ d \in Int /\ ~(s > d)
      BY <1>1
    <3> QED  BY <3>1, FS_Interval
  <2>3. Cardinality(s..d) <= c
    BY <1>1, <2>1, FS_Subset
  <2> QED  BY <1>1, <1>2, <2>2, <2>3
<1>3. CASE ~(d \in DOMAIN p /\ p[d] # Slash)
  <2>1. NameRun(p, s) \in SUBSET (s..d - 1)
    <3> SUFFICES ASSUME NEW m \in NameRun(p, s) PROVE m \in s..d - 1
      OBVIOUS
    <3>1. m \in 1..Len(p) /\ s <= m /\ \A k \in s..m : p[k] # Slash
      BY <1>1 DEF NameRun
    <3>2. m < d
      <4> SUFFICES ASSUME m >= d PROVE FALSE
        BY <1>1, <3>1
      <4>1. d \in s..m /\ d \in 1..Len(p)
        BY <1>1, <3>1
      <4> QED  BY <1>1, <1>3, <3>1, <4>1
    <3> QED  BY <1>1, <3>1, <3>2
  <2>2. IsFiniteSet(s..d - 1) /\ Cardinality(s..d - 1) = d - s
    <3>1. s \in Int /\ d - 1 \in Int /\ (s > d - 1 => d - s = 0) /\ d - 1 - s + 1 = d - s
      BY <1>1
    <3> QED  BY <3>1, FS_Interval
  <2>3. c <= d - s
    BY <2>1, <2>2, FS_Subset
  <2>4. ~(c >= d - s + 1)
    BY <1>1, <2>3
  <2> QED  BY <1>3, <2>4
<1> QED  BY <1>2, <1>3

\* A name by its characters.
LEMMA NameByChars ==
    ASSUME NEW p \in Text, NEW s \in NameStarts(p),
           NEW c, c = Cardinality(NameRun(p, s)),
           NEW name, name = NameAt(p, s)
    PROVE  /\ name \in Text /\ Len(name) = c /\ c \in Nat
           /\ \A i \in 1..c : name[i] = p[s + i - 1]
<1>1. /\ c \in 1..Len(p) - s + 1 /\ s \in 1..Len(p) /\ Len(p) \in Nat
      /\ \A i \in 1..Len(p) : p[i] \in Character
  <2>1. s \in 1..Len(p) /\ Len(p) \in Nat /\ \A i \in 1..Len(p) : p[i] \in Character
    BY DEF NameStarts, Text
  <2> QED  BY <2>1, RunType
<1>2. PICK e : e = s + c - 1
  OBVIOUS
<1>3. /\ s \in Int /\ e \in Int /\ s <= e /\ e - s + 1 = c /\ c \in Nat
      /\ \A i \in s..e : i \in 1..Len(p)
  BY <1>1, <1>2
<1>4. name = SubSeq(p, s, e)
  BY <1>2 DEF NameAt
<1>5. /\ name \in Seq(Character) /\ Len(name) = IF s <= e THEN e - s + 1 ELSE 0
      /\ \A i \in 1..e - s + 1 : name[i] = p[s + i - 1]
  BY <1>1, <1>3, <1>4, SubSeqProperties
<1> QED  BY <1>3, <1>5 DEF Text

\* A path as a directory: from a slash to a slash.
Closed(p) ==
    /\ p \in Text /\ p # <<>>
    /\ p[1] = Slash /\ p[Len(p)] = Slash /\ ~Doubled(p)

\* The same up to d.
Agree(p, q, d) == \A i \in 1..d - 1 : i <= Len(p) /\ i <= Len(q) /\ p[i] = q[i]

\* Texts that are the same up to d begin the same names before it,
LEMMA StartsAgree ==
    ASSUME NEW p \in Text, NEW q \in Text, NEW d \in Nat, Agree(p, q, d),
           NEW n \in NameStarts(p), n < d
    PROVE  n \in NameStarts(q)
<1>1. /\ n \in 1..Len(p) /\ p[n] # Slash /\ (n = 1 \/ p[n - 1] = Slash)
      /\ DOMAIN q = 1..Len(q) /\ Len(p) \in Nat /\ Len(q) \in Nat
  BY DEF NameStarts, Text
<1>2. n \in 1..d - 1 /\ (n # 1 => n - 1 \in 1..d - 1)
  BY <1>1
<1>3. n \in 1..Len(q)
  BY <1>1, <1>2 DEF Agree
<1> QED  BY <1>1, <1>2, <1>3 DEF NameStarts, Agree

\* and a name that begins there in both has one rank.
LEMMA RanksAgree ==
    ASSUME NEW p \in Text, NEW q \in Text, NEW d \in Nat, Agree(p, q, d), Agree(q, p, d),
           NEW s \in NameStarts(p), s \in NameStarts(q), s <= d
    PROVE  NameRank(p)[s] = NameRank(q)[s]
<1>1. NameStarts(p) \in SUBSET Nat /\ NameStarts(q) \in SUBSET Nat
  BY StartsType
<1>2. ASSUME NEW m, m <= s
      PROVE  m \in NameStarts(p) <=> m \in NameStarts(q)
  <2>1. CASE m = s
    BY <2>1
  <2>2. CASE m # s
    <3>1. m \in NameStarts(p) => m < d
      BY <1>1, <1>2, <2>2
    <3>2. m \in NameStarts(q) => m < d
      BY <1>1, <1>2, <2>2
    <3> QED  BY <3>1, <3>2, StartsAgree
  <2> QED  BY <2>1, <2>2
<1>3. {m \in NameStarts(p) : m <= s} = {m \in NameStarts(q) : m <= s}
  BY <1>2
<1> QED  BY <1>3 DEF NameRank

\* A directory whose names go on in those of another is the front of its text.
LEMMA NamesArePrefix ==
    ASSUME NEW p, NEW q, Closed(p), Closed(q), IsPrefix(Names(p), Names(q))
    PROVE  IsPrefix(p, q)
<1> DEFINE D == {i \in 1..Len(p) : ~(i <= Len(q) /\ p[i] = q[i])}
<1>1. /\ p \in Text /\ q \in Text /\ p \in Seq(Character) /\ q \in Seq(Character)
      /\ Len(p) \in Nat /\ Len(q) \in Nat /\ Len(p) > 0 /\ Len(q) > 0
      /\ DOMAIN p = 1..Len(p) /\ DOMAIN q = 1..Len(q)
      /\ p[1] = Slash /\ q[1] = Slash /\ p[Len(p)] = Slash /\ q[Len(q)] = Slash
  BY DEF Closed, Text
<1>2. /\ \A n \in 2..Len(p) : p[n - 1] = Slash => p[n] # Slash
      /\ \A n \in 2..Len(q) : q[n - 1] = Slash => q[n] # Slash
  BY DEF Closed, Doubled
<1>3. PICK sp, sq : sp = Cardinality(NameStarts(p)) /\ sq = Cardinality(NameStarts(q))
  OBVIOUS
<1>4. /\ sp \in Nat /\ sq \in Nat /\ sp <= sq
      /\ \A k \in 1..sp : Names(p)[k] = Names(q)[k]
  <2>1. PICK np, nq, T : np = Names(p) /\ nq = Names(q) /\ T = Range(np) \cup Range(nq)
    OBVIOUS
  <2>2. np \in Seq(Range(np)) /\ Len(np) = sp /\ sp \in Nat
    BY <1>1, <1>3, <2>1, NamesByRank
  <2>3. nq \in Seq(Range(nq)) /\ Len(nq) = sq /\ sq \in Nat
    BY <1>1, <1>3, <2>1, NamesByRank
  <2>4. np \in Seq(T) /\ nq \in Seq(T)
    BY <2>1, <2>2, <2>3
  <2>5. Len(np) <= Len(nq) /\ \A i \in 1..Len(np) : np[i] = nq[i]
    BY <2>1, <2>4, PrefixByItems
  <2> QED  BY <2>1, <2>2, <2>3, <2>5
<1>5. SUFFICES ASSUME D # {} PROVE FALSE
  <2>1. CASE D = {}
    <3>1. \A i \in 1..Len(p) : i <= Len(q) /\ p[i] = q[i]
      BY <2>1
    <3>2. Len(p) \in 1..Len(p)
      BY <1>1
    <3> HIDE DEF D
    <3>3. Len(p) <= Len(q) /\ \A i \in 1..Len(p) : p[i] = q[i]
      BY <3>1, <3>2
    <3> QED  BY <1>1, <3>3, PrefixByItems
  <2> QED  BY <2>1
<1>6. PICK d \in D : \A i \in D : d <= i
  <2>1. D \in SUBSET (1..Len(p))
    OBVIOUS
  <2> HIDE DEF D
  <2>2. IsFiniteSet(1..Len(p)) /\ \A i \in 1..Len(p) : i \in Nat
    BY <1>1, FS_Interval
  <2>3. IsFiniteSet(D)
    BY <2>1, <2>2, FS_Subset
  <2>4. D \in SUBSET Nat
    BY <2>1, <2>2
  <2> QED  BY <1>5, <2>3, <2>4, Least
<1>7. d \in 1..Len(p) /\ d \in Nat /\ ~(d <= Len(q) /\ p[d] = q[d])
  BY <1>1, <1>6
<1>8. Agree(p, q, d) /\ Agree(q, p, d)
  <2>1. ASSUME NEW i \in 1..d - 1 PROVE i <= Len(p) /\ i <= Len(q) /\ p[i] = q[i]
    <3>1. i \in 1..Len(p) /\ ~(d <= i)
      BY <1>1, <1>7
    <3> QED  BY <1>1, <1>6, <3>1
  <2> QED  BY <2>1 DEF Agree
<1>9. d # 1
  BY <1>1, <1>7
<1> HIDE DEF D
<1>10. /\ d \in 2..Len(p) /\ d - 1 \in 1..d - 1 /\ d - 1 \in 1..Len(p)
       /\ d - 1 \in 1..Len(q) /\ p[d - 1] = q[d - 1]
  <2>1. d \in 2..Len(p) /\ d - 1 \in 1..d - 1 /\ d - 1 \in 1..Len(p)
    BY <1>1, <1>7, <1>9
  <2>2. d - 1 <= Len(q) /\ p[d - 1] = q[d - 1]
    BY <1>8, <2>1 DEF Agree
  <2> QED  BY <1>1, <2>1, <2>2
<1>11. /\ d <= Len(q)
       /\ \E s \in NameStarts(p) : /\ s \in NameStarts(q) /\ s <= d
                                   /\ \A k \in s..d - 1 : p[k] # Slash
  <2>1. CASE p[d - 1] = Slash
    <3>1. p[d] # Slash /\ d \in NameStarts(p)
      <4>1. p[d] # Slash
        BY <1>2, <1>10, <2>1
      <4> QED  BY <1>1, <1>7, <2>1, <4>1 DEF NameStarts
    <3>2. d <= Len(q)
      <4> SUFFICES ASSUME d > Len(q) PROVE FALSE
        BY <1>1, <1>7
      <4>1. NameStarts(q) \in SUBSET NameStarts(p) /\ d \notin NameStarts(q)
        <5>1. \A n \in NameStarts(q) : n < d
          <6>1. NameStarts(q) \in SUBSET (1..Len(q))
            BY <1>1, StartsType
          <6> QED  BY <1>1, <1>7, <6>1
        <5> QED  BY <1>1, <1>7, <1>8, <5>1, StartsAgree
      <4>2. IsFiniteSet(NameStarts(p))
        BY <1>1, StartsType
      <4>3. sq <= sp /\ sp # sq
        BY <1>3, <3>1, <4>1, <4>2, FS_Subset
      <4> QED  BY <1>4, <4>3
    <3>3. q[d] # Slash
      <4>1. d \in 2..Len(q)
        BY <1>1, <1>10, <3>2
      <4> QED  BY <1>2, <1>10, <2>1, <4>1
    <3>4. d \in NameStarts(q)
      <4>1. d \in 1..Len(q)
        BY <1>1, <1>7, <3>2
      <4> QED  BY <1>1, <1>10, <2>1, <3>3, <4>1 DEF NameStarts
    <3>5. d <= d /\ \A k \in d..d - 1 : FALSE
      BY <1>7
    <3> QED  BY <3>1, <3>2, <3>4, <3>5
  <2>2. CASE p[d - 1] # Slash
    <3>1. PICK s \in NameStarts(p) : s <= d - 1 /\ \A k \in s..d - 1 : p[k] # Slash
      BY <1>1, <1>10, <2>2, InAName
    <3>2. s \in Nat /\ s < d
      <4>1. s \in Nat
        BY <1>1, StartsType
      <4> QED  BY <1>7, <3>1, <4>1
    <3>3. s \in NameStarts(q) /\ s <= d
      BY <1>1, <1>7, <1>8, <3>1, <3>2, StartsAgree
    <3>4. d <= Len(q)
      <4>1. d - 1 # Len(q)
        BY <1>1, <1>10, <2>2
      <4> QED  BY <1>1, <1>7, <1>10, <4>1
    <3> QED  BY <3>1, <3>3, <3>4
  <2> QED  BY <2>1, <2>2
<1>12. PICK s \in NameStarts(p) : /\ s \in NameStarts(q) /\ s <= d
                                  /\ \A k \in s..d - 1 : p[k] # Slash
  BY <1>11
<1>13. NameAt(p, s) = NameAt(q, s)
  <2>1. NameRank(p)[s] = NameRank(q)[s]
    BY <1>1, <1>7, <1>8, <1>12, RanksAgree
  <2>2. PICK k \in 1..sp : k = NameRank(p)[s]
    BY <1>1, <1>3, <1>12, NamesByRank
  <2>3. Names(p)[k] = NameAt(p, s)
    BY <1>1, <1>12, <2>2, NamesByRank
  <2>4. Names(q)[k] = NameAt(q, s)
    BY <1>1, <1>12, <2>1, <2>2, NamesByRank
  <2> QED  BY <1>4, <2>2, <2>3, <2>4
<1>14. PICK c, e, name : /\ c = Cardinality(NameRun(p, s)) /\ e = Cardinality(NameRun(q, s))
                         /\ name = NameAt(p, s)
  OBVIOUS
<1>15. /\ Len(name) = c /\ c \in Nat /\ \A i \in 1..c : name[i] = p[s + i - 1]
  BY <1>1, <1>12, <1>14, NameByChars
<1>16. /\ Len(name) = e /\ \A i \in 1..e : name[i] = q[s + i - 1]
  BY <1>1, <1>12, <1>13, <1>14, NameByChars
<1>17. s \in Nat /\ s > 0
  <2>1. s \in 1..Len(p)
    BY <1>1, <1>12, StartsType
  <2> QED  BY <1>1, <2>1
<1>18. p[d] # Slash <=> c >= d - s + 1
  <2>1. \A k \in s..d - 1 : k \in DOMAIN p
    BY <1>1, <1>7, <1>17
  <2>2. d \in DOMAIN p /\ p[d] # Slash <=> c >= d - s + 1
    BY <1>1, <1>7, <1>12, <1>14, <2>1, RunReaches
  <2> QED  BY <1>1, <1>7, <2>2
<1>19. q[d] # Slash <=> c >= d - s + 1
  <2>1. \A k \in s..d - 1 : k \in 1..d - 1
    BY <1>7, <1>17
  <2>2. \A k \in s..d - 1 : k \in DOMAIN q /\ q[k] # Slash
    <3>1. \A k \in 1..d - 1 : k \in 1..Len(q)
      BY <1>1, <1>7, <1>11
    <3> QED  BY <1>1, <1>8, <1>12, <2>1, <3>1 DEF Agree
  <2>3. d \in DOMAIN q /\ q[d] # Slash <=> e >= d - s + 1
    BY <1>1, <1>7, <1>12, <1>14, <2>2, RunReaches
  <2>4. d \in DOMAIN q
    BY <1>1, <1>7, <1>11
  <2> QED  BY <1>15, <1>16, <2>3, <2>4
<1>20. CASE p[d] = Slash
  BY <1>7, <1>11, <1>18, <1>19, <1>20
<1>21. CASE p[d] # Slash
  <2>1. c >= d - s + 1
    BY <1>18, <1>21
  <2>2. PICK i \in 1..c : s + i - 1 = d
    <3>1. d - s + 1 \in 1..c /\ s + (d - s + 1) - 1 = d
      BY <1>7, <1>12, <1>15, <1>17, <2>1
    <3> QED  BY <3>1
  <2>3. p[d] = q[d]
    BY <1>15, <1>16, <2>2
  <2> QED  BY <1>7, <1>11, <2>3
<1> QED  BY <1>20, <1>21

-----------------------------------------------------------------------------
\* Two slashes in a row are in one of two texts, or between them.
LEMMA DoubledBoth ==
    ASSUME NEW a \in Text, NEW b \in Text, ~Doubled(a), b # <<>>,
           a # <<>> => a[Len(a)] # Slash \/ b[1] # Slash
    PROVE  Doubled(a \o b) <=> Doubled(b)
<1>1. PICK c, la, lb : c = a \o b /\ la = Len(a) /\ lb = Len(b)
  OBVIOUS
<1>2. /\ c \in Seq(Character) /\ Len(c) = Len(a) + Len(b)
      /\ \A i \in 1..Len(a) + Len(b) : c[i] = IF i <= Len(a) THEN a[i] ELSE b[i - Len(a)]
  BY <1>1, ConcatProperties DEF Text
<1>3. /\ la \in Nat /\ lb \in Nat /\ Len(c) = la + lb
      /\ \A i \in 1..la + lb : c[i] = IF i <= la THEN a[i] ELSE b[i - la]
  BY <1>1, <1>2 DEF Text
<1>4. ASSUME Doubled(b) PROVE Doubled(c)
  <2>1. PICK n \in 2..lb : b[n - 1] = Slash /\ b[n] = Slash
    BY <1>1, <1>4 DEF Doubled
  <2>2. /\ la + n \in 2..la + lb /\ la + n \in 1..la + lb /\ (la + n) - 1 \in 1..la + lb
        /\ ~(la + n <= la) /\ ~((la + n) - 1 <= la)
        /\ (la + n) - la = n /\ ((la + n) - 1) - la = n - 1
    BY <1>3, <2>1
  <2>3. c[la + n] = Slash /\ c[(la + n) - 1] = Slash
    BY <1>3, <2>1, <2>2
  <2> QED  BY <1>3, <2>2, <2>3 DEF Doubled
<1>5. ASSUME Doubled(c) PROVE Doubled(b)
  <2>1. PICK n \in 2..la + lb : c[n - 1] = Slash /\ c[n] = Slash
    BY <1>3, <1>5 DEF Doubled
  <2>2. n \in 1..la + lb /\ n - 1 \in 1..la + lb
    BY <1>3, <2>1
  <2>3. CASE n <= la
    <3>1. n \in 2..la /\ n - 1 <= la
      BY <1>3, <2>1, <2>3
    <3>2. a[n - 1] = Slash /\ a[n] = Slash
      BY <1>3, <2>1, <2>2, <3>1
    <3> QED  BY <1>1, <3>1, <3>2 DEF Doubled
  <2>4. CASE n = la + 1
    <3>1. n - 1 = la /\ n - la = 1 /\ la <= la /\ ~(n <= la)
      BY <1>3, <2>4
    <3>2. a[la] = Slash /\ b[1] = Slash
      BY <1>3, <2>1, <2>2, <3>1
    <3>3. a # <<>>
      BY <1>1, <1>3, <2>1, <2>4
    <3> QED  BY <1>1, <3>2, <3>3
  <2>5. CASE n > la + 1
    <3>1. /\ n - la \in 2..lb /\ ~(n <= la) /\ ~(n - 1 <= la)
          /\ (n - la) - 1 = (n - 1) - la
      BY <1>3, <2>1, <2>5
    <3>2. b[n - la] = Slash /\ b[(n - la) - 1] = Slash
      BY <1>3, <2>1, <2>2, <3>1
    <3> QED  BY <1>1, <3>1, <3>2 DEF Doubled
  <2> QED  BY <1>3, <2>1, <2>3, <2>4, <2>5
<1> QED  BY <1>1, <1>4, <1>5

\* The root directory has one slash.
LEMMA RootNotDoubled == ~Doubled(RootDirectory) /\ RootDirectory # <<>>
<1>1. 2..Len(RootDirectory) = {}
  BY RootType
<1>2. RootDirectory # <<>>
  BY RootType
<1> QED  BY <1>1, <1>2 DEF Doubled

\* A text begins as the first of the two that it is made of.
LEMMA FirstOfBoth ==
    ASSUME NEW a \in Text, a # <<>>, a[1] = Slash, NEW b \in Text
    PROVE  StartsWithSlash(a \o b)
<1>1. PICK c : c = a \o b
  OBVIOUS
<1>2. a \in Seq(Character) /\ b \in Seq(Character) /\ Len(a) \in Nat /\ Len(b) \in Nat /\ Len(a) > 0
  BY DEF Text
<1>3. /\ c \in Seq(Character) /\ Len(c) = Len(a) + Len(b)
      /\ \A i \in 1..Len(a) + Len(b) : c[i] = IF i <= Len(a) THEN a[i] ELSE b[i - Len(a)]
  BY <1>1, <1>2, ConcatProperties
<1>4. 1 \in 1..Len(a) + Len(b) /\ 1 <= Len(a) /\ c # <<>>
  BY <1>2, <1>3
<1>5. c[1] = Slash
  BY <1>3, <1>4
<1>6. Head(c) = c[1]
  BY <1>3, <1>4
<1> QED  BY <1>1, <1>4, <1>5, <1>6 DEF StartsWithSlash

\* What g_build_filename makes of a word has doubled slashes unless it is plain.
LEMMA FilenameDoubled ==
    ASSUME root \in Text, Canonical(root), NEW w \in Text, w # <<>>,
           NEW item, item = BuildFilename(root, w)
    PROVE  StartsWithSlash(item) /\ (Doubled(item) <=> ~Plain(w))
<1>1. /\ root # <<>> /\ root[1] = Slash /\ ~Doubled(root)
      /\ root # RootDirectory => root[Len(root)] # Slash
  BY DEF Canonical, StartsWithSlash, Last
<1>2. Len(w) \in Nat /\ Len(w) > 0 /\ DOMAIN w = 1..Len(w) /\ w \in Seq(Character)
  BY DEF Text
<1>3. CASE (\A n \in 1..Len(w) : w[n] = Slash) /\ item = root \o w
  <2>1. StartsWithSlash(item)
    BY <1>1, <1>3, FirstOfBoth
  <2>2. Plain(w) <=> w = RootDirectory /\ root # RootDirectory
    BY <1>2, <1>3 DEF Plain
  <2>3. CASE root = RootDirectory
    <3>1. /\ Len(item) = Len(RootDirectory) + Len(w)
          /\ \A i \in 1..Len(RootDirectory) + Len(w) :
                item[i] = IF i <= Len(RootDirectory) THEN RootDirectory[i]
                          ELSE w[i - Len(RootDirectory)]
      <4>1. RootDirectory \in Seq(Character)
        BY RootType DEF Text
      <4> QED  BY <1>2, <1>3, <2>3, <4>1, ConcatProperties
    <3>2. /\ 2 \in 2..Len(item) /\ 1 \in 1..Len(RootDirectory) + Len(w)
          /\ 2 \in 1..Len(RootDirectory) + Len(w) /\ ~(2 <= Len(RootDirectory))
          /\ 2 - Len(RootDirectory) = 1 /\ 1 \in 1..Len(w) /\ 1 <= Len(RootDirectory)
          /\ 2 - 1 = 1
      BY <1>2, <3>1, RootType
    <3>3. item[1] = Slash /\ item[2] = Slash
      BY <1>3, <3>1, <3>2, RootType
    <3>4. Doubled(item)
      BY <3>2, <3>3 DEF Doubled
    <3> QED  BY <2>1, <2>2, <2>3, <3>4
  <2>4. CASE root # RootDirectory
    <3>1. Doubled(item) <=> Doubled(w)
      BY <1>1, <1>3, <2>4, DoubledBoth
    <3>2. CASE Len(w) = 1
      <4>1. w[1] = Slash
        BY <1>2, <1>3
      <4>2. w = RootDirectory
        <5>1. RootDirectory \in Seq(Character)
          BY RootType DEF Text
        <5>2. \A i \in 1..Len(w) : w[i] = RootDirectory[i]
          BY <3>2, <4>1, RootType
        <5> QED  BY <1>2, <3>2, <5>1, <5>2, RootType
      <4> QED  BY <2>1, <2>2, <2>4, <3>1, <4>2, RootNotDoubled
    <3>3. CASE Len(w) # 1
      <4>1. 2 \in 2..Len(w) /\ 1 \in 1..Len(w) /\ 2 \in 1..Len(w) /\ 2 - 1 = 1
        BY <1>2, <3>3
      <4>2. Doubled(w)
        BY <1>3, <4>1 DEF Doubled
      <4>3. w # RootDirectory
        BY <3>3, RootType
      <4> QED  BY <2>1, <2>2, <3>1, <4>2, <4>3
    <3> QED  BY <3>2, <3>3
  <2> QED  BY <2>3, <2>4
<1>4. ASSUME NEW l, NEW t, Parts(w, l, t), item = Opened(root) \o t
      PROVE  StartsWithSlash(item) /\ (Doubled(item) <=> ~Plain(w))
  <2>1. l \in Text /\ t \in Text /\ w = l \o t /\ t # <<>> /\ t[1] # Slash
    BY <1>4 DEF Parts
  <2>2. ~Doubled(Opened(root)) /\ Opened(root) \in Text /\ Opened(root) # <<>> /\ Opened(root)[1] = Slash
    <3>1. CASE root = RootDirectory
      BY <1>1, <3>1 DEF Opened
    <3>2. CASE root # RootDirectory
      <4>1. Opened(root) = root \o RootDirectory
        BY <3>2 DEF Opened
      <4>2. ~Doubled(Opened(root))
        BY <1>1, <3>2, <4>1, RootType, RootNotDoubled, DoubledBoth
      <4>3. StartsWithSlash(Opened(root))
        BY <1>1, <4>1, RootType, FirstOfBoth
      <4>4. Opened(root) \in Text /\ Opened(root) # <<>>
        BY OpenedNames
      <4> QED  BY <4>2, <4>3, <4>4 DEF StartsWithSlash, Text
    <3> QED  BY <3>1, <3>2
  <2>3. StartsWithSlash(item)
    BY <1>4, <2>1, <2>2, FirstOfBoth
  <2>4. Doubled(item) <=> Doubled(t)
    BY <1>4, <2>1, <2>2, DoubledBoth
  <2>5. PICK ll, lt : ll = Len(l) /\ lt = Len(t)
    OBVIOUS
  <2>6. /\ ll \in Nat /\ lt \in Nat /\ lt > 0 /\ Len(w) = ll + lt
        /\ \A i \in 1..ll + lt : w[i] = IF i <= ll THEN l[i] ELSE t[i - ll]
    <3>1. l \in Seq(Character) /\ t \in Seq(Character)
      BY <2>1 DEF Text
    <3>2. /\ Len(w) = Len(l) + Len(t)
          /\ \A i \in 1..Len(l) + Len(t) : w[i] = IF i <= Len(l) THEN l[i] ELSE t[i - Len(l)]
      BY <2>1, <3>1, ConcatProperties
    <3>3. Len(l) \in Nat /\ Len(t) \in Nat /\ Len(t) > 0
      BY <2>1, <3>1
    <3> QED  BY <2>5, <3>2, <3>3
  <2>7. \A i \in 1..ll : w[i] = Slash
    <3>1. \A i \in 1..ll : l[i] = Slash /\ i \in 1..ll + lt /\ i <= ll
      BY <1>4, <2>5, <2>6 DEF Parts
    <3> QED  BY <2>6, <3>1
  <2>8. \A i \in 1..lt : ll + i \in 1..Len(w) /\ w[ll + i] = t[i]
    <3>1. \A i \in 1..lt : ll + i \in 1..ll + lt /\ ~(ll + i <= ll) /\ (ll + i) - ll = i
      BY <2>6
    <3> QED  BY <2>6, <3>1
  <2>9. 1 \in 1..lt /\ ll + 1 \in 1..Len(w) /\ w[ll + 1] # Slash
    <3>1. 1 \in 1..lt
      BY <2>6
    <3> QED  BY <2>1, <2>8, <3>1
  <2>10. Plain(w) <=> \A n \in 2..Len(w) :
            w[n - 1] = Slash /\ w[n] = Slash => \A m \in 1..n : w[m] = Slash
    BY <1>2, <2>9 DEF Plain
  <2>11. ASSUME Doubled(t) PROVE ~Plain(w)
    <3>1. PICK n \in 2..lt : t[n - 1] = Slash /\ t[n] = Slash
      BY <2>5, <2>11 DEF Doubled
    <3>2. /\ n \in 1..lt /\ n - 1 \in 1..lt /\ ll + (n - 1) = (ll + n) - 1
          /\ ll + n \in 2..Len(w) /\ ll + 1 \in 1..ll + n
      BY <2>6, <3>1
    <3>3. w[(ll + n) - 1] = Slash /\ w[ll + n] = Slash
      BY <2>8, <3>1, <3>2
    <3> QED  BY <2>9, <2>10, <3>2, <3>3
  <2>12. ASSUME ~Plain(w) PROVE Doubled(t)
    <3>0. PICK n \in 2..Len(w) :
            w[n - 1] = Slash /\ w[n] = Slash /\ ~\A m \in 1..n : w[m] = Slash
      BY <2>10, <2>12
    <3>1. PICK m \in 1..n : w[n - 1] = Slash /\ w[n] = Slash /\ w[m] # Slash
      BY <3>0
    <3>2. m > ll
      <4>1. m \notin 1..ll
        BY <2>7, <3>1
      <4>2. m \in Nat /\ m >= 1 /\ ll \in Nat
        BY <2>6, <3>1
      <4> QED  BY <4>1, <4>2
    <3>3. m # n /\ m # n - 1
      BY <3>1
    <3>4. PICK k : k = n - ll
      OBVIOUS
    <3>5. k \in 2..lt /\ k \in 1..lt /\ k - 1 \in 1..lt /\ ll + k = n /\ ll + (k - 1) = n - 1
      BY <2>6, <3>1, <3>2, <3>3, <3>4
    <3>6. t[k] = Slash /\ t[k - 1] = Slash
      BY <2>8, <3>1, <3>5
    <3> QED  BY <2>5, <3>5, <3>6 DEF Doubled
  <2> QED  BY <2>3, <2>4, <2>11, <2>12
<1> QED  BY <1>3, <1>4, FilenameParts

\* A path with a slash behind it, if it has none.
AsDirectory(p) == IF Last(p) = Slash THEN p ELSE p \o RootDirectory

LEMMA DirectoryIsClosed ==
    ASSUME NEW p \in Text, StartsWithSlash(p), ~Doubled(p),
           NEW d, d = AsDirectory(p)
    PROVE  /\ Closed(d) /\ Names(d) = Names(p)
           /\ \A i \in 1..Len(p) : d[i] = p[i]
           /\ Last(p) = Slash => d = p
           /\ Last(p) # Slash => Len(d) = Len(p) + 1 /\ d[Len(p) + 1] = Slash
<1>1. p # <<>> /\ p[1] = Slash /\ Len(p) \in Nat /\ Len(p) > 0
  BY DEF StartsWithSlash, Text
<1>2. CASE Last(p) = Slash
  BY <1>1, <1>2 DEF AsDirectory, Closed, Last
<1>3. CASE Last(p) # Slash
  <2>1. d = p \o RootDirectory
    BY <1>3 DEF AsDirectory
  <2>2. /\ d \in Seq(Character) /\ Len(d) = Len(p) + Len(RootDirectory)
        /\ \A i \in 1..Len(p) + Len(RootDirectory) :
              d[i] = IF i <= Len(p) THEN p[i] ELSE RootDirectory[i - Len(p)]
    <3>1. p \in Seq(Character) /\ RootDirectory \in Seq(Character)
      BY RootType DEF Text
    <3> QED  BY <2>1, <3>1, ConcatProperties
  <2>3. Len(d) = Len(p) + 1 /\ \A i \in 1..Len(p) : d[i] = p[i]
    BY <1>1, <2>2, RootType
  <2>4. d[Len(p) + 1] = Slash
    <3>1. /\ Len(p) + 1 \in 1..Len(p) + 1 /\ ~(Len(p) + 1 <= Len(p))
          /\ (Len(p) + 1) - Len(p) = 1
      BY <1>1
    <3> QED  BY <2>2, <3>1, RootType
  <2>5. ~Doubled(d)
    BY <1>3, <2>1, RootType, RootNotDoubled, DoubledBoth DEF Last
  <2>6. Names(d) = Names(p)
    <3>1. Apart(p, RootDirectory)
      BY RootType DEF Apart
    <3>2. Names(d) = Names(p) \o Names(RootDirectory)
      BY <2>1, <3>1, NamesOfBoth
    <3>3. Names(p) \o <<>> = Names(p)
      BY NamesByRank, ConcatEmptySeq
    <3> QED  BY <3>2, <3>3, NoNames
  <2>7. d # <<>> /\ d[1] = Slash /\ d[Len(d)] = Slash
    BY <1>1, <2>2, <2>3, <2>4
  <2>8. Closed(d)
    BY <2>2, <2>5, <2>7 DEF Closed, Text
  <2> QED  BY <1>3, <2>3, <2>4, <2>6, <2>8
<1> QED  BY <1>2, <1>3

\* Below by its names is below by its text.
LEMMA BelowByNames ==
    ASSUME NEW p \in Text, StartsWithSlash(p), ~Doubled(p),
           NEW q \in Text, StartsWithSlash(q), ~Doubled(q), IsPrefix(Names(p), Names(q)),
           NEW n, n = IF Last(p) = Slash THEN Len(p) - 1 ELSE Len(p)
    PROVE  \/ p = q
           \/ Last(p) = Slash /\ Last(q) # Slash /\ Names(p) = Names(q)
           \/ IsPrefix(p, q) /\ n \in Nat /\ n < Len(q) /\ q[n + 1] = Slash
<1>2. PICK d, e : d = AsDirectory(p) /\ e = AsDirectory(q)
  OBVIOUS
<1>3. /\ Closed(d) /\ Names(d) = Names(p)
      /\ \A i \in 1..Len(p) : d[i] = p[i]
      /\ Last(p) = Slash => d = p
      /\ Last(p) # Slash => Len(d) = Len(p) + 1 /\ d[Len(p) + 1] = Slash
  BY <1>2, DirectoryIsClosed
<1>4. /\ Closed(e) /\ Names(e) = Names(q)
      /\ \A i \in 1..Len(q) : e[i] = q[i]
      /\ Last(q) = Slash => e = q
      /\ Last(q) # Slash => Len(e) = Len(q) + 1 /\ e[Len(q) + 1] = Slash
  BY <1>2, DirectoryIsClosed
<1>5. d \in Seq(Character) /\ e \in Seq(Character) /\ p \in Seq(Character) /\ q \in Seq(Character)
  BY <1>3, <1>4 DEF Closed, Text
<1>6. Len(d) <= Len(e) /\ \A i \in 1..Len(d) : d[i] = e[i]
  <2>1. IsPrefix(d, e)
    BY <1>3, <1>4, NamesArePrefix
  <2> QED  BY <1>5, <2>1, PrefixByItems
<1>7. Len(p) \in Nat /\ Len(q) \in Nat /\ Len(p) > 0 /\ Len(q) > 0 /\ p[1] = Slash
  BY DEF StartsWithSlash, Text
<1>8. CASE Last(q) = Slash
  <2>1. e = q
    BY <1>4, <1>8
  <2>2. n \in Nat /\ n < Len(q) /\ n + 1 \in 1..Len(d) /\ d[n + 1] = Slash /\ Len(p) <= Len(d)
    <3>1. CASE Last(p) = Slash
      <4>1. d = p /\ p[Len(p)] = Slash /\ n = Len(p) - 1
        BY <1>3, <3>1 DEF Last
      <4> QED  BY <1>6, <1>7, <2>1, <4>1
    <3>2. CASE Last(p) # Slash
      <4>1. Len(d) = Len(p) + 1 /\ d[Len(p) + 1] = Slash /\ n = Len(p)
        BY <1>3, <3>2
      <4> QED  BY <1>6, <1>7, <2>1, <4>1
    <3> QED  BY <3>1, <3>2
  <2>3. q[n + 1] = Slash
    BY <1>6, <2>1, <2>2
  <2>4. Len(p) <= Len(q) /\ \A i \in 1..Len(p) : p[i] = q[i]
    <3>1. Len(p) <= Len(q) /\ \A i \in 1..Len(p) : i \in 1..Len(d)
      BY <1>5, <1>6, <1>7, <2>1, <2>2
    <3> QED  BY <1>3, <1>6, <2>1, <3>1
  <2>5. IsPrefix(p, q)
    BY <1>5, <2>4, PrefixByItems
  <2> QED  BY <2>2, <2>3, <2>5
<1>9. CASE Last(q) # Slash
  <2>1. Len(e) = Len(q) + 1 /\ e[Len(q) + 1] = Slash
    BY <1>4, <1>9
  <2>2. CASE Last(p) = Slash
    <3>1. d = p /\ p[Len(p)] = Slash /\ n = Len(p) - 1
      BY <1>3, <2>2 DEF Last
    <3>2. CASE Len(p) = Len(q) + 1
      <4>1. \A i \in 1..Len(p) : p[i] = e[i]
        BY <1>6, <3>1
      <4>2. p = e
        BY <1>5, <2>1, <3>2, <4>1
      <4> QED  BY <1>4, <1>9, <2>2, <4>2
    <3>3. CASE Len(p) # Len(q) + 1
      <4>1. Len(p) <= Len(q)
        BY <1>6, <1>7, <2>1, <3>1, <3>3
      <4>2. \A i \in 1..Len(p) : i \in 1..Len(q)
        BY <1>7, <4>1
      <4>3. \A i \in 1..Len(p) : p[i] = q[i]
        BY <1>4, <1>6, <3>1, <4>2
      <4>4. IsPrefix(p, q)
        BY <1>5, <4>1, <4>3, PrefixByItems
      <4>5. n \in Nat /\ n < Len(q) /\ n + 1 = Len(p) /\ Len(p) \in 1..Len(p)
        BY <1>7, <3>1, <4>1
      <4>6. q[n + 1] = Slash
        BY <3>1, <4>3, <4>5
      <4> QED  BY <4>4, <4>5, <4>6
    <3> QED  BY <3>2, <3>3
  <2>3. CASE Last(p) # Slash
    <3>1. Len(d) = Len(p) + 1 /\ d[Len(p) + 1] = Slash /\ n = Len(p)
      BY <1>3, <2>3
    <3>2. Len(p) <= Len(q) /\ \A i \in 1..Len(p) : i \in 1..Len(q) /\ i \in 1..Len(d)
      BY <1>6, <1>7, <2>1, <3>1
    <3>3. \A i \in 1..Len(p) : p[i] = q[i]
      BY <1>3, <1>4, <1>6, <3>2
    <3>4. CASE Len(p) = Len(q)
      <4>1. p = q
        BY <1>5, <3>3, <3>4
      <4> QED  BY <4>1
    <3>5. CASE Len(p) # Len(q)
      <4>1. n \in Nat /\ n < Len(q) /\ n + 1 \in 1..Len(d) /\ n + 1 \in 1..Len(q)
        BY <1>7, <3>1, <3>2, <3>5
      <4>2. q[n + 1] = Slash
        BY <1>4, <1>6, <3>1, <4>1
      <4>3. IsPrefix(p, q)
        BY <1>5, <3>2, <3>3, PrefixByItems
      <4> QED  BY <4>1, <4>2, <4>3
    <3> QED  BY <3>4, <3>5
  <2> QED  BY <2>2, <2>3
<1> QED  BY <1>8, <1>9

\* What remains behind a prefix that goes on with a slash begins with it.
LEMMA RestBehind ==
    ASSUME NEW p \in Text, p # <<>>, NEW q \in Text, IsPrefix(p, q),
           NEW n \in Nat, n = IF Last(p) = Slash THEN Len(p) - 1 ELSE Len(p),
           n < Len(q), q[n + 1] = Slash
    PROVE  \E r : MatchPrefix(q, p) = {r} /\ StartsWithSlash(r)
<1>1. PICK r : r = SubSeq(q, n + 1, Len(q))
  OBVIOUS
<1>2. MatchPrefix(q, p) = {r}
  BY <1>1 DEF MatchPrefix
<1>3. PICK f, l : f = n + 1 /\ l = Len(q)
  OBVIOUS
<1>4. /\ r \in Seq(Character) /\ Len(r) > 0 /\ r[1] = q[n + 1]
  <2>1. l \in Nat /\ \A i \in 1..l : q[i] \in Character
    BY <1>3 DEF Text
  <2>2. /\ f \in Int /\ l \in Int /\ f <= l /\ 1 \in 1..l - f + 1 /\ f + 1 - 1 = f
        /\ l - f + 1 > 0 /\ \A i \in f..l : i \in 1..l
    BY <1>3, <2>1
  <2>3. \A i \in f..l : q[i] \in Character
    BY <2>1, <2>2
  <2>4. r = SubSeq(q, f, l)
    BY <1>1, <1>3
  <2>5. /\ r \in Seq(Character) /\ Len(r) = IF f <= l THEN l - f + 1 ELSE 0
        /\ \A i \in 1..l - f + 1 : r[i] = q[f + i - 1]
    BY <2>2, <2>3, <2>4, SubSeqProperties
  <2> QED  BY <1>3, <2>2, <2>5
<1>5. r[1] = Slash /\ r # <<>>
  BY <1>4
<1>6. StartsWithSlash(r)
  BY <1>4, <1>5 DEF StartsWithSlash
<1> QED  BY <1>2, <1>6

\* The other way round: what is within a word is covered by its item.
LEMMA WithinIsCovered ==
    ASSUME root \in Text, Canonical(root), NEW w \in Text, w # <<>>, Plain(w),
           NEW path \in Text, StartsWithSlash(path), ~Doubled(path), Within(w, path)
    PROVE  Covers(BuildFilename(root, w), path)
<1>1. PICK item : item = BuildFilename(root, w)
  OBVIOUS
<1>2. /\ item \in Text /\ item # <<>> /\ Names(item) = Names(root) \o Names(w)
      /\ Last(item) = Last(w)
  BY <1>1, FilenameNames DEF Last
<1>3. StartsWithSlash(item) /\ ~Doubled(item)
  BY <1>1, FilenameDoubled
<1>4. /\ IsPrefix(Names(item), Names(path))
      /\ Names(item) = Names(path) => Last(item) # Slash \/ Last(path) = Slash
  BY <1>2 DEF Within
<1>5. PICK n : n = IF Last(item) = Slash THEN Len(item) - 1 ELSE Len(item)
  OBVIOUS
<1>6. \/ item = path
      \/ Last(item) = Slash /\ Last(path) # Slash /\ Names(item) = Names(path)
      \/ IsPrefix(item, path) /\ n \in Nat /\ n < Len(path) /\ path[n + 1] = Slash
  BY <1>2, <1>3, <1>4, <1>5, BelowByNames
<1>7. CASE IsPrefix(item, path) /\ n \in Nat /\ n < Len(path) /\ path[n + 1] = Slash
  <2>1. PICK r : MatchPrefix(path, item) = {r} /\ StartsWithSlash(r)
    BY <1>2, <1>5, <1>7, RestBehind
  <2>2. IsDescendant(item, path)
    BY <2>1 DEF IsDescendant
  <2> QED  BY <1>1, <2>2 DEF Covers
<1> QED  BY <1>1, <1>4, <1>6, <1>7 DEF Covers

\* What an item covers begins with a slash, as the item does, and has doubled
\* slashes where the item has.
LEMMA CoveredIsPlain ==
    ASSUME root \in Text, Canonical(root), NEW w \in Text, w # <<>>,
           NEW path \in Text, Covers(BuildFilename(root, w), path)
    PROVE  StartsWithSlash(path) /\ (~Doubled(path) => Plain(w))
<1>1. PICK item : item = BuildFilename(root, w)
  OBVIOUS
<1>2. item \in Text /\ StartsWithSlash(item) /\ (Doubled(item) <=> ~Plain(w))
  BY <1>1, FilenameNames, FilenameDoubled
<1>3. IsPrefix(item, path) \/ item = path
  BY <1>1 DEF Covers, IsDescendant, MatchPrefix
<1>4. CASE item = path
  BY <1>2, <1>4
<1>5. CASE IsPrefix(item, path)
  <2>1. /\ Len(item) <= Len(path) /\ Len(item) \in Nat /\ Len(path) \in Nat
        /\ \A i \in 1..Len(item) : item[i] = path[i]
    BY <1>2, <1>5, PrefixByItems DEF Text
  <2>2. ASSUME Doubled(item) PROVE Doubled(path)
    <3>1. PICK n \in 2..Len(item) : item[n - 1] = Slash /\ item[n] = Slash
      BY <2>2 DEF Doubled
    <3>2. n \in 1..Len(item) /\ n - 1 \in 1..Len(item) /\ n \in 2..Len(path)
      BY <2>1, <3>1
    <3> QED  BY <2>1, <3>1, <3>2 DEF Doubled
  <2>3. StartsWithSlash(path)
    <3>1. item # <<>> /\ item[1] = Slash /\ Len(item) > 0
      BY <1>2 DEF StartsWithSlash, Text
    <3>2. path # <<>> /\ path[1] = Slash
      BY <2>1, <3>1
    <3> QED  BY <3>2 DEF StartsWithSlash, Text
  <2> QED  BY <1>2, <2>2, <2>3
<1> QED  BY <1>3, <1>4, <1>5

\* What an item covers, character by character.
LEMMA CoversByItems ==
    ASSUME NEW item \in Text, item # <<>>, NEW path \in Text
    PROVE  Covers(item, path) <=>
             /\ Len(item) <= Len(path)
             /\ \A i \in 1..Len(item) : item[i] = path[i]
             /\ \/ item[Len(item)] = Slash
                \/ Len(item) = Len(path)
                \/ path[Len(item) + 1] = Slash
<1>1. PICK n : n = IF Last(item) = Slash THEN Len(item) - 1 ELSE Len(item)
  OBVIOUS
<1>2. /\ Len(item) \in Nat /\ Len(item) > 0 /\ Len(path) \in Nat /\ n \in Nat
      /\ item \in Seq(Character) /\ path \in Seq(Character)
  BY <1>1 DEF Text
<1>3. ASSUME Covers(item, path)
      PROVE  /\ Len(item) <= Len(path)
             /\ \A i \in 1..Len(item) : item[i] = path[i]
             /\ \/ item[Len(item)] = Slash
                \/ Len(item) = Len(path)
                \/ path[Len(item) + 1] = Slash
  <2>1. CASE item = path
    BY <1>2, <2>1
  <2>2. CASE IsDescendant(item, path)
    <3>1. PICK r \in MatchPrefix(path, item) : StartsWithSlash(r)
      BY <2>2 DEF IsDescendant
    <3>2. IsPrefix(item, path) /\ r = SubSeq(path, n + 1, Len(path))
      BY <1>1, <3>1 DEF MatchPrefix
    <3>3. Len(item) <= Len(path) /\ \A i \in 1..Len(item) : item[i] = path[i]
      BY <1>2, <3>2, PrefixByItems
    <3>4. CASE Last(item) = Slash
      BY <3>3, <3>4 DEF Last
    <3>5. CASE Last(item) # Slash
      <4>1. n = Len(item)
        BY <1>1, <3>5
      <4>2. CASE Len(item) = Len(path)
        BY <3>3, <4>2
      <4>3. CASE Len(item) # Len(path)
        <5>1. PICK f, z : f = n + 1 /\ z = Len(path)
          OBVIOUS
        <5>2. /\ f \in Int /\ z \in Int /\ f <= z /\ 1 \in 1..z - f + 1 /\ f + 1 - 1 = f
              /\ \A i \in f..z : i \in 1..Len(path)
          BY <1>2, <3>3, <4>1, <4>3, <5>1
        <5>3. \A i \in f..z : path[i] \in Character
          BY <1>2, <5>2
        <5>4. \A i \in 1..z - f + 1 : r[i] = path[f + i - 1]
          BY <3>2, <5>1, <5>2, <5>3, SubSeqProperties
        <5>5. r[1] = path[f]
          BY <5>2, <5>4
        <5>6. r # <<>> /\ Head(r) = Slash
          BY <3>1 DEF StartsWithSlash
        <5>7. Head(r) = r[1]
          <6>1. r \in Seq(Character)
            BY <3>2, <5>1, <5>2, <5>3, SubSeqProperties
          <6> QED  BY <5>6, <6>1
        <5> QED  BY <3>3, <4>1, <5>1, <5>5, <5>6, <5>7
      <4> QED  BY <4>2, <4>3
    <3> QED  BY <3>4, <3>5
  <2> QED  BY <1>3, <2>1, <2>2 DEF Covers
<1>4. ASSUME Len(item) <= Len(path), \A i \in 1..Len(item) : item[i] = path[i],
             \/ item[Len(item)] = Slash
             \/ Len(item) = Len(path)
             \/ path[Len(item) + 1] = Slash
      PROVE  Covers(item, path)
  <2>1. IsPrefix(item, path)
    BY <1>2, <1>4, PrefixByItems
  <2>2. CASE Len(item) = Len(path)
    <3>1. item = path
      BY <1>2, <1>4, <2>2
    <3> QED  BY <3>1 DEF Covers
  <2>3. CASE Len(item) # Len(path)
    <3>1. n < Len(path) /\ path[n + 1] = Slash
      <4>1. CASE item[Len(item)] = Slash
        <5>1. n = Len(item) - 1 /\ n + 1 = Len(item) /\ Len(item) \in 1..Len(item)
          BY <1>1, <1>2, <4>1 DEF Last
        <5> QED  BY <1>2, <1>4, <4>1, <5>1
      <4>2. CASE item[Len(item)] # Slash
        <5>1. n = Len(item)
          BY <1>1, <4>2 DEF Last
        <5> QED  BY <1>2, <1>4, <2>3, <4>2, <5>1
      <4> QED  BY <4>1, <4>2
    <3>2. PICK r : MatchPrefix(path, item) = {r} /\ StartsWithSlash(r)
      BY <1>1, <1>2, <2>1, <3>1, RestBehind
    <3> QED  BY <3>2 DEF Covers, IsDescendant
  <2> QED  BY <2>2, <2>3
<1> QED  BY <1>3, <1>4

\* What a path begins with, up to two slashes in a row.
LEMMA UndoubledType ==
    ASSUME NEW path \in Text, NEW u, u = Undoubled(path)
    PROVE  \/ ~Doubled(path) /\ u = path
           \/ /\ u \in Text /\ ~Doubled(u) /\ Len(u) > 0 /\ Len(u) < Len(path)
              /\ \A i \in 1..Len(u) : u[i] = path[i]
              /\ u[Len(u)] = Slash /\ path[Len(u) + 1] = Slash
<1>1. PICK doubled : doubled = {n \in 2..Len(path) : path[n - 1] = Slash /\ path[n] = Slash}
  OBVIOUS
<1>2. Len(path) \in Nat /\ path \in Seq(Character)
  BY DEF Text
<1>3. u = IF doubled = {} THEN path ELSE SubSeq(path, 1, Min(doubled) - 1)
  BY <1>1 DEF Undoubled
<1>4. CASE doubled = {}
  BY <1>1, <1>3, <1>4 DEF Doubled
<1>5. CASE doubled # {}
  <2>1. doubled \in SUBSET Nat /\ IsFiniteSet(doubled)
    <3>1. IsFiniteSet(1..Len(path)) /\ \A n \in doubled : n \in 1..Len(path) /\ n \in Nat
      BY <1>1, <1>2, FS_Interval
    <3>2. doubled \subseteq 1..Len(path)
      BY <3>1
    <3> QED  BY <3>1, <3>2, FS_Subset
  <2>2. PICK m \in doubled : m = Min(doubled) /\ \A n \in doubled : m <= n
    <3>1. \E n \in doubled : \A k \in doubled : n <= k
      BY <1>5, <2>1, Least
    <3> QED  BY <3>1 DEF Min
  <2>3. PICK k : k = m - 1
    OBVIOUS
  <2>4. /\ k \in Nat /\ k > 0 /\ k < Len(path) /\ k + 1 = m
        /\ path[k] = Slash /\ path[k + 1] = Slash
    BY <1>1, <1>2, <2>2, <2>3
  <2>5. u = SubSeq(path, 1, k)
    BY <1>3, <1>5, <2>2, <2>3
  <2>6. u \in Text /\ Len(u) = k /\ \A i \in 1..k : u[i] = path[i]
    <3>1. /\ 1 \in Int /\ k \in Int /\ 1 <= k /\ k - 1 + 1 = k
          /\ \A i \in 1..k : path[i] \in Character /\ 1 + i - 1 = i
      BY <1>2, <2>4
    <3>2. /\ u \in Seq(Character) /\ Len(u) = IF 1 <= k THEN k - 1 + 1 ELSE 0
          /\ \A i \in 1..k - 1 + 1 : u[i] = path[1 + i - 1]
      BY <2>5, <3>1, SubSeqProperties
    <3> QED  BY <3>1, <3>2 DEF Text
  <2>7. ~Doubled(u)
    <3> SUFFICES ASSUME NEW n \in 2..k, u[n - 1] = Slash, u[n] = Slash PROVE FALSE
      BY <2>6 DEF Doubled
    <3>1. n \in 1..k /\ n - 1 \in 1..k /\ n \in 2..Len(path) /\ ~(m <= n)
      BY <1>2, <2>4
    <3>2. path[n - 1] = Slash /\ path[n] = Slash
      BY <2>6, <3>1
    <3> QED  BY <1>1, <2>2, <3>1, <3>2
  <2>8. k \in 1..k
    BY <2>4
  <2> QED  BY <2>4, <2>6, <2>7, <2>8
<1> QED  BY <1>4, <1>5

\* An item without doubled slashes says nothing of what is behind those of the
\* path.
LEMMA CoversUndoubled ==
    ASSUME NEW item \in Text, item # <<>>, ~Doubled(item), NEW path \in Text,
           NEW u, u = Undoubled(path)
    PROVE  /\ u \in Text /\ ~Doubled(u) /\ (StartsWithSlash(path) => StartsWithSlash(u))
           /\ Covers(item, path) <=> Covers(item, u)
<1>1. CASE ~Doubled(path) /\ u = path
  BY <1>1
<1>2. CASE /\ u \in Text /\ ~Doubled(u) /\ Len(u) > 0 /\ Len(u) < Len(path)
           /\ \A i \in 1..Len(u) : u[i] = path[i]
           /\ u[Len(u)] = Slash /\ path[Len(u) + 1] = Slash
  <2>1. PICK li, lu, lp : li = Len(item) /\ lu = Len(u) /\ lp = Len(path)
    OBVIOUS
  <2>2. li \in Nat /\ li > 0 /\ lu \in Nat /\ lu > 0 /\ lp \in Nat /\ lu < lp
    BY <1>2, <2>1 DEF Text
  <2>3. StartsWithSlash(path) => StartsWithSlash(u)
    <3>1. u # <<>> /\ 1 \in 1..lu
      BY <1>2, <2>1, <2>2
    <3>2. u[1] = path[1]
      BY <1>2, <2>1, <3>1
    <3> QED  BY <1>2, <3>1, <3>2 DEF StartsWithSlash, Text
  <2>4. Covers(item, path) <=>
          /\ li <= lp /\ \A i \in 1..li : item[i] = path[i]
          /\ item[li] = Slash \/ li = lp \/ path[li + 1] = Slash
    BY <2>1, CoversByItems
  <2>5. Covers(item, u) <=>
          /\ li <= lu /\ \A i \in 1..li : item[i] = u[i]
          /\ item[li] = Slash \/ li = lu \/ u[li + 1] = Slash
    BY <1>2, <2>1, CoversByItems
  <2>6. \A i \in 1..lu : u[i] = path[i]
    BY <1>2, <2>1
  <2>7. ASSUME Covers(item, path) PROVE Covers(item, u)
    <3>1. li <= lu
      <4> SUFFICES ASSUME lu < li PROVE FALSE
        BY <2>2
      <4>1. lu + 1 \in 2..li /\ lu \in 1..li /\ lu + 1 \in 1..li /\ (lu + 1) - 1 = lu /\ lu \in 1..lu
        BY <2>2
      <4>2. item[lu] = Slash /\ item[lu + 1] = Slash
        BY <1>2, <2>1, <2>4, <2>6, <2>7, <4>1
      <4> QED  BY <2>1, <4>1, <4>2 DEF Doubled
    <3>2. \A i \in 1..li : i \in 1..lu
      BY <2>2, <3>1
    <3>3. \A i \in 1..li : item[i] = u[i]
      BY <2>4, <2>6, <2>7, <3>2
    <3>4. item[li] = Slash \/ li = lu \/ u[li + 1] = Slash
      <4>1. CASE li # lu /\ path[li + 1] = Slash
        <5>1. li + 1 \in 1..lu
          BY <2>2, <3>1, <4>1
        <5> QED  BY <2>6, <4>1, <5>1
      <4>2. li # lp
        BY <2>2, <3>1
      <4> QED  BY <2>4, <2>7, <4>1, <4>2
    <3> QED  BY <2>5, <3>1, <3>3, <3>4
  <2>8. ASSUME Covers(item, u) PROVE Covers(item, path)
    <3>1. li <= lu /\ li <= lp /\ \A i \in 1..li : i \in 1..lu
      BY <2>2, <2>5, <2>8
    <3>2. \A i \in 1..li : item[i] = path[i]
      BY <2>5, <2>6, <2>8, <3>1
    <3>3. item[li] = Slash \/ path[li + 1] = Slash
      <4>1. CASE li = lu
        BY <1>2, <2>1, <4>1
      <4>2. CASE li # lu
        <5>1. li + 1 \in 1..lu
          BY <2>2, <3>1, <4>2
        <5> QED  BY <2>5, <2>6, <2>8, <4>2, <5>1
      <4> QED  BY <4>1, <4>2
    <3> QED  BY <2>4, <3>1, <3>2, <3>3
  <2> QED  BY <1>2, <2>3, <2>7, <2>8
<1> QED  BY <1>1, <1>2, UndoubledType

\* A path that is longer by its names leads on from the shorter one,
LEMMA RelativeIsRest ==
    ASSUME NEW p \in Text, Canonical(p), NEW q \in Text, Canonical(q),
           IsPrefix(Names(p), Names(q)), Len(Names(p)) < Len(Names(q)),
           NEW shown, shown = BuildProfileStr(p, q)
    PROVE  Names(p) \o Names(shown) = Names(q) /\ shown[1] # Slash
<1>1. PICK n : n = IF Last(p) = Slash THEN Len(p) - 1 ELSE Len(p)
  OBVIOUS
<1>2. /\ StartsWithSlash(p) /\ ~Doubled(p) /\ p # <<>>
      /\ StartsWithSlash(q) /\ ~Doubled(q)
  BY DEF Canonical, StartsWithSlash
<1>3. Names(p) # Names(q)
  <2>1. Len(Names(p)) \in Nat
    BY NamesByRank
  <2> QED  BY <2>1
<1>4. IsPrefix(p, q) /\ n \in Nat /\ n < Len(q) /\ q[n + 1] = Slash
  BY <1>1, <1>2, <1>3, BelowByNames
<1>5. PICK r : MatchPrefix(q, p) = {r} /\ StartsWithSlash(r)
  BY <1>1, <1>2, <1>4, RestBehind
<1>6. shown = Tail(r)
  <2>1. GetRelative(p, q) = {Tail(r)}
    BY <1>5 DEF GetRelative
  <2> QED  BY <2>1 DEF BuildProfileStr
<1>7. /\ r \in Text /\ r # <<>> /\ r[1] = Slash
      /\ \E base \in Text : q = base \o r /\ Names(base) = Names(p)
  BY <1>2, <1>5, BelowIsBehind
<1>8. PICK base \in Text : q = base \o r /\ Names(base) = Names(p)
  BY <1>7
<1>9. Names(q) = Names(p) \o Names(r)
  <2>1. Apart(base, r)
    BY <1>7, <1>8 DEF Apart
  <2> QED  BY <1>8, <2>1, NamesOfBoth
<1>10. /\ Len(r) \in Nat /\ Len(r) > 0 /\ shown \in Text /\ Len(shown) = Len(r) - 1
       /\ \A i \in 1..Len(shown) : shown[i] = r[i + 1]
  BY <1>6, <1>7 DEF Text
<1>11. r = RootDirectory \o shown
  <2>1. PICK c : c = RootDirectory \o shown
    OBVIOUS
  <2>2. RootDirectory \in Seq(Character) /\ shown \in Seq(Character)
    BY <1>10, RootType DEF Text
  <2>3. /\ c \in Seq(Character) /\ Len(c) = Len(RootDirectory) + Len(shown)
        /\ \A i \in 1..Len(RootDirectory) + Len(shown) :
              c[i] = IF i <= Len(RootDirectory) THEN RootDirectory[i]
                     ELSE shown[i - Len(RootDirectory)]
    BY <2>1, <2>2, ConcatProperties
  <2>4. Len(c) = Len(r)
    BY <1>10, <2>3, RootType
  <2>5. ASSUME NEW i \in 1..Len(r) PROVE c[i] = r[i]
    <3>1. CASE i = 1
      BY <1>7, <1>10, <2>3, <2>4, <3>1, RootType
    <3>2. CASE i # 1
      <4>1. /\ i \in 1..Len(RootDirectory) + Len(shown) /\ ~(i <= Len(RootDirectory))
            /\ i - Len(RootDirectory) = i - 1 /\ i - 1 \in 1..Len(shown) /\ (i - 1) + 1 = i
        BY <1>10, <3>2, RootType
      <4> QED  BY <1>10, <2>3, <4>1
    <3> QED  BY <3>1, <3>2
  <2>6. r \in Seq(Character)
    BY <1>7 DEF Text
  <2>7. c = r
    BY <2>3, <2>4, <2>5, <2>6
  <2> QED  BY <2>1, <2>7
<1>12. Names(r) = Names(shown)
  <2>1. Apart(RootDirectory, shown)
    BY <1>10, RootType DEF Apart
  <2>2. Names(r) = Names(RootDirectory) \o Names(shown)
    BY <1>11, <2>1, NamesOfBoth
  <2>3. <<>> \o Names(shown) = Names(shown)
    BY <1>10, NamesByRank, ConcatEmptySeq
  <2> QED  BY <2>2, <2>3, NoNames
<1>13. shown[1] # Slash
  <2>1. shown # <<>>
    <3> SUFFICES ASSUME shown = <<>> PROVE FALSE
      OBVIOUS
    <3>1. Names(q) = Names(p) \o <<>>
      BY <1>9, <1>12, NoNames
    <3>2. Names(p) \o <<>> = Names(p)
      BY NamesByRank, ConcatEmptySeq
    <3> QED  BY <1>3, <3>1, <3>2
  <2>2. 1 \in 1..Len(shown) /\ 1 + 1 = 2 /\ Len(r) >= 2
    BY <1>10, <2>1 DEF Text
  <2>3. r[2] = shown[1]
    BY <1>10, <2>2
  <2>4. /\ Len(q) = Len(base) + Len(r) /\ Len(base) \in Nat
        /\ \A i \in 1..Len(base) + Len(r) :
              q[i] = IF i <= Len(base) THEN base[i] ELSE r[i - Len(base)]
    BY <1>7, <1>8, ConcatProperties DEF Text
  <2>5. PICK m : m = Len(base) + 2
    OBVIOUS
  <2>6. /\ m \in 2..Len(q) /\ m \in 1..Len(base) + Len(r) /\ m - 1 \in 1..Len(base) + Len(r)
        /\ ~(m <= Len(base)) /\ ~(m - 1 <= Len(base))
        /\ m - Len(base) = 2 /\ (m - 1) - Len(base) = 1
    BY <1>10, <2>2, <2>4, <2>5
  <2>7. q[m] = r[2] /\ q[m - 1] = r[1]
    BY <2>4, <2>6
  <2> QED  BY <1>2, <1>7, <2>3, <2>6, <2>7 DEF Doubled
<1> QED  BY <1>9, <1>12, <1>13

\* and one that is not below gives nothing.
LEMMA RelativeIsBelow ==
    ASSUME NEW p \in Text, Canonical(p), NEW q \in Text, Canonical(q), p # q,
           ~(IsPrefix(Names(p), Names(q)) /\ Len(Names(p)) < Len(Names(q)))
    PROVE  GetRelative(p, q) = {}
<1> SUFFICES ASSUME NEW r \in MatchPrefix(q, p), StartsWithSlash(r)
             PROVE  FALSE
  BY DEF GetRelative
<1>1. /\ StartsWithSlash(p) /\ p # <<>> /\ p[1] = Slash
      /\ (Last(q) = Slash => q = RootDirectory)
  BY DEF Canonical, StartsWithSlash
<1>2. PICK base \in Text :
        /\ q = base \o r /\ Names(base) = Names(p)
        /\ r \in Text /\ r # <<>> /\ r[1] = Slash
  BY <1>1, BelowIsBehind
<1>3. Names(q) = Names(p) \o Names(r)
  <2>1. Apart(base, r)
    BY <1>2 DEF Apart
  <2> QED  BY <1>2, <2>1, NamesOfBoth
<1>4. PICK np, nr, T : np = Names(p) /\ nr = Names(r) /\ T = Range(np) \cup Range(nr)
  OBVIOUS
<1>5. np \in Seq(T) /\ nr \in Seq(T) /\ Len(nr) = Cardinality(NameStarts(r))
  <2>1. np \in Seq(Range(np))
    BY <1>4, NamesByRank
  <2>2. nr \in Seq(Range(nr)) /\ Len(nr) = Cardinality(NameStarts(r))
    BY <1>2, <1>4, NamesByRank
  <2> QED  BY <1>4, <2>1, <2>2
<1>6. NameStarts(r) = {}
  <2>1. IsPrefix(np, np \o nr) /\ Len(np \o nr) = Len(np) + Len(nr)
    BY <1>5, PrefixOfBoth, ConcatProperties
  <2>2. Len(np) \in Nat /\ Len(nr) \in Nat /\ ~(Len(np) < Len(np) + Len(nr))
    BY <1>3, <1>4, <1>5, <2>1
  <2>3. Cardinality(NameStarts(r)) = 0
    BY <1>5, <2>2
  <2> QED  BY <1>2, <2>3, StartsType, FS_EmptySet
<1>7. r[Len(r)] = Slash
  <2>1. Len(r) \in 1..Len(r)
    BY <1>2 DEF Text
  <2> QED  BY <1>2, <1>6, <2>1, InAName
<1>8. Last(q) = Slash
  <2>1. /\ Len(q) = Len(base) + Len(r) /\ Len(base) \in Nat /\ Len(r) \in Nat /\ Len(r) > 0
        /\ \A i \in 1..Len(base) + Len(r) :
              q[i] = IF i <= Len(base) THEN base[i] ELSE r[i - Len(base)]
    BY <1>2, ConcatProperties DEF Text
  <2>2. /\ Len(q) \in 1..Len(base) + Len(r) /\ ~(Len(q) <= Len(base))
        /\ Len(q) - Len(base) = Len(r)
    BY <2>1
  <2> QED  BY <1>7, <2>1, <2>2 DEF Last
<1>9. IsPrefix(p, q)
  BY DEF MatchPrefix
<1>10. p = RootDirectory
  <2>1. PICK l \in Nat : l = Len(p)
    BY DEF Text
  <2>2. l <= 1 /\ l # 0
    BY <1>1, <1>8, <1>9, <2>1, RootType DEF IsPrefix, Text
  <2>3. l = 1
    BY <2>2
  <2>4. /\ p \in Seq(Character) /\ RootDirectory \in Seq(Character)
        /\ Len(p) = Len(RootDirectory)
    BY <2>1, <2>3, RootType DEF Text
  <2>5. \A i \in 1..Len(p) : p[i] = RootDirectory[i]
    BY <1>1, <2>1, <2>3, RootType
  <2> QED  BY <2>4, <2>5
<1> QED  BY <1>1, <1>8, <1>10

-----------------------------------------------------------------------------
\* The roots are what they are, and the words are texts.
ProtectInv == root \in Roots /\ masked \in Masks /\ tree \subseteq Word

LEMMA RootsAndWords == ProtectSpec => []ProtectInv
<1>1. ProtectInit => ProtectInv
  BY DEF ProtectInit, Init, ProtectInv
<1>2. ProtectInv /\ [ProtectNext]_<<vars, protect>> => ProtectInv'
  <2> SUFFICES ASSUME ProtectInv, [ProtectNext]_<<vars, protect>> PROVE ProtectInv'
    OBVIOUS
  <2>1. ASSUME NEW i \in Item, TakeItem(i), UNCHANGED protect PROVE ProtectInv'
    BY <2>1 DEF TakeItem, StackItem, Item, ProtectInv, protect
  <2>2. CASE NextText /\ UNCHANGED protect
    BY <2>2 DEF NextText, ProtectInv, protect
  <2>3. CASE UNCHANGED <<vars, protect>>
    BY <2>3 DEF ProtectInv, protect, vars
  <2> QED  BY <2>1, <2>2, <2>3 DEF ProtectNext, Next
<1> QED  BY <1>1, <1>2, PTL DEF ProtectSpec

\* CONFIG_PROTECT is stacked by that loop and by nothing else, so the closed
\* form holds of it too (configprotect.c:45-57).
THEOREM ProtectIsStacked == ProtectSpec => Spec /\ []ClosedForm
<1>1. ProtectInit => Init
  BY DEF ProtectInit
<1>2. [ProtectNext]_<<vars, protect>> => [Next]_vars
  BY DEF ProtectNext
<1>3. ProtectSpec => Spec
  BY <1>1, <1>2, PTL DEF ProtectSpec, Spec
<1> QED  BY <1>3, LoopIsClosedForm, PTL

\* What there is when words and paths are texts and roots are canonical.
LEMMA TextsAndPaths ==
    ASSUME ProtectInv
    PROVE  /\ root \in Text /\ Canonical(root)
           /\ \A w \in tree \cup masked : w \in Text /\ w # <<>>
           /\ \A path \in Asked : path \in Text
BY TextsAssumption, CanonicalAssumption DEF ProtectInv, TextsAssumption, CanonicalAssumption

\* Names decide what is protected, for any words, masks and canonical root and
\* any path asked for, relative, with slashes doubled or at the end: an item of
\* either list covers just the absolute paths within its word, whatever slashes
\* that begins with, and one that still has doubled slashes covers none but
\* those that have them too (configprotect.c:31-45, 73-90).
THEOREM NamesDecide == ProtectSpec => []ProtectionByNames
<1>1. ProtectInv => ProtectionByNames
  <2> SUFFICES ASSUME ProtectInv, NEW path \in Asked,
                      Doubled(path) => \A w \in tree \cup masked : Plain(w)
               PROVE  IsProtected(path) <=>
                        /\ StartsWithSlash(path)
                        /\ \E w \in tree : Plain(w) /\ Within(w, Undoubled(path))
                        /\ ~\E w \in masked : Plain(w) /\ Within(w, Undoubled(path))
    BY DEF ProtectionByNames
  <2>1. ASSUME NEW w \in tree \cup masked
        PROVE  Covers(BuildFilename(root, w), path) <=>
                 StartsWithSlash(path) /\ Plain(w) /\ Within(w, Undoubled(path))
    <3>1. /\ root \in Text /\ Canonical(root) /\ w \in Text /\ w # <<>>
          /\ path \in Text
      BY TextsAndPaths
    <3>2. PICK item, u : item = BuildFilename(root, w) /\ u = Undoubled(path)
      OBVIOUS
    <3>3. item \in Text /\ item # <<>> /\ (Doubled(item) <=> ~Plain(w))
      BY <3>1, <3>2, FilenameNames, FilenameDoubled
    <3>4. Plain(w) => /\ u \in Text /\ ~Doubled(u)
                      /\ StartsWithSlash(path) => StartsWithSlash(u)
                      /\ Covers(item, path) <=> Covers(item, u)
      BY <3>1, <3>2, <3>3, CoversUndoubled
    <3>5. Covers(item, path) => StartsWithSlash(path) /\ Plain(w)
      BY <3>1, <3>2, CoveredIsPlain
    <3>6. Plain(w) /\ Covers(item, u) => Within(w, u)
      BY <3>1, <3>2, <3>4, CoveredIsWithin
    <3>7. StartsWithSlash(path) /\ Plain(w) /\ Within(w, u) => Covers(item, u)
      BY <3>1, <3>2, <3>4, WithinIsCovered
    <3> QED  BY <3>2, <3>4, <3>5, <3>6, <3>7
  <2>2. IsProtected(path) <=>
          /\ \A w \in masked : ~Covers(BuildFilename(root, w), path)
          /\ \E w \in tree : Covers(BuildFilename(root, w), path)
    BY DEF IsProtected, BuildPathList
  <2> QED  BY <2>1, <2>2
<1> QED  BY <1>1, RootsAndWords, PTL

\* The profile that cmerge --info names is the one in use: what is shown leads
\* from the directory of the profiles to it, and a profile elsewhere is shown
\* whole, for any canonical paths (path.c:62-81, info_action.c:32-46).
THEOREM ShownLeadsBack == ProtectSpec => []RelativeLeadsBack
<1>1. ProtectInv => RelativeLeadsBack
  <2> SUFFICES ASSUME ProtectInv, NEW p \in BuildPathList(tree), Canonical(p),
                      NEW q \in Asked, Canonical(q)
               PROVE  LET below == IsPrefix(Names(p), Names(q)) /\ Len(Names(p)) < Len(Names(q))
                          shown == BuildProfileStr(p, q)
                      IN /\ below => Names(p) \o Names(shown) = Names(q) /\ shown[1] # Slash
                         /\ ~below /\ p # q => shown = <<"!">> \o q
    BY DEF RelativeLeadsBack
  <2>1. PICK w \in tree : p = BuildFilename(root, w)
    BY DEF BuildPathList
  <2>2. /\ root \in Text /\ w \in Text /\ w # <<>> /\ q \in Text
    BY TextsAndPaths
  <2>3. p \in Text
    BY <2>1, <2>2, FilenameNames
  <2>4. CASE IsPrefix(Names(p), Names(q)) /\ Len(Names(p)) < Len(Names(q))
    BY <2>2, <2>3, <2>4, RelativeIsRest
  <2>5. CASE ~(IsPrefix(Names(p), Names(q)) /\ Len(Names(p)) < Len(Names(q)))
    <3>1. p # q => GetRelative(p, q) = {}
      BY <2>2, <2>3, <2>5, RelativeIsBelow
    <3>2. p # q => BuildProfileStr(p, q) = <<"!">> \o q
      BY <3>1 DEF BuildProfileStr
    <3> QED  BY <2>5, <3>2
  <2> QED  BY <2>4, <2>5
<1> QED  BY <1>1, RootsAndWords, PTL

\* Where a profile or make.conf adds or removes a word of CONFIG_PROTECT, only
\* paths within that word change, for any words, with or without slashes in
\* front, doubled or at the end, any root and any path as it is asked for
\* (configprotect.c:31-45, 73-90, path.c:62-81).
THEOREM OnlyWithinTheWord == ProtectSpec => WordsProtectTheirOwn
<1>1. ASSUME ProtectInv, [ProtectNext]_<<vars, protect>>
      PROVE  [\A i \in Item, path \in Asked :
                TakeItem(i) =>
                    IF i.op = "wipe" THEN ~IsProtected(path)'
                    ELSE IsProtected(path) # IsProtected(path)' => Within(i.word, path)]_<<vars, protect>>
  <2> SUFFICES ASSUME NEW i \in Item, NEW path \in Asked, TakeItem(i), UNCHANGED protect
               PROVE  IF i.op = "wipe" THEN ~IsProtected(path)'
                      ELSE IsProtected(path) # IsProtected(path)' => Within(i.word, path)
    BY <1>1 DEF ProtectNext
  <2>1. root' = root /\ masked' = masked /\ tree' = StackItem(tree, i)
    BY DEF protect, TakeItem
  <2>2. CASE i.op = "wipe"
    BY <2>1, <2>2 DEF StackItem, IsProtected, BuildPathList
  <2>3. CASE i.op # "wipe"
    <3> SUFFICES ASSUME IsProtected(path) # IsProtected(path)'
                 PROVE  Within(i.word, path)
      BY <2>3
    <3>1. i.word \in Text /\ i.word # <<>> /\ root \in Text /\ path \in Text
      BY <1>1, <2>3, TextsAssumption DEF Item, ProtectInv, TextsAssumption
    <3>2. Covers(BuildFilename(root, i.word), path)
      <4>1. \A w : w # i.word => (w \in tree <=> w \in tree')
        BY <2>1, <2>3 DEF StackItem, Item
      <4>2. IsProtected(path) <=>
              /\ \A w \in masked : ~Covers(BuildFilename(root, w), path)
              /\ \E w \in tree : Covers(BuildFilename(root, w), path)
        BY DEF IsProtected, BuildPathList
      <4>3. IsProtected(path)' <=>
              /\ \A w \in masked : ~Covers(BuildFilename(root, w), path)
              /\ \E w \in tree' : Covers(BuildFilename(root, w), path)
        BY <2>1 DEF IsProtected, BuildPathList
      <4> QED  BY <4>1, <4>2, <4>3 DEF IsProtected
    <3> QED  BY <3>1, <3>2, CoveredIsWithin
  <2> QED  BY <2>2, <2>3
<1> QED  BY <1>1, RootsAndWords, PTL DEF ProtectSpec, WordsProtectTheirOwn
=============================================================================
