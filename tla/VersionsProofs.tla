--------------------------- MODULE VersionsProofs ---------------------------
(***************************************************************************)
(* Proofs about Versions: cp_version_cmp is the order of versions, for     *)
(* every version, and what follows for lists and atoms.                    *)
(***************************************************************************)
EXTENDS VersionsProperties, TLAPS, SequenceTheorems, WellFoundedInduction

-----------------------------------------------------------------------------
\* Induction, on a set in place of a predicate.
LEMMA LeastNatural ==
    ASSUME NEW S, S \subseteq Nat, S # {}
    PROVE  \E n \in S : \A m \in S : n <= m
<1> DEFINE Less == OpToRel(<, Nat)
<1>1. IsWellFoundedOn(Less, Nat)
  BY NatLessThanWellFounded
<1>2. \A m, n \in Nat : m < n => <<m, n>> \in Less
  BY DEF OpToRel
<1> HIDE DEF Less
<1>3. PICK n \in S : \A m \in S : ~(<<m, n>> \in Less)
  BY <1>1, WFMin
<1>4. \A m \in S : ~(m < n)
  BY <1>2, <1>3
<1> QED  BY <1>3, <1>4

LEMMA SetInduction ==
    ASSUME NEW S, 0 \in S, \A n \in Nat : n \in S => n + 1 \in S
    PROVE  Nat \subseteq S
<1> SUFFICES ASSUME Nat \ S # {} PROVE FALSE
  OBVIOUS
<1>1. PICK n \in Nat \ S : \A m \in Nat \ S : n <= m
  BY LeastNatural
<1>2. n - 1 \in Nat /\ (n - 1) + 1 = n /\ n - 1 < n
  BY <1>1
<1>3. n - 1 \in S
  BY <1>1, <1>2
<1> QED  BY <1>1, <1>2, <1>3

LEMMA FirstIsLeast ==
    ASSUME NEW S, S \subseteq Nat, S # {}
    PROVE  First(S) \in S /\ \A m \in S : First(S) <= m
BY LeastNatural DEF First

LEMMA FirstIs ==
    ASSUME NEW S, S \subseteq Nat, NEW n \in S, \A m \in S : n <= m
    PROVE  First(S) = n
<1>1. PICK f : f = First(S)
  OBVIOUS
<1>2. f \in S /\ f <= n /\ n <= f
  BY <1>1, FirstIsLeast
<1>3. f \in Nat /\ n \in Nat
  BY <1>2
<1> QED  BY <1>1, <1>2, <1>3

-----------------------------------------------------------------------------
\* A comparison in one place, and three of them: two steps down lead down.
Signs == {-1, 0, 1}
Chain(p, q, r) == p <= 0 /\ q <= 0 => r <= 0 /\ (r = 0 <=> p = 0 /\ q = 0)

LEMMA SignIs ==
    ASSUME NEW n \in Int
    PROVE  /\ Sign(n) \in Signs
           /\ Sign(n) = -1 <=> n < 0
           /\ Sign(n) = 0 <=> n = 0
           /\ Sign(n) = 1 <=> n > 0
           /\ Sign(n) <= 0 <=> n <= 0
<1>1. CASE n < 0
  BY <1>1 DEF Sign, Signs
<1>2. CASE n = 0
  BY <1>2 DEF Sign, Signs
<1>3. CASE n > 0
  BY <1>3 DEF Sign, Signs
<1> QED  BY <1>1, <1>2, <1>3

LEMMA SignTurns ==
    ASSUME NEW m \in Int, NEW n \in Int
    PROVE  Sign(m - n) = 0 - Sign(n - m)
<1>1. m - n \in Int /\ n - m \in Int
  OBVIOUS
<1>2. Sign(m - n) \in Signs /\ Sign(n - m) \in Signs
  BY <1>1, SignIs
<1>3. /\ Sign(m - n) = -1 <=> Sign(n - m) = 1
      /\ Sign(m - n) = 0 <=> Sign(n - m) = 0
  BY <1>1, SignIs
<1> QED  BY <1>2, <1>3 DEF Signs

LEMMA SignChain ==
    ASSUME NEW k \in Int, NEW m \in Int, NEW n \in Int
    PROVE  Chain(Sign(k - m), Sign(m - n), Sign(k - n))
<1>1. k - m \in Int /\ m - n \in Int /\ k - n \in Int
  OBVIOUS
<1>2. /\ Sign(k - m) <= 0 <=> k <= m
      /\ Sign(m - n) <= 0 <=> m <= n
      /\ Sign(k - n) <= 0 <=> k <= n
      /\ Sign(k - m) = 0 <=> k = m
      /\ Sign(m - n) = 0 <=> m = n
      /\ Sign(k - n) = 0 <=> k = n
  BY <1>1, SignIs
<1> QED  BY <1>2 DEF Chain

\* A row of comparisons: the first that is not zero decides.
Rows == [Nat -> Signs]
Deciding(row) == {i \in Nat : row[i] # 0}
Leading(row) == IF Deciding(row) = {} THEN 0 ELSE row[First(Deciding(row))]

LEMMA LeadingIs ==
    ASSUME NEW row \in Rows
    PROVE  /\ Leading(row) \in Signs
           /\ Leading(row) = 0 <=> \A i \in Nat : row[i] = 0
           /\ \A n \in Nat : row[n] # 0 /\ (\A i \in Nat : i < n => row[i] = 0)
                => Leading(row) = row[n]
           /\ Leading(row) # 0 =>
                \E n \in Nat : row[n] = Leading(row) /\ \A i \in Nat : i < n => row[i] = 0
<1>1. CASE Deciding(row) = {}
  <2>1. Leading(row) = 0
    BY <1>1 DEF Leading
  <2>2. \A i \in Nat : row[i] = 0
    BY <1>1 DEF Deciding
  <2> QED  BY <2>1, <2>2 DEF Signs
<1>2. CASE Deciding(row) # {}
  <2>1. PICK f : f = First(Deciding(row))
    OBVIOUS
  <2>2. Deciding(row) \subseteq Nat
    BY DEF Deciding
  <2>3. f \in Deciding(row) /\ \A m \in Deciding(row) : f <= m
    BY <1>2, <2>1, <2>2, FirstIsLeast
  <2>4. f \in Nat /\ row[f] # 0 /\ Leading(row) = row[f]
    BY <1>2, <2>1, <2>3 DEF Leading, Deciding
  <2>5. row[f] \in Signs
    BY <2>4 DEF Rows
  <2>6. \A i \in Nat : i < f => row[i] = 0
    BY <2>3, <2>4 DEF Deciding
  <2>7. ASSUME NEW n \in Nat, row[n] # 0, \A i \in Nat : i < n => row[i] = 0
        PROVE  n = f
    BY <2>4, <2>6, <2>7
  <2> QED  BY <2>4, <2>5, <2>6, <2>7
<1> QED  BY <1>1, <1>2

LEMMA LeadingTurns ==
    ASSUME NEW r \in Rows, NEW s \in Rows, \A i \in Nat : s[i] = 0 - r[i]
    PROVE  Leading(s) = 0 - Leading(r)
<1>1. \A i \in Nat : r[i] \in Int /\ s[i] \in Int /\ (r[i] = 0 <=> s[i] = 0)
  BY DEF Rows, Signs
<1>2. CASE Leading(r) = 0
  <2>1. \A i \in Nat : s[i] = 0
    BY <1>1, <1>2, LeadingIs
  <2> QED  BY <1>2, <2>1, LeadingIs
<1>3. CASE Leading(r) # 0
  <2>1. PICK n \in Nat : r[n] = Leading(r) /\ \A i \in Nat : i < n => r[i] = 0
    BY <1>3, LeadingIs
  <2>2. s[n] # 0 /\ \A i \in Nat : i < n => s[i] = 0
    BY <1>1, <1>3, <2>1
  <2>3. Leading(s) = s[n]
    BY <2>2, LeadingIs
  <2> QED  BY <2>1, <2>3
<1> QED  BY <1>2, <1>3

LEMMA LeadingChain ==
    ASSUME NEW p \in Rows, NEW q \in Rows, NEW r \in Rows,
           \A i \in Nat : Chain(p[i], q[i], r[i])
    PROVE  Chain(Leading(p), Leading(q), Leading(r))
<1> SUFFICES ASSUME Leading(p) <= 0, Leading(q) <= 0
             PROVE  Leading(r) <= 0 /\ (Leading(r) = 0 <=> Leading(p) = 0 /\ Leading(q) = 0)
  BY DEF Chain
<1>1. Leading(p) \in Signs /\ Leading(q) \in Signs /\ Leading(r) \in Signs
  BY LeadingIs
<1>2. PICK D : D = Deciding(p) \cup Deciding(q)
  OBVIOUS
<1>3. \A i \in Nat : i \in D <=> p[i] # 0 \/ q[i] # 0
  BY <1>2 DEF Deciding
<1>4. \A i \in Nat : i \notin D => r[i] = 0
  BY <1>3 DEF Chain
<1>5. CASE D = {}
  <2>1. \A i \in Nat : p[i] = 0 /\ q[i] = 0 /\ r[i] = 0
    BY <1>3, <1>4, <1>5
  <2> QED  BY <2>1, LeadingIs
<1>6. CASE D # {}
  <2>1. D \subseteq Nat
    BY <1>2 DEF Deciding
  <2>2. PICK n \in D : \A m \in D : n <= m
    BY <1>6, <2>1, LeastNatural
  <2>3. n \in Nat /\ \A i \in Nat : i < n => i \notin D
    BY <2>1, <2>2
  <2>4. \A i \in Nat : i < n => p[i] = 0 /\ q[i] = 0 /\ r[i] = 0
    BY <1>3, <1>4, <2>3
  <2>5. p[n] = 0 \/ p[n] = Leading(p)
    BY <2>3, <2>4, LeadingIs
  <2>6. q[n] = 0 \/ q[n] = Leading(q)
    BY <2>3, <2>4, LeadingIs
  <2>7. p[n] <= 0 /\ q[n] <= 0 /\ (p[n] # 0 \/ q[n] # 0)
    BY <1>3, <2>2, <2>3, <2>5, <2>6
  <2>8. r[n] <= 0 /\ r[n] # 0
    BY <2>3, <2>7 DEF Chain
  <2>9. Leading(r) = r[n]
    BY <2>3, <2>4, <2>8, LeadingIs
  <2>10. Leading(p) # 0 \/ Leading(q) # 0
    BY <2>5, <2>6, <2>7
  <2> QED  BY <2>8, <2>9, <2>10
<1> QED  BY <1>5, <1>6

\* The row of two sequences of the lengths a and b: what is beyond both is even.
Uneven(row, a, b) == {i \in Nat : i \in 1..a /\ i \in 1..b /\ row[i] # 0}

LEMMA LeadingWithEnds ==
    ASSUME NEW row \in Rows, NEW a \in Nat, NEW b \in Nat,
           \A i \in Nat : i \notin 1..a /\ i \notin 1..b => row[i] = 0,
           Uneven(row, a, b) # {}
    PROVE  LET n == First(Uneven(row, a, b))
           IN n \in Nat /\ n \in 1..a /\ n \in 1..b /\ Leading(row) = row[n]
<1>1. PICK D : D = Uneven(row, a, b)
  OBVIOUS
<1>2. D \subseteq Nat
  BY <1>1 DEF Uneven
<1>3. PICK n : n = First(D)
  OBVIOUS
<1>4. n \in D /\ \A m \in D : n <= m
  BY <1>1, <1>2, <1>3, FirstIsLeast
<1>5. n \in Nat /\ n \in 1..a /\ n \in 1..b /\ row[n] # 0
  BY <1>1, <1>4 DEF Uneven
<1>6. ASSUME NEW i \in Nat, i < n PROVE row[i] = 0
  <2>1. i \notin D
    BY <1>4, <1>5, <1>6
  <2>2. i = 0 \/ (i \in 1..a /\ i \in 1..b)
    BY <1>5, <1>6
  <2>3. i = 0 => i \notin 1..a /\ i \notin 1..b
    OBVIOUS
  <2> QED  BY <1>1, <2>1, <2>2, <2>3 DEF Uneven
<1>7. Leading(row) = row[n]
  BY <1>5, <1>6, LeadingIs
<1> QED  BY <1>1, <1>3, <1>5, <1>7

LEMMA LeadingBehindEnd ==
    ASSUME NEW row \in Rows, NEW a \in Nat, NEW b \in Nat,
           \A i \in Nat : i \notin 1..a /\ i \notin 1..b => row[i] = 0,
           Uneven(row, a, b) = {}
    PROVE  /\ a = b => Leading(row) = 0
           /\ a < b /\ row[a + 1] # 0 => Leading(row) = row[a + 1]
           /\ b < a /\ row[b + 1] # 0 => Leading(row) = row[b + 1]
<1>1. \A i \in Nat : i \in 1..a /\ i \in 1..b => row[i] = 0
  BY DEF Uneven
<1>2. \A i \in Nat : i <= a /\ i <= b => row[i] = 0
  <2> SUFFICES ASSUME NEW i \in Nat, i <= a, i <= b PROVE row[i] = 0
    OBVIOUS
  <2>1. CASE i = 0
    <3>1. i \notin 1..a /\ i \notin 1..b
      BY <2>1
    <3> QED  BY <3>1
  <2>2. CASE i # 0
    <3>1. i \in 1..a /\ i \in 1..b
      BY <2>2
    <3> QED  BY <1>1, <3>1
  <2> QED  BY <2>1, <2>2
<1>3. CASE a = b
  <2>1. \A i \in Nat : i <= a \/ (i \notin 1..a /\ i \notin 1..b)
    BY <1>3
  <2>2. \A i \in Nat : row[i] = 0
    BY <1>2, <1>3, <2>1
  <2> QED  BY <1>3, <2>2, LeadingIs
<1>4. CASE a < b
  <2>1. a + 1 \in Nat /\ \A i \in Nat : i < a + 1 => i <= a /\ i <= b
    BY <1>4
  <2>2. \A i \in Nat : i < a + 1 => row[i] = 0
    BY <1>2, <2>1
  <2>3. row[a + 1] # 0 => Leading(row) = row[a + 1]
    BY <2>1, <2>2, LeadingIs
  <2> QED  BY <1>4, <2>3
<1>5. CASE b < a
  <2>1. b + 1 \in Nat /\ \A i \in Nat : i < b + 1 => i <= a /\ i <= b
    BY <1>5
  <2>2. \A i \in Nat : i < b + 1 => row[i] = 0
    BY <1>2, <2>1
  <2>3. row[b + 1] # 0 => Leading(row) = row[b + 1]
    BY <2>1, <2>2, LeadingIs
  <2> QED  BY <1>5, <2>3
<1> QED  BY <1>3, <1>4, <1>5

\* What goes on is the greater.
LEMMA LeadingByLength ==
    ASSUME NEW row \in Rows, NEW a \in Nat, NEW b \in Nat,
           \A i \in Nat :
              /\ i \notin 1..a /\ i \notin 1..b => row[i] = 0
              /\ i \in 1..a /\ i \notin 1..b => row[i] = 1
              /\ i \notin 1..a /\ i \in 1..b => row[i] = -1,
           Uneven(row, a, b) = {}
    PROVE  Leading(row) = Sign(a - b)
<1>1. a - b \in Int
  OBVIOUS
<1>2. CASE a = b
  <2>1. Leading(row) = 0 /\ a - b = 0
    BY <1>2, LeadingBehindEnd
  <2> QED  BY <2>1, SignIs
<1>3. CASE a < b
  <2>1. a + 1 \in Nat /\ a + 1 \notin 1..a /\ a + 1 \in 1..b /\ a - b < 0
    BY <1>3
  <2>2. row[a + 1] = -1
    BY <2>1
  <2>3. Leading(row) = -1
    BY <1>3, <2>2, LeadingBehindEnd
  <2> QED  BY <1>1, <2>1, <2>3, SignIs
<1>4. CASE b < a
  <2>1. b + 1 \in Nat /\ b + 1 \notin 1..b /\ b + 1 \in 1..a /\ a - b > 0
    BY <1>4
  <2>2. row[b + 1] = 1
    BY <2>1
  <2>3. Leading(row) = 1
    BY <1>4, <2>2, LeadingBehindEnd
  <2> QED  BY <1>1, <2>1, <2>3, SignIs
<1> QED  BY <1>2, <1>3, <1>4

-----------------------------------------------------------------------------
\* Numbers, by the digits read so far.
Prefixes(d) ==
    LET n[i \in 0..Len(d)] == IF i = 0 THEN 0 ELSE 10 * n[i - 1] + d[i] IN n

Reads(n, d) ==
    /\ n \in [0..Len(d) -> Nat]
    /\ n[0] = 0
    /\ \A i \in 1..Len(d) : n[i] = 10 * n[i - 1] + d[i]

LEMMA NumberExists ==
    ASSUME NEW d \in Numeral
    PROVE  \E n : Reads(n, d)
<1>1. Len(d) \in Nat /\ \A i \in 1..Len(d) : d[i] \in 0..9
  BY DEF Numeral
<1>2. PICK L \in Nat : L = Len(d)
  BY <1>1
<1>3. PICK e \in [Nat -> 0..9] : \A i \in 1..L : e[i] = d[i]
  <2>1. PICK e : e = [i \in Nat |-> IF i \in 1..L THEN d[i] ELSE 0]
    OBVIOUS
  <2>2. \A i \in 1..L : e[i] = d[i]
    BY <2>1
  <2>3. e \in [Nat -> 0..9]
    BY <1>1, <1>2, <2>1
  <2> QED  BY <2>2, <2>3
<1> DEFINE Read(n, k) == n[0] = 0 /\ \A i \in 1..k : n[i] = 10 * n[i - 1] + e[i]
           Long == {k \in Nat : \E n \in [0..k -> Nat] : Read(n, k)}
<1>4. 0 \in Long
  <2>1. [i \in 0..0 |-> 0] \in [0..0 -> Nat]
    OBVIOUS
  <2>2. Read([i \in 0..0 |-> 0], 0)
    OBVIOUS
  <2> QED  BY <2>1, <2>2
<1>5. ASSUME NEW k \in Nat, k \in Long PROVE k + 1 \in Long
  <2>1. PICK n \in [0..k -> Nat] : Read(n, k)
    BY <1>5
  <2>2. PICK m : m = [i \in 0..(k + 1) |-> IF i <= k THEN n[i] ELSE 10 * n[k] + e[k + 1]]
    OBVIOUS
  <2>3. n[k] \in Nat /\ e[k + 1] \in Nat /\ 10 * n[k] + e[k + 1] \in Nat
    <3>1. n[k] \in Nat
      BY <2>1
    <3>2. e[k + 1] \in 0..9
      OBVIOUS
    <3> QED  BY <3>1, <3>2
  <2>4. m \in [0..(k + 1) -> Nat]
    BY <2>2, <2>3
  <2>5. \A i \in 0..k : m[i] = n[i]
    BY <2>2
  <2>6. m[k + 1] = 10 * m[(k + 1) - 1] + e[k + 1]
    BY <2>2
  <2>7. ASSUME NEW i \in 1..k PROVE m[i] = 10 * m[i - 1] + e[i]
    <3>1. i \in 0..k /\ i - 1 \in 0..k
      OBVIOUS
    <3> QED  BY <2>1, <2>5, <3>1
  <2>8. \A i \in 1..(k + 1) : i \in 1..k \/ i = k + 1
    OBVIOUS
  <2>9. m[0] = 0
    BY <2>1, <2>5
  <2>10. Read(m, k + 1)
    BY <2>6, <2>7, <2>8, <2>9
  <2>11. k + 1 \in Nat
    OBVIOUS
  <2> HIDE DEF Read
  <2> QED  BY <2>4, <2>10, <2>11
<1>6. L \in Long
  <2> HIDE DEF Long
  <2>1. Nat \subseteq Long
    BY <1>4, <1>5, SetInduction
  <2> QED  BY <2>1
<1>7. PICK n \in [0..L -> Nat] : Read(n, L)
  BY <1>6
<1> QED  BY <1>2, <1>3, <1>7 DEF Reads

LEMMA NumberReads ==
    ASSUME NEW d \in Numeral
    PROVE  Reads(Prefixes(d), d) /\ Number(d) = Prefixes(d)[Len(d)]
<1>1. Len(d) \in Nat /\ \A i \in 1..Len(d) : d[i] \in 0..9
  BY DEF Numeral
<1> DEFINE Step(n) == [i \in 0..Len(d) |-> IF i = 0 THEN 0 ELSE 10 * n[i - 1] + d[i]]
<1>2. PICK n : Reads(n, d)
  BY NumberExists
<1>3. n = Step(n)
  <2>1. \A i \in 0..Len(d) : n[i] = Step(n)[i]
    BY <1>1, <1>2 DEF Reads
  <2> QED  BY <1>2, <2>1 DEF Reads
<1>4. Prefixes(d) = CHOOSE m : m = Step(m)
  BY DEF Prefixes
<1>5. Prefixes(d) = Step(Prefixes(d))
  BY <1>3, <1>4
<1>6. PICK p : p = Prefixes(d)
  OBVIOUS
<1>7. p[0] = 0 /\ \A i \in 1..Len(d) : p[i] = 10 * p[i - 1] + d[i]
  BY <1>1, <1>5, <1>6
<1>8. \A i \in 0..Len(d) : p[i] \in Nat
  <2> DEFINE Good == {k \in Nat : k <= Len(d) => p[k] \in Nat}
  <2>1. 0 \in Good
    BY <1>7
  <2>2. ASSUME NEW k \in Nat, k \in Good PROVE k + 1 \in Good
    <3>1. CASE k + 1 <= Len(d)
      <4>1. p[k] \in Nat /\ k + 1 \in 1..Len(d) /\ (k + 1) - 1 = k
        BY <2>2, <3>1, <1>1
      <4>2. d[k + 1] \in Nat
        BY <1>1, <4>1
      <4>3. p[k + 1] = 10 * p[k] + d[k + 1]
        BY <1>7, <4>1
      <4> QED  BY <4>1, <4>2, <4>3
    <3> QED  BY <3>1
  <2> HIDE DEF Good
  <2>3. Nat \subseteq Good
    BY <2>1, <2>2, SetInduction
  <2> USE DEF Good
  <2> QED  BY <2>3, <1>1
<1>9. p = [i \in 0..Len(d) |-> p[i]]
  BY <1>5, <1>6
<1>10. Reads(p, d)
  BY <1>7, <1>8, <1>9 DEF Reads
<1> QED  BY <1>6, <1>10 DEF Number, Prefixes

LEMMA NumberType ==
    ASSUME NEW d \in Numeral
    PROVE  Number(d) \in Nat
<1>1. Len(d) \in 0..Len(d)
  BY DEF Numeral
<1> QED  BY <1>1, NumberReads DEF Reads

LEMMA NumberOfNothing == Number(<<>>) = 0
<1>1. <<>> \in Numeral /\ Len(<<>>) = 0
  BY DEF Numeral
<1> QED  BY <1>1, NumberReads DEF Reads

LEMMA NumberPositive ==
    ASSUME NEW d \in Numeral, d # <<>>, d[1] # 0
    PROVE  Number(d) > 0
<1>1. /\ Len(d) \in Nat /\ Len(d) >= 1
      /\ \A i \in 1..Len(d) : d[i] \in 0..9
  BY EmptySeq DEF Numeral
<1>2. PICK p : p = Prefixes(d)
  OBVIOUS
<1>3. Reads(p, d) /\ Number(d) = p[Len(d)]
  BY <1>2, NumberReads
<1> DEFINE Good == {k \in Nat : k + 1 <= Len(d) => p[k + 1] > 0}
<1>4. 0 \in Good
  <2>1. 1 \in 1..Len(d) /\ 1 - 1 = 0
    BY <1>1
  <2>2. p[1] = 10 * p[0] + d[1] /\ p[0] = 0
    BY <1>3, <2>1 DEF Reads
  <2>3. d[1] \in 0..9
    BY <1>1, <2>1
  <2> QED  BY <2>2, <2>3
<1>5. ASSUME NEW k \in Nat, k \in Good PROVE k + 1 \in Good
  <2>1. CASE (k + 1) + 1 <= Len(d)
    <3>1. /\ (k + 1) + 1 \in 1..Len(d) /\ ((k + 1) + 1) - 1 = k + 1
          /\ k + 1 \in 0..Len(d) /\ k + 1 <= Len(d)
      BY <1>1, <2>1
    <3>2. p[k + 1] > 0 /\ p[k + 1] \in Nat
      BY <1>3, <1>5, <3>1 DEF Reads
    <3>3. p[(k + 1) + 1] = 10 * p[k + 1] + d[(k + 1) + 1]
      BY <1>3, <3>1 DEF Reads
    <3>4. d[(k + 1) + 1] \in Nat
      BY <1>1, <3>1
    <3>5. p[(k + 1) + 1] > 0
      BY <3>2, <3>3, <3>4
    <3> QED  BY <3>5
  <2> QED  BY <2>1
<1>6. Nat \subseteq Good
  <2> HIDE DEF Good
  <2> QED  BY <1>4, <1>5, SetInduction
<1>7. Len(d) - 1 \in Nat /\ (Len(d) - 1) + 1 = Len(d)
  BY <1>1
<1>8. Len(d) - 1 \in Good
  BY <1>6, <1>7
<1> QED  BY <1>3, <1>7, <1>8

LEMMA NumCmpOrders ==
    ASSUME NEW f \in Numeral, NEW s \in Numeral
    PROVE  /\ NumCmp(f, s) \in Signs
           /\ NumCmp(f, s) = 0 - NumCmp(s, f)
           /\ \A t \in Numeral : Chain(NumCmp(f, s), NumCmp(s, t), NumCmp(f, t))
           /\ NumCmp(f, s) = -1 <=> Number(f) < Number(s)
           /\ NumCmp(f, s) = 0 <=> Number(f) = Number(s)
<1>1. Number(f) \in Int /\ Number(s) \in Int /\ \A t \in Numeral : Number(t) \in Int
  BY NumberType
<1>2. Number(f) - Number(s) \in Int
  BY <1>1
<1>3. PICK n \in Int : n = Number(f) - Number(s)
  BY <1>2
<1>4. /\ Sign(n) \in Signs
      /\ Sign(n) = -1 <=> n < 0
      /\ Sign(n) = 0 <=> n = 0
  BY SignIs
<1>5. NumCmp(f, s) = Sign(n)
  BY <1>3 DEF NumCmp
<1>6. /\ n < 0 <=> Number(f) < Number(s)
      /\ n = 0 <=> Number(f) = Number(s)
  BY <1>1, <1>3
<1>7. NumCmp(f, s) = 0 - NumCmp(s, f)
  BY <1>1, SignTurns DEF NumCmp
<1>8. \A t \in Numeral : Chain(NumCmp(f, s), NumCmp(s, t), NumCmp(f, t))
  BY <1>1, SignChain DEF NumCmp
<1> QED  BY <1>4, <1>5, <1>6, <1>7, <1>8

-----------------------------------------------------------------------------
\* strcmp as a row: behind its end a text has the code -1.
Code(d, i) == IF i \in 1..Len(d) THEN d[i] ELSE -1
StrRow(f, s) == [i \in Nat |-> Sign(Code(f, i) - Code(s, i))]

LEMMA CodeType ==
    ASSUME NEW d \in Numeral, NEW i \in Nat
    PROVE  /\ Code(d, i) \in Int
           /\ Code(d, i) >= 0 <=> i \in 1..Len(d)
           /\ i \in 1..Len(d) => Code(d, i) = d[i]
           /\ i \notin 1..Len(d) => Code(d, i) = -1
<1>1. \A j \in 1..Len(d) : d[j] \in 0..9
  BY DEF Numeral
<1>2. CASE i \in 1..Len(d)
  BY <1>1, <1>2 DEF Code
<1>3. CASE i \notin 1..Len(d)
  BY <1>3 DEF Code
<1> QED  BY <1>2, <1>3

LEMMA StrRowOrders ==
    ASSUME NEW f \in Numeral, NEW s \in Numeral
    PROVE  /\ StrRow(f, s) \in Rows
           /\ \A i \in Nat : StrRow(f, s)[i] = 0 - StrRow(s, f)[i]
           /\ \A t \in Numeral, i \in Nat :
                 Chain(StrRow(f, s)[i], StrRow(s, t)[i], StrRow(f, t)[i])
<1>1. \A d \in Numeral, i \in Nat : Code(d, i) \in Int
  BY CodeType
<1>2. \A i \in Nat : Sign(Code(f, i) - Code(s, i)) \in Signs
  <2> SUFFICES ASSUME NEW i \in Nat PROVE Sign(Code(f, i) - Code(s, i)) \in Signs
    OBVIOUS
  <2>1. Code(f, i) - Code(s, i) \in Int
    BY <1>1
  <2> QED  BY <2>1, SignIs
<1>3. \A i \in Nat : Sign(Code(f, i) - Code(s, i)) = 0 - Sign(Code(s, i) - Code(f, i))
  BY <1>1, SignTurns
<1>4. \A t \in Numeral, i \in Nat :
         Chain(Sign(Code(f, i) - Code(s, i)), Sign(Code(s, i) - Code(t, i)),
               Sign(Code(f, i) - Code(t, i)))
  BY <1>1, SignChain
<1>5. StrRow(f, s) \in Rows
  BY <1>2 DEF StrRow, Rows
<1>6. \A i \in Nat : StrRow(f, s)[i] = 0 - StrRow(s, f)[i]
  BY <1>3 DEF StrRow
<1>7. \A t \in Numeral, i \in Nat : Chain(StrRow(f, s)[i], StrRow(s, t)[i], StrRow(f, t)[i])
  BY <1>4 DEF StrRow
<1> QED  BY <1>5, <1>6, <1>7

LEMMA StrCmpLeads ==
    ASSUME NEW f \in Numeral, NEW s \in Numeral
    PROVE  StrCmp(f, s) = Leading(StrRow(f, s))
<1>1. PICK a, b \in Nat : a = Len(f) /\ b = Len(s) /\ DOMAIN f = 1..a /\ DOMAIN s = 1..b
  BY DEF Numeral
<1>2. PICK row \in Rows : row = StrRow(f, s)
  BY StrRowOrders
<1>3. \A i \in Nat : row[i] = Sign(Code(f, i) - Code(s, i))
  BY <1>2 DEF StrRow
<1>4. ASSUME NEW i \in Nat
      PROVE  /\ row[i] = 0 <=> Code(f, i) = Code(s, i)
             /\ row[i] = -1 <=> Code(f, i) < Code(s, i)
             /\ row[i] = 1 <=> Code(f, i) > Code(s, i)
  <2>1. PICK k, l \in Int : k = Code(f, i) /\ l = Code(s, i)
    BY CodeType
  <2>2. PICK c \in Int : c = k - l
    OBVIOUS
  <2>3. row[i] = Sign(c)
    BY <1>3, <2>1, <2>2
  <2>4. /\ c = 0 <=> k = l
        /\ c < 0 <=> k < l
        /\ c > 0 <=> k > l
    BY <2>2
  <2> QED  BY <2>1, <2>3, <2>4, SignIs
<1>5. \A i \in Nat : i \in 1..a /\ i \in 1..b =>
         /\ Code(f, i) = f[i] /\ Code(s, i) = s[i]
         /\ row[i] = 0 <=> f[i] = s[i]
  <2>1. \A i \in Nat : i \in 1..a /\ i \in 1..b => Code(f, i) = f[i] /\ Code(s, i) = s[i]
    BY <1>1 DEF Code
  <2> QED  BY <1>4, <2>1
<1>6. ASSUME NEW i \in Nat
      PROVE  /\ i \notin 1..a /\ i \notin 1..b => row[i] = 0
             /\ i \in 1..a /\ i \notin 1..b => row[i] = 1
             /\ i \notin 1..a /\ i \in 1..b => row[i] = -1
  <2>1. \A d \in Numeral :
           /\ Code(d, i) \in Int
           /\ i \in 1..Len(d) => Code(d, i) > -1
           /\ i \notin 1..Len(d) => Code(d, i) = -1
    BY CodeType
  <2> QED  BY <1>1, <1>4, <2>1
<1>7. PICK D : D = Uneven(row, a, b)
  OBVIOUS
<1>8. D = {i \in DOMAIN f \cap DOMAIN s : f[i] # s[i]}
  BY <1>1, <1>5, <1>7 DEF Uneven
<1>9. CASE D # {}
  <2>1. PICK n : n = First(D)
    OBVIOUS
  <2>2. n \in Nat /\ n \in 1..a /\ n \in 1..b /\ Leading(row) = row[n]
    BY <1>6, <1>7, <1>9, <2>1, LeadingWithEnds
  <2>3. Leading(row) = Sign(f[n] - s[n])
    BY <1>3, <1>5, <2>2
  <2>4. StrCmp(f, s) = Sign(f[n] - s[n])
    BY <1>8, <1>9, <2>1 DEF StrCmp
  <2> QED  BY <1>2, <2>3, <2>4
<1>10. CASE D = {}
  <2>1. StrCmp(f, s) = Sign(a - b)
    BY <1>1, <1>8, <1>10 DEF StrCmp
  <2>2. Leading(row) = Sign(a - b)
    BY <1>6, <1>7, <1>10, LeadingByLength
  <2> QED  BY <1>2, <2>1, <2>2
<1> QED  BY <1>9, <1>10

LEMMA StrCmpOrders ==
    ASSUME NEW f \in Numeral, NEW s \in Numeral
    PROVE  /\ StrCmp(f, s) \in Signs
           /\ StrCmp(f, s) = 0 - StrCmp(s, f)
           /\ \A t \in Numeral : Chain(StrCmp(f, s), StrCmp(s, t), StrCmp(f, t))
<1>1. /\ StrRow(f, s) \in Rows /\ StrRow(s, f) \in Rows
      /\ \A i \in Nat : StrRow(f, s)[i] = 0 - StrRow(s, f)[i]
  BY StrRowOrders
<1>2. Leading(StrRow(f, s)) \in Signs
  BY <1>1, LeadingIs
<1>3. Leading(StrRow(f, s)) = 0 - Leading(StrRow(s, f))
  BY <1>1, LeadingTurns
<1>4. ASSUME NEW t \in Numeral PROVE Chain(StrCmp(f, s), StrCmp(s, t), StrCmp(f, t))
  <2>1. /\ StrRow(s, t) \in Rows /\ StrRow(f, t) \in Rows
        /\ \A i \in Nat : Chain(StrRow(f, s)[i], StrRow(s, t)[i], StrRow(f, t)[i])
    BY StrRowOrders
  <2>2. Chain(Leading(StrRow(f, s)), Leading(StrRow(s, t)), Leading(StrRow(f, t)))
    BY <1>1, <2>1, LeadingChain
  <2> QED  BY <2>2, StrCmpLeads
<1> QED  BY <1>2, <1>3, <1>4, StrCmpLeads

-----------------------------------------------------------------------------
\* Components.  One that is empty comes before one with a leading zero, and that
\* before any other: a preorder although two ways to compare are mixed.
Class(d) == IF d = <<>> THEN 0 ELSE IF d[1] = 0 THEN 1 ELSE 2

LEMMA ClassIs ==
    ASSUME NEW d \in Numeral
    PROVE  /\ Class(d) \in {0, 1, 2}
           /\ Class(d) = 0 <=> d = <<>>
           /\ Class(d) = 1 <=> LeadsWithZero(d)
           /\ Class(d) # 0 => Len(d) \in Nat /\ Len(d) > 0 /\ 1 \in DOMAIN d /\ d[1] \in 0..9
<1>1. d # <<>> => Len(d) \in Nat /\ Len(d) > 0 /\ DOMAIN d = 1..Len(d)
  BY EmptySeq DEF Numeral
<1>2. d # <<>> => 1 \in DOMAIN d /\ d[1] \in 0..9
  BY <1>1 DEF Numeral
<1> QED  BY <1>1, <1>2 DEF Class, LeadsWithZero

LEMMA StrCmpOfNothing ==
    ASSUME NEW s \in Numeral, s # <<>>
    PROVE  StrCmp(<<>>, s) = -1
<1>1. Len(s) \in Nat /\ Len(s) > 0 /\ Len(<<>>) = 0 /\ DOMAIN <<>> = {}
  BY EmptySeq DEF Numeral
<1>2. PICK c \in Int : c = Len(<<>>) - Len(s) /\ c < 0
  BY <1>1
<1>3. {i \in DOMAIN <<>> \cap DOMAIN s : <<>>[i] # s[i]} = {}
  BY <1>1
<1>4. StrCmp(<<>>, s) = Sign(c)
  BY <1>2, <1>3 DEF StrCmp
<1> QED  BY <1>2, <1>4, SignIs

LEMMA StrCmpByFirst ==
    ASSUME NEW f \in Numeral, NEW s \in Numeral, Class(f) = 1, Class(s) = 2
    PROVE  StrCmp(f, s) = -1
<1>1. PICK D : D = {i \in DOMAIN f \cap DOMAIN s : f[i] # s[i]}
  OBVIOUS
<1>2. f[1] = 0 /\ s[1] \in 1..9 /\ 1 \in DOMAIN f \cap DOMAIN s
  BY ClassIs DEF Class
<1>3. 1 \in D
  BY <1>1, <1>2
<1>4. D \subseteq Nat /\ \A m \in D : 1 <= m
  <2>1. DOMAIN f = 1..Len(f) /\ Len(f) \in Nat
    BY DEF Numeral
  <2> QED  BY <1>1, <2>1
<1>5. First(D) = 1
  BY <1>3, <1>4, FirstIs
<1>6. PICK c \in Int : c = f[1] - s[1] /\ c < 0
  BY <1>2
<1>7. StrCmp(f, s) = Sign(c)
  BY <1>1, <1>3, <1>5, <1>6 DEF StrCmp
<1> QED  BY <1>6, <1>7, SignIs

LEMMA ComponentByClass ==
    ASSUME NEW f \in Numeral, NEW s \in Numeral
    PROVE  /\ Class(f) < Class(s) => ComponentCmp(f, s) = -1
           /\ Class(f) > Class(s) => ComponentCmp(f, s) = 1
           /\ Class(f) = 0 /\ Class(s) = 0 => ComponentCmp(f, s) = 0
           /\ Class(f) = 1 /\ Class(s) = 1 => ComponentCmp(f, s) = StrCmp(f, s)
           /\ Class(f) = 2 /\ Class(s) = 2 => ComponentCmp(f, s) = NumCmp(f, s)
<1>1. /\ LeadsWithZero(f) <=> Class(f) = 1
      /\ LeadsWithZero(s) <=> Class(s) = 1
  BY ClassIs
<1>2. ASSUME NEW x \in Numeral, NEW y \in Numeral, Class(x) < Class(y)
      PROVE  ComponentCmp(x, y) = -1
  <2>1. Class(x) \in {0, 1, 2} /\ Class(y) \in {0, 1, 2}
    BY ClassIs
  <2>2. CASE Class(x) = 0 /\ Class(y) = 1
    <3>1. x = <<>> /\ y # <<>> /\ LeadsWithZero(y)
      BY <2>2, ClassIs
    <3> QED  BY <3>1, StrCmpOfNothing DEF ComponentCmp
  <2>3. CASE Class(x) = 0 /\ Class(y) = 2
    <3>1. x = <<>> /\ y # <<>> /\ y[1] # 0 /\ ~LeadsWithZero(x) /\ ~LeadsWithZero(y)
      BY <2>3, ClassIs DEF Class
    <3>2. Number(x) = 0 /\ Number(y) > 0
      BY <3>1, NumberOfNothing, NumberPositive
    <3>3. NumCmp(x, y) = -1
      BY <3>2, NumCmpOrders
    <3> QED  BY <3>1, <3>3 DEF ComponentCmp
  <2>4. CASE Class(x) = 1 /\ Class(y) = 2
    <3>1. LeadsWithZero(x)
      BY <2>4, ClassIs
    <3> QED  BY <2>4, <3>1, StrCmpByFirst DEF ComponentCmp
  <2> QED  BY <1>2, <2>1, <2>2, <2>3, <2>4
<1>3. ASSUME Class(f) > Class(s) PROVE ComponentCmp(f, s) = 1
  <2>1. Class(f) \in {0, 1, 2} /\ Class(s) \in {0, 1, 2}
    BY ClassIs
  <2>2. ComponentCmp(s, f) = -1
    BY <1>2, <1>3, <2>1
  <2>3. StrCmp(f, s) = 0 - StrCmp(s, f) /\ NumCmp(f, s) = 0 - NumCmp(s, f)
    BY StrCmpOrders, NumCmpOrders
  <2>4. ComponentCmp(f, s) = 0 - ComponentCmp(s, f)
    BY <2>3 DEF ComponentCmp
  <2>5. \A k, l \in Signs : l = 0 - k /\ k = -1 => l = 1
    BY DEF Signs
  <2>6. ComponentCmp(f, s) \in Signs /\ ComponentCmp(s, f) \in Signs
    BY StrCmpOrders, NumCmpOrders DEF ComponentCmp
  <2> QED  BY <2>2, <2>4, <2>5, <2>6
<1>4. ASSUME Class(f) = 0, Class(s) = 0 PROVE ComponentCmp(f, s) = 0
  <2>1. f = <<>> /\ s = <<>> /\ ~LeadsWithZero(f) /\ ~LeadsWithZero(s)
    BY <1>4, ClassIs
  <2>2. NumCmp(f, s) = 0
    BY <2>1, NumCmpOrders
  <2> QED  BY <2>1, <2>2 DEF ComponentCmp
<1>5. ASSUME Class(f) = 1, Class(s) = 1 PROVE ComponentCmp(f, s) = StrCmp(f, s)
  BY <1>1, <1>5 DEF ComponentCmp
<1>6. ASSUME Class(f) = 2, Class(s) = 2 PROVE ComponentCmp(f, s) = NumCmp(f, s)
  BY <1>1, <1>6 DEF ComponentCmp
<1> QED  BY <1>2, <1>3, <1>4, <1>5, <1>6

LEMMA ComponentCmpOrders ==
    ASSUME NEW f \in Numeral, NEW s \in Numeral
    PROVE  /\ ComponentCmp(f, s) \in Signs
           /\ ComponentCmp(f, s) = 0 - ComponentCmp(s, f)
           /\ \A t \in Numeral : Chain(ComponentCmp(f, s), ComponentCmp(s, t), ComponentCmp(f, t))
<1>1. /\ NumCmp(f, s) \in Signs /\ StrCmp(f, s) \in Signs
      /\ NumCmp(f, s) = 0 - NumCmp(s, f) /\ StrCmp(f, s) = 0 - StrCmp(s, f)
  BY NumCmpOrders, StrCmpOrders
<1>2. ComponentCmp(f, s) \in Signs /\ ComponentCmp(f, s) = 0 - ComponentCmp(s, f)
  BY <1>1 DEF ComponentCmp
<1>3. ASSUME NEW t \in Numeral
      PROVE  Chain(ComponentCmp(f, s), ComponentCmp(s, t), ComponentCmp(f, t))
  <2>1. PICK k, l, m \in {0, 1, 2} : k = Class(f) /\ l = Class(s) /\ m = Class(t)
    BY ClassIs
  <2>2. CASE k = l /\ l = m
    <3>1. CASE k = 0
      BY <2>1, <2>2, <3>1, ComponentByClass DEF Chain
    <3>2. CASE k = 1
      <4>1. /\ ComponentCmp(f, s) = StrCmp(f, s)
            /\ ComponentCmp(s, t) = StrCmp(s, t)
            /\ ComponentCmp(f, t) = StrCmp(f, t)
        BY <2>1, <2>2, <3>2, ComponentByClass
      <4>2. Chain(StrCmp(f, s), StrCmp(s, t), StrCmp(f, t))
        BY StrCmpOrders
      <4> QED  BY <4>1, <4>2
    <3>3. CASE k = 2
      <4>1. /\ ComponentCmp(f, s) = NumCmp(f, s)
            /\ ComponentCmp(s, t) = NumCmp(s, t)
            /\ ComponentCmp(f, t) = NumCmp(f, t)
        BY <2>1, <2>2, <3>3, ComponentByClass
      <4>2. Chain(NumCmp(f, s), NumCmp(s, t), NumCmp(f, t))
        BY NumCmpOrders
      <4> QED  BY <4>1, <4>2
    <3> QED  BY <3>1, <3>2, <3>3
  <2>3. CASE k > l \/ l > m
    <3>1. ComponentCmp(f, s) = 1 \/ ComponentCmp(s, t) = 1
      BY <2>1, <2>3, ComponentByClass
    <3> QED  BY <3>1 DEF Chain
  <2>4. CASE k <= l /\ l <= m /\ (k < l \/ l < m)
    <3>1. k < m
      BY <2>1, <2>4
    <3>2. ComponentCmp(f, t) = -1
      BY <2>1, <3>1, ComponentByClass
    <3>3. ComponentCmp(f, s) = -1 \/ ComponentCmp(s, t) = -1
      BY <2>1, <2>4, ComponentByClass
    <3> QED  BY <3>2, <3>3 DEF Chain
  <2>5. (k = l /\ l = m) \/ k > l \/ l > m \/ (k <= l /\ l <= m /\ (k < l \/ l < m))
    BY <2>1
  <2> QED  BY <2>2, <2>3, <2>4, <2>5
<1> QED  BY <1>2, <1>3

-----------------------------------------------------------------------------
\* normalize_minor leaves a text without trailing zeroes, if it begins with one.
Component == Numeral \ {<<>>}

LEMMA NormalizeIs ==
    ASSUME NEW d \in Component
    PROVE  /\ NormalizeMinor(d) \in Numeral
           /\ d[1] # 0 => NormalizeMinor(d) = d
           /\ d[1] = 0 =>
                /\ Len(NormalizeMinor(d)) \in 0..Len(d)
                /\ \A i \in 1..Len(NormalizeMinor(d)) : NormalizeMinor(d)[i] = d[i]
                /\ \A i \in 1..Len(d) : i > Len(NormalizeMinor(d)) => d[i] = 0
                /\ Len(NormalizeMinor(d)) = 0 \/ d[Len(NormalizeMinor(d))] # 0
<1>1. CASE d[1] # 0
  BY <1>1 DEF NormalizeMinor, Component
<1>2. CASE d[1] = 0
  <2>1. PICK L \in Nat : L = Len(d) /\ DOMAIN d = 1..L
    BY DEF Component, Numeral
  <2> DEFINE Zeroes(n) == \A i \in DOMAIN d : i > n => d[i] = 0
             Ends == {n \in 0..L : Zeroes(n)}
  <2>2. L \in Ends
    BY <2>1
  <2>3. Ends \subseteq Nat
    BY <2>1
  <2>4. PICK n \in Ends : \A m \in Ends : n <= m
    <3> HIDE DEF Ends
    <3> QED  BY <2>2, <2>3, LeastNatural
  <2>5. ASSUME n # 0, d[n] = 0 PROVE FALSE
    <3>1. n - 1 \in 0..L /\ n \in 0..L
      BY <2>1, <2>4, <2>5
    <3>2. \A i \in DOMAIN d : i > n - 1 => i > n \/ i = n
      BY <2>1, <3>1
    <3>3. Zeroes(n - 1)
      BY <2>4, <2>5, <3>2
    <3>4. n - 1 \in Ends
      BY <3>1, <3>3
    <3> QED  BY <2>4, <3>1, <3>4
  <2>6. PICK c : c = CHOOSE k \in 0..Len(d) : Zeroes(k) /\ (k = 0 \/ d[k] # 0)
    OBVIOUS
  <2>7. c \in 0..Len(d) /\ Zeroes(c) /\ (c = 0 \/ d[c] # 0)
    <3>1. \E k \in 0..Len(d) : Zeroes(k) /\ (k = 0 \/ d[k] # 0)
      BY <2>1, <2>4, <2>5
    <3> QED  BY <2>6, <3>1
  <2>8. NormalizeMinor(d) = SubSeq(d, 1, c)
    BY <1>2, <2>6 DEF NormalizeMinor
  <2>9. PICK e : e = SubSeq(d, 1, c)
    OBVIOUS
  <2>10. e \in Numeral /\ Len(e) = c /\ \A i \in 1..c : e[i] = d[i]
    <3>1. d \in Seq(0..9) /\ c \in Nat /\ c <= Len(d)
      BY <2>1, <2>7 DEF Component, Numeral
    <3>2. e = [i \in 1..c |-> d[i]]
      BY <2>9, <3>1
    <3>3. \A i \in 1..c : d[i] \in 0..9
      BY <3>1
    <3> QED  BY <3>1, <3>2, <3>3 DEF Numeral
  <2> QED  BY <1>2, <2>1, <2>7, <2>8, <2>9, <2>10
<1> QED  BY <1>1, <1>2

\* The components as a row: where one version has no more, it is older.
MinorRow(x, y) ==
    [i \in Nat |->
        CASE i \in 1..Len(x) /\ i \in 1..Len(y) ->
                ComponentCmp(NormalizeMinor(x[i]), NormalizeMinor(y[i]))
          [] i \in 1..Len(x) /\ i \notin 1..Len(y) -> 1
          [] i \notin 1..Len(x) /\ i \in 1..Len(y) -> -1
          [] i \notin 1..Len(x) /\ i \notin 1..Len(y) -> 0]

LEMMA MinorRowIs ==
    ASSUME NEW x, NEW y, NEW i \in Nat
    PROVE  /\ i \in 1..Len(x) /\ i \in 1..Len(y) =>
                MinorRow(x, y)[i] = ComponentCmp(NormalizeMinor(x[i]), NormalizeMinor(y[i]))
           /\ i \in 1..Len(x) /\ i \notin 1..Len(y) => MinorRow(x, y)[i] = 1
           /\ i \notin 1..Len(x) /\ i \in 1..Len(y) => MinorRow(x, y)[i] = -1
           /\ i \notin 1..Len(x) /\ i \notin 1..Len(y) => MinorRow(x, y)[i] = 0
BY DEF MinorRow

LEMMA MinorRowOrders ==
    ASSUME NEW x \in Seq(Component), NEW y \in Seq(Component)
    PROVE  /\ MinorRow(x, y) \in Rows
           /\ \A i \in Nat : MinorRow(x, y)[i] = 0 - MinorRow(y, x)[i]
           /\ \A z \in Seq(Component), i \in Nat :
                 Chain(MinorRow(x, y)[i], MinorRow(y, z)[i], MinorRow(x, z)[i])
<1>1. \A z \in Seq(Component), i \in Nat : i \in 1..Len(z) => NormalizeMinor(z[i]) \in Numeral
  <2>1. \A z \in Seq(Component), i \in Nat : i \in 1..Len(z) => z[i] \in Component
    OBVIOUS
  <2> QED  BY <2>1, NormalizeIs
<1>2. ASSUME NEW i \in Nat
      PROVE  MinorRow(x, y)[i] \in Signs /\ MinorRow(x, y)[i] = 0 - MinorRow(y, x)[i]
  <2>1. CASE i \in 1..Len(x) /\ i \in 1..Len(y)
    <3>1. PICK f, s \in Numeral : f = NormalizeMinor(x[i]) /\ s = NormalizeMinor(y[i])
      BY <1>1, <2>1
    <3>2. MinorRow(x, y)[i] = ComponentCmp(f, s) /\ MinorRow(y, x)[i] = ComponentCmp(s, f)
      BY <2>1, <3>1, MinorRowIs
    <3> QED  BY <3>2, ComponentCmpOrders
  <2>2. CASE ~(i \in 1..Len(x) /\ i \in 1..Len(y))
    BY <2>2, MinorRowIs DEF Signs
  <2> QED  BY <2>1, <2>2
<1>3. MinorRow(x, y) \in Rows
  BY <1>2 DEF MinorRow, Rows
<1>4. ASSUME NEW z \in Seq(Component), NEW i \in Nat
      PROVE  Chain(MinorRow(x, y)[i], MinorRow(y, z)[i], MinorRow(x, z)[i])
  <2>1. CASE i \in 1..Len(x) /\ i \in 1..Len(y) /\ i \in 1..Len(z)
    <3>1. PICK f, s, t \in Numeral :
             f = NormalizeMinor(x[i]) /\ s = NormalizeMinor(y[i]) /\ t = NormalizeMinor(z[i])
      BY <1>1, <2>1
    <3>2. /\ MinorRow(x, y)[i] = ComponentCmp(f, s)
          /\ MinorRow(y, z)[i] = ComponentCmp(s, t)
          /\ MinorRow(x, z)[i] = ComponentCmp(f, t)
      BY <2>1, <3>1, MinorRowIs
    <3> QED  BY <3>2, ComponentCmpOrders
  <2>2. CASE i \notin 1..Len(x)
    BY <2>2, MinorRowIs DEF Chain
  <2>3. CASE i \in 1..Len(x) /\ i \notin 1..Len(y)
    <3>1. MinorRow(x, y)[i] = 1
      BY <2>3, MinorRowIs
    <3> QED  BY <3>1 DEF Chain
  <2>4. CASE i \in 1..Len(y) /\ i \notin 1..Len(z)
    <3>1. MinorRow(y, z)[i] = 1
      BY <2>4, MinorRowIs
    <3> QED  BY <3>1 DEF Chain
  <2> QED  BY <2>1, <2>2, <2>3, <2>4
<1> QED  BY <1>2, <1>3, <1>4

LEMMA MinorCmpLeads ==
    ASSUME NEW x \in Seq(Component), NEW y \in Seq(Component)
    PROVE  MinorCmp(x, y) = Leading(MinorRow(x, y))
<1>1. PICK a, b \in Nat : a = Len(x) /\ b = Len(y) /\ DOMAIN x = 1..a /\ DOMAIN y = 1..b
  OBVIOUS
<1>2. PICK row \in Rows : row = MinorRow(x, y)
  BY MinorRowOrders
<1>3. \A i \in Nat : i \in 1..a /\ i \in 1..b =>
         row[i] = ComponentCmp(NormalizeMinor(x[i]), NormalizeMinor(y[i]))
  BY <1>1, <1>2, MinorRowIs
<1>4. \A i \in Nat :
         /\ i \notin 1..a /\ i \notin 1..b => row[i] = 0
         /\ i \in 1..a /\ i \notin 1..b => row[i] = 1
         /\ i \notin 1..a /\ i \in 1..b => row[i] = -1
  BY <1>1, <1>2, MinorRowIs
<1>5. PICK D : D = Uneven(row, a, b)
  OBVIOUS
<1>6. D = {i \in DOMAIN x \cap DOMAIN y :
             ComponentCmp(NormalizeMinor(x[i]), NormalizeMinor(y[i])) # 0}
  BY <1>1, <1>3, <1>5 DEF Uneven
<1>7. CASE D # {}
  <2>1. PICK n : n = First(D)
    OBVIOUS
  <2>2. n \in Nat /\ n \in 1..a /\ n \in 1..b /\ Leading(row) = row[n]
    BY <1>4, <1>5, <1>7, <2>1, LeadingWithEnds
  <2>3. Leading(row) = ComponentCmp(NormalizeMinor(x[n]), NormalizeMinor(y[n]))
    BY <1>3, <2>2
  <2>4. MinorCmp(x, y) = ComponentCmp(NormalizeMinor(x[n]), NormalizeMinor(y[n]))
    BY <1>6, <1>7, <2>1 DEF MinorCmp
  <2> QED  BY <1>2, <2>3, <2>4
<1>8. CASE D = {}
  <2>1. MinorCmp(x, y) = Sign(a - b)
    BY <1>1, <1>6, <1>8 DEF MinorCmp
  <2>2. Leading(row) = Sign(a - b)
    BY <1>4, <1>5, <1>8, LeadingByLength
  <2> QED  BY <1>2, <2>1, <2>2
<1> QED  BY <1>7, <1>8

LEMMA MinorCmpOrders ==
    ASSUME NEW x \in Seq(Component), NEW y \in Seq(Component)
    PROVE  /\ MinorCmp(x, y) \in Signs
           /\ MinorCmp(x, y) = 0 - MinorCmp(y, x)
           /\ \A z \in Seq(Component) : Chain(MinorCmp(x, y), MinorCmp(y, z), MinorCmp(x, z))
<1>1. /\ MinorRow(x, y) \in Rows /\ MinorRow(y, x) \in Rows
      /\ \A i \in Nat : MinorRow(x, y)[i] = 0 - MinorRow(y, x)[i]
  BY MinorRowOrders
<1>2. Leading(MinorRow(x, y)) \in Signs
  BY <1>1, LeadingIs
<1>3. Leading(MinorRow(x, y)) = 0 - Leading(MinorRow(y, x))
  BY <1>1, LeadingTurns
<1>4. ASSUME NEW z \in Seq(Component)
      PROVE  Chain(MinorCmp(x, y), MinorCmp(y, z), MinorCmp(x, z))
  <2>1. /\ MinorRow(y, z) \in Rows /\ MinorRow(x, z) \in Rows
        /\ \A i \in Nat : Chain(MinorRow(x, y)[i], MinorRow(y, z)[i], MinorRow(x, z)[i])
    BY MinorRowOrders
  <2>2. Chain(Leading(MinorRow(x, y)), Leading(MinorRow(y, z)), Leading(MinorRow(x, z)))
    BY <1>1, <2>1, LeadingChain
  <2> QED  BY <2>2, MinorCmpLeads
<1> QED  BY <1>2, <1>3, <1>4, MinorCmpLeads

-----------------------------------------------------------------------------
\* Suffixes.  The end of the suffixes takes part as one more type.
SuffixNames == {SuffixTypes[n] : n \in DOMAIN SuffixTypes}
Suffix == [type: SuffixNames, value: Numeral]
OrderRank(s) == CHOOSE n \in DOMAIN Order : Order[n] = s.type

LEMMA NamesOfSuffixes == SuffixNames = {"alpha", "beta", "pre", "rc", "p"}
<1>1. DOMAIN SuffixTypes = 1..5
  BY DEF SuffixTypes
<1>2. /\ SuffixTypes[1] = "alpha" /\ SuffixTypes[2] = "beta" /\ SuffixTypes[3] = "pre"
      /\ SuffixTypes[4] = "rc" /\ SuffixTypes[5] = "p"
  BY DEF SuffixTypes
<1>3. \A n \in 1..5 : n = 1 \/ n = 2 \/ n = 3 \/ n = 4 \/ n = 5
  OBVIOUS
<1> QED  BY <1>1, <1>2, <1>3 DEF SuffixNames

LEMMA TypeRanks ==
    ASSUME NEW s \in Suffix
    PROVE  /\ s.type = "alpha" => TypeRank(s) = 1
           /\ s.type = "beta" => TypeRank(s) = 2
           /\ s.type = "pre" => TypeRank(s) = 3
           /\ s.type = "rc" => TypeRank(s) = 4
           /\ s.type = "p" => TypeRank(s) = 5
<1>1. DOMAIN SuffixTypes = 1..5
  BY DEF SuffixTypes
<1>2. /\ SuffixTypes[1] = "alpha" /\ SuffixTypes[2] = "beta" /\ SuffixTypes[3] = "pre"
      /\ SuffixTypes[4] = "rc" /\ SuffixTypes[5] = "p"
  BY DEF SuffixTypes
<1>3. \A n \in 1..5 : n = 1 \/ n = 2 \/ n = 3 \/ n = 4 \/ n = 5
  OBVIOUS
<1>4. \A m, n \in 1..5 : SuffixTypes[m] = SuffixTypes[n] => m = n
  BY <1>2, <1>3
<1>5. \A n \in 1..5 : SuffixTypes[n] = s.type => TypeRank(s) = n
  BY <1>1, <1>4 DEF TypeRank
<1> QED  BY <1>2, <1>5

LEMMA OrderRanks ==
    ASSUME NEW s
    PROVE  /\ s.type = "alpha" => OrderRank(s) = 1
           /\ s.type = "beta" => OrderRank(s) = 2
           /\ s.type = "pre" => OrderRank(s) = 3
           /\ s.type = "rc" => OrderRank(s) = 4
           /\ s.type = "none" => OrderRank(s) = 5
           /\ s.type = "p" => OrderRank(s) = 6
<1>1. DOMAIN Order = 1..6
  BY DEF Order
<1>2. /\ Order[1] = "alpha" /\ Order[2] = "beta" /\ Order[3] = "pre"
      /\ Order[4] = "rc" /\ Order[5] = "none" /\ Order[6] = "p"
  BY DEF Order
<1>3. \A n \in 1..6 : n = 1 \/ n = 2 \/ n = 3 \/ n = 4 \/ n = 5 \/ n = 6
  OBVIOUS
<1>4. \A m, n \in 1..6 : Order[m] = Order[n] => m = n
  BY <1>2, <1>3
<1>5. \A n \in 1..6 : Order[n] = s.type => OrderRank(s) = n
  BY <1>1, <1>4 DEF OrderRank
<1> QED  BY <1>2, <1>5

LEMMA KeyIs ==
    ASSUME NEW s \in Suffix \cup {NoSuffix}
    PROVE  /\ Key(s) = <<OrderRank(s), Number(s.value)>>
           /\ OrderRank(s) \in 1..6 /\ Number(s.value) \in Nat
           /\ OrderRank(s) = 5 <=> s = NoSuffix
<1>1. Key(s) = <<OrderRank(s), Number(s.value)>>
  BY DEF Key, OrderRank
<1>2. CASE s = NoSuffix
  <2>1. s.type = "none" /\ s.value = <<>>
    BY <1>2 DEF NoSuffix
  <2> QED  BY <1>1, <1>2, <2>1, OrderRanks, NumberOfNothing
<1>3. CASE s \in Suffix
  <2>1. s.value \in Numeral /\ s.type \in {"alpha", "beta", "pre", "rc", "p"}
    BY <1>3, NamesOfSuffixes DEF Suffix
  <2>2. s # NoSuffix
    BY <2>1 DEF NoSuffix
  <2> QED  BY <1>1, <2>1, <2>2, OrderRanks, NumberType
<1> QED  BY <1>2, <1>3

KeyCmp(p, q) ==
    IF OrderRank(p) # OrderRank(q) THEN Sign(OrderRank(p) - OrderRank(q))
    ELSE Sign(Number(p.value) - Number(q.value))

LEMMA KeyCmpOrders ==
    ASSUME NEW p \in Suffix \cup {NoSuffix}, NEW q \in Suffix \cup {NoSuffix}
    PROVE  /\ KeyCmp(p, q) \in Signs
           /\ KeyCmp(p, q) = 0 - KeyCmp(q, p)
           /\ KeyCmp(p, q) = -1 <=> PairLess(p, q)
           /\ KeyCmp(p, q) = 0 <=> PairSame(p, q)
           /\ \A r \in Suffix \cup {NoSuffix} : Chain(KeyCmp(p, q), KeyCmp(q, r), KeyCmp(p, r))
<1>1. \A s \in Suffix \cup {NoSuffix} : OrderRank(s) \in Int /\ Number(s.value) \in Int
  BY KeyIs
<1>2. ASSUME NEW a \in Int, NEW b \in Int
      PROVE  /\ Sign(a - b) \in Signs
             /\ Sign(a - b) = -1 <=> a < b
             /\ Sign(a - b) = 0 <=> a = b
             /\ Sign(a - b) = 1 <=> a > b
             /\ Sign(a - b) = 0 - Sign(b - a)
  <2>1. PICK c \in Int : c = a - b
    OBVIOUS
  <2>2. (c < 0 <=> a < b) /\ (c = 0 <=> a = b) /\ (c > 0 <=> a > b)
    BY <2>1
  <2> QED  BY <2>1, <2>2, SignIs, SignTurns
<1>3. KeyCmp(p, q) \in Signs /\ KeyCmp(p, q) = 0 - KeyCmp(q, p)
  BY <1>1, <1>2 DEF KeyCmp
<1>4. \A s, t \in Suffix \cup {NoSuffix} :
         /\ KeyCmp(s, t) = -1 <=> \/ OrderRank(s) < OrderRank(t)
                                  \/ OrderRank(s) = OrderRank(t) /\ Number(s.value) < Number(t.value)
         /\ KeyCmp(s, t) = 0 <=> OrderRank(s) = OrderRank(t) /\ Number(s.value) = Number(t.value)
         /\ KeyCmp(s, t) \in Signs
  <2> SUFFICES ASSUME NEW s \in Suffix \cup {NoSuffix}, NEW t \in Suffix \cup {NoSuffix}
      PROVE
         /\ KeyCmp(s, t) = -1 <=> \/ OrderRank(s) < OrderRank(t)
                                  \/ OrderRank(s) = OrderRank(t) /\ Number(s.value) < Number(t.value)
         /\ KeyCmp(s, t) = 0 <=> OrderRank(s) = OrderRank(t) /\ Number(s.value) = Number(t.value)
         /\ KeyCmp(s, t) \in Signs
    OBVIOUS
  <2>1. PICK a, b, m, n \in Int : /\ a = OrderRank(s) /\ b = OrderRank(t)
                                  /\ m = Number(s.value) /\ n = Number(t.value)
    BY <1>1
  <2>2. KeyCmp(s, t) = IF a # b THEN Sign(a - b) ELSE Sign(m - n)
    BY <2>1 DEF KeyCmp
  <2>3. CASE a # b
    BY <1>2, <2>1, <2>2, <2>3
  <2>4. CASE a = b
    BY <1>2, <2>1, <2>2, <2>4
  <2> QED  BY <2>3, <2>4
<1>5. /\ KeyCmp(p, q) = -1 <=> PairLess(p, q)
      /\ KeyCmp(p, q) = 0 <=> PairSame(p, q)
  BY <1>4, KeyIs DEF PairLess, PairSame
<1>6. ASSUME NEW r \in Suffix \cup {NoSuffix}
      PROVE  Chain(KeyCmp(p, q), KeyCmp(q, r), KeyCmp(p, r))
  <2>1. PICK a, b, c, k, m, n \in Int :
           /\ a = OrderRank(p) /\ b = OrderRank(q) /\ c = OrderRank(r)
           /\ k = Number(p.value) /\ m = Number(q.value) /\ n = Number(r.value)
    BY <1>1
  <2>2. PICK x, y, z \in Signs :
           /\ x = KeyCmp(p, q) /\ y = KeyCmp(q, r) /\ z = KeyCmp(p, r)
    BY <1>4
  <2>3. /\ x = -1 <=> a < b \/ (a = b /\ k < m)
        /\ x = 0 <=> a = b /\ k = m
        /\ y = -1 <=> b < c \/ (b = c /\ m < n)
        /\ y = 0 <=> b = c /\ m = n
        /\ z = -1 <=> a < c \/ (a = c /\ k < n)
        /\ z = 0 <=> a = c /\ k = n
    BY <1>4, <2>1, <2>2
  <2>4. Chain(x, y, z)
    BY <2>3 DEF Chain, Signs
  <2> QED  BY <2>2, <2>4
<1> QED  BY <1>3, <1>5, <1>6

\* The suffixes that are there are compared by their keys, as the others are.
LEMMA SuffixCmpByKey ==
    ASSUME NEW f \in Suffix, NEW s \in Suffix
    PROVE  SuffixCmp(f, s) = KeyCmp(f, s)
<1>1. f.type \in SuffixNames /\ s.type \in SuffixNames
  BY DEF Suffix
<1>2. CASE f.type = s.type
  <2>1. OrderRank(f) = OrderRank(s)
    BY <1>2 DEF OrderRank
  <2> QED  BY <1>2, <2>1 DEF SuffixCmp, KeyCmp, NumCmp
<1>3. CASE f.type # s.type
  <2>1. /\ TypeRank(f) < TypeRank(s) <=> OrderRank(f) < OrderRank(s)
        /\ TypeRank(f) \in Int /\ TypeRank(s) \in Int /\ TypeRank(f) # TypeRank(s)
        /\ OrderRank(f) \in Int /\ OrderRank(s) \in Int /\ OrderRank(f) # OrderRank(s)
    <3>1. CASE f.type = "alpha"
      BY <1>1, <1>3, <3>1, NamesOfSuffixes, TypeRanks, OrderRanks
    <3>2. CASE f.type = "beta"
      BY <1>1, <1>3, <3>2, NamesOfSuffixes, TypeRanks, OrderRanks
    <3>3. CASE f.type = "pre"
      BY <1>1, <1>3, <3>3, NamesOfSuffixes, TypeRanks, OrderRanks
    <3>4. CASE f.type = "rc"
      BY <1>1, <1>3, <3>4, NamesOfSuffixes, TypeRanks, OrderRanks
    <3>5. CASE f.type = "p"
      BY <1>1, <1>3, <3>5, NamesOfSuffixes, TypeRanks, OrderRanks
    <3> QED  BY <1>1, <3>1, <3>2, <3>3, <3>4, <3>5, NamesOfSuffixes
  <2>2. PICK a, b, c, d \in Int :
           /\ a = TypeRank(f) /\ b = TypeRank(s) /\ c = OrderRank(f) /\ d = OrderRank(s)
           /\ a # b /\ c # d /\ (a < b <=> c < d)
    BY <2>1
  <2>3. PICK k, l \in Int : k = a - b /\ l = c - d
    BY <2>2
  <2>4. (k < 0 <=> l < 0) /\ k # 0 /\ l # 0
    BY <2>2, <2>3
  <2>5. Sign(k) = Sign(l)
    BY <2>4 DEF Sign
  <2> QED  BY <1>3, <2>2, <2>3, <2>5 DEF SuffixCmp, KeyCmp
<1> QED  BY <1>2, <1>3

LEMMA SuffixBeforeEnd ==
    ASSUME NEW s \in Suffix
    PROVE  /\ s.type = "p" => KeyCmp(s, NoSuffix) = 1 /\ KeyCmp(NoSuffix, s) = -1
           /\ s.type # "p" => KeyCmp(s, NoSuffix) = -1 /\ KeyCmp(NoSuffix, s) = 1
<1>1. OrderRank(NoSuffix) = 5
  BY OrderRanks DEF NoSuffix
<1>2. s.type \in {"alpha", "beta", "pre", "rc", "p"}
  BY NamesOfSuffixes DEF Suffix
<1>3. OrderRank(s) \in 1..6 /\ (s.type = "p" <=> OrderRank(s) = 6) /\ OrderRank(s) # 5
  BY <1>2, OrderRanks
<1>4. PICK n \in 1..6 : n = OrderRank(s)
  BY <1>3
<1>5. KeyCmp(s, NoSuffix) = Sign(n - 5) /\ KeyCmp(NoSuffix, s) = Sign(5 - n)
  BY <1>1, <1>3, <1>4 DEF KeyCmp
<1>6. CASE s.type = "p"
  <2>1. n - 5 = 1 /\ 5 - n = -1
    BY <1>3, <1>4, <1>6
  <2> QED  BY <1>5, <1>6, <2>1, SignIs
<1>7. CASE s.type # "p"
  <2>1. n - 5 \in Int /\ n - 5 < 0 /\ 5 - n \in Int /\ 5 - n > 0
    BY <1>3, <1>4, <1>7
  <2> QED  BY <1>5, <1>7, <2>1, SignIs
<1> QED  BY <1>6, <1>7

Place(f, i) == At(f, i, NoSuffix)
SuffixRow(f, s) == [i \in Nat |-> KeyCmp(Place(f, i), Place(s, i))]

LEMMA PlaceIs ==
    ASSUME NEW f \in Seq(Suffix), NEW i \in Nat
    PROVE  /\ Place(f, i) \in Suffix \cup {NoSuffix}
           /\ i \in 1..Len(f) => Place(f, i) = f[i] /\ f[i] \in Suffix
           /\ i \notin 1..Len(f) => Place(f, i) = NoSuffix
<1>1. DOMAIN f = 1..Len(f)
  OBVIOUS
<1>2. i \in 1..Len(f) => f[i] \in Suffix
  OBVIOUS
<1> QED  BY <1>1, <1>2 DEF Place, At

LEMMA SuffixRowOrders ==
    ASSUME NEW f \in Seq(Suffix), NEW s \in Seq(Suffix)
    PROVE  /\ SuffixRow(f, s) \in Rows
           /\ \A i \in Nat : SuffixRow(f, s)[i] = 0 - SuffixRow(s, f)[i]
           /\ \A t \in Seq(Suffix), i \in Nat :
                 Chain(SuffixRow(f, s)[i], SuffixRow(s, t)[i], SuffixRow(f, t)[i])
<1>1. \A t \in Seq(Suffix), i \in Nat : Place(t, i) \in Suffix \cup {NoSuffix}
  BY PlaceIs
<1>2. \A x, y : \A i \in Nat : SuffixRow(x, y)[i] = KeyCmp(Place(x, i), Place(y, i))
  BY DEF SuffixRow
<1>3. ASSUME NEW i \in Nat PROVE SuffixRow(f, s)[i] \in Signs
  <2>1. Place(f, i) \in Suffix \cup {NoSuffix} /\ Place(s, i) \in Suffix \cup {NoSuffix}
    BY <1>1
  <2>2. KeyCmp(Place(f, i), Place(s, i)) \in Signs
    BY <2>1, KeyCmpOrders
  <2> QED  BY <1>2, <2>2
<1>4. SuffixRow(f, s) \in Rows
  BY <1>3 DEF SuffixRow, Rows
<1>5. \A i \in Nat : SuffixRow(f, s)[i] = 0 - SuffixRow(s, f)[i]
  BY <1>1, <1>2, KeyCmpOrders
<1>6. ASSUME NEW t \in Seq(Suffix), NEW i \in Nat
      PROVE  Chain(SuffixRow(f, s)[i], SuffixRow(s, t)[i], SuffixRow(f, t)[i])
  <2>1. PICK x, y, z \in Suffix \cup {NoSuffix} :
           x = Place(f, i) /\ y = Place(s, i) /\ z = Place(t, i)
    BY <1>1
  <2>2. Chain(KeyCmp(x, y), KeyCmp(y, z), KeyCmp(x, z))
    BY KeyCmpOrders
  <2>3. /\ SuffixRow(f, s)[i] = KeyCmp(x, y)
        /\ SuffixRow(s, t)[i] = KeyCmp(y, z)
        /\ SuffixRow(f, t)[i] = KeyCmp(x, z)
    BY <1>2, <2>1
  <2> QED  BY <2>2, <2>3
<1> QED  BY <1>4, <1>5, <1>6

LEMMA SuffixesCmpLeads ==
    ASSUME NEW f \in Seq(Suffix), NEW s \in Seq(Suffix)
    PROVE  SuffixesCmp(f, s) = Leading(SuffixRow(f, s))
<1>1. PICK a, b \in Nat : a = Len(f) /\ b = Len(s) /\ DOMAIN f = 1..a /\ DOMAIN s = 1..b
  OBVIOUS
<1>2. PICK row \in Rows : row = SuffixRow(f, s)
  BY SuffixRowOrders
<1>3. \A i \in Nat : row[i] = KeyCmp(Place(f, i), Place(s, i))
  BY <1>2 DEF SuffixRow
<1>4. ASSUME NEW i \in Nat, i \in 1..a, i \in 1..b PROVE row[i] = SuffixCmp(f[i], s[i])
  <2>1. Place(f, i) = f[i] /\ Place(s, i) = s[i] /\ f[i] \in Suffix /\ s[i] \in Suffix
    BY <1>1, <1>4, PlaceIs
  <2> QED  BY <1>3, <2>1, SuffixCmpByKey
<1>5. ASSUME NEW i \in Nat, i \in 1..a, i \notin 1..b
      PROVE  row[i] = IF f[i].type = "p" THEN 1 ELSE -1
  <2>1. Place(f, i) = f[i] /\ Place(s, i) = NoSuffix /\ f[i] \in Suffix
    BY <1>1, <1>5, PlaceIs
  <2> QED  BY <1>3, <2>1, SuffixBeforeEnd
<1>6. ASSUME NEW i \in Nat, i \notin 1..a, i \in 1..b
      PROVE  row[i] = IF s[i].type = "p" THEN -1 ELSE 1
  <2>1. Place(s, i) = s[i] /\ Place(f, i) = NoSuffix /\ s[i] \in Suffix
    BY <1>1, <1>6, PlaceIs
  <2> QED  BY <1>3, <2>1, SuffixBeforeEnd
<1>7. ASSUME NEW i \in Nat, i \notin 1..a, i \notin 1..b PROVE row[i] = 0
  <2>1. Place(s, i) = NoSuffix /\ Place(f, i) = NoSuffix
    BY <1>1, <1>7, PlaceIs
  <2> QED  BY <1>3, <2>1, KeyCmpOrders DEF PairSame
<1>8. PICK D : D = Uneven(row, a, b)
  OBVIOUS
<1>9. D = {i \in DOMAIN f \cap DOMAIN s : SuffixCmp(f[i], s[i]) # 0}
  BY <1>1, <1>4, <1>8 DEF Uneven
<1>10. CASE D # {}
  <2>1. PICK n : n = First(D)
    OBVIOUS
  <2>2. n \in Nat /\ n \in 1..a /\ n \in 1..b /\ Leading(row) = row[n]
    BY <1>7, <1>8, <1>10, <2>1, LeadingWithEnds
  <2>3. SuffixesCmp(f, s) = SuffixCmp(f[n], s[n])
    BY <1>9, <1>10, <2>1 DEF SuffixesCmp
  <2> QED  BY <1>2, <1>4, <2>2, <2>3
<1>11. CASE D = {} /\ a = b
  <2>1. SuffixesCmp(f, s) = 0
    BY <1>1, <1>9, <1>11 DEF SuffixesCmp
  <2>2. Leading(row) = 0
    BY <1>7, <1>8, <1>11, LeadingBehindEnd
  <2> QED  BY <1>2, <2>1, <2>2
<1>12. CASE D = {} /\ a < b
  <2>1. a + 1 \in Nat /\ a + 1 \notin 1..a /\ a + 1 \in 1..b
    BY <1>12
  <2>2. row[a + 1] = IF s[a + 1].type = "p" THEN -1 ELSE 1
    BY <1>6, <2>1
  <2>3. Leading(row) = row[a + 1]
    <3>1. row[a + 1] # 0
      BY <2>2
    <3> QED  BY <1>7, <1>8, <1>12, <3>1, LeadingBehindEnd
  <2>4. SuffixesCmp(f, s) = IF s[a + 1].type = "p" THEN -1 ELSE 1
    BY <1>1, <1>9, <1>12 DEF SuffixesCmp
  <2> QED  BY <1>2, <2>2, <2>3, <2>4
<1>13. CASE D = {} /\ b < a
  <2>1. b + 1 \in Nat /\ b + 1 \notin 1..b /\ b + 1 \in 1..a
    BY <1>13
  <2>2. row[b + 1] = IF f[b + 1].type = "p" THEN 1 ELSE -1
    BY <1>5, <2>1
  <2>3. Leading(row) = row[b + 1]
    <3>1. row[b + 1] # 0
      BY <2>2
    <3> QED  BY <1>7, <1>8, <1>13, <3>1, LeadingBehindEnd
  <2>4. SuffixesCmp(f, s) = IF f[b + 1].type = "p" THEN 1 ELSE -1
    BY <1>1, <1>9, <1>13 DEF SuffixesCmp
  <2> QED  BY <1>2, <2>2, <2>3, <2>4
<1> QED  BY <1>1, <1>10, <1>11, <1>12, <1>13

LEMMA SuffixesCmpOrders ==
    ASSUME NEW f \in Seq(Suffix), NEW s \in Seq(Suffix)
    PROVE  /\ SuffixesCmp(f, s) \in Signs
           /\ SuffixesCmp(f, s) = 0 - SuffixesCmp(s, f)
           /\ \A t \in Seq(Suffix) : Chain(SuffixesCmp(f, s), SuffixesCmp(s, t), SuffixesCmp(f, t))
<1>1. /\ SuffixRow(f, s) \in Rows /\ SuffixRow(s, f) \in Rows
      /\ \A i \in Nat : SuffixRow(f, s)[i] = 0 - SuffixRow(s, f)[i]
  BY SuffixRowOrders
<1>2. Leading(SuffixRow(f, s)) \in Signs
  BY <1>1, LeadingIs
<1>3. Leading(SuffixRow(f, s)) = 0 - Leading(SuffixRow(s, f))
  BY <1>1, LeadingTurns
<1>4. ASSUME NEW t \in Seq(Suffix)
      PROVE  Chain(SuffixesCmp(f, s), SuffixesCmp(s, t), SuffixesCmp(f, t))
  <2>1. /\ SuffixRow(s, t) \in Rows /\ SuffixRow(f, t) \in Rows
        /\ \A i \in Nat : Chain(SuffixRow(f, s)[i], SuffixRow(s, t)[i], SuffixRow(f, t)[i])
    BY SuffixRowOrders
  <2>2. Chain(Leading(SuffixRow(f, s)), Leading(SuffixRow(s, t)), Leading(SuffixRow(f, t)))
    BY <1>1, <2>1, LeadingChain
  <2> QED  BY <2>2, SuffixesCmpLeads
<1> QED  BY <1>2, <1>3, <1>4, SuffixesCmpLeads

-----------------------------------------------------------------------------
\* Versions, part by part.
RevisionCmp(f, s, checkRevision) == IF checkRevision THEN NumCmp(f, s) ELSE 0

Parts(v, w, checkRevision) ==
    <<NumCmp(v.major, w.major), MinorCmp(v.minor, w.minor),
      Sign(v.letter - w.letter), SuffixesCmp(v.suffixes, w.suffixes),
      RevisionCmp(v.revision, w.revision, checkRevision)>>

PartRow(v, w, checkRevision) ==
    [i \in Nat |-> IF i \in 1..5 THEN Parts(v, w, checkRevision)[i] ELSE 0]

LEMMA VersionType ==
    ASSUME NEW v \in Version
    PROVE  /\ v.major \in Numeral /\ v.revision \in Numeral
           /\ v.minor \in Seq(Component) /\ v.suffixes \in Seq(Suffix)
           /\ v.letter \in Int
<1>1. Component = Numeral \ {<<>>}
  BY DEF Component
<1>2. Suffix = [type: {SuffixTypes[n] : n \in DOMAIN SuffixTypes}, value: Numeral]
  BY DEF Suffix, SuffixNames
<1>3. Version = [major: Numeral, minor: Seq(Component), letter: 0..26,
                 suffixes: Seq(Suffix), revision: Numeral]
  BY <1>1, <1>2 DEF Version
<1>4. /\ v.major \in Numeral /\ v.revision \in Numeral
      /\ v.minor \in Seq(Component) /\ v.suffixes \in Seq(Suffix)
      /\ v.letter \in 0..26
  BY <1>3
<1>5. \A n \in 0..26 : n \in Int
  OBVIOUS
<1>6. v.letter \in Int
  BY <1>4, <1>5
<1> QED  BY <1>4, <1>6

LEMMA PartRowIs ==
    ASSUME NEW v, NEW w, NEW check
    PROVE  /\ PartRow(v, w, check)[1] = NumCmp(v.major, w.major)
           /\ PartRow(v, w, check)[2] = MinorCmp(v.minor, w.minor)
           /\ PartRow(v, w, check)[3] = Sign(v.letter - w.letter)
           /\ PartRow(v, w, check)[4] = SuffixesCmp(v.suffixes, w.suffixes)
           /\ PartRow(v, w, check)[5] = RevisionCmp(v.revision, w.revision, check)
           /\ \A i \in Nat : i \notin 1..5 => PartRow(v, w, check)[i] = 0
           /\ \A i \in 1..5 : PartRow(v, w, check)[i] = Parts(v, w, check)[i]
<1>1. \A i \in 1..5 : PartRow(v, w, check)[i] = Parts(v, w, check)[i]
  BY DEF PartRow
<1>2. \A i \in Nat : i \notin 1..5 => PartRow(v, w, check)[i] = 0
  BY DEF PartRow
<1> QED  BY <1>1, <1>2 DEF Parts

LEMMA RevisionCmpOrders ==
    ASSUME NEW f \in Numeral, NEW s \in Numeral, NEW check \in BOOLEAN
    PROVE  /\ RevisionCmp(f, s, check) \in Signs
           /\ RevisionCmp(f, s, check) = 0 - RevisionCmp(s, f, check)
           /\ \A t \in Numeral :
                 Chain(RevisionCmp(f, s, check), RevisionCmp(s, t, check), RevisionCmp(f, t, check))
<1>1. CASE check
  BY <1>1, NumCmpOrders DEF RevisionCmp
<1>2. CASE ~check
  BY <1>2 DEF RevisionCmp, Chain, Signs
<1> QED  BY <1>1, <1>2

LEMMA PartRowOrders ==
    ASSUME NEW v \in Version, NEW w \in Version, NEW check \in BOOLEAN
    PROVE  /\ PartRow(v, w, check) \in Rows
           /\ \A i \in Nat : PartRow(v, w, check)[i] = 0 - PartRow(w, v, check)[i]
           /\ \A x \in Version, i \in Nat :
                 Chain(PartRow(v, w, check)[i], PartRow(w, x, check)[i], PartRow(v, x, check)[i])
<1>1. \A i \in Nat : i \in 1..5 => i = 1 \/ i = 2 \/ i = 3 \/ i = 4 \/ i = 5
  OBVIOUS
<1>2. /\ NumCmp(v.major, w.major) \in Signs
      /\ NumCmp(v.major, w.major) = 0 - NumCmp(w.major, v.major)
  BY VersionType, NumCmpOrders
<1>3. /\ MinorCmp(v.minor, w.minor) \in Signs
      /\ MinorCmp(v.minor, w.minor) = 0 - MinorCmp(w.minor, v.minor)
  BY VersionType, MinorCmpOrders
<1>4. /\ SuffixesCmp(v.suffixes, w.suffixes) \in Signs
      /\ SuffixesCmp(v.suffixes, w.suffixes) = 0 - SuffixesCmp(w.suffixes, v.suffixes)
  BY VersionType, SuffixesCmpOrders
<1>5. /\ Sign(v.letter - w.letter) \in Signs
      /\ Sign(v.letter - w.letter) = 0 - Sign(w.letter - v.letter)
  <2>1. PICK k, l \in Int : k = v.letter /\ l = w.letter
    BY VersionType
  <2>2. k - l \in Int
    OBVIOUS
  <2> QED  BY <2>1, <2>2, SignIs, SignTurns
<1>6. ASSUME NEW i \in Nat
      PROVE  /\ PartRow(v, w, check)[i] \in Signs
             /\ PartRow(v, w, check)[i] = 0 - PartRow(w, v, check)[i]
  <2>1. CASE i \notin 1..5
    BY <2>1, PartRowIs DEF Signs
  <2>2. CASE i = 1
    BY <1>2, <2>2, PartRowIs
  <2>3. CASE i = 2
    BY <1>3, <2>3, PartRowIs
  <2>4. CASE i = 3
    BY <1>5, <2>4, PartRowIs
  <2>5. CASE i = 4
    BY <1>4, <2>5, PartRowIs
  <2>6. CASE i = 5
    <3>1. /\ RevisionCmp(v.revision, w.revision, check) \in Signs
          /\ RevisionCmp(v.revision, w.revision, check) = 0 - RevisionCmp(w.revision, v.revision, check)
      BY VersionType, RevisionCmpOrders
    <3> QED  BY <2>6, <3>1, PartRowIs
  <2> QED  BY <1>1, <2>1, <2>2, <2>3, <2>4, <2>5, <2>6
<1>7. PartRow(v, w, check) \in Rows
  BY <1>6 DEF PartRow, Rows
<1>8. ASSUME NEW x \in Version, NEW i \in Nat
      PROVE  Chain(PartRow(v, w, check)[i], PartRow(w, x, check)[i], PartRow(v, x, check)[i])
  <2>1. CASE i \notin 1..5
    <3>1. /\ PartRow(v, w, check)[i] = 0 /\ PartRow(w, x, check)[i] = 0
          /\ PartRow(v, x, check)[i] = 0
      BY <2>1, PartRowIs
    <3> QED  BY <3>1 DEF Chain
  <2>2. CASE i = 1
    <3>1. Chain(NumCmp(v.major, w.major), NumCmp(w.major, x.major), NumCmp(v.major, x.major))
      BY VersionType, NumCmpOrders
    <3> QED  BY <2>2, <3>1, PartRowIs
  <2>3. CASE i = 2
    <3>1. Chain(MinorCmp(v.minor, w.minor), MinorCmp(w.minor, x.minor), MinorCmp(v.minor, x.minor))
      BY VersionType, MinorCmpOrders
    <3> QED  BY <2>3, <3>1, PartRowIs
  <2>4. CASE i = 3
    <3>1. Chain(Sign(v.letter - w.letter), Sign(w.letter - x.letter), Sign(v.letter - x.letter))
      BY VersionType, SignChain
    <3> QED  BY <2>4, <3>1, PartRowIs
  <2>5. CASE i = 4
    <3>1. Chain(SuffixesCmp(v.suffixes, w.suffixes), SuffixesCmp(w.suffixes, x.suffixes),
                SuffixesCmp(v.suffixes, x.suffixes))
      BY VersionType, SuffixesCmpOrders
    <3> QED  BY <2>5, <3>1, PartRowIs
  <2>6. CASE i = 5
    <3>1. Chain(RevisionCmp(v.revision, w.revision, check), RevisionCmp(w.revision, x.revision, check),
                RevisionCmp(v.revision, x.revision, check))
      BY VersionType, RevisionCmpOrders
    <3> QED  BY <2>6, <3>1, PartRowIs
  <2> QED  BY <1>1, <2>1, <2>2, <2>3, <2>4, <2>5, <2>6
<1> QED  BY <1>6, <1>7, <1>8

LEMMA CmpInternalLeads ==
    ASSUME NEW v \in Version, NEW w \in Version, NEW check \in BOOLEAN
    PROVE  CmpInternal(v, w, check) = Leading(PartRow(v, w, check))
<1>1. PICK row \in Rows : row = PartRow(v, w, check)
  BY PartRowOrders
<1>2. PICK parts : parts = Parts(v, w, check)
  OBVIOUS
<1>3. DOMAIN parts = 1..5
  BY <1>2 DEF Parts
<1>4. \A i \in 1..5 : row[i] = parts[i]
  BY <1>1, <1>2, PartRowIs
<1>5. \A i \in Nat : i \notin 1..5 => row[i] = 0
  BY <1>1, PartRowIs
<1>6. PICK D : D = {i \in DOMAIN parts : parts[i] # 0}
  OBVIOUS
<1>7. D = Deciding(row)
  BY <1>3, <1>4, <1>5, <1>6 DEF Deciding
<1>8. CmpInternal(v, w, check) = IF D = {} THEN 0 ELSE parts[First(D)]
  BY <1>2, <1>6 DEF CmpInternal, Parts, RevisionCmp
<1>9. CASE D = {}
  BY <1>1, <1>7, <1>8, <1>9 DEF Leading
<1>10. CASE D # {}
  <2>1. D \subseteq Nat
    BY <1>3, <1>6
  <2>2. First(D) \in 1..5
    BY <1>3, <1>6, <1>10, <2>1, FirstIsLeast
  <2> QED  BY <1>1, <1>4, <1>7, <1>8, <1>10, <2>2 DEF Leading
<1> QED  BY <1>9, <1>10

\* cp_version_cmp, with and without the revision, is a total preorder of all
\* versions: it has three results, turns round with its arguments, and two
\* steps that do not go down lead to a third (atom_parser.y:546-635).
THEOREM ComparisonIsAnOrder ==
    ASSUME NEW v \in Version, NEW w \in Version, NEW x \in Version, NEW check \in BOOLEAN
    PROVE  /\ CmpInternal(v, w, check) \in Signs
           /\ CmpInternal(v, w, check) = 0 - CmpInternal(w, v, check)
           /\ Chain(CmpInternal(v, w, check), CmpInternal(w, x, check), CmpInternal(v, x, check))
<1>1. /\ PartRow(v, w, check) \in Rows /\ PartRow(w, v, check) \in Rows
      /\ PartRow(w, x, check) \in Rows /\ PartRow(v, x, check) \in Rows
      /\ \A i \in Nat : PartRow(v, w, check)[i] = 0 - PartRow(w, v, check)[i]
      /\ \A i \in Nat :
            Chain(PartRow(v, w, check)[i], PartRow(w, x, check)[i], PartRow(v, x, check)[i])
  BY PartRowOrders
<1>2. Leading(PartRow(v, w, check)) \in Signs
  BY <1>1, LeadingIs
<1>3. Leading(PartRow(v, w, check)) = 0 - Leading(PartRow(w, v, check))
  BY <1>1, LeadingTurns
<1>4. Chain(Leading(PartRow(v, w, check)), Leading(PartRow(w, x, check)),
            Leading(PartRow(v, x, check)))
  BY <1>1, LeadingChain
<1> QED  BY <1>2, <1>3, <1>4, CmpInternalLeads

-----------------------------------------------------------------------------
\* Of two numerals of one length the first digit that differs decides.
LEMMA DigitsDecide ==
    ASSUME NEW p \in Numeral, NEW q \in Numeral, Len(p) = Len(q),
           NEW k \in 1..Len(p), p[k] < q[k], \A j \in 1..(k - 1) : p[j] = q[j]
    PROVE  Number(p) < Number(q)
<1>1. PICK L \in Nat : L = Len(p) /\ L = Len(q)
  BY DEF Numeral
<1>2. \A i \in 1..L : p[i] \in 0..9 /\ q[i] \in 0..9
  BY <1>1 DEF Numeral
<1>3. PICK f, g : f = Prefixes(p) /\ g = Prefixes(q)
  OBVIOUS
<1>4. /\ f[0] = 0 /\ g[0] = 0 /\ Number(p) = f[L] /\ Number(q) = g[L]
      /\ \A i \in 0..L : f[i] \in Nat /\ g[i] \in Nat
      /\ \A i \in 1..L : f[i] = 10 * f[i - 1] + p[i] /\ g[i] = 10 * g[i - 1] + q[i]
  BY <1>1, <1>3, NumberReads DEF Reads
<1> DEFINE Even == {j \in Nat : j < k => f[j] = g[j]}
           Less == {j \in Nat : j >= k /\ j <= L => f[j] < g[j]}
<1>5. Nat \subseteq Even
  <2>1. 0 \in Even
    BY <1>4
  <2>2. ASSUME NEW j \in Nat, j \in Even PROVE j + 1 \in Even
    <3>1. CASE j + 1 < k
      <4>1. j + 1 \in 1..L /\ j + 1 \in 1..(k - 1) /\ (j + 1) - 1 = j
        BY <1>1, <3>1
      <4>2. f[j] = g[j] /\ p[j + 1] = q[j + 1]
        BY <2>2, <3>1, <4>1
      <4>3. f[j + 1] = 10 * f[j] + p[j + 1] /\ g[j + 1] = 10 * g[j] + q[j + 1]
        BY <1>4, <4>1
      <4> QED  BY <4>2, <4>3
    <3> QED  BY <3>1
  <2> HIDE DEF Even
  <2> QED  BY <2>1, <2>2, SetInduction
<1>6. f[k] < g[k]
  <2>1. k - 1 \in Nat /\ k - 1 < k /\ k \in 1..L /\ k - 1 \in 0..L
    BY <1>1
  <2>2. f[k - 1] = g[k - 1]
    BY <1>5, <2>1
  <2>3. f[k] = 10 * f[k - 1] + p[k] /\ g[k] = 10 * g[k - 1] + q[k]
    BY <1>4, <2>1
  <2>4. f[k - 1] \in Nat /\ p[k] \in 0..9 /\ q[k] \in 0..9
    <3>1. p[k] \in 0..9 /\ q[k] \in 0..9
      BY <1>2, <2>1
    <3> QED  BY <1>4, <2>1, <3>1
  <2>5. \A a \in Nat, x, y \in 0..9 : x < y => 10 * a + x < 10 * a + y
    OBVIOUS
  <2>6. 10 * f[k - 1] + p[k] < 10 * f[k - 1] + q[k]
    BY <2>4, <2>5
  <2> QED  BY <2>2, <2>3, <2>6
<1>7. Nat \subseteq Less
  <2>1. 0 \in Less
    OBVIOUS
  <2>2. ASSUME NEW j \in Nat, j \in Less PROVE j + 1 \in Less
    <3>1. CASE j + 1 = k
      BY <1>6, <3>1
    <3>2. CASE j >= k /\ j + 1 <= L
      <4>1. j + 1 \in 1..L /\ (j + 1) - 1 = j /\ j \in 0..L
        BY <1>1, <3>2
      <4>2. f[j] < g[j] /\ f[j] \in Nat /\ g[j] \in Nat
        BY <1>4, <2>2, <3>2, <4>1
      <4>3. f[j + 1] = 10 * f[j] + p[j + 1] /\ g[j + 1] = 10 * g[j] + q[j + 1]
        BY <1>4, <4>1
      <4>4. p[j + 1] \in 0..9 /\ q[j + 1] \in 0..9
        BY <1>2, <4>1
      <4>5. f[j + 1] < g[j + 1]
        <5>1. \A a, b \in Nat, x, y \in 0..9 : a < b => 10 * a + x < 10 * b + y
          OBVIOUS
        <5>2. 10 * f[j] + p[j + 1] < 10 * g[j] + q[j + 1]
          BY <4>2, <4>4, <5>1
        <5> QED  BY <4>3, <5>2
      <4> QED  BY <4>5
    <3>3. j + 1 = k \/ (j >= k /\ j + 1 <= L) \/ j + 1 < k \/ j + 1 > L
      BY <1>1
    <3> QED  BY <3>1, <3>2, <3>3
  <2> HIDE DEF Less
  <2> QED  BY <2>1, <2>2, SetInduction
<1>8. L >= k
  BY <1>1
<1> QED  BY <1>1, <1>4, <1>7, <1>8

\* A row that does not rise before it falls.
LEMMA LeadingDown ==
    ASSUME NEW row \in Rows, NEW k \in Nat, row[k] = -1, \A j \in Nat : j < k => row[j] <= 0
    PROVE  Leading(row) = -1
<1>1. Leading(row) # 0
  BY LeadingIs
<1>2. PICK n \in Nat : row[n] = Leading(row) /\ \A i \in Nat : i < n => row[i] = 0
  BY <1>1, LeadingIs
<1>3. n <= k
  BY <1>2
<1>4. row[n] \in Signs /\ row[n] # 0 /\ row[n] <= 0
  BY <1>1, <1>2, <1>3 DEF Rows
<1> QED  BY <1>2, <1>4 DEF Signs

\* A fraction without its trailing zeroes is compared as a text, one place after
\* the other, and with them as a number.
Padded(d, places) == [i \in 1..places |-> At(d, i, 0)]

LEMMA PaddedIs ==
    ASSUME NEW d \in Component, NEW L \in Nat, L >= Len(d), d[1] = 0
    PROVE  /\ Padded(d, L) \in Numeral /\ Len(Padded(d, L)) = L
           /\ Fraction(d, L) = Number(Padded(d, L))
           /\ \A i \in 1..L :
                /\ Padded(d, L)[i] \in 0..9
                /\ i \in 1..Len(NormalizeMinor(d)) => Padded(d, L)[i] = Code(NormalizeMinor(d), i)
                /\ i \notin 1..Len(NormalizeMinor(d)) =>
                     Padded(d, L)[i] = 0 /\ Code(NormalizeMinor(d), i) = -1
           /\ Len(NormalizeMinor(d)) \in 0..L
           /\ Len(NormalizeMinor(d)) # 0 => Padded(d, L)[Len(NormalizeMinor(d))] # 0
<1>1. PICK e \in Numeral : e = NormalizeMinor(d)
  BY NormalizeIs
<1>2. PICK m \in Nat : m = Len(d) /\ DOMAIN d = 1..m /\ \A i \in 1..m : d[i] \in 0..9
  BY DEF Component, Numeral
<1>3. PICK n \in 0..m : n = Len(e)
  BY <1>1, <1>2, NormalizeIs
<1>4. /\ \A i \in 1..n : e[i] = d[i]
      /\ \A i \in 1..m : i > n => d[i] = 0
      /\ n = 0 \/ d[n] # 0
  BY <1>1, <1>2, <1>3, NormalizeIs
<1>5. PICK p : p = Padded(d, L)
  OBVIOUS
<1>6. \A i \in 1..L : p[i] = IF i \in 1..m THEN d[i] ELSE 0
  BY <1>2, <1>5 DEF Padded, At
<1>7. p = [i \in 1..L |-> At(d, i, 0)]
  BY <1>5 DEF Padded
<1>8. \A i \in 1..L : p[i] \in 0..9
  BY <1>2, <1>6
<1>9. p \in Numeral /\ Len(p) = L
  <2>1. \A i \in 1..L : At(d, i, 0) \in 0..9
    BY <1>7, <1>8
  <2> QED  BY <1>7, <2>1 DEF Numeral
<1>10. ASSUME NEW i \in 1..L
       PROVE  /\ i \in 1..n => p[i] = Code(e, i)
              /\ i \notin 1..n => p[i] = 0 /\ Code(e, i) = -1
  <2>1. CASE i \in 1..n
    <3>1. i \in 1..m
      BY <1>3, <2>1
    <3> QED  BY <1>3, <1>4, <1>6, <2>1, <3>1 DEF Code
  <2>2. CASE i \notin 1..n
    <3>1. i > n
      BY <2>2, <1>3
    <3> QED  BY <1>3, <1>4, <1>6, <2>2, <3>1 DEF Code
  <2> QED  BY <2>1, <2>2
<1>11. n \in 0..L
  BY <1>2, <1>3
<1>12. n # 0 => p[n] # 0
  BY <1>2, <1>3, <1>4, <1>6, <1>11
<1>13. Fraction(d, L) = Number(p)
  BY <1>5 DEF Fraction, Padded
<1> QED  BY <1>1, <1>3, <1>5, <1>8, <1>9, <1>10, <1>11, <1>12, <1>13

LEMMA FractionFalls ==
    ASSUME NEW f \in Component, NEW s \in Component, f[1] = 0, s[1] = 0,
           NEW L \in Nat, L >= Len(f), L >= Len(s), NEW k \in 1..L,
           Padded(f, L)[k] < Padded(s, L)[k],
           \A j \in 1..(k - 1) : Padded(f, L)[j] = Padded(s, L)[j]
    PROVE  /\ Fraction(f, L) < Fraction(s, L)
           /\ StrCmp(NormalizeMinor(f), NormalizeMinor(s)) = -1
<1>1. PICK p \in Numeral : p = Padded(f, L)
  BY PaddedIs
<1>2. PICK q \in Numeral : q = Padded(s, L)
  BY PaddedIs
<1>3. PICK g \in Numeral : g = NormalizeMinor(f)
  BY NormalizeIs
<1>4. PICK t \in Numeral : t = NormalizeMinor(s)
  BY NormalizeIs
<1>5. PICK m \in Nat : m = Len(t)
  BY DEF Numeral
<1>6. /\ Len(p) = L /\ Len(q) = L /\ Fraction(f, L) = Number(p) /\ Fraction(s, L) = Number(q)
      /\ \A i \in 1..L :
            /\ p[i] \in 0..9 /\ q[i] \in 0..9
            /\ Code(g, i) = p[i] \/ Code(g, i) = -1
            /\ i \in 1..m => q[i] = Code(t, i)
            /\ i \notin 1..m => q[i] = 0
  BY <1>1, <1>2, <1>3, <1>4, <1>5, PaddedIs
<1>7. p[k] < q[k] /\ \A j \in 1..(k - 1) : p[j] = q[j]
  BY <1>1, <1>2
<1>8. Number(p) < Number(q)
  BY <1>6, <1>7, DigitsDecide
<1>9. k \in 1..m
  BY <1>6, <1>7
<1>10. PICK row \in Rows : row = StrRow(g, t)
  BY StrRowOrders
<1>11. \A i \in Nat : row[i] = Sign(Code(g, i) - Code(t, i))
  BY <1>10 DEF StrRow
<1>12. \A i \in Nat : Code(g, i) \in Int /\ Code(t, i) \in Int
  BY CodeType
<1>13. row[k] = -1
  <2>1. k \in Nat /\ Code(t, k) = q[k] /\ Code(g, k) < q[k]
    BY <1>6, <1>7, <1>9
  <2>2. Code(g, k) - Code(t, k) \in Int /\ Code(g, k) - Code(t, k) < 0
    BY <1>6, <1>12, <2>1
  <2> QED  BY <1>11, <2>1, <2>2, SignIs
<1>14. ASSUME NEW j \in Nat, j < k PROVE row[j] <= 0
  <2>1. Code(g, j) <= Code(t, j)
    <3>1. CASE j = 0
      BY <3>1, CodeType
    <3>2. CASE j # 0
      <4>1. j \in 1..(k - 1) /\ j \in 1..L /\ j \in 1..m
        BY <1>5, <1>9, <1>14, <3>2
      <4> QED  BY <1>6, <1>7, <4>1
    <3> QED  BY <3>1, <3>2
  <2>2. Code(g, j) - Code(t, j) \in Int /\ Code(g, j) - Code(t, j) <= 0
    <3>1. Code(g, j) \in Int /\ Code(t, j) \in Int
      BY <1>12
    <3> QED  BY <2>1, <3>1
  <2> QED  BY <1>11, <2>2, SignIs
<1>15. k \in Nat
  OBVIOUS
<1>16. Leading(row) = -1
  BY <1>13, <1>14, <1>15, LeadingDown
<1>17. StrCmp(g, t) = -1
  BY <1>10, <1>16, StrCmpLeads
<1> QED  BY <1>3, <1>4, <1>6, <1>8, <1>17

LEMMA FractionsAgree ==
    ASSUME NEW f \in Component, NEW s \in Component, f[1] = 0, s[1] = 0,
           NEW L \in Nat, L >= Len(f), L >= Len(s),
           \A i \in 1..L : Padded(f, L)[i] = Padded(s, L)[i]
    PROVE  /\ Fraction(f, L) = Fraction(s, L)
           /\ StrCmp(NormalizeMinor(f), NormalizeMinor(s)) = 0
<1>1. PICK p \in Numeral : p = Padded(f, L)
  BY PaddedIs
<1>2. PICK q \in Numeral : q = Padded(s, L)
  BY PaddedIs
<1>3. PICK g \in Numeral : g = NormalizeMinor(f)
  BY NormalizeIs
<1>4. PICK t \in Numeral : t = NormalizeMinor(s)
  BY NormalizeIs
<1>5. PICK m \in 0..L : m = Len(t)
  BY <1>4, PaddedIs
<1>6. PICK n \in 0..L : n = Len(g)
  BY <1>3, PaddedIs
<1>7. /\ Fraction(f, L) = Number(p) /\ Fraction(s, L) = Number(q)
      /\ \A i \in 1..L :
            /\ i \in 1..n => p[i] = Code(g, i)
            /\ i \notin 1..n => p[i] = 0
            /\ i \in 1..m => q[i] = Code(t, i)
            /\ i \notin 1..m => q[i] = 0
      /\ n # 0 => p[n] # 0
      /\ m # 0 => q[m] # 0
  BY <1>1, <1>2, <1>3, <1>4, <1>5, <1>6, PaddedIs
<1>8. \A i \in 1..L : p[i] = q[i]
  BY <1>1, <1>2
<1>9. p = q
  <2>1. p = [i \in 1..L |-> At(f, i, 0)] /\ q = [i \in 1..L |-> At(s, i, 0)]
    BY <1>1, <1>2 DEF Padded
  <2> QED  BY <1>8, <2>1
<1>10. n = m
  <2>1. CASE n < m
    <3>1. m \in 1..L /\ m \notin 1..n
      BY <2>1
    <3>2. p[m] = 0 /\ q[m] # 0
      BY <1>7, <3>1
    <3> QED  BY <1>8, <3>1, <3>2
  <2>2. CASE n > m
    <3>1. n \in 1..L /\ n \notin 1..m
      BY <2>2
    <3>2. q[n] = 0 /\ p[n] # 0
      BY <1>7, <3>1
    <3> QED  BY <1>8, <3>1, <3>2
  <2> QED  BY <2>1, <2>2
<1>11. \A i \in Nat : Code(g, i) = Code(t, i)
  <2>1. ASSUME NEW i \in Nat, i \in 1..n PROVE Code(g, i) = Code(t, i)
    <3>1. i \in 1..L
      BY <2>1
    <3> QED  BY <1>7, <1>8, <1>10, <2>1, <3>1
  <2>2. ASSUME NEW i \in Nat, i \notin 1..n PROVE Code(g, i) = Code(t, i)
    BY <1>5, <1>6, <1>10, <2>2, CodeType
  <2> QED  BY <2>1, <2>2
<1>12. \A i \in Nat : StrRow(g, t)[i] = 0
  <2>1. ASSUME NEW i \in Nat PROVE Sign(Code(g, i) - Code(t, i)) = 0
    <3>1. Code(g, i) \in Int /\ Code(t, i) \in Int /\ Code(g, i) = Code(t, i)
      BY <1>11, CodeType
    <3>2. Code(g, i) - Code(t, i) = 0
      BY <3>1
    <3> QED  BY <3>2, SignIs
  <2> QED  BY <2>1 DEF StrRow
<1>13. StrCmp(g, t) = 0
  BY <1>12, StrRowOrders, LeadingIs, StrCmpLeads
<1> QED  BY <1>3, <1>4, <1>7, <1>9, <1>13

LEMMA FractionsOrdered ==
    ASSUME NEW f \in Component, NEW s \in Component, f[1] = 0, s[1] = 0,
           NEW L \in Nat, L >= Len(f), L >= Len(s)
    PROVE  LET c == StrCmp(NormalizeMinor(f), NormalizeMinor(s))
           IN  c = -1 <=> Fraction(f, L) < Fraction(s, L)
<1>1. PICK p \in Numeral : p = Padded(f, L)
  BY PaddedIs
<1>2. PICK q \in Numeral : q = Padded(s, L)
  BY PaddedIs
<1>3. \A i \in 1..L : p[i] \in 0..9 /\ q[i] \in 0..9
  BY <1>1, <1>2, PaddedIs
<1>4. Fraction(f, L) \in Nat /\ Fraction(s, L) \in Nat
  BY <1>1, <1>2, PaddedIs, NumberType
<1>5. PICK c \in Signs : c = StrCmp(NormalizeMinor(f), NormalizeMinor(s))
  BY NormalizeIs, StrCmpOrders
<1>6. c = 0 - StrCmp(NormalizeMinor(s), NormalizeMinor(f))
  BY <1>5, NormalizeIs, StrCmpOrders
<1> DEFINE D == {i \in 1..L : p[i] # q[i]}
<1>7. CASE D = {}
  <2>1. \A i \in 1..L : p[i] = q[i]
    BY <1>7
  <2>2. Fraction(f, L) = Fraction(s, L) /\ c = 0
    BY <1>1, <1>2, <1>5, <2>1, FractionsAgree
  <2> QED  BY <1>4, <1>5, <2>2
<1>8. CASE D # {}
  <2>1. D \subseteq Nat
    OBVIOUS
  <2>2. PICK k \in D : \A j \in D : k <= j
    BY <1>8, <2>1, LeastNatural
  <2>3. k \in 1..L /\ p[k] # q[k]
    BY <2>2
  <2>4. \A j \in 1..(k - 1) : p[j] = q[j]
    <3>1. ASSUME NEW j \in 1..(k - 1), p[j] # q[j] PROVE FALSE
      <4>1. j \in 1..L /\ j < k
        BY <2>3
      <4> QED  BY <2>2, <3>1, <4>1
    <3> QED  BY <3>1
  <2>5. CASE p[k] < q[k]
    <3>1. Fraction(f, L) < Fraction(s, L) /\ c = -1
      BY <1>1, <1>2, <1>5, <2>3, <2>4, <2>5, FractionFalls
    <3> QED  BY <1>5, <3>1
  <2>6. CASE q[k] < p[k]
    <3>1. Fraction(s, L) < Fraction(f, L) /\ StrCmp(NormalizeMinor(s), NormalizeMinor(f)) = -1
      BY <1>1, <1>2, <2>3, <2>4, <2>6, FractionFalls
    <3>2. c # -1
      BY <1>6, <3>1
    <3>3. ~ (Fraction(f, L) < Fraction(s, L))
      BY <1>4, <3>1
    <3> QED  BY <1>5, <3>2, <3>3
  <2>7. p[k] < q[k] \/ q[k] < p[k]
    BY <1>3, <2>3
  <2> QED  BY <2>5, <2>6, <2>7
<1> QED  BY <1>7, <1>8

-----------------------------------------------------------------------------
\* The cells of the row of components say what the order says of them.
LEMMA NormalizedClass ==
    ASSUME NEW d \in Component
    PROVE  /\ NormalizeMinor(d) \in Numeral
           /\ d[1] = 0 => Class(NormalizeMinor(d)) \in {0, 1}
           /\ d[1] # 0 => Class(NormalizeMinor(d)) = 2 /\ NormalizeMinor(d) = d
<1>1. PICK e \in Numeral : e = NormalizeMinor(d)
  BY NormalizeIs
<1>2. CASE d[1] = 0
  <2>1. CASE e = <<>>
    BY <1>1, <1>2, <2>1 DEF Class
  <2>2. CASE e # <<>>
    <3>1. Class(e) # 0
      BY <1>1, <2>2, ClassIs
    <3>2. 1 \in 1..Len(e)
      BY <1>1, <3>1, ClassIs
    <3>3. e[1] = 0
      BY <1>1, <1>2, <3>2, NormalizeIs
    <3> QED  BY <1>1, <1>2, <2>2, <3>3 DEF Class
  <2> QED  BY <2>1, <2>2
<1>3. CASE d[1] # 0
  <2>1. e = d /\ d # <<>>
    BY <1>1, <1>3, NormalizeIs DEF Component
  <2> QED  BY <1>1, <1>3, <2>1 DEF Class
<1> QED  BY <1>1, <1>2, <1>3

LEMMA ZerosAsTexts ==
    ASSUME NEW f \in Numeral, NEW s \in Numeral, Class(f) \in {0, 1}, Class(s) \in {0, 1}
    PROVE  ComponentCmp(f, s) = StrCmp(f, s)
<1>1. CASE Class(f) = 1 /\ Class(s) = 1
  BY <1>1, ComponentByClass
<1>2. CASE Class(f) = 0 /\ Class(s) = 1
  <2>1. f = <<>> /\ s # <<>>
    BY <1>2, ClassIs
  <2> QED  BY <1>2, <2>1, ComponentByClass, StrCmpOfNothing
<1>3. CASE Class(f) = 1 /\ Class(s) = 0
  <2>1. s = <<>> /\ f # <<>>
    BY <1>3, ClassIs
  <2>2. StrCmp(s, f) = -1
    BY <2>1, StrCmpOfNothing
  <2>3. ComponentCmp(s, f) = -1
    BY <1>3, ComponentByClass
  <2> QED  BY <2>2, <2>3, StrCmpOrders, ComponentCmpOrders
<1>4. CASE Class(f) = 0 /\ Class(s) = 0
  <2>1. f = s
    BY <1>4, ClassIs
  <2>2. PICK c \in Signs : c = StrCmp(f, s)
    BY StrCmpOrders
  <2>3. c = 0 - c
    BY <2>1, <2>2, StrCmpOrders
  <2>4. c = 0
    BY <2>3 DEF Signs
  <2> QED  BY <1>4, <2>2, <2>4, ComponentByClass
<1> QED  BY <1>1, <1>2, <1>3, <1>4

LEMMA EndIsNone == End \notin Component
<1>1. ASSUME End \in Component PROVE FALSE
  <2>1. PICK e \in Seq(0..9) : e = End
    BY <1>1 DEF Component, Numeral
  <2>2. e = <<-1>>
    BY <2>1 DEF End
  <2>3. Len(e) = 1
    BY <2>2
  <2>4. e[1] < 0
    BY <2>2
  <2>5. PICK n \in Nat : n = 1 /\ n \in 1..Len(e)
    BY <2>3
  <2>6. e[n] \in 0..9
    BY <2>5, ElementOfSeq
  <2> QED  BY <2>4, <2>5, <2>6
<1> QED  BY <1>1

LEMMA LongestIs ==
    ASSUME NEW S, NEW f \in Seq(S), NEW s \in Seq(S)
    PROVE  /\ Longest(f, s) \in Nat /\ Longest(f, s) >= Len(f) /\ Longest(f, s) >= Len(s)
           /\ Longest(f, s) = Longest(s, f)
           /\ \A i \in Nat : i \notin 1..Longest(f, s) => i \notin 1..Len(f) /\ i \notin 1..Len(s)
<1>1. Len(f) \in Nat /\ Len(s) \in Nat
  OBVIOUS
<1> QED  BY <1>1 DEF Longest

LEMMA ComponentLessIs ==
    ASSUME NEW f, NEW s
    PROVE  /\ s = End => ~ ComponentLess(f, s)
           /\ s # End /\ f = End => ComponentLess(f, s)
           /\ s # End /\ f # End /\ f[1] = 0 /\ s[1] = 0 =>
                (ComponentLess(f, s) <=>
                   Fraction(f, Longest(f, s)) < Fraction(s, Longest(f, s)))
           /\ s # End /\ f # End /\ f[1] = 0 /\ s[1] # 0 => ComponentLess(f, s)
           /\ s # End /\ f # End /\ f[1] # 0 /\ s[1] = 0 => ~ ComponentLess(f, s)
           /\ s # End /\ f # End /\ f[1] # 0 /\ s[1] # 0 =>
                (ComponentLess(f, s) <=> Number(f) < Number(s))
BY DEF ComponentLess

LEMMA ComponentsOrdered ==
    ASSUME NEW f \in Component, NEW s \in Component
    PROVE  LET c == ComponentCmp(NormalizeMinor(f), NormalizeMinor(s))
           IN  c = -1 <=> ComponentLess(f, s)
<1>1. PICK g \in Numeral : g = NormalizeMinor(f)
  BY NormalizedClass
<1>2. PICK t \in Numeral : t = NormalizeMinor(s)
  BY NormalizedClass
<1>3. f # End /\ s # End
  BY EndIsNone
<1>4. CASE f[1] = 0 /\ s[1] = 0
  <2>1. Class(g) \in {0, 1} /\ Class(t) \in {0, 1}
    BY <1>1, <1>2, <1>4, NormalizedClass
  <2>2. ComponentCmp(g, t) = StrCmp(g, t)
    BY <2>1, ZerosAsTexts
  <2>3. PICK L \in Nat : L = Longest(f, s) /\ L >= Len(f) /\ L >= Len(s)
    BY LongestIs DEF Component, Numeral
  <2>4. StrCmp(g, t) = -1 <=> Fraction(f, L) < Fraction(s, L)
    BY <1>1, <1>2, <1>4, <2>3, FractionsOrdered
  <2>5. ComponentLess(f, s) <=> Fraction(f, L) < Fraction(s, L)
    BY <1>3, <1>4, <2>3, ComponentLessIs
  <2> QED  BY <1>1, <1>2, <2>2, <2>4, <2>5
<1>5. CASE f[1] = 0 /\ s[1] # 0
  <2>1. Class(g) < Class(t)
    BY <1>1, <1>2, <1>5, NormalizedClass
  <2>2. ComponentCmp(g, t) = -1
    BY <2>1, ComponentByClass
  <2>3. ComponentLess(f, s)
    BY <1>3, <1>5, ComponentLessIs
  <2> QED  BY <1>1, <1>2, <2>2, <2>3
<1>6. CASE f[1] # 0 /\ s[1] = 0
  <2>1. Class(g) > Class(t)
    BY <1>1, <1>2, <1>6, NormalizedClass
  <2>2. ComponentCmp(g, t) = 1
    BY <2>1, ComponentByClass
  <2>3. ~ ComponentLess(f, s)
    BY <1>3, <1>6, ComponentLessIs
  <2> QED  BY <1>1, <1>2, <2>2, <2>3
<1>7. CASE f[1] # 0 /\ s[1] # 0
  <2>1. Class(g) = 2 /\ Class(t) = 2 /\ g = f /\ t = s
    BY <1>1, <1>2, <1>7, NormalizedClass
  <2>2. ComponentCmp(g, t) = NumCmp(g, t)
    BY <2>1, ComponentByClass
  <2>3. NumCmp(f, s) = -1 <=> Number(f) < Number(s)
    BY NumCmpOrders DEF Component
  <2>4. ComponentLess(f, s) <=> Number(f) < Number(s)
    BY <1>3, <1>7, ComponentLessIs
  <2> QED  BY <1>1, <1>2, <2>1, <2>2, <2>3, <2>4
<1> QED  BY <1>4, <1>5, <1>6, <1>7

Cell(x, i) == At(x, i, End)

LEMMA CellIs ==
    ASSUME NEW x \in Seq(Component), NEW i \in Nat
    PROVE  /\ i \in 1..Len(x) => Cell(x, i) = x[i] /\ x[i] \in Component /\ Cell(x, i) # End
           /\ i \notin 1..Len(x) => Cell(x, i) = End
<1>1. DOMAIN x = 1..Len(x)
  OBVIOUS
<1>2. i \in 1..Len(x) => x[i] \in Component
  OBVIOUS
<1> QED  BY <1>1, <1>2, EndIsNone DEF Cell, At

LEMMA MinorRowByCells ==
    ASSUME NEW x \in Seq(Component), NEW y \in Seq(Component), NEW i \in Nat
    PROVE  MinorRow(x, y)[i] = -1 <=> ComponentLess(Cell(x, i), Cell(y, i))
<1>1. CASE i \in 1..Len(x) /\ i \in 1..Len(y)
  <2>1. /\ x[i] \in Component /\ y[i] \in Component
        /\ Cell(x, i) = x[i] /\ Cell(y, i) = y[i]
    BY <1>1, CellIs
  <2>2. MinorRow(x, y)[i] = ComponentCmp(NormalizeMinor(x[i]), NormalizeMinor(y[i]))
    BY <1>1, MinorRowIs
  <2> QED  BY <2>1, <2>2, ComponentsOrdered
<1>2. CASE i \in 1..Len(x) /\ i \notin 1..Len(y)
  BY <1>2, CellIs, MinorRowIs, ComponentLessIs
<1>3. CASE i \notin 1..Len(x) /\ i \in 1..Len(y)
  BY <1>3, CellIs, MinorRowIs, ComponentLessIs
<1>4. CASE i \notin 1..Len(x) /\ i \notin 1..Len(y)
  BY <1>4, CellIs, MinorRowIs, ComponentLessIs
<1> QED  BY <1>1, <1>2, <1>3, <1>4

\* The row falls where it falls first.
LEMMA LeadingFalls ==
    ASSUME NEW row \in Rows, NEW L \in Nat, \A i \in Nat : i \notin 1..L => row[i] = 0
    PROVE  Leading(row) = -1 <=>
             \E i \in 1..L : row[i] = -1 /\ \A j \in 1..(i - 1) : row[j] = 0
<1>1. ASSUME Leading(row) = -1
      PROVE  \E i \in 1..L : row[i] = -1 /\ \A j \in 1..(i - 1) : row[j] = 0
  <2>1. Leading(row) # 0
    BY <1>1
  <2>2. PICK n \in Nat : row[n] = Leading(row) /\ \A i \in Nat : i < n => row[i] = 0
    BY <2>1, LeadingIs
  <2>3. n \in 1..L
    BY <2>1, <2>2
  <2>4. \A j \in 1..(n - 1) : row[j] = 0
    BY <2>2, <2>3
  <2> QED  BY <1>1, <2>2, <2>3, <2>4
<1>2. ASSUME NEW i \in 1..L, row[i] = -1, \A j \in 1..(i - 1) : row[j] = 0
      PROVE  Leading(row) = -1
  <2>1. \A j \in Nat : j < i => row[j] = 0
    <3>1. ASSUME NEW j \in Nat, j < i PROVE row[j] = 0
      <4>1. j \in 1..(i - 1) \/ j \notin 1..L
        BY <3>1
      <4> QED  BY <1>2, <4>1
    <3> QED  BY <3>1
  <2>2. i \in Nat /\ row[i] # 0
    BY <1>2
  <2>3. Leading(row) = row[i]
    BY <2>1, <2>2, LeadingIs
  <2> QED  BY <1>2, <2>3
<1> QED  BY <1>1, <1>2

LEMMA MinorLess ==
    ASSUME NEW x \in Seq(Component), NEW y \in Seq(Component)
    PROVE  MinorCmp(x, y) = -1 <=> Lexicographic(ComponentLess, ComponentSame, x, y, End)
<1>1. PICK row \in Rows : row = MinorRow(x, y)
  BY MinorRowOrders
<1>2. PICK L \in Nat : L = Longest(x, y)
  BY LongestIs
<1>3. \A i \in Nat : i \notin 1..L => row[i] = 0
  BY <1>1, <1>2, LongestIs, MinorRowIs
<1>4. \A i \in Nat : row[i] = -1 <=> ComponentLess(Cell(x, i), Cell(y, i))
  BY <1>1, MinorRowByCells
<1>5. \A i \in Nat : row[i] = 0 <=> ComponentSame(Cell(x, i), Cell(y, i))
  <2>1. ASSUME NEW i \in Nat PROVE row[i] = 0 <=> ComponentSame(Cell(x, i), Cell(y, i))
    <3>1. row[i] \in Signs /\ row[i] = 0 - MinorRow(y, x)[i]
      BY <1>1, MinorRowOrders DEF Rows
    <3>2. MinorRow(y, x)[i] \in Signs
      BY MinorRowOrders DEF Rows
    <3>3. row[i] = 1 <=> MinorRow(y, x)[i] = -1
      BY <3>1, <3>2 DEF Signs
    <3>4. row[i] = 1 <=> ComponentLess(Cell(y, i), Cell(x, i))
      BY <3>3, MinorRowByCells
    <3>5. row[i] = 0 <=> ~ (row[i] = -1) /\ ~ (row[i] = 1)
      BY <3>1 DEF Signs
    <3> QED  BY <1>4, <3>4, <3>5 DEF ComponentSame
  <2> QED  BY <2>1
<1>6. Leading(row) = -1 <=>
        \E i \in 1..L : row[i] = -1 /\ \A j \in 1..(i - 1) : row[j] = 0
  BY <1>3, LeadingFalls
<1>7. Lexicographic(ComponentLess, ComponentSame, x, y, End) <=>
        \E i \in 1..L : /\ ComponentLess(Cell(x, i), Cell(y, i))
                        /\ \A j \in 1..(i - 1) : ComponentSame(Cell(x, j), Cell(y, j))
  BY <1>2 DEF Lexicographic, Cell
<1>8. \A i \in 1..L : i \in Nat /\ \A j \in 1..(i - 1) : j \in Nat
  OBVIOUS
<1>9. Leading(row) = -1 <=> Lexicographic(ComponentLess, ComponentSame, x, y, End)
  BY <1>4, <1>5, <1>6, <1>7, <1>8
<1> QED  BY <1>1, <1>9, MinorCmpLeads

LEMMA SuffixesLess ==
    ASSUME NEW x \in Seq(Suffix), NEW y \in Seq(Suffix)
    PROVE  SuffixesCmp(x, y) = -1 <=> Lexicographic(PairLess, PairSame, x, y, NoSuffix)
<1>1. PICK row \in Rows : row = SuffixRow(x, y)
  BY SuffixRowOrders
<1>2. PICK L \in Nat : L = Longest(x, y)
  BY LongestIs
<1>3. \A i \in Nat : row[i] = KeyCmp(Place(x, i), Place(y, i))
  BY <1>1 DEF SuffixRow
<1>4. \A i \in Nat : /\ Place(x, i) \in Suffix \cup {NoSuffix}
                     /\ Place(y, i) \in Suffix \cup {NoSuffix}
  BY PlaceIs
<1>5. \A i \in Nat : row[i] = -1 <=> PairLess(Place(x, i), Place(y, i))
  BY <1>3, <1>4, KeyCmpOrders
<1>6. \A i \in Nat : row[i] = 0 <=> PairSame(Place(x, i), Place(y, i))
  BY <1>3, <1>4, KeyCmpOrders
<1>7. ASSUME NEW i \in Nat, i \notin 1..L PROVE row[i] = 0
  <2>1. Place(x, i) = NoSuffix /\ Place(y, i) = NoSuffix
    BY <1>2, <1>7, LongestIs, PlaceIs
  <2>2. PairSame(Place(x, i), Place(y, i))
    BY <2>1 DEF PairSame
  <2> QED  BY <1>6, <2>2
<1>8. Leading(row) = -1 <=>
        \E i \in 1..L : row[i] = -1 /\ \A j \in 1..(i - 1) : row[j] = 0
  BY <1>7, LeadingFalls
<1>9. Lexicographic(PairLess, PairSame, x, y, NoSuffix) <=>
        \E i \in 1..L : /\ PairLess(Place(x, i), Place(y, i))
                        /\ \A j \in 1..(i - 1) : PairSame(Place(x, j), Place(y, j))
  BY <1>2 DEF Lexicographic, Place
<1>10. \A i \in 1..L : i \in Nat /\ \A j \in 1..(i - 1) : j \in Nat
  OBVIOUS
<1>11. Leading(row) = -1 <=> Lexicographic(PairLess, PairSame, x, y, NoSuffix)
  BY <1>5, <1>6, <1>8, <1>9, <1>10
<1> QED  BY <1>1, <1>11, SuffixesCmpLeads

-----------------------------------------------------------------------------
\* The comparison is the order of versions.
LEMMA CmpLeads ==
    ASSUME NEW v \in Version, NEW w \in Version
    PROVE  \E row \in Rows :
              /\ Cmp(v, w) = Leading(row)
              /\ row[1] = NumCmp(v.major, w.major)
              /\ row[2] = MinorCmp(v.minor, w.minor)
              /\ row[3] = Sign(v.letter - w.letter)
              /\ row[4] = SuffixesCmp(v.suffixes, w.suffixes)
              /\ row[5] = NumCmp(v.revision, w.revision)
              /\ \A i \in Nat : i \notin 1..5 => row[i] = 0
<1>1. PICK check \in BOOLEAN : check = TRUE
  OBVIOUS
<1>2. RevisionCmp(v.revision, w.revision, check) = NumCmp(v.revision, w.revision)
  BY <1>1 DEF RevisionCmp
<1>3. Cmp(v, w) = CmpInternal(v, w, check)
  BY <1>1, Zenon DEF Cmp
<1>4. PartRow(v, w, check) \in Rows
  BY PartRowOrders
<1>5. Cmp(v, w) = Leading(PartRow(v, w, check))
  BY <1>3, CmpInternalLeads
<1>6. WITNESS PartRow(v, w, check) \in Rows
<1> QED  BY <1>2, <1>5, PartRowIs

LEMMA CmpOrders ==
    ASSUME NEW v \in Version, NEW w \in Version, NEW x \in Version
    PROVE  /\ Cmp(v, w) \in Signs
           /\ Cmp(v, w) = 0 - Cmp(w, v)
           /\ Chain(Cmp(v, w), Cmp(w, x), Cmp(v, x))
<1>1. PICK check \in BOOLEAN : check = TRUE
  OBVIOUS
<1>2. /\ Cmp(v, w) = CmpInternal(v, w, check) /\ Cmp(w, v) = CmpInternal(w, v, check)
      /\ Cmp(w, x) = CmpInternal(w, x, check) /\ Cmp(v, x) = CmpInternal(v, x, check)
  BY <1>1, Zenon DEF Cmp
<1> QED  BY <1>2, ComparisonIsAnOrder

LEMMA PartLess ==
    ASSUME NEW v \in Version, NEW w \in Version
    PROVE  /\ NumCmp(v.major, w.major) = -1 <=> Number(v.major) < Number(w.major)
           /\ MinorCmp(v.minor, w.minor) = -1 <=>
                Lexicographic(ComponentLess, ComponentSame, v.minor, w.minor, End)
           /\ Sign(v.letter - w.letter) = -1 <=> v.letter < w.letter
           /\ SuffixesCmp(v.suffixes, w.suffixes) = -1 <=>
                Lexicographic(PairLess, PairSame, v.suffixes, w.suffixes, NoSuffix)
           /\ NumCmp(v.revision, w.revision) = -1 <=> Number(v.revision) < Number(w.revision)
<1>1. Sign(v.letter - w.letter) = -1 <=> v.letter < w.letter
  <2>1. v.letter \in Int /\ w.letter \in Int
    BY VersionType
  <2>2. v.letter - w.letter \in Int /\ (v.letter - w.letter < 0 <=> v.letter < w.letter)
    BY <2>1
  <2> QED  BY <2>2, SignIs
<1>2. /\ NumCmp(v.major, w.major) = -1 <=> Number(v.major) < Number(w.major)
      /\ NumCmp(v.revision, w.revision) = -1 <=> Number(v.revision) < Number(w.revision)
  BY VersionType, NumCmpOrders
<1>3. MinorCmp(v.minor, w.minor) = -1 <=>
        Lexicographic(ComponentLess, ComponentSame, v.minor, w.minor, End)
  BY VersionType, MinorLess
<1>4. SuffixesCmp(v.suffixes, w.suffixes) = -1 <=>
        Lexicographic(PairLess, PairSame, v.suffixes, w.suffixes, NoSuffix)
  BY VersionType, SuffixesLess
<1> QED  BY <1>1, <1>2, <1>3, <1>4

\* What Older says, part by part.
LessParts(v, w) ==
    <<Number(v.major) < Number(w.major),
      Lexicographic(ComponentLess, ComponentSame, v.minor, w.minor, End),
      v.letter < w.letter,
      Lexicographic(PairLess, PairSame, v.suffixes, w.suffixes, NoSuffix),
      Number(v.revision) < Number(w.revision)>>
MoreParts(v, w) ==
    <<Number(v.major) > Number(w.major),
      Lexicographic(ComponentLess, ComponentSame, w.minor, v.minor, End),
      v.letter > w.letter,
      Lexicographic(PairLess, PairSame, w.suffixes, v.suffixes, NoSuffix),
      Number(v.revision) > Number(w.revision)>>

LEMMA OlderIs ==
    ASSUME NEW v, NEW w
    PROVE  Older(v, w) <=>
             \E i \in 1..5 : LessParts(v, w)[i] /\ \A j \in 1..(i - 1) : ~ MoreParts(v, w)[j]
BY Zenon DEF Older, LessParts, MoreParts

LEMMA FiveTruths ==
    ASSUME NEW a \in BOOLEAN, NEW b \in BOOLEAN, NEW c \in BOOLEAN, NEW d \in BOOLEAN,
           NEW e \in BOOLEAN, NEW t, t = <<a, b, c, d, e>>
    PROVE  /\ t[1] = a /\ t[2] = b /\ t[3] = c /\ t[4] = d /\ t[5] = e
BY SMT

LEMMA LessTruth ==
    ASSUME NEW m \in Int, NEW n \in Int
    PROVE  (m < n) \in BOOLEAN /\ (m > n) \in BOOLEAN
OBVIOUS

LEMMA LessPartsAre ==
    ASSUME NEW v \in Version, NEW w \in Version
    PROVE  /\ LessParts(v, w)[1] <=> Number(v.major) < Number(w.major)
           /\ LessParts(v, w)[2] <=>
                Lexicographic(ComponentLess, ComponentSame, v.minor, w.minor, End)
           /\ LessParts(v, w)[3] <=> v.letter < w.letter
           /\ LessParts(v, w)[4] <=>
                Lexicographic(PairLess, PairSame, v.suffixes, w.suffixes, NoSuffix)
           /\ LessParts(v, w)[5] <=> Number(v.revision) < Number(w.revision)
<1>0. /\ Number(v.major) \in Int /\ Number(w.major) \in Int
      /\ Number(v.revision) \in Int /\ Number(w.revision) \in Int
      /\ v.letter \in Int /\ w.letter \in Int
  BY VersionType, NumberType
<1>1. PICK a \in BOOLEAN : a = (Number(v.major) < Number(w.major))
  BY <1>0, LessTruth, Zenon
<1>2. PICK b \in BOOLEAN : b = Lexicographic(ComponentLess, ComponentSame, v.minor, w.minor, End)
  BY Zenon DEF Lexicographic
<1>3. PICK c \in BOOLEAN : c = (v.letter < w.letter)
  BY <1>0, LessTruth, Zenon
<1>4. PICK d \in BOOLEAN :
        d = Lexicographic(PairLess, PairSame, v.suffixes, w.suffixes, NoSuffix)
  BY Zenon DEF Lexicographic
<1>5. PICK e \in BOOLEAN : e = (Number(v.revision) < Number(w.revision))
  BY <1>0, LessTruth, Zenon
<1>6. LessParts(v, w) = <<a, b, c, d, e>>
  BY <1>1, <1>2, <1>3, <1>4, <1>5, Zenon DEF LessParts
<1>7. PICK t : t = LessParts(v, w)
  OBVIOUS
<1>8. t[1] = a /\ t[2] = b /\ t[3] = c /\ t[4] = d /\ t[5] = e
  BY <1>6, <1>7, FiveTruths
<1> QED  BY <1>1, <1>2, <1>3, <1>4, <1>5, <1>7, <1>8, Zenon

LEMMA MorePartsAre ==
    ASSUME NEW v \in Version, NEW w \in Version
    PROVE  /\ MoreParts(v, w)[1] <=> Number(v.major) > Number(w.major)
           /\ MoreParts(v, w)[2] <=>
                Lexicographic(ComponentLess, ComponentSame, w.minor, v.minor, End)
           /\ MoreParts(v, w)[3] <=> v.letter > w.letter
           /\ MoreParts(v, w)[4] <=>
                Lexicographic(PairLess, PairSame, w.suffixes, v.suffixes, NoSuffix)
           /\ MoreParts(v, w)[5] <=> Number(v.revision) > Number(w.revision)
<1>0. /\ Number(v.major) \in Int /\ Number(w.major) \in Int
      /\ Number(v.revision) \in Int /\ Number(w.revision) \in Int
      /\ v.letter \in Int /\ w.letter \in Int
  BY VersionType, NumberType
<1>1. PICK a \in BOOLEAN : a = (Number(v.major) > Number(w.major))
  BY <1>0, LessTruth, Zenon
<1>2. PICK b \in BOOLEAN : b = Lexicographic(ComponentLess, ComponentSame, w.minor, v.minor, End)
  BY Zenon DEF Lexicographic
<1>3. PICK c \in BOOLEAN : c = (v.letter > w.letter)
  BY <1>0, LessTruth, Zenon
<1>4. PICK d \in BOOLEAN :
        d = Lexicographic(PairLess, PairSame, w.suffixes, v.suffixes, NoSuffix)
  BY Zenon DEF Lexicographic
<1>5. PICK e \in BOOLEAN : e = (Number(v.revision) > Number(w.revision))
  BY <1>0, LessTruth, Zenon
<1>6. MoreParts(v, w) = <<a, b, c, d, e>>
  BY <1>1, <1>2, <1>3, <1>4, <1>5, Zenon DEF MoreParts
<1>7. PICK t : t = MoreParts(v, w)
  OBVIOUS
<1>8. t[1] = a /\ t[2] = b /\ t[3] = c /\ t[4] = d /\ t[5] = e
  BY <1>6, <1>7, FiveTruths
<1> QED  BY <1>1, <1>2, <1>3, <1>4, <1>5, <1>7, <1>8, Zenon

LEMMA PartMore ==
    ASSUME NEW v \in Version, NEW w \in Version
    PROVE  /\ NumCmp(v.major, w.major) = 1 <=> Number(v.major) > Number(w.major)
           /\ MinorCmp(v.minor, w.minor) = 1 <=>
                Lexicographic(ComponentLess, ComponentSame, w.minor, v.minor, End)
           /\ Sign(v.letter - w.letter) = 1 <=> v.letter > w.letter
           /\ SuffixesCmp(v.suffixes, w.suffixes) = 1 <=>
                Lexicographic(PairLess, PairSame, w.suffixes, v.suffixes, NoSuffix)
           /\ NumCmp(v.revision, w.revision) = 1 <=> Number(v.revision) > Number(w.revision)
<1>1. ASSUME NEW p \in Signs, NEW q \in Signs, p = 0 - q PROVE p = 1 <=> q = -1
  BY <1>1 DEF Signs
<1>2. /\ NumCmp(v.major, w.major) = 1 <=> NumCmp(w.major, v.major) = -1
      /\ NumCmp(v.revision, w.revision) = 1 <=> NumCmp(w.revision, v.revision) = -1
  BY <1>1, VersionType, NumCmpOrders
<1>3. MinorCmp(v.minor, w.minor) = 1 <=> MinorCmp(w.minor, v.minor) = -1
  BY <1>1, VersionType, MinorCmpOrders
<1>4. SuffixesCmp(v.suffixes, w.suffixes) = 1 <=> SuffixesCmp(w.suffixes, v.suffixes) = -1
  BY <1>1, VersionType, SuffixesCmpOrders
<1>5. Sign(v.letter - w.letter) = 1 <=> v.letter > w.letter
  <2>1. v.letter \in Int /\ w.letter \in Int
    BY VersionType
  <2>2. v.letter - w.letter \in Int /\ (v.letter - w.letter > 0 <=> v.letter > w.letter)
    BY <2>1
  <2> QED  BY <2>2, SignIs
<1>6. /\ Number(v.major) \in Int /\ Number(w.major) \in Int
      /\ Number(v.revision) \in Int /\ Number(w.revision) \in Int
  BY VersionType, NumberType
<1>7. /\ Number(w.major) < Number(v.major) <=> Number(v.major) > Number(w.major)
      /\ Number(w.revision) < Number(v.revision) <=> Number(v.revision) > Number(w.revision)
  BY <1>6
<1>8. /\ NumCmp(w.major, v.major) = -1 <=> Number(w.major) < Number(v.major)
      /\ MinorCmp(w.minor, v.minor) = -1 <=>
           Lexicographic(ComponentLess, ComponentSame, w.minor, v.minor, End)
      /\ SuffixesCmp(w.suffixes, v.suffixes) = -1 <=>
           Lexicographic(PairLess, PairSame, w.suffixes, v.suffixes, NoSuffix)
      /\ NumCmp(w.revision, v.revision) = -1 <=> Number(w.revision) < Number(v.revision)
  BY PartLess
<1> QED  BY <1>2, <1>3, <1>4, <1>5, <1>7, <1>8

LEMMA PartsByRow ==
    ASSUME NEW v \in Version, NEW w \in Version, NEW row \in Rows,
           row[1] = NumCmp(v.major, w.major),
           row[2] = MinorCmp(v.minor, w.minor),
           row[3] = Sign(v.letter - w.letter),
           row[4] = SuffixesCmp(v.suffixes, w.suffixes),
           row[5] = NumCmp(v.revision, w.revision)
    PROVE  \A i \in 1..5 : /\ LessParts(v, w)[i] <=> row[i] = -1
                           /\ MoreParts(v, w)[i] <=> row[i] = 1
<1>1. /\ LessParts(v, w)[1] <=> row[1] = -1
      /\ MoreParts(v, w)[1] <=> row[1] = 1
  BY LessPartsAre, MorePartsAre, PartLess, PartMore
<1>2. /\ LessParts(v, w)[2] <=> row[2] = -1
      /\ MoreParts(v, w)[2] <=> row[2] = 1
  BY LessPartsAre, MorePartsAre, PartLess, PartMore
<1>3. /\ LessParts(v, w)[3] <=> row[3] = -1
      /\ MoreParts(v, w)[3] <=> row[3] = 1
  BY LessPartsAre, MorePartsAre, PartLess, PartMore
<1>4. /\ LessParts(v, w)[4] <=> row[4] = -1
      /\ MoreParts(v, w)[4] <=> row[4] = 1
  BY LessPartsAre, MorePartsAre, PartLess, PartMore
<1>5. /\ LessParts(v, w)[5] <=> row[5] = -1
      /\ MoreParts(v, w)[5] <=> row[5] = 1
  BY LessPartsAre, MorePartsAre, PartLess, PartMore
<1>6. \A i \in 1..5 : i = 1 \/ i = 2 \/ i = 3 \/ i = 4 \/ i = 5
  OBVIOUS
<1> QED  BY <1>1, <1>2, <1>3, <1>4, <1>5, <1>6, Zenon

\* A comparison is negative if and only if the first version is the older one.
LEMMA CmpIsOlder ==
    ASSUME NEW v \in Version, NEW w \in Version
    PROVE  Cmp(v, w) = -1 <=> Older(v, w)
<1>1. PICK row \in Rows :
        /\ Cmp(v, w) = Leading(row)
        /\ row[1] = NumCmp(v.major, w.major)
        /\ row[2] = MinorCmp(v.minor, w.minor)
        /\ row[3] = Sign(v.letter - w.letter)
        /\ row[4] = SuffixesCmp(v.suffixes, w.suffixes)
        /\ row[5] = NumCmp(v.revision, w.revision)
        /\ \A i \in Nat : i \notin 1..5 => row[i] = 0
  BY CmpLeads
<1>2. \A i \in 1..5 : /\ LessParts(v, w)[i] <=> row[i] = -1
                      /\ MoreParts(v, w)[i] <=> row[i] = 1
  BY <1>1, PartsByRow
<1>3. \A i \in 1..5 : \A j \in 1..(i - 1) : j \in 1..5
  OBVIOUS
<1>4. Older(v, w) <=> \E i \in 1..5 : row[i] = -1 /\ \A j \in 1..(i - 1) : row[j] # 1
  BY <1>2, <1>3, OlderIs
<1>5. Leading(row) = -1 <=>
        \E i \in 1..5 : row[i] = -1 /\ \A j \in 1..(i - 1) : row[j] = 0
  BY <1>1, LeadingFalls
<1>6. ASSUME NEW i \in 1..5, row[i] = -1, \A j \in 1..(i - 1) : row[j] # 1
      PROVE  Leading(row) = -1
  <2>1. ASSUME NEW j \in Nat, j < i PROVE row[j] <= 0
    <3>1. CASE j = 0
      BY <1>1, <3>1
    <3>2. CASE j # 0
      <4>1. j \in 1..(i - 1)
        BY <2>1, <3>2
      <4>2. row[j] \in Signs /\ row[j] # 1
        BY <1>6, <4>1 DEF Rows
      <4> QED  BY <4>2 DEF Signs
    <3> QED  BY <3>1, <3>2
  <2>2. i \in Nat
    OBVIOUS
  <2> QED  BY <1>6, <2>1, <2>2, LeadingDown
<1>7. ASSUME NEW i \in 1..5, \A j \in 1..(i - 1) : row[j] = 0
      PROVE  \A j \in 1..(i - 1) : row[j] # 1
  BY <1>7
<1> QED  BY <1>1, <1>4, <1>5, <1>6, <1>7

LEMMA CmpIs ==
    ASSUME NEW v \in Version, NEW w \in Version
    PROVE  /\ Cmp(v, w) = IF Older(v, w) THEN -1 ELSE IF Older(w, v) THEN 1 ELSE 0
           /\ Cmp(v, w) <= 0 <=> ~ Older(w, v)
<1>1. PICK c \in Signs : c = Cmp(v, w)
  BY CmpOrders
<1>2. PICK d \in Signs : d = Cmp(w, v)
  BY CmpOrders
<1>3. c = 0 - d
  BY <1>1, <1>2, CmpOrders
<1>4. (c = -1 <=> Older(v, w)) /\ (d = -1 <=> Older(w, v))
  BY <1>1, <1>2, CmpIsOlder
<1>5. (d = -1 <=> c = 1) /\ (c = -1 \/ c = 0 \/ c = 1) /\ (c <= 0 <=> c # 1)
  BY <1>3 DEF Signs
<1> QED  BY <1>1, <1>4, <1>5

-----------------------------------------------------------------------------
\* The list.  g_slist_insert_sorted keeps what is before the place where it is,
\* and moves what is behind it by one.
Inserted(l, p, v) == SubSeq(l, 1, p - 1) \o <<v>> \o SubSeq(l, p, Len(l))

LEMMA InsertedIs ==
    ASSUME NEW S, NEW l \in Seq(S), NEW v \in S, NEW p \in 1..(Len(l) + 1)
    PROVE  /\ Inserted(l, p, v) \in Seq(S)
           /\ Len(Inserted(l, p, v)) = Len(l) + 1
           /\ \A i \in 1..(Len(l) + 1) :
                Inserted(l, p, v)[i] =
                  IF i < p THEN l[i] ELSE IF i = p THEN v ELSE l[i - 1]
<1>1. PICK n \in Nat : n = Len(l)
  OBVIOUS
<1>2. PICK a : a = SubSeq(l, 1, p - 1)
  OBVIOUS
<1>3. PICK b : b = SubSeq(l, p, n)
  OBVIOUS
<1>4. p \in 1..(n + 1)
  BY <1>1
<1>5. a \in Seq(S) /\ Len(a) = p - 1 /\ \A i \in 1..(p - 1) : a[i] = l[i]
  <2>1. CASE p = 1
    <3>1. a = <<>>
      BY <1>1, <1>2, <2>1
    <3> QED  BY <2>1, <3>1
  <2>2. CASE p # 1
    <3>1. 1 \in 1..Len(l) /\ p - 1 \in 1..Len(l)
      BY <1>1, <1>4, <2>2
    <3> QED  BY <1>2, <3>1
  <2> QED  BY <2>1, <2>2
<1>6. b \in Seq(S) /\ Len(b) = n + 1 - p /\ \A i \in 1..(n + 1 - p) : b[i] = l[p + i - 1]
  <2>1. CASE p = n + 1
    <3>1. b = <<>>
      BY <1>1, <1>3, <2>1
    <3> QED  BY <2>1, <3>1
  <2>2. CASE p # n + 1
    <3>1. p \in 1..Len(l) /\ n \in 1..Len(l)
      BY <1>1, <1>4, <2>2
    <3> QED  BY <1>1, <1>3, <3>1
  <2> QED  BY <2>1, <2>2
<1>7. PICK c : c = a \o <<v>>
  OBVIOUS
<1>8. /\ c \in Seq(S) /\ Len(c) = p
      /\ \A i \in 1..p : c[i] = IF i < p THEN a[i] ELSE v
  BY <1>4, <1>5, <1>7
<1>9. PICK t : t = c \o b
  OBVIOUS
<1>10. t \in Seq(S) /\ Len(t) = n + 1
  <2>1. t \in Seq(S) /\ Len(t) = Len(c) + Len(b)
    BY <1>6, <1>8, <1>9, ConcatProperties
  <2> QED  BY <1>4, <1>6, <1>8, <2>1
<1>11. \A i \in 1..(n + 1) : t[i] = IF i <= p THEN c[i] ELSE b[i - p]
  BY <1>4, <1>6, <1>8, <1>9
<1>12. t = Inserted(l, p, v)
  BY <1>1, <1>2, <1>3, <1>7, <1>9 DEF Inserted
<1>13. ASSUME NEW i \in 1..(n + 1)
       PROVE  t[i] = IF i < p THEN l[i] ELSE IF i = p THEN v ELSE l[i - 1]
  <2>1. CASE i < p
    BY <1>4, <1>5, <1>8, <1>11, <2>1
  <2>2. CASE i = p
    BY <1>4, <1>8, <1>11, <2>2
  <2>3. CASE i > p
    <3>1. i - p \in 1..(n + 1 - p) /\ p + (i - p) - 1 = i - 1
      BY <1>4, <2>3
    <3>2. b[i - p] = l[i - 1]
      BY <1>6, <3>1
    <3> QED  BY <1>4, <1>11, <2>3, <3>2
  <2> QED  BY <1>4, <2>1, <2>2, <2>3
<1> QED  BY <1>1, <1>10, <1>12, <1>13

\* What the list always is.
Sorted == \A i, j \in DOMAIN list : i < j => Cmp(list[i], list[j]) <= 0
ListInv == list \in Seq(Texts) /\ Sorted

LEMMA PositionIs ==
    ASSUME NEW v \in Texts, list \in Seq(Texts)
    PROVE  /\ Position(v) \in 1..(Len(list) + 1)
           /\ \A i \in 1..Len(list) : i < Position(v) => Cmp(list[i], v) <= 0
           /\ Position(v) \in 1..Len(list) => Cmp(v, list[Position(v)]) <= 0
<1> USE TextsAssumption
<1>1. PICK n \in Nat : n = Len(list) /\ DOMAIN list = 1..n
  OBVIOUS
<1>2. \A i \in 1..n : list[i] \in Version
  BY <1>1
<1> DEFINE S == {i \in DOMAIN list : Cmp(v, list[i]) <= 0} \cup {n + 1}
<1>3. S \subseteq Nat /\ S # {} /\ n + 1 \in S
  BY <1>1
<1>4. PICK p : p = First(S)
  OBVIOUS
<1>5. p \in S /\ \A m \in S : p <= m
  BY <1>3, <1>4, FirstIsLeast
<1>6. p = Position(v)
  BY <1>1, <1>4 DEF Position
<1>7. p \in 1..(n + 1)
  BY <1>1, <1>5
<1>8. ASSUME NEW i \in 1..n, i < p PROVE Cmp(list[i], v) <= 0
  <2>1. i \notin S
    BY <1>5, <1>7, <1>8
  <2>2. ~ (Cmp(v, list[i]) <= 0)
    BY <1>1, <2>1
  <2>3. PICK c \in Signs : c = Cmp(v, list[i])
    BY <1>2, CmpOrders
  <2>4. PICK d \in Signs : d = Cmp(list[i], v)
    BY <1>2, CmpOrders
  <2>5. c = 0 - d
    BY <1>2, <2>3, <2>4, CmpOrders
  <2>6. d <= 0
    BY <2>2, <2>3, <2>5 DEF Signs
  <2> QED  BY <2>4, <2>6
<1>9. p \in 1..n => Cmp(v, list[p]) <= 0
  BY <1>5
<1> QED  BY <1>1, <1>6, <1>7, <1>8, <1>9

LEMMA InsertKeepsOrder ==
    ASSUME NEW v \in Texts, ListInv, Insert(v)
    PROVE  ListInv'
<1> USE TextsAssumption
<1>1. list \in Seq(Texts) /\ Sorted
  BY DEF ListInv
<1>2. PICK n \in Nat : n = Len(list) /\ DOMAIN list = 1..n
  BY <1>1
<1>3. \A i \in 1..n : list[i] \in Texts /\ list[i] \in Version
  BY <1>1, <1>2
<1>4. PICK p \in 1..(n + 1) : p = Position(v)
  BY <1>1, <1>2, PositionIs
<1>5. PICK t : t = list'
  OBVIOUS
<1>6. t = Inserted(list, p, v)
  BY <1>4, <1>5 DEF Insert, Inserted
<1>7. t \in Seq(Texts) /\ Len(t) = n + 1 /\ DOMAIN t = 1..(n + 1)
  <2>1. t \in Seq(Texts) /\ Len(t) = n + 1
    BY <1>1, <1>2, <1>6, InsertedIs
  <2> QED  BY <2>1
<1>8. \A i \in 1..(n + 1) :
        t[i] = IF i < p THEN list[i] ELSE IF i = p THEN v ELSE list[i - 1]
  BY <1>1, <1>2, <1>6, InsertedIs
<1>9. \A i \in 1..n : i < p => Cmp(list[i], v) <= 0
  BY <1>1, <1>2, <1>4, PositionIs
<1>10. \A i, j \in 1..n : i < j => Cmp(list[i], list[j]) <= 0
  BY <1>1, <1>2 DEF Sorted
<1>11. ASSUME NEW j \in 1..n, j >= p PROVE Cmp(v, list[j]) <= 0
  <2>1. p \in 1..n
    BY <1>11
  <2>2. Cmp(v, list[p]) <= 0
    BY <1>1, <1>2, <1>4, <2>1, PositionIs
  <2>3. CASE j = p
    BY <2>2, <2>3
  <2>4. CASE j > p
    <3>1. Cmp(list[p], list[j]) <= 0
      BY <1>10, <2>1, <2>4
    <3>2. Chain(Cmp(v, list[p]), Cmp(list[p], list[j]), Cmp(v, list[j]))
      BY <1>3, <2>1, CmpOrders
    <3> QED  BY <2>2, <3>1, <3>2 DEF Chain
  <2> QED  BY <1>11, <2>3, <2>4
<1>12. ASSUME NEW i \in 1..(n + 1), NEW j \in 1..(n + 1), i < j
       PROVE  Cmp(t[i], t[j]) <= 0
  <2>1. CASE j < p
    <3>1. t[i] = list[i] /\ t[j] = list[j] /\ i \in 1..n /\ j \in 1..n
      BY <1>8, <1>12, <2>1
    <3> QED  BY <1>10, <1>12, <3>1
  <2>2. CASE j = p
    <3>1. t[i] = list[i] /\ t[j] = v /\ i \in 1..n /\ i < p
      BY <1>8, <1>12, <2>2
    <3> QED  BY <1>9, <3>1
  <2>3. CASE j > p /\ i < p
    <3>1. t[i] = list[i] /\ t[j] = list[j - 1] /\ i \in 1..n /\ j - 1 \in 1..n /\ i < j - 1
      BY <1>8, <1>12, <2>3
    <3> QED  BY <1>10, <3>1
  <2>4. CASE j > p /\ i = p
    <3>1. t[i] = v /\ t[j] = list[j - 1] /\ j - 1 \in 1..n /\ j - 1 >= p
      BY <1>8, <1>12, <2>4
    <3> QED  BY <1>11, <3>1
  <2>5. CASE i > p
    <3>1. t[i] = list[i - 1] /\ t[j] = list[j - 1]
      BY <1>8, <1>12, <2>5
    <3>2. i - 1 \in 1..n /\ j - 1 \in 1..n /\ i - 1 < j - 1
      BY <1>12, <2>5
    <3> QED  BY <1>10, <3>1, <3>2
  <2> QED  BY <1>12, <2>1, <2>2, <2>3, <2>4, <2>5
<1>13. \A i, j \in DOMAIN t : i < j => Cmp(t[i], t[j]) <= 0
  BY <1>7, <1>12
<1> QED  BY <1>5, <1>7, <1>13 DEF ListInv, Sorted

LEMMA ListInductive == Spec => []ListInv
<1> USE TextsAssumption
<1>1. Init => ListInv
  <2>1. ASSUME Init PROVE ListInv
    <3>1. list = <<>>
      BY <2>1 DEF Init
    <3>2. list \in Seq(Texts) /\ DOMAIN list = {}
      BY <3>1
    <3> QED  BY <3>2 DEF ListInv, Sorted
  <2> QED  BY <2>1
<1>2. ListInv /\ [Next]_list => ListInv'
  <2>1. ASSUME ListInv, NEW v \in Texts, Insert(v) PROVE ListInv'
    BY <2>1, InsertKeepsOrder
  <2>2. ASSUME ListInv, UNCHANGED list PROVE ListInv'
    BY <2>2 DEF ListInv, Sorted
  <2> QED  BY <2>1, <2>2 DEF Next
<1> QED  BY <1>1, <1>2, PTL DEF Spec

\* cp_version_cmp is the order of versions, for the versions of every list
\* (atom_parser.y:141-156, 546-635).
THEOREM ComparisonIsTheOrder == Spec => []CmpIsTheOrder
<1> USE TextsAssumption
<1>1. ListInv => CmpIsTheOrder
  <2>1. ASSUME ListInv, NEW p \in Pairs
        PROVE  Cmp(p[1], p[2]) = IF Older(p[1], p[2]) THEN -1
                                 ELSE IF Older(p[2], p[1]) THEN 1 ELSE 0
    <3>1. list \in Seq(Texts)
      BY <2>1 DEF ListInv
    <3>2. PICK i \in DOMAIN list, j \in DOMAIN list : p = <<list[i], list[j]>>
      BY <2>1 DEF Pairs
    <3>3. list[i] \in Version /\ list[j] \in Version
      BY <3>1
    <3>4. p[1] = list[i] /\ p[2] = list[j]
      BY <3>2
    <3> QED  BY <3>3, <3>4, CmpIs
  <2> QED  BY <2>1 DEF CmpIsTheOrder
<1> QED  BY <1>1, ListInductive, PTL

\* The list that insert_package builds is sorted throughout (vartree.c:120).
THEOREM ListStaysSorted == Spec => []ListIsSorted
<1> USE TextsAssumption
<1>1. ListInv => ListIsSorted
  <2>1. ASSUME ListInv, NEW i \in DOMAIN list, NEW j \in DOMAIN list, i < j
        PROVE  ~ Older(list[j], list[i])
    <3>1. list[i] \in Version /\ list[j] \in Version
      BY <2>1 DEF ListInv
    <3>2. Cmp(list[i], list[j]) <= 0
      BY <2>1 DEF ListInv, Sorted
    <3> QED  BY <3>1, <3>2, CmpIs
  <2> QED  BY <2>1 DEF ListIsSorted
<1> QED  BY <1>1, ListInductive, PTL

-----------------------------------------------------------------------------
\* What an atom matches.  Without the revisions the comparison is the same but
\* for its last part.
Upto(v, w) == CmpInternal(v, w, FALSE)

LEMMA UptoOrders ==
    ASSUME NEW v \in Version, NEW w \in Version, NEW x \in Version
    PROVE  /\ Upto(v, w) \in Signs
           /\ Upto(v, w) = 0 - Upto(w, v)
           /\ Chain(Upto(v, w), Upto(w, x), Upto(v, x))
<1>1. PICK check \in BOOLEAN : check = FALSE
  OBVIOUS
<1>2. /\ Upto(v, w) = CmpInternal(v, w, check) /\ Upto(w, v) = CmpInternal(w, v, check)
      /\ Upto(w, x) = CmpInternal(w, x, check) /\ Upto(v, x) = CmpInternal(v, x, check)
  BY <1>1, Zenon DEF Upto
<1> QED  BY <1>2, ComparisonIsAnOrder

LEMMA CmpSplits ==
    ASSUME NEW v \in Version, NEW w \in Version
    PROVE  /\ Upto(v, w) # 0 => Cmp(v, w) = Upto(v, w)
           /\ Upto(v, w) = 0 => Cmp(v, w) = NumCmp(v.revision, w.revision)
<1>1. PICK yes \in BOOLEAN : yes = TRUE
  OBVIOUS
<1>2. PICK no \in BOOLEAN : no = FALSE
  OBVIOUS
<1>3. Cmp(v, w) = CmpInternal(v, w, yes) /\ Upto(v, w) = CmpInternal(v, w, no)
  BY <1>1, <1>2, Zenon DEF Cmp, Upto
<1>4. PICK all \in Rows : all = PartRow(v, w, yes)
  BY PartRowOrders
<1>5. PICK row \in Rows : row = PartRow(v, w, no)
  BY PartRowOrders
<1>6. Cmp(v, w) = Leading(all) /\ Upto(v, w) = Leading(row)
  BY <1>3, <1>4, <1>5, CmpInternalLeads
<1>7. RevisionCmp(v.revision, w.revision, yes) = NumCmp(v.revision, w.revision)
  BY <1>1 DEF RevisionCmp
<1>8. RevisionCmp(v.revision, w.revision, no) = 0
  BY <1>2 DEF RevisionCmp
<1>9. /\ all[5] = NumCmp(v.revision, w.revision) /\ row[5] = 0
      /\ all[1] = row[1] /\ all[2] = row[2] /\ all[3] = row[3] /\ all[4] = row[4]
      /\ \A i \in Nat : i \notin 1..5 => all[i] = 0 /\ row[i] = 0
  BY <1>4, <1>5, <1>7, <1>8, PartRowIs
<1>10. \A i \in Nat : i # 5 => all[i] = row[i]
  <2>1. ASSUME NEW i \in Nat, i # 5 PROVE all[i] = row[i]
    <3>1. i = 1 \/ i = 2 \/ i = 3 \/ i = 4 \/ i \notin 1..5
      BY <2>1
    <3> QED  BY <1>9, <3>1
  <2> QED  BY <2>1
<1>11. CASE Leading(row) # 0
  <2>1. PICK n \in Nat : row[n] = Leading(row) /\ \A i \in Nat : i < n => row[i] = 0
    BY <1>11, LeadingIs
  <2>2. n \in 1..5 /\ n # 5
    BY <1>9, <1>11, <2>1
  <2>3. all[n] = row[n] /\ \A i \in Nat : i < n => all[i] = 0
    <3>1. \A i \in Nat : i < n => i # 5
      BY <2>2
    <3> QED  BY <1>10, <2>1, <2>2, <3>1
  <2>4. Leading(all) = all[n]
    BY <1>11, <2>1, <2>3, LeadingIs
  <2> QED  BY <1>6, <1>11, <2>1, <2>3, <2>4
<1>12. CASE Leading(row) = 0
  <2>1. \A i \in Nat : i # 5 => all[i] = 0
    BY <1>10, <1>12, LeadingIs
  <2>2. Leading(all) = all[5]
    <3>1. CASE all[5] = 0
      <4>1. \A i \in Nat : all[i] = 0
        BY <2>1, <3>1
      <4> QED  BY <3>1, <4>1, LeadingIs
    <3>2. CASE all[5] # 0
      <4>1. \A i \in Nat : i < 5 => all[i] = 0
        BY <2>1
      <4>2. PICK n \in Nat : n = 5
        OBVIOUS
      <4> QED  BY <3>2, <4>1, <4>2, LeadingIs
    <3> QED  BY <3>1, <3>2
  <2> QED  BY <1>6, <1>9, <1>12, <2>2
<1> QED  BY <1>11, <1>12

LEMMA MatchesByOrder ==
    ASSUME NEW op, NEW v, NEW w
    PROVE  /\ op = "<" => (VersionMatches(op, v, w) <=> Cmp(v, w) < 0)
           /\ op = "<=" => (VersionMatches(op, v, w) <=> Cmp(v, w) <= 0)
           /\ op = "=" => (VersionMatches(op, v, w) <=> Cmp(v, w) = 0)
           /\ op = ">=" => (VersionMatches(op, v, w) <=> Cmp(v, w) >= 0)
           /\ op = ">" => (VersionMatches(op, v, w) <=> Cmp(v, w) > 0)
           /\ op = "~" =>
                (VersionMatches(op, v, w) <=>
                   Upto(v, w) = 0 /\ NumCmp(v.revision, w.revision) <= 0)
BY DEF VersionMatches, TildeMatch, Upto

\* x, y and z go upwards, and a version stands somewhere among them.
LEMMA BetweenInOrder ==
    ASSUME NEW v \in Version, NEW x \in Version, NEW y \in Version, NEW z \in Version,
           Cmp(x, y) <= 0, Cmp(y, z) <= 0
    PROVE  /\ Cmp(v, x) < 0 => Cmp(v, y) < 0
           /\ Cmp(v, x) <= 0 => Cmp(v, y) <= 0
           /\ Cmp(v, z) >= 0 => Cmp(v, y) >= 0
           /\ Cmp(v, z) > 0 => Cmp(v, y) > 0
<1>1. PICK a \in Signs : a = Cmp(v, x)
  BY CmpOrders
<1>2. PICK b \in Signs : b = Cmp(x, y)
  BY CmpOrders
<1>3. PICK c \in Signs : c = Cmp(v, y)
  BY CmpOrders
<1>4. PICK d \in Signs : d = Cmp(y, z)
  BY CmpOrders
<1>5. PICK e \in Signs : e = Cmp(v, z)
  BY CmpOrders
<1>6. b <= 0 /\ d <= 0
  BY <1>2, <1>4
<1>7. Chain(a, b, c)
  BY <1>1, <1>2, <1>3, CmpOrders
<1>8. Chain(d, 0 - e, 0 - c)
  <2>1. 0 - e = Cmp(z, v) /\ 0 - c = Cmp(y, v)
    <3>1. PICK g \in Signs : g = Cmp(z, v)
      BY CmpOrders
    <3>2. PICK h \in Signs : h = Cmp(y, v)
      BY CmpOrders
    <3>3. g = 0 - e /\ h = 0 - c
      BY <1>3, <1>5, <3>1, <3>2, CmpOrders
    <3> QED  BY <3>1, <3>2, <3>3
  <2>2. Chain(Cmp(y, z), Cmp(z, v), Cmp(y, v))
    BY CmpOrders
  <2> QED  BY <1>4, <2>1, <2>2
<1>9. (a < 0 => c < 0) /\ (a <= 0 => c <= 0)
  BY <1>6, <1>7 DEF Chain, Signs
<1>10. (e >= 0 => c >= 0) /\ (e > 0 => c > 0)
  BY <1>6, <1>8 DEF Chain, Signs
<1> QED  BY <1>1, <1>3, <1>5, <1>9, <1>10

LEMMA BetweenUpto ==
    ASSUME NEW v \in Version, NEW x \in Version, NEW y \in Version, NEW z \in Version,
           Cmp(x, y) <= 0, Cmp(y, z) <= 0,
           Upto(v, x) = 0, NumCmp(v.revision, x.revision) <= 0, Upto(v, z) = 0
    PROVE  Upto(v, y) = 0 /\ NumCmp(v.revision, y.revision) <= 0
<1>1. PICK b \in Signs : b = Upto(x, y)
  BY UptoOrders
<1>2. PICK c \in Signs : c = Upto(v, y)
  BY UptoOrders
<1>3. PICK d \in Signs : d = Upto(y, z)
  BY UptoOrders
<1>4. b <= 0
  BY <1>1, CmpSplits
<1>5. d <= 0
  BY <1>3, CmpSplits
<1>6. Chain(0, b, c)
  BY <1>1, <1>2, UptoOrders
<1>7. Chain(d, 0, 0 - c)
  <2>1. PICK g \in Signs : g = Upto(z, v)
    BY UptoOrders
  <2>2. PICK h \in Signs : h = Upto(y, v)
    BY UptoOrders
  <2>3. Upto(v, z) = 0 - g /\ c = 0 - h
    BY <1>2, <2>1, <2>2, UptoOrders
  <2>4. g = 0 /\ h = 0 - c
    BY <2>3 DEF Signs
  <2>5. Chain(d, g, h)
    BY <1>3, <2>1, <2>2, UptoOrders
  <2> QED  BY <2>4, <2>5
<1>8. b = 0 /\ c = 0
  BY <1>4, <1>5, <1>6, <1>7 DEF Chain, Signs
<1>9. NumCmp(x.revision, y.revision) <= 0
  BY <1>1, <1>8, CmpSplits
<1>10. v.revision \in Numeral /\ x.revision \in Numeral /\ y.revision \in Numeral
  BY VersionType
<1>11. Chain(NumCmp(v.revision, x.revision), NumCmp(x.revision, y.revision),
             NumCmp(v.revision, y.revision))
  BY <1>10, NumCmpOrders
<1>12. NumCmp(v.revision, y.revision) <= 0
  BY <1>9, <1>11 DEF Chain
<1> QED  BY <1>2, <1>8, <1>12

LEMMA BetweenMatches ==
    ASSUME NEW op \in Ops \ {"=*"}, NEW v \in Version, NEW x \in Version, NEW y \in Version,
           NEW z \in Version, Cmp(x, y) <= 0, Cmp(y, z) <= 0,
           VersionMatches(op, v, x), VersionMatches(op, v, z)
    PROVE  VersionMatches(op, v, y)
<1>1. CASE op = "<"
  BY <1>1, MatchesByOrder, BetweenInOrder
<1>2. CASE op = "<="
  BY <1>2, MatchesByOrder, BetweenInOrder
<1>3. CASE op = "="
  <2>1. Cmp(v, x) <= 0 /\ Cmp(v, z) >= 0
    BY <1>3, MatchesByOrder
  <2>2. Cmp(v, y) <= 0 /\ Cmp(v, y) >= 0 /\ Cmp(v, y) \in Signs
    BY <2>1, BetweenInOrder, CmpOrders
  <2>3. Cmp(v, y) = 0
    BY <2>2 DEF Signs
  <2> QED  BY <1>3, <2>3, MatchesByOrder
<1>4. CASE op = ">="
  BY <1>4, MatchesByOrder, BetweenInOrder
<1>5. CASE op = ">"
  BY <1>5, MatchesByOrder, BetweenInOrder
<1>6. CASE op = "~"
  <2>1. Upto(v, x) = 0 /\ NumCmp(v.revision, x.revision) <= 0 /\ Upto(v, z) = 0
    BY <1>6, MatchesByOrder
  <2>2. Upto(v, y) = 0 /\ NumCmp(v.revision, y.revision) <= 0
    BY <2>1, BetweenUpto
  <2> QED  BY <1>6, <2>2, MatchesByOrder
<1> QED  BY <1>1, <1>2, <1>3, <1>4, <1>5, <1>6 DEF Ops

\* What an atom matches is a stretch of the list (atom_parser.y:803-831).
THEOREM AtomsMatchAStretch == Spec => []MatchesAStretch
<1> USE TextsAssumption
<1>1. ListInv => MatchesAStretch
  <2>1. ASSUME ListInv, NEW op \in Ops \ {"=*"}, NEW v \in {list[n] : n \in DOMAIN list},
               NEW i \in DOMAIN list, NEW j \in DOMAIN list, NEW k \in DOMAIN list,
               i < j, j < k, VersionMatches(op, v, list[i]), VersionMatches(op, v, list[k])
        PROVE  VersionMatches(op, v, list[j])
    <3>1. /\ list[i] \in Version /\ list[j] \in Version /\ list[k] \in Version
          /\ v \in Version
      BY <2>1 DEF ListInv
    <3>2. Cmp(list[i], list[j]) <= 0 /\ Cmp(list[j], list[k]) <= 0
      BY <2>1 DEF ListInv, Sorted
    <3> QED  BY <2>1, <3>1, <3>2, BetweenMatches
  <2> QED  BY <2>1 DEF MatchesAStretch
<1> QED  BY <1>1, ListInductive, PTL

-----------------------------------------------------------------------------
\* The texts of versions.  A sequence that is one part behind another:
Joins(t, a, r, m, k) ==
    Len(t) = m + k /\ \A i \in 1..(m + k) : t[i] = IF i <= m THEN a[i] ELSE r[i - m]

LEMMA JoinIs ==
    ASSUME NEW C, NEW a \in Seq(C), NEW r \in Seq(C)
    PROVE  a \o r \in Seq(C) /\ Joins(a \o r, a, r, Len(a), Len(r))
BY ConcatProperties DEF Joins

Within(a, D) == \A i \in 1..Len(a) : a[i] \in D
Outside(r, D) == r = <<>> \/ r[1] \notin D
Cut(a, r) == a \o r

LEMMA NotShorter ==
    ASSUME NEW C, NEW D, NEW a \in Seq(C), NEW b \in Seq(C), NEW r \in Seq(C), NEW s \in Seq(C),
           Within(b, D), Outside(r, D), Cut(a, r) = Cut(b, s)
    PROVE  Len(a) >= Len(b)
<1>1. PICK m \in Nat : m = Len(a)
  OBVIOUS
<1>2. PICK n \in Nat : n = Len(b)
  OBVIOUS
<1>3. PICK k \in Nat : k = Len(r)
  OBVIOUS
<1>4. PICK l \in Nat : l = Len(s)
  OBVIOUS
<1>5. PICK t : t = a \o r /\ t = b \o s
  BY DEF Cut
<1>6. Joins(t, a, r, m, k)
  BY <1>1, <1>3, <1>5, JoinIs
<1>7. Joins(t, b, s, n, l)
  BY <1>2, <1>4, <1>5, JoinIs
<1>8. ASSUME m < n PROVE FALSE
  <2>1. k >= 1 /\ m + 1 \in 1..(m + k) /\ m + 1 \in 1..(n + l) /\ m + 1 \in 1..n
        /\ (m + 1) - m = 1
    BY <1>6, <1>7, <1>8 DEF Joins
  <2>2. t[m + 1] = r[1]
    BY <1>6, <2>1 DEF Joins
  <2>3. t[m + 1] = b[m + 1]
    BY <1>7, <2>1 DEF Joins
  <2>4. b[m + 1] \in D
    BY <1>2, <2>1 DEF Within
  <2>5. r # <<>>
    BY <1>3, <2>1
  <2> QED  BY <2>2, <2>3, <2>4, <2>5 DEF Outside
<1> QED  BY <1>1, <1>2, <1>8

LEMMA SplitByClass ==
    ASSUME NEW C, NEW D, NEW a \in Seq(C), NEW b \in Seq(C), NEW r \in Seq(C), NEW s \in Seq(C),
           Within(a, D), Within(b, D), Outside(r, D), Outside(s, D), Cut(a, r) = Cut(b, s)
    PROVE  a = b /\ r = s
<1>1. Len(a) >= Len(b)
  BY NotShorter
<1>2. Len(b) >= Len(a)
  BY NotShorter
<1>3. PICK m \in Nat : m = Len(a) /\ m = Len(b)
  BY <1>1, <1>2
<1>4. PICK k \in Nat : k = Len(r)
  OBVIOUS
<1>5. PICK l \in Nat : l = Len(s)
  OBVIOUS
<1>6. PICK t : t = a \o r /\ t = b \o s
  BY DEF Cut
<1>7. Joins(t, a, r, m, k)
  BY <1>3, <1>4, <1>6, JoinIs
<1>8. Joins(t, b, s, m, l)
  BY <1>3, <1>5, <1>6, JoinIs
<1>9. k = l
  BY <1>7, <1>8 DEF Joins
<1>10. ASSUME NEW i \in 1..m PROVE a[i] = b[i]
  <2>1. i \in 1..(m + k) /\ i <= m
    OBVIOUS
  <2> QED  BY <1>7, <1>8, <1>9, <2>1 DEF Joins
<1>11. ASSUME NEW i \in 1..k PROVE r[i] = s[i]
  <2>1. m + i \in 1..(m + k) /\ ~ (m + i <= m) /\ (m + i) - m = i
    OBVIOUS
  <2>2. t[m + i] = r[i]
    BY <1>7, <2>1 DEF Joins
  <2>3. t[m + i] = s[i]
    BY <1>8, <1>9, <2>1 DEF Joins
  <2> QED  BY <2>2, <2>3
<1>12. a = b
  BY <1>3, <1>10, SeqEqual
<1>13. r = s
  BY <1>4, <1>5, <1>9, <1>11, SeqEqual
<1> QED  BY <1>12, <1>13

\* The same from the end: what follows the last separator.
Follows(t, a, sep, x, m, n) ==
    /\ Len(t) = m + 1 + n
    /\ \A i \in 1..m : t[i] = a[i]
    /\ t[m + 1] = sep
    /\ \A i \in 1..n : t[m + 1 + i] = x[i]

LEMMA AfterSeparator ==
    ASSUME NEW C, NEW sep \in C, NEW a \in Seq(C), NEW x \in Seq(C)
    PROVE  LET t == a \o (<<sep>> \o x)
           IN t \in Seq(C) /\ Follows(t, a, sep, x, Len(a), Len(x))
<1>1. PICK m \in Nat : m = Len(a)
  OBVIOUS
<1>2. PICK n \in Nat : n = Len(x)
  OBVIOUS
<1>3. PICK y \in Seq(C) : y = <<sep>> \o x
  <2>1. <<sep>> \in Seq(C)
    OBVIOUS
  <2> QED  BY <2>1, ConcatProperties
<1>4. Len(y) = 1 + n /\ y[1] = sep /\ \A i \in 1..n : y[1 + i] = x[i]
  <2>1. <<sep>> \in Seq(C) /\ Len(<<sep>>) = 1 /\ <<sep>>[1] = sep
    OBVIOUS
  <2>2. Joins(y, <<sep>>, x, 1, n)
    BY <1>2, <1>3, <2>1, JoinIs
  <2>3. y[1] = sep /\ Len(y) = 1 + n
    BY <2>1, <2>2 DEF Joins
  <2>4. ASSUME NEW i \in 1..n PROVE y[1 + i] = x[i]
    <3>1. 1 + i \in 1..(1 + n) /\ ~ (1 + i <= 1) /\ (1 + i) - 1 = i
      OBVIOUS
    <3> QED  BY <2>2, <3>1 DEF Joins
  <2> QED  BY <2>3, <2>4
<1>5. PICK t : t = a \o y
  OBVIOUS
<1>6. t \in Seq(C) /\ Joins(t, a, y, m, 1 + n)
  BY <1>1, <1>4, <1>5, JoinIs
<1>7. Len(t) = m + 1 + n /\ \A i \in 1..m : t[i] = a[i]
  BY <1>6 DEF Joins
<1>8. t[m + 1] = sep
  <2>1. m + 1 \in 1..(m + (1 + n)) /\ ~ (m + 1 <= m) /\ (m + 1) - m = 1
    OBVIOUS
  <2> QED  BY <1>4, <1>6, <2>1 DEF Joins
<1>9. ASSUME NEW i \in 1..n PROVE t[m + 1 + i] = x[i]
  <2>1. /\ m + 1 + i \in 1..(m + (1 + n)) /\ ~ (m + 1 + i <= m)
        /\ (m + 1 + i) - m = 1 + i
    OBVIOUS
  <2> QED  BY <1>4, <1>6, <2>1 DEF Joins
<1> QED  BY <1>1, <1>2, <1>3, <1>5, <1>6, <1>7, <1>8, <1>9 DEF Follows

Behind(a, sep, x) == a \o (<<sep>> \o x)
Without(x, sep) == \A i \in 1..Len(x) : x[i] # sep

LEMMA SplitAtLast ==
    ASSUME NEW C, NEW sep \in C, NEW a \in Seq(C), NEW b \in Seq(C),
           NEW x \in Seq(C), NEW y \in Seq(C),
           Without(x, sep), Without(y, sep),
           Behind(a, sep, x) = Behind(b, sep, y)
    PROVE  a = b /\ x = y
<1>1. PICK m \in Nat : m = Len(a)
  OBVIOUS
<1>2. PICK n \in Nat : n = Len(b)
  OBVIOUS
<1>3. PICK k \in Nat : k = Len(x)
  OBVIOUS
<1>4. PICK l \in Nat : l = Len(y)
  OBVIOUS
<1>5. PICK t : t = a \o (<<sep>> \o x) /\ t = b \o (<<sep>> \o y)
  BY DEF Behind
<1>6. Follows(t, a, sep, x, m, k)
  BY <1>1, <1>3, <1>5, AfterSeparator
<1>7. Follows(t, b, sep, y, n, l)
  BY <1>2, <1>4, <1>5, AfterSeparator
<1>8. ASSUME n < m PROVE FALSE
  <2>1. m - n \in 1..l /\ n + 1 + (m - n) = m + 1
    BY <1>6, <1>7, <1>8 DEF Follows
  <2>2. y[m - n] = sep
    BY <1>6, <1>7, <2>1 DEF Follows
  <2> QED  BY <1>4, <2>1, <2>2 DEF Without
<1>9. ASSUME m < n PROVE FALSE
  <2>1. n - m \in 1..k /\ m + 1 + (n - m) = n + 1
    BY <1>6, <1>7, <1>9 DEF Follows
  <2>2. x[n - m] = sep
    BY <1>6, <1>7, <2>1 DEF Follows
  <2> QED  BY <1>3, <2>1, <2>2 DEF Without
<1>10. m = n /\ k = l
  BY <1>6, <1>7, <1>8, <1>9 DEF Follows
<1>11. a = b
  <2>1. \A i \in 1..m : a[i] = b[i]
    BY <1>6, <1>7, <1>10 DEF Follows
  <2> QED  BY <1>1, <1>2, <1>10, <2>1, SeqEqual
<1>12. x = y
  <2>1. \A i \in 1..k : x[i] = y[i]
    BY <1>6, <1>7, <1>10 DEF Follows
  <2> QED  BY <1>3, <1>4, <1>10, <2>1, SeqEqual
<1> QED  BY <1>11, <1>12

-----------------------------------------------------------------------------
\* Texts joined one after the other.
Joined(ss) ==
    LET all[n \in 0..Len(ss)] == IF n = 0 THEN <<>> ELSE all[n - 1] \o ss[n] IN all

Flattens(n, ss, C) ==
    /\ n \in [0..Len(ss) -> Seq(C)]
    /\ n[0] = <<>>
    /\ \A i \in 1..Len(ss) : n[i] = n[i - 1] \o ss[i]

LEMMA JoinedExists ==
    ASSUME NEW C, NEW ss \in Seq(Seq(C))
    PROVE  \E n : Flattens(n, ss, C)
<1>1. PICK L \in Nat : L = Len(ss)
  OBVIOUS
<1>2. PICK T : T = Seq(C)
  OBVIOUS
<1>3. <<>> \in T /\ \A a, b \in T : a \o b \in T
  BY <1>2, ConcatProperties, EmptySeq
<1>4. PICK e \in [Nat -> T] : \A i \in 1..L : e[i] = ss[i]
  <2>1. PICK e : e = [i \in Nat |-> IF i \in 1..L THEN ss[i] ELSE <<>>]
    OBVIOUS
  <2>2. \A i \in 1..L : e[i] = ss[i]
    BY <2>1
  <2>3. \A i \in 1..L : ss[i] \in T
    BY <1>1, <1>2, ElementOfSeq
  <2>4. e \in [Nat -> T]
    BY <1>3, <2>1, <2>3
  <2> QED  BY <2>2, <2>4
<1> DEFINE Read(n, k) == n[0] = <<>> /\ \A i \in 1..k : n[i] = n[i - 1] \o e[i]
           Long == {k \in Nat : \E n \in [0..k -> T] : Read(n, k)}
<1>5. 0 \in Long
  <2>1. [i \in 0..0 |-> <<>>] \in [0..0 -> T]
    BY <1>3
  <2>2. Read([i \in 0..0 |-> <<>>], 0)
    OBVIOUS
  <2> QED  BY <2>1, <2>2
<1>6. ASSUME NEW k \in Nat, k \in Long PROVE k + 1 \in Long
  <2>1. PICK n \in [0..k -> T] : Read(n, k)
    BY <1>6
  <2>2. PICK c : c = n[k] \o e[k + 1]
    OBVIOUS
  <2>3. PICK m : m = [i \in 0..(k + 1) |-> IF i <= k THEN n[i] ELSE c]
    OBVIOUS
  <2>4. c \in T
    <3>1. n[k] \in T /\ e[k + 1] \in T
      OBVIOUS
    <3> QED  BY <1>3, <2>2, <3>1
  <2>5. m \in [0..(k + 1) -> T]
    BY <2>3, <2>4
  <2>6. \A i \in 0..k : m[i] = n[i]
    BY <2>3
  <2>7. m[k + 1] = m[(k + 1) - 1] \o e[k + 1]
    <3>1. m[k + 1] = c /\ (k + 1) - 1 = k /\ m[k] = n[k]
      BY <2>3
    <3> QED  BY <2>2, <3>1
  <2>8. ASSUME NEW i \in 1..k PROVE m[i] = m[i - 1] \o e[i]
    <3>1. i \in 0..k /\ i - 1 \in 0..k
      OBVIOUS
    <3>2. m[i] = n[i] /\ m[i - 1] = n[i - 1]
      BY <2>6, <3>1
    <3>3. n[i] = n[i - 1] \o e[i]
      BY <2>1
    <3> QED  BY <3>2, <3>3
  <2>9. \A i \in 1..(k + 1) : i \in 1..k \/ i = k + 1
    OBVIOUS
  <2>10. m[0] = <<>>
    BY <2>1, <2>6
  <2>11. Read(m, k + 1)
    BY <2>7, <2>8, <2>9, <2>10
  <2>12. k + 1 \in Nat
    OBVIOUS
  <2> HIDE DEF Read
  <2> QED  BY <2>5, <2>11, <2>12
<1>7. L \in Long
  <2> HIDE DEF Long
  <2>1. Nat \subseteq Long
    BY <1>5, <1>6, SetInduction
  <2> QED  BY <2>1
<1>8. PICK n \in [0..L -> T] : Read(n, L)
  BY <1>7
<1>9. ASSUME NEW i \in 1..L PROVE n[i] = n[i - 1] \o ss[i]
  BY <1>4, <1>8, <1>9
<1> QED  BY <1>1, <1>2, <1>8, <1>9 DEF Flattens

LEMMA JoinedIs ==
    ASSUME NEW C, NEW ss \in Seq(Seq(C))
    PROVE  /\ \A i \in 0..Len(ss) : Joined(ss)[i] \in Seq(C)
           /\ Joined(ss)[0] = <<>>
           /\ \A i \in 1..Len(ss) : Joined(ss)[i] = Joined(ss)[i - 1] \o ss[i]
           /\ Flatten(ss) = Joined(ss)[Len(ss)]
<1>1. PICK L \in Nat : L = Len(ss)
  OBVIOUS
<1> DEFINE Add(x, i) == x \o ss[i]
           Step(n) == [i \in 0..L |-> IF i = 0 THEN <<>> ELSE Add(n[i - 1], i)]
<1>2. PICK n : Flattens(n, ss, C)
  BY JoinedExists
<1>3. /\ n \in [0..L -> Seq(C)] /\ n[0] = <<>>
      /\ \A i \in 1..L : n[i] = n[i - 1] \o ss[i]
  BY <1>1, <1>2 DEF Flattens
<1>4. n = Step(n)
  <2>1. \A i \in 1..L : n[i] = Add(n[i - 1], i)
    BY <1>3
  <2> HIDE DEF Add
  <2>2. \A i \in 0..L : n[i] = Step(n)[i]
    BY <1>3, <2>1
  <2> QED  BY <1>3, <2>2
<1>5. PICK p : p = Joined(ss)
  OBVIOUS
<1>6. p = CHOOSE m : m = Step(m)
  BY <1>1, <1>5 DEF Joined
<1>7. p = Step(p)
  BY <1>4, <1>6
<1>8. p[0] = <<>> /\ \A i \in 1..L : p[i] = p[i - 1] \o ss[i]
  <2>1. p[0] = <<>> /\ \A i \in 1..L : p[i] = Add(p[i - 1], i)
    <3> HIDE DEF Add
    <3>1. PICK q : q = Step(p)
      OBVIOUS
    <3>2. q[0] = <<>> /\ \A i \in 1..L : q[i] = Add(p[i - 1], i)
      <4>1. 0 \in 0..L /\ \A i \in 1..L : i \in 0..L /\ i # 0
        BY <1>1
      <4>2. q[0] = <<>>
        BY <3>1, <4>1
      <4> QED  BY <3>1, <4>1, <4>2
    <3> QED  BY <1>7, <3>1, <3>2
  <2> QED  BY <2>1
<1>9. \A i \in 0..L : p[i] \in Seq(C)
  <2> DEFINE Good == {k \in Nat : k <= L => p[k] \in Seq(C)}
  <2>1. 0 \in Good
    BY <1>8, EmptySeq
  <2>2. ASSUME NEW k \in Nat, k \in Good PROVE k + 1 \in Good
    <3>1. CASE k + 1 <= L
      <4>1. p[k] \in Seq(C) /\ k + 1 \in 1..L /\ (k + 1) - 1 = k
        BY <1>1, <2>2, <3>1
      <4>2. ss[k + 1] \in Seq(C)
        BY <1>1, <4>1, ElementOfSeq
      <4>3. p[k + 1] = p[k] \o ss[k + 1]
        BY <1>8, <4>1
      <4>4. p[k + 1] \in Seq(C)
        BY <4>1, <4>2, <4>3, ConcatProperties
      <4> QED  BY <4>4
    <3> QED  BY <3>1
  <2> HIDE DEF Good
  <2>3. Nat \subseteq Good
    BY <2>1, <2>2, SetInduction
  <2> USE DEF Good
  <2> QED  BY <1>1, <2>3
<1>10. Flatten(ss) = p[L]
  BY <1>1, <1>5 DEF Flatten, Joined
<1> QED  BY <1>1, <1>5, <1>8, <1>9, <1>10

\* The texts of a list, each behind a separator.
Marked(sep, fs) == [i \in 1..Len(fs) |-> <<sep>> \o fs[i]]

LEMMA MarkedIs ==
    ASSUME NEW C, NEW sep \in C, NEW fs \in Seq(Seq(C))
    PROVE  /\ Marked(sep, fs) \in Seq(Seq(C))
           /\ Len(Marked(sep, fs)) = Len(fs)
           /\ \A i \in 1..Len(fs) : /\ fs[i] \in Seq(C)
                                    /\ Marked(sep, fs)[i] = <<sep>> \o fs[i]
<1>1. PICK L \in Nat : L = Len(fs)
  OBVIOUS
<1>2. \A i \in 1..L : fs[i] \in Seq(C)
  BY <1>1, ElementOfSeq
<1>3. <<sep>> \in Seq(C)
  OBVIOUS
<1>4. \A i \in 1..L : <<sep>> \o fs[i] \in Seq(C)
  BY <1>2, <1>3, ConcatProperties
<1>5. PICK m : m = Marked(sep, fs)
  OBVIOUS
<1>6. m = [i \in 1..L |-> <<sep>> \o fs[i]]
  BY <1>1, <1>5 DEF Marked
<1>7. m \in [1..L -> Seq(C)] /\ \A i \in 1..L : m[i] = <<sep>> \o fs[i]
  <2> DEFINE Mark(i) == <<sep>> \o fs[i]
  <2>1. \A i \in 1..L : Mark(i) \in Seq(C)
    BY <1>4
  <2>2. m = [i \in 1..L |-> Mark(i)]
    BY <1>6
  <2>3. m \in [1..L -> Seq(C)] /\ \A i \in 1..L : m[i] = Mark(i)
    <3> HIDE DEF Mark
    <3> QED  BY <2>1, <2>2
  <2> QED  BY <2>3
<1>8. m \in Seq(Seq(C)) /\ Len(m) = L
  BY <1>7
<1> QED  BY <1>1, <1>2, <1>5, <1>7, <1>8

LEMMA FlattenBegins ==
    ASSUME NEW C, NEW sep \in C, NEW fs \in Seq(Seq(C))
    PROVE  LET t == Flatten(Marked(sep, fs))
           IN t \in Seq(C) /\ (t = <<>> \/ t[1] = sep)
<1>1. PICK L \in Nat : L = Len(fs)
  OBVIOUS
<1>2. PICK f : f = Joined(Marked(sep, fs))
  OBVIOUS
<1>3. /\ \A i \in 0..L : f[i] \in Seq(C)
      /\ f[0] = <<>>
      /\ \A i \in 1..L : f[i] = f[i - 1] \o (<<sep>> \o fs[i])
      /\ Flatten(Marked(sep, fs)) = f[L]
  <2>1. PICK m \in Seq(Seq(C)) : m = Marked(sep, fs)
    BY MarkedIs
  <2>2. Len(m) = L /\ \A i \in 1..L : m[i] = <<sep>> \o fs[i]
    BY <1>1, <2>1, MarkedIs
  <2>3. f = Joined(m)
    BY <1>2, <2>1
  <2> QED  BY <2>1, <2>2, <2>3, JoinedIs
<1> DEFINE Begun == {k \in Nat : k <= L => f[k] = <<>> \/ (Len(f[k]) > 0 /\ f[k][1] = sep)}
<1>4. 0 \in Begun
  BY <1>3
<1>5. ASSUME NEW k \in Nat, k \in Begun PROVE k + 1 \in Begun
  <2>1. CASE k + 1 <= L
    <3>1. k + 1 \in 1..L /\ (k + 1) - 1 = k /\ k \in 0..L
      BY <2>1
    <3>2. PICK a \in Seq(C) : a = f[k]
      BY <1>3, <3>1
    <3>3. PICK x \in Seq(C) : x = fs[k + 1]
      BY <1>1, <3>1, MarkedIs
    <3>4. f[k + 1] = a \o (<<sep>> \o x)
      BY <1>3, <3>1, <3>2, <3>3
    <3>5. PICK t : t = f[k + 1]
      OBVIOUS
    <3>6. Follows(t, a, sep, x, Len(a), Len(x))
      BY <3>4, <3>5, AfterSeparator
    <3>7. PICK m \in Nat, n \in Nat : m = Len(a) /\ n = Len(x)
      OBVIOUS
    <3>8. Len(t) = m + 1 + n /\ t[m + 1] = sep /\ \A i \in 1..m : t[i] = a[i]
      BY <3>6, <3>7 DEF Follows
    <3>9. Len(t) > 0 /\ t[1] = sep
      <4>1. CASE m = 0
        BY <3>8, <4>1
      <4>2. CASE m > 0
        <5>1. a # <<>>
          BY <3>7, <4>2
        <5>2. a[1] = sep
          BY <1>5, <2>1, <3>1, <3>2, <5>1
        <5>3. 1 \in 1..m
          BY <4>2
        <5> QED  BY <3>8, <5>2, <5>3
      <4> QED  BY <4>1, <4>2
    <3> QED  BY <3>5, <3>9
  <2> QED  BY <2>1
<1>6. L \in Begun
  <2> HIDE DEF Begun
  <2>1. Nat \subseteq Begun
    BY <1>4, <1>5, SetInduction
  <2> QED  BY <2>1
<1>7. f[L] \in Seq(C)
  BY <1>3
<1> QED  BY <1>3, <1>6, <1>7

LEMMA NotEmptied ==
    ASSUME NEW C, NEW sep \in C, NEW a \in Seq(C), NEW x \in Seq(C)
    PROVE  a \o (<<sep>> \o x) # <<>>
<1>1. PICK t : t = a \o (<<sep>> \o x)
  OBVIOUS
<1>2. PICK m \in Nat, n \in Nat : m = Len(a) /\ n = Len(x)
  OBVIOUS
<1>3. Follows(t, a, sep, x, m, n)
  BY <1>1, <1>2, AfterSeparator
<1>4. Len(t) # 0
  BY <1>2, <1>3 DEF Follows
<1> QED  BY <1>1, <1>4

LEMMA FlattenTells ==
    ASSUME NEW C, NEW sep \in C, NEW fs \in Seq(Seq(C)), NEW gs \in Seq(Seq(C)),
           \A i \in 1..Len(fs) : Without(fs[i], sep),
           \A i \in 1..Len(gs) : Without(gs[i], sep),
           Flatten(Marked(sep, fs)) = Flatten(Marked(sep, gs))
    PROVE  fs = gs
<1>1. PICK L \in Nat : L = Len(fs)
  OBVIOUS
<1>2. PICK M \in Nat : M = Len(gs)
  OBVIOUS
<1>3. PICK f : f = Joined(Marked(sep, fs))
  OBVIOUS
<1>4. PICK g : g = Joined(Marked(sep, gs))
  OBVIOUS
<1>5. /\ \A i \in 0..L : f[i] \in Seq(C)
      /\ f[0] = <<>>
      /\ \A i \in 1..L : f[i] = f[i - 1] \o (<<sep>> \o fs[i])
      /\ Flatten(Marked(sep, fs)) = f[L]
  <2>1. PICK m \in Seq(Seq(C)) : m = Marked(sep, fs)
    BY MarkedIs
  <2>2. Len(m) = L /\ \A i \in 1..L : m[i] = <<sep>> \o fs[i]
    BY <1>1, <2>1, MarkedIs
  <2>3. f = Joined(m)
    BY <1>3, <2>1
  <2> QED  BY <2>1, <2>2, <2>3, JoinedIs
<1>6. /\ \A i \in 0..M : g[i] \in Seq(C)
      /\ g[0] = <<>>
      /\ \A i \in 1..M : g[i] = g[i - 1] \o (<<sep>> \o gs[i])
      /\ Flatten(Marked(sep, gs)) = g[M]
  <2>1. PICK m \in Seq(Seq(C)) : m = Marked(sep, gs)
    BY MarkedIs
  <2>2. Len(m) = M /\ \A i \in 1..M : m[i] = <<sep>> \o gs[i]
    BY <1>2, <2>1, MarkedIs
  <2>3. g = Joined(m)
    BY <1>4, <2>1
  <2> QED  BY <2>1, <2>2, <2>3, JoinedIs
<1>7. /\ \A i \in 1..L : fs[i] \in Seq(C) /\ Without(fs[i], sep)
      /\ \A i \in 1..M : gs[i] \in Seq(C) /\ Without(gs[i], sep)
  BY <1>1, <1>2, ElementOfSeq
<1>8. /\ \A k \in 1..L : f[k] # <<>>
      /\ \A k \in 1..M : g[k] # <<>>
  <2>2. ASSUME NEW k \in 1..L PROVE f[k] # <<>>
    <3>1. f[k - 1] \in Seq(C) /\ fs[k] \in Seq(C)
      BY <1>5, <1>7
    <3> QED  BY <1>5, <3>1, NotEmptied
  <2>3. ASSUME NEW k \in 1..M PROVE g[k] # <<>>
    <3>1. g[k - 1] \in Seq(C) /\ gs[k] \in Seq(C)
      BY <1>6, <1>7
    <3> QED  BY <1>6, <3>1, NotEmptied
  <2> QED  BY <2>2, <2>3
<1> DEFINE Told(k) == \A m \in 0..M : f[k] = g[m] => k = m /\ \A i \in 1..k : fs[i] = gs[i]
           Telling == {k \in Nat : k <= L => Told(k)}
<1>9. 0 \in Telling
  <2>1. \A m \in 0..M : f[0] = g[m] => m = 0
    BY <1>5, <1>6, <1>8
  <2> QED  BY <2>1
<1>10. ASSUME NEW k \in Nat, k \in Telling PROVE k + 1 \in Telling
  <2>1. ASSUME k + 1 <= L, NEW m \in 0..M, f[k + 1] = g[m]
        PROVE  k + 1 = m /\ \A i \in 1..(k + 1) : fs[i] = gs[i]
    <3>1. k + 1 \in 1..L /\ (k + 1) - 1 = k /\ k \in 0..L
      BY <2>1
    <3>2. m \in 1..M /\ m - 1 \in 0..M
      <4>1. f[k + 1] # <<>>
        BY <1>8, <3>1
      <4>2. m # 0
        BY <1>6, <2>1, <4>1
      <4> QED  BY <4>2
    <3>3. PICK a \in Seq(C) : a = f[k]
      BY <1>5, <3>1
    <3>4. PICK b \in Seq(C) : b = g[m - 1]
      BY <1>6, <3>2
    <3>5. PICK x \in Seq(C) : x = fs[k + 1]
      BY <1>7, <3>1
    <3>6. PICK y \in Seq(C) : y = gs[m]
      BY <1>7, <3>2
    <3>7. f[k + 1] = a \o (<<sep>> \o x)
      BY <1>5, <3>1, <3>3, <3>5
    <3>8. g[m] = b \o (<<sep>> \o y)
      BY <1>6, <3>2, <3>4, <3>6
    <3>9. Without(x, sep) /\ Without(y, sep)
      BY <1>7, <3>1, <3>2, <3>5, <3>6
    <3>10. Behind(a, sep, x) = Behind(b, sep, y)
      BY <2>1, <3>7, <3>8 DEF Behind
    <3>11. a = b /\ x = y
      <4>1. /\ sep \in C /\ a \in Seq(C) /\ b \in Seq(C)
            /\ x \in Seq(C) /\ y \in Seq(C)
        OBVIOUS
      <4> QED  BY <3>9, <3>10, <4>1, SplitAtLast
    <3>12. f[k] = g[m - 1]
      BY <3>3, <3>4, <3>11
    <3>13. Told(k)
      BY <1>10, <3>1
    <3>14. k = m - 1 /\ \A i \in 1..k : fs[i] = gs[i]
      BY <3>2, <3>12, <3>13
    <3>15. m = k + 1
      BY <3>2, <3>14
    <3>16. fs[k + 1] = gs[k + 1]
      BY <3>5, <3>6, <3>11, <3>15
    <3>17. \A i \in 1..(k + 1) : i \in 1..k \/ i = k + 1
      OBVIOUS
    <3> QED  BY <3>14, <3>15, <3>16, <3>17
  <2> QED  BY <2>1
<1>11. Told(L)
  <2>1. L \in Telling
    <3> HIDE DEF Telling
    <3>1. Nat \subseteq Telling
      BY <1>9, <1>10, SetInduction
    <3> QED  BY <3>1
  <2> QED  BY <2>1
<1>12. L = M /\ \A i \in 1..L : fs[i] = gs[i]
  <2>1. f[L] = Flatten(Marked(sep, fs))
    BY <1>5
  <2>2. g[M] = Flatten(Marked(sep, gs))
    BY <1>6
  <2>3. f[L] = g[M]
    BY <2>1, <2>2, Zenon
  <2>4. M \in 0..M
    OBVIOUS
  <2> QED  BY <1>11, <2>3, <2>4
<1> QED  BY <1>1, <1>2, <1>12, SeqEqual

-----------------------------------------------------------------------------
\* The characters of a version's text.
DigitChars == {"0", "1", "2", "3", "4", "5", "6", "7", "8", "9"}
LowerChars == {"a", "b", "c", "d", "e", "f", "g", "h", "i", "j", "k", "l", "m",
               "n", "o", "p", "q", "r", "s", "t", "u", "v", "w", "x", "y", "z"}
Chars == DigitChars \cup LowerChars \cup {".", "_", "-"}

LEMMA DigitsAre ==
    /\ \A n \in 0..9 : Digits[n + 1] \in DigitChars
    /\ \A m, n \in 0..9 : Digits[m + 1] = Digits[n + 1] => m = n
<1>1. PICK d : d = Digits
  OBVIOUS
<1>2. /\ d[1] = "0" /\ d[2] = "1" /\ d[3] = "2" /\ d[4] = "3" /\ d[5] = "4"
      /\ d[6] = "5" /\ d[7] = "6" /\ d[8] = "7" /\ d[9] = "8" /\ d[10] = "9"
  BY <1>1 DEF Digits
<1>3. \A n \in 0..9 : \/ n = 0 \/ n = 1 \/ n = 2 \/ n = 3 \/ n = 4
                      \/ n = 5 \/ n = 6 \/ n = 7 \/ n = 8 \/ n = 9
  OBVIOUS
<1> QED  BY <1>1, <1>2, <1>3 DEF DigitChars

LEMMA LettersAre ==
    /\ \A n \in 1..26 : Letters[n] \in LowerChars
    /\ \A m, n \in 1..26 : Letters[m] = Letters[n] => m = n
<1>1. PICK l : l = Letters
  OBVIOUS
<1>2. /\ l[1] = "a" /\ l[2] = "b" /\ l[3] = "c" /\ l[4] = "d" /\ l[5] = "e" /\ l[6] = "f"
      /\ l[7] = "g" /\ l[8] = "h" /\ l[9] = "i" /\ l[10] = "j" /\ l[11] = "k" /\ l[12] = "l"
      /\ l[13] = "m" /\ l[14] = "n" /\ l[15] = "o" /\ l[16] = "p" /\ l[17] = "q" /\ l[18] = "r"
      /\ l[19] = "s" /\ l[20] = "t" /\ l[21] = "u" /\ l[22] = "v" /\ l[23] = "w" /\ l[24] = "x"
      /\ l[25] = "y" /\ l[26] = "z"
  BY <1>1 DEF Letters
<1>3. \A n \in 1..26 :
         \/ n = 1 \/ n = 2 \/ n = 3 \/ n = 4 \/ n = 5 \/ n = 6 \/ n = 7 \/ n = 8 \/ n = 9
         \/ n = 10 \/ n = 11 \/ n = 12 \/ n = 13 \/ n = 14 \/ n = 15 \/ n = 16 \/ n = 17
         \/ n = 18 \/ n = 19 \/ n = 20 \/ n = 21 \/ n = 22 \/ n = 23 \/ n = 24 \/ n = 25
         \/ n = 26
  OBVIOUS
<1>4. \A n \in 1..26 : l[n] \in LowerChars
  BY <1>2, <1>3 DEF LowerChars
<1>5. \A m, n \in 1..26 : l[m] = l[n] => m = n
  BY <1>2, <1>3
<1> QED  BY <1>1, <1>4, <1>5

LEMMA CharsApart ==
    /\ DigitChars \cap LowerChars = {}
    /\ "." \notin DigitChars /\ "." \notin LowerChars
    /\ "_" \notin DigitChars /\ "_" \notin LowerChars
    /\ "-" \notin DigitChars /\ "-" \notin LowerChars
    /\ "." # "_" /\ "." # "-" /\ "_" # "-"
BY DEF DigitChars, LowerChars

LEMMA WrittenIs ==
    ASSUME NEW d \in Numeral
    PROVE  /\ Written(d) \in Seq(DigitChars)
           /\ Len(Written(d)) = Len(d)
           /\ \A i \in 1..Len(d) : Written(d)[i] = Digits[d[i] + 1]
<1>1. PICK L \in Nat : L = Len(d) /\ DOMAIN d = 1..L
  BY DEF Numeral
<1>2. \A i \in 1..L : d[i] \in 0..9
  BY <1>1 DEF Numeral
<1> DEFINE One(i) == Digits[d[i] + 1]
<1>3. \A i \in 1..L : One(i) \in DigitChars
  BY <1>2, DigitsAre
<1>4. PICK w : w = Written(d)
  OBVIOUS
<1>5. w = [i \in 1..L |-> One(i)]
  BY <1>1, <1>4 DEF Written
<1>6. w \in [1..L -> DigitChars] /\ \A i \in 1..L : w[i] = One(i)
  <2> HIDE DEF One
  <2> QED  BY <1>3, <1>5
<1>7. w \in Seq(DigitChars) /\ Len(w) = L
  BY <1>6
<1> QED  BY <1>1, <1>4, <1>6, <1>7

LEMMA WrittenTells ==
    ASSUME NEW d \in Numeral, NEW e \in Numeral, Written(d) = Written(e)
    PROVE  d = e
<1>1. PICK L \in Nat : L = Len(d)
  BY DEF Numeral
<1>2. Len(e) = L
  BY <1>1, WrittenIs
<1>3. ASSUME NEW i \in 1..L PROVE d[i] = e[i]
  <2>1. Written(d)[i] = Digits[d[i] + 1] /\ Written(e)[i] = Digits[e[i] + 1]
    BY <1>1, <1>2, WrittenIs
  <2>2. d[i] \in 0..9 /\ e[i] \in 0..9
    BY <1>1, <1>2, ElementOfSeq DEF Numeral
  <2>3. Digits[d[i] + 1] = Digits[e[i] + 1]
    BY <2>1
  <2> QED  BY <2>2, <2>3, DigitsAre
<1> QED  BY <1>1, <1>2, <1>3, SeqEqual DEF Numeral

LEMMA SpellingIs ==
    ASSUME NEW n \in SuffixNames
    PROVE  /\ Spelling(n) \in Seq(LowerChars)
           /\ \A m \in SuffixNames : Spelling(m) = Spelling(n) => m = n
<1>1. \A m \in SuffixNames :
        m = "alpha" \/ m = "beta" \/ m = "pre" \/ m = "rc" \/ m = "p"
  BY NamesOfSuffixes
<1>2. /\ Spelling("alpha") = <<"a", "l", "p", "h", "a">>
      /\ Spelling("beta") = <<"b", "e", "t", "a">>
      /\ Spelling("pre") = <<"p", "r", "e">>
      /\ Spelling("rc") = <<"r", "c">>
      /\ Spelling("p") = <<"p">>
  BY DEF Spelling
<1>3. /\ "a" \in LowerChars /\ "l" \in LowerChars /\ "p" \in LowerChars /\ "h" \in LowerChars
      /\ "b" \in LowerChars /\ "e" \in LowerChars /\ "t" \in LowerChars /\ "r" \in LowerChars
      /\ "c" \in LowerChars
  BY DEF LowerChars
<1>4. /\ <<"a", "l", "p", "h", "a">> \in Seq(LowerChars)
      /\ <<"b", "e", "t", "a">> \in Seq(LowerChars)
      /\ <<"p", "r", "e">> \in Seq(LowerChars)
      /\ <<"r", "c">> \in Seq(LowerChars)
      /\ <<"p">> \in Seq(LowerChars)
  BY <1>3
<1>5. /\ Len(Spelling("alpha")) = 5 /\ Len(Spelling("beta")) = 4 /\ Len(Spelling("pre")) = 3
      /\ Len(Spelling("rc")) = 2 /\ Len(Spelling("p")) = 1
  BY <1>2
<1>6. Spelling(n) \in Seq(LowerChars)
  BY <1>1, <1>2, <1>4
<1>7. ASSUME NEW m \in SuffixNames, Spelling(m) = Spelling(n) PROVE m = n
  <2>1. PICK k : k = Len(Spelling(n))
    OBVIOUS
  <2>2. k = Len(Spelling(m))
    BY <1>7, <2>1
  <2>3. /\ n = "alpha" => k = 5
        /\ n = "beta" => k = 4
        /\ n = "pre" => k = 3
        /\ n = "rc" => k = 2
        /\ n = "p" => k = 1
    BY <1>5, <2>1, Zenon
  <2>4. /\ m = "alpha" => k = 5
        /\ m = "beta" => k = 4
        /\ m = "pre" => k = 3
        /\ m = "rc" => k = 2
        /\ m = "p" => k = 1
    BY <1>5, <2>2, Zenon
  <2> QED  BY <1>1, <1>7, <2>3, <2>4
<1> QED  BY <1>6, <1>7

-----------------------------------------------------------------------------
\* The text of a version, part by part: each part begins with a character that
\* the parts before it do not have.
Begins(t, S) == t = <<>> \/ t[1] \in S

LEMMA JoinBegins ==
    ASSUME NEW C, NEW S, NEW a \in Seq(C), NEW r \in Seq(C), Begins(a, S), Begins(r, S)
    PROVE  a \o r \in Seq(C) /\ Begins(a \o r, S)
<1>1. PICK t : t = a \o r
  OBVIOUS
<1>2. PICK m \in Nat, k \in Nat : m = Len(a) /\ k = Len(r)
  OBVIOUS
<1>3. t \in Seq(C) /\ Joins(t, a, r, m, k)
  BY <1>1, <1>2, JoinIs
<1>4. CASE m > 0
  <2>1. a # <<>> /\ 1 \in 1..(m + k) /\ 1 <= m
    BY <1>2, <1>4
  <2>2. t[1] = a[1]
    BY <1>3, <2>1 DEF Joins
  <2> QED  BY <1>1, <1>3, <2>1, <2>2 DEF Begins
<1>5. CASE m = 0 /\ k > 0
  <2>1. r # <<>> /\ 1 \in 1..(m + k) /\ ~ (1 <= m) /\ 1 - m = 1
    BY <1>2, <1>5
  <2>2. t[1] = r[1]
    BY <1>3, <2>1 DEF Joins
  <2> QED  BY <1>1, <1>3, <2>1, <2>2 DEF Begins
<1>6. CASE m = 0 /\ k = 0
  <2>1. Len(t) = 0
    BY <1>3, <1>6 DEF Joins
  <2>2. t = <<>>
    BY <1>3, <2>1
  <2> QED  BY <1>1, <1>3, <2>2 DEF Begins
<1> QED  BY <1>2, <1>4, <1>5, <1>6

LEMMA SplitPart ==
    ASSUME NEW C, NEW D \in SUBSET C, NEW S, S \cap D = {},
           NEW a \in Seq(D), NEW b \in Seq(D), NEW r \in Seq(C), NEW s \in Seq(C),
           Begins(r, S), Begins(s, S), Cut(a, r) = Cut(b, s)
    PROVE  a = b /\ r = s
<1>1. a \in Seq(C) /\ b \in Seq(C)
  BY SeqMonotonic
<1>2. Within(a, D) /\ Within(b, D)
  BY ElementOfSeq DEF Within
<1>3. Outside(r, D)
  BY DEF Begins, Outside
<1>4. Outside(s, D)
  BY DEF Begins, Outside
<1> QED  BY <1>1, <1>2, <1>3, <1>4, SplitByClass

MinorText(m) == Flatten(Marked(".", [i \in 1..Len(m) |-> Written(m[i])]))
LetterText(l) == IF l = 0 THEN <<>> ELSE <<Letters[l]>>
SuffixOne(s) == Spelling(s.type) \o Written(s.value)
SuffixText(f) == Flatten(Marked("_", [i \in 1..Len(f) |-> SuffixOne(f[i])]))
RevisionText(r) == IF r = <<>> THEN <<>> ELSE <<"-", "r">> \o Written(r)

LEMMA WrittenBodies ==
    ASSUME NEW m \in Seq(Numeral)
    PROVE  LET t == [i \in 1..Len(m) |-> Written(m[i])]
           IN /\ t \in Seq(Seq(DigitChars)) /\ Len(t) = Len(m)
              /\ \A i \in 1..Len(m) : t[i] = Written(m[i])
<1>1. PICK L \in Nat : L = Len(m)
  OBVIOUS
<1> DEFINE One(i) == Written(m[i])
<1>2. \A i \in 1..L : One(i) \in Seq(DigitChars)
  BY <1>1, ElementOfSeq, WrittenIs
<1>3. PICK t : t = [i \in 1..L |-> One(i)]
  OBVIOUS
<1>4. t \in [1..L -> Seq(DigitChars)] /\ \A i \in 1..L : t[i] = One(i)
  <2> HIDE DEF One
  <2> QED  BY <1>2, <1>3
<1>5. t \in Seq(Seq(DigitChars)) /\ Len(t) = L
  BY <1>4
<1> QED  BY <1>1, <1>3, <1>4, <1>5

LEMMA SuffixOneIs ==
    ASSUME NEW f \in Suffix
    PROVE  /\ SuffixOne(f) \in Seq(LowerChars \cup DigitChars)
           /\ \A s \in Suffix : SuffixOne(f) = SuffixOne(s) => f = s
<1> DEFINE C == LowerChars \cup DigitChars
<1>1. ASSUME NEW s \in Suffix
      PROVE  /\ s.type \in SuffixNames /\ s.value \in Numeral
             /\ Spelling(s.type) \in Seq(LowerChars)
             /\ Written(s.value) \in Seq(DigitChars)
             /\ Written(s.value) \in Seq(C) /\ Spelling(s.type) \in Seq(C)
             /\ Begins(Written(s.value), DigitChars)
  <2>1. s.type \in SuffixNames /\ s.value \in Numeral
    BY DEF Suffix
  <2>2. Spelling(s.type) \in Seq(LowerChars) /\ Written(s.value) \in Seq(DigitChars)
    BY <2>1, SpellingIs, WrittenIs
  <2>3. Written(s.value) \in Seq(C) /\ Spelling(s.type) \in Seq(C)
    BY <2>2, SeqMonotonic
  <2>4. Begins(Written(s.value), DigitChars)
    <3>1. PICK w \in Seq(DigitChars) : w = Written(s.value)
      BY <2>2
    <3>2. w = <<>> \/ w[1] \in DigitChars
      <4>1. w # <<>> => 1 \in 1..Len(w)
        BY EmptySeq
      <4> QED  BY <4>1, ElementOfSeq
    <3> QED  BY <3>1, <3>2 DEF Begins
  <2> QED  BY <2>1, <2>2, <2>3, <2>4
<1>2. SuffixOne(f) \in Seq(C)
  BY <1>1, ConcatProperties DEF SuffixOne
<1>3. ASSUME NEW s \in Suffix, SuffixOne(f) = SuffixOne(s) PROVE f = s
  <2>1. Cut(Spelling(f.type), Written(f.value)) = Cut(Spelling(s.type), Written(s.value))
    BY <1>3 DEF SuffixOne, Cut
  <2>2. DigitChars \cap LowerChars = {} /\ LowerChars \in SUBSET C
    BY CharsApart
  <2>3. Spelling(f.type) = Spelling(s.type) /\ Written(f.value) = Written(s.value)
    <3> HIDE DEF C
    <3> QED  BY <1>1, <2>1, <2>2, SplitPart
  <2>4. f.type = s.type
    BY <1>1, <2>3, SpellingIs
  <2>5. f.value = s.value
    BY <1>1, <2>3, WrittenTells
  <2> QED  BY <2>4, <2>5 DEF Suffix
<1> QED  BY <1>2, <1>3

MinorChars == DigitChars \cup {"."}
SuffixChars == LowerChars \cup DigitChars \cup {"_"}

LEMMA ClassesApart ==
    /\ DigitChars \in SUBSET Chars /\ MinorChars \in SUBSET Chars
    /\ LowerChars \in SUBSET Chars /\ SuffixChars \in SUBSET Chars
    /\ (LowerChars \cup {".", "_", "-"}) \cap DigitChars = {}
    /\ (LowerChars \cup {"_", "-"}) \cap MinorChars = {}
    /\ {"_", "-"} \cap LowerChars = {}
    /\ {"-"} \cap SuffixChars = {}
BY CharsApart DEF Chars, MinorChars, SuffixChars

LEMMA SuffixBodies ==
    ASSUME NEW f \in Seq(Suffix)
    PROVE  LET t == [i \in 1..Len(f) |-> SuffixOne(f[i])]
           IN /\ t \in Seq(Seq(LowerChars \cup DigitChars)) /\ Len(t) = Len(f)
              /\ \A i \in 1..Len(f) : t[i] = SuffixOne(f[i])
<1>1. PICK L \in Nat : L = Len(f)
  OBVIOUS
<1>2. PICK C : C = LowerChars \cup DigitChars
  OBVIOUS
<1> DEFINE One(i) == SuffixOne(f[i])
<1>3. \A i \in 1..L : One(i) \in Seq(C)
  BY <1>1, <1>2, ElementOfSeq, SuffixOneIs
<1>4. PICK t : t = [i \in 1..L |-> One(i)]
  OBVIOUS
<1>5. t \in [1..L -> Seq(C)] /\ \A i \in 1..L : t[i] = One(i)
  <2> HIDE DEF One
  <2> QED  BY <1>3, <1>4
<1>6. t \in Seq(Seq(C)) /\ Len(t) = L
  BY <1>5
<1> QED  BY <1>1, <1>2, <1>4, <1>5, <1>6

LEMMA MinorTextIs ==
    ASSUME NEW m \in Seq(Numeral)
    PROVE  /\ MinorText(m) \in Seq(MinorChars)
           /\ Begins(MinorText(m), {"."})
           /\ \A n \in Seq(Numeral) : MinorText(m) = MinorText(n) => m = n
<1> DEFINE BodiesOf(n) == [i \in 1..Len(n) |-> Written(n[i])]
<1>1. ASSUME NEW n \in Seq(Numeral)
      PROVE  /\ BodiesOf(n) \in Seq(Seq(DigitChars)) /\ BodiesOf(n) \in Seq(Seq(MinorChars))
             /\ Len(BodiesOf(n)) = Len(n)
             /\ \A i \in 1..Len(n) : BodiesOf(n)[i] = Written(n[i])
             /\ \A i \in 1..Len(n) : Without(BodiesOf(n)[i], ".")
  <2>1. /\ BodiesOf(n) \in Seq(Seq(DigitChars)) /\ Len(BodiesOf(n)) = Len(n)
        /\ \A i \in 1..Len(n) : BodiesOf(n)[i] = Written(n[i])
    BY WrittenBodies
  <2>2. Seq(DigitChars) \subseteq Seq(MinorChars)
    BY SeqMonotonic DEF MinorChars
  <2>3. BodiesOf(n) \in Seq(Seq(MinorChars))
    BY <2>1, <2>2, SeqMonotonic
  <2>4. ASSUME NEW i \in 1..Len(n) PROVE Without(BodiesOf(n)[i], ".")
    <3>1. PICK w \in Seq(DigitChars) : w = BodiesOf(n)[i]
      BY <2>1, ElementOfSeq
    <3>2. \A j \in 1..Len(w) : w[j] \in DigitChars
      BY ElementOfSeq
    <3>3. Without(w, ".")
      BY <3>2, CharsApart DEF Without
    <3> QED  BY <3>1, <3>3
  <2> QED  BY <2>1, <2>3, <2>4
<1>2. \A n : MinorText(n) = Flatten(Marked(".", BodiesOf(n)))
  BY DEF MinorText
<1>3. "." \in MinorChars
  BY DEF MinorChars
<1> HIDE DEF BodiesOf
<1>4. MinorText(m) \in Seq(MinorChars) /\ Begins(MinorText(m), {"."})
  <2>1. PICK t : t = Flatten(Marked(".", BodiesOf(m)))
    OBVIOUS
  <2>2. t \in Seq(MinorChars) /\ (t = <<>> \/ t[1] = ".")
    BY <1>1, <1>3, <2>1, FlattenBegins
  <2> QED  BY <1>2, <2>1, <2>2 DEF Begins
<1>5. ASSUME NEW n \in Seq(Numeral), MinorText(m) = MinorText(n) PROVE m = n
  <2>1. PICK fs \in Seq(Seq(MinorChars)) : fs = BodiesOf(m)
    BY <1>1
  <2>2. PICK gs \in Seq(Seq(MinorChars)) : gs = BodiesOf(n)
    BY <1>1
  <2>3. Flatten(Marked(".", fs)) = Flatten(Marked(".", gs))
    BY <1>2, <1>5, <2>1, <2>2
  <2>4. PICK L \in Nat, M \in Nat : L = Len(m) /\ M = Len(n)
    OBVIOUS
  <2>5. Len(fs) = L /\ Len(gs) = M
    BY <1>1, <2>1, <2>2, <2>4
  <2>6. /\ \A i \in 1..Len(fs) : Without(fs[i], ".")
        /\ \A i \in 1..Len(gs) : Without(gs[i], ".")
    BY <1>1, <2>1, <2>2, <2>4, <2>5
  <2>7. fs = gs
    BY <1>3, <2>3, <2>6, FlattenTells
  <2>8. L = M
    BY <2>5, <2>7
  <2>9. ASSUME NEW i \in 1..L PROVE m[i] = n[i]
    <3>1. Written(m[i]) = Written(n[i])
      BY <1>1, <2>1, <2>2, <2>4, <2>7, <2>8
    <3>2. m[i] \in Numeral /\ n[i] \in Numeral
      BY <2>4, <2>8, ElementOfSeq
    <3> QED  BY <3>1, <3>2, WrittenTells
  <2> QED  BY <2>4, <2>8, <2>9, SeqEqual
<1> QED  BY <1>4, <1>5

LEMMA SuffixTextIs ==
    ASSUME NEW f \in Seq(Suffix)
    PROVE  /\ SuffixText(f) \in Seq(SuffixChars)
           /\ Begins(SuffixText(f), {"_"})
           /\ \A s \in Seq(Suffix) : SuffixText(f) = SuffixText(s) => f = s
<1>0. PICK C : C = LowerChars \cup DigitChars
  OBVIOUS
<1> DEFINE BodiesOf(n) == [i \in 1..Len(n) |-> SuffixOne(n[i])]
<1>1. ASSUME NEW n \in Seq(Suffix)
      PROVE  /\ BodiesOf(n) \in Seq(Seq(C)) /\ BodiesOf(n) \in Seq(Seq(SuffixChars))
             /\ Len(BodiesOf(n)) = Len(n)
             /\ \A i \in 1..Len(n) : BodiesOf(n)[i] = SuffixOne(n[i])
             /\ \A i \in 1..Len(n) : Without(BodiesOf(n)[i], "_")
  <2>1. /\ BodiesOf(n) \in Seq(Seq(C)) /\ Len(BodiesOf(n)) = Len(n)
        /\ \A i \in 1..Len(n) : BodiesOf(n)[i] = SuffixOne(n[i])
    BY <1>0, SuffixBodies
  <2>2. Seq(C) \subseteq Seq(SuffixChars)
    BY <1>0, SeqMonotonic DEF SuffixChars
  <2>3. BodiesOf(n) \in Seq(Seq(SuffixChars))
    BY <2>1, <2>2, SeqMonotonic
  <2>4. ASSUME NEW i \in 1..Len(n) PROVE Without(BodiesOf(n)[i], "_")
    <3>1. PICK w \in Seq(C) : w = BodiesOf(n)[i]
      BY <2>1, ElementOfSeq
    <3>2. \A j \in 1..Len(w) : w[j] \in C
      BY ElementOfSeq
    <3>3. Without(w, "_")
      BY <1>0, <3>2, CharsApart DEF Without
    <3> QED  BY <3>1, <3>3
  <2> QED  BY <2>1, <2>3, <2>4
<1>2. \A n : SuffixText(n) = Flatten(Marked("_", BodiesOf(n)))
  BY DEF SuffixText
<1>3. "_" \in SuffixChars
  BY DEF SuffixChars
<1> HIDE DEF BodiesOf
<1>4. SuffixText(f) \in Seq(SuffixChars) /\ Begins(SuffixText(f), {"_"})
  <2>1. PICK t : t = Flatten(Marked("_", BodiesOf(f)))
    OBVIOUS
  <2>2. t \in Seq(SuffixChars) /\ (t = <<>> \/ t[1] = "_")
    BY <1>1, <1>3, <2>1, FlattenBegins
  <2> QED  BY <1>2, <2>1, <2>2 DEF Begins
<1>5. ASSUME NEW s \in Seq(Suffix), SuffixText(f) = SuffixText(s) PROVE f = s
  <2>1. PICK fs \in Seq(Seq(SuffixChars)) : fs = BodiesOf(f)
    BY <1>1
  <2>2. PICK gs \in Seq(Seq(SuffixChars)) : gs = BodiesOf(s)
    BY <1>1
  <2>3. Flatten(Marked("_", fs)) = Flatten(Marked("_", gs))
    BY <1>2, <1>5, <2>1, <2>2
  <2>4. PICK L \in Nat, M \in Nat : L = Len(f) /\ M = Len(s)
    OBVIOUS
  <2>5. Len(fs) = L /\ Len(gs) = M
    BY <1>1, <2>1, <2>2, <2>4
  <2>6. /\ \A i \in 1..Len(fs) : Without(fs[i], "_")
        /\ \A i \in 1..Len(gs) : Without(gs[i], "_")
    BY <1>1, <2>1, <2>2, <2>4, <2>5
  <2>7. fs = gs
    BY <1>3, <2>3, <2>6, FlattenTells
  <2>8. L = M
    BY <2>5, <2>7
  <2>9. ASSUME NEW i \in 1..L PROVE f[i] = s[i]
    <3>1. SuffixOne(f[i]) = SuffixOne(s[i])
      BY <1>1, <2>1, <2>2, <2>4, <2>7, <2>8
    <3>2. f[i] \in Suffix /\ s[i] \in Suffix
      BY <2>4, <2>8, ElementOfSeq
    <3> QED  BY <3>1, <3>2, SuffixOneIs
  <2> QED  BY <2>4, <2>8, <2>9, SeqEqual
<1> QED  BY <1>4, <1>5

LEMMA LetterTextIs ==
    ASSUME NEW l \in 0..26
    PROVE  /\ LetterText(l) \in Seq(LowerChars)
           /\ Begins(LetterText(l), LowerChars)
           /\ \A k \in 0..26 : LetterText(l) = LetterText(k) => l = k
<1>1. LetterText(0) = <<>>
  BY DEF LetterText
<1>2. ASSUME NEW k \in 0..26, k # 0
      PROVE  /\ LetterText(k) = <<Letters[k]>> /\ Letters[k] \in LowerChars
             /\ k \in 1..26
  BY <1>2, LettersAre DEF LetterText
<1>3. ASSUME NEW c \in LowerChars
      PROVE  <<c>> \in Seq(LowerChars) /\ <<c>> # <<>> /\ <<c>>[1] = c
  OBVIOUS
<1>4. LetterText(l) \in Seq(LowerChars) /\ Begins(LetterText(l), LowerChars)
  <2>1. CASE l = 0
    BY <1>1, <2>1, EmptySeq DEF Begins
  <2>2. CASE l # 0
    BY <1>2, <1>3, <2>2 DEF Begins
  <2> QED  BY <2>1, <2>2
<1>5. ASSUME NEW k \in 0..26, LetterText(l) = LetterText(k) PROVE l = k
  <2>1. CASE l # 0 /\ k # 0
    <3>1. PICK c \in LowerChars : c = Letters[l]
      BY <1>2, <2>1
    <3>2. PICK d \in LowerChars : d = Letters[k]
      BY <1>2, <2>1
    <3>3. <<c>> = <<d>>
      BY <1>2, <1>5, <2>1, <3>1, <3>2
    <3>4. c = d
      BY <3>3
    <3> QED  BY <1>2, <2>1, <3>1, <3>2, <3>4, LettersAre
  <2>2. CASE l = 0 /\ k # 0
    <3>1. LetterText(k) # <<>>
      BY <1>2, <1>3, <2>2
    <3> QED  BY <1>1, <1>5, <2>2, <3>1
  <2>3. CASE l # 0 /\ k = 0
    <3>1. LetterText(l) # <<>>
      BY <1>2, <1>3, <2>3
    <3> QED  BY <1>1, <1>5, <2>3, <3>1
  <2> QED  BY <2>1, <2>2, <2>3
<1> QED  BY <1>4, <1>5

LEMMA RevisionTextIs ==
    ASSUME NEW r \in Numeral
    PROVE  /\ RevisionText(r) \in Seq(Chars)
           /\ Begins(RevisionText(r), {"-"})
           /\ \A s \in Numeral : RevisionText(r) = RevisionText(s) => r = s
<1>1. PICK h \in Seq(Chars) : h = <<"-", "r">>
  <2>1. \A a, b \in Chars : <<a, b>> \in Seq(Chars)
    OBVIOUS
  <2>2. "-" \in Chars /\ "r" \in Chars
    BY DEF Chars, LowerChars
  <2> QED  BY <2>1, <2>2
<1>2. Len(h) = 2 /\ h[1] = "-"
  BY <1>1
<1>3. ASSUME NEW s \in Numeral
      PROVE  /\ Written(s) \in Seq(Chars)
             /\ s # <<>> => RevisionText(s) = h \o Written(s)
             /\ s = <<>> => RevisionText(s) = <<>>
  <2>1. Written(s) \in Seq(Chars)
    BY WrittenIs, SeqMonotonic DEF Chars
  <2> QED  BY <1>1, <2>1 DEF RevisionText
<1>4. ASSUME NEW w \in Seq(Chars)
      PROVE  h \o w \in Seq(Chars) /\ h \o w # <<>> /\ Begins(h \o w, {"-"})
  <2>1. PICK t : t = h \o w
    OBVIOUS
  <2>2. PICK n \in Nat : n = Len(w)
    OBVIOUS
  <2>3. t \in Seq(Chars) /\ Joins(t, h, w, 2, n)
    BY <1>2, <2>1, <2>2, JoinIs
  <2>4. Len(t) = 2 + n /\ t[1] = "-"
    BY <1>2, <2>3 DEF Joins
  <2>5. t # <<>>
    BY <2>2, <2>4
  <2> QED  BY <2>1, <2>3, <2>4, <2>5 DEF Begins
<1>5. RevisionText(r) \in Seq(Chars) /\ Begins(RevisionText(r), {"-"})
  <2>1. CASE r = <<>>
    BY <1>3, <2>1, EmptySeq DEF Begins
  <2>2. CASE r # <<>>
    BY <1>3, <1>4, <2>2
  <2> QED  BY <2>1, <2>2
<1>6. ASSUME NEW s \in Numeral, RevisionText(r) = RevisionText(s) PROVE r = s
  <2>1. CASE r # <<>> /\ s # <<>>
    <3>1. h \o Written(r) = h \o Written(s)
      BY <1>3, <1>6, <2>1
    <3>2. Written(r) \in Seq(Chars) /\ Written(s) \in Seq(Chars)
      BY <1>3
    <3>3. Written(r) = Written(s)
      <4>1. ASSUME NEW a \in Seq(Chars), NEW b \in Seq(Chars), h \o a = h \o b PROVE a = b
        <5>1. PICK t : t = h \o a
          OBVIOUS
        <5>2. PICK m \in Nat, n \in Nat : m = Len(a) /\ n = Len(b)
          OBVIOUS
        <5>3. Joins(t, h, a, 2, m)
          BY <1>2, <5>1, <5>2, JoinIs
        <5>4. Joins(t, h, b, 2, n)
          BY <1>2, <4>1, <5>1, <5>2, JoinIs
        <5>5. m = n
          BY <5>3, <5>4 DEF Joins
        <5>6. ASSUME NEW i \in 1..m PROVE a[i] = b[i]
          <6>1. 2 + i \in 1..(2 + m) /\ ~ (2 + i <= 2) /\ (2 + i) - 2 = i
            OBVIOUS
          <6> QED  BY <5>3, <5>4, <5>5, <6>1 DEF Joins
        <5> QED  BY <5>2, <5>5, <5>6, SeqEqual
      <4> QED  BY <3>1, <3>2, <4>1
    <3> QED  BY <3>3, WrittenTells
  <2>2. CASE r = <<>> /\ s # <<>>
    BY <1>3, <1>4, <1>6, <2>2
  <2>3. CASE r # <<>> /\ s = <<>>
    BY <1>3, <1>4, <1>6, <2>3
  <2>4. CASE r = <<>> /\ s = <<>>
    BY <2>4
  <2> QED  BY <2>1, <2>2, <2>3, <2>4
<1> QED  BY <1>5, <1>6

LEMMA FromTheLeft ==
    ASSUME NEW a \in Seq(Chars), NEW b \in Seq(Chars), NEW c \in Seq(Chars),
           NEW d \in Seq(Chars), NEW e \in Seq(Chars)
    PROVE  Cut(Cut(Cut(Cut(a, b), c), d), e) = Cut(a, Cut(b, Cut(c, Cut(d, e))))
<1>1. \A x, y, z \in Seq(Chars) : Cut(Cut(x, y), z) = Cut(x, Cut(y, z))
  <2>1. ASSUME NEW x \in Seq(Chars), NEW y \in Seq(Chars), NEW z \in Seq(Chars)
        PROVE  (x \o y) \o z = x \o (y \o z)
    BY SMTT(30)
  <2> QED  BY <2>1, Zenon DEF Cut
<1>2. \A x, y \in Seq(Chars) : Cut(x, y) \in Seq(Chars)
  BY ConcatProperties DEF Cut
<1>3. Cut(Cut(Cut(Cut(a, b), c), d), e) = Cut(Cut(Cut(a, b), c), Cut(d, e))
  <2>1. PICK g \in Seq(Chars) : g = Cut(Cut(a, b), c)
    BY <1>2
  <2> QED  BY <1>1, <2>1
<1>4. Cut(Cut(Cut(a, b), c), Cut(d, e)) = Cut(Cut(a, b), Cut(c, Cut(d, e)))
  BY <1>1, <1>2
<1>5. Cut(Cut(a, b), Cut(c, Cut(d, e))) = Cut(a, Cut(b, Cut(c, Cut(d, e))))
  BY <1>1, <1>2
<1> QED  BY <1>3, <1>4, <1>5

LEMMA MinorTextWritten ==
    ASSUME NEW m \in Seq(Numeral)
    PROVE  MinorText(m) = Flatten([i \in DOMAIN m |-> <<".">> \o Written(m[i])])
<1>1. PICK L \in Nat : L = Len(m) /\ DOMAIN m = 1..L
  OBVIOUS
<1>2. PICK t : t = [i \in 1..L |-> Written(m[i])]
  OBVIOUS
<1>3. Len(t) = L /\ \A i \in 1..L : t[i] = Written(m[i])
  BY <1>1, <1>2, WrittenBodies
<1>4. Marked(".", t) = [i \in DOMAIN m |-> <<".">> \o Written(m[i])]
  <2> DEFINE One(i) == <<".">> \o t[i]
             Two(i) == <<".">> \o Written(m[i])
  <2>1. \A i \in 1..L : One(i) = Two(i)
    BY <1>3
  <2>2. [i \in 1..L |-> One(i)] = [i \in 1..L |-> Two(i)]
    <3> HIDE DEF One, Two
    <3> QED  BY <2>1
  <2> QED  BY <1>1, <1>3, <2>2 DEF Marked
<1> QED  BY <1>1, <1>2, <1>4 DEF MinorText

LEMMA SuffixTextWritten ==
    ASSUME NEW f \in Seq(Suffix)
    PROVE  SuffixText(f) =
             Flatten([i \in DOMAIN f |-> <<"_">> \o Spelling(f[i].type) \o Written(f[i].value)])
<1>1. PICK L \in Nat : L = Len(f) /\ DOMAIN f = 1..L
  OBVIOUS
<1>2. PICK t : t = [i \in 1..L |-> SuffixOne(f[i])]
  OBVIOUS
<1>3. Len(t) = L /\ \A i \in 1..L : t[i] = SuffixOne(f[i])
  BY <1>1, <1>2, SuffixBodies
<1>4. Marked("_", t) =
        [i \in DOMAIN f |-> <<"_">> \o Spelling(f[i].type) \o Written(f[i].value)]
  <2> DEFINE One(i) == <<"_">> \o t[i]
             Two(i) == <<"_">> \o Spelling(f[i].type) \o Written(f[i].value)
  <2>1. ASSUME NEW i \in 1..L PROVE One(i) = Two(i)
    <3>1. PICK n \in SuffixNames, d \in Numeral : n = f[i].type /\ d = f[i].value
      <4>1. PICK x \in Suffix : x = f[i]
        BY <1>1, ElementOfSeq
      <4>2. x.type \in SuffixNames /\ x.value \in Numeral
        BY DEF Suffix
      <4> QED  BY <4>1, <4>2
    <3>2. PICK a \in Seq(SuffixChars) : a = Spelling(n)
      BY SpellingIs, SeqMonotonic DEF SuffixChars
    <3>3. PICK b \in Seq(SuffixChars) : b = Written(d)
      BY WrittenIs, SeqMonotonic DEF SuffixChars
    <3>4. PICK u \in Seq(SuffixChars) : u = <<"_">>
      <4>1. \A c \in SuffixChars : <<c>> \in Seq(SuffixChars)
        OBVIOUS
      <4> QED  BY <4>1 DEF SuffixChars
    <3>5. (u \o a) \o b = u \o (a \o b)
      BY ConcatAssociative
    <3>6. t[i] = a \o b
      BY <1>3, <3>1, <3>2, <3>3 DEF SuffixOne
    <3> QED  BY <3>1, <3>2, <3>3, <3>4, <3>5, <3>6
  <2>2. [i \in 1..L |-> One(i)] = [i \in 1..L |-> Two(i)]
    <3> HIDE DEF One, Two
    <3> QED  BY <2>1
  <2> QED  BY <1>1, <1>3, <2>2 DEF Marked
<1> QED  BY <1>1, <1>2, <1>4 DEF SuffixText

LEMMA VersionParts ==
    ASSUME NEW v \in Version
    PROVE  /\ v.major \in Numeral /\ v.revision \in Numeral /\ v.letter \in 0..26
           /\ v.minor \in Seq(Numeral) /\ v.suffixes \in Seq(Suffix)
           /\ v = [major |-> v.major, minor |-> v.minor, letter |-> v.letter,
                   suffixes |-> v.suffixes, revision |-> v.revision]
<1>1. v.minor \in Seq(Component) /\ v.suffixes \in Seq(Suffix)
  BY VersionType
<1>2. v.minor \in Seq(Numeral)
  BY <1>1, SeqMonotonic DEF Component
<1>3. v.major \in Numeral /\ v.revision \in Numeral /\ v.letter \in 0..26
  BY DEF Version
<1>4. v = [major |-> v.major, minor |-> v.minor, letter |-> v.letter,
           suffixes |-> v.suffixes, revision |-> v.revision]
  BY DEF Version
<1> QED  BY <1>1, <1>2, <1>3, <1>4

\* The text without its first parts.
FromRevision(v) == RevisionText(v.revision)
FromSuffixes(v) == SuffixText(v.suffixes) \o FromRevision(v)
FromLetter(v) == LetterText(v.letter) \o FromSuffixes(v)
FromMinor(v) == MinorText(v.minor) \o FromLetter(v)
FromMajor(v) == Written(v.major) \o FromMinor(v)

LEMMA TailsAre ==
    ASSUME NEW v \in Version
    PROVE  /\ FromRevision(v) \in Seq(Chars) /\ Begins(FromRevision(v), {"-"})
           /\ FromSuffixes(v) \in Seq(Chars) /\ Begins(FromSuffixes(v), {"_", "-"})
           /\ FromLetter(v) \in Seq(Chars) /\ Begins(FromLetter(v), LowerChars \cup {"_", "-"})
           /\ FromMinor(v) \in Seq(Chars) /\ Begins(FromMinor(v), LowerChars \cup {".", "_", "-"})
<1>1. FromRevision(v) \in Seq(Chars) /\ Begins(FromRevision(v), {"-"})
  BY VersionParts, RevisionTextIs DEF FromRevision
<1>2. FromSuffixes(v) \in Seq(Chars) /\ Begins(FromSuffixes(v), {"_", "-"})
  <2>1. PICK S : S = {"_", "-"}
    OBVIOUS
  <2>2. SuffixText(v.suffixes) \in Seq(Chars)
    BY VersionParts, SuffixTextIs, ClassesApart, SeqMonotonic
  <2>3. Begins(SuffixText(v.suffixes), S)
    BY <2>1, VersionParts, SuffixTextIs DEF Begins
  <2>4. Begins(FromRevision(v), S)
    BY <1>1, <2>1 DEF Begins
  <2> QED  BY <1>1, <2>1, <2>2, <2>3, <2>4, JoinBegins DEF FromSuffixes
<1>3. FromLetter(v) \in Seq(Chars) /\ Begins(FromLetter(v), LowerChars \cup {"_", "-"})
  <2>1. PICK S : S = LowerChars \cup {"_", "-"}
    OBVIOUS
  <2>2. LetterText(v.letter) \in Seq(Chars)
    BY VersionParts, LetterTextIs, ClassesApart, SeqMonotonic
  <2>3. Begins(LetterText(v.letter), S)
    BY <2>1, VersionParts, LetterTextIs DEF Begins
  <2>4. Begins(FromSuffixes(v), S)
    BY <1>2, <2>1 DEF Begins
  <2> QED  BY <1>2, <2>1, <2>2, <2>3, <2>4, JoinBegins DEF FromLetter
<1>4. FromMinor(v) \in Seq(Chars) /\ Begins(FromMinor(v), LowerChars \cup {".", "_", "-"})
  <2>1. PICK S : S = LowerChars \cup {".", "_", "-"}
    OBVIOUS
  <2>2. MinorText(v.minor) \in Seq(Chars)
    BY VersionParts, MinorTextIs, ClassesApart, SeqMonotonic
  <2>3. Begins(MinorText(v.minor), S)
    BY <2>1, VersionParts, MinorTextIs DEF Begins
  <2>4. Begins(FromLetter(v), S)
    BY <1>3, <2>1 DEF Begins
  <2> QED  BY <1>3, <2>1, <2>2, <2>3, <2>4, JoinBegins DEF FromMinor
<1> QED  BY <1>1, <1>2, <1>3, <1>4

LEMMA StrIs ==
    ASSUME NEW v \in Version
    PROVE  Str(v) = FromMajor(v) /\ Str(v) \in Seq(Chars)
<1>1. PICK a \in Seq(Chars) : a = Written(v.major)
  BY VersionParts, WrittenIs, ClassesApart, SeqMonotonic
<1>2. PICK b \in Seq(Chars) : b = MinorText(v.minor)
  BY VersionParts, MinorTextIs, ClassesApart, SeqMonotonic
<1>3. PICK c \in Seq(Chars) : c = LetterText(v.letter)
  BY VersionParts, LetterTextIs, ClassesApart, SeqMonotonic
<1>4. PICK d \in Seq(Chars) : d = SuffixText(v.suffixes)
  BY VersionParts, SuffixTextIs, ClassesApart, SeqMonotonic
<1>5. PICK e \in Seq(Chars) : e = RevisionText(v.revision)
  BY VersionParts, RevisionTextIs
<1>6. Str(v) = Cut(Cut(Cut(Cut(a, b), c), d), e)
  BY <1>1, <1>2, <1>3, <1>4, <1>5, VersionParts, MinorTextWritten, SuffixTextWritten, Zenon
     DEF Str, LetterText, RevisionText, Cut
<1>7. FromMajor(v) = Cut(a, Cut(b, Cut(c, Cut(d, e))))
  BY <1>1, <1>2, <1>3, <1>4, <1>5, Zenon
     DEF FromMajor, FromMinor, FromLetter, FromSuffixes, FromRevision, Cut
<1>8. FromMajor(v) \in Seq(Chars)
  BY <1>1, TailsAre, ConcatProperties DEF FromMajor
<1>9. Cut(Cut(Cut(Cut(a, b), c), d), e) = Cut(a, Cut(b, Cut(c, Cut(d, e))))
  BY FromTheLeft
<1> QED  BY <1>6, <1>7, <1>8, <1>9, Zenon

\* The texts of two versions tell them apart: each part ends where a character
\* comes that it cannot hold.
LEMMA StrTells ==
    ASSUME NEW v \in Version, NEW w \in Version, Str(v) = Str(w)
    PROVE  v = w
<1>1. v.major = w.major /\ FromMinor(v) = FromMinor(w)
  <2>1. Cut(Written(v.major), FromMinor(v)) = Cut(Written(w.major), FromMinor(w))
    BY StrIs DEF FromMajor, Cut
  <2>2. Written(v.major) \in Seq(DigitChars) /\ Written(w.major) \in Seq(DigitChars)
    BY VersionParts, WrittenIs
  <2>3. PICK T : T = LowerChars \cup {".", "_", "-"}
    OBVIOUS
  <2>4. T \cap DigitChars = {} /\ DigitChars \in SUBSET Chars
    BY <2>3, ClassesApart
  <2>5. /\ FromMinor(v) \in Seq(Chars) /\ Begins(FromMinor(v), T)
        /\ FromMinor(w) \in Seq(Chars) /\ Begins(FromMinor(w), T)
    BY <2>3, TailsAre
  <2>6. Written(v.major) = Written(w.major) /\ FromMinor(v) = FromMinor(w)
    BY <2>1, <2>2, <2>4, <2>5, SplitPart
  <2> QED  BY <2>6, VersionParts, WrittenTells
<1>2. v.minor = w.minor /\ FromLetter(v) = FromLetter(w)
  <2>1. Cut(MinorText(v.minor), FromLetter(v)) = Cut(MinorText(w.minor), FromLetter(w))
    BY <1>1 DEF FromMinor, Cut
  <2>2. MinorText(v.minor) \in Seq(MinorChars) /\ MinorText(w.minor) \in Seq(MinorChars)
    BY VersionParts, MinorTextIs
  <2>3. PICK T : T = LowerChars \cup {"_", "-"}
    OBVIOUS
  <2>4. T \cap MinorChars = {} /\ MinorChars \in SUBSET Chars
    BY <2>3, ClassesApart
  <2>5. /\ FromLetter(v) \in Seq(Chars) /\ Begins(FromLetter(v), T)
        /\ FromLetter(w) \in Seq(Chars) /\ Begins(FromLetter(w), T)
    BY <2>3, TailsAre
  <2>6. MinorText(v.minor) = MinorText(w.minor) /\ FromLetter(v) = FromLetter(w)
    BY <2>1, <2>2, <2>4, <2>5, SplitPart
  <2> QED  BY <2>6, VersionParts, MinorTextIs
<1>3. v.letter = w.letter /\ FromSuffixes(v) = FromSuffixes(w)
  <2>1. Cut(LetterText(v.letter), FromSuffixes(v)) = Cut(LetterText(w.letter), FromSuffixes(w))
    BY <1>2 DEF FromLetter, Cut
  <2>2. LetterText(v.letter) \in Seq(LowerChars) /\ LetterText(w.letter) \in Seq(LowerChars)
    BY VersionParts, LetterTextIs
  <2>3. PICK T : T = {"_", "-"}
    OBVIOUS
  <2>4. T \cap LowerChars = {} /\ LowerChars \in SUBSET Chars
    BY <2>3, ClassesApart
  <2>5. /\ FromSuffixes(v) \in Seq(Chars) /\ Begins(FromSuffixes(v), T)
        /\ FromSuffixes(w) \in Seq(Chars) /\ Begins(FromSuffixes(w), T)
    BY <2>3, TailsAre
  <2>6. LetterText(v.letter) = LetterText(w.letter) /\ FromSuffixes(v) = FromSuffixes(w)
    BY <2>1, <2>2, <2>4, <2>5, SplitPart
  <2> QED  BY <2>6, VersionParts, LetterTextIs
<1>4. v.suffixes = w.suffixes /\ FromRevision(v) = FromRevision(w)
  <2>1. Cut(SuffixText(v.suffixes), FromRevision(v)) = Cut(SuffixText(w.suffixes), FromRevision(w))
    BY <1>3 DEF FromSuffixes, Cut
  <2>2. SuffixText(v.suffixes) \in Seq(SuffixChars) /\ SuffixText(w.suffixes) \in Seq(SuffixChars)
    BY VersionParts, SuffixTextIs
  <2>3. PICK T : T = {"-"}
    OBVIOUS
  <2>4. T \cap SuffixChars = {} /\ SuffixChars \in SUBSET Chars
    BY <2>3, ClassesApart
  <2>5. /\ FromRevision(v) \in Seq(Chars) /\ Begins(FromRevision(v), T)
        /\ FromRevision(w) \in Seq(Chars) /\ Begins(FromRevision(w), T)
    BY <2>3, TailsAre
  <2>6. SuffixText(v.suffixes) = SuffixText(w.suffixes) /\ FromRevision(v) = FromRevision(w)
    BY <2>1, <2>2, <2>4, <2>5, SplitPart
  <2> QED  BY <2>6, VersionParts, SuffixTextIs
<1>5. v.revision = w.revision
  BY <1>4, VersionParts, RevisionTextIs DEF FromRevision
<1> QED  BY <1>1, <1>2, <1>3, <1>4, <1>5, VersionParts

LEMMA GlobsTell ==
    ASSUME NEW v \in Version, NEW w \in Version, GlobMatch(v, w), GlobMatch(w, v)
    PROVE  v = w
<1>1. PICK s \in Seq(Chars) : s = Str(v)
  BY StrIs
<1>2. PICK t \in Seq(Chars) : t = Str(w)
  BY StrIs
<1>3. Len(s) = Len(t) /\ SubSeq(t, 1, Len(s)) = s
  <2>1. Len(s) <= Len(t) /\ Len(t) <= Len(s) /\ SubSeq(t, 1, Len(s)) = s
    BY <1>1, <1>2 DEF GlobMatch
  <2> QED  BY <2>1
<1>4. SubSeq(t, 1, Len(t)) = t
  OBVIOUS
<1> QED  BY <1>1, <1>2, <1>3, <1>4, StrTells

\* A version without its revision.
Bare(x) == [x EXCEPT !.revision = <<>>]

LEMMA BareIs ==
    ASSUME NEW v \in Version
    PROVE  /\ Bare(v) \in Version
           /\ Bare(v).major = v.major /\ Bare(v).minor = v.minor /\ Bare(v).letter = v.letter
           /\ Bare(v).suffixes = v.suffixes /\ Bare(v).revision = <<>>
<1>1. <<>> \in Numeral
  BY DEF Numeral
<1> QED  BY <1>1 DEF Bare, Version

LEMMA BareCmp ==
    ASSUME NEW v \in Version, NEW w \in Version
    PROVE  Cmp(Bare(v), Bare(w)) = Upto(v, w)
<1>1. PICK x \in Version, y \in Version : x = Bare(v) /\ y = Bare(w)
  BY BareIs
<1>2. /\ x.major = v.major /\ x.minor = v.minor /\ x.letter = v.letter
      /\ x.suffixes = v.suffixes /\ x.revision = <<>>
      /\ y.major = w.major /\ y.minor = w.minor /\ y.letter = w.letter
      /\ y.suffixes = w.suffixes /\ y.revision = <<>>
  BY <1>1, BareIs
<1>3. PICK no \in BOOLEAN : no = FALSE
  OBVIOUS
<1>4. Parts(x, y, no) = Parts(v, w, no)
  <2>1. RevisionCmp(x.revision, y.revision, no) = 0 /\ RevisionCmp(v.revision, w.revision, no) = 0
    BY <1>3 DEF RevisionCmp
  <2> QED  BY <1>2, <2>1, Zenon DEF Parts
<1>5. PartRow(x, y, no) = PartRow(v, w, no)
  BY <1>4, Zenon DEF PartRow
<1>6. Upto(x, y) = Upto(v, w)
  <2>1. CmpInternal(x, y, no) = CmpInternal(v, w, no)
    BY <1>5, CmpInternalLeads
  <2> QED  BY <1>3, <2>1, Zenon DEF Upto
<1>7. NumCmp(x.revision, y.revision) = 0
  <2>1. x.revision \in Numeral /\ x.revision = y.revision
    BY <1>2, VersionType
  <2> QED  BY <2>1, NumCmpOrders
<1>8. Cmp(x, y) = Upto(x, y)
  <2>1. CASE Upto(x, y) = 0
    BY <1>7, <2>1, CmpSplits
  <2>2. CASE Upto(x, y) # 0
    BY <2>2, CmpSplits
  <2> QED  BY <2>1, <2>2
<1> QED  BY <1>1, <1>6, <1>8

LEMMA SameIs ==
    ASSUME NEW v \in Version, NEW w \in Version
    PROVE  Cmp(v, w) = 0 <=> ~ Older(v, w) /\ ~ Older(w, v)
BY CmpIs

LEMMA TildeIs ==
    ASSUME NEW v \in Version, NEW w \in Version
    PROVE  TildeMatch(v, w) <=>
             /\ ~ Older(Bare(v), Bare(w)) /\ ~ Older(Bare(w), Bare(v))
             /\ ~ Older(w, v)
<1>1. TildeMatch(v, w) <=> Upto(v, w) = 0 /\ NumCmp(v.revision, w.revision) <= 0
  BY DEF TildeMatch, Upto
<1>2. Upto(v, w) = 0 <=> ~ Older(Bare(v), Bare(w)) /\ ~ Older(Bare(w), Bare(v))
  <2>1. PICK x \in Version, y \in Version : x = Bare(v) /\ y = Bare(w)
    BY BareIs
  <2>2. Cmp(x, y) = Upto(v, w)
    BY <2>1, BareCmp
  <2> QED  BY <2>1, <2>2, SameIs
<1>3. Upto(v, w) = 0 => (NumCmp(v.revision, w.revision) <= 0 <=> ~ Older(w, v))
  <2>1. Upto(v, w) = 0 => Cmp(v, w) = NumCmp(v.revision, w.revision)
    BY CmpSplits
  <2> QED  BY <2>1, CmpIs
<1> QED  BY <1>1, <1>2, <1>3

\* ~ stops at the revisions of the same version, and globs that match each other
\* are for the same version (atom_parser.y:642-656).
THEOREM TildeAndGlobDecide == Spec => []TildeAndGlob
<1> USE TextsAssumption
<1>1. ListInv => TildeAndGlob
  <2>1. ASSUME ListInv, NEW p \in Pairs
        PROVE  /\ TildeMatch(p[1], p[2]) <=>
                    /\ ~ Older(Bare(p[1]), Bare(p[2])) /\ ~ Older(Bare(p[2]), Bare(p[1]))
                    /\ ~ Older(p[2], p[1])
               /\ GlobMatch(p[1], p[2]) /\ GlobMatch(p[2], p[1]) =>
                    ~ Older(p[1], p[2]) /\ ~ Older(p[2], p[1])
    <3>1. list \in Seq(Texts)
      BY <2>1 DEF ListInv
    <3>2. PICK i \in DOMAIN list, j \in DOMAIN list : p = <<list[i], list[j]>>
      BY <2>1 DEF Pairs
    <3>3. PICK v \in Version, w \in Version : v = p[1] /\ w = p[2]
      BY <3>1, <3>2
    <3>4. ASSUME GlobMatch(v, w), GlobMatch(w, v) PROVE ~ Older(v, w) /\ ~ Older(w, v)
      <4>1. v = w
        BY <3>4, GlobsTell
      <4>2. PICK c \in Signs : c = Cmp(v, v) /\ c = 0 - c
        BY CmpOrders
      <4>3. Cmp(v, v) = 0
        BY <4>2 DEF Signs
      <4> QED  BY <4>1, <4>3, SameIs
    <3> QED  BY <3>3, <3>4, TildeIs
  <2> QED  BY <2>1 DEF TildeAndGlob, Bare
<1> QED  BY <1>1, ListInductive, PTL
=============================================================================
