--------------------------- MODULE VartreeProofs ---------------------------
(***************************************************************************)
(* Proofs about Vartree, for every disk, package manager and query.        *)
(***************************************************************************)
EXTENDS Vartree, TLAPS, FiniteSetTheorems, SequenceTheorems

DiskOK == disk \in [Categories -> {Absent, PlainFile} \cup Directories]

\* What has been read of the directory that is open, and what stayed in it.
ScanInv ==
    Scanning =>
        /\ scan \in [cat: Categories, done: SUBSET Entries, found: Tables,
                     opened: SUBSET Entries, always: SUBSET PV, ever: SUBSET PV]
        /\ Packages(scan.found) = scan.done \cap PV
        /\ scan.always \subseteq scan.opened \cap Whole(scan.cat)
        /\ scan.done \cap PV \subseteq scan.ever
        /\ Whole(scan.cat) \subseteq scan.ever

CacheOK ==
    /\ \A c \in DOMAIN cache : cache[c] # Unread => c \in DOMAIN seenBy
    /\ CacheIsARead

CacheInv ==
    /\ DiskOK
    /\ at \in {"new", "init", "initScan", "idle", "queryScan", "failed"}
    /\ ScanInv
    /\ CacheOK

\* What stands where after v has been inserted behind the first n.
LEMMA InsertedAt ==
    ASSUME NEW list \in Seq(Versions), NEW v \in Versions, NEW n \in 0..Len(list)
    PROVE  /\ InsertAt(list, n + 1, v) \in Seq(Versions)
           /\ Len(InsertAt(list, n + 1, v)) = Len(list) + 1
           /\ \A i \in 1..n : InsertAt(list, n + 1, v)[i] = list[i]
           /\ InsertAt(list, n + 1, v)[n + 1] = v
           /\ \A i \in n + 2..Len(list) + 1 : InsertAt(list, n + 1, v)[i] = list[i - 1]
<1> DEFINE a == SubSeq(list, 1, n)
           b == SubSeq(list, n + 1, Len(list))
           c == a \o <<v>>
           r == c \o b
<1>2. /\ a \in Seq(Versions) /\ Len(a) = n /\ \A i \in 1..n : a[i] = list[i]
  OBVIOUS
<1>3. /\ b \in Seq(Versions) /\ Len(b) = Len(list) - n
      /\ \A i \in 1..Len(list) - n : b[i] = list[n + i]
  OBVIOUS
<1> HIDE DEF a, b
<1>4. /\ c \in Seq(Versions) /\ Len(c) = n + 1
      /\ \A i \in 1..n : c[i] = list[i]
      /\ c[n + 1] = v
  BY <1>2
<1> HIDE DEF c
<1>5. /\ r \in Seq(Versions) /\ Len(r) = Len(list) + 1
      /\ \A i \in 1..n + 1 : r[i] = c[i]
      /\ \A i \in n + 2..Len(list) + 1 : r[i] = b[i - (n + 1)]
  <2>1. Len(r) = Len(c) + Len(b) /\ r \in Seq(Versions)
    BY <1>3, <1>4, ConcatProperties
  <2>2. \A i \in 1..Len(c) + Len(b) : r[i] = IF i <= Len(c) THEN c[i] ELSE b[i - Len(c)]
    BY <1>3, <1>4, ConcatProperties
  <2>3. Len(list) \in Nat /\ n \in Nat /\ n <= Len(list)
    OBVIOUS
  <2> QED  BY <1>3, <1>4, <2>1, <2>2, <2>3
<1> HIDE DEF r
<1>6. /\ r \in Seq(Versions) /\ Len(r) = Len(list) + 1
      /\ \A i \in 1..n : r[i] = list[i]
      /\ r[n + 1] = v
      /\ \A i \in n + 2..Len(list) + 1 : r[i] = list[i - 1]
  <2>1. \A i \in n + 2..Len(list) + 1 : i - (n + 1) \in 1..Len(list) - n /\ n + (i - (n + 1)) = i - 1
    OBVIOUS
  <2>2. \A i \in n + 2..Len(list) + 1 : r[i] = list[i - 1]
    <3> TAKE i \in n + 2..Len(list) + 1
    <3>1. r[i] = b[i - (n + 1)]
      BY <1>5
    <3>2. b[i - (n + 1)] = list[n + (i - (n + 1))]
      BY <1>3, <2>1
    <3> QED  BY <2>1, <3>1, <3>2
  <2>3. Len(list) \in Nat /\ n \in Nat
    OBVIOUS
  <2>4. n + 1 \in 1..n + 1 /\ \A i \in 1..n : i \in 1..n + 1
    BY <2>3
  <2> QED  BY <1>4, <1>5, <2>2, <2>4
<1>7. InsertAt(list, n + 1, v) = r
  <2>1. (n + 1) - 1 = n
    OBVIOUS
  <2>2. SubSeq(list, 1, (n + 1) - 1) = a
    BY <2>1 DEF a
  <2>3. InsertAt(list, n + 1, v) = SubSeq(list, 1, (n + 1) - 1) \o <<v>> \o SubSeq(list, n + 1, Len(list))
    BY DEF InsertAt
  <2> QED  BY <2>2, <2>3 DEF r, c, b
<1> QED  BY <1>6, <1>7

\* Inserting puts the version into the list and takes none out.
LEMMA InsertRange ==
    ASSUME NEW list \in Seq(Versions), NEW v \in Versions
    PROVE  /\ InsertSorted(list, v) \in Seq(Versions)
           /\ {InsertSorted(list, v)[i] : i \in DOMAIN InsertSorted(list, v)} =
                {list[i] : i \in DOMAIN list} \cup {v}
<1> DEFINE smaller == {i \in DOMAIN list : list[i] < v}
           n == Cardinality(smaller)
<1>1. n \in 0..Len(list)
  <2>1. IsFiniteSet(1..Len(list)) /\ Cardinality(1..Len(list)) = Len(list)
    <3>1. Len(list) \in Nat
      OBVIOUS
    <3> QED  BY <3>1, FS_Interval
  <2>2. smaller \in SUBSET (1..Len(list))
    OBVIOUS
  <2>3. IsFiniteSet(smaller) /\ n <= Len(list)
    BY <2>1, <2>2, FS_Subset
  <2> QED  BY <2>3, FS_CardinalityType
<1> DEFINE r == InsertAt(list, n + 1, v)
<1> HIDE DEF r, n
<1>6. /\ r \in Seq(Versions) /\ Len(r) = Len(list) + 1
      /\ \A i \in 1..n : r[i] = list[i]
      /\ r[n + 1] = v
      /\ \A i \in n + 2..Len(list) + 1 : r[i] = list[i - 1]
  BY <1>1, InsertedAt DEF r
<1>7. {r[i] : i \in DOMAIN r} = {list[i] : i \in DOMAIN list} \cup {v}
  <2>1. \A i \in DOMAIN list : \E j \in DOMAIN r : r[j] = list[i]
    <3> TAKE i \in DOMAIN list
    <3>1. CASE i <= n
      BY <1>1, <1>6, <3>1
    <3>2. CASE i > n
      <4>1. i + 1 \in n + 2..Len(list) + 1 /\ i + 1 \in DOMAIN r
        BY <1>1, <1>6, <3>2
      <4> QED  BY <1>6, <4>1
    <3> QED  BY <1>1, <3>1, <3>2
  <2>2. n + 1 \in DOMAIN r
    BY <1>1, <1>6
  <2>3. \A j \in DOMAIN r : r[j] = v \/ \E i \in DOMAIN list : r[j] = list[i]
    <3> TAKE j \in DOMAIN r
    <3>1. CASE j <= n
      BY <1>1, <1>6, <3>1
    <3>2. CASE j = n + 1
      BY <1>6, <3>2
    <3>3. CASE j > n + 1
      <4>1. j - 1 \in DOMAIN list /\ j \in n + 2..Len(list) + 1
        BY <1>1, <1>6, <3>3
      <4> QED  BY <1>6, <4>1
    <3> QED  BY <1>1, <1>6, <3>1, <3>2, <3>3
  <2> QED  BY <1>6, <2>1, <2>2, <2>3
<1> QED  BY <1>6, <1>7 DEF InsertSorted, r, n

\* The table has what it had and the package.
LEMMA InsertPackageAdds ==
    ASSUME NEW found \in Tables, NEW p \in PV
    PROVE  /\ InsertPackage(found, p) \in Tables
           /\ Packages(InsertPackage(found, p)) = Packages(found) \cup {p}
<1> DEFINE old == IF p.name \in DOMAIN found THEN found[p.name] ELSE <<>>
           new == InsertSorted(old, p.ver)
           table == InsertPackage(found, p)
<1>1. /\ p.name \in Names /\ p.ver \in Versions /\ p = [name |-> p.name, ver |-> p.ver]
  BY DEF PV
<1>2. PICK S \in SUBSET Names : found \in [S -> Seq(Versions)]
  BY DEF Tables
<1>3. old \in Seq(Versions)
  BY <1>2
<1> HIDE DEF old
<1>4. /\ new \in Seq(Versions)
      /\ {new[i] : i \in DOMAIN new} = {old[i] : i \in DOMAIN old} \cup {p.ver}
  BY <1>1, <1>3, InsertRange
<1>5. table = Bind(found, p.name, new)
  BY DEF InsertPackage, old
<1> HIDE DEF new, table
<1>6. /\ DOMAIN table = S \cup {p.name} /\ table[p.name] = new
      /\ \A n \in S : n # p.name => table[n] = found[n]
      /\ table \in [S \cup {p.name} -> Seq(Versions)]
  BY <1>2, <1>4, <1>5 DEF Bind
<1>7. table \in Tables
  <2>1. S \cup {p.name} \in SUBSET Names
    BY <1>1
  <2> QED  BY <1>6, <2>1 DEF Tables
<1>8. Packages(table) = Packages(found) \cup {p}
  <2>1. ASSUME NEW x
        PROVE  x \in Packages(table) <=> x \in Packages(found) \/ x = p
    <3>1. x \in Packages(table) <=>
            \E n \in S \cup {p.name} : \E i \in DOMAIN table[n] : x = [name |-> n, ver |-> table[n][i]]
      BY <1>6 DEF Packages
    <3>2. x \in Packages(found) <=>
            \E n \in S : \E i \in DOMAIN found[n] : x = [name |-> n, ver |-> found[n][i]]
      BY <1>2 DEF Packages
    <3>3. (\E i \in DOMAIN new : x = [name |-> p.name, ver |-> new[i]]) <=>
            \/ \E i \in DOMAIN old : x = [name |-> p.name, ver |-> old[i]]
            \/ x = [name |-> p.name, ver |-> p.ver]
      BY <1>4
    <3>4. (\E i \in DOMAIN old : x = [name |-> p.name, ver |-> old[i]]) <=>
            p.name \in S /\ \E i \in DOMAIN found[p.name] : x = [name |-> p.name, ver |-> found[p.name][i]]
      BY <1>2 DEF old
    <3> QED  BY <1>1, <1>6, <3>1, <3>2, <3>3, <3>4
  <2> QED  BY <2>1
<1> QED  BY <1>7, <1>8 DEF table

-----------------------------------------------------------------------------
LEMMA CacheInit == Init => CacheInv
<1> SUFFICES ASSUME Init PROVE CacheInv
  OBVIOUS
<1>1. at = "new" /\ cache = <<>> /\ todo = {} /\ disk \in Disks
  BY DEF Init
<1>2. DiskOK
  BY <1>1, DisksAssumption DEF DiskOK
<1>3. ScanInv /\ CacheOK
  BY <1>1 DEF ScanInv, Scanning, CacheOK, CacheIsARead
<1> QED  BY <1>1, <1>2, <1>3 DEF CacheInv

\* What is on the disk and in the scan decides the scan's part.
LEMMA Kept ==
    ASSUME CacheInv, UNCHANGED <<disk, cache, seenBy>>,
           \/ at' \notin {"initScan", "queryScan"}
           \/ Scanning /\ UNCHANGED scan,
           at' \in {"new", "init", "initScan", "idle", "queryScan", "failed"}
    PROVE  CacheInv'
<1>1. DiskOK' /\ CacheOK'
  BY DEF CacheInv, DiskOK, CacheOK, CacheIsARead, Packages
<1>2. \A c : Whole(c)' = Whole(c)
  BY DEF Whole, Condition, IsDir
<1>3. ScanInv'
  BY <1>2 DEF CacheInv, ScanInv, Scanning, Packages
<1> QED  BY <1>1, <1>3 DEF CacheInv

\* A directory is opened: nothing has been read of it yet.
LEMMA Opened ==
    ASSUME CacheInv, NEW c \in Categories, ~NotScannable(c), OpenDir(c),
           UNCHANGED <<disk, cache, seenBy>>,
           at' \in {"initScan", "queryScan"}
    PROVE  CacheInv'
<1>1. DiskOK' /\ CacheOK'
  BY DEF CacheInv, DiskOK, CacheOK, CacheIsARead, Packages
<1>2. IsDir(c) /\ disk[c] \in Directories
  BY DEF NotScannable, IsDir, CacheInv, DiskOK
<1>3. DOMAIN disk[c] \subseteq Entries
  BY <1>2 DEF Directories
<1>4. Whole(c) \subseteq PV /\ Whole(c) \subseteq DOMAIN disk[c] /\ Whole(c)' = Whole(c)
  BY DEF Whole, Condition, IsDir
<1>5. PICK empty : empty = [n \in {} |-> <<>>]
  OBVIOUS
<1>6. empty \in Tables /\ Packages(empty) = {}
  <2>1. empty \in [{} -> Seq(Versions)] /\ DOMAIN empty = {}
    BY <1>5
  <2>2. empty \in Tables
    BY <2>1 DEF Tables
  <2>3. Packages(empty) = {}
    BY <2>1 DEF Packages
  <2> QED  BY <2>2, <2>3
<1>7. scan' = [cat |-> c, done |-> {}, found |-> empty, opened |-> DOMAIN disk[c],
               always |-> Whole(c), ever |-> Whole(c)]
  BY <1>5 DEF OpenDir
<1>8. ScanInv'
  <2>1. scan' \in [cat: Categories, done: SUBSET Entries, found: Tables,
                   opened: SUBSET Entries, always: SUBSET PV, ever: SUBSET PV]
    BY <1>3, <1>4, <1>6, <1>7
  <2>2. /\ scan'.cat = c /\ scan'.done = {} /\ scan'.found = empty
        /\ scan'.opened = DOMAIN disk[c] /\ scan'.always = Whole(c) /\ scan'.ever = Whole(c)
    BY <1>7
  <2>3. Packages(scan.found)' = {}
    BY <1>6, <2>2 DEF Packages
  <2> QED  BY <1>4, <2>1, <2>2, <2>3 DEF ScanInv
<1> QED  BY <1>1, <1>8 DEF CacheInv

LEMMA CacheNew == CacheInv /\ New => CacheInv'
<1> SUFFICES ASSUME CacheInv, New PROVE CacheInv'
  OBVIOUS
<1>1. \A c \in DOMAIN cache' : cache'[c] = Unread
  BY DEF New
<1>2. DiskOK' /\ CacheOK' /\ at' = "init"
  BY <1>1 DEF CacheInv, DiskOK, CacheOK, CacheIsARead, New
<1> QED  BY <1>2 DEF CacheInv, ScanInv, Scanning

LEMMA CacheNewFails == CacheInv /\ NewFails => CacheInv'
<1> SUFFICES ASSUME CacheInv, NewFails PROVE CacheInv'
  OBVIOUS
<1>1. at' = "failed" /\ UNCHANGED <<disk, cache, seenBy>>
  BY DEF NewFails
<1> QED  BY <1>1, Kept

LEMMA CachePopulate ==
    ASSUME CacheInv, NEW c \in Categories, PopulateNext(c)
    PROVE  CacheInv'
<1>1. CASE NotScannable(c)
  <2>1. /\ at' = "init" /\ cache' = Bind(cache, c, Unread) /\ UNCHANGED <<disk, seenBy>>
    BY <1>1 DEF PopulateNext
  <2>2. \A x \in DOMAIN cache' : cache'[x] # Unread => x \in DOMAIN cache /\ cache'[x] = cache[x]
    BY <2>1 DEF Bind
  <2>3. DiskOK' /\ CacheOK'
    BY <2>1, <2>2 DEF CacheInv, DiskOK, CacheOK, CacheIsARead, Packages
  <2> QED  BY <2>1, <2>3 DEF CacheInv, ScanInv, Scanning
<1>2. CASE ~NotScannable(c)
  BY <1>2, Opened DEF PopulateNext
<1> QED  BY <1>1, <1>2

\* A package is inserted only if it is whole now.
LEMMA CacheReadEntry ==
    ASSUME CacheInv, NEW e \in Entries, ReadEntry(e)
    PROVE  CacheInv'
<1>1. Scanning /\ UNCHANGED disk /\ \A c : Whole(c)' = Whole(c)
  BY DEF ReadEntry, Whole, Condition, IsDir
<1>2. /\ scan \in [cat: Categories, done: SUBSET Entries, found: Tables,
                   opened: SUBSET Entries, always: SUBSET PV, ever: SUBSET PV]
      /\ Packages(scan.found) = scan.done \cap PV
      /\ scan.always \subseteq scan.opened \cap Whole(scan.cat)
      /\ scan.done \cap PV \subseteq scan.ever
      /\ Whole(scan.cat) \subseteq scan.ever
  BY <1>1 DEF CacheInv, ScanInv
<1>3. CASE e \in PV /\ ScanFails
  BY <1>1, <1>3, Kept DEF ScanFails, Scanning
<1>4. ASSUME UNCHANGED <<at, cache, seenBy>>, ScanInv'
      PROVE  CacheInv'
  BY <1>1, <1>4 DEF CacheInv, DiskOK, CacheOK, CacheIsARead, Packages
<1>5. CASE /\ e \in Junk \ PV
           /\ scan' = [scan EXCEPT !.done = @ \cup {e}]
           /\ UNCHANGED <<at, cache, answer, seenBy>>
  <2>1. /\ scan' \in [cat: Categories, done: SUBSET Entries, found: Tables,
                     opened: SUBSET Entries, always: SUBSET PV, ever: SUBSET PV]
        /\ scan'.cat = scan.cat /\ scan'.done = scan.done \cup {e} /\ scan'.found = scan.found
        /\ scan'.opened = scan.opened /\ scan'.always = scan.always /\ scan'.ever = scan.ever
    BY <1>2, <1>5
  <2>2. Packages(scan.found)' = Packages(scan.found) /\ scan'.done \cap PV = scan.done \cap PV
    BY <1>5, <2>1 DEF Packages
  <2>3. ScanInv'
    BY <1>1, <1>2, <2>1, <2>2 DEF ScanInv
  <2> QED  BY <1>4, <1>5, <2>3
<1>6. CASE /\ e \in PV /\ e \in Whole(scan.cat)
           /\ scan' = [scan EXCEPT !.done = @ \cup {e}, !.found = InsertPackage(@, e)]
           /\ UNCHANGED <<at, cache, answer, seenBy>>
  <2>1. PICK t : t = InsertPackage(scan.found, e)
    OBVIOUS
  <2>2. t \in Tables /\ Packages(t) = Packages(scan.found) \cup {e}
    BY <1>2, <1>6, <2>1, InsertPackageAdds
  <2>3. /\ scan' \in [cat: Categories, done: SUBSET Entries, found: Tables,
                     opened: SUBSET Entries, always: SUBSET PV, ever: SUBSET PV]
        /\ scan'.cat = scan.cat /\ scan'.done = scan.done \cup {e} /\ scan'.found = t
        /\ scan'.opened = scan.opened /\ scan'.always = scan.always /\ scan'.ever = scan.ever
    BY <1>2, <1>6, <2>1, <2>2
  <2>4. Packages(scan.found)' = scan'.done \cap PV
    <3>1. Packages(scan.found)' = Packages(t)
      BY <2>3 DEF Packages
    <3> QED  BY <1>2, <1>6, <2>2, <2>3, <3>1
  <2>5. ScanInv'
    BY <1>1, <1>2, <1>6, <2>3, <2>4 DEF ScanInv
  <2> QED  BY <1>4, <1>6, <2>5
<1> QED  BY <1>3, <1>5, <1>6, JunkAssumption DEF ReadEntry, Whole

\* At the end of the directory all that stayed in it has been inserted.
LEMMA CacheEndScan == CacheInv /\ EndScan => CacheInv'
<1> SUFFICES ASSUME CacheInv, EndScan PROVE CacheInv'
  OBVIOUS
<1>1. /\ Scanning /\ at' \in {"init", "idle"} /\ UNCHANGED disk
      /\ cache' = Bind(cache, scan.cat, scan.found)
      /\ seenBy' = Bind(seenBy, scan.cat, [always |-> scan.always, ever |-> scan.ever])
      /\ \A e \in scan.opened \ scan.done : Condition(scan.cat, e) = "gone"
  BY DEF EndScan
<1>2. /\ Packages(scan.found) = scan.done \cap PV
      /\ scan.always \subseteq scan.opened \cap Whole(scan.cat)
      /\ scan.done \cap PV \subseteq scan.ever
  BY <1>1 DEF CacheInv, ScanInv
<1>3. scan.always \subseteq Packages(scan.found) /\ Packages(scan.found) \subseteq scan.ever
  BY <1>1, <1>2 DEF Whole
<1>4. PICK c, f, s : c = scan.cat /\ f = scan.found /\ s = [always |-> scan.always, ever |-> scan.ever]
  OBVIOUS
<1>5. cache' = Bind(cache, c, f) /\ seenBy' = Bind(seenBy, c, s)
  BY <1>1, <1>4
<1>6. /\ DOMAIN cache' = DOMAIN cache \cup {c}
      /\ cache'[c] = f /\ seenBy'[c] = s
  BY <1>5 DEF Bind
<1>7. \A x \in DOMAIN cache : x # c => cache'[x] = cache[x]
  BY <1>5 DEF Bind
<1>8. DOMAIN seenBy' = DOMAIN seenBy \cup {c} /\ \A x \in DOMAIN seenBy : x # c => seenBy'[x] = seenBy[x]
  BY <1>5 DEF Bind
<1>9. ASSUME NEW x \in DOMAIN cache', cache'[x] # Unread
      PROVE  /\ x \in DOMAIN seenBy'
             /\ seenBy'[x].always \subseteq Packages(cache'[x])
             /\ Packages(cache'[x]) \subseteq seenBy'[x].ever
  <2>1. CASE x = c
    <3>1. s.always = scan.always /\ s.ever = scan.ever
      BY <1>4
    <3> QED  BY <1>3, <1>4, <1>6, <1>8, <2>1, <3>1
  <2>2. CASE x # c
    <3>1. x \in DOMAIN cache /\ cache'[x] = cache[x]
      BY <1>6, <1>7, <2>2
    <3>2. x \in DOMAIN seenBy /\ seenBy[x].always \subseteq Packages(cache[x]) /\ Packages(cache[x]) \subseteq seenBy[x].ever
      BY <1>9, <3>1 DEF CacheInv, CacheOK, CacheIsARead
    <3>3. x \in DOMAIN seenBy' /\ seenBy'[x] = seenBy[x]
      BY <1>8, <2>2, <3>2
    <3> QED  BY <3>1, <3>2, <3>3
  <2> QED  BY <2>1, <2>2
<1>10. DiskOK' /\ CacheOK'
  BY <1>1, <1>9 DEF CacheInv, DiskOK, CacheOK, CacheIsARead, Packages
<1> QED  BY <1>1, <1>10 DEF CacheInv, ScanInv, Scanning

LEMMA CacheFind == ASSUME CacheInv, NEW q \in Queries, Find(q) PROVE CacheInv'
<1>1. q.cat \in Categories
  BY DEF Queries
<1>2. at = "idle" /\ UNCHANGED <<disk, cache, seenBy>>
  BY DEF Find
<1>3. CASE at' = "queryScan"
  <2>1. OpenDir(q.cat) /\ ~NotScannable(q.cat)
    BY <1>2, <1>3 DEF Find
  <2> QED  BY <1>1, <1>2, <1>3, <2>1, Opened
<1>4. CASE at' # "queryScan"
  <2>1. at' = "idle"
    BY <1>2, <1>4 DEF Find
  <2> QED  BY <1>2, <2>1, Kept
<1> QED  BY <1>3, <1>4

\* The package manager may only take packages out of those that stayed and add
\* to those that ever were.
LEMMA CacheChange ==
    ASSUME CacheInv, NEW c \in Categories, NEW entries \in Directories, Change(c, entries)
    PROVE  CacheInv'
<1> DEFINE now == {e \in PV : e \in DOMAIN entries /\ entries[e] = "whole"}
<1>1. /\ disk' = [disk EXCEPT ![c] = entries] /\ UNCHANGED <<cache, at, seenBy>>
      /\ scan' = IF scan.cat = c THEN [scan EXCEPT !.always = @ \cap now, !.ever = @ \cup now]
                  ELSE scan
  BY DEF Change
<1>2. disk' \in [Categories -> {Absent, PlainFile} \cup Directories] /\ disk'[c] = entries
  BY <1>1 DEF CacheInv, DiskOK
<1>3. DiskOK' /\ CacheOK'
  BY <1>1, <1>2 DEF CacheInv, DiskOK, CacheOK, CacheIsARead, Packages
<1>4. Whole(c)' = now
  <2>1. IsDir(c)'
    BY <1>2, DisksAssumption DEF IsDir
  <2> QED  BY <1>2, <2>1 DEF Whole, Condition
<1> HIDE DEF now
<1>5. \A x \in Categories : x # c => Whole(x)' = Whole(x)
  BY <1>1 DEF CacheInv, DiskOK, Whole, Condition, IsDir
<1>6. ASSUME Scanning
      PROVE  ScanInv'
  <2>1. /\ scan \in [cat: Categories, done: SUBSET Entries, found: Tables,
                     opened: SUBSET Entries, always: SUBSET PV, ever: SUBSET PV]
        /\ Packages(scan.found) = scan.done \cap PV
        /\ scan.always \subseteq scan.opened \cap Whole(scan.cat)
        /\ scan.done \cap PV \subseteq scan.ever
        /\ Whole(scan.cat) \subseteq scan.ever
    BY <1>6 DEF CacheInv, ScanInv
  <2>2. CASE scan.cat # c
    <3>1. scan' = scan /\ Whole(scan.cat)' = Whole(scan.cat)
      BY <1>1, <1>5, <2>1, <2>2
    <3> QED  BY <2>1, <3>1 DEF ScanInv, Packages
  <2>3. CASE scan.cat = c
    <3>1. now \subseteq PV
      BY DEF now
    <3>2. /\ scan' \in [cat: Categories, done: SUBSET Entries, found: Tables,
                       opened: SUBSET Entries, always: SUBSET PV, ever: SUBSET PV]
          /\ scan'.cat = c /\ scan'.done = scan.done /\ scan'.found = scan.found
          /\ scan'.opened = scan.opened
          /\ scan'.always = scan.always \cap now /\ scan'.ever = scan.ever \cup now
      BY <1>1, <2>1, <2>3, <3>1
    <3>3. Packages(scan.found)' = Packages(scan.found) /\ Whole(scan.cat)' = now
      BY <1>4, <3>2 DEF Packages
    <3> QED  BY <2>1, <3>2, <3>3 DEF ScanInv
  <2> QED  BY <2>2, <2>3
<1>7. ~Scanning => ScanInv'
  BY <1>1 DEF ScanInv, Scanning
<1> QED  BY <1>1, <1>3, <1>6, <1>7 DEF CacheInv

\* What the package manager writes is a directory again.
LEMMA DirectoryChanges ==
    /\ \A p \in PV : [e \in {p} |-> "whole"] \in Directories
    /\ \A d \in Directories, p \in PV, x \in Conditions : Bind(d, p, x) \in Directories
    /\ \A d \in Directories, p \in PV : [e \in DOMAIN d \ {p} |-> d[e]] \in Directories
<1>1. ASSUME NEW p \in PV
      PROVE  [e \in {p} |-> "whole"] \in Directories
  <2>1. {p} \in SUBSET Entries /\ [e \in {p} |-> "whole"] \in [{p} -> Conditions]
    BY DEF Entries, Conditions
  <2> QED  BY <2>1 DEF Directories
<1>2. ASSUME NEW d \in Directories, NEW p \in PV, NEW x \in Conditions
      PROVE  Bind(d, p, x) \in Directories
  <2>1. PICK S \in SUBSET Entries : d \in [S -> Conditions]
    BY DEF Directories
  <2>2. S \cup {p} \in SUBSET Entries /\ Bind(d, p, x) \in [S \cup {p} -> Conditions]
    BY <2>1 DEF Bind, Entries
  <2> QED  BY <2>2 DEF Directories
<1>3. ASSUME NEW d \in Directories, NEW p \in PV
      PROVE  [e \in DOMAIN d \ {p} |-> d[e]] \in Directories
  <2>1. PICK S \in SUBSET Entries : d \in [S -> Conditions]
    BY DEF Directories
  <2>2. S \ {p} \in SUBSET Entries /\ [e \in DOMAIN d \ {p} |-> d[e]] \in [S \ {p} -> Conditions]
    BY <2>1
  <2> QED  BY <2>2 DEF Directories
<1> QED  BY <1>1, <1>2, <1>3

LEMMA CachePackageManager ==
    ASSUME CacheInv, NEW c \in Categories, NEW p \in PV,
           Install(c, p) \/ RemoveFiles(c, p) \/ RemoveDir(c, p)
    PROVE  CacheInv'
<1>1. disk[c] \in {Absent, PlainFile} \cup Directories
  BY DEF CacheInv, DiskOK
<1>2. Condition(c, p) # "gone" => disk[c] \in Directories
  BY <1>1 DEF Condition, IsDir
<1>3. CASE Install(c, p)
  <2>1. CASE disk[c] = Absent
    BY <1>3, <2>1, CacheChange, DirectoryChanges DEF Install
  <2>2. CASE disk[c] # Absent
    <3>1. disk[c] \in Directories /\ "whole" \in Conditions
      BY <1>1, <1>3, <2>2 DEF Install, Conditions
    <3>2. Bind(disk[c], p, "whole") \in Directories
      BY <3>1, DirectoryChanges
    <3> QED  BY <1>3, <2>2, <3>2, CacheChange DEF Install
  <2> QED  BY <2>1, <2>2
<1>4. CASE RemoveFiles(c, p)
  <2>1. disk[c] \in Directories /\ "partial" \in Conditions
    BY <1>2, <1>4 DEF RemoveFiles, Conditions
  <2>2. Bind(disk[c], p, "partial") \in Directories
    BY <2>1, DirectoryChanges
  <2> QED  BY <1>4, <2>2, CacheChange DEF RemoveFiles
<1>5. CASE RemoveDir(c, p)
  <2>1. disk[c] \in Directories
    BY <1>2, <1>5 DEF RemoveDir
  <2>2. [e \in DOMAIN disk[c] \ {p} |-> disk[c][e]] \in Directories
    BY <2>1, DirectoryChanges
  <2> QED  BY <1>5, <2>2, CacheChange DEF RemoveDir
<1> QED  BY <1>3, <1>4, <1>5

LEMMA CacheStep == CacheInv /\ [Next]_vars => CacheInv'
<1> SUFFICES ASSUME CacheInv, [Next]_vars PROVE CacheInv'
  OBVIOUS
<1>1. CASE New
  BY <1>1, CacheNew
<1>2. CASE InitDone
  <2>1. at = "init" /\ at' = "idle" /\ UNCHANGED <<disk, cache, seenBy>>
    BY <1>2 DEF InitDone
  <2> QED  BY <2>1, Kept
<1>3. CASE EndScan
  BY <1>3, CacheEndScan
<1>4. ASSUME NEW c \in Categories, PopulateNext(c)
      PROVE  CacheInv'
  BY <1>4, CachePopulate
<1>5. ASSUME NEW e \in Entries, ReadEntry(e)
      PROVE  CacheInv'
  BY <1>5, CacheReadEntry
<1>6. ASSUME NEW q \in Queries, Find(q)
      PROVE  CacheInv'
  BY <1>6, CacheFind
<1>7. CASE PackageManager
  BY <1>7, ValidAssumption, CachePackageManager DEF PackageManager
<1>8. CASE UNCHANGED <<disk, process>>
  BY <1>8 DEF process, CacheInv, DiskOK, ScanInv, Scanning, Whole, Condition, IsDir, CacheOK,
              CacheIsARead, Packages
<1>9. UNCHANGED vars => UNCHANGED <<disk, process>>
  BY DEF vars, process
<1>10. ASSUME NEW c \in ValidCategories, ChangeRights(c)
       PROVE  CacheInv'
  BY <1>8, <1>10 DEF ChangeRights
<1> QED  BY <1>1, <1>2, <1>3, <1>4, <1>5, <1>6, <1>7, <1>8, <1>9, <1>10, CacheNewFails
         DEF Next, Work, Others

\* In either mode, with any number of steps of the package manager while a
\* directory is read: the cache has every package that stayed whole and none
\* that never was (populate_cache, vartree.c).
THEOREM CacheIsFaithful == Spec => []CacheIsARead
<1>1. Init => CacheInv
  BY CacheInit
<1>2. CacheInv /\ [Next]_vars => CacheInv'
  BY CacheStep
<1>3. CacheInv => CacheIsARead
  BY DEF CacheInv, CacheOK
<1> QED  BY <1>1, <1>2, <1>3, PTL DEF Spec

-----------------------------------------------------------------------------
\* The versions of a list go up, none is there twice.
Ascends(list) == \A i, j \in DOMAIN list : i < j => list[i] < list[j]
Descends(list) == \A i, j \in DOMAIN list : i < j => list[i] > list[j]

\* A set of positions that has all before each of its own is an interval.
LEMMA Prefix ==
    ASSUME NEW m \in Nat, NEW S \in SUBSET (1..m),
           \A i \in S : 1..i \subseteq S
    PROVE  Cardinality(S) \in 0..m /\ S = 1..Cardinality(S)
<1>1. IsFiniteSet(1..m) /\ Cardinality(1..m) = m
  BY FS_Interval
<1>2. IsFiniteSet(S) /\ Cardinality(S) <= m /\ Cardinality(S) \in Nat
  BY <1>1, FS_Subset, FS_CardinalityType
<1>3. PICK n \in Nat : n = Cardinality(S)
  BY <1>2
<1>4. IsFiniteSet(1..n) /\ Cardinality(1..n) = n
  BY FS_Interval
<1>5. S \in SUBSET (1..n)
  <2> SUFFICES ASSUME NEW i \in S PROVE i \in 1..n
    OBVIOUS
  <2>1. i \in Nat /\ i > 0
    OBVIOUS
  <2>2. IsFiniteSet(1..i) /\ Cardinality(1..i) = i
    BY <2>1, FS_Interval
  <2>3. 1..i \in SUBSET S
    OBVIOUS
  <2>4. i <= n
    BY <1>2, <1>3, <2>2, <2>3, FS_Subset
  <2> QED  BY <2>1, <2>4
<1>6. S = 1..n
  BY <1>3, <1>4, <1>5, FS_Subset
<1> QED  BY <1>2, <1>3, <1>6

\* A version that is not in the list is inserted between those below it and
\* those above it (cp_package_cmp).
LEMMA InsertAscends ==
    ASSUME NEW list \in Seq(Versions), NEW v \in Versions,
           Ascends(list), \A i \in DOMAIN list : list[i] # v
    PROVE  Ascends(InsertSorted(list, v))
<1> DEFINE S == {i \in DOMAIN list : list[i] < v}
           n == Cardinality(S)
           m == Len(list)
<1>1. m \in Nat /\ DOMAIN list = 1..m /\ \A i \in 1..m : list[i] \in Nat
  <2>1. Len(list) \in Nat /\ DOMAIN list = 1..Len(list)
    OBVIOUS
  <2>2. \A i \in 1..Len(list) : list[i] \in Versions
    OBVIOUS
  <2> QED  BY <2>1, <2>2, VersionsAssumption
<1>2. v \in Nat
  BY VersionsAssumption
<1>3. \A i \in S : 1..i \subseteq S
  <2> SUFFICES ASSUME NEW i \in S, NEW j \in 1..i PROVE j \in S
    OBVIOUS
  <2>1. j \in 1..m /\ (j = i \/ j < i)
    BY <1>1
  <2>2. list[j] <= list[i]
    BY <1>1, <2>1 DEF Ascends
  <2> QED  BY <1>1, <1>2, <2>1, <2>2
<1>4. n \in 0..m /\ S = 1..n
  <2>1. S \in SUBSET (1..m)
    BY <1>1
  <2> HIDE DEF S
  <2> QED  BY <1>1, <1>3, <2>1, Prefix
<1>5. \A i \in 1..n : list[i] < v
  BY <1>4
<1>6. \A i \in n + 1..m : list[i] > v
  <2> TAKE i \in n + 1..m
  <2>1. i \in DOMAIN list
    BY <1>1, <1>4
  <2>2. i \notin S
    <3> HIDE DEF S, n
    <3> QED  BY <1>1, <1>4
  <2> QED  BY <1>1, <1>2, <2>1, <2>2
<1> DEFINE r == InsertSorted(list, v)
<1>7. r = InsertAt(list, n + 1, v) /\ r \in Seq(Versions)
  BY InsertRange DEF InsertSorted
<1> HIDE DEF r, n, S
<1>8. /\ Len(r) = m + 1
      /\ \A i \in 1..n : r[i] = list[i]
      /\ r[n + 1] = v
      /\ \A i \in n + 2..m + 1 : r[i] = list[i - 1]
  BY <1>1, <1>4, <1>7, InsertedAt
<1>9. ASSUME NEW i \in 1..m + 1, NEW j \in 1..m + 1, i < j
      PROVE  r[i] < r[j]
  <2>1. CASE j <= n
    BY <1>1, <1>4, <1>8, <1>9, <2>1 DEF Ascends
  <2>2. CASE j = n + 1
    BY <1>1, <1>4, <1>5, <1>8, <1>9, <2>2
  <2>3. CASE j > n + 1
    <3>1. r[j] = list[j - 1] /\ j - 1 \in n + 1..m
      BY <1>1, <1>4, <1>8, <2>3
    <3>2. CASE i <= n
      <4>1. i \in 1..n /\ i \in 1..m /\ j - 1 \in 1..m /\ i < j - 1
        BY <1>1, <1>4, <3>1, <3>2
      <4> QED  BY <1>1, <1>8, <3>1, <4>1 DEF Ascends
    <3>3. CASE i = n + 1
      BY <1>4, <1>6, <1>8, <3>1, <3>3
    <3>4. CASE i > n + 1
      <4>1. r[i] = list[i - 1] /\ i - 1 \in 1..m /\ j - 1 \in 1..m /\ i - 1 < j - 1
        BY <1>1, <1>4, <1>8, <1>9, <2>3, <3>4
      <4> QED  BY <1>1, <3>1, <4>1 DEF Ascends
    <3> QED  BY <1>4, <3>2, <3>3, <3>4
  <2> QED  BY <1>1, <1>4, <2>1, <2>2, <2>3
<1>10. DOMAIN r = 1..m + 1
  BY <1>7, <1>8
<1> QED  BY <1>9, <1>10 DEF Ascends, r

\* How many of the positions come after one of them.
Following(kept) == [i \in kept |-> Cardinality({j \in kept : j > i})]

\* Rank numbers n positions from the last one, without a gap.
IsRank(Rank, kept, n) ==
    /\ \A i, j \in kept : i < j => Rank[i] > Rank[j]
    /\ Rank \in [kept -> 0..n - 1]
    /\ \A k \in 0..n - 1 : \E i \in kept : Rank[i] = k

LEMMA Ranks ==
    ASSUME NEW m \in Nat, NEW kept \in SUBSET (1..m),
           NEW Rank, Rank = Following(kept),
           NEW n \in Nat, n = Cardinality(kept)
    PROVE  IsRank(Rank, kept, n)
<1> DEFINE After(i) == {j \in kept : j > i}
<1>1. IsFiniteSet(kept)
  <2>1. IsFiniteSet(1..m)
    BY FS_Interval
  <2> QED  BY <2>1, FS_Subset
<1>2. ASSUME NEW i \in kept
      PROVE  /\ IsFiniteSet(After(i)) /\ Cardinality(After(i)) \in Nat
             /\ IsFiniteSet(After(i) \cup {i})
             /\ Cardinality(After(i) \cup {i}) = Cardinality(After(i)) + 1
  <2>1. After(i) \in SUBSET kept /\ i \notin After(i)
    OBVIOUS
  <2> HIDE DEF After
  <2>2. IsFiniteSet(After(i))
    BY <1>1, <2>1, FS_Subset
  <2> QED  BY <2>1, <2>2, FS_AddElement, FS_CardinalityType
<1>3. ASSUME NEW i \in kept, NEW j \in kept, i < j
      PROVE  Cardinality(After(i)) > Cardinality(After(j))
  <2>1. After(j) \cup {j} \in SUBSET After(i)
    <3> SUFFICES ASSUME NEW x \in After(j) \cup {j} PROVE x \in kept /\ x > i
      OBVIOUS
    <3>1. i \in Nat /\ j \in Nat /\ x \in kept /\ x \in Nat /\ (x = j \/ x > j)
      OBVIOUS
    <3> QED  BY <1>3, <3>1
  <2> HIDE DEF After
  <2>2. Cardinality(After(j) \cup {j}) <= Cardinality(After(i))
    BY <1>2, <2>1, FS_Subset
  <2>3. /\ Cardinality(After(i)) \in Nat /\ Cardinality(After(j)) \in Nat
        /\ Cardinality(After(j) \cup {j}) = Cardinality(After(j)) + 1
    BY <1>2
  <2> QED  BY <2>2, <2>3
<1>4. ASSUME NEW i \in kept
      PROVE  Cardinality(After(i)) \in 0..n - 1
  <2>1. After(i) \cup {i} \in SUBSET kept
    OBVIOUS
  <2> HIDE DEF After
  <2>2. Cardinality(After(i) \cup {i}) <= n
    BY <1>1, <2>1, FS_Subset
  <2> QED  BY <1>2, <2>2
<1>5. \A i \in kept : Rank[i] = Cardinality(After(i))
  BY DEF Following
<1>6. DOMAIN Rank = kept /\ Rank = [i \in kept |-> Rank[i]]
  BY DEF Following
<1> HIDE DEF After
<1>7. Rank \in [kept -> 0..n - 1]
  BY <1>4, <1>5, <1>6
<1>8. \A i, j \in kept : i < j => Rank[i] > Rank[j]
  BY <1>3, <1>5
<1>9. Rank \in Injection(kept, 0..n - 1)
  <2>1. ASSUME NEW i \in kept, NEW j \in kept, i # j
        PROVE  Rank[i] # Rank[j]
    <3>1. i \in Nat /\ j \in Nat /\ Rank[i] \in Int /\ Rank[j] \in Int
      BY <1>7
    <3> QED  BY <1>8, <2>1, <3>1
  <2> QED  BY <1>7, <2>1 DEF Injection, IsInjective
<1>10. IsFiniteSet(0..n - 1) /\ Cardinality(0..n - 1) = n
  <2>1. 0 \in Int /\ n - 1 \in Int /\ (0 > n - 1 => n = 0) /\ n - 1 - 0 + 1 = n
    OBVIOUS
  <2> QED  BY <2>1, FS_Interval
<1>11. Rank \in Surjection(kept, 0..n - 1)
  BY <1>9, <1>10, FS_Injection
<1>12. \A k \in 0..n - 1 : \E i \in kept : Rank[i] = k
  BY <1>11 DEF Surjection
<1> QED  BY <1>7, <1>8, <1>12 DEF IsRank

\* What matches is prepended one by one: it goes down if the list goes up.
LEMMA PrependedDescends ==
    ASSUME NEW list \in Seq(Versions), NEW matching, Ascends(list),
           NEW d, d = Prepended(list, matching)
    PROVE  /\ d \in Seq(Versions)
           /\ Descends(d)
           /\ Range(d) = {v \in matching : \E i \in DOMAIN list : list[i] = v}
<1> DEFINE kept == {i \in DOMAIN list : list[i] \in matching}
           Kth(k) == CHOOSE i \in kept : Cardinality({j \in kept : j > i}) = k - 1
<1>1. PICK n, Rank : n = Cardinality(kept) /\ Rank = Following(kept)
  OBVIOUS
<1>2. d = [k \in 1..n |-> list[Kth(k)]]
  BY <1>1 DEF Prepended
<1>3. n \in Nat /\ kept \in SUBSET (1..Len(list)) /\ Len(list) \in Nat
  <2>1. IsFiniteSet(1..Len(list)) /\ Len(list) \in Nat /\ kept \in SUBSET (1..Len(list))
    <3>1. Len(list) \in Nat /\ kept \in SUBSET (1..Len(list))
      OBVIOUS
    <3> QED  BY <3>1, FS_Interval
  <2> HIDE DEF kept
  <2> QED  BY <1>1, <2>1, FS_Subset, FS_CardinalityType
<1>4. /\ \A i, j \in kept : i < j => Rank[i] > Rank[j]
      /\ Rank \in [kept -> 0..n - 1]
      /\ \A k \in 0..n - 1 : \E i \in kept : Rank[i] = k
  <2>1. PICK m \in Nat : m = Len(list) /\ kept \in SUBSET (1..m)
    BY <1>3
  <2> HIDE DEF kept
  <2>2. IsRank(Rank, kept, n)
    BY <1>1, <1>3, <2>1, Ranks
  <2> QED  BY <2>2 DEF IsRank
<1>5. \A i \in kept : Rank[i] = Cardinality({j \in kept : j > i})
  BY <1>1 DEF Following
<1>6. ASSUME NEW k \in 1..n
      PROVE  Kth(k) \in kept /\ Rank[Kth(k)] = k - 1
  <2>1. k - 1 \in 0..n - 1
    BY <1>3
  <2> HIDE DEF kept
  <2>2. PICK i \in kept : Cardinality({j \in kept : j > i}) = k - 1
    BY <1>4, <1>5, <2>1
  <2>3. Kth(k) \in kept /\ Cardinality({j \in kept : j > Kth(k)}) = k - 1
    BY <2>2
  <2> QED  BY <1>5, <2>3
<1>7. \A i \in kept : i \in 1..Len(list) /\ i \in Nat /\ list[i] \in matching /\ list[i] \in Versions
  OBVIOUS
<1>8. \A i \in 1..Len(list) : list[i] \in matching => i \in kept
  OBVIOUS
<1> HIDE DEF kept, Kth
<1>9. ASSUME NEW i \in kept
      PROVE  Rank[i] + 1 \in 1..n /\ Kth(Rank[i] + 1) = i
  <2>1. Rank[i] \in 0..n - 1
    BY <1>4
  <2>2. PICK k : k = Rank[i] + 1
    OBVIOUS
  <2>3. k \in 1..n /\ k - 1 = Rank[i]
    BY <1>3, <2>1, <2>2
  <2>4. PICK x : x = Kth(k)
    OBVIOUS
  <2>5. x \in kept /\ Rank[x] = Rank[i]
    BY <1>6, <2>3, <2>4
  <2>6. x \in Nat /\ i \in Nat /\ Rank[x] \in Int /\ Rank[i] \in Int
    BY <1>4, <1>7, <2>1, <2>5
  <2>7. x = i
    BY <1>4, <2>5, <2>6
  <2> QED  BY <2>2, <2>3, <2>4, <2>7
<1>10. d \in Seq(Versions) /\ DOMAIN d = 1..n
  <2>1. \A k \in 1..n : list[Kth(k)] \in Versions
    BY <1>6, <1>7
  <2> QED  BY <1>2, <1>3, <2>1
<1>11. Descends(d)
  <2> SUFFICES ASSUME NEW k \in 1..n, NEW l \in 1..n, k < l PROVE d[k] > d[l]
    BY <1>10 DEF Descends
  <2>1. PICK x, y : x = Kth(k) /\ y = Kth(l)
    OBVIOUS
  <2>2. x \in kept /\ Rank[x] = k - 1 /\ y \in kept /\ Rank[y] = l - 1
    BY <1>6, <2>1
  <2>3. x \in Nat /\ y \in Nat
    BY <1>7, <2>2
  <2>4. Rank[x] < Rank[y]
    BY <1>3, <2>2
  <2>5. y < x
    <3>1. CASE x < y
      <4>1. Rank[x] > Rank[y]
        BY <1>4, <2>2, <3>1
      <4> QED  BY <1>3, <2>2, <2>4, <4>1
    <3>2. CASE x = y
      BY <1>3, <2>2, <2>4, <3>2
    <3> QED  BY <2>3, <3>1, <3>2
  <2>6. x \in DOMAIN list /\ y \in DOMAIN list
    BY <1>7, <2>2
  <2>7. list[y] < list[x]
    BY <2>5, <2>6 DEF Ascends
  <2>8. d[k] = list[x] /\ d[l] = list[y] /\ list[x] \in Nat /\ list[y] \in Nat
    BY <1>2, <1>7, <2>1, <2>2, VersionsAssumption
  <2> QED  BY <2>7, <2>8
<1>12. Range(d) = {v \in matching : \E i \in DOMAIN list : list[i] = v}
  <2>1. \A k \in 1..n : d[k] \in matching /\ \E i \in DOMAIN list : list[i] = d[k]
    <3> TAKE k \in 1..n
    <3>1. Kth(k) \in DOMAIN list /\ list[Kth(k)] \in matching
      BY <1>6, <1>7
    <3> QED  BY <1>2, <3>1
  <2>2. ASSUME NEW i \in DOMAIN list, list[i] \in matching
        PROVE  \E k \in 1..n : d[k] = list[i]
    <3>1. i \in kept
      BY <1>8, <2>2
    <3>2. Rank[i] + 1 \in 1..n /\ d[Rank[i] + 1] = list[i]
      BY <1>2, <1>9, <3>1
    <3> QED  BY <3>2
  <2>3. \A x : x \in Range(d) <=> \E k \in 1..n : d[k] = x
    BY <1>10 DEF Range
  <2> QED  BY <2>1, <2>2, <2>3
<1> QED  BY <1>10, <1>11, <1>12

LEMMA ReverseAscends ==
    ASSUME NEW d \in Seq(Versions), Descends(d)
    PROVE  Ascends(Reverse(d)) /\ Range(Reverse(d)) = Range(d)
<1>1. PICK n \in Nat : n = Len(d) /\ DOMAIN d = 1..n
  OBVIOUS
<1>2. PICK r : r = Reverse(d)
  OBVIOUS
<1>3. DOMAIN r = 1..n /\ \A i \in 1..n : r[i] = d[(n - i) + 1]
  BY <1>1, <1>2 DEF Reverse
<1>4. \A i \in 1..n : (n - i) + 1 \in 1..n /\ (n - ((n - i) + 1)) + 1 = i
  OBVIOUS
<1>5. ASSUME NEW i \in 1..n, NEW j \in 1..n, i < j
      PROVE  r[i] < r[j]
  <2>1. PICK x, y : x = (n - i) + 1 /\ y = (n - j) + 1
    OBVIOUS
  <2>2. x \in 1..n /\ y \in 1..n /\ y < x
    BY <1>5, <2>1
  <2>3. r[i] = d[x] /\ r[j] = d[y]
    BY <1>3, <2>1
  <2>4. d[y] > d[x]
    BY <1>1, <2>2 DEF Descends
  <2>5. d[x] \in Versions /\ d[y] \in Versions
    BY <1>1, <2>2
  <2> QED  BY <2>3, <2>4, <2>5, VersionsAssumption
<1>6. Range(r) = Range(d)
  <2>1. \A i \in 1..n : \E j \in 1..n : r[i] = d[j]
    BY <1>3, <1>4
  <2>2. \A j \in 1..n : \E i \in 1..n : r[i] = d[j]
    <3> TAKE j \in 1..n
    <3>1. PICK i \in 1..n : i = (n - j) + 1
      BY <1>4
    <3>2. (n - i) + 1 = j
      BY <3>1
    <3> QED  BY <1>3, <3>2
  <2>3. \A x : x \in Range(r) <=> \E i \in 1..n : r[i] = x
    BY <1>3 DEF Range
  <2>4. \A x : x \in Range(d) <=> \E i \in 1..n : d[i] = x
    BY <1>1 DEF Range
  <2> QED  BY <2>1, <2>2, <2>3, <2>4
<1> QED  BY <1>2, <1>3, <1>5, <1>6 DEF Ascends

-----------------------------------------------------------------------------
Sorted(table) == \A n \in DOMAIN table : Ascends(table[n])

LEMMA PackagesTyped == \A t \in Tables : Packages(t) \in SUBSET PV
<1> TAKE t \in Tables
<1>1. PICK S \in SUBSET Names : t \in [S -> Seq(Versions)]
  BY DEF Tables
<1>2. \A n \in S : \A i \in DOMAIN t[n] : [name |-> n, ver |-> t[n][i]] \in PV
  BY <1>1 DEF PV
<1> QED  BY <1>1, <1>2 DEF Packages

\* A query of a sorted table answers what InstalledPackages promises.
LEMMA FoundLists ==
    ASSUME NEW table \in Tables, Sorted(table), NEW q \in Queries,
           NEW a, a = Found(table, q)
    PROVE  /\ a.ok /\ a.query = q
           /\ Service!Lists(a.list, Service!Matching(Packages(table), q), q.ascending)
<1>1. PICK list : list = IF q.name \in DOMAIN table THEN table[q.name] ELSE <<>>
  OBVIOUS
<1>2. PICK S \in SUBSET Names : table \in [S -> Seq(Versions)]
  BY DEF Tables
<1>3. list \in Seq(Versions) /\ Ascends(list)
  <2>1. CASE q.name \in S
    BY <1>1, <1>2, <2>1 DEF Sorted
  <2>2. CASE q.name \notin S
    <3>1. list = <<>>
      BY <1>1, <1>2, <2>2
    <3> QED  BY <3>1 DEF Ascends
  <2> QED  BY <2>1, <2>2
<1>4. PICK d : d = Prepended(list, q.matching)
  OBVIOUS
<1>5. /\ d \in Seq(Versions) /\ Descends(d)
      /\ Range(d) = {v \in q.matching : \E i \in DOMAIN list : list[i] = v}
  BY <1>3, <1>4, PrependedDescends
<1>6. a = [ok |-> TRUE, query |-> q, list |-> IF q.ascending THEN Reverse(d) ELSE d]
  BY <1>1, <1>4 DEF Found
<1>7. Range(d) = Service!Matching(Packages(table), q)
  <2>1. ASSUME NEW v
        PROVE  [name |-> q.name, ver |-> v] \in Packages(table) <=>
               \E i \in DOMAIN list : list[i] = v
    <3>1. \A x : x \in Packages(table) <=>
            \E n \in S : \E i \in DOMAIN table[n] : x = [name |-> n, ver |-> table[n][i]]
      BY <1>2 DEF Packages
    <3>2. \A n, w : [name |-> q.name, ver |-> v] = [name |-> n, ver |-> w] <=> n = q.name /\ w = v
      OBVIOUS
    <3>3. [name |-> q.name, ver |-> v] \in Packages(table) <=>
            q.name \in S /\ \E i \in DOMAIN table[q.name] : table[q.name][i] = v
      BY <3>1, <3>2
    <3>4. q.name \in S => list = table[q.name]
      BY <1>1, <1>2
    <3>5. q.name \notin S => DOMAIN list = {}
      BY <1>1, <1>2
    <3> QED  BY <3>3, <3>4, <3>5
  <2>2. Service!Matching(Packages(table), q) =
          {v \in q.matching : [name |-> q.name, ver |-> v] \in Packages(table)}
    BY DEF Service!Matching
  <2> QED  BY <1>5, <2>1, <2>2
<1>8. CASE q.ascending
  <2>1. a.list = Reverse(d) /\ a.ok /\ a.query = q
    BY <1>6, <1>8
  <2>2. Ascends(a.list) /\ Range(a.list) = Range(d)
    BY <1>5, <2>1, ReverseAscends
  <2>3. Range(a.list) = Service!Matching(Packages(table), q)
    BY <1>7, <2>2
  <2> QED  BY <1>8, <2>1, <2>2, <2>3 DEF Service!Lists, Service!Range, Range, Ascends
<1>9. CASE ~q.ascending
  <2>1. a.list = d /\ a.ok /\ a.query = q
    BY <1>6, <1>9
  <2> QED  BY <1>5, <1>7, <1>9, <2>1 DEF Service!Lists, Service!Range, Range, Descends
<1> QED  BY <1>8, <1>9

\* An empty list answers where nothing is known.
LEMMA EmptyLists == \A up : Service!Lists(<<>>, {}, up)
  BY DEF Service!Lists, Service!Range, Range

-----------------------------------------------------------------------------
IsKnown(c) == c \in DOMAIN cache /\ cache[c] # Unread

\* What is kept and what is being filled are tables of sorted lists.
TablesInv ==
    /\ Scanning => Sorted(scan.found)
    /\ \A c \in DOMAIN cache : IsKnown(c) => cache[c] \in Tables /\ Sorted(cache[c])

\* What is being read or still to be read has not been read; the scan of a
\* query reads the category that is asked for.
UnknownInv ==
    /\ DOMAIN cache \subseteq Categories /\ todo \subseteq Categories
    /\ at = "new" => \A c \in DOMAIN cache : ~IsKnown(c)
    /\ \A c \in todo : ~IsKnown(c)
    /\ Scanning => scan.cat \notin todo /\ ~IsKnown(scan.cat)
    /\ at \in {"idle", "queryScan"} => todo = {}
    /\ at = "queryScan" => query \in Queries /\ scan.cat = query.cat

ServiceInv == CacheInv /\ TablesInv /\ UnknownInv

\* If nobody changes the disk, what is known is what is installed, and only
\* categories with no packages are missing.
UndisturbedInv ==
    /\ changes \in Nat
    /\ changes = 0 =>
        /\ Scanning => /\ ~NotScannable(scan.cat)
                       /\ scan.opened = DOMAIN disk[scan.cat]
                       /\ scan.always = Whole(scan.cat) /\ scan.ever = Whole(scan.cat)
        /\ \A c \in Categories : IsKnown(c) => ~NotScannable(c) /\ Packages(cache[c]) = Whole(c)
        /\ at \notin {"new", "failed"} =>
            \A c \in Categories : ~NotScannable(c) =>
                c \in DOMAIN cache \cup todo \/ (at = "initScan" /\ c = scan.cat)

-----------------------------------------------------------------------------
\* Inserting a package that is not in a sorted table leaves it sorted.
LEMMA InsertSorts ==
    ASSUME NEW table \in Tables, NEW p \in PV, Sorted(table), p \notin Packages(table)
    PROVE  Sorted(InsertPackage(table, p))
<1>1. PICK old, new : /\ old = IF p.name \in DOMAIN table THEN table[p.name] ELSE <<>>
                      /\ new = InsertSorted(old, p.ver)
  OBVIOUS
<1>2. PICK S \in SUBSET Names : table \in [S -> Seq(Versions)]
  BY DEF Tables
<1>3. p = [name |-> p.name, ver |-> p.ver] /\ p.ver \in Versions
  BY DEF PV
<1>4. old \in Seq(Versions) /\ Ascends(old) /\ \A i \in DOMAIN old : old[i] # p.ver
  <2>1. CASE p.name \in S
    <3>1. old = table[p.name]
      BY <1>1, <1>2, <2>1
    <3>2. \A i \in DOMAIN old : [name |-> p.name, ver |-> old[i]] \in Packages(table)
      BY <1>2, <2>1, <3>1 DEF Packages
    <3> QED  BY <1>2, <1>3, <2>1, <3>1, <3>2 DEF Sorted
  <2>2. CASE p.name \notin S
    <3>1. old = <<>>
      BY <1>1, <1>2, <2>2
    <3> QED  BY <3>1 DEF Ascends
  <2> QED  BY <2>1, <2>2
<1>5. Ascends(new)
  BY <1>1, <1>3, <1>4, InsertAscends
<1>6. InsertPackage(table, p) = Bind(table, p.name, new)
  BY <1>1 DEF InsertPackage
<1> QED  BY <1>5, <1>6 DEF Sorted, Bind

\* A step of the service, or none that its clients see.
ServiceStep == Service!Next \/ UNCHANGED <<Known, answer>>

\* What is known changes only with what the cache holds of known categories.
LEMMA KnownKept ==
    ASSUME \A c \in Categories : IsKnown(c)' <=> IsKnown(c),
           \A c \in Categories : IsKnown(c) => cache'[c] = cache[c]
    PROVE  Known' = Known
<1>1. \A c \in Categories : Known[c] = IF IsKnown(c) THEN Packages(cache[c]) ELSE Unread
  BY DEF Known, IsKnown
<1>2. \A c \in Categories : Known'[c] = IF IsKnown(c)' THEN Packages(cache'[c]) ELSE Unread
  BY DEF Known, IsKnown, Packages
<1>3. Known = [c \in Categories |-> Known[c]] /\ Known' = [c \in Categories |-> Known'[c]]
  BY DEF Known
<1>4. \A c \in Categories : Known'[c] = Known[c]
  BY <1>1, <1>2
<1> QED  BY <1>3, <1>4

LEMMA KnownAt ==
    \A c \in Categories :
        /\ IsKnown(c) => Known[c] = Packages(cache[c])
        /\ ~IsKnown(c) => Known[c] = Unread
  BY DEF Known, IsKnown

LEMMA ServiceNew ==
    ASSUME ServiceInv, New
    PROVE  TablesInv' /\ UnknownInv' /\ ServiceStep
<1>1. /\ at' = "init" /\ at = "new" /\ UNCHANGED answer /\ todo' \subseteq Categories
      /\ DOMAIN cache' \subseteq Categories
      /\ \A c \in DOMAIN cache' : cache'[c] = Unread
  BY DEF New, Present
<1>2. \A c : ~IsKnown(c) /\ ~IsKnown(c)'
  BY <1>1 DEF ServiceInv, UnknownInv, IsKnown
<1>3. TablesInv' /\ UnknownInv'
  BY <1>1, <1>2 DEF TablesInv, UnknownInv, Scanning
<1> QED  BY <1>1, <1>2, <1>3, KnownKept DEF ServiceStep

LEMMA ServiceNewFails ==
    ASSUME ServiceInv, NewFails
    PROVE  TablesInv' /\ UnknownInv' /\ ServiceStep
<1>1. at' = "failed" /\ UNCHANGED <<cache, todo, answer>>
  BY DEF NewFails
<1>2. \A x : IsKnown(x)' <=> IsKnown(x)
  BY <1>1 DEF IsKnown
<1>3. TablesInv' /\ UnknownInv'
  BY <1>1, <1>2 DEF ServiceInv, TablesInv, UnknownInv, Scanning
<1> QED  BY <1>1, <1>2, <1>3, KnownKept DEF ServiceStep

LEMMA ServicePopulate ==
    ASSUME ServiceInv, NEW c \in Categories, PopulateNext(c)
    PROVE  TablesInv' /\ UnknownInv' /\ ServiceStep
<1>1. at = "init" /\ c \in todo /\ todo' = todo \ {c} /\ UNCHANGED <<query, answer>>
  BY DEF PopulateNext
<1>2. ~IsKnown(c) /\ todo \subseteq Categories /\ DOMAIN cache \subseteq Categories
  BY <1>1 DEF ServiceInv, UnknownInv
<1>3. CASE NotScannable(c)
  <2>1. at' = "init" /\ cache' = Bind(cache, c, Unread)
    BY <1>1, <1>3 DEF PopulateNext
  <2>2. \A x : IsKnown(x)' <=> IsKnown(x)
    BY <1>2, <2>1 DEF IsKnown, Bind
  <2>3. \A x : IsKnown(x) => cache'[x] = cache[x]
    BY <1>2, <2>1 DEF IsKnown, Bind
  <2>4. DOMAIN cache' \subseteq Categories
    BY <1>2, <2>1 DEF Bind
  <2>5. TablesInv'
    BY <2>1, <2>2, <2>3 DEF ServiceInv, TablesInv, Scanning, IsKnown
  <2>6. UnknownInv'
    BY <1>1, <1>2, <2>1, <2>2, <2>4 DEF ServiceInv, UnknownInv, Scanning
  <2> QED  BY <1>1, <2>2, <2>3, <2>5, <2>6, KnownKept DEF ServiceStep
<1>4. CASE ~NotScannable(c)
  <2>1. at' = "initScan" /\ OpenDir(c) /\ UNCHANGED cache
    BY <1>1, <1>4 DEF PopulateNext
  <2>2. \A x : IsKnown(x)' <=> IsKnown(x)
    BY <2>1 DEF IsKnown
  <2>3. scan'.cat = c /\ DOMAIN scan'.found = {}
    BY <2>1 DEF OpenDir
  <2>4. TablesInv'
    BY <2>1, <2>2, <2>3 DEF ServiceInv, TablesInv, Sorted, IsKnown
  <2>5. UnknownInv'
    BY <1>1, <1>2, <2>1, <2>2, <2>3 DEF ServiceInv, UnknownInv
  <2> QED  BY <1>1, <2>1, <2>2, <2>4, <2>5, KnownKept DEF ServiceStep
<1> QED  BY <1>3, <1>4

\* An entry that cannot be loaded ends the scan; if a query waits for it, the
\* service refuses to answer.
LEMMA ServiceRead ==
    ASSUME ServiceInv, NEW e \in Entries, ReadEntry(e)
    PROVE  TablesInv' /\ UnknownInv' /\ ServiceStep
<1>1. Scanning /\ e \notin scan.done /\ UNCHANGED <<todo, query>>
  BY DEF ReadEntry
<1>2. /\ scan \in [cat: Categories, done: SUBSET Entries, found: Tables,
                   opened: SUBSET Entries, always: SUBSET PV, ever: SUBSET PV]
      /\ Packages(scan.found) = scan.done \cap PV
  BY <1>1 DEF ServiceInv, CacheInv, ScanInv
<1>3. CASE ScanFails
  <2>1. at' \in {"failed", "idle"} /\ UNCHANGED cache
    BY <1>3 DEF ScanFails
  <2>2. \A x : IsKnown(x)' <=> IsKnown(x)
    BY <2>1 DEF IsKnown
  <2>3. Known' = Known
    BY <2>1, <2>2, KnownKept
  <2>4. TablesInv'
    BY <2>1, <2>2 DEF ServiceInv, TablesInv, Scanning, IsKnown
  <2>5. CASE at = "initScan"
    <3>1. at' = "failed" /\ UNCHANGED answer
      BY <1>3, <2>5 DEF ScanFails
    <3>2. UnknownInv'
      BY <1>1, <2>1, <2>2, <3>1 DEF ServiceInv, UnknownInv, Scanning
    <3> QED  BY <2>3, <2>4, <3>1, <3>2 DEF ServiceStep
  <2>6. CASE at = "queryScan"
    <3>1. at' = "idle" /\ answer' = [ok |-> FALSE, list |-> <<>>, query |-> query]
      BY <1>3, <2>6 DEF ScanFails, Refusal
    <3>2. UnknownInv'
      BY <1>1, <2>1, <2>2, <2>6, <3>1 DEF ServiceInv, UnknownInv, Scanning
    <3>3. query.cat \in Categories /\ ~IsKnown(query.cat)
      BY <1>1, <1>2, <2>6 DEF ServiceInv, UnknownInv
    <3>4. ~answer'.ok /\ answer'.query = query /\ Known[query.cat] = Unread
      BY <3>1, <3>3, KnownAt
    <3>5. Service!Refuse
      BY <2>3, <3>4 DEF Service!Refuse
    <3> QED  BY <2>4, <3>2, <3>5 DEF ServiceStep, Service!Next
  <2> QED  BY <1>1, <2>5, <2>6 DEF Scanning
<1>4. CASE UNCHANGED <<at, cache, answer>> /\ scan'.cat = scan.cat /\ Sorted(scan'.found)
  <2>1. \A x : IsKnown(x)' <=> IsKnown(x)
    BY <1>4 DEF IsKnown
  <2>2. TablesInv'
    BY <1>4, <2>1 DEF ServiceInv, TablesInv, Sorted, IsKnown
  <2>3. UnknownInv'
    BY <1>1, <1>4, <2>1 DEF ServiceInv, UnknownInv, Scanning
  <2> QED  BY <1>4, <2>1, <2>2, <2>3, KnownKept DEF ServiceStep
<1>5. Sorted(scan.found)
  BY <1>1 DEF ServiceInv, TablesInv
<1>6. CASE UNCHANGED <<at, cache, answer>> /\ scan' = [scan EXCEPT !.done = @ \cup {e}]
  <2>1. scan'.cat = scan.cat /\ scan'.found = scan.found
    BY <1>2, <1>6
  <2> QED  BY <1>4, <1>5, <1>6, <2>1
<1>7. CASE /\ e \in PV /\ UNCHANGED <<at, cache, answer>>
           /\ scan' = [scan EXCEPT !.done = @ \cup {e}, !.found = InsertPackage(@, e)]
  <2>1. PICK t : t = InsertPackage(scan.found, e)
    OBVIOUS
  <2>2. scan'.cat = scan.cat /\ scan'.found = t
    BY <1>2, <1>7, <2>1
  <2>3. e \notin Packages(scan.found)
    BY <1>1, <1>2
  <2>4. Sorted(t)
    BY <1>2, <1>5, <1>7, <2>1, <2>3, InsertSorts
  <2> QED  BY <1>4, <1>7, <2>2, <2>4
<1> QED  BY <1>3, <1>6, <1>7 DEF ReadEntry

\* What a scan has found becomes known: at the start, or with an answer.
LEMMA ServiceEnd ==
    ASSUME ServiceInv, EndScan
    PROVE  TablesInv' /\ UnknownInv' /\ ServiceStep
<1>1. Scanning /\ UNCHANGED <<todo, query>> /\ cache' = Bind(cache, scan.cat, scan.found)
  BY DEF EndScan
<1>2. scan.cat \in Categories /\ scan.found \in Tables
  <2>1. scan \in [cat: Categories, done: SUBSET Entries, found: Tables,
                  opened: SUBSET Entries, always: SUBSET PV, ever: SUBSET PV]
    BY <1>1 DEF ServiceInv, CacheInv, ScanInv
  <2> QED  BY <2>1
<1>3. PICK c \in Categories, t \in Tables : c = scan.cat /\ t = scan.found
  BY <1>2
<1>4. DOMAIN cache' = DOMAIN cache \cup {c} /\ cache'[c] = t
  BY <1>1, <1>3 DEF Bind
<1>5. \A x \in DOMAIN cache : x # c => cache'[x] = cache[x]
  BY <1>1, <1>3 DEF Bind
<1>6. ~IsKnown(c) /\ c \notin todo /\ Sorted(t)
  BY <1>1, <1>3 DEF ServiceInv, TablesInv, UnknownInv
<1>7. t # Unread
  BY UnreadAssumption DEF Tables
<1>8. /\ IsKnown(c)'
      /\ \A x : x # c => (IsKnown(x)' <=> IsKnown(x))
      /\ \A x : x # c /\ IsKnown(x) => cache'[x] = cache[x]
  BY <1>4, <1>5, <1>7 DEF IsKnown
<1>9. at' \in {"init", "idle"} /\ (at' = "idle" <=> at = "queryScan")
  BY <1>1 DEF EndScan, Scanning
<1>10. TablesInv'
  BY <1>4, <1>6, <1>8, <1>9 DEF ServiceInv, TablesInv, Scanning
<1>11. UnknownInv'
  BY <1>1, <1>4, <1>6, <1>8, <1>9 DEF ServiceInv, UnknownInv, Scanning
<1>12. Packages(t) \in SUBSET PV
  BY PackagesTyped
<1>13. Packages(t) # Unread
  BY <1>12, UnreadAssumption
<1>14. /\ Known[c] = Unread /\ Known'[c] = Packages(t)
       /\ \A x \in Categories : x # c => Known'[x] = Known[x]
  <2>1. \A x \in Categories : Known'[x] = IF IsKnown(x)' THEN Packages(cache'[x]) ELSE Unread
    BY DEF Known, IsKnown, Packages
  <2>2. \A x \in Categories : Known[x] = IF IsKnown(x) THEN Packages(cache[x]) ELSE Unread
    BY DEF Known, IsKnown
  <2> QED  BY <1>4, <1>6, <1>8, <2>1, <2>2
<1>15. Known = [x \in Categories |-> Known[x]] /\ Known' = [x \in Categories |-> Known'[x]]
  BY DEF Known
<1>16. Service!Learned(c)
  <2>1. Known' = [Known EXCEPT ![c] = Known'[c]]
    BY <1>14, <1>15
  <2> QED  BY <1>12, <1>13, <1>14, <2>1 DEF Service!Learned
<1>17. CASE at = "initScan"
  <2>1. UNCHANGED answer
    BY <1>17 DEF EndScan
  <2> QED  BY <1>10, <1>11, <1>16, <2>1 DEF ServiceStep, Service!Next, Service!Learn
<1>18. CASE at = "queryScan"
  <2>1. query \in Queries /\ c = query.cat
    BY <1>3, <1>18 DEF ServiceInv, UnknownInv
  <2>2. answer' = Found(t, query)
    BY <1>3, <1>18 DEF EndScan
  <2>3. /\ answer'.ok /\ answer'.query = query
        /\ Service!Lists(answer'.list, Service!Matching(Packages(t), query), query.ascending)
    BY <1>6, <2>1, <2>2, FoundLists
  <2>4. Service!Answer
    BY <1>13, <1>14, <1>16, <2>1, <2>3 DEF Service!Answer
  <2> QED  BY <1>10, <1>11, <2>4 DEF ServiceStep, Service!Next
<1> QED  BY <1>1, <1>17, <1>18 DEF Scanning

\* A query is answered from what is known, or nothing can be known yet, or
\* the category is opened, or the service refuses because that fails.
LEMMA ServiceFind ==
    ASSUME ServiceInv, NEW q \in Queries, Find(q)
    PROVE  TablesInv' /\ UnknownInv' /\ ServiceStep
<1>1. at = "idle" /\ query' = q /\ UNCHANGED <<cache, todo>>
  BY DEF Find
<1>2. q.cat \in Categories
  BY DEF Queries
<1>3. \A x : IsKnown(x)' <=> IsKnown(x)
  BY <1>1 DEF IsKnown
<1>4. Known' = Known
  BY <1>1, <1>3, KnownKept
<1>5. todo = {}
  BY <1>1 DEF ServiceInv, UnknownInv
<1>6. CASE at' = "idle"
  <2>1. TablesInv' /\ UnknownInv'
    BY <1>1, <1>3, <1>6 DEF ServiceInv, TablesInv, UnknownInv, Scanning, IsKnown
  <2>2. CASE q.cat \in DOMAIN cache /\ IsCached(q.cat)
    <3>1. IsKnown(q.cat) /\ answer' = Found(cache[q.cat], q)
      BY <2>2 DEF Find, IsKnown, IsCached
    <3>2. cache[q.cat] \in Tables /\ Sorted(cache[q.cat])
      BY <2>2, <3>1 DEF ServiceInv, TablesInv
    <3>3. /\ answer'.ok /\ answer'.query = q
          /\ Service!Lists(answer'.list, Service!Matching(Packages(cache[q.cat]), q), q.ascending)
      BY <3>1, <3>2, FoundLists
    <3>4. Known[q.cat] = Packages(cache[q.cat])
      BY <1>2, <3>1, KnownAt
    <3>5. Known[q.cat] # Unread
      <4>1. Packages(cache[q.cat]) \in SUBSET PV
        BY <3>2, PackagesTyped
      <4> QED  BY <3>4, <4>1, UnreadAssumption
    <3>6. Service!Answer
      BY <1>4, <3>3, <3>4, <3>5 DEF Service!Answer
    <3> QED  BY <2>1, <3>6 DEF ServiceStep, Service!Next
  <2>3. CASE ~(q.cat \in DOMAIN cache /\ IsCached(q.cat))
    <3>1. answer' = NoPackages(q) \/ answer' = Refusal(q)
      BY <1>1, <1>6, <2>3 DEF Find
    <3>2. Known[q.cat] = Unread
      BY <1>2, <2>3, KnownAt DEF IsKnown, IsCached
    <3>3. CASE answer' = NoPackages(q)
      <4>1. answer'.ok /\ answer'.query = q /\ answer'.list = <<>>
        BY <3>3 DEF NoPackages
      <4>2. Service!Answer
        BY <1>4, <3>2, <4>1, EmptyLists DEF Service!Answer
      <4> QED  BY <2>1, <4>2 DEF ServiceStep, Service!Next
    <3>4. CASE answer' = Refusal(q)
      <4>1. ~answer'.ok /\ answer'.query = q
        BY <3>4 DEF Refusal
      <4>2. Service!Refuse
        BY <1>4, <3>2, <4>1 DEF Service!Refuse
      <4> QED  BY <2>1, <4>2 DEF ServiceStep, Service!Next
    <3> QED  BY <3>1, <3>3, <3>4
  <2> QED  BY <2>2, <2>3
<1>7. CASE at' = "queryScan"
  <2>1. OpenDir(q.cat) /\ ~IsCached(q.cat) /\ UNCHANGED answer
    BY <1>1, <1>7 DEF Find
  <2>2. ~IsKnown(q.cat)
    BY <2>1 DEF IsKnown, IsCached
  <2>3. scan'.cat = q.cat /\ DOMAIN scan'.found = {}
    BY <2>1 DEF OpenDir
  <2>4. TablesInv'
    BY <1>1, <1>3, <2>3 DEF ServiceInv, TablesInv, Sorted, IsKnown
  <2>5. UnknownInv'
    BY <1>1, <1>3, <1>5, <1>7, <2>2, <2>3 DEF ServiceInv, UnknownInv
  <2> QED  BY <1>4, <2>1, <2>4, <2>5 DEF ServiceStep
<1> QED  BY <1>1, <1>6, <1>7 DEF Find

\* What the package manager does is not seen by the clients.
LEMMA ServiceChange ==
    ASSUME ServiceInv, NEW c \in Categories, NEW entries, Change(c, entries)
    PROVE  TablesInv' /\ UnknownInv' /\ ServiceStep
<1>1. UNCHANGED <<cache, todo, at, query, answer>>
  BY DEF Change
<1>2. \A x : IsKnown(x)' <=> IsKnown(x)
  BY <1>1 DEF IsKnown
<1>3. Scanning => scan'.cat = scan.cat /\ scan'.found = scan.found
  <2> SUFFICES ASSUME Scanning PROVE scan'.cat = scan.cat /\ scan'.found = scan.found
    OBVIOUS
  <2>1. scan \in [cat: Categories, done: SUBSET Entries, found: Tables,
                  opened: SUBSET Entries, always: SUBSET PV, ever: SUBSET PV]
    BY DEF ServiceInv, CacheInv, ScanInv
  <2> QED  BY <2>1 DEF Change
<1>4. TablesInv'
  BY <1>1, <1>2, <1>3 DEF ServiceInv, TablesInv, Scanning, Sorted, IsKnown
<1>5. UnknownInv'
  BY <1>1, <1>2, <1>3 DEF ServiceInv, UnknownInv, Scanning
<1> QED  BY <1>1, <1>2, <1>4, <1>5, KnownKept DEF ServiceStep

LEMMA ServiceInit == Init => ServiceInv
<1> SUFFICES ASSUME Init PROVE ServiceInv
  OBVIOUS
<1>1. at = "new" /\ cache = <<>> /\ todo = {}
  BY DEF Init
<1>2. DOMAIN cache = {}
  BY <1>1
<1>3. TablesInv /\ UnknownInv
  BY <1>1, <1>2 DEF TablesInv, UnknownInv, Scanning, IsKnown
<1> QED  BY <1>3, CacheInit DEF ServiceInv

LEMMA ServiceNext == ServiceInv /\ [Next]_vars => ServiceInv' /\ ServiceStep
<1> SUFFICES ASSUME ServiceInv, [Next]_vars PROVE ServiceInv' /\ ServiceStep
  OBVIOUS
<1>1. CacheInv'
  BY CacheStep DEF ServiceInv
<1>2. CASE New
  BY <1>1, <1>2, ServiceNew DEF ServiceInv
<1>3. CASE InitDone
  <2>1. at = "init" /\ at' = "idle" /\ todo = {} /\ UNCHANGED <<cache, todo, answer>>
    BY <1>3 DEF InitDone
  <2>2. \A x : IsKnown(x)' <=> IsKnown(x)
    BY <2>1 DEF IsKnown
  <2>3. TablesInv' /\ UnknownInv'
    BY <2>1, <2>2 DEF ServiceInv, TablesInv, UnknownInv, Scanning
  <2> QED  BY <1>1, <2>1, <2>2, <2>3, KnownKept DEF ServiceInv, ServiceStep
<1>4. CASE EndScan
  BY <1>1, <1>4, ServiceEnd DEF ServiceInv
<1>5. ASSUME NEW c \in Categories, PopulateNext(c)
      PROVE  ServiceInv' /\ ServiceStep
  BY <1>1, <1>5, ServicePopulate DEF ServiceInv
<1>6. ASSUME NEW e \in Entries, ReadEntry(e)
      PROVE  ServiceInv' /\ ServiceStep
  BY <1>1, <1>6, ServiceRead DEF ServiceInv
<1>7. ASSUME NEW q \in Queries, Find(q)
      PROVE  ServiceInv' /\ ServiceStep
  BY <1>1, <1>7, ServiceFind DEF ServiceInv
<1>8. CASE PackageManager
  <2>1. PICK c, entries : c \in Categories /\ Change(c, entries)
    BY <1>8, ValidAssumption DEF PackageManager, Install, RemoveFiles, RemoveDir
  <2> QED  BY <1>1, <2>1, ServiceChange DEF ServiceInv
<1>9. CASE UNCHANGED process
  <2>1. UNCHANGED <<cache, todo, at, scan, query, answer>>
    BY <1>9 DEF process
  <2>2. \A x : IsKnown(x)' <=> IsKnown(x)
    BY <2>1 DEF IsKnown
  <2>3. TablesInv' /\ UnknownInv'
    BY <2>1, <2>2 DEF ServiceInv, TablesInv, UnknownInv, Scanning, Sorted
  <2> QED  BY <1>1, <2>1, <2>2, <2>3, KnownKept DEF ServiceInv, ServiceStep
<1>10. UNCHANGED vars => UNCHANGED process
  BY DEF vars, process
<1>11. ASSUME NEW c \in ValidCategories, ChangeRights(c)
       PROVE  ServiceInv' /\ ServiceStep
  BY <1>9, <1>11 DEF ChangeRights
<1>12. CASE NewFails
  BY <1>1, <1>12, ServiceNewFails DEF ServiceInv
<1> QED  BY <1>2, <1>3, <1>4, <1>5, <1>6, <1>7, <1>8, <1>9, <1>10, <1>11, <1>12
         DEF Next, Work, Others

\* Whatever the package manager does, the vartree implements InstalledPackages:
\* a category is learned once, at the start or for a query, and every answer is
\* the ordered list of what matches in it (cportage.h:576-588).
THEOREM OneReadForAllQueries == Spec => AnswersFromOneRead
<1>1. Init => Service!Init
  <2> SUFFICES ASSUME Init PROVE Service!Init
    OBVIOUS
  <2>1. cache = <<>> /\ answer = NoAnswer
    BY DEF Init
  <2>2. \A c \in Categories : ~IsKnown(c)
    BY <2>1 DEF IsKnown
  <2>3. Known = [c \in Categories |-> Unread]
    BY <2>2 DEF Known, IsKnown
  <2>4. answer.ok /\ answer.list = <<>>
    BY <2>1 DEF NoAnswer
  <2> QED  BY <2>3, <2>4 DEF Service!Init
<1>2. ServiceInv /\ [Next]_vars => [Service!Next]_(Service!state)
  BY ServiceNext DEF ServiceStep, Service!state
<1>3. ServiceInv /\ [Next]_vars => ServiceInv'
  BY ServiceNext
<1> QED  BY <1>1, <1>2, <1>3, ServiceInit, PTL DEF Spec, AnswersFromOneRead, Service!Spec

-----------------------------------------------------------------------------
\* What holds as long as nobody changes the disk.
QuietInv == ServiceInv /\ UndisturbedInv /\ UndisturbedAnswer

LEMMA DiskKept ==
    ASSUME UNCHANGED disk
    PROVE  /\ \A c : NotScannable(c)' <=> NotScannable(c)
           /\ \A c : Whole(c)' = Whole(c)
           /\ \A c, e : Condition(c, e)' = Condition(c, e)
  BY DEF NotScannable, IsDir, Whole, Condition

LEMMA UnreadableKept ==
    ASSUME UNCHANGED <<disk, closed>>
    PROVE  \A c : Unreadable(c)' <=> Unreadable(c)
  BY DiskKept DEF Unreadable

LEMMA AnswerKept ==
    ASSUME UndisturbedAnswer, UNCHANGED <<disk, closed, changes, answer>>,
           at' = "failed" => at = "failed"
    PROVE  UndisturbedAnswer'
  BY DiskKept, UnreadableKept DEF UndisturbedAnswer

\* The vartree cannot be made, because of one directory.
LEMMA NotMade ==
    ASSUME UndisturbedAnswer, UNCHANGED <<disk, closed, changes, answer>>,
           VdbPath \in closed \/ \E c \in Categories : Unreadable(c)
    PROVE  UndisturbedAnswer'
  BY DiskKept, UnreadableKept DEF UndisturbedAnswer

\* A query is refused, because of its category.
LEMMA Refused ==
    ASSUME NEW q, Unreadable(q.cat), UNCHANGED <<disk, closed>>,
           answer' = Refusal(q), at' # "failed"
    PROVE  UndisturbedAnswer'
<1>1. ~answer'.ok /\ answer'.query = q
  BY DEF Refusal
<1>2. Unreadable(q.cat)'
  BY UnreadableKept
<1> QED  BY <1>1, <1>2 DEF UndisturbedAnswer

\* An answer from a table of just what is installed.
LEMMA AnswerWhole ==
    ASSUME NEW table \in Tables, Sorted(table), NEW q \in Queries, ~NotScannable(q.cat),
           Packages(table) = Whole(q.cat), UNCHANGED disk, answer' = Found(table, q),
           at' # "failed"
    PROVE  UndisturbedAnswer'
<1>1. /\ answer'.ok /\ answer'.query = q
      /\ Service!Lists(answer'.list, Service!Matching(Packages(table), q), q.ascending)
  BY FoundLists
<1>2. Range(answer'.list) = {v \in q.matching : [name |-> q.name, ver |-> v] \in Whole(q.cat)}
  BY <1>1 DEF Service!Lists, Service!Range, Range, Service!Matching
<1>3. ~NotScannable(q.cat)' /\ Whole(q.cat)' = Whole(q.cat)
  BY DiskKept
<1> QED  BY <1>1, <1>2, <1>3 DEF UndisturbedAnswer

\* The answer for a category that has no packages.
LEMMA AnswerNone ==
    ASSUME NEW q, NotScannable(q.cat), UNCHANGED disk, answer' = NoPackages(q),
           at' # "failed"
    PROVE  UndisturbedAnswer'
<1>1. answer'.ok /\ answer'.query = q /\ answer'.list = <<>>
  BY DEF NoPackages
<1>2. Range(answer'.list) = {}
  BY <1>1 DEF Range
<1>3. NotScannable(q.cat)'
  BY DiskKept
<1> QED  BY <1>1, <1>2, <1>3 DEF UndisturbedAnswer

LEMMA QuietNew ==
    ASSUME QuietInv, New, changes = 0
    PROVE  UndisturbedInv' /\ UndisturbedAnswer'
<1>1. /\ at = "new" /\ at' = "init" /\ UNCHANGED <<disk, closed, changes, answer>>
      /\ cache' = IF lazy THEN [c \in Present |-> Unread] ELSE <<>>
      /\ todo' = IF lazy THEN {} ELSE Present
  BY DEF New
<1>2. \A c : ~IsKnown(c)'
  BY <1>1 DEF IsKnown
<1>3. \A c \in Categories : ~NotScannable(c) => c \in Present
  BY DEF NotScannable, IsDir, Present
<1>4. DOMAIN cache' \cup todo' = Present
  BY <1>1
<1>5. UndisturbedInv'
  BY <1>1, <1>2, <1>3, <1>4, DiskKept DEF QuietInv, UndisturbedInv, Scanning
<1> QED  BY <1>1, <1>5, AnswerKept DEF QuietInv

LEMMA QuietNewFails ==
    ASSUME QuietInv, NewFails, changes = 0
    PROVE  UndisturbedInv' /\ UndisturbedAnswer'
<1>1. /\ at' = "failed" /\ UNCHANGED <<disk, closed, changes, cache, answer>>
      /\ VdbPath \in closed \/ \E c \in todo \cap closed : ~NotScannable(c)
  BY DEF NewFails
<1>2. VdbPath \in closed \/ \E c \in Categories : Unreadable(c)
  BY <1>1 DEF Unreadable, QuietInv, ServiceInv, UnknownInv
<1>3. \A x : IsKnown(x)' <=> IsKnown(x)
  BY <1>1 DEF IsKnown
<1>4. UndisturbedInv'
  BY <1>1, <1>3, DiskKept DEF QuietInv, UndisturbedInv, Scanning, Packages
<1> QED  BY <1>1, <1>2, <1>4, NotMade DEF QuietInv

LEMMA QuietPopulate ==
    ASSUME QuietInv, NEW c \in Categories, PopulateNext(c), changes = 0
    PROVE  UndisturbedInv' /\ UndisturbedAnswer'
<1>1. at = "init" /\ c \in todo /\ todo' = todo \ {c} /\ UNCHANGED <<disk, closed, changes, answer>>
  BY DEF PopulateNext
<1>2. ~IsKnown(c)
  BY <1>1 DEF QuietInv, ServiceInv, UnknownInv
<1>3. CASE NotScannable(c)
  <2>1. at' = "init" /\ cache' = Bind(cache, c, Unread)
    BY <1>1, <1>3 DEF PopulateNext
  <2>2. DOMAIN cache' = DOMAIN cache \cup {c}
    BY <2>1 DEF Bind
  <2>3. \A x : (IsKnown(x)' <=> IsKnown(x)) /\ (IsKnown(x) => cache'[x] = cache[x])
    BY <1>2, <2>1 DEF IsKnown, Bind
  <2>4. \A x \in Categories : IsKnown(x)' => Packages(cache'[x]) = Packages(cache[x])
    BY <2>3
  <2>5. UndisturbedInv'
    BY <1>1, <1>3, <2>1, <2>2, <2>3, <2>4, DiskKept DEF QuietInv, UndisturbedInv, Scanning, Packages
  <2> QED  BY <1>1, <2>1, <2>5, AnswerKept DEF QuietInv
<1>4. CASE ~NotScannable(c)
  <2>1. at' = "initScan" /\ OpenDir(c) /\ UNCHANGED cache
    BY <1>1, <1>4 DEF PopulateNext
  <2>2. /\ scan'.cat = c /\ scan'.opened = DOMAIN disk[c]
        /\ scan'.always = Whole(c) /\ scan'.ever = Whole(c)
    BY <2>1 DEF OpenDir
  <2>3. \A x : IsKnown(x)' <=> IsKnown(x)
    BY <2>1 DEF IsKnown
  <2>4. UndisturbedInv'
    BY <1>1, <1>4, <2>1, <2>2, <2>3, DiskKept DEF QuietInv, UndisturbedInv, Packages
  <2> QED  BY <1>1, <2>1, <2>4, AnswerKept DEF QuietInv
<1> QED  BY <1>3, <1>4

\* Without changes, only a package with a missing or invalid file ends a scan.
LEMMA QuietRead ==
    ASSUME QuietInv, NEW e \in Entries, ReadEntry(e), changes = 0
    PROVE  UndisturbedInv' /\ UndisturbedAnswer'
<1>1. /\ Scanning /\ UNCHANGED <<disk, closed, changes, todo, cache>>
      /\ e \in scan.opened \/ Condition(scan.cat, e) # "gone"
  BY DEF ReadEntry, ScanFails
<1>2. scan \in [cat: Categories, done: SUBSET Entries, found: Tables,
                opened: SUBSET Entries, always: SUBSET PV, ever: SUBSET PV]
  BY <1>1 DEF QuietInv, ServiceInv, CacheInv, ScanInv
<1>3. \A x : IsKnown(x)' <=> IsKnown(x)
  BY <1>1 DEF IsKnown
<1>4. /\ ~NotScannable(scan.cat) /\ scan.opened = DOMAIN disk[scan.cat]
      /\ scan.always = Whole(scan.cat) /\ scan.ever = Whole(scan.cat)
  BY <1>1 DEF QuietInv, UndisturbedInv
<1>5. CASE ScanFails /\ e \in PV /\ Condition(scan.cat, e) # "whole"
  <2>1. Condition(scan.cat, e) = "partial"
    <3>1. IsDir(scan.cat) /\ disk[scan.cat] \in Directories
      BY <1>2, <1>4 DEF NotScannable, IsDir, QuietInv, ServiceInv, CacheInv, DiskOK
    <3>2. e \in DOMAIN disk[scan.cat]
      BY <1>1, <1>4 DEF Condition
    <3>3. disk[scan.cat][e] \in Conditions
      BY <3>1, <3>2 DEF Directories
    <3> QED  BY <1>5, <3>1, <3>2, <3>3 DEF Condition, Conditions
  <2>2. at' \in {"failed", "idle"} /\ (at = "queryScan" => at' = "idle") /\ (at = "initScan" => at' = "failed")
    BY <1>5 DEF ScanFails
  <2>3. UndisturbedInv'
    BY <1>1, <1>3, <2>2, DiskKept DEF QuietInv, UndisturbedInv, Scanning, Packages
  <2>4. CASE at = "initScan"
    <3>1. UNCHANGED answer
      BY <1>5, <2>4 DEF ScanFails
    <3>2. scan.cat \in Categories /\ Unreadable(scan.cat)
      BY <1>2, <1>4, <1>5, <2>1 DEF Unreadable
    <3> QED  BY <1>1, <2>3, <3>1, <3>2, NotMade DEF QuietInv
  <2>5. CASE at = "queryScan"
    <3>1. answer' = Refusal(query) /\ scan.cat = query.cat
      BY <1>5, <2>5 DEF ScanFails, QuietInv, ServiceInv, UnknownInv
    <3>2. Unreadable(query.cat)
      BY <1>4, <1>5, <2>1, <3>1 DEF Unreadable
    <3> QED  BY <1>1, <2>2, <2>3, <2>5, <3>1, <3>2, Refused
  <2> QED  BY <1>1, <2>4, <2>5 DEF Scanning
<1>6. CASE /\ UNCHANGED <<at, cache, answer>> /\ scan'.cat = scan.cat
           /\ scan'.opened = scan.opened /\ scan'.always = scan.always /\ scan'.ever = scan.ever
  <2>1. UndisturbedInv'
    BY <1>1, <1>3, <1>6, DiskKept DEF QuietInv, UndisturbedInv, Scanning, Packages
  <2> QED  BY <1>1, <1>6, <2>1, AnswerKept DEF QuietInv
<1>7. CASE UNCHANGED <<at, cache, answer>> /\ scan' = [scan EXCEPT !.done = @ \cup {e}]
  BY <1>2, <1>6, <1>7
<1>8. CASE /\ UNCHANGED <<at, cache, answer>>
           /\ scan' = [scan EXCEPT !.done = @ \cup {e}, !.found = InsertPackage(@, e)]
  BY <1>2, <1>6, <1>8
<1> QED  BY <1>5, <1>7, <1>8 DEF ReadEntry

\* At the end of a scan what is found is what is installed.
LEMMA QuietEnd ==
    ASSUME QuietInv, EndScan, changes = 0
    PROVE  UndisturbedInv' /\ UndisturbedAnswer'
<1>1. /\ Scanning /\ UNCHANGED <<disk, closed, changes, todo, query>>
      /\ cache' = Bind(cache, scan.cat, scan.found)
      /\ at' \in {"init", "idle"}
      /\ \A e \in scan.opened \ scan.done : Condition(scan.cat, e) = "gone"
  BY DEF EndScan
<1>2. /\ scan \in [cat: Categories, done: SUBSET Entries, found: Tables,
                   opened: SUBSET Entries, always: SUBSET PV, ever: SUBSET PV]
      /\ Packages(scan.found) = scan.done \cap PV
      /\ scan.always \subseteq scan.opened \cap Whole(scan.cat)
      /\ scan.done \cap PV \subseteq scan.ever
  BY <1>1 DEF QuietInv, ServiceInv, CacheInv, ScanInv
<1>3. PICK c \in Categories, t \in Tables : c = scan.cat /\ t = scan.found
  BY <1>2
<1>4. Sorted(t) /\ ~NotScannable(c) /\ scan.always = Whole(c) /\ scan.ever = Whole(c)
  BY <1>1, <1>3 DEF QuietInv, ServiceInv, TablesInv, UndisturbedInv
<1>5. Packages(t) = Whole(c)
  <2>1. Packages(t) \subseteq Whole(c)
    BY <1>2, <1>3, <1>4
  <2>2. ASSUME NEW p \in Whole(c)
        PROVE  p \in Packages(t)
    <3>1. p \in scan.opened /\ p \in PV /\ Condition(c, p) = "whole"
      BY <1>2, <1>3, <1>4 DEF Whole
    <3>2. p \in scan.done
      BY <1>1, <1>3, <3>1
    <3> QED  BY <1>2, <1>3, <3>1, <3>2
  <2> QED  BY <2>1, <2>2
<1>6. DOMAIN cache' = DOMAIN cache \cup {c} /\ cache'[c] = t
  BY <1>1, <1>3 DEF Bind
<1>7. \A x : x # c => (IsKnown(x)' <=> IsKnown(x)) /\ (IsKnown(x) => cache'[x] = cache[x])
  BY <1>1, <1>3 DEF Bind, IsKnown
<1>8. ASSUME NEW x \in Categories, IsKnown(x)'
      PROVE  ~NotScannable(x)' /\ Packages(cache[x])' = Whole(x)'
  <2>1. CASE x = c
    <3>1. Packages(cache[x])' = Packages(t)
      BY <1>6, <2>1 DEF Packages
    <3> QED  BY <1>1, <1>4, <1>5, <2>1, <3>1, DiskKept
  <2>2. CASE x # c
    <3>1. IsKnown(x) /\ cache'[x] = cache[x]
      BY <1>7, <1>8, <2>2
    <3>2. ~NotScannable(x) /\ Packages(cache[x]) = Whole(x)
      BY <3>1 DEF QuietInv, UndisturbedInv
    <3>3. Packages(cache[x])' = Packages(cache[x])
      BY <3>1 DEF Packages
    <3> QED  BY <1>1, <3>2, <3>3, DiskKept
  <2> QED  BY <2>1, <2>2
<1>9. UndisturbedInv'
  <2>1. \A x \in Categories : ~NotScannable(x)' => x \in DOMAIN cache' \cup todo'
    BY <1>1, <1>3, <1>6, DiskKept DEF QuietInv, UndisturbedInv, Scanning
  <2> QED  BY <1>1, <1>8, <2>1 DEF QuietInv, UndisturbedInv, Scanning
<1>10. CASE at = "initScan"
  <2>1. UNCHANGED answer
    BY <1>10 DEF EndScan
  <2> QED  BY <1>1, <1>9, <2>1, AnswerKept DEF QuietInv
<1>11. CASE at = "queryScan"
  <2>1. query \in Queries /\ c = query.cat
    BY <1>3, <1>11 DEF QuietInv, ServiceInv, UnknownInv
  <2>2. answer' = Found(t, query)
    BY <1>3, <1>11 DEF EndScan
  <2> QED  BY <1>1, <1>4, <1>5, <1>9, <2>1, <2>2, AnswerWhole
<1> QED  BY <1>1, <1>10, <1>11 DEF Scanning

LEMMA QuietFind ==
    ASSUME QuietInv, NEW q \in Queries, Find(q), changes = 0
    PROVE  UndisturbedInv' /\ UndisturbedAnswer'
<1>1. at = "idle" /\ UNCHANGED <<disk, closed, changes, cache, todo>> /\ q.cat \in Categories
  BY DEF Find, Queries
<1>2. \A x : (IsKnown(x)' <=> IsKnown(x)) /\ Packages(cache[x])' = Packages(cache[x])
  BY <1>1 DEF IsKnown, Packages
<1>3. todo = {}
  BY <1>1 DEF QuietInv, ServiceInv, UnknownInv
<1>4. CASE at' = "idle"
  <2>1. UndisturbedInv'
    BY <1>1, <1>2, <1>4, DiskKept DEF QuietInv, UndisturbedInv, Scanning
  <2>2. CASE q.cat \in DOMAIN cache /\ IsCached(q.cat)
    <3>1. IsKnown(q.cat) /\ answer' = Found(cache[q.cat], q)
      BY <2>2 DEF Find, IsKnown, IsCached
    <3>2. cache[q.cat] \in Tables /\ Sorted(cache[q.cat])
      BY <2>2, <3>1 DEF QuietInv, ServiceInv, TablesInv
    <3>3. ~NotScannable(q.cat) /\ Packages(cache[q.cat]) = Whole(q.cat)
      BY <1>1, <3>1 DEF QuietInv, UndisturbedInv
    <3> QED  BY <1>1, <1>4, <2>1, <3>1, <3>2, <3>3, AnswerWhole
  <2>3. CASE q.cat \in DOMAIN cache /\ ~IsCached(q.cat)
    <3>1. \/ answer' = NoPackages(q) /\ NotScannable(q.cat)
          \/ answer' = Refusal(q) /\ ~NotScannable(q.cat) /\ q.cat \in closed
      BY <1>1, <1>4, <2>3 DEF Find
    <3>2. CASE answer' = NoPackages(q) /\ NotScannable(q.cat)
      BY <1>1, <1>4, <2>1, <3>2, AnswerNone
    <3>3. CASE answer' = Refusal(q) /\ ~NotScannable(q.cat) /\ q.cat \in closed
      <4>1. Unreadable(q.cat)
        BY <3>3 DEF Unreadable
      <4> QED  BY <1>1, <1>4, <2>1, <3>3, <4>1, Refused
    <3> QED  BY <3>1, <3>2, <3>3
  <2>4. CASE q.cat \notin DOMAIN cache
    <3>1. answer' = NoPackages(q)
      BY <1>1, <1>4, <2>4 DEF Find
    <3>2. NotScannable(q.cat)
      BY <1>1, <1>3, <2>4 DEF QuietInv, UndisturbedInv
    <3> QED  BY <1>1, <1>4, <2>1, <3>1, <3>2, AnswerNone
  <2> QED  BY <2>2, <2>3, <2>4
<1>5. CASE at' = "queryScan"
  <2>1. OpenDir(q.cat) /\ ~NotScannable(q.cat) /\ UNCHANGED answer
    BY <1>1, <1>5 DEF Find
  <2>2. /\ scan'.cat = q.cat /\ scan'.opened = DOMAIN disk[q.cat]
        /\ scan'.always = Whole(q.cat) /\ scan'.ever = Whole(q.cat)
    BY <2>1 DEF OpenDir
  <2>3. UndisturbedInv'
    BY <1>1, <1>2, <1>5, <2>1, <2>2, DiskKept DEF QuietInv, UndisturbedInv
  <2> QED  BY <1>1, <1>5, <2>1, <2>3, AnswerKept DEF QuietInv
<1> QED  BY <1>1, <1>4, <1>5 DEF Find

LEMMA QuietInit == Init => QuietInv
<1> SUFFICES ASSUME Init PROVE QuietInv
  OBVIOUS
<1>1. at = "new" /\ cache = <<>> /\ changes = 0 /\ answer.query = NoQuery
  BY DEF Init, NoAnswer
<1>2. UndisturbedInv
  BY <1>1 DEF UndisturbedInv, Scanning, IsKnown
<1> QED  BY <1>1, <1>2, ServiceInit DEF QuietInv, UndisturbedAnswer

LEMMA QuietNext == QuietInv /\ [Next]_vars => QuietInv'
<1> SUFFICES ASSUME QuietInv, [Next]_vars PROVE QuietInv'
  OBVIOUS
<1>1. ServiceInv'
  BY ServiceNext DEF QuietInv
<1>2. changes \in Nat
  BY DEF QuietInv, UndisturbedInv
<1>3. ASSUME changes' \in Nat, changes' # 0
      PROVE  UndisturbedInv' /\ UndisturbedAnswer'
  BY <1>3 DEF UndisturbedInv, UndisturbedAnswer
<1>4. CASE Others
  <2>1. changes' = changes + 1
    BY <1>4 DEF Others, PackageManager, Install, RemoveFiles, RemoveDir, Change, ChangeRights
  <2>2. changes' \in Nat /\ changes' # 0
    BY <1>2, <2>1
  <2> QED  BY <1>1, <1>3, <2>2 DEF QuietInv
<1>5. CASE UNCHANGED vars
  <2>1. UNCHANGED <<disk, closed, changes, cache, todo, at, scan, answer>>
    BY <1>5 DEF vars
  <2>2. UndisturbedInv'
    BY <2>1, DiskKept DEF QuietInv, UndisturbedInv, Scanning, IsKnown, Packages
  <2> QED  BY <1>1, <2>1, <2>2, AnswerKept DEF QuietInv
<1>6. CASE InitDone
  <2>1. /\ at = "init" /\ at' = "idle" /\ UNCHANGED <<disk, closed, changes, cache, todo, answer>>
    BY <1>6 DEF InitDone
  <2>2. UndisturbedInv'
    BY <2>1, DiskKept DEF QuietInv, UndisturbedInv, Scanning, IsKnown, Packages
  <2> QED  BY <1>1, <2>1, <2>2, AnswerKept DEF QuietInv
<1>7. CASE Work \/ \E q \in Queries : Find(q)
  <2>1. UNCHANGED changes
    BY <1>7 DEF Work, New, NewFails, PopulateNext, InitDone, ReadEntry, EndScan, Find
  <2>2. CASE changes # 0
    BY <1>1, <1>2, <1>3, <2>1, <2>2 DEF QuietInv
  <2>3. CASE changes = 0
    BY <1>1, <1>6, <1>7, <2>3, QuietNew, QuietNewFails, QuietPopulate, QuietRead, QuietEnd, QuietFind DEF QuietInv, Work
  <2> QED  BY <2>2, <2>3
<1> QED  BY <1>4, <1>5, <1>7 DEF Next

\* Lazy or not: as long as nobody changes the disk, a query answers what is
\* installed, and fails only on a category that cannot be opened or has a
\* package that cannot be loaded (cp_vartree_find_packages, populate_cache).
THEOREM LazyOrNot == Spec => []UndisturbedAnswer
<1>1. QuietInv => UndisturbedAnswer
  BY DEF QuietInv
<1> QED  BY <1>1, QuietInit, QuietNext, PTL DEF Spec
=============================================================================
