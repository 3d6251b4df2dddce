--------------------------- MODULE LifetimesProofs ---------------------------
(***************************************************************************)
(* Proofs about Lifetimes, for any number of references the client may     *)
(* hold: the counts are the references of the settings plus those of the   *)
(* client, so that no order of calls frees too early or twice.  The client *)
(* is that of Spec, for which cp_settings_get_repository lends.            *)
(***************************************************************************)
EXTENDS Lifetimes, RefCountsProofs

\* The references an object has from the settings that are still there.
Owned(o) == IF "settings" \in memory.freed \/ o = "settings" THEN 0
            ELSE IF o = "main" THEN 2 ELSE 1

LifeTypeOK ==
    /\ memory \in Memories(Objects)
    /\ held \in [Objects -> Nat]
    /\ lent \subseteq Repositories

\* The client has the settings as long as they lend it something.
LentByTheHeld == lent # {} => held["settings"] > 0

CountsAddUp ==
    \A o \in Objects :
        /\ memory.refs[o] = Owned(o) + held[o]
        /\ o \in memory.freed <=> memory.refs[o] = 0

LifeInv == LifeTypeOK /\ ClientIsSafe /\ CountsAddUp /\ LentByTheHeld

\* UnrefEffect of the objects here.
LEMMA UnrefObject ==
    ASSUME NEW m \in Memories(Objects), NEW o \in Objects,
           m.fault = "none", o \notin m.freed, m.refs[o] # 0
    PROVE  /\ Unref(m, o) \in Memories(Objects)
           /\ Unref(m, o).refs = [m.refs EXCEPT ![o] = @ - 1]
           /\ Unref(m, o).freed = IF m.refs[o] = 1 THEN m.freed \cup {o} ELSE m.freed
           /\ Unref(m, o).fault = "none"
BY UnrefEffect

\* A new reference to o, in the memory and in the client's hands, keeps the sum.
LEMMA TakingKeeps ==
    ASSUME LifeInv, NEW o \in Objects, o \notin memory.freed,
           memory' = Ref(memory, o), held' = [held EXCEPT ![o] = @ + 1], lent' = lent
    PROVE  LifeInv'
<1>1. /\ memory' \in Memories(Objects)
      /\ memory'.refs = [memory.refs EXCEPT ![o] = @ + 1]
      /\ memory'.freed = memory.freed
      /\ memory'.fault = "none"
  BY RefEffect DEF LifeInv, LifeTypeOK, ClientIsSafe
<1>2. held' \in [Objects -> Nat]
  BY DEF LifeInv, LifeTypeOK
<1>3. memory.refs \in [Objects -> Nat] /\ held \in [Objects -> Nat]
  BY DEF LifeInv, LifeTypeOK, Memories
<1>4. \A p \in Objects : Owned(p)' = Owned(p) /\ Owned(p) \in Nat
  BY <1>1 DEF Owned
<1>5. CountsAddUp'
  BY <1>1, <1>3, <1>4 DEF LifeInv, CountsAddUp
<1>6. LentByTheHeld'
  <2>1. held["settings"] \in Nat /\ held["settings"]' >= held["settings"]
    BY <1>3 DEF Objects
  <2> QED  BY <1>2, <2>1 DEF LifeInv, LentByTheHeld, Objects
<1> QED  BY <1>1, <1>2, <1>5, <1>6 DEF LifeInv, LifeTypeOK, ClientIsSafe

\* A client that gives back a repository it holds keeps the invariant
\* (cp_repository_unref).
LEMMA RepositoryUnrefKeeps ==
    ASSUME LifeInv, NEW r \in Repositories, RepositoryUnref(r)
    PROVE  LifeInv'
<1>1. memory.refs \in [Objects -> Nat] /\ held \in [Objects -> Nat] /\ memory \in Memories(Objects)
  BY DEF LifeInv, LifeTypeOK, Memories
<1>2. r \in Objects /\ r # "settings" /\ held[r] > 0 /\ held' = [held EXCEPT ![r] = @ - 1]
  BY DEF RepositoryUnref, Give, Objects, Repositories
<1>3. \A p \in Objects : Owned(p) \in Nat
  BY DEF Owned
<1>4. memory.refs[r] # 0 /\ r \notin memory.freed /\ memory.fault = "none"
  BY <1>1, <1>2, <1>3 DEF LifeInv, CountsAddUp, ClientIsSafe
<1>5. /\ memory' \in Memories(Objects)
      /\ memory'.refs = [memory.refs EXCEPT ![r] = @ - 1]
      /\ memory'.freed = IF memory.refs[r] = 1 THEN memory.freed \cup {r} ELSE memory.freed
      /\ memory'.fault = "none"
  BY <1>1, <1>2, <1>4, UnrefObject DEF RepositoryUnref
<1>6. \A p \in Objects : Owned(p)' = Owned(p)
  BY <1>2, <1>5 DEF Owned
<1>7. held' \in [Objects -> Nat]
  BY <1>1, <1>2
<1>8. CountsAddUp'
  BY <1>1, <1>2, <1>3, <1>5, <1>6 DEF LifeInv, CountsAddUp
<1>9. LentByTheHeld' /\ lent' = lent
  <2>1. held'["settings"] = held["settings"]
    BY <1>1, <1>2 DEF Objects
  <2> QED  BY <2>1 DEF RepositoryUnref, LifeInv, LentByTheHeld
<1> QED  BY <1>5, <1>7, <1>8, <1>9 DEF LifeInv, LifeTypeOK, ClientIsSafe

\* The last reference to the settings releases what they own: both repositories
\* of name2repo, then main_repo, each of them still there when its turn comes.
LEMMA SettingsUnrefKeeps ==
    ASSUME LifeInv, SettingsUnref
    PROVE  LifeInv'
<1> DEFINE n == Unref(memory, "settings")
           a == Unref(n, "main")
           b == Unref(a, "overlay")
           c == Unref(b, "main")
<1>1. /\ memory.refs \in [Objects -> Nat] /\ held \in [Objects -> Nat]
      /\ memory \in Memories(Objects) /\ memory.fault = "none"
  BY DEF LifeInv, LifeTypeOK, Memories, ClientIsSafe
<1>2. /\ held["settings"] > 0 /\ held' = [held EXCEPT !["settings"] = @ - 1]
      /\ {"settings", "main", "overlay"} = Objects
  BY DEF SettingsUnref, Give, Objects, Repositories
<1>3. /\ memory.refs["settings"] = held["settings"]
      /\ "settings" \notin memory.freed
  BY <1>1, <1>2 DEF LifeInv, CountsAddUp, Owned
<1>4. /\ memory.refs["main"] = 2 + held["main"] /\ "main" \notin memory.freed
      /\ memory.refs["overlay"] = 1 + held["overlay"] /\ "overlay" \notin memory.freed
  BY <1>1, <1>2, <1>3 DEF LifeInv, CountsAddUp, Owned
<1>5. /\ n \in Memories(Objects) /\ n.fault = "none"
      /\ n.refs = [memory.refs EXCEPT !["settings"] = @ - 1]
      /\ n.freed = IF memory.refs["settings"] = 1 THEN memory.freed \cup {"settings"}
                   ELSE memory.freed
  BY <1>1, <1>2, <1>3, UnrefObject
<1>6. memory' = IF n.freed = memory.freed THEN n ELSE c
  BY DEF SettingsUnref, UnrefSettings
<1>7. held' \in [Objects -> Nat]
  BY <1>1, <1>2
<1>10. lent' \subseteq Repositories /\ LentByTheHeld'
  <2>1. lent' = IF held["settings"] = 1 THEN {} ELSE lent
    BY DEF SettingsUnref
  <2>2. held["settings"] \in Nat /\ held'["settings"] = held["settings"] - 1
    BY <1>1, <1>2
  <2>3. held["settings"] # 1 => held'["settings"] > 0
    BY <1>2, <2>2
  <2> QED  BY <2>1, <2>3 DEF LifeInv, LifeTypeOK, LentByTheHeld
<1> HIDE DEF n
<1>8. CASE memory.refs["settings"] # 1
  <2>1. memory' = n /\ n.freed = memory.freed
    BY <1>5, <1>6, <1>8
  <2>2. \A p \in Objects : Owned(p)' = Owned(p) /\ Owned(p) \in Nat
    BY <2>1 DEF Owned
  <2>3. CountsAddUp'
    BY <1>1, <1>2, <1>3, <1>5, <1>8, <2>1, <2>2 DEF LifeInv, CountsAddUp, Owned
  <2> QED  BY <1>5, <1>7, <1>10, <2>1, <2>3 DEF LifeInv, LifeTypeOK, ClientIsSafe
<1>9. CASE memory.refs["settings"] = 1
  <2>1. memory' = c
    BY <1>3, <1>5, <1>6, <1>9
  <2>2. /\ n.refs["main"] = 2 + held["main"] /\ n.refs["overlay"] = 1 + held["overlay"]
        /\ n.refs["settings"] = 0 /\ n.freed = memory.freed \cup {"settings"}
        /\ n.refs \in [Objects -> Nat]
    <3>1. n.refs \in [Objects -> Nat]
      BY <1>5 DEF Memories
    <3>2. n.freed = memory.freed \cup {"settings"}
      BY <1>5, <1>9
    <3>3. n.refs = [memory.refs EXCEPT !["settings"] = 0]
      BY <1>5, <1>9
    <3> QED  BY <1>1, <1>2, <1>4, <3>1, <3>2, <3>3
  <2>3. /\ a \in Memories(Objects) /\ a.fault = "none"
        /\ a.refs = [n.refs EXCEPT !["main"] = @ - 1]
        /\ a.freed = n.freed
    <3>1. "main" \in Objects /\ "main" \notin n.freed /\ n.refs["main"] # 0
          /\ n.refs["main"] # 1
      BY <1>1, <1>2, <1>4, <2>2
    <3> QED  BY <1>5, <3>1, UnrefObject
  <2> HIDE DEF a
  <2>4. /\ b \in Memories(Objects) /\ b.fault = "none"
        /\ b.refs = [a.refs EXCEPT !["overlay"] = @ - 1]
        /\ b.freed = IF held["overlay"] = 0 THEN a.freed \cup {"overlay"} ELSE a.freed
    <3>1. /\ "overlay" \in Objects /\ "overlay" \notin a.freed
          /\ a.refs["overlay"] = 1 + held["overlay"]
      BY <1>1, <1>2, <1>4, <2>2, <2>3
    <3>2. a.refs["overlay"] # 0 /\ (a.refs["overlay"] = 1 <=> held["overlay"] = 0)
      BY <1>1, <1>2, <3>1
    <3> QED  BY <2>3, <3>1, <3>2, UnrefObject
  <2> HIDE DEF b
  <2>5. /\ c \in Memories(Objects) /\ c.fault = "none"
        /\ c.refs = [b.refs EXCEPT !["main"] = @ - 1]
        /\ c.freed = IF held["main"] = 0 THEN b.freed \cup {"main"} ELSE b.freed
    <3>1. "main" \in Objects /\ "main" \notin b.freed
      BY <1>2, <1>4, <2>2, <2>3, <2>4
    <3>2. b.refs["main"] = 1 + held["main"]
      BY <1>1, <1>2, <2>2, <2>3, <2>4
    <3>3. b.refs["main"] # 0 /\ (b.refs["main"] = 1 <=> held["main"] = 0)
      BY <1>1, <1>2, <3>2
    <3> QED  BY <2>4, <3>1, <3>3, UnrefObject
  <2> HIDE DEF c
  <2>6. /\ c.refs["settings"] = 0 /\ c.refs["main"] = held["main"]
        /\ c.refs["overlay"] = held["overlay"]
    BY <1>1, <1>2, <2>2, <2>3, <2>4, <2>5
  <2>7. /\ "settings" \in c.freed
        /\ "main" \in c.freed <=> held["main"] = 0
        /\ "overlay" \in c.freed <=> held["overlay"] = 0
    BY <1>2, <1>4, <2>2, <2>3, <2>4, <2>5
  <2>8. \A p \in Objects : Owned(p)' = 0
    BY <2>1, <2>7 DEF Owned
  <2>9. /\ held'["settings"] = 0 /\ held'["main"] = held["main"]
        /\ held'["overlay"] = held["overlay"]
    BY <1>1, <1>2, <1>3, <1>9
  <2>10. \A p \in Objects : /\ c.refs[p] = held'[p] /\ held'[p] \in Nat
                            /\ p \in c.freed <=> held'[p] = 0
    BY <1>2, <1>7, <2>6, <2>7, <2>9
  <2>11. CountsAddUp'
    BY <2>1, <2>8, <2>10 DEF CountsAddUp
  <2> QED  BY <1>7, <1>10, <2>1, <2>5, <2>11 DEF LifeInv, LifeTypeOK, ClientIsSafe
<1> QED  BY <1>8, <1>9

\* What the settings own is there as long as the client has the settings, and
\* looking for it reads nothing freed.
LEMMA OwnedIsThere ==
    ASSUME LifeInv, held["settings"] > 0
    PROVE  /\ Touch(memory, "settings") = memory
           /\ \A r \in Repositories : r \notin memory.freed
<1>1. held \in [Objects -> Nat] /\ "settings" \in Objects
      /\ \A r \in Repositories : r \in Objects /\ r # "settings"
  BY DEF LifeInv, LifeTypeOK, Objects, Repositories
<1>2. "settings" \notin memory.freed
  BY <1>1 DEF LifeInv, CountsAddUp, Owned
<1>3. Touch(memory, "settings") = memory
  BY <1>2 DEF Touch
<1>4. \A r \in Repositories : r \notin memory.freed
  BY <1>1, <1>2 DEF LifeInv, CountsAddUp, Owned
<1> QED  BY <1>3, <1>4

\* A repository that is lent is neither counted nor the client's to release.
LEMMA LendingKeeps ==
    ASSUME LifeInv, held["settings"] > 0, memory' = Touch(memory, "settings"),
           held' = held, lent' \subseteq Repositories
    PROVE  LifeInv'
<1>1. memory' = memory
  BY OwnedIsThere
<1> QED  BY <1>1 DEF LifeInv, LifeTypeOK, ClientIsSafe, CountsAddUp, LentByTheHeld, Owned

\* What the client holds has a reference and is not freed, nor is what it is
\* lent.
LEMMA HeldIsThere ==
    ASSUME LifeInv, NEW o \in Objects, held[o] > 0 \/ o \in lent
    PROVE  o \notin memory.freed
<1>1. CASE held[o] > 0
  <2>1. held[o] \in Nat /\ Owned(o) \in Nat
    BY DEF LifeInv, LifeTypeOK, Owned
  <2> QED  BY <1>1, <2>1 DEF LifeInv, CountsAddUp
<1>2. CASE o \in lent
  <2>1. held["settings"] > 0 /\ o \in Repositories
    BY <1>2 DEF LifeInv, LifeTypeOK, LentByTheHeld
  <2> QED  BY <2>1, OwnedIsThere
<1> QED  BY <1>1, <1>2

\* After init_repos the counts are right: the settings are the client's, and the
\* main repository is counted for the field and for the table (settings.c:276-306).
THEOREM InitCounts == Init => LifeInv
<1> SUFFICES ASSUME Init PROVE LifeInv
  OBVIOUS
<1>1. memory \in Memories(Objects) /\ memory.fault = "none" /\ memory.freed = {}
  <2> DEFINE r == [o \in Objects |-> IF o = "main" THEN 2 ELSE 1]
  <2>1. r \in [Objects -> Nat] /\ {} \in SUBSET Objects
    OBVIOUS
  <2>2. memory = [refs |-> r, freed |-> {}, fault |-> "none"]
    BY DEF Init
  <2> HIDE DEF r
  <2> QED  BY <2>1, <2>2, MakeMemory
<1>2. held \in [Objects -> Nat]
  BY DEF Init
<1>3. CountsAddUp
  BY <1>1 DEF Init, CountsAddUp, Owned, Objects, Repositories
<1>4. lent = {}
  BY DEF Init
<1> QED  BY <1>1, <1>2, <1>3, <1>4 DEF LifeInv, LifeTypeOK, ClientIsSafe, LentByTheHeld

\* For any number of references, and a client that releases those it was given
\* and not what cp_settings_repositories and cp_settings_get_repository lend:
\* every count is what the settings own plus what the client holds, an object is
\* freed exactly when that is nothing, and no call has touched a freed object or
\* failed an assertion (settings.c:452-502, repository.c:63-104).
THEOREM CountsAreReferences == Spec => []LifeInv
<1>1. LifeInv /\ [Next]_vars => LifeInv'
  <2> SUFFICES ASSUME LifeInv, [Next]_vars PROVE LifeInv'
    OBVIOUS
  <2>1. ASSUME NEW o \in Objects, RefHandle(o) PROVE LifeInv'
    <3>1. o \notin memory.freed
      BY <2>1, HeldIsThere DEF RefHandle
    <3> QED  BY <2>1, <3>1, TakingKeeps DEF RefHandle, Take
  <2>2. CASE SettingsUnref
    BY <2>2, SettingsUnrefKeeps
  <2>3. CASE MainRepository
    <3>1. "main" \in Repositories /\ "main" \in Objects
      BY DEF Repositories, Objects
    <3>2. Touch(memory, "settings") = memory /\ "main" \notin memory.freed
      BY <2>3, <3>1, OwnedIsThere DEF MainRepository
    <3> QED  BY <2>3, <3>1, <3>2, TakingKeeps DEF MainRepository, Take
  <2>4. ASSUME NEW r \in Repositories, RepositoryUnref(r) PROVE LifeInv'
    BY <2>4, RepositoryUnrefKeeps
  <2>5. ASSUME NEW r \in Repositories, GetRepository(r) PROVE LifeInv'
    <3>1. lent' \subseteq Repositories
      BY <2>5 DEF GetRepository, LifeInv, LifeTypeOK
    <3> QED  BY <2>5, <3>1, LendingKeeps DEF GetRepository
  <2>7. CASE GetRepositories
    BY <2>7, LendingKeeps DEF GetRepositories
  <2>6. CASE UNCHANGED vars
    BY <2>6 DEF vars, LifeInv, LifeTypeOK, ClientIsSafe, CountsAddUp, Owned,
               LentByTheHeld
  <2> QED  BY <2>1, <2>2, <2>3, <2>4, <2>5, <2>6, <2>7 DEF Next
<1> QED  BY <1>1, InitCounts, PTL DEF Spec

\* No order of releases reads freed memory or fails the assertion refs > 0, as
\* long as the client releases just the references it was given: what
\* cp_settings_get_repository returns is not one of them, whatever cportage.h:270
\* says (settings.c:452-502, repository.c:77-104).
THEOREM ClientsAreSafe == Spec => []ClientIsSafe
<1>1. LifeInv => ClientIsSafe
  BY DEF LifeInv
<1> QED  BY <1>1, CountsAreReferences, PTL

\* A repository outlives its settings while the client holds it, and is there
\* while the settings lend it (settings.c:460-502, repository.c:85-104).
THEOREM HeldObjectsLive == Spec => []HeldIsAlive
<1>1. LifeInv => HeldIsAlive
  BY HeldIsThere DEF HeldIsAlive
<1> QED  BY <1>1, CountsAreReferences, PTL

\* A client that has released everything it was given leaves nothing behind.
THEOREM NothingIsLeaked == Spec => []NothingLeaks
<1>1. LifeInv => NothingLeaks
  <2> SUFFICES ASSUME LifeInv, \A o \in Objects : held[o] = 0
               PROVE  memory.freed = Objects
    BY DEF NothingLeaks
  <2>1. memory.freed \subseteq Objects /\ "settings" \in Objects
    BY DEF LifeInv, LifeTypeOK, Memories, Objects
  <2>2. "settings" \in memory.freed
    BY <2>1 DEF LifeInv, CountsAddUp, Owned
  <2>3. \A o \in Objects : o \in memory.freed
    BY <2>2 DEF LifeInv, CountsAddUp, Owned
  <2> QED  BY <2>1, <2>3
<1> QED  BY <1>1, CountsAreReferences, PTL
=============================================================================
