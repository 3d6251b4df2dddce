--------------------------- MODULE ProgramsProofs ---------------------------
(***************************************************************************)
(* Proofs about Programs, for every disk, command line, configuration and  *)
(* outcome of the calls: first about the repositories of its settings, for *)
(* every PORTDIR_OVERLAY and every ending of git pull, then about what is  *)
(* seen of a command, which implements ExitStatus, what it prints and what *)
(* it releases.                                                            *)
(***************************************************************************)
EXTENDS Programs, RefCountsProofs, FiniteSetTheorems, SequenceTheorems

\* Every object that was made has a number of its own.
Numbered ==
    /\ IsFiniteSet(DOMAIN refs)
    /\ \A o \in DOMAIN refs : o.id \in Nat /\ o.id < Cardinality(DOMAIN refs)

\* The list and the table say the same, each repository under its own name.
Agree ==
    /\ repos \in Seq(DOMAIN refs)
    /\ phase \notin {"overlays", "ready", "stopped"} => repos = <<>>
    /\ phase \in {"overlays", "ready", "stopped"} => repos # <<>>
    /\ \A i \in DOMAIN repos : NameOf(repos[i].path) \in DOMAIN name2repo
    /\ \A i \in DOMAIN repos : name2repo[NameOf(repos[i].path)] = repos[i]
    /\ \A n \in DOMAIN name2repo : \E i \in DOMAIN repos : name2repo[n] = repos[i]
    /\ \A n \in DOMAIN name2repo : NameOf(name2repo[n].path) = n
    /\ \A i, j \in DOMAIN repos : i # j => NameOf(repos[i].path) # NameOf(repos[j].path)

\* The main repository is counted twice, the others once, and one that was
\* dropped for its name is freed.
Counted ==
    \A o \in DOMAIN refs :
        refs[o] = IF \E i \in DOMAIN repos : repos[i] = o
                  THEN IF o = repos[1] THEN 2 ELSE 1
                  ELSE 0

RepoInv ==
    /\ phase \in {"main", "overlays", "ready", "stopped"}
    /\ phase = "main" => refs = <<>> /\ name2repo = <<>>
    /\ Numbered
    /\ Agree
    /\ Counted

\* No git pull before the list is made; all but the last succeeded, and the last
\* too unless the action fails.
PullInv ==
    /\ pulls \in Seq([repo: DOMAIN refs, outcome: Outcomes])
    /\ phase \in {"main", "overlays"} => pulls = <<>>
    /\ Len(pulls) <= Len(repos)
    /\ \A i \in DOMAIN pulls : pulls[i].repo = repos[i]
    /\ \A i \in DOMAIN pulls :
          i < Len(pulls) \/ ~result.error => Sync(pulls[i].outcome) = Success
    /\ phase # "stopped" => result = Success
    /\ result.error <=> result.retval # 0
    /\ phase = "stopped" /\ ~result.error => Len(pulls) = Len(repos)

-----------------------------------------------------------------------------
\* A new object is none of those that were made.
LEMMA NewIsNew ==
    ASSUME Numbered, NEW p, NEW n, refs' = Bind(refs, New(p), n)
    PROVE  /\ New(p) \notin DOMAIN refs
           /\ New(p).path = p
           /\ DOMAIN refs' = DOMAIN refs \cup {New(p)}
           /\ Numbered'
<1>1. New(p).id = Cardinality(DOMAIN refs) /\ New(p).path = p
  BY DEF New
<1>2. Cardinality(DOMAIN refs) \in Nat
  BY FS_CardinalityType DEF Numbered
<1>3. New(p) \notin DOMAIN refs
  BY <1>1, <1>2 DEF Numbered
<1>4. DOMAIN refs' = DOMAIN refs \cup {New(p)}
  BY DEF Bind
<1>5. IsFiniteSet(DOMAIN refs') /\ Cardinality(DOMAIN refs') = Cardinality(DOMAIN refs) + 1
  BY <1>3, <1>4, FS_AddElement DEF Numbered
<1>6. Numbered'
  BY <1>1, <1>2, <1>4, <1>5 DEF Numbered
<1> QED  BY <1>1, <1>3, <1>4, <1>6

LEMMA RepoInit == Init => RepoInv
<1> SUFFICES ASSUME Init PROVE RepoInv
  OBVIOUS
<1>1. phase = "main" /\ repos = <<>> /\ refs = <<>> /\ name2repo = <<>>
  BY DEF Init
<1>2. DOMAIN refs = {} /\ DOMAIN repos = {} /\ DOMAIN name2repo = {}
  BY <1>1
<1>3. Numbered
  BY <1>2, FS_EmptySet DEF Numbered
<1>4. Agree
  BY <1>1, <1>2 DEF Agree
<1>5. Counted
  BY <1>2 DEF Counted
<1> QED  BY <1>1, <1>3, <1>4, <1>5 DEF RepoInv

LEMMA RepoInitMain == RepoInv /\ InitMain => RepoInv'
<1> SUFFICES ASSUME RepoInv, InitMain PROVE RepoInv'
  OBVIOUS
<1>0. PICK m, name : m = New(MainPath) /\ name = NameOf(MainPath)
  OBVIOUS
<1>1. /\ phase = "main" /\ phase' = "overlays" /\ refs = <<>> /\ name2repo = <<>> /\ fs' = fs
      /\ refs' = Bind(refs, m, 2) /\ repos' = <<m>> /\ name2repo' = Bind(<<>>, name, m)
  BY <1>0 DEF InitMain, RepoInv
<1>2. m.path = MainPath /\ DOMAIN refs' = DOMAIN refs \cup {m} /\ Numbered'
  BY <1>0, <1>1, NewIsNew DEF RepoInv
<1>3. DOMAIN refs' = {m} /\ refs'[m] = 2
  <2>1. refs'[m] = 2
    BY <1>1 DEF Bind
  <2> QED  BY <1>1, <1>2, <2>1
<1>4. DOMAIN name2repo' = {name} /\ name2repo'[name] = m
  <2>1. DOMAIN Bind(<<>>, name, m) = DOMAIN <<>> \cup {name} /\ Bind(<<>>, name, m)[name] = m
    BY DEF Bind
  <2> QED  BY <1>1, <2>1
<1>5. DOMAIN repos' = {1} /\ repos'[1] = m /\ repos' # <<>> /\ repos' \in Seq(DOMAIN refs')
  BY <1>1, <1>3
<1>6. NameOf(MainPath)' = name
  BY <1>0, <1>1 DEF NameOf
<1>7. Agree'
  BY <1>1, <1>2, <1>4, <1>5, <1>6 DEF Agree
<1>8. Counted'
  BY <1>3, <1>5 DEF Counted
<1> QED  BY <1>1, <1>2, <1>7, <1>8 DEF RepoInv

\* A step that changes neither the list nor the table.
LEMMA RepoSame ==
    ASSUME RepoInv, UNCHANGED <<fs, repos, name2repo, refs>>,
           \/ phase' = phase
           \/ phase = "overlays" /\ phase' = "ready"
           \/ phase = "ready" /\ phase' = "stopped"
    PROVE  RepoInv'
<1>1. \A p : NameOf(p)' = NameOf(p)
  BY DEF NameOf
<1>2. Numbered' /\ Counted'
  BY DEF RepoInv, Numbered, Counted
<1>3. Agree'
  BY <1>1 DEF RepoInv, Agree
<1> QED  BY <1>2, <1>3 DEF RepoInv

\* A directory with a new name.
LEMMA RepoAdd ==
    ASSUME RepoInv, phase = "overlays", AddOverlay, UNCHANGED <<fs, phase>>
    PROVE  RepoInv'
<1>0. PICK o, name : o = New(Head(words)) /\ name = NameOf(o.path)
  OBVIOUS
<1>1. o.path = Head(words)
  BY <1>0 DEF New
<1>2. /\ name \notin DOMAIN name2repo
      /\ refs' = Bind(refs, o, 1) /\ repos' = Append(repos, o)
      /\ name2repo' = Bind(name2repo, name, o)
  BY <1>0, <1>1 DEF AddOverlay
<1>3. /\ o \notin DOMAIN refs /\ DOMAIN refs' = DOMAIN refs \cup {o} /\ Numbered'
  BY <1>0, <1>2, NewIsNew DEF RepoInv
<1>4. \A p : NameOf(p)' = NameOf(p)
  BY DEF NameOf
<1>5. NameOf(o.path) = name
  BY <1>0
<1>6. /\ repos \in Seq(DOMAIN refs) /\ repos # <<>>
      /\ repos \in Seq(DOMAIN refs')
  BY <1>3 DEF RepoInv, Agree
<1>7. /\ repos' \in Seq(DOMAIN refs') /\ repos' # <<>>
      /\ DOMAIN repos' = DOMAIN repos \cup {Len(repos) + 1}
      /\ \A i \in DOMAIN repos : i # Len(repos) + 1 /\ repos'[i] = repos[i]
      /\ repos'[Len(repos) + 1] = o /\ 1 \in DOMAIN repos
  BY <1>2, <1>3, <1>6
<1>8. /\ DOMAIN name2repo' = DOMAIN name2repo \cup {name} /\ name2repo'[name] = o
      /\ \A n \in DOMAIN name2repo : n # name /\ name2repo'[n] = name2repo[n]
  BY <1>2 DEF Bind
<1>9. /\ refs'[o] = 1
      /\ \A x \in DOMAIN refs : x # o /\ refs'[x] = refs[x]
  BY <1>2, <1>3 DEF Bind
<1>10. Agree'
  <2>1. \A i \in DOMAIN repos' : NameOf(repos'[i].path) \in DOMAIN name2repo'
    BY <1>7, <1>8, <1>5 DEF RepoInv, Agree
  <2>2. \A i \in DOMAIN repos' : name2repo'[NameOf(repos'[i].path)] = repos'[i]
    BY <1>7, <1>8, <1>5 DEF RepoInv, Agree
  <2>3. \A n \in DOMAIN name2repo' : \E i \in DOMAIN repos' : name2repo'[n] = repos'[i]
    BY <1>7, <1>8 DEF RepoInv, Agree
  <2>4. \A n \in DOMAIN name2repo' : NameOf(name2repo'[n].path) = n
    BY <1>8, <1>5 DEF RepoInv, Agree
  <2>5. \A i, j \in DOMAIN repos' : i # j => NameOf(repos'[i].path) # NameOf(repos'[j].path)
    <3>1. \A i \in DOMAIN repos : NameOf(repos[i].path) # name
      BY <1>2 DEF RepoInv, Agree
    <3> QED  BY <1>7, <1>5, <3>1 DEF RepoInv, Agree
  <2> QED  BY <1>4, <1>7, <2>1, <2>2, <2>3, <2>4, <2>5 DEF Agree
<1>11. Counted'
  <2> SUFFICES ASSUME NEW x \in DOMAIN refs'
               PROVE  refs'[x] = IF \E i \in DOMAIN repos' : repos'[i] = x
                                 THEN IF x = repos'[1] THEN 2 ELSE 1
                                 ELSE 0
    BY DEF Counted
  <2>1. repos'[1] = repos[1] /\ repos[1] \in DOMAIN refs
    BY <1>6, <1>7
  <2>2. CASE x = o
    BY <1>3, <1>7, <1>9, <2>1, <2>2
  <2>3. CASE x # o
    <3>1. x \in DOMAIN refs
      BY <1>3, <2>3
    <3>2. (\E i \in DOMAIN repos' : repos'[i] = x) <=> (\E i \in DOMAIN repos : repos[i] = x)
      BY <1>7, <2>3
    <3> QED  BY <1>9, <2>1, <3>1, <3>2 DEF RepoInv, Counted
  <2> QED  BY <2>2, <2>3
<1> QED  BY <1>3, <1>10, <1>11 DEF RepoInv

\* A directory whose name is taken.
LEMMA RepoDrop ==
    ASSUME RepoInv, phase = "overlays", DropDuplicate, UNCHANGED <<fs, phase>>
    PROVE  RepoInv'
<1>0. PICK o : o = New(Head(words))
  OBVIOUS
<1>1. refs' = Bind(refs, o, 0) /\ UNCHANGED <<repos, name2repo>>
  BY <1>0 DEF DropDuplicate
<1>2. /\ o \notin DOMAIN refs /\ DOMAIN refs' = DOMAIN refs \cup {o} /\ Numbered'
  BY <1>0, <1>1, NewIsNew DEF RepoInv
<1>3. \A p : NameOf(p)' = NameOf(p)
  BY DEF NameOf
<1>4. repos \in Seq(DOMAIN refs) /\ repos \in Seq(DOMAIN refs')
  BY <1>2 DEF RepoInv, Agree
<1>5. Agree'
  BY <1>1, <1>3, <1>4 DEF RepoInv, Agree
<1>6. /\ refs'[o] = 0
      /\ \A x \in DOMAIN refs : x # o /\ refs'[x] = refs[x]
  BY <1>1, <1>2 DEF Bind
<1>7. \A i \in DOMAIN repos : repos[i] # o
  BY <1>2, <1>4
<1>8. Counted'
  BY <1>1, <1>2, <1>6, <1>7 DEF RepoInv, Counted
<1> QED  BY <1>2, <1>5, <1>8 DEF RepoInv

LEMMA RepoNext == RepoInv /\ [Next]_vars => RepoInv'
<1> SUFFICES ASSUME RepoInv, [Next]_vars PROVE RepoInv'
  OBVIOUS
<1>1. CASE InitMain
  BY <1>1, RepoInitMain
<1>2. CASE NextOverlay
  BY <1>2, RepoAdd, RepoDrop, RepoSame DEF NextOverlay, SkipWord
<1>3. CASE InitReposDone
  BY <1>3, RepoSame DEF InitReposDone, settings
<1>4. CASE SyncDone
  BY <1>4, RepoSame DEF SyncDone, settings
<1>5. ASSUME NEW o \in Outcomes, SyncNext(o)
      PROVE  RepoInv'
  BY <1>5, RepoSame DEF SyncNext, settings
<1>6. CASE UNCHANGED vars
  BY <1>6, RepoSame DEF vars, settings
<1> QED  BY <1>1, <1>2, <1>3, <1>4, <1>5, <1>6 DEF Next, Step, Returned

\* The table's references to an object, and the pointer to the main repository.
LEMMA RepoInvAgrees == RepoInv => ListAndTableAgree
<1> SUFFICES ASSUME RepoInv PROVE ListAndTableAgree
  OBVIOUS
<1>1. Range(name2repo) = Range(repos)
  BY DEF RepoInv, Agree, Range
<1>2. ASSUME NEW o \in DOMAIN refs
      PROVE  refs[o] = Cardinality({n \in DOMAIN name2repo : name2repo[n] = o})
                         + IF o = repos[1] THEN 1 ELSE 0
  <2> DEFINE named == {n \in DOMAIN name2repo : name2repo[n] = o}
  <2>1. CASE \E i \in DOMAIN repos : repos[i] = o
    <3>1. named = {NameOf(o.path)}
      BY <2>1 DEF RepoInv, Agree
    <3>2. Cardinality(named) = 1
      BY <3>1, FS_Singleton
    <3> QED  BY <2>1, <3>2 DEF RepoInv, Counted
  <2>2. CASE ~\E i \in DOMAIN repos : repos[i] = o
    <3>1. named = {}
      BY <2>2 DEF RepoInv, Agree
    <3>2. Cardinality(named) = 0
      BY <3>1, FS_EmptySet
    <3>3. o # repos[1]
      <4>1. refs # <<>> /\ phase # "main"
        BY DEF RepoInv
      <4>2. repos \in Seq(DOMAIN refs) /\ repos # <<>>
        BY <4>1 DEF RepoInv, Agree
      <4> QED  BY <2>2, <4>2
    <3> QED  BY <2>2, <3>2, <3>3 DEF RepoInv, Counted
  <2> QED  BY <2>1, <2>2
<1> QED  BY <1>1, <1>2 DEF ListAndTableAgree, RepoInv, Agree

-----------------------------------------------------------------------------
\* cp_repository_sync fails exactly with an error, whatever git has done.
LEMMA SyncResult ==
    ASSUME NEW o \in Outcomes
    PROVE  /\ Sync(o).retval \in 0..255 /\ Sync(o).error \in BOOLEAN
           /\ Sync(o).error <=> Sync(o).retval # 0
           /\ ~Sync(o).error => Sync(o) = Success
<1>1. o.kind \in {"not started", "exited"} => Sync(o) = [retval |-> 1, error |-> TRUE]
  BY DEF Sync
<1>2. o.kind \notin {"not started", "exited"} => Sync(o) = Success
  BY DEF Sync, ExitStatus
<1>3. Sync(o) \in {[retval |-> 1, error |-> TRUE], [retval |-> 0, error |-> FALSE]}
  BY <1>1, <1>2 DEF Success
<1>4. CASE Sync(o) = [retval |-> 1, error |-> TRUE]
  BY <1>4
<1>5. CASE Sync(o) = [retval |-> 0, error |-> FALSE]
  BY <1>5 DEF Success
<1> QED  BY <1>3, <1>4, <1>5

LEMMA PullInit == Init => PullInv
BY DEF Init, PullInv, Success

\* One git pull more.
LEMMA PullOne ==
    ASSUME RepoInv, PullInv, NEW o \in Outcomes, SyncNext(o)
    PROVE  PullInv'
<1>1. /\ phase = "ready" /\ Len(pulls) < Len(repos)
      /\ pulls' = Append(pulls, [repo |-> repos[Len(pulls) + 1], outcome |-> o])
      /\ result' = Sync(o)
      /\ phase' = IF Sync(o).retval # 0 THEN "stopped" ELSE phase
      /\ UNCHANGED <<repos, refs>>
  BY DEF SyncNext, settings
<1>2. /\ pulls \in Seq([repo: DOMAIN refs, outcome: Outcomes])
      /\ repos \in Seq(DOMAIN refs) /\ ~result.error
  BY <1>1 DEF PullInv, RepoInv, Agree, Success
<1>3. [repo |-> repos[Len(pulls) + 1], outcome |-> o] \in [repo: DOMAIN refs, outcome: Outcomes]
  BY <1>1, <1>2
<1>4. PICK p : p = [repo |-> repos[Len(pulls) + 1], outcome |-> o]
  OBVIOUS
<1>5. /\ pulls' \in Seq([repo: DOMAIN refs, outcome: Outcomes])
      /\ Len(pulls') = Len(pulls) + 1
      /\ DOMAIN pulls' = 1..Len(pulls) + 1
      /\ \A i \in DOMAIN pulls : pulls'[i] = pulls[i]
      /\ pulls'[Len(pulls) + 1] = p
      /\ DOMAIN pulls = 1..Len(pulls) /\ Len(pulls) \in Nat
  BY <1>1, <1>2, <1>3, <1>4
<1>6. p.repo = repos[Len(pulls) + 1] /\ p.outcome = o
  BY <1>4
<1>7. \A i \in DOMAIN pulls' : pulls'[i].repo = repos'[i]
  BY <1>1, <1>5, <1>6 DEF PullInv
<1>8. \A i \in DOMAIN pulls' :
         i < Len(pulls') \/ ~result'.error => Sync(pulls'[i].outcome) = Success
  <2>1. \A i \in DOMAIN pulls : Sync(pulls[i].outcome) = Success
    BY <1>2 DEF PullInv
  <2>2. ~result'.error => Sync(o) = Success
    BY <1>1, SyncResult
  <2> QED  BY <1>5, <1>6, <2>1, <2>2
<1>9. /\ phase' # "stopped" => result' = Success
      /\ result'.error <=> result'.retval # 0
      /\ phase' = "stopped" => result'.error
  BY <1>1, SyncResult
<1>10. Len(pulls') <= Len(repos') /\ phase' \notin {"main", "overlays"}
  BY <1>1, <1>2, <1>5
<1> QED  BY <1>1, <1>5, <1>7, <1>8, <1>9, <1>10 DEF PullInv

LEMMA PullNext == RepoInv /\ PullInv /\ [Next]_vars => PullInv'
<1> SUFFICES ASSUME RepoInv, PullInv, [Next]_vars PROVE PullInv'
  OBVIOUS
<1>1. CASE InitMain \/ NextOverlay
  <2>1. /\ phase \in {"main", "overlays"} /\ phase' = "overlays"
        /\ UNCHANGED <<pulls, result>> /\ pulls = <<>> /\ result = Success
    BY <1>1 DEF InitMain, NextOverlay, PullInv
  <2>2. repos' \in Seq(DOMAIN refs')
    BY RepoNext DEF RepoInv, Agree
  <2> QED  BY <2>1, <2>2 DEF PullInv, Success
<1>2. CASE InitReposDone
  BY <1>2 DEF InitReposDone, PullInv, settings
<1>3. CASE SyncDone
  BY <1>3 DEF SyncDone, PullInv, settings
<1>4. ASSUME NEW o \in Outcomes, SyncNext(o)
      PROVE  PullInv'
  BY <1>4, PullOne
<1>5. CASE UNCHANGED vars
  BY <1>5 DEF vars, settings, PullInv
<1> QED  BY <1>1, <1>2, <1>3, <1>4, <1>5 DEF Next, Step, Returned

LEMMA PullInvFollows == PullInv => PullsFollowTheList
BY DEF PullInv, PullsFollowTheList
-----------------------------------------------------------------------------
\* The words of PORTDIR_OVERLAY that have been looked at, those of them that
\* make a repository, and how many of these come before word i.
Done == Len(fs.overlays) - Len(words)
KeptUpTo(n) == {i \in Kept : i <= n}
Earlier(i) == Cardinality({j \in Kept : j < i})

Directories == {i \in 1..Done : fs.overlays[i] \in fs.dirs}

\* What is left of the words, and which names are taken.
WordsInv ==
    /\ fs \in FileSystems
    /\ words \in Seq(Paths)
    /\ Len(words) <= Len(fs.overlays)
    /\ \A i \in 1..Len(words) : words[i] = fs.overlays[Done + i]
    /\ phase = "main" => words = fs.overlays /\ overlay = <<>>
    /\ phase \in {"ready", "stopped"} => words = <<>>
    /\ phase # "main" =>
         DOMAIN name2repo = {NameOf(MainPath)} \cup {NameOf(fs.overlays[i]) : i \in Directories}

\* The new PORTDIR_OVERLAY lists the words that were kept, each at the place
\* given by those before it, and the list of repositories follows it.
OverlayInv ==
    /\ overlay \in Seq(Paths)
    /\ Len(overlay) = Cardinality(KeptUpTo(Done))
    /\ \A i \in KeptUpTo(Done) :
          Earlier(i) + 1 \in DOMAIN overlay /\ overlay[Earlier(i) + 1] = fs.overlays[i]
    /\ \A k \in DOMAIN overlay : \E i \in KeptUpTo(Done) : Earlier(i) = k - 1
    /\ phase # "main" =>
          /\ Len(repos) = Len(overlay) + 1
          /\ repos[1].path = MainPath
          /\ \A k \in DOMAIN overlay : repos[k + 1].path = overlay[k]

OrderInv == WordsInv /\ OverlayInv

\* The words are those of the disk.
LEMMA WordsType ==
    ASSUME WordsInv
    PROVE  /\ fs.overlays \in Seq(Paths)
           /\ Len(fs.overlays) \in Nat /\ Len(words) \in Nat
           /\ Done \in 0..Len(fs.overlays)
           /\ IsFiniteSet(Kept) /\ Kept \subseteq 1..Len(fs.overlays)
<1>1. fs.overlays \in Seq(Paths)
  BY PathsAssumption DEF WordsInv
<1>2. Len(fs.overlays) \in Nat /\ Len(words) \in Nat /\ DOMAIN fs.overlays = 1..Len(fs.overlays)
  BY <1>1 DEF WordsInv
<1>3. Done \in 0..Len(fs.overlays)
  BY <1>2 DEF Done, WordsInv
<1>4. Kept \subseteq 1..Len(fs.overlays)
  BY <1>2 DEF Kept
<1>5. IsFiniteSet(1..Len(fs.overlays))
  BY <1>2, FS_Interval
<1> QED  BY <1>1, <1>2, <1>3, <1>4, <1>5, FS_Subset

\* The head of the words is the next word of the disk.
LEMMA NextWord ==
    ASSUME WordsInv, words # <<>>, words' = Tail(words), fs' = fs
    PROVE  /\ Done + 1 \in 1..Len(fs.overlays)
           /\ Head(words) = fs.overlays[Done + 1]
           /\ Done' = Done + 1
           /\ words' \in Seq(Paths)
           /\ Len(words') <= Len(fs.overlays)
           /\ \A i \in 1..Len(words') : words'[i] = fs.overlays[Done' + i]
<1>1. words \in Seq(Paths) /\ Len(words) \in Nat /\ Len(words) # 0 /\ Len(fs.overlays) \in Nat
  BY WordsType, EmptySeq DEF WordsInv
<1>2. /\ words' \in Seq(Paths) /\ Len(words') = Len(words) - 1
      /\ \A i \in 1..Len(words') : words'[i] = words[i + 1]
      /\ Head(words) = words[1]
  BY <1>1
<1>3. Len(words) <= Len(fs.overlays) /\ 1 \in 1..Len(words)
  BY <1>1 DEF WordsInv
<1>4. Done' = Done + 1 /\ Done \in Nat /\ Done + 1 <= Len(fs.overlays)
  BY <1>1, <1>2, <1>3 DEF Done
<1>5. Head(words) = fs.overlays[Done + 1]
  BY <1>2, <1>3 DEF WordsInv
<1>6. \A i \in 1..Len(words') : words'[i] = fs.overlays[Done' + i]
  <2> SUFFICES ASSUME NEW i \in 1..Len(words') PROVE words'[i] = fs.overlays[Done' + i]
    OBVIOUS
  <2>1. i + 1 \in 1..Len(words) /\ Done + (i + 1) = Done' + i
    BY <1>1, <1>2, <1>4
  <2> QED  BY <1>2, <2>1 DEF WordsInv
<1> QED  BY <1>1, <1>2, <1>3, <1>4, <1>5, <1>6
\* The next word makes a repository if it is a directory with a free name.
LEMMA NextKept ==
    ASSUME WordsInv, words # <<>>, phase = "overlays"
    PROVE  Done + 1 \in Kept <=>
              Head(words) \in fs.dirs /\ NameOf(Head(words)) \notin DOMAIN name2repo
<1>1. /\ Done \in Nat /\ Done + 1 \in 1..Len(fs.overlays) /\ Head(words) = fs.overlays[Done + 1]
      /\ DOMAIN fs.overlays = 1..Len(fs.overlays)
  <2>1. PICK w : w = Tail(words)
    OBVIOUS
  <2>2. Done + 1 \in 1..Len(fs.overlays)
    <3>1. words \in Seq(Paths) /\ Len(words) \in Nat /\ Len(words) # 0 /\ Len(fs.overlays) \in Nat
      BY WordsType, EmptySeq DEF WordsInv
    <3> QED  BY <3>1 DEF Done, WordsInv
  <2>3. Len(words) \in Nat /\ Len(words) # 0 /\ Head(words) = words[1]
    BY EmptySeq DEF WordsInv
  <2>4. Head(words) = fs.overlays[Done + 1]
    BY <2>3 DEF WordsInv
  <2> QED  BY <2>2, <2>4, WordsType
<1>2. PICK p : p = Head(words)
  OBVIOUS
<1>3. PICK d \in Nat : d = Done
  BY <1>1
<1>4. PICK earlier : earlier = {fs.overlays[j] : j \in 1..(d + 1 - 1)} \cap fs.dirs
  OBVIOUS
<1>5. earlier = {fs.overlays[i] : i \in Directories}
  <2>1. 1..(d + 1 - 1) = 1..d
    OBVIOUS
  <2> QED  BY <1>3, <1>4, <2>1 DEF Directories
<1>6. d + 1 \in Kept <=> p \in fs.dirs /\ \A q \in earlier \cup {MainPath} : NameOf(q) # NameOf(p)
  BY <1>1, <1>2, <1>3, <1>4 DEF Kept
<1>7. DOMAIN name2repo = {NameOf(MainPath)} \cup {NameOf(fs.overlays[i]) : i \in Directories}
  BY DEF WordsInv
<1>8. NameOf(p) \notin DOMAIN name2repo <=> \A q \in earlier \cup {MainPath} : NameOf(q) # NameOf(p)
  BY <1>5, <1>7
<1> QED  BY <1>2, <1>3, <1>6, <1>8

\* What has been kept grows by the next word, or not at all.
LEMMA KeptGrows ==
    ASSUME NEW d \in Nat, Kept \subseteq Int
    PROVE  KeptUpTo(d + 1) = KeptUpTo(d) \cup (IF d + 1 \in Kept THEN {d + 1} ELSE {})
<1>1. \A i \in Kept : i <= d + 1 <=> i <= d \/ i = d + 1
  OBVIOUS
<1> QED  BY <1>1 DEF KeptUpTo
\* A word that makes no repository.
LEMMA OrderPass ==
    ASSUME RepoInv, OrderInv, phase = "overlays", words # <<>>, words' = Tail(words),
           UNCHANGED <<fs, phase, overlay, repos>>, DOMAIN name2repo' = DOMAIN name2repo,
           Head(words) \notin fs.dirs \/ NameOf(Head(words)) \in DOMAIN name2repo
    PROVE  OrderInv'
<1>1. /\ Done \in Nat /\ Done' = Done + 1 /\ Done + 1 \in 1..Len(fs.overlays)
      /\ Head(words) = fs.overlays[Done + 1]
      /\ words' \in Seq(Paths)
      /\ Len(words') <= Len(fs.overlays)
      /\ \A i \in 1..Len(words') : words'[i] = fs.overlays[Done' + i]
  BY WordsType, NextWord DEF OrderInv
<1>2. \A p : NameOf(p)' = NameOf(p)
  BY DEF NameOf
<1>3. Kept' = Kept /\ Kept \subseteq Int
  BY <1>2, WordsType DEF Kept, OrderInv
<1>4. Done + 1 \notin Kept
  BY NextKept DEF OrderInv
<1>5. KeptUpTo(Done)' = KeptUpTo(Done)
  BY <1>1, <1>3, <1>4, KeptGrows DEF KeptUpTo
<1>6. \A i : Earlier(i)' = Earlier(i)
  BY <1>3 DEF Earlier
<1>7. DOMAIN name2repo = {NameOf(MainPath)} \cup {NameOf(fs.overlays[i]) : i \in Directories}
  BY DEF OrderInv, WordsInv
<1>8. PICK d \in Nat : d = Done /\ Done' = d + 1
  BY <1>1
<1>9. Directories' = IF Head(words) \in fs.dirs THEN Directories \cup {d + 1} ELSE Directories
  <2>1. 1..(d + 1) = 1..d \cup {d + 1}
    OBVIOUS
  <2> QED  BY <1>1, <1>8, <2>1 DEF Directories
<1>10. {NameOf(fs.overlays[i]) : i \in Directories'} \subseteq DOMAIN name2repo
  BY <1>1, <1>7, <1>8, <1>9
<1>11. Directories \subseteq Directories'
  BY <1>9
<1>12. DOMAIN name2repo = {NameOf(MainPath)} \cup {NameOf(fs.overlays[i]) : i \in Directories'}
  BY <1>7, <1>10, <1>11
<1>13. WordsInv'
  BY <1>1, <1>2, <1>12 DEF OrderInv, WordsInv
<1>14. OverlayInv'
  BY <1>3, <1>5, <1>6 DEF OrderInv, OverlayInv
<1> QED  BY <1>13, <1>14 DEF OrderInv

\* A word that makes one.
LEMMA OrderAdd ==
    ASSUME RepoInv, OrderInv, phase = "overlays", words # <<>>, words' = Tail(words),
           UNCHANGED <<fs, phase>>, AddOverlay
    PROVE  OrderInv'
<1>1. /\ Done \in Nat /\ Done' = Done + 1 /\ Done + 1 \in 1..Len(fs.overlays)
      /\ Head(words) = fs.overlays[Done + 1]
      /\ words' \in Seq(Paths)
      /\ Len(words') <= Len(fs.overlays)
      /\ \A i \in 1..Len(words') : words'[i] = fs.overlays[Done' + i]
  <2>1. WordsInv /\ fs' = fs /\ words # <<>> /\ words' = Tail(words)
    BY DEF OrderInv
  <2>2. Done \in Nat
    BY ONLY <2>1, WordsType
  <2> QED  BY ONLY <2>1, <2>2, NextWord
<1>2. PICK d \in Nat : d = Done /\ Done' = d + 1
  BY <1>1
<1>3. PICK p \in Paths : p = Head(words)
  <2>1. Head(words) \in Paths
    BY DEF OrderInv, WordsInv
  <2> QED  BY <2>1
<1>4. PICK o : o = New(p)
  OBVIOUS
<1>5. /\ p \in fs.dirs /\ NameOf(p) \notin DOMAIN name2repo
      /\ name2repo' = Bind(name2repo, NameOf(p), o)
      /\ repos' = Append(repos, o) /\ overlay' = Append(overlay, p)
  BY <1>3, <1>4 DEF AddOverlay, New
<1>6. \A q : NameOf(q)' = NameOf(q)
  BY DEF NameOf
<1>7. Kept' = Kept /\ Kept \subseteq 1..Len(fs.overlays) /\ Kept \subseteq Int /\ IsFiniteSet(Kept)
  <2>1. Kept' = Kept
    BY <1>6 DEF Kept
  <2> QED  BY <2>1, WordsType DEF OrderInv
<1>8. d + 1 \in Kept
  BY <1>2, <1>3, <1>5, NextKept DEF OrderInv
<1>9. KeptUpTo(Done)' = KeptUpTo(d) \cup {d + 1} /\ KeptUpTo(Done) = KeptUpTo(d)
  <2>1. KeptUpTo(d + 1) = KeptUpTo(d) \cup {d + 1}
    BY <1>7, <1>8, KeptGrows
  <2> QED  BY <1>2, <1>7, <2>1 DEF KeptUpTo
<1>10. \A i : Earlier(i)' = Earlier(i)
  BY <1>7 DEF Earlier
<1>11. Earlier(d + 1) = Len(overlay) /\ Len(overlay) \in Nat
  <2>1. {j \in Kept : j < d + 1} = KeptUpTo(d)
    <3>1. \A j \in Kept : j < d + 1 <=> j <= d
      BY <1>7
    <3> QED  BY <3>1 DEF KeptUpTo
  <2>2. Len(overlay) = Cardinality(KeptUpTo(d)) /\ Len(overlay) \in Nat
    BY <1>9 DEF OrderInv, OverlayInv
  <2>3. Earlier(d + 1) = Cardinality({j \in Kept : j < d + 1})
    BY DEF Earlier
  <2> QED  BY <2>1, <2>2, <2>3
<1>12. Cardinality(KeptUpTo(d) \cup {d + 1}) = Len(overlay) + 1
  <2>1. PICK K : K = KeptUpTo(d)
    OBVIOUS
  <2>2. d + 1 \notin K
    BY <2>1 DEF KeptUpTo
  <2>3. IsFiniteSet(K)
    BY <1>7, <2>1, FS_Subset DEF KeptUpTo
  <2>4. Len(overlay) = Cardinality(K)
    BY <1>9, <2>1 DEF OrderInv, OverlayInv
  <2> QED  BY <2>1, <2>2, <2>3, <2>4, FS_AddElement
<1>13. /\ overlay' \in Seq(Paths) /\ Len(overlay') = Len(overlay) + 1
       /\ DOMAIN overlay = 1..Len(overlay)
       /\ DOMAIN overlay' = DOMAIN overlay \cup {Len(overlay) + 1}
       /\ \A k \in DOMAIN overlay : k # Len(overlay) + 1 /\ overlay'[k] = overlay[k]
       /\ overlay'[Len(overlay) + 1] = p
  BY <1>5 DEF OrderInv, OverlayInv
<1>14. /\ Len(repos) = Len(overlay) + 1
       /\ Len(repos') = Len(overlay) + 2
       /\ \A k \in 1..(Len(overlay) + 1) : repos'[k] = repos[k]
       /\ repos'[Len(overlay) + 2] = o
  <2>1. repos \in Seq(DOMAIN refs) /\ Len(repos) = Len(overlay) + 1
    BY DEF RepoInv, Agree, OrderInv, OverlayInv
  <2>2. \A k \in 1..Len(repos) : Append(repos, o)[k] = repos[k]
    BY <2>1
  <2>3. Append(repos, o)[Len(repos) + 1] = o /\ Len(Append(repos, o)) = Len(repos) + 1
    BY <2>1
  <2> QED  BY <1>5, <1>11, <2>1, <2>2, <2>3
<1>15. \A i \in KeptUpTo(Done)' :
          (Earlier(i) + 1 \in DOMAIN overlay /\ overlay[Earlier(i) + 1] = fs.overlays[i])'
  <2> SUFFICES ASSUME NEW i \in KeptUpTo(d) \cup {d + 1}
               PROVE  Earlier(i) + 1 \in DOMAIN overlay' /\ overlay'[Earlier(i) + 1] = fs.overlays[i]
    BY <1>9, <1>10
  <2>1. CASE i = d + 1
    BY <1>1, <1>2, <1>3, <1>11, <1>13, <2>1
  <2>2. CASE i \in KeptUpTo(d)
    BY <1>9, <1>13, <2>2 DEF OrderInv, OverlayInv
  <2> QED  BY <2>1, <2>2
<1>16. \A k \in DOMAIN overlay' : \E i \in KeptUpTo(Done)' : Earlier(i) = k - 1
  <2> SUFFICES ASSUME NEW k \in DOMAIN overlay'
               PROVE  \E i \in KeptUpTo(d) \cup {d + 1} : Earlier(i) = k - 1
    BY <1>9
  <2>1. CASE k = Len(overlay) + 1
    BY <1>11, <2>1
  <2>2. CASE k \in DOMAIN overlay
    BY <1>9, <2>2 DEF OrderInv, OverlayInv
  <2> QED  BY <1>13, <2>1, <2>2
<1>17. repos'[1].path = MainPath /\ \A k \in DOMAIN overlay' : repos'[k + 1].path = overlay'[k]
  <2>1. repos[1].path = MainPath /\ \A k \in DOMAIN overlay : repos[k + 1].path = overlay[k]
    BY DEF OrderInv, OverlayInv
  <2>2. repos'[1] = repos[1]
    BY <1>11, <1>14
  <2>3. ASSUME NEW k \in DOMAIN overlay PROVE repos'[k + 1] = repos[k + 1]
    BY <1>11, <1>13, <1>14
  <2>4. repos'[(Len(overlay) + 1) + 1].path = p
    BY <1>4, <1>11, <1>14 DEF New
  <2> QED  BY <1>13, <2>1, <2>2, <2>3, <2>4
<1>18. OverlayInv'
  <2>1. Len(overlay') = Cardinality(KeptUpTo(Done)')
    BY <1>9, <1>12, <1>13
  <2>2. Len(repos') = Len(overlay') + 1
    BY <1>11, <1>13, <1>14
  <2> QED  BY <1>10, <1>13, <1>15, <1>16, <1>17, <2>1, <2>2 DEF OverlayInv
<1>19. DOMAIN name2repo' = DOMAIN name2repo \cup {NameOf(p)}
  BY <1>5 DEF Bind
<1>20. Directories' = Directories \cup {d + 1}
  <2>1. 1..(d + 1) = 1..d \cup {d + 1}
    OBVIOUS
  <2> QED  BY <1>1, <1>2, <1>3, <1>5, <2>1 DEF Directories
<1>21. (DOMAIN name2repo = {NameOf(MainPath)} \cup {NameOf(fs.overlays[i]) : i \in Directories})'
  <2>1. DOMAIN name2repo = {NameOf(MainPath)} \cup {NameOf(fs.overlays[i]) : i \in Directories}
    BY DEF OrderInv, WordsInv
  <2>2. {NameOf(fs.overlays[i]) : i \in Directories \cup {d + 1}}
          = {NameOf(fs.overlays[i]) : i \in Directories} \cup {NameOf(p)}
    BY <1>1, <1>2, <1>3
  <2>3. \A i : NameOf(fs.overlays[i])' = NameOf(fs.overlays[i])
    BY DEF NameOf
  <2>4. NameOf(MainPath)' = NameOf(MainPath)
    BY DEF NameOf
  <2>5. {NameOf(fs.overlays[i]) : i \in Directories}' = {NameOf(fs.overlays[i]) : i \in Directories'}
    BY <2>3
  <2>6. DOMAIN name2repo'
           = {NameOf(MainPath)} \cup {NameOf(fs.overlays[i]) : i \in Directories \cup {d + 1}}
    BY <1>19, <2>1, <2>2
  <2> QED  BY <1>20, <2>4, <2>5, <2>6
<1>22. WordsInv'
  BY <1>1, <1>21 DEF OrderInv, WordsInv
<1> QED  BY <1>18, <1>22 DEF OrderInv
\* At the start no word has been looked at.
LEMMA OrderInitial == Init => OrderInv
<1> SUFFICES ASSUME Init PROVE OrderInv
  OBVIOUS
<1>1. /\ fs \in FileSystems /\ words = fs.overlays /\ overlay = <<>> /\ phase = "main"
      /\ fs.overlays \in Seq(Paths) /\ Len(fs.overlays) \in Nat
  <2>1. fs \in FileSystems /\ words = fs.overlays /\ overlay = <<>> /\ phase = "main"
    BY DEF Init
  <2>2. fs.overlays \in Seq(Paths)
    BY <2>1, PathsAssumption
  <2>3. Len(fs.overlays) \in Nat
    BY <2>2
  <2> QED  BY <2>1, <2>2, <2>3
<1>2. Done = 0
  BY <1>1 DEF Done
<1>3. WordsInv
  BY <1>1, <1>2 DEF WordsInv
<1>4. KeptUpTo(Done) = {}
  <2>1. \A i \in Kept : i \in Nat /\ i >= 1
    BY <1>1 DEF Kept
  <2> QED  BY <1>2, <2>1 DEF KeptUpTo
<1>5. OverlayInv
  <2>1. Len(overlay) = 0 /\ DOMAIN overlay = {} /\ overlay \in Seq(Paths)
    BY <1>1
  <2>2. Cardinality(KeptUpTo(Done)) = 0
    BY <1>4, FS_EmptySet
  <2> QED  BY <1>1, <1>4, <2>1, <2>2 DEF OverlayInv
<1> QED  BY <1>3, <1>5 DEF OrderInv

\* PORTDIR is first.
LEMMA OrderInitMain ==
    ASSUME OrderInv, InitMain
    PROVE  OrderInv'
<1>1. PICK m, name : m = New(MainPath) /\ name = NameOf(MainPath)
  OBVIOUS
<1>2. /\ phase = "main" /\ phase' = "overlays" /\ UNCHANGED <<fs, words, overlay>>
      /\ repos' = <<m>> /\ name2repo' = Bind(<<>>, name, m)
  BY <1>1 DEF InitMain
<1>3. DOMAIN name2repo' = {name}
  BY <1>2 DEF Bind
<1>4. /\ \A p : NameOf(p)' = NameOf(p)
      /\ Done' = Done
  BY <1>2 DEF NameOf, Done
<1>5. words = fs.overlays /\ overlay = <<>> /\ Len(fs.overlays) \in Nat
  BY <1>2, WordsType DEF OrderInv, WordsInv
<1>6. Done' = 0 /\ Directories' = {}
  <2>1. Done' = 0
    BY <1>4, <1>5 DEF Done
  <2>2. Directories' = {}
    BY <2>1 DEF Directories
  <2> QED  BY <2>1, <2>2
<1>7. (DOMAIN name2repo = {NameOf(MainPath)} \cup {NameOf(fs.overlays[i]) : i \in Directories})'
  <2>1. {NameOf(fs.overlays[i]) : i \in Directories}' = {}
    BY <1>6
  <2> QED  BY <1>1, <1>3, <1>4, <2>1
<1>8. WordsInv'
  BY <1>2, <1>4, <1>7 DEF OrderInv, WordsInv
<1>9. Kept' = Kept
  BY <1>2, <1>4 DEF Kept
<1>10. KeptUpTo(Done)' = KeptUpTo(Done) /\ \A i : Earlier(i)' = Earlier(i)
  BY <1>4, <1>9 DEF KeptUpTo, Earlier
<1>11. Len(repos') = 1 /\ repos'[1].path = MainPath /\ Len(overlay) = 0 /\ DOMAIN overlay = {}
  BY <1>1, <1>2, <1>5 DEF New
<1>12. OverlayInv'
  BY <1>2, <1>10, <1>11 DEF OrderInv, OverlayInv
<1> QED  BY <1>8, <1>12 DEF OrderInv

\* A step that looks at no word.
LEMMA OrderSame ==
    ASSUME OrderInv, UNCHANGED <<fs, words, overlay, repos, name2repo>>,
           \/ phase' = phase
           \/ phase = "overlays" /\ words = <<>> /\ phase' = "ready"
           \/ phase = "ready" /\ phase' = "stopped"
    PROVE  OrderInv'
<1>1. (\A p : NameOf(p)' = NameOf(p)) /\ Done' = Done
  BY DEF NameOf, Done
<1>2. Kept' = Kept /\ Directories' = Directories
  BY <1>1 DEF Kept, Directories
<1>3. KeptUpTo(Done)' = KeptUpTo(Done) /\ \A i : Earlier(i)' = Earlier(i)
  BY <1>1, <1>2 DEF KeptUpTo, Earlier
<1>4. WordsInv'
  BY <1>1, <1>2 DEF OrderInv, WordsInv
<1>5. OverlayInv'
  BY <1>3 DEF OrderInv, OverlayInv
<1> QED  BY <1>4, <1>5 DEF OrderInv

LEMMA OrderNext == RepoInv /\ OrderInv /\ [Next]_vars => OrderInv'
<1> SUFFICES ASSUME RepoInv, OrderInv, [Next]_vars PROVE OrderInv'
  OBVIOUS
<1>1. CASE InitMain
  BY <1>1, OrderInitMain
<1>2. CASE NextOverlay
  <2>1. phase = "overlays" /\ words # <<>> /\ words' = Tail(words) /\ UNCHANGED <<fs, phase>>
    BY <1>2 DEF NextOverlay
  <2>2. CASE SkipWord
    BY <2>1, <2>2, OrderPass DEF SkipWord
  <2>3. CASE DropDuplicate
    BY <2>1, <2>3, OrderPass DEF DropDuplicate
  <2>4. CASE AddOverlay
    BY <2>1, <2>4, OrderAdd
  <2> QED  BY <1>2, <2>2, <2>3, <2>4 DEF NextOverlay
<1>3. CASE InitReposDone
  BY <1>3, OrderSame DEF InitReposDone, settings
<1>4. CASE SyncDone
  BY <1>4, OrderSame DEF SyncDone, settings
<1>5. ASSUME NEW o \in Outcomes, SyncNext(o)
      PROVE  OrderInv'
  BY <1>5, OrderSame DEF SyncNext, settings
<1>6. CASE UNCHANGED vars
  BY <1>6, OrderSame DEF vars, settings
<1> QED  BY <1>1, <1>2, <1>3, <1>4, <1>5, <1>6 DEF Next, Step, Returned

\* When all words have been looked at, the new PORTDIR_OVERLAY lists all that
\* are kept in their order, and the list of repositories follows it.
LEMMA OrderInvFollows == RepoInv /\ OrderInv => FirstOfANameWins
<1> SUFFICES ASSUME RepoInv, OrderInv, phase \in {"ready", "stopped"}
             PROVE  /\ overlay = [n \in 1..Cardinality(Kept) |->
                                    fs.overlays[CHOOSE i \in Kept :
                                                  Cardinality({j \in Kept : j < i}) = n - 1]]
                    /\ [n \in DOMAIN repos |-> repos[n].path] = <<MainPath>> \o overlay
  BY DEF FirstOfANameWins
<1>1. Done = Len(fs.overlays) /\ Kept \subseteq 1..Len(fs.overlays)
  BY WordsType DEF OrderInv, WordsInv, Done
<1>2. KeptUpTo(Done) = Kept
  <2>1. \A i \in Kept : i <= Len(fs.overlays)
    BY <1>1, WordsType DEF OrderInv
  <2> QED  BY <1>1, <2>1 DEF KeptUpTo
<1>3. /\ overlay \in Seq(Paths) /\ Len(overlay) = Cardinality(Kept)
      /\ DOMAIN overlay = 1..Len(overlay) /\ Len(overlay) \in Nat
  BY <1>2 DEF OrderInv, OverlayInv
<1>4. ASSUME NEW k \in DOMAIN overlay
      PROVE  overlay[k] = fs.overlays[CHOOSE i \in Kept : Cardinality({j \in Kept : j < i}) = k - 1]
  <2>1. \E i \in Kept : Cardinality({j \in Kept : j < i}) = k - 1
    BY <1>2 DEF OrderInv, OverlayInv, Earlier
  <2>2. PICK c : c = CHOOSE i \in Kept : Cardinality({j \in Kept : j < i}) = k - 1
    OBVIOUS
  <2>3. c \in Kept /\ Cardinality({j \in Kept : j < c}) = k - 1
    BY <2>1, <2>2
  <2>4. Earlier(c) + 1 = k
    <3>1. k \in Int
      BY <1>3
    <3>2. Earlier(c) = k - 1
      BY <2>3 DEF Earlier
    <3> QED  BY <3>1, <3>2
  <2>5. overlay[k] = fs.overlays[c]
    BY <1>2, <2>3, <2>4 DEF OrderInv, OverlayInv
  <2> QED  BY <2>2, <2>5
<1>5. overlay = [n \in 1..Cardinality(Kept) |->
                   fs.overlays[CHOOSE i \in Kept : Cardinality({j \in Kept : j < i}) = n - 1]]
  <2>1. overlay = [n \in DOMAIN overlay |-> overlay[n]]
    BY <1>3
  <2> QED  BY <1>3, <1>4, <2>1
<1>6. [n \in DOMAIN repos |-> repos[n].path] = <<MainPath>> \o overlay
  <2>1. /\ repos \in Seq(DOMAIN refs) /\ Len(repos) = Len(overlay) + 1 /\ repos[1].path = MainPath
        /\ \A k \in DOMAIN overlay : repos[k + 1].path = overlay[k]
    BY DEF RepoInv, Agree, OrderInv, OverlayInv
  <2>2. <<MainPath>> \in Seq(Paths) /\ Len(<<MainPath>>) = 1 /\ <<MainPath>>[1] = MainPath
    <3>1. MainPath \in Paths
      BY PathsAssumption
    <3>2. <<MainPath>> \in Seq(Paths)
      BY <3>1
    <3>3. Len(<<MainPath>>) = 1
      OBVIOUS
    <3>4. <<MainPath>>[1] = MainPath
      OBVIOUS
    <3> QED  BY <3>2, <3>3, <3>4
  <2>3. PICK line : line = <<MainPath>> \o overlay
    OBVIOUS
  <2>4. /\ line \in Seq(Paths) /\ Len(line) = 1 + Len(overlay)
        /\ \A i \in 1..(1 + Len(overlay)) : line[i] = IF i <= 1 THEN <<MainPath>>[i] ELSE overlay[i - 1]
    BY <1>3, <2>2, <2>3, ConcatProperties
  <2>5. DOMAIN repos = 1..(Len(overlay) + 1) /\ DOMAIN line = 1..(Len(overlay) + 1)
    BY <1>3, <2>1, <2>4
  <2>6. ASSUME NEW n \in DOMAIN repos
        PROVE  repos[n].path = line[n]
    <3>1. CASE n = 1
      BY <1>3, <2>1, <2>2, <2>4, <3>1
    <3>2. CASE n # 1
      <4>1. n - 1 \in DOMAIN overlay /\ (n - 1) + 1 = n /\ n \in 1..(1 + Len(overlay)) /\ ~(n <= 1)
        BY <1>3, <2>5, <3>2
      <4> QED  BY <2>1, <2>4, <4>1
    <3> QED  BY <3>1, <3>2
  <2>7. line = [n \in DOMAIN line |-> line[n]]
    BY <2>4
  <2> QED  BY <2>3, <2>5, <2>6, <2>7
<1> QED  BY <1>5, <1>6

-----------------------------------------------------------------------------
\* The objects are what their type says, and so is the result.
TypedInv == DOMAIN refs \subseteq Objects /\ result.retval \in Nat

LEMMA TypedInitial == Init => TypedInv
<1> SUFFICES ASSUME Init PROVE TypedInv
  OBVIOUS
<1>1. DOMAIN refs = {}
  BY DEF Init
<1>2. result.retval = 0
  BY DEF Init, Success
<1> QED  BY <1>1, <1>2 DEF TypedInv

\* One object more.
LEMMA TypedNew ==
    ASSUME RepoInv, TypedInv, NEW p \in Paths, NEW n, refs' = Bind(refs, New(p), n)
    PROVE  DOMAIN refs' \subseteq Objects
<1>1. New(p) \in Objects
  BY FS_CardinalityType DEF RepoInv, Numbered, New, Objects
<1>2. DOMAIN refs' = DOMAIN refs \cup {New(p)}
  BY DEF Bind
<1> QED  BY <1>1, <1>2 DEF TypedInv

LEMMA TypedNext == RepoInv /\ OrderInv /\ TypedInv /\ [Next]_vars => TypedInv'
<1> SUFFICES ASSUME RepoInv, OrderInv, TypedInv, [Next]_vars PROVE TypedInv'
  OBVIOUS
<1>1. CASE InitMain
  <2>1. MainPath \in Paths
    BY PathsAssumption
  <2> QED  BY <1>1, <2>1, TypedNew DEF InitMain, TypedInv
<1>2. CASE NextOverlay
  <2>1. Head(words) \in Paths
    BY <1>2 DEF NextOverlay, OrderInv, WordsInv
  <2>2. UNCHANGED result
    BY <1>2 DEF NextOverlay
  <2>3. DOMAIN refs' \subseteq Objects
    BY <1>2, <2>1, TypedNew DEF NextOverlay, SkipWord, DropDuplicate, AddOverlay, TypedInv
  <2> QED  BY <2>2, <2>3 DEF TypedInv
<1>3. CASE InitReposDone \/ SyncDone \/ UNCHANGED vars
  BY <1>3 DEF InitReposDone, SyncDone, vars, settings, TypedInv
<1>4. ASSUME NEW o \in Outcomes, SyncNext(o)
      PROVE  TypedInv'
  <2>1. result' = Sync(o) /\ refs' = refs
    BY <1>4 DEF SyncNext, settings
  <2>2. Sync(o).retval \in Nat
    BY SyncResult
  <2> QED  BY <2>1, <2>2 DEF TypedInv
<1> QED  BY <1>1, <1>2, <1>3, <1>4 DEF Next, Step, Returned

LEMMA TypeFollows == RepoInv /\ PullInv /\ OrderInv /\ TypedInv => RepositoriesTypeOK
<1> SUFFICES ASSUME RepoInv, PullInv, OrderInv, TypedInv PROVE RepositoriesTypeOK
  OBVIOUS
<1>1. words \in Seq(Paths) /\ overlay \in Seq(Paths)
  BY DEF OrderInv, WordsInv, OverlayInv
<1>2. repos \in Seq(Objects)
  BY DEF RepoInv, Agree, TypedInv
<1>3. \A o \in DOMAIN refs : refs[o] \in Nat
  BY DEF RepoInv, Counted
<1>4. \A n \in DOMAIN name2repo : name2repo[n] \in Objects
  BY <1>2 DEF RepoInv, Agree
<1> QED  BY <1>1, <1>2, <1>3, <1>4 DEF RepositoriesTypeOK, RepoInv, PullInv, TypedInv

-----------------------------------------------------------------------------
Early == {"idle", "args", "acquire", "answer", "replaced"}

NothingYet == retval = Undecided /\ told = 0 /\ ~error

\* What main is going to return and whether that is a failure: one that has
\* been told has left no error, any other has left one to be told.
Decided ==
    /\ retval \in 0..255
    /\ told \in {0, 1}
    /\ told = 1 => ~error
    /\ Verdict = "failure" <=> error \/ told = 1

ResultAgrees == result.retval \in 0..255 /\ (result.error <=> result.retval # 0)

\* A question is asked of cportageq wherever its chain of strcmp is looked at.
Asks == at \in {"acquire", "answer", "release"} /\ IsCportageq => IsQuestion

StatusInv ==
    /\ at \in Early \cup {"release", "exited", "died"}
    /\ at \in Early => NothingYet
    /\ at = "release" => Decided
    /\ Asks
    /\ ResultAgrees

SeenStep == [Seen!Next]_(Seen!seen)

\* A step that decides nothing and ends nothing, but perhaps by a fault.
LEMMA Undisturbed ==
    ASSUME StatusInv, UNCHANGED <<command, retval, error, told>>, ResultAgrees',
           \/ at' = at
           \/ at \in Early /\ at' \in Early \cup {"died"}
           \/ at = "release" /\ at' = "died",
           at' \in {"acquire", "answer", "release"} /\ IsCportageq => IsQuestion
    PROVE  StatusInv' /\ SeenStep
<1>1. Verdict' = Verdict /\ SeenStatus' = SeenStatus
  BY DEF Verdict, SeenStatus, IsCportageq, Early
<1>2. SeenStep
  BY <1>1 DEF SeenStep, Seen!seen
<1>3. Asks'
  BY DEF Asks, IsQuestion, IsCportageq, Questions, Sub
<1>4. (at \in Early => NothingYet)' /\ (at = "release" => Decided)'
  BY <1>1 DEF StatusInv, NothingYet, Decided, Early
<1>5. (at \in Early \cup {"release", "exited", "died"})'
  BY DEF StatusInv, Early
<1> QED  BY <1>2, <1>3, <1>4, <1>5 DEF StatusInv

\* A step that decides what main returns: a failure sets the error.
LEMMA Deciding ==
    ASSUME StatusInv, at \in Early, at' \in {"release", "died"}, UNCHANGED <<command, told, result>>,
           retval' \in 0..255, error' <=> (Verdict = "failure")',
           IsCportageq => IsQuestion
    PROVE  StatusInv' /\ SeenStep
<1>1. NothingYet
  BY DEF StatusInv
<1>2. /\ Verdict = "none"
      /\ SeenStatus = Undecided
      /\ SeenStatus' = Undecided
  <2>1. Verdict = "none"
    BY <1>1 DEF NothingYet, Verdict
  <2>2. SeenStatus = Undecided /\ SeenStatus' = Undecided
    BY DEF SeenStatus, Early
  <2> QED  BY <2>1, <2>2
<1>3. Verdict' \in {"yes", "no", "failure"}
  BY DEF Verdict, Undecided
<1>4. SeenStep
  BY <1>1, <1>2, <1>3 DEF SeenStep, Seen!Next, Seen!Answer, Seen!Fail, NothingYet
<1>5. Asks'
  BY DEF Asks, IsQuestion, IsCportageq, Questions, Sub
<1>6. Decided'
  BY <1>1 DEF Decided, NothingYet
<1>7. ResultAgrees'
  BY DEF StatusInv, ResultAgrees
<1> QED  BY <1>4, <1>5, <1>6, <1>7 DEF StatusInv, Early

\* The end of main tells the error there is.
LEMMA Reporting ==
    ASSUME StatusInv, NEW objects, Report(objects), UNCHANGED result
    PROVE  StatusInv' /\ SeenStep
<1>1. at = "release" /\ at' = "exited" /\ UNCHANGED <<command, retval, error>>
  BY DEF Report
<1>2. Decided
  BY <1>1 DEF StatusInv
<1>3. Verdict' = Verdict /\ Verdict # "none"
  BY <1>1, <1>2 DEF Verdict, IsCportageq, Decided, Undecided
<1>4. SeenStatus = Undecided /\ SeenStatus' = retval
  BY <1>1 DEF SeenStatus
<1>5. told' = IF Verdict = "failure" THEN 1 ELSE 0
  <2>1. told' = IF retval # 0 /\ error THEN told + 1 ELSE told
    BY DEF Report
  <2>2. CASE Verdict = "failure"
    <3>1. retval # 0
      BY <2>2 DEF Verdict, Undecided
    <3>2. CASE told = 1
      BY <2>1, <2>2, <3>2, <1>2 DEF Decided
    <3>3. CASE told # 1
      BY <2>1, <2>2, <3>1, <3>3, <1>2 DEF Decided
    <3> QED  BY <3>2, <3>3
  <2>3. CASE Verdict # "failure"
    BY <2>1, <2>3, <1>2 DEF Decided
  <2> QED  BY <2>2, <2>3
<1>6. told' >= told
  BY <1>2, <1>5 DEF Decided
<1>7. retval \in Nat /\ (retval = 0 <=> Verdict = "yes")
  BY <1>2 DEF Decided, Verdict, Undecided
<1>8. Seen!Exit
  BY <1>3, <1>4, <1>5, <1>6, <1>7 DEF Seen!Exit
<1>9. Asks' /\ ResultAgrees'
  BY <1>1 DEF Asks, StatusInv, ResultAgrees
<1> QED  BY <1>1, <1>8, <1>9 DEF StatusInv, SeenStep, Seen!Next, Early

\* The chain of calls that make the objects, in either program.
LEMMA Acquiring ==
    ASSUME StatusInv, UNCHANGED result, IsCportageq => IsQuestion,
           NEW objects, NEW status \in 1..255, IsCportageq => status # 1,
           Acquire(objects, status) \/ Acquired(objects)
    PROVE  StatusInv' /\ SeenStep
<1>1. at = "acquire" /\ UNCHANGED <<command, told>> /\ ResultAgrees'
  BY DEF Acquire, Acquired, StatusInv, ResultAgrees
<1>2. (IsCportageq => IsQuestion)'
  BY <1>1 DEF IsCportageq, IsQuestion, Questions, Sub
<1>3. CASE Acquired(objects)
  BY <1>1, <1>2, <1>3, Undisturbed DEF Acquired, Early
<1>4. CASE Acquire(objects, status)
  <2>1. CASE Obtain(objects[step])
    BY <1>1, <1>2, <2>1, Undisturbed DEF Obtain
  <2>2. CASE CannotObtain(objects[step], status)
    <3>1. retval' = status /\ error' = TRUE /\ at' \in {"release", "died"}
      BY <2>2 DEF CannotObtain, GoOn
    <3>2. (Verdict = "failure")'
      BY <1>1, <3>1 DEF Verdict, IsCportageq, Undecided
    <3> QED  BY <1>1, <3>1, <3>2, Deciding DEF Early
  <2> QED  BY <1>4, <2>1, <2>2 DEF Acquire
<1> QED  BY <1>3, <1>4

\* A release leaves the verdict alone.
LEMMA Releasing ==
    ASSUME StatusInv, UNCHANGED result, IsCportageq => IsQuestion, NEW objects, Release(objects)
    PROVE  StatusInv' /\ SeenStep
<1>1. at = "release" /\ at' \in {"release", "died"} /\ UNCHANGED <<command, retval, error, told>>
  BY DEF Release, GoOn
<1>2. (IsCportageq => IsQuestion)' /\ ResultAgrees'
  BY <1>1 DEF IsCportageq, IsQuestion, Questions, Sub, StatusInv, ResultAgrees
<1> QED  BY <1>1, <1>2, Undisturbed

LEMMA QueryStatus ==
    ASSUME StatusInv, Query
    PROVE  StatusInv' /\ SeenStep
<1>1. IsCportageq /\ UNCHANGED result /\ ResultAgrees'
  BY DEF Query, CportageqStep, vars, Usage, TooFew, Begin, CportageqAnswer, PrintRepoPath,
         RepoPathsPrinted, StatusInv, ResultAgrees
<1>2. CASE Usage
  <2>1. at = "args" /\ at' = "exited" /\ NothingYet /\ UNCHANGED <<command, told>>
    BY <1>2 DEF Usage, StatusInv, Early
  <2>2. Verdict = "none" /\ SeenStatus = Undecided
    <3>1. Verdict = "none"
      BY <2>1 DEF Verdict, NothingYet
    <3> QED  BY <2>1, <3>1 DEF SeenStatus
  <2>3. retval' \in {0, 2}
    BY <1>2 DEF Usage, Error
  <2>4. /\ Verdict' \in {"yes", "failure"}
        /\ SeenStatus' = IF Verdict' = "yes" THEN 0 ELSE 2
    BY <2>1, <2>3 DEF Verdict, SeenStatus, Undecided
  <2>5. Seen!Usage
    BY <2>1, <2>2, <2>4 DEF Seen!Usage
  <2>6. Asks'
    BY <2>1 DEF Asks
  <2> QED  BY <1>1, <2>1, <2>5, <2>6 DEF StatusInv, SeenStep, Seen!Next, Early
<1>3. CASE TooFew
  <2>1. /\ at = "args" /\ at' = "release" /\ NothingYet /\ IsQuestion
        /\ retval' = 2 /\ told' = 1 /\ UNCHANGED <<command, error>>
    BY <1>3 DEF TooFew, StatusInv, Early, NothingYet, Error
  <2>2. Verdict = "none" /\ (Verdict = "failure")'
    <3>1. Verdict = "none"
      BY <2>1 DEF Verdict, NothingYet
    <3>2. (Verdict = "failure")'
      BY <2>1 DEF Verdict, Undecided
    <3> QED  BY <3>1, <3>2
  <2>3. SeenStatus = Undecided /\ SeenStatus' = Undecided
    BY <2>1 DEF SeenStatus
  <2>4. Seen!Fail
    BY <2>1, <2>2, <2>3 DEF Seen!Fail, NothingYet
  <2>5. Decided' /\ Asks'
    BY <2>1, <2>2 DEF Decided, NothingYet, Asks, IsQuestion, IsCportageq, Questions, Sub
  <2> QED  BY <1>1, <2>1, <2>4, <2>5 DEF StatusInv, SeenStep, Seen!Next, Early
<1>4. CASE Begin
  BY <1>1, <1>4, Undisturbed DEF Begin, Early, IsQuestion, Questions, Sub
<1>5. CASE CportageqAnswer
  <2>1. at = "answer" /\ at' = "release" /\ NothingYet /\ UNCHANGED <<command, error, told>>
    BY <1>5 DEF CportageqAnswer, StatusInv, Early
  <2>2. IsQuestion
    BY <1>1, <2>1 DEF StatusInv, Asks
  <2>3. retval' \in {0, 1}
    BY <1>5 DEF CportageqAnswer, Answer, PrintPkgs, TestNonempty, PrintLast
  <2>4. Verdict' \in {"yes", "no"}
    BY <1>1, <2>1, <2>3 DEF Verdict, IsCportageq, Undecided
  <2>5. ~error' /\ retval' \in 0..255
    BY <2>1, <2>3 DEF NothingYet
  <2> QED  BY <1>1, <2>1, <2>2, <2>4, <2>5, Deciding DEF Early
<1>6. CASE PrintRepoPath
  <2>1. /\ at = "answer" /\ at' \in {"answer", "died"}
        /\ UNCHANGED <<command, retval, error, told>>
    BY <1>6 DEF PrintRepoPath, GoOn
  <2>2. IsQuestion
    BY <1>1, <2>1 DEF StatusInv, Asks
  <2> QED  BY <1>1, <2>1, <2>2, Undisturbed DEF Early
<1>7. CASE RepoPathsPrinted
  <2>1. /\ at = "answer" /\ at' = "release" /\ NothingYet /\ retval' = 0
        /\ UNCHANGED <<command, error, told>>
    BY <1>7 DEF RepoPathsPrinted, StatusInv, Early
  <2>2. IsQuestion
    BY <1>1, <2>1 DEF StatusInv, Asks
  <2>3. Verdict' = "yes"
    BY <2>1 DEF Verdict, Undecided
  <2>4. ~error' /\ retval' \in 0..255
    BY <2>1 DEF NothingYet
  <2> QED  BY <1>1, <2>1, <2>2, <2>3, <2>4, Deciding DEF Early
<1>8. CASE IsQuestion /\ (Acquire(ThePlan.acquires, Error) \/ Acquired(ThePlan.acquires))
  BY <1>1, <1>8, Acquiring DEF Error
<1>9. CASE IsQuestion /\ Release(ThePlan.releases)
  BY <1>1, <1>9, Releasing
<1>10. CASE Report(ThePlan.releases)
  BY <1>1, <1>10, Reporting
<1> QED
  BY <1>2, <1>3, <1>4, <1>5, <1>6, <1>7, <1>8, <1>9, <1>10 DEF Query, CportageqStep

\* An action of cmerge has returned, with an error exactly for a failure.
LEMMA Returning ==
    ASSUME StatusInv, IsCmerge, at = "answer", at' = "release",
           UNCHANGED <<command, told, result>>,
           retval' \in 0..255, error' <=> retval' # 0
    PROVE  StatusInv' /\ SeenStep
<1>1. ~IsCportageq /\ ~IsCportageq'
  BY DEF IsCmerge, IsCportageq
<1>2. (Verdict = "failure")' <=> retval' # 0
  BY <1>1 DEF Verdict, Undecided
<1> QED  BY <1>1, <1>2, Deciding DEF Early

\* One more part of cmerge --info, or of the adjustments, is done.
LEMMA Continuing ==
    ASSUME StatusInv, IsCmerge, UNCHANGED <<command, at, retval, error, told, result>>
    PROVE  StatusInv' /\ SeenStep
<1>1. ~IsCportageq /\ ~IsCportageq' /\ ResultAgrees'
  BY DEF IsCmerge, IsCportageq, StatusInv, ResultAgrees
<1> QED  BY <1>1, Undisturbed

\* Return as Returning wants it, where no error was set before.
LEMMA ReturnSets ==
    ASSUME NEW status, NEW fails \in BOOLEAN, NEW lines, Return(status, fails, lines), ~error
    PROVE  retval' = status /\ at' = "release" /\ (error' <=> fails)
BY DEF Return

LEMMA MergeIsCmerge == Merge => IsCmerge
BY DEF Merge, CmergeStep, ParseOptions, CmergeAcquire, AdjustNiceness, AdjustIonice, Adjusts,
       InstallOrVersion, Help, SyncReturns, InfoHead, InfoSystem, InfoLinker, InfoPackage,
       InfoRepositories, InfoVariable, InfoEnd, InInfo, CmergeRelease, CmergeReport

LEMMA MergeStatus ==
    ASSUME StatusInv, Merge
    PROVE  StatusInv' /\ SeenStep
<1>1. IsCmerge /\ UNCHANGED result /\ ResultAgrees'
  <2>1. IsCmerge
    BY MergeIsCmerge
  <2>2. UNCHANGED result
    BY DEF Merge, vars
  <2> QED  BY <2>1, <2>2 DEF StatusInv, ResultAgrees
<1>2. ~IsCportageq
  BY <1>1 DEF IsCmerge, IsCportageq
<1>3. CASE ParseOptions
  <2>1. at = "args" /\ NothingYet /\ UNCHANGED <<command, told>> /\ ~IsCportageq'
    BY <1>2, <1>3 DEF ParseOptions, StatusInv, Early, IsCportageq
  <2>2. CASE BadOptions
    <3>1. retval' = 1 /\ error' = TRUE /\ at' = "release"
      BY <1>3, <2>2 DEF ParseOptions
    <3>2. (Verdict = "failure")'
      BY <2>1, <3>1 DEF Verdict, Undecided
    <3> QED  BY <1>1, <1>2, <2>1, <3>1, <3>2, Deciding DEF Early
  <2>3. CASE ~BadOptions
    BY <1>1, <1>2, <1>3, <2>1, <2>3, Undisturbed DEF ParseOptions, Early
  <2> QED  BY <2>2, <2>3
<1>4. CASE CmergeAcquire
  BY <1>1, <1>2, <1>4, Acquiring DEF CmergeAcquire
<1>5. CASE AdjustNiceness \/ AdjustIonice
  BY <1>1, <1>5, Continuing DEF AdjustNiceness, AdjustIonice, Adjusts, process
<1>6. at = "answer" => ~error
  BY DEF StatusInv, Early, NothingYet
<1>7. CASE InstallOrVersion
  <2>1. retval' = 0 /\ at' = "release" /\ ~error'
    BY <1>6, <1>7, ReturnSets DEF InstallOrVersion
  <2> QED  BY <1>1, <1>7, <2>1, Returning DEF InstallOrVersion
<1>8. CASE Help
  <2>1. CASE Return(255, TRUE, <<>>)
    <3>1. retval' = 255 /\ at' = "release" /\ error'
      BY <1>6, <1>8, <2>1, ReturnSets DEF Help
    <3> QED  BY <1>1, <1>8, <3>1, Returning DEF Help
  <2>2. CASE at' = "replaced" /\ UNCHANGED <<retval, error, out>>
    BY <1>1, <1>2, <1>8, <2>2, Undisturbed DEF Help, Early
  <2> QED  BY <1>8, <2>1, <2>2 DEF Help
<1>9. CASE SyncReturns
  <2>1. result.retval \in 0..255 /\ (result.error <=> result.retval # 0)
    BY DEF StatusInv, ResultAgrees
  <2> QED  BY <1>1, <1>9, <1>6, <2>1, Returning DEF SyncReturns, Return
<1>10. ASSUME NEW lines, Printed(lines)
      PROVE  StatusInv' /\ SeenStep
  BY <1>1, <1>10, Continuing DEF Printed
<1>11. ASSUME InInfo, QueryFails
       PROVE  StatusInv' /\ SeenStep
  <2>1. retval' = 1 /\ at' = "release" /\ error'
    BY <1>6, <1>11, ReturnSets DEF InInfo, QueryFails
  <2> QED  BY <1>1, <1>11, <2>1, Returning DEF InInfo, QueryFails
<1>12. CASE InfoHead \/ InfoSystem \/ InfoLinker
  BY <1>10, <1>11, <1>12 DEF InfoHead, InfoSystem, InfoLinker
<1>13. CASE InfoPackage
  BY <1>10, <1>11, <1>13 DEF InfoPackage
<1>14. CASE InfoRepositories \/ InfoVariable
  BY <1>10, <1>14 DEF InfoRepositories, InfoVariable
<1>15. CASE InfoEnd
  <2>1. retval' = 0 /\ at' = "release" /\ ~error'
    BY <1>6, <1>15, ReturnSets DEF InfoEnd, InInfo
  <2> QED  BY <1>1, <1>15, <2>1, Returning DEF InfoEnd, InInfo
<1>16. CASE CmergeRelease
  BY <1>1, <1>2, <1>16, Releasing DEF CmergeRelease
<1>17. CASE CmergeReport
  BY <1>1, <1>17, Reporting DEF CmergeReport
<1> QED
  BY <1>3, <1>4, <1>5, <1>7, <1>8, <1>9, <1>12, <1>13, <1>14, <1>15, <1>16, <1>17 DEF Merge, CmergeStep

LEMMA StatusStep == StatusInv /\ [ProgramsNext]_allVars => StatusInv' /\ SeenStep
<1> SUFFICES ASSUME StatusInv, [ProgramsNext]_allVars
             PROVE  StatusInv' /\ SeenStep
  OBVIOUS
<1>1. ASSUME UNCHANGED process, ResultAgrees'
      PROVE  StatusInv' /\ SeenStep
  <2>1. UNCHANGED <<command, at, retval, error, told>>
    BY <1>1 DEF process
  <2>2. at' \in {"acquire", "answer", "release"} /\ IsCportageq => IsQuestion
    BY <2>1 DEF StatusInv, Asks
  <2> QED  BY <1>1, <2>1, <2>2, Undisturbed
<1>2. CASE Load
  <2>1. UNCHANGED result
    BY <1>2 DEF Load, InitMain, NextOverlay, InitReposDone
  <2> QED  BY <1>1, <1>2, <2>1 DEF Load, StatusInv, ResultAgrees
<1>3. CASE Start
  <2>1. /\ at = "idle" /\ at' = "args" /\ NothingYet
        /\ UNCHANGED <<retval, error, told, result>>
    BY <1>3 DEF Start, Invoke, vars, StatusInv, Early
  <2>2. Verdict = "none" /\ Verdict' = "none"
    BY <2>1 DEF Verdict, NothingYet
  <2>3. SeenStatus' = SeenStatus
    BY <2>1 DEF SeenStatus
  <2>4. SeenStep
    BY <2>1, <2>2, <2>3 DEF SeenStep, Seen!seen
  <2>5. NothingYet' /\ Asks' /\ ResultAgrees'
    BY <2>1 DEF NothingYet, Asks, StatusInv, ResultAgrees
  <2> QED  BY <2>1, <2>4, <2>5 DEF StatusInv, Early
<1>4. CASE Query
  BY <1>4, QueryStatus
<1>5. CASE Merge
  BY <1>5, MergeStatus
<1>6. CASE Pull
  <2>1. ResultAgrees'
    BY <1>6, SyncResult DEF Pull, SyncDone, SyncNext, StatusInv, ResultAgrees
  <2> QED  BY <1>1, <1>6, <2>1 DEF Pull
<1>7. CASE UNCHANGED allVars
  BY <1>1, <1>7 DEF allVars, vars, StatusInv, ResultAgrees
<1> QED  BY <1>2, <1>3, <1>4, <1>5, <1>6, <1>7 DEF ProgramsNext, Work, Gone

LEMMA InitStatus == ProgramsInit => StatusInv /\ Seen!Init
BY DEF ProgramsInit, Init, ProcessInit, StatusInv, NothingYet, ResultAgrees, Success, Undecided,
       Seen!Init, Verdict, SeenStatus, NoCommand, IsCportageq, Asks, Early

\* Every command of cmerge and of cportageq shows one verdict, tells a failure
\* once and nothing else, and exits with the status of the verdict, whichever
\* call fails and whatever git or an action returns: the programs implement
\* ExitStatus (cmerge/main.c:167-208, cportageq/main.c:307-377).
THEOREM StatusIsSound == ProgramsSpec => StatusFollowsVerdict
<1>1. ProgramsInit => StatusInv /\ Seen!Init
  BY InitStatus
<1>2. StatusInv /\ [ProgramsNext]_allVars => StatusInv' /\ [Seen!Next]_(Seen!seen)
  BY StatusStep DEF SeenStep
<1> QED  BY <1>1, <1>2, PTL DEF ProgramsSpec, StatusFollowsVerdict, Seen!Spec

-----------------------------------------------------------------------------
\* Loading and pulling by the programs are those of Repositories.
LEMMA ProgramsLoad == ProgramsNext => [Next]_vars
<1>1. Load => Next
  BY DEF Load, Next, Step
<1>2. Pull => Next
  BY DEF Pull, Next, Step
<1>3. Start \/ Query \/ Merge => UNCHANGED vars
  BY DEF Start, Query, Merge
<1>4. Gone => UNCHANGED vars
  BY DEF Gone, allVars
<1> QED  BY <1>1, <1>2, <1>3, <1>4 DEF ProgramsNext, Work

\* In every command the repositories of the list are those of the table, each
\* with as many references as the settings will release (settings.c:298-331).
THEOREM RepositoriesAgree == ProgramsSpec => []ListAndTableAgree
<1>1. ProgramsInit => RepoInv
  BY RepoInit DEF ProgramsInit
<1>2. RepoInv /\ [ProgramsNext]_allVars => RepoInv'
  <2>1. [ProgramsNext]_allVars => [Next]_vars
    BY ProgramsLoad DEF allVars
  <2> QED  BY <2>1, RepoNext
<1> QED  BY <1>1, <1>2, RepoInvAgrees, PTL DEF ProgramsSpec

\* cmerge --sync pulls the repositories in the order of the list, stops at the
\* first call that reports a failure, and fails exactly with an error
\* (sync_action.c:32-37).
THEOREM PullsInOrder == ProgramsSpec => []PullsFollowTheList
<1>1. ProgramsInit => RepoInv /\ PullInv
  BY RepoInit, PullInit DEF ProgramsInit
<1>2. RepoInv /\ PullInv /\ [ProgramsNext]_allVars => RepoInv' /\ PullInv'
  <2>1. [ProgramsNext]_allVars => [Next]_vars
    BY ProgramsLoad DEF allVars
  <2> QED  BY <2>1, RepoNext, PullNext
<1> QED  BY <1>1, <1>2, PullInvFollows, PTL DEF ProgramsSpec

-----------------------------------------------------------------------------
\* The repositories and their order, in every command.
ListInv == RepoInv /\ OrderInv /\ TypedInv

LEMMA ListInit == ProgramsInit => ListInv
BY RepoInit, OrderInitial, TypedInitial DEF ProgramsInit, ListInv

LEMMA ListNext == ListInv /\ [ProgramsNext]_allVars => ListInv'
<1>1. [ProgramsNext]_allVars => [Next]_vars
  BY ProgramsLoad DEF allVars
<1> QED  BY <1>1, RepoNext, OrderNext, TypedNext DEF ListInv

\* PORTDIR comes first, the overlays follow in the order of PORTDIR_OVERLAY, of
\* those with one name only the first, and the value of PORTDIR_OVERLAY lists
\* just these, for every disk (settings.c:308-344).
THEOREM OverlaysInOrder == ProgramsSpec => []FirstOfANameWins
<1>1. ListInv => FirstOfANameWins
  BY OrderInvFollows DEF ListInv
<1> QED  BY <1>1, ListInit, ListNext, PTL DEF ProgramsSpec

-----------------------------------------------------------------------------
\* What cportageq has printed of the repositories.
Listing == IsCportageq /\ IsQuestion /\ Sub = "get_repos"
Asking == IsCportageq /\ IsQuestion /\ Sub = "get_repo_path"

PrintedInv ==
    /\ at = "idle" => command = NoCommand
    /\ at # "idle" => phase \in {"ready", "stopped"}
    /\ at \in {"idle", "args", "acquire"} => out = <<>>
    /\ step \in Nat /\ step > 0
    /\ Listing /\ retval = 0 => out = GetReposLine
    /\ Asking =>
          /\ out \in Seq(Paths \cup {""})
          /\ \A i \in DOMAIN out : out[i] = RepoPathLine(Params[i + 1])
          /\ at = "answer" => Len(out) = step - 1

\* The answers stay true as long as the repositories stay.
LEMMA SameAnswers ==
    ASSUME UNCHANGED <<fs, repos, name2repo, command>>
    PROVE  /\ Listing' = Listing /\ Asking' = Asking /\ IsCportageq' = IsCportageq
           /\ GetReposLine' = GetReposLine
           /\ \A name : RepoPathLine(name)' = RepoPathLine(name)
           /\ Params' = Params
<1>1. \A p : NameOf(p)' = NameOf(p)
  BY DEF NameOf
<1>2. GetReposLine' = GetReposLine
  BY <1>1 DEF GetReposLine, RepositoryNames
<1>3. \A name : RepoPathLine(name)' = RepoPathLine(name)
  BY DEF RepoPathLine
<1>4. /\ Listing' = Listing /\ Asking' = Asking /\ IsCportageq' = IsCportageq
      /\ Params' = Params
  BY DEF Listing, Asking, IsCportageq, IsQuestion, Questions, Words, Sub, Params
<1> QED  BY <1>2, <1>3, <1>4

\* A step that prints nothing and leaves the answer as it is.
LEMMA PrintsNothing ==
    ASSUME PrintedInv, UNCHANGED <<fs, repos, name2repo, command, out>>,
           at # "idle", at' # "idle", phase' \in {"ready", "stopped"},
           at' \in {"args", "acquire"} => at \in {"args", "acquire"},
           step' \in Nat /\ step' > 0,
           retval' = 0 => retval = 0 \/ ~Listing,
           at' = "answer" => \/ at = "answer" /\ (step' = step \/ ~Asking)
                             \/ at = "acquire" /\ step' = 1
    PROVE  PrintedInv'
<1>1. /\ Listing' = Listing /\ Asking' = Asking /\ GetReposLine' = GetReposLine
      /\ \A name : RepoPathLine(name)' = RepoPathLine(name)
      /\ Params' = Params
  BY SameAnswers
<1>2. (Listing /\ retval = 0 => out = GetReposLine)'
  BY <1>1 DEF PrintedInv
<1>3. ASSUME Asking
      PROVE  (/\ out \in Seq(Paths \cup {""})
              /\ \A i \in DOMAIN out : out[i] = RepoPathLine(Params[i + 1])
              /\ at = "answer" => Len(out) = step - 1)'
  <2>1. (/\ out \in Seq(Paths \cup {""})
         /\ \A i \in DOMAIN out : out[i] = RepoPathLine(Params[i + 1]))'
    BY <1>1, <1>3 DEF PrintedInv
  <2>2. ASSUME at' = "answer"
        PROVE  Len(out') = step' - 1
    <3>1. CASE at = "answer" /\ step' = step
      BY <1>3, <3>1 DEF PrintedInv
    <3>2. CASE at = "acquire" /\ step' = 1
      <4>1. out' = <<>>
        BY <3>2 DEF PrintedInv
      <4>2. Len(out') = 0
        BY <4>1
      <4> QED  BY <3>2, <4>2
    <3> QED  BY <1>3, <2>2, <3>1, <3>2
  <2> QED  BY <2>1, <2>2
<1> QED  BY <1>1, <1>2, <1>3 DEF PrintedInv

\* One line more.
LEMMA OneMore ==
    ASSUME NEW S, NEW lines \in Seq(S), NEW line \in S
    PROVE  /\ Append(lines, line) \in Seq(S)
           /\ Len(lines) \in Nat /\ DOMAIN lines = 1..Len(lines)
           /\ Len(Append(lines, line)) = Len(lines) + 1
           /\ DOMAIN Append(lines, line) = 1..(Len(lines) + 1)
           /\ \A i \in 1..Len(lines) : Append(lines, line)[i] = lines[i]
           /\ Append(lines, line)[Len(lines) + 1] = line
OBVIOUS

\* The steps all commands of both programs have.
LEMMA PrintedCommon ==
    ASSUME PrintedInv, UNCHANGED vars, IsCportageq => IsQuestion,
           NEW acquires, NEW releases, NEW status \in 1..255,
           \/ Acquire(acquires, status) \/ Acquired(acquires)
           \/ Release(releases) \/ Report(releases)
    PROVE  PrintedInv'
<1>1. /\ UNCHANGED <<fs, repos, name2repo, command, out>> /\ phase' = phase
      /\ at \in {"acquire", "release"} /\ step \in Nat /\ step > 0
  BY DEF Acquire, Acquired, Release, Report, vars, settings, PrintedInv
<1>2. CASE Acquire(acquires, status)
  <2>1. \/ at' = "acquire" /\ step' = step + 1 /\ retval' = retval
        \/ at' \in {"release", "died"} /\ step' = 1 /\ retval' = status
    BY <1>1, <1>2 DEF Acquire, Obtain, CannotObtain, GoOn
  <2> QED  BY <1>1, <1>2, <2>1, PrintsNothing DEF PrintedInv, Acquire
<1>3. CASE Acquired(acquires)
  BY <1>1, <1>3, PrintsNothing DEF PrintedInv, Acquired
<1>4. CASE Release(releases)
  <2>1. /\ at = "release" /\ at' \in {"release", "died"}
        /\ retval' = retval /\ phase' \in {"ready", "stopped"}
    BY <1>1, <1>4 DEF Release, GoOn, PrintedInv
  <2>2. step \in Nat /\ step > 0
    BY DEF PrintedInv
  <2>3. step' = step + 1
    BY <1>4 DEF Release
  <2>4. step' \in Nat /\ step' > 0
    BY <2>2, <2>3
  <2> QED  BY <1>1, <2>1, <2>4, PrintsNothing
<1>5. CASE Report(releases)
  BY <1>1, <1>5, PrintsNothing DEF PrintedInv, Report
<1> QED  BY <1>2, <1>3, <1>4, <1>5

\* One turn of the loop of get_repo_path prints one line.
LEMMA PrintedPath ==
    ASSUME ListInv, PrintedInv, StatusInv, UNCHANGED vars, PrintRepoPath
    PROVE  PrintedInv'
<1>1. PICK line : line = RepoPathLine(Params[step + 1])
  OBVIOUS
<1>2. /\ UNCHANGED <<fs, repos, name2repo, command, retval>> /\ phase' = phase
      /\ at = "answer" /\ at' \in {"answer", "died"} /\ step' = step + 1
      /\ IsCportageq /\ Sub = "get_repo_path" /\ out' = Append(out, line)
  BY <1>1 DEF PrintRepoPath, GoOn, vars, settings
<1>3. IsQuestion /\ Asking /\ ~Listing
  BY <1>2 DEF StatusInv, Asks, Asking, Listing
<1>4. line \in Paths \cup {""}
  <2>1. ASSUME NEW n \in DOMAIN name2repo PROVE name2repo[n].path \in Paths
    BY DEF ListInv, TypedInv, RepoInv, Agree, Objects
  <2> QED  BY <1>1, <2>1 DEF RepoPathLine
<1>5. /\ Listing' = Listing /\ Asking' = Asking
      /\ \A name : RepoPathLine(name)' = RepoPathLine(name)
      /\ Params' = Params
  BY <1>2, SameAnswers
<1>6. /\ out \in Seq(Paths \cup {""}) /\ Len(out) = step - 1 /\ step \in Nat /\ step > 0
      /\ \A i \in DOMAIN out : out[i] = RepoPathLine(Params[i + 1])
  BY <1>2, <1>3 DEF PrintedInv
<1>7. PICK k \in Nat :
         /\ k = Len(out) /\ step = k + 1 /\ DOMAIN out = 1..k
         /\ out' \in Seq(Paths \cup {""}) /\ Len(out') = k + 1
         /\ DOMAIN out' = 1..(k + 1)
         /\ \A i \in 1..k : out'[i] = out[i]
         /\ out'[k + 1] = line
  <2>1. PICK S : S = Paths \cup {""}
    OBVIOUS
  <2>2. out \in Seq(S) /\ line \in S
    BY <1>4, <1>6, <2>1
  <2>3. PICK k \in Nat : k = Len(out)
    BY <2>2, OneMore
  <2>4. k = step - 1 /\ step \in Nat
    BY <1>6, <2>3
  <2>5. step = k + 1
    BY <2>4
  <2>6. /\ out' \in Seq(S) /\ Len(out') = k + 1 /\ DOMAIN out = 1..k
        /\ DOMAIN out' = 1..(k + 1)
        /\ \A i \in 1..k : out'[i] = out[i]
        /\ out'[k + 1] = line
    BY <1>2, <2>2, <2>3, OneMore
  <2> QED  BY <2>1, <2>3, <2>5, <2>6
<1>8. \A i \in DOMAIN out' : out'[i] = RepoPathLine(Params[i + 1])
  <2> SUFFICES ASSUME NEW i \in DOMAIN out' PROVE out'[i] = RepoPathLine(Params[i + 1])
    OBVIOUS
  <2>1. CASE i = k + 1
    BY <1>1, <1>7, <2>1
  <2>2. CASE i # k + 1
    <3>1. i \in 1..(k + 1)
      BY <1>7
    <3>2. i \in 1..k
      BY <2>2, <3>1
    <3> QED  BY <1>6, <1>7, <3>2
  <2> QED  BY <2>1, <2>2
<1>9. Len(out') = step' - 1 /\ step' \in Nat /\ step' > 0
  <2>1. Len(out') = k + 1 /\ step = k + 1
    BY <1>7
  <2>2. step' = step + 1
    BY <1>2
  <2> QED  BY <2>1, <2>2
<1> QED  BY <1>2, <1>3, <1>5, <1>7, <1>8, <1>9 DEF PrintedInv

LEMMA PrintedQuery ==
    ASSUME ListInv, PrintedInv, StatusInv, Query
    PROVE  PrintedInv'
<1>1. UNCHANGED vars /\ IsCportageq
      /\ UNCHANGED <<fs, repos, name2repo>> /\ phase' = phase
  BY DEF Query, vars, settings, CportageqStep, Usage, TooFew, Begin, CportageqAnswer,
         PrintRepoPath, RepoPathsPrinted
<1>2. CASE Usage
  <2>1. UNCHANGED command /\ ~IsQuestion /\ at' = "exited" /\ at = "args" /\ step' = step
    BY <1>2 DEF Usage
  <2>2. ~Listing' /\ ~Asking'
    BY <2>1 DEF Listing, Asking, IsQuestion, Questions, Words, Sub
  <2> QED  BY <1>1, <2>1, <2>2 DEF PrintedInv
<1>3. CASE TooFew \/ Begin
  <2>1. /\ UNCHANGED <<command, out, step>> /\ at = "args" /\ at' \in {"acquire", "release"}
        /\ retval' = 0 => retval = 0
    BY <1>3 DEF TooFew, Begin, Error
  <2> QED  BY <1>1, <2>1, PrintsNothing DEF PrintedInv
<1>4. CASE CportageqAnswer
  <2>1. at = "answer" /\ at' = "release" /\ UNCHANGED <<command, step>>
    BY <1>4 DEF CportageqAnswer
  <2>2. ~Asking
    BY <1>4, LowerVarsAssumption DEF CportageqAnswer, Asking, Words
  <2>3. Listing => out' = GetReposLine
    BY <1>4, LowerVarsAssumption DEF CportageqAnswer, Listing, Words, Answer
  <2>4. /\ Listing' = Listing /\ Asking' = Asking /\ GetReposLine' = GetReposLine
    BY <1>1, <2>1, SameAnswers
  <2> QED  BY <1>1, <2>1, <2>2, <2>3, <2>4 DEF PrintedInv
<1>5. CASE PrintRepoPath
  BY <1>1, <1>5, PrintedPath
<1>6. CASE RepoPathsPrinted
  <2>1. /\ UNCHANGED <<command, out>> /\ at = "answer" /\ at' = "release" /\ step' = 1
        /\ Sub = "get_repo_path"
    BY <1>6 DEF RepoPathsPrinted
  <2>2. ~Listing /\ phase' \in {"ready", "stopped"}
    BY <1>1, <2>1 DEF Listing, PrintedInv
  <2>3. UNCHANGED <<fs, repos, name2repo, command, out>>
    BY <1>1, <2>1
  <2> QED  BY <2>1, <2>2, <2>3, PrintsNothing
<1>7. CASE IsQuestion /\ (\/ Acquire(ThePlan.acquires, Error) \/ Acquired(ThePlan.acquires)
                         \/ Release(ThePlan.releases) \/ Report(ThePlan.releases))
  BY <1>1, <1>7, PrintedCommon DEF Error
<1> QED
  BY <1>2, <1>3, <1>4, <1>5, <1>6, <1>7 DEF Query, CportageqStep

\* A step of cmerge answers no question of cportageq.
LEMMA PrintedMerge ==
    ASSUME PrintedInv, Merge
    PROVE  PrintedInv'
<1>1. IsCmerge /\ UNCHANGED vars /\ phase' = phase
  BY MergeIsCmerge DEF Merge, vars
<1>2. UNCHANGED command
  BY DEF Merge, CmergeStep, ParseOptions, CmergeAcquire, Acquire, Acquired, AdjustNiceness,
         AdjustIonice, Adjusts, process, InstallOrVersion, Help, SyncReturns, InfoHead, InfoSystem,
         InfoLinker, InfoPackage, InfoRepositories, InfoVariable, InfoEnd, Printed, QueryFails,
         CmergeRelease, Release,
         CmergeReport, Report
<1>3. ~IsCportageq /\ ~IsCportageq'
  BY <1>1, <1>2 DEF IsCmerge, IsCportageq
<1>4. ~Listing /\ ~Listing' /\ ~Asking /\ ~Asking'
  BY <1>3 DEF Listing, Asking
<1>5. CASE CmergeAcquire \/ CmergeRelease \/ CmergeReport
  BY <1>1, <1>3, <1>5, PrintedCommon DEF CmergeAcquire, CmergeRelease, CmergeReport
<1>6. CASE ParseOptions \/ AdjustNiceness \/ AdjustIonice
  <2>1. /\ at \in {"args", "acquire"} /\ at' \in {"acquire", "release"}
        /\ step' = step /\ out' = out
    BY <1>6 DEF ParseOptions, AdjustNiceness, AdjustIonice, Adjusts, process
  <2> QED  BY <1>1, <1>4, <2>1 DEF PrintedInv
<1>7. CASE InstallOrVersion \/ Help \/ SyncReturns \/ InfoHead \/ InfoSystem \/ InfoLinker
             \/ InfoPackage \/ InfoRepositories \/ InfoVariable \/ InfoEnd
  <2>1. at = "answer" /\ at' \in {"answer", "release", "replaced"} /\ step' = step
    BY <1>7 DEF InstallOrVersion, Help, SyncReturns, InfoHead, InfoSystem, InfoLinker, InfoPackage,
                InfoRepositories, InfoVariable, InfoEnd, InInfo, Return, Printed, QueryFails
  <2> QED  BY <1>1, <1>4, <2>1 DEF PrintedInv
<1> QED  BY <1>5, <1>6, <1>7 DEF Merge, CmergeStep

LEMMA PrintedStep ==
    ASSUME ListInv, StatusInv, PrintedInv, [ProgramsNext]_allVars
    PROVE  PrintedInv'
<1>1. CASE Load
  <2>1. at = "idle" /\ UNCHANGED process
    BY <1>1 DEF Load, InitMain, NextOverlay, InitReposDone, PrintedInv
  <2>2. command' = NoCommand /\ at' = "idle" /\ step' = step /\ out' = out
    BY <2>1 DEF process, PrintedInv
  <2>3. ~IsCportageq'
    BY <2>2 DEF IsCportageq, NoCommand
  <2> QED  BY <2>1, <2>2, <2>3 DEF PrintedInv, Listing, Asking
<1>2. CASE Start
  <2>1. /\ at = "idle" /\ at' = "args" /\ phase = "ready" /\ UNCHANGED <<vars, step, out, retval>>
    BY <1>2 DEF Start, Invoke
  <2>2. out' = <<>> /\ retval' # 0 /\ phase' = "ready"
    BY <2>1 DEF PrintedInv, StatusInv, Early, NothingYet, Undecided, vars
  <2>3. out' \in Seq(Paths \cup {""}) /\ DOMAIN out' = {}
    BY <2>2
  <2> QED  BY <2>1, <2>2, <2>3 DEF PrintedInv
<1>3. CASE Query
  BY <1>3, PrintedQuery
<1>4. CASE Merge
  BY <1>4, PrintedMerge
<1>5. CASE Pull
  <2>1. /\ phase' \in {"ready", "stopped"} /\ UNCHANGED <<fs, repos, name2repo, process>>
        /\ at = "answer"
    BY <1>5 DEF Pull, SyncDone, SyncNext, settings
  <2>2. UNCHANGED <<command, at, step, retval, out>> /\ step \in Nat /\ step > 0
    BY <2>1 DEF process, PrintedInv
  <2> QED  BY <2>1, <2>2, PrintsNothing
<1>6. CASE UNCHANGED allVars
  <2>1. /\ UNCHANGED <<fs, repos, name2repo, command, out>>
        /\ at' = at /\ step' = step /\ retval' = retval /\ phase' = phase
    BY <1>6 DEF allVars, vars, settings, process
  <2>2. /\ Listing' = Listing /\ Asking' = Asking /\ GetReposLine' = GetReposLine
        /\ \A name : RepoPathLine(name)' = RepoPathLine(name)
        /\ Params' = Params
    BY <2>1, SameAnswers
  <2> QED  BY <2>1, <2>2 DEF PrintedInv
<1> QED  BY <1>1, <1>2, <1>3, <1>4, <1>5, <1>6 DEF ProgramsNext, Work, Gone

LEMMA PrintedInit == ProgramsInit => PrintedInv
<1> SUFFICES ASSUME ProgramsInit PROVE PrintedInv
  OBVIOUS
<1>1. command = NoCommand /\ at = "idle" /\ step = 1 /\ out = <<>>
  BY DEF ProgramsInit, ProcessInit
<1>2. ~IsCportageq
  BY <1>1 DEF IsCportageq, NoCommand
<1> QED  BY <1>1, <1>2 DEF PrintedInv, Listing, Asking

-----------------------------------------------------------------------------
\* A set of numbers that is not empty has a least one.
LEMMA FirstOf ==
    ASSUME NEW N \in SUBSET Nat, N # {}
    PROVE  LET c == CHOOSE i \in N : \A j \in N : i <= j IN c \in N /\ \A j \in N : c <= j
<1>1. \E i \in N : \A j \in N : i <= j
  <2> DEFINE Less == OpToRel(<, Nat)
  <2>1. \A R, D, T : IsWellFoundedOn(R, D) /\ T \subseteq D /\ T # {} =>
           \E x \in T : \A y \in T : ~(<<y, x>> \in R)
    BY WFMin
  <2>2. IsWellFoundedOn(Less, Nat)
    BY NatLessThanWellFounded
  <2> HIDE DEF Less
  <2>3. PICK x \in N : \A y \in N : ~(<<y, x>> \in Less)
    BY <2>1, <2>2
  <2>4. \A y \in N : ~(y < x)
    BY <2>3 DEF OpToRel, Less
  <2>5. \A y \in N : x <= y
    BY <2>4
  <2> QED  BY <2>5
<1> QED  BY <1>1

\* Once all words have been looked at, the table has the name of PORTDIR and
\* those of all directories.
LEMMA NamesOfTable ==
    ASSUME ListInv, phase \in {"ready", "stopped"}
    PROVE  /\ fs.overlays \in Seq(Paths) /\ DOMAIN fs.overlays = 1..Len(fs.overlays)
           /\ Len(fs.overlays) \in Nat
           /\ KeptUpTo(Done) = Kept
           /\ NameOf(MainPath) \in DOMAIN name2repo
           /\ \A n : n \in DOMAIN name2repo <=> n = NameOf(MainPath) \/ Named(n) # {}
<1>1. /\ fs.overlays \in Seq(Paths) /\ Len(fs.overlays) \in Nat
      /\ Kept \subseteq 1..Len(fs.overlays) /\ words = <<>>
  BY WordsType DEF ListInv, OrderInv, WordsInv
<1>2. Done = Len(fs.overlays)
  BY <1>1 DEF Done
<1>3. DOMAIN fs.overlays = 1..Len(fs.overlays)
  BY <1>1
<1>4. KeptUpTo(Done) = Kept
  <2>1. \A i \in Kept : i <= Len(fs.overlays)
    BY <1>1
  <2> QED  BY <1>2, <2>1 DEF KeptUpTo
<1>5. DOMAIN name2repo = {NameOf(MainPath)} \cup {NameOf(fs.overlays[i]) : i \in Directories}
  BY DEF ListInv, OrderInv, WordsInv
<1>6. \A i : i \in Directories <=> i \in DOMAIN fs.overlays /\ fs.overlays[i] \in fs.dirs
  BY <1>2, <1>3 DEF Directories
<1>7. \A n : n \in {NameOf(fs.overlays[i]) : i \in Directories} <=> Named(n) # {}
  BY <1>6 DEF Named
<1> QED  BY <1>1, <1>3, <1>4, <1>5, <1>7

\* The line of a name is the path of the first directory with that name.
LEMMA LineIsPath ==
    ASSUME ListInv, phase \in {"ready", "stopped"}, NEW name
    PROVE  RepoPathLine(name) = PathOf(name)
<1>1. CASE name \notin DOMAIN name2repo
  BY <1>1, NamesOfTable DEF RepoPathLine, PathOf
<1>2. /\ repos \in Seq(DOMAIN refs) /\ Len(repos) = Len(overlay) + 1
      /\ repos[1].path = MainPath
      /\ \A i \in DOMAIN repos : name2repo[NameOf(repos[i].path)] = repos[i]
      /\ overlay \in Seq(Paths)
      /\ \A k \in DOMAIN overlay : repos[k + 1].path = overlay[k]
  BY DEF ListInv, RepoInv, Agree, OrderInv, OverlayInv
<1>3. PICK k \in Nat : k = Len(overlay) /\ DOMAIN overlay = 1..k /\ DOMAIN repos = 1..(k + 1)
  BY <1>2
<1>4. CASE name = NameOf(MainPath)
  <2>1. 1 \in DOMAIN repos
    BY <1>3
  <2>2. name2repo[name] = repos[1]
    BY <1>2, <1>4, <2>1
  <2> QED  BY <1>2, <1>4, <2>2, NamesOfTable DEF RepoPathLine, PathOf
<1>5. CASE name \in DOMAIN name2repo /\ name # NameOf(MainPath)
  <2>1. PICK N : N = Named(name)
    OBVIOUS
  <2>2. N # {} /\ N \subseteq Nat
    BY <1>5, <2>1, NamesOfTable DEF Named
  <2>3. PICK c : c = CHOOSE i \in N : \A j \in N : i <= j
    OBVIOUS
  <2>4. c \in N /\ \A j \in N : c <= j
    BY <2>2, <2>3, FirstOf
  <2>5. /\ c \in Nat /\ c \in DOMAIN fs.overlays /\ fs.overlays[c] \in fs.dirs
        /\ NameOf(fs.overlays[c]) = name
    BY <2>1, <2>2, <2>4 DEF Named
  <2>6. c \in Kept
    <3> DEFINE earlier == {fs.overlays[j] : j \in 1..(c - 1)} \cap fs.dirs
    <3>1. ASSUME NEW j \in 1..(c - 1), fs.overlays[j] \in fs.dirs
          PROVE  NameOf(fs.overlays[j]) # name
      <4>1. j \in DOMAIN fs.overlays /\ ~(c <= j)
        BY <2>5, NamesOfTable
      <4>2. j \notin N
        BY <2>4, <4>1
      <4> QED  BY <2>1, <3>1, <4>1, <4>2 DEF Named
    <3>2. \A q \in earlier \cup {MainPath} : NameOf(q) # NameOf(fs.overlays[c])
      BY <1>5, <2>5, <3>1
    <3> QED  BY <2>5, <3>2 DEF Kept
  <2>7. Earlier(c) + 1 \in DOMAIN overlay /\ overlay[Earlier(c) + 1] = fs.overlays[c]
    BY <2>6, NamesOfTable DEF ListInv, OrderInv, OverlayInv
  <2>8. PICK n \in 1..k : n = Earlier(c) + 1
    BY <1>3, <2>7
  <2>9. n + 1 \in DOMAIN repos
    BY <1>3
  <2>10. repos[n + 1].path = fs.overlays[c]
    BY <1>2, <1>3, <2>7, <2>8
  <2>11. name2repo[name] = repos[n + 1]
    BY <1>2, <2>5, <2>9, <2>10
  <2> QED  BY <1>5, <2>1, <2>2, <2>3, <2>10, <2>11 DEF RepoPathLine, PathOf
<1> QED  BY <1>1, <1>4, <1>5

LEMMA AnswersFollow == ListInv /\ PrintedInv => RepositoriesAreAnswered
<1> SUFFICES ASSUME ListInv, PrintedInv, IsCportageq, IsQuestion
             PROVE  /\ Sub = "get_repos" /\ retval = 0 =>
                         LET names == out[1] IN
                         /\ IsInjective(names)
                         /\ names[1] = NameOf(MainPath)
                         /\ Range(names) = {n \in {NameOf(p) : p \in Paths} : PathOf(n) # ""}
                    /\ Sub = "get_repo_path" =>
                         \A i \in DOMAIN out : out[i] = PathOf(Params[i + 1])
  BY DEF RepositoriesAreAnswered
<1>1. phase \in {"ready", "stopped"}
  <2>1. NoCommand.program = "none"
    BY DEF NoCommand
  <2>2. at # "idle"
    BY <2>1 DEF PrintedInv, IsCportageq
  <2> QED  BY <2>2 DEF PrintedInv
<1>2. ASSUME Sub = "get_repo_path", NEW i \in DOMAIN out
      PROVE  out[i] = PathOf(Params[i + 1])
  BY <1>1, <1>2, LineIsPath DEF PrintedInv, Asking
<1>3. ASSUME Sub = "get_repos", retval = 0
      PROVE  /\ IsInjective(out[1])
             /\ out[1][1] = NameOf(MainPath)
             /\ Range(out[1]) = {n \in {NameOf(p) : p \in Paths} : PathOf(n) # ""}
  <2>1. PICK names : names = RepositoryNames
    OBVIOUS
  <2>2. out[1] = names
    <3>1. out = <<RepositoryNames>>
      BY <1>3 DEF PrintedInv, Listing, GetReposLine
    <3> QED  BY <2>1, <3>1
  <2>3. DOMAIN names = DOMAIN repos /\ \A i \in DOMAIN names : names[i] = NameOf(repos[i].path)
    BY <2>1 DEF RepositoryNames
  <2>4. \A i, j \in DOMAIN names : names[i] = names[j] => i = j
    BY <2>3 DEF ListInv, RepoInv, Agree
  <2>5. IsInjective(names)
    BY <2>4 DEF IsInjective
  <2>6. /\ repos \in Seq(DOMAIN refs) /\ Len(repos) = Len(overlay) + 1 /\ Len(overlay) \in Nat
        /\ repos[1].path = MainPath
    BY <1>1 DEF ListInv, RepoInv, Agree, OrderInv, OverlayInv
  <2>7. 1 \in DOMAIN repos
    BY <2>6
  <2>8. names[1] = NameOf(MainPath)
    BY <2>3, <2>6, <2>7
  <2>9. \A n : n \in Range(names) <=> n \in DOMAIN name2repo
    BY <2>3 DEF Range, ListInv, RepoInv, Agree
  <2>10. \A n : PathOf(n) # "" <=> n \in DOMAIN name2repo
    <3> SUFFICES ASSUME NEW n PROVE PathOf(n) # "" <=> n \in DOMAIN name2repo
      OBVIOUS
    <3>1. n \in DOMAIN name2repo => name2repo[n].path \in Paths
      BY DEF ListInv, TypedInv, RepoInv, Agree, Objects
    <3> QED  BY <1>1, <3>1, LineIsPath, PathsAssumption DEF RepoPathLine
  <2>11. \A n \in DOMAIN name2repo : n \in {NameOf(p) : p \in Paths}
    BY DEF ListInv, TypedInv, RepoInv, Agree, Objects
  <2>12. Range(names) = {n \in {NameOf(p) : p \in Paths} : PathOf(n) # ""}
    BY <2>9, <2>10, <2>11
  <2> QED  BY <2>2, <2>5, <2>8, <2>12
<1> QED  BY <1>2, <1>3

\* cportageq gives, for every disk, each name once, PORTDIR's first, and for the
\* names it gives, and for no other, the path of the first directory that has it
\* (cportageq/main.c:100-107, 137-141).
THEOREM AnswersMatchTheDisk == ProgramsSpec => []RepositoriesAreAnswered
<1>1. ProgramsInit => ListInv /\ StatusInv /\ PrintedInv
  BY ListInit, InitStatus, PrintedInit
<1>2. ListInv /\ StatusInv /\ PrintedInv /\ [ProgramsNext]_allVars
        => (ListInv /\ StatusInv /\ PrintedInv)'
  BY ListNext, StatusStep, PrintedStep
<1> QED  BY <1>1, <1>2, AnswersFollow, PTL DEF ProgramsSpec

-----------------------------------------------------------------------------
\* What each plan acquires is released by it, everything once, and nothing else;
\* an object comes after what it is made with, and the tree is released before
\* the vartree that lends it.
Pointers == {"factory", "atom", "settings", "vartree", "vardb", "packages", "protect"}

Needs(o) ==
    CASE o = "atom" -> {"factory"}
      [] o = "vartree" -> {"settings"}
      [] o = "vardb" -> {"vartree"}
      [] o = "packages" -> {"vardb"}
      [] OTHER -> {}

GoodPlan(acquires, releases) ==
    /\ acquires \in Seq(Pointers) /\ releases \in Seq(Pointers)
    /\ Len(acquires) \in Nat /\ Len(releases) \in Nat
    /\ \A i, j \in 1..Len(acquires) : acquires[i] = acquires[j] => i = j
    /\ \A i, j \in 1..Len(releases) : releases[i] = releases[j] => i = j
    /\ \A i \in 1..Len(acquires) : \E j \in 1..Len(releases) : releases[j] = acquires[i]
    /\ \A i \in 1..Len(acquires) : \A n \in Needs(acquires[i]) :
          \E j \in 1..(i - 1) : acquires[j] = n
    /\ \A i \in 1..Len(releases) : releases[i] = "vartree" =>
          \A j \in 1..Len(releases) : releases[j] = "vardb" => j < i

Acquires == IF IsCmerge THEN CmergeAcquires ELSE ThePlan.acquires
Releases == IF IsCmerge THEN CmergeReleases ELSE ThePlan.releases

LEMMA CmergePlan == GoodPlan(CmergeAcquires, CmergeReleases)
BY DEF GoodPlan, CmergeAcquires, CmergeReleases, Needs, Pointers

LEMMA OneObject == GoodPlan(<<"settings">>, <<"settings">>)
BY DEF GoodPlan, Needs, Pointers

LEMMA VdbPath == GoodPlan(<<"settings", "vartree">>, <<"settings", "vartree">>)
BY DEF GoodPlan, Needs, Pointers

LEMMA IsProtected == GoodPlan(<<"settings", "protect">>, <<"settings", "protect">>)
BY DEF GoodPlan, Needs, Pointers

LEMMA WithPkgs ==
    GoodPlan(<<"factory", "atom", "settings", "vartree", "vardb", "packages">>,
             <<"factory", "packages", "atom", "vardb", "vartree", "settings">>)
BY DEF GoodPlan, Needs, Pointers

LEMMA ThePlanIs ==
    ASSUME IsQuestion
    PROVE  ThePlan \in {EnvvarPlan, GetReposPlan, GetRepoPathPlan, DoWithPkgsPlan, VdbPathPlan,
                        IsProtectedPlan}
<1>1. CASE Sub \in LowerVars \cup {"envvar"}
  BY <1>1, LowerVarsAssumption DEF ThePlan, Words, PackageQueries
<1>2. CASE Sub \in PackageQueries
  BY <1>2, LowerVarsAssumption DEF ThePlan, Words, PackageQueries
<1>3. CASE Sub = "get_repos"
  BY <1>3, LowerVarsAssumption DEF ThePlan, Words, PackageQueries
<1>4. CASE Sub = "get_repo_path"
  BY <1>4, LowerVarsAssumption DEF ThePlan, Words, PackageQueries
<1>5. CASE Sub = "vdb_path"
  BY <1>5, LowerVarsAssumption DEF ThePlan, Words, PackageQueries
<1>6. CASE Sub = "is_protected"
  BY <1>6, LowerVarsAssumption DEF ThePlan, Words, PackageQueries
<1> QED  BY <1>1, <1>2, <1>3, <1>4, <1>5, <1>6 DEF IsQuestion, Questions, Words

LEMMA PlansAreGood ==
    ASSUME IsCmerge \/ IsQuestion
    PROVE  GoodPlan(Acquires, Releases)
<1>1. CASE IsCmerge
  BY <1>1, CmergePlan DEF Acquires, Releases
<1>2. CASE ~IsCmerge
  <2>1. PICK e, a, r : ThePlan = Plan(e, a, r) /\ GoodPlan(a, r)
    BY <1>2, ThePlanIs, OneObject, VdbPath, IsProtected, WithPkgs
       DEF EnvvarPlan, GetReposPlan, GetRepoPathPlan, DoWithPkgsPlan, VdbPathPlan, IsProtectedPlan
  <2>2. ThePlan.acquires = a /\ ThePlan.releases = r
    BY <2>1 DEF Plan
  <2> QED  BY <1>2, <2>1, <2>2 DEF Acquires, Releases
<1> QED  BY <1>1, <1>2

\* What a command has made: the first objects of its plan, each with what it
\* needs.
Runs == IsCmerge \/ (IsCportageq /\ IsQuestion)

MadeInv ==
    /\ at \in {"idle", "args"} => has = {} /\ step = 1
    /\ at \in {"acquire", "answer", "release"} => Runs
    /\ has # {} => Runs
    /\ \A o \in has : \E i \in 1..Len(Acquires) : o = Acquires[i]
    /\ \A o \in has : Needs(o) \subseteq has
    /\ at = "acquire" => \A i \in 1..Len(Acquires) : Acquires[i] \in has <=> i < step

LEMMA SamePlan ==
    ASSUME UNCHANGED command
    PROVE  /\ Acquires' = Acquires /\ Releases' = Releases /\ Runs' = Runs
           /\ IsCmerge' = IsCmerge /\ IsCportageq' = IsCportageq /\ IsQuestion' = IsQuestion
           /\ Sub' = Sub /\ Params' = Params
<1>1. Sub' = Sub /\ Params' = Params /\ IsCmerge' = IsCmerge /\ IsCportageq' = IsCportageq
  BY DEF Sub, Params, IsCmerge, IsCportageq
<1>2. IsQuestion' = IsQuestion /\ Runs' = Runs
  BY <1>1 DEF IsQuestion, Runs
<1>3. ThePlan' = ThePlan
  BY <1>1 DEF ThePlan, EnvvarPlan, GetReposPlan, GetRepoPathPlan, DoWithPkgsPlan, VdbPathPlan,
              IsProtectedPlan, Plan
<1>4. Acquires' = Acquires /\ Releases' = Releases
  BY <1>1, <1>3 DEF Acquires, Releases
<1> QED  BY <1>1, <1>2, <1>4

\* A step that makes nothing.
LEMMA MakesNothing ==
    ASSUME MadeInv, UNCHANGED <<command, has>>,
           at' \notin {"idle", "args"}, at' \in {"acquire", "answer", "release"} => Runs,
           at' = "acquire" => at = "acquire" /\ step' = step
    PROVE  MadeInv'
BY SamePlan DEF MadeInv

LEMMA NothingMade ==
    ASSUME has = {}, step = 1
    PROVE  \A i \in 1..Len(Acquires) : Acquires[i] \in has <=> i < step
OBVIOUS

LEMMA MadeAcquire ==
    ASSUME MadeInv, NEW status, Acquire(Acquires, status), step \in Nat, step > 0
    PROVE  MadeInv'
<1>1. at = "acquire" /\ step <= Len(Acquires) /\ Runs /\ UNCHANGED command
  BY DEF MadeInv, Acquire
<1>2. GoodPlan(Acquires, Releases)
  BY <1>1, PlansAreGood DEF Runs
<1>3. CASE CannotObtain(Acquires[step], status)
  <2>1. at' \in {"release", "died"} /\ has' = has
    BY <1>3 DEF CannotObtain, GoOn
  <2> QED  BY <1>1, <2>1, MakesNothing
<1>4. CASE Obtain(Acquires[step])
  <2>1. PICK A : A = Acquires
    OBVIOUS
  <2>2. PICK o : o = A[step]
    OBVIOUS
  <2>3. at' = "acquire" /\ has' = has \cup {o} /\ step' = step + 1 /\ A = Acquires'
    BY <1>1, <1>4, <2>1, <2>2, SamePlan DEF Obtain
  <2>4. PICK l \in Nat : l = Len(A)
    BY <1>2, <2>1 DEF GoodPlan
  <2>5. step \in 1..l
    BY <1>1, <2>1, <2>4
  <2>6. \A x \in has' : \E i \in 1..Len(A) : x = A[i]
    BY <2>1, <2>2, <2>3, <2>4, <2>5 DEF MadeInv
  <2>7. \A i \in 1..l : A[i] \in has <=> i < step
    BY <1>1, <2>1, <2>4 DEF MadeInv
  <2>8. Needs(o) \subseteq has
    <3> SUFFICES ASSUME NEW n \in Needs(o) PROVE n \in has
      OBVIOUS
    <3>1. PICK j \in 1..(step - 1) : A[j] = n
      BY <1>2, <2>1, <2>2, <2>4, <2>5 DEF GoodPlan
    <3>2. j \in 1..l /\ j < step
      BY <2>5, <3>1
    <3> QED  BY <2>7, <3>1, <3>2
  <2>9. \A x \in has' : Needs(x) \subseteq has'
    BY <2>3, <2>8 DEF MadeInv
  <2>10. \A i \in 1..l : A[i] \in has' <=> i < step'
    <3> SUFFICES ASSUME NEW i \in 1..l PROVE A[i] \in has' <=> i < step + 1
      BY <2>3
    <3>1. A[i] = o <=> i = step
      BY <1>2, <2>1, <2>2, <2>4, <2>5 DEF GoodPlan
    <3>2. i < step + 1 <=> i < step \/ i = step
      OBVIOUS
    <3> QED  BY <2>3, <2>7, <3>1, <3>2
  <2>11. Runs'
    BY <1>1, SamePlan
  <2> QED  BY <2>1, <2>3, <2>4, <2>6, <2>9, <2>10, <2>11 DEF MadeInv
<1> QED  BY <1>3, <1>4 DEF Acquire

\* The steps all commands of both programs have.
LEMMA MadeCommon ==
    ASSUME MadeInv, PrintedInv, Runs, NEW status,
           \/ Acquire(Acquires, status) \/ Acquired(Acquires)
           \/ Release(Releases) \/ Report(Releases)
    PROVE  MadeInv'
<1>1. CASE Acquire(Acquires, status)
  BY <1>1, MadeAcquire DEF PrintedInv
<1>2. CASE Acquired(Acquires)
  BY <1>2, MakesNothing DEF Acquired
<1>3. CASE Release(Releases)
  BY <1>3, MakesNothing DEF Release, GoOn
<1>4. CASE Report(Releases)
  BY <1>4, MakesNothing DEF Report
<1> QED  BY <1>1, <1>2, <1>3, <1>4

LEMMA MadeStep ==
    ASSUME StatusInv, PrintedInv, MadeInv, [ProgramsNext]_allVars
    PROVE  MadeInv'
<1>1. CASE Load \/ Pull \/ UNCHANGED allVars
  <2>1. UNCHANGED <<command, at, step, has>>
    BY <1>1 DEF Load, Pull, allVars, process
  <2> QED  BY <2>1, SamePlan DEF MadeInv
<1>2. CASE Start
  <2>1. at' = "args" /\ has' = {} /\ step' = 1
    BY <1>2 DEF Start, Invoke, MadeInv
  <2> QED  BY <2>1 DEF MadeInv
<1>3. CASE Query
  <2>1. IsCportageq
    BY <1>3 DEF Query, CportageqStep, Usage, TooFew, Begin, CportageqAnswer, PrintRepoPath,
                RepoPathsPrinted
  <2>2. Acquires = ThePlan.acquires /\ Releases = ThePlan.releases
    BY <2>1 DEF Acquires, Releases, IsCmerge, IsCportageq
  <2>3. CASE Usage
    BY <2>3, MakesNothing DEF Usage
  <2>4. CASE TooFew
    BY <2>4, MakesNothing DEF TooFew, Runs
  <2>5. CASE Begin
    <3>1. /\ UNCHANGED <<command, has>> /\ at' = "acquire" /\ has = {} /\ step' = 1 /\ Runs
      BY <2>5 DEF Begin, MadeInv, Runs
    <3> QED  BY <3>1, SamePlan, NothingMade DEF MadeInv
  <2>6. CASE CportageqAnswer \/ RepoPathsPrinted
    BY <2>6, MakesNothing DEF CportageqAnswer, RepoPathsPrinted, MadeInv
  <2>7. CASE PrintRepoPath
    BY <2>7, MakesNothing DEF PrintRepoPath, GoOn, MadeInv
  <2>8. CASE IsQuestion /\ (\/ Acquire(ThePlan.acquires, Error) \/ Acquired(ThePlan.acquires)
                           \/ Release(ThePlan.releases))
    BY <2>1, <2>2, <2>8, MadeCommon DEF Runs
  <2>9. CASE Report(ThePlan.releases)
    BY <2>9, MakesNothing DEF Report
  <2> QED  BY <1>3, <2>3, <2>4, <2>5, <2>6, <2>7, <2>8, <2>9 DEF Query, CportageqStep
<1>4. CASE Merge
  <2>1. IsCmerge /\ Runs /\ Acquires = CmergeAcquires /\ Releases = CmergeReleases
    BY <1>4, MergeIsCmerge DEF Runs, Acquires, Releases
  <2>2. CASE ParseOptions
    <3>1. /\ UNCHANGED <<command, has>> /\ at' \in {"acquire", "release"} /\ has = {} /\ step' = 1
      BY <2>2 DEF ParseOptions, MadeInv
    <3> QED  BY <2>1, <3>1, SamePlan, NothingMade DEF MadeInv
  <2>3. CASE AdjustNiceness \/ AdjustIonice
    <3>1. UNCHANGED <<command, at, step, has>>
      BY <2>3 DEF AdjustNiceness, AdjustIonice, Adjusts, process
    <3> QED  BY <3>1, SamePlan DEF MadeInv
  <2>4. CASE CmergeAcquire \/ CmergeRelease \/ CmergeReport
    BY <2>1, <2>4, MadeCommon DEF CmergeAcquire, CmergeRelease, CmergeReport
  <2>5. CASE InstallOrVersion \/ Help \/ SyncReturns \/ InfoHead \/ InfoSystem \/ InfoLinker
               \/ InfoPackage \/ InfoRepositories \/ InfoVariable \/ InfoEnd
    <3>1. at = "answer" /\ at' \in {"answer", "release", "replaced"} /\ UNCHANGED <<command, has>>
      BY <2>5 DEF InstallOrVersion, Help, SyncReturns, InfoHead, InfoSystem, InfoLinker, InfoPackage,
                  InfoRepositories, InfoVariable, InfoEnd, InInfo, Return, Printed, QueryFails
    <3> QED  BY <2>1, <3>1, MakesNothing
  <2> QED  BY <1>4, <2>2, <2>3, <2>4, <2>5 DEF Merge, CmergeStep
<1> QED  BY <1>1, <1>2, <1>3, <1>4 DEF ProgramsNext, Work, Gone

LEMMA MadeInit == ProgramsInit => MadeInv
BY DEF ProgramsInit, ProcessInit, MadeInv

-----------------------------------------------------------------------------
\* The counters of a command, and the status it may return.
CountersInv ==
    /\ told \in Nat
    /\ section \in Nat /\ section > 0
    /\ warned \in 0..3 /\ (section = 1 => warned = 0) /\ (section = 2 => warned \in 0..1)
    /\ retval \in 0..255 \cup {Undecided}
    /\ error \in BOOLEAN

LEMMA CountersQuery == CountersInv /\ Query => CountersInv'
<1> SUFFICES ASSUME CountersInv, Query PROVE CountersInv'
  OBVIOUS
<1>1. UNCHANGED <<warned, section>>
  BY DEF Query, cmerge
<1>2. told' \in {told, told + 1}
  BY DEF Query, CportageqStep, Usage, TooFew, Begin, CportageqAnswer, PrintRepoPath, RepoPathsPrinted,
         Acquire, Acquired, Release, Report
<1>3. retval' \in {retval, 0, 1, 2}
  BY DEF Query, CportageqStep, Usage, TooFew, Begin, CportageqAnswer, PrintRepoPath, RepoPathsPrinted,
         Acquire, Obtain, CannotObtain, Acquired, Release, Report, Error, Answer, PrintPkgs,
         TestNonempty, PrintLast
<1>4. error' \in {error, TRUE}
  BY DEF Query, CportageqStep, Usage, TooFew, Begin, CportageqAnswer, PrintRepoPath, RepoPathsPrinted,
         Acquire, Obtain, CannotObtain, Acquired, Release, Report
<1>5. told' \in Nat
  BY <1>2 DEF CountersInv
<1>6. retval' \in 0..255 \cup {Undecided}
  BY <1>3 DEF CountersInv
<1>7. error' \in BOOLEAN
  BY <1>4 DEF CountersInv
<1>8. section' \in Nat /\ section' > 0
  BY <1>1 DEF CountersInv
<1>9. warned' \in 0..3 /\ (section' = 1 => warned' = 0) /\ (section' = 2 => warned' \in 0..1)
  BY <1>1 DEF CountersInv
<1> QED  BY <1>5, <1>6, <1>7, <1>8, <1>9 DEF CountersInv

LEMMA CountersMerge ==
    ASSUME CountersInv, StatusInv, Merge
    PROVE  CountersInv'
<1>1. told' \in {told, told + 1}
  BY DEF Merge, CmergeStep, ParseOptions, CmergeAcquire, Acquire, Acquired, AdjustNiceness,
         AdjustIonice, Adjusts, process, InstallOrVersion, Help, SyncReturns, InfoHead, InfoSystem,
         InfoLinker, InfoPackage, InfoRepositories, InfoVariable, InfoEnd, Printed, QueryFails,
         CmergeRelease, Release,
         CmergeReport, Report
<1>2. told' \in Nat
  BY <1>1 DEF CountersInv
<1>3. retval' \in {retval, 0, 1, 255, result.retval}
  BY DEF Merge, CmergeStep, ParseOptions, CmergeAcquire, Acquire, Obtain, CannotObtain, Acquired,
         AdjustNiceness, AdjustIonice, Adjusts, process, InstallOrVersion, Help, SyncReturns, InfoHead,
         InfoSystem, InfoLinker, InfoPackage, InfoRepositories, InfoVariable, InfoEnd, Printed, QueryFails,
         Return, CmergeRelease,
         Release, CmergeReport, Report
<1>4. retval' \in 0..255 \cup {Undecided}
  BY <1>3 DEF CountersInv, StatusInv, ResultAgrees
<1>5. error' \in {error, TRUE, FALSE}
  BY DEF Merge, CmergeStep, ParseOptions, CmergeAcquire, Acquire, Obtain, CannotObtain, Acquired,
         AdjustNiceness, AdjustIonice, Adjusts, process, InstallOrVersion, Help, SyncReturns, InfoHead,
         InfoSystem, InfoLinker, InfoPackage, InfoRepositories, InfoVariable, InfoEnd, Printed, QueryFails,
         Return, CmergeRelease,
         Release, CmergeReport, Report
<1>6. error' \in BOOLEAN
  BY <1>5 DEF CountersInv
<1>7. /\ section' \in Nat /\ section' > 0
      /\ warned' \in 0..3 /\ (section' = 1 => warned' = 0) /\ (section' = 2 => warned' \in 0..1)
  <2>1. CASE UNCHANGED cmerge
    BY <2>1 DEF CountersInv, cmerge
  <2>2. CASE AdjustNiceness
    <3>1. section = 1 /\ section' = section + 1 /\ \E n \in {0, 1} : warned' = warned + n
      BY <2>2 DEF AdjustNiceness, Adjusts
    <3>2. section' = 2
      BY <3>1
    <3>3. warned' \in 0..1
      BY <3>1 DEF CountersInv
    <3> QED  BY <3>2, <3>3
  <2>3. CASE AdjustIonice
    <3>1. section = 2 /\ section' = section + 1 /\ \E n \in {0, 1, 2} : warned' = warned + n
      BY <2>3 DEF AdjustIonice, Adjusts
    <3>2. section' = 3
      BY <3>1
    <3>3. warned' \in 0..3
      BY <3>1 DEF CountersInv
    <3> QED  BY <3>2, <3>3
  <2>4. CASE InfoHead \/ InfoSystem \/ InfoLinker \/ InfoPackage \/ InfoRepositories \/ InfoVariable
    <3>1. \/ UNCHANGED cmerge
          \/ warned' = warned /\ section' = section + 1
      BY <2>4 DEF InfoHead, InfoSystem, InfoLinker, InfoPackage, InfoRepositories, InfoVariable,
                Printed, QueryFails, cmerge
    <3>2. section > 2
      <4>1. CASE InfoHead \/ InfoSystem \/ InfoLinker
        BY <4>1 DEF InfoHead, InfoSystem, InfoLinker
      <4>2. CASE InfoPackage
        BY <4>2 DEF InfoPackage, FirstPackage, CountersInv
      <4>3. CASE InfoRepositories \/ InfoVariable
        BY <4>3, InfoAssumption DEF InfoRepositories, InfoVariable, FirstPackage, FirstVariable, CountersInv
      <4> QED  BY <2>4, <4>1, <4>2, <4>3
    <3>3. ASSUME warned' = warned, section' = section + 1
          PROVE  /\ section' \in Nat /\ section' > 2
                 /\ warned' \in 0..3
      <4>1. section \in Nat
        BY DEF CountersInv
      <4> QED  BY <3>2, <3>3, <4>1 DEF CountersInv
    <3> QED  BY <2>1, <3>1, <3>3
  <2>5. CASE ParseOptions \/ CmergeAcquire \/ InstallOrVersion \/ Help \/ SyncReturns \/ InfoEnd
               \/ CmergeRelease \/ CmergeReport
    <3>1. UNCHANGED cmerge
      BY <2>5 DEF ParseOptions, CmergeAcquire, InstallOrVersion, Help, SyncReturns, InfoEnd,
                  CmergeRelease, CmergeReport, cmerge
    <3> QED  BY <2>1, <3>1
  <2> QED  BY <2>2, <2>3, <2>4, <2>5 DEF Merge, CmergeStep
<1> QED  BY <1>2, <1>4, <1>6, <1>7 DEF CountersInv

LEMMA CountersStep ==
    ASSUME CountersInv, StatusInv, [ProgramsNext]_allVars
    PROVE  CountersInv'
<1>1. CASE Load \/ Start \/ Pull \/ UNCHANGED allVars
  <2>1. UNCHANGED <<told, section, warned, retval, error>>
    BY <1>1 DEF Load, Start, Invoke, Pull, allVars, process, cmerge
  <2> QED  BY <2>1 DEF CountersInv
<1>2. CASE Query
  BY <1>2, CountersQuery
<1>3. CASE Merge
  BY <1>3, CountersMerge
<1> QED  BY <1>1, <1>2, <1>3 DEF ProgramsNext, Work, Gone

LEMMA CountersInit == ProgramsInit => CountersInv
<1> SUFFICES ASSUME ProgramsInit PROVE CountersInv
  OBVIOUS
<1>1. warned = 0 /\ section = 1
  BY DEF ProgramsInit, CmergeInit
<1>2. told = 0 /\ retval = Undecided /\ error = FALSE
  BY DEF ProgramsInit, ProcessInit
<1>3. warned \in 0..3 /\ section \in Nat /\ section > 0
  BY <1>1
<1> QED  BY <1>1, <1>2, <1>3 DEF CountersInv

\* All that is known of a command at any time but its memory.
CommandInv == ListInv /\ PullInv /\ StatusInv /\ PrintedInv /\ MadeInv /\ CountersInv

LEMMA CommandInit == ProgramsInit => CommandInv
BY ListInit, PullInit, InitStatus, PrintedInit, MadeInit, CountersInit DEF CommandInv, ProgramsInit

LEMMA CommandNext == CommandInv /\ [ProgramsNext]_allVars => CommandInv'
<1> SUFFICES ASSUME CommandInv, [ProgramsNext]_allVars PROVE CommandInv'
  OBVIOUS
<1>1. [Next]_vars
  BY ProgramsLoad DEF allVars
<1> QED
  BY <1>1, ListNext, PullNext, StatusStep, PrintedStep, MadeStep, CountersStep DEF CommandInv, ListInv

\* Every variable of a command has its type, whatever is asked of which disk.
THEOREM ProcessTypeCorrect == ProgramsSpec => []ProcessTypeOK
<1>1. CommandInv => ProcessTypeOK
  <2> SUFFICES ASSUME CommandInv PROVE ProcessTypeOK
    OBVIOUS
  <2>1. RepositoriesTypeOK
    BY TypeFollows DEF CommandInv, ListInv
  <2>2. has \subseteq Pointers
    BY PlansAreGood DEF CommandInv, MadeInv, Runs, GoodPlan
  <2>3. at \in {"idle", "args", "acquire", "answer", "release"} \cup Ended
    BY DEF CommandInv, StatusInv, Early, Ended
  <2> QED
    BY <2>1, <2>2, <2>3 DEF CommandInv, PrintedInv, CountersInv, ProcessTypeOK, Pointers
<1> QED  BY <1>1, CommandInit, CommandNext, PTL DEF ProgramsSpec

-----------------------------------------------------------------------------
\* The report of cmerge --info.  The lines that speak of one line of a file.
LinesOfVariable(i) == {k \in DOMAIN out : SaysVariable(i, out[k])}
LinesOfPackage(i) == {k \in DOMAIN out : SaysPackage(i, out[k])}
HasPart(part) == \E k \in DOMAIN out : out[k].part = part

\* What has been printed when the next section is to be.
ReportSoFar ==
    /\ section \in 3..LastSection
    /\ out \in Seq(Range(out))
    /\ HasPart("repositories") <=> section >= FirstVariable
    /\ ~HasPart("unset")
    /\ \A i \in DOMAIN InfoVars :
         IF FirstVariable + i <= section /\ IsSet(InfoVars[i])
         THEN \E k : LinesOfVariable(i) = {k}
         ELSE LinesOfVariable(i) = {}
    /\ \A i \in DOMAIN InfoPkgs : ~InfoPkgs[i].valid =>
         IF FirstPackage + i <= section THEN \E k : LinesOfPackage(i) = {k}
                                        ELSE LinesOfPackage(i) = {}

\* The sections are printed in their order, from the third on when everything
\* has been made; a report that has ended is whole.
ReportInv ==
    /\ at \in {"idle", "args"} => section = 1
    /\ IsCmerge /\ at = "acquire" =>
         /\ section \in 1..3
         /\ step < 3 => section = 1
         /\ step > 3 => section = 3
    /\ IsCmerge /\ Action = "info" /\ at = "answer" => ReportSoFar
    /\ InfoIsWhole

\* What one line more says.
LEMMA LineAdded ==
    ASSUME out \in Seq(Range(out)), NEW l, out' = out \o <<l>>
    PROVE  /\ out' \in Seq(Range(out)')
           /\ \A part : HasPart(part)' <=> HasPart(part) \/ l.part = part
           /\ \A i : LinesOfVariable(i)' = LinesOfVariable(i)
                        \cup (IF SaysVariable(i, l) THEN {Len(out) + 1} ELSE {})
           /\ \A i : LinesOfPackage(i)' = LinesOfPackage(i)
                        \cup (IF SaysPackage(i, l) THEN {Len(out) + 1} ELSE {})
<1>1. PICK n \in Nat : n = Len(out) /\ DOMAIN out = 1..n
  OBVIOUS
<1>2. PICK S : S = Range(out) \cup {l}
  OBVIOUS
<1>3. out \in Seq(S) /\ <<l>> \in Seq(S) /\ Len(<<l>>) = 1 /\ <<l>>[1] = l
  BY <1>2
<1>4. /\ out' \in Seq(S) /\ Len(out') = n + 1
      /\ \A k \in 1..(n + 1) : out'[k] = IF k <= n THEN out[k] ELSE <<l>>[k - n]
  BY <1>1, <1>3, ConcatProperties
<1>5. DOMAIN out' = 1..(n + 1)
  BY <1>1, <1>4
<1>6. (\A k \in DOMAIN out : out'[k] = out[k]) /\ out'[n + 1] = l
  BY <1>1, <1>3, <1>4
<1>7. DOMAIN out' = DOMAIN out \cup {n + 1}
  BY <1>1, <1>5
<1>8. out' \in Seq(Range(out)')
  <2>1. PICK R : R = Range(out)'
    OBVIOUS
  <2>2. \A k \in 1..(n + 1) : out'[k] \in R
    BY <1>5, <2>1 DEF Range
  <2>3. out' \in Seq(R)
    BY ONLY <1>1, <1>4, <1>5, <2>2
  <2> QED  BY <2>1, <2>3
<1>9. \A part : HasPart(part)' <=> HasPart(part) \/ l.part = part
  BY <1>6, <1>7 DEF HasPart
<1>10. ASSUME NEW i
       PROVE  /\ LinesOfVariable(i)' = LinesOfVariable(i)
                    \cup (IF SaysVariable(i, l) THEN {Len(out) + 1} ELSE {})
              /\ LinesOfPackage(i)' = LinesOfPackage(i)
                    \cup (IF SaysPackage(i, l) THEN {Len(out) + 1} ELSE {})
  <2>1. \A k \in DOMAIN out : /\ SaysVariable(i, out'[k]) <=> SaysVariable(i, out[k])
                              /\ SaysPackage(i, out'[k]) <=> SaysPackage(i, out[k])
    BY <1>6
  <2>2. /\ SaysVariable(i, out'[n + 1]) <=> SaysVariable(i, l)
        /\ SaysPackage(i, out'[n + 1]) <=> SaysPackage(i, l)
    BY <1>6
  <2>3. LinesOfVariable(i)' = {k \in DOMAIN out' : SaysVariable(i, out'[k])}
    BY DEF LinesOfVariable, SaysVariable
  <2>4. LinesOfPackage(i)' = {k \in DOMAIN out' : SaysPackage(i, out'[k])}
    BY DEF LinesOfPackage, SaysPackage
  <2> QED  BY <1>1, <1>7, <2>1, <2>2, <2>3, <2>4 DEF LinesOfVariable, LinesOfPackage
<1> QED  BY <1>8, <1>9, <1>10

\* No line more says nothing.
LEMMA NoLineAdded ==
    ASSUME out \in Seq(Range(out)), out' = out \o <<>>
    PROVE  /\ out' = out
           /\ \A part : HasPart(part)' <=> HasPart(part)
           /\ \A i : LinesOfVariable(i)' = LinesOfVariable(i)
           /\ \A i : LinesOfPackage(i)' = LinesOfPackage(i)
<1>1. out' = out
  OBVIOUS
<1> QED  BY <1>1 DEF HasPart, LinesOfVariable, LinesOfPackage, SaysVariable, SaysPackage

LEMMA SectionsType ==
    /\ Len(InfoPkgs) \in Nat /\ DOMAIN InfoPkgs = 1..Len(InfoPkgs)
    /\ Len(InfoVars) \in Nat /\ DOMAIN InfoVars = 1..Len(InfoVars)
    /\ FirstPackage = 7 /\ FirstVariable = 8 + Len(InfoPkgs)
    /\ LastSection = FirstVariable + Len(InfoVars)
BY InfoAssumption DEF FirstPackage, FirstVariable, LastSection

\* A line that speaks of no line of a file, before the first of them.
LEMMA HeadLine ==
    ASSUME ReportSoFar, section < FirstPackage, section' = section + 1, UNCHANGED fs,
           \/ out' = out \o <<>>
           \/ \E part \in {"version", "timestamp", "system", "linker"} :
                \E names : out' = out \o <<Line(part, 0, names)>>
    PROVE  ReportSoFar'
<1>1. /\ section \in 3..6 /\ section' \in 4..7 /\ section' \in 3..LastSection
      /\ ~HasPart("repositories") /\ ~HasPart("unset")
      /\ section' < FirstVariable
      /\ \A i \in DOMAIN InfoVars : ~(FirstVariable + i <= section')
      /\ \A i \in DOMAIN InfoPkgs : ~(FirstPackage + i <= section')
      /\ \A i \in DOMAIN InfoVars : ~(FirstVariable + i <= section)
      /\ \A i \in DOMAIN InfoPkgs : ~(FirstPackage + i <= section)
  BY SectionsType DEF ReportSoFar
<1>2. /\ \A i \in DOMAIN InfoVars : LinesOfVariable(i) = {}
      /\ \A i \in DOMAIN InfoPkgs : ~InfoPkgs[i].valid => LinesOfPackage(i) = {}
  BY <1>1 DEF ReportSoFar
<1>3. /\ out' \in Seq(Range(out)') /\ ~HasPart("repositories")' /\ ~HasPart("unset")'
      /\ \A i \in DOMAIN InfoVars : LinesOfVariable(i)' = LinesOfVariable(i)
      /\ \A i \in DOMAIN InfoPkgs : LinesOfPackage(i)' = LinesOfPackage(i)
  <2>1. CASE out' = out \o <<>>
    <3>1. out' = out
      BY <2>1, NoLineAdded DEF ReportSoFar
    <3> QED  BY <1>1, <2>1, <3>1, NoLineAdded DEF ReportSoFar
  <2>2. CASE out' # out \o <<>>
    <3>1. PICK part \in {"version", "timestamp", "system", "linker"} :
                \E names : out' = out \o <<Line(part, 0, names)>>
      BY <2>2
    <3>2. PICK l : out' = out \o <<l>> /\ \E names : l = Line(part, 0, names)
      BY <3>1
    <3>3. l.part = part
      BY <3>2 DEF Line
    <3>4. \A i : ~SaysVariable(i, l) /\ ~SaysPackage(i, l)
      BY <3>3 DEF SaysVariable, SaysPackage
    <3> QED  BY <1>1, <3>1, <3>2, <3>3, <3>4, LineAdded DEF ReportSoFar
  <2> QED  BY <2>1, <2>2
<1>4. /\ section' \in 3..LastSection
      /\ HasPart("repositories")' <=> section' >= FirstVariable
  BY <1>1, <1>3, SectionsType
<1>5. ASSUME NEW i \in DOMAIN InfoVars
      PROVE  (IF FirstVariable + i <= section /\ IsSet(InfoVars[i])
              THEN \E k : LinesOfVariable(i) = {k}
              ELSE LinesOfVariable(i) = {})'
  BY <1>1, <1>2, <1>3
<1>6. ASSUME NEW i \in DOMAIN InfoPkgs, ~InfoPkgs[i].valid
      PROVE  (IF FirstPackage + i <= section THEN \E k : LinesOfPackage(i) = {k}
                                             ELSE LinesOfPackage(i) = {})'
  <2>1. LinesOfPackage(i) = {}
    BY <1>2, <1>6
  <2> QED  BY <1>1, <1>3, <2>1
<1> QED  BY <1>3, <1>4, <1>5, <1>6 DEF ReportSoFar

\* One turn of the loop of print_packages.
LEMMA PackageLine ==
    ASSUME ReportSoFar, section \in FirstPackage..(FirstVariable - 2), section' = section + 1,
           UNCHANGED fs,
           \/ InfoPkgs[ThisPackage].valid /\ out' = out \o <<>>
           \/ \E names : out' = out \o <<Line("package", ThisPackage, names)>>
    PROVE  ReportSoFar'
<1>1. PICK n \in DOMAIN InfoPkgs : n = ThisPackage /\ section = FirstPackage + n - 1
  BY SectionsType DEF ThisPackage
<1>2. /\ section' \in 3..LastSection
      /\ ~(section >= FirstVariable) /\ ~(section' >= FirstVariable)
      /\ \A i \in DOMAIN InfoVars : ~(FirstVariable + i <= section) /\ ~(FirstVariable + i <= section')
      /\ \A i \in DOMAIN InfoPkgs : FirstPackage + i <= section' <=> FirstPackage + i <= section \/ i = n
      /\ ~(FirstPackage + n <= section)
  BY <1>1, SectionsType
<1>3. /\ ~HasPart("repositories") /\ ~HasPart("unset") /\ out \in Seq(Range(out))
      /\ \A i \in DOMAIN InfoVars : LinesOfVariable(i) = {}
  BY <1>2 DEF ReportSoFar
<1>4. /\ out' \in Seq(Range(out)') /\ ~HasPart("repositories")' /\ ~HasPart("unset")'
      /\ \A i \in DOMAIN InfoVars : LinesOfVariable(i)' = {}
      /\ \A i \in DOMAIN InfoPkgs : i # n => LinesOfPackage(i)' = LinesOfPackage(i)
      /\ ~InfoPkgs[n].valid => LinesOfPackage(n)' = LinesOfPackage(n) \cup {Len(out) + 1}
  <2>1. CASE InfoPkgs[n].valid /\ out' = out \o <<>>
    <3>1. out' = out
      BY <1>3, <2>1, NoLineAdded
    <3> QED  BY <1>3, <2>1, <3>1, NoLineAdded
  <2>2. CASE \E names : out' = out \o <<Line("package", n, names)>>
    <3>1. PICK names : out' = out \o <<Line("package", n, names)>>
      BY <2>2
    <3>2. PICK l : l = Line("package", n, names)
      OBVIOUS
    <3>3. l.part = "package" /\ l.of = n
      BY <3>2 DEF Line
    <3>4. \A i : ~SaysVariable(i, l) /\ (SaysPackage(i, l) <=> i = n)
      BY <3>3 DEF SaysVariable, SaysPackage
    <3>5. /\ out' \in Seq(Range(out)')
          /\ \A part : HasPart(part)' <=> HasPart(part) \/ l.part = part
          /\ \A i : LinesOfVariable(i)' = LinesOfVariable(i)
                       \cup (IF SaysVariable(i, l) THEN {Len(out) + 1} ELSE {})
          /\ \A i : LinesOfPackage(i)' = LinesOfPackage(i)
                       \cup (IF SaysPackage(i, l) THEN {Len(out) + 1} ELSE {})
      BY <1>3, <3>1, <3>2, LineAdded
    <3>6. ~HasPart("repositories")' /\ ~HasPart("unset")'
      BY <1>3, <3>3, <3>5
    <3> QED  BY <1>3, <3>4, <3>5, <3>6
  <2> QED  BY <1>1, <2>1, <2>2
<1>5. (HasPart("repositories") <=> section >= FirstVariable)'
  BY <1>2, <1>4 DEF FirstVariable
<1>6. ASSUME NEW i \in DOMAIN InfoVars
      PROVE  (IF FirstVariable + i <= section /\ IsSet(InfoVars[i])
              THEN \E k : LinesOfVariable(i) = {k}
              ELSE LinesOfVariable(i) = {})'
  BY <1>2, <1>4
<1>7. ASSUME NEW i \in DOMAIN InfoPkgs, ~InfoPkgs[i].valid
      PROVE  (IF FirstPackage + i <= section THEN \E k : LinesOfPackage(i) = {k}
                                             ELSE LinesOfPackage(i) = {})'
  <2>1. IF FirstPackage + i <= section THEN \E k : LinesOfPackage(i) = {k}
                                       ELSE LinesOfPackage(i) = {}
    BY <1>7 DEF ReportSoFar
  <2>2. CASE i = n
    <3>1. LinesOfPackage(i)' = {Len(out) + 1}
      BY <1>2, <1>4, <1>7, <2>1, <2>2
    <3> QED  BY <1>2, <2>2, <3>1
  <2>3. CASE i # n
    BY <1>2, <1>4, <2>1, <2>3
  <2> QED  BY <2>2, <2>3
<1> QED  BY <1>2, <1>4, <1>5, <1>6, <1>7 DEF ReportSoFar

\* The repositories, after the last package.
LEMMA RepositoriesLine ==
    ASSUME ReportSoFar, section = FirstVariable - 1, section' = section + 1, UNCHANGED fs,
           NEW names, out' = out \o <<Line("repositories", 0, names)>>
    PROVE  ReportSoFar'
<1>1. /\ section' \in 3..LastSection /\ section' >= FirstVariable
      /\ \A i \in DOMAIN InfoVars : ~(FirstVariable + i <= section) /\ ~(FirstVariable + i <= section')
      /\ \A i \in DOMAIN InfoPkgs : FirstPackage + i <= section /\ FirstPackage + i <= section'
  BY SectionsType
<1>2. PICK l : l = Line("repositories", 0, names)
  OBVIOUS
<1>3. l.part = "repositories"
  BY <1>2 DEF Line
<1>4. \A i : ~SaysVariable(i, l) /\ ~SaysPackage(i, l)
  BY <1>3 DEF SaysVariable, SaysPackage
<1>5. /\ out' \in Seq(Range(out)') /\ HasPart("repositories")' /\ ~HasPart("unset")'
      /\ \A i : LinesOfVariable(i)' = LinesOfVariable(i) /\ LinesOfPackage(i)' = LinesOfPackage(i)
  <2>1. out \in Seq(Range(out)) /\ ~HasPart("unset")
    BY DEF ReportSoFar
  <2>2. /\ out' \in Seq(Range(out)')
        /\ \A part : HasPart(part)' <=> HasPart(part) \/ l.part = part
        /\ \A i : LinesOfVariable(i)' = LinesOfVariable(i)
                     \cup (IF SaysVariable(i, l) THEN {Len(out) + 1} ELSE {})
        /\ \A i : LinesOfPackage(i)' = LinesOfPackage(i)
                     \cup (IF SaysPackage(i, l) THEN {Len(out) + 1} ELSE {})
    BY <1>2, <2>1, LineAdded
  <2>3. HasPart("repositories")' /\ ~HasPart("unset")'
    BY <1>3, <2>1, <2>2
  <2> QED  BY <1>4, <2>2, <2>3
<1>6. (HasPart("repositories") <=> section >= FirstVariable)'
  BY <1>1, <1>5 DEF FirstVariable
<1>7. ASSUME NEW i \in DOMAIN InfoVars
      PROVE  (IF FirstVariable + i <= section /\ IsSet(InfoVars[i])
              THEN \E k : LinesOfVariable(i) = {k}
              ELSE LinesOfVariable(i) = {})'
  <2>1. LinesOfVariable(i) = {}
    BY <1>1 DEF ReportSoFar
  <2> QED  BY <1>1, <1>5, <2>1
<1>8. ASSUME NEW i \in DOMAIN InfoPkgs, ~InfoPkgs[i].valid
      PROVE  (IF FirstPackage + i <= section THEN \E k : LinesOfPackage(i) = {k}
                                             ELSE LinesOfPackage(i) = {})'
  <2>1. \E k : LinesOfPackage(i) = {k}
    BY <1>1, <1>8 DEF ReportSoFar
  <2> QED  BY <1>1, <1>5, <2>1
<1> QED  BY <1>1, <1>5, <1>6, <1>7, <1>8 DEF ReportSoFar

\* One turn of the loop of print_settings.
LEMMA VariableLine ==
    ASSUME ReportSoFar, section' = section + 1, UNCHANGED fs, NEW n \in DOMAIN InfoVars,
           n = section - FirstVariable + 1,
           IF ~IsSet(InfoVars[n]) THEN out' = out \o <<>>
           ELSE \E names : out' = out \o <<Line("variable", n, names)>>
    PROVE  ReportSoFar'
<1>1. /\ section' \in 3..LastSection
      /\ section >= FirstVariable /\ section' >= FirstVariable
      /\ \A i \in DOMAIN InfoPkgs : FirstPackage + i <= section /\ FirstPackage + i <= section'
      /\ \A i \in DOMAIN InfoVars : FirstVariable + i <= section' <=> FirstVariable + i <= section \/ i = n
      /\ ~(FirstVariable + n <= section)
  BY SectionsType DEF ReportSoFar
<1>2. HasPart("repositories") /\ ~HasPart("unset") /\ out \in Seq(Range(out))
  BY <1>1 DEF ReportSoFar
<1>3. /\ out' \in Seq(Range(out)') /\ HasPart("repositories")' /\ ~HasPart("unset")'
      /\ \A i \in DOMAIN InfoVars : i # n => LinesOfVariable(i)' = LinesOfVariable(i)
      /\ LinesOfVariable(n)' = LinesOfVariable(n) \cup (IF IsSet(InfoVars[n]) THEN {Len(out) + 1} ELSE {})
      /\ \A i : LinesOfPackage(i)' = LinesOfPackage(i)
  <2>1. CASE ~IsSet(InfoVars[n])
    <3>1. out' = out
      BY <1>2, <2>1, NoLineAdded
    <3> QED  BY <1>2, <2>1, <3>1, NoLineAdded
  <2>2. CASE IsSet(InfoVars[n])
    <3>1. PICK names : out' = out \o <<Line("variable", n, names)>>
      BY <2>2
    <3>2. PICK l : l = Line("variable", n, names)
      OBVIOUS
    <3>3. l.part = "variable" /\ l.of = n
      BY <3>2 DEF Line
    <3>4. \A i : ~SaysPackage(i, l) /\ (SaysVariable(i, l) <=> i = n)
      BY <3>3 DEF SaysVariable, SaysPackage
    <3>5. /\ out' \in Seq(Range(out)')
          /\ \A part : HasPart(part)' <=> HasPart(part) \/ l.part = part
          /\ \A i : LinesOfVariable(i)' = LinesOfVariable(i)
                       \cup (IF SaysVariable(i, l) THEN {Len(out) + 1} ELSE {})
          /\ \A i : LinesOfPackage(i)' = LinesOfPackage(i)
                       \cup (IF SaysPackage(i, l) THEN {Len(out) + 1} ELSE {})
      BY <1>2, <3>1, <3>2, LineAdded
    <3>6. HasPart("repositories")' /\ ~HasPart("unset")'
      BY <1>2, <3>3, <3>5
    <3> QED  BY <2>2, <3>4, <3>5, <3>6
  <2> QED  BY <2>1, <2>2
<1>4. (HasPart("repositories") <=> section >= FirstVariable)'
  BY <1>1, <1>3 DEF FirstVariable
<1>5. ASSUME NEW i \in DOMAIN InfoVars
      PROVE  (IF FirstVariable + i <= section /\ IsSet(InfoVars[i])
              THEN \E k : LinesOfVariable(i) = {k}
              ELSE LinesOfVariable(i) = {})'
  <2>1. IF FirstVariable + i <= section /\ IsSet(InfoVars[i])
        THEN \E k : LinesOfVariable(i) = {k} ELSE LinesOfVariable(i) = {}
    BY DEF ReportSoFar
  <2>2. IsSet(InfoVars[i])' <=> IsSet(InfoVars[i])
    BY DEF IsSet
  <2>3. CASE i = n
    <3>1. LinesOfVariable(i)' = IF IsSet(InfoVars[i]) THEN {Len(out) + 1} ELSE {}
      BY <1>1, <1>3, <2>1, <2>3
    <3> QED  BY <1>1, <2>2, <2>3, <3>1
  <2>4. CASE i # n
    BY <1>1, <1>3, <2>1, <2>2, <2>4
  <2> QED  BY <2>3, <2>4
<1>6. ASSUME NEW i \in DOMAIN InfoPkgs, ~InfoPkgs[i].valid
      PROVE  (IF FirstPackage + i <= section THEN \E k : LinesOfPackage(i) = {k}
                                             ELSE LinesOfPackage(i) = {})'
  <2>1. \E k : LinesOfPackage(i) = {k}
    BY <1>1, <1>6 DEF ReportSoFar
  <2> QED  BY <1>1, <1>3, <2>1
<1> QED  BY <1>1, <1>3, <1>4, <1>5, <1>6 DEF ReportSoFar

\* The last line: what is not set.
LEMMA LastLine ==
    ASSUME ReportSoFar, section = LastSection, retval' = 0, ~error', NEW unset,
           unset = {v \in Range(InfoVars) : ~IsSet(v)},
           out' = out \o (IF unset = {} THEN <<>> ELSE <<Line("unset", 0, unset)>>)
    PROVE  InfoIsWhole'
<1>1. /\ LastSection >= FirstVariable
      /\ \A i \in DOMAIN InfoVars : FirstVariable + i <= section
      /\ \A i \in DOMAIN InfoPkgs : FirstPackage + i <= section
  BY SectionsType
<1>2. HasPart("repositories") /\ out \in Seq(Range(out))
  BY <1>1 DEF ReportSoFar
<1>3. ASSUME NEW i \in DOMAIN InfoVars
      PROVE  IF IsSet(InfoVars[i]) THEN \E k : LinesOfVariable(i) = {k} ELSE LinesOfVariable(i) = {}
  BY <1>1 DEF ReportSoFar
<1>4. ASSUME NEW i \in DOMAIN InfoPkgs, ~InfoPkgs[i].valid
      PROVE  \E k : LinesOfPackage(i) = {k}
  BY <1>1, <1>4 DEF ReportSoFar
<1>5. \A i \in DOMAIN InfoVars : InfoVars[i] \in unset <=> ~IsSet(InfoVars[i])
  BY DEF Range
<1>6. /\ HasPart("repositories")'
      /\ \A i \in DOMAIN InfoVars : LinesOfVariable(i)' = LinesOfVariable(i)
                        \cup (IF IsSet(InfoVars[i]) THEN {} ELSE {Len(out) + 1})
      /\ \A i \in DOMAIN InfoPkgs : LinesOfPackage(i)' = LinesOfPackage(i)
  <2>1. CASE unset = {}
    <3>1. \A i \in DOMAIN InfoVars : IsSet(InfoVars[i])
      BY <1>5, <2>1
    <3> QED  BY <1>2, <2>1, <3>1, NoLineAdded
  <2>2. CASE unset # {}
    <3>1. PICK l : l = Line("unset", 0, unset)
      OBVIOUS
    <3>2. l.part = "unset" /\ l.names = unset
      BY <3>1 DEF Line
    <3>3. /\ \A i : ~SaysPackage(i, l)
          /\ \A i \in DOMAIN InfoVars : SaysVariable(i, l) <=> ~IsSet(InfoVars[i])
      BY <1>5, <3>2 DEF SaysVariable, SaysPackage
    <3>4. /\ \A part : HasPart(part)' <=> HasPart(part) \/ l.part = part
          /\ \A i : LinesOfVariable(i)' = LinesOfVariable(i)
                       \cup (IF SaysVariable(i, l) THEN {Len(out) + 1} ELSE {})
          /\ \A i : LinesOfPackage(i)' = LinesOfPackage(i)
                       \cup (IF SaysPackage(i, l) THEN {Len(out) + 1} ELSE {})
      BY <1>2, <2>2, <3>1, LineAdded
    <3>5. HasPart("repositories")'
      BY <1>2, <3>4
    <3> QED  BY <3>3, <3>4, <3>5
  <2> QED  BY <2>1, <2>2
<1>7. ASSUME NEW i \in DOMAIN InfoVars
      PROVE  \E k \in DOMAIN out' : \A j \in DOMAIN out' : SaysVariable(i, out'[j]) <=> j = k
  <2>1. PICK k : LinesOfVariable(i)' = {k}
    BY <1>3, <1>6
  <2>2. LinesOfVariable(i)' = {j \in DOMAIN out' : SaysVariable(i, out'[j])}
    BY DEF LinesOfVariable, SaysVariable
  <2> QED  BY <2>1, <2>2
<1>8. ASSUME NEW i \in DOMAIN InfoPkgs, ~InfoPkgs[i].valid
      PROVE  \E k \in DOMAIN out' : \A j \in DOMAIN out' : SaysPackage(i, out'[j]) <=> j = k
  <2>1. PICK k : LinesOfPackage(i)' = {k}
    BY <1>4, <1>6, <1>8
  <2>2. LinesOfPackage(i)' = {j \in DOMAIN out' : SaysPackage(i, out'[j])}
    BY DEF LinesOfPackage, SaysPackage
  <2> QED  BY <2>1, <2>2
<1>9. \E k \in DOMAIN out' : out'[k].part = "repositories"
  BY <1>6 DEF HasPart
<1> QED  BY <1>7, <1>8, <1>9 DEF InfoIsWhole, SaysVariable, SaysPackage

\* A failure, before the repositories.
LEMMA ReportFails ==
    ASSUME ReportSoFar, section < FirstVariable, retval' = 1, error', out' = out \o <<>>
    PROVE  InfoIsWhole'
<1>1. ~HasPart("repositories") /\ out \in Seq(Range(out))
  BY SectionsType DEF ReportSoFar
<1>2. ~HasPart("repositories")'
  BY <1>1, NoLineAdded
<1> QED  BY <1>2 DEF HasPart, InfoIsWhole

\* What is first printed is the first line.
LEMMA NothingReported ==
    ASSUME out' = <<>>, section' = 3
    PROVE  ReportSoFar'
<1>1. DOMAIN out' = {} /\ out' \in Seq(Range(out)')
  OBVIOUS
<1>2. /\ section' \in 3..LastSection /\ ~(section' >= FirstVariable)
      /\ \A i \in DOMAIN InfoVars : ~(FirstVariable + i <= section')
      /\ \A i \in DOMAIN InfoPkgs : ~(FirstPackage + i <= section')
  BY SectionsType
<1>3. (\A part : ~HasPart(part)') /\ \A i : LinesOfVariable(i)' = {} /\ LinesOfPackage(i)' = {}
  BY <1>1 DEF HasPart, LinesOfVariable, LinesOfPackage
<1> QED  BY <1>1, <1>2, <1>3 DEF ReportSoFar

LEMMA SameAction ==
    ASSUME UNCHANGED command
    PROVE  IsCmerge' = IsCmerge /\ Action' = Action
<1>1. Chosen' = Chosen
  BY DEF Chosen
<1> QED  BY <1>1 DEF IsCmerge, Action, ActionOf

\* The same report.
LEMMA SameReport ==
    ASSUME InfoIsWhole, UNCHANGED <<command, section, retval, error, out>>
    PROVE  InfoIsWhole'
<1>1. IsCmerge' = IsCmerge /\ Action' = Action
  BY SameAction
<1> QED  BY <1>1 DEF InfoIsWhole, SaysVariable, SaysPackage

\* The steps of the report.
LEMMA ReportOn ==
    ASSUME CommandInv, ReportInv, UNCHANGED fs,
           InfoHead \/ InfoSystem \/ InfoLinker \/ InfoPackage \/ InfoRepositories \/ InfoVariable \/ InfoEnd
    PROVE  ReportInv'
<1>1. /\ IsCmerge /\ Action = "info" /\ at = "answer" /\ UNCHANGED command
      /\ ReportSoFar /\ NothingYet
  BY DEF InfoHead, InfoSystem, InfoLinker, InfoPackage, InfoRepositories, InfoVariable, InfoEnd,
         InInfo, Printed, QueryFails, ReportInv, CommandInv, StatusInv, Early
<1>2. IsCmerge' = IsCmerge /\ Action' = Action
  BY <1>1, SameAction
<1>3. ASSUME UNCHANGED <<at, retval>>, ReportSoFar'
      PROVE  ReportInv'
  BY <1>1, <1>3 DEF ReportInv, InfoIsWhole, NothingYet
<1>4. ASSUME QueryFails, section < FirstVariable
      PROVE  ReportInv'
  <2>1. at' = "release" /\ retval' = 1 /\ error' /\ out' = out \o <<>>
    BY <1>4 DEF QueryFails, Return
  <2> QED  BY <1>1, <1>4, <2>1, ReportFails DEF ReportInv
<1>5. CASE InfoHead \/ InfoSystem \/ InfoLinker
  <2>1. /\ section < FirstPackage /\ section < FirstVariable
    BY <1>5, SectionsType DEF InfoHead, InfoSystem, InfoLinker
  <2>2. \/ QueryFails
        \/ Printed(<<>>)
        \/ \E part \in {"version", "timestamp", "system", "linker"} :
             \E names : Printed(<<Line(part, 0, names)>>)
    BY <1>5 DEF InfoHead, InfoSystem, InfoLinker
  <2> QED  BY <1>1, <1>3, <1>4, <2>1, <2>2, HeadLine DEF Printed
<1>6. CASE InfoPackage
  <2>1. section \in FirstPackage..(FirstVariable - 2) /\ section < FirstVariable
    BY <1>6, SectionsType DEF InfoPackage
  <2>2. \/ QueryFails
        \/ InfoPkgs[ThisPackage].valid /\ Printed(<<>>)
        \/ \E names : Printed(<<Line("package", ThisPackage, names)>>)
    BY <1>6 DEF InfoPackage
  <2> QED  BY <1>1, <1>3, <1>4, <2>1, <2>2, PackageLine DEF Printed
<1>7. CASE InfoRepositories
  BY <1>1, <1>3, <1>7, RepositoriesLine DEF InfoRepositories, Printed
<1>8. CASE InfoVariable
  <2>1. PICK n : n = section - FirstVariable + 1
    OBVIOUS
  <2>2. n \in DOMAIN InfoVars
    BY <1>8, <2>1, SectionsType DEF InfoVariable
  <2>3. UNCHANGED <<at, retval>> /\ section' = section + 1
    BY <1>8 DEF InfoVariable, Printed
  <2>4. IF ~IsSet(InfoVars[n]) THEN out' = out \o <<>>
        ELSE \E names : out' = out \o <<Line("variable", n, names)>>
    BY <1>8, <2>1 DEF InfoVariable, Printed
  <2> QED  BY <1>1, <1>3, <2>1, <2>2, <2>3, <2>4, VariableLine
<1>9. CASE InfoEnd
  <2>1. PICK unset : unset = {v \in Range(InfoVars) : ~IsSet(v)}
    OBVIOUS
  <2>2. /\ section = LastSection /\ retval' = 0 /\ ~error' /\ at' = "release"
        /\ out' = out \o (IF unset = {} THEN <<>> ELSE <<Line("unset", 0, unset)>>)
    BY <1>1, <1>9, <2>1 DEF InfoEnd, Return, NothingYet
  <2> QED  BY <1>1, <2>1, <2>2, LastLine DEF ReportInv
<1> QED  BY <1>5, <1>6, <1>7, <1>8, <1>9

LEMMA ReportMerge ==
    ASSUME CommandInv, ReportInv, Merge
    PROVE  ReportInv'
<1>1. IsCmerge /\ UNCHANGED fs
  BY MergeIsCmerge DEF Merge, vars, settings
<1>2. CASE ParseOptions
  <2>1. /\ at = "args" /\ section = 1 /\ step = 1 /\ UNCHANGED <<step, section>>
        /\ at' \in {"acquire", "release"}
    BY <1>2 DEF ParseOptions, ReportInv, CommandInv, MadeInv
  <2> QED  BY <2>1 DEF ReportInv, InfoIsWhole
<1>3. CASE AdjustNiceness \/ AdjustIonice
  <2>1. /\ at = "acquire" /\ step = 3 /\ section \in 1..2 /\ section' = section + 1
        /\ UNCHANGED <<at, step, retval>> /\ retval = Undecided
    BY <1>3 DEF AdjustNiceness, AdjustIonice, Adjusts, process, CommandInv, StatusInv, Early, NothingYet
  <2>2. section' \in 1..3 /\ step' = 3
    BY <2>1
  <2> QED  BY <2>1, <2>2 DEF ReportInv, InfoIsWhole
<1>4. CASE CmergeAcquire
  <2>1. /\ at = "acquire" /\ section' = section /\ step \in Nat
        /\ section \in 1..3
        /\ step < 3 => section = 1
        /\ step >= 3 => section = 3
    <3>1. at = "acquire" /\ section' = section
      BY <1>4 DEF CmergeAcquire, Acquire, Acquired, cmerge
    <3>2. step = 3 => section = 3
      BY <1>4, <3>1 DEF CmergeAcquire
    <3>3. step \in Nat
      BY DEF CommandInv, PrintedInv
    <3> QED  BY <1>1, <3>1, <3>2, <3>3 DEF ReportInv
  <2>2. ~(section' > 3)
    BY <2>1
  <2>3. InfoIsWhole'
    BY <2>2 DEF InfoIsWhole
  <2>4. CASE Acquired(CmergeAcquires)
    <3>1. step > 4 /\ at' = "answer" /\ out' = <<>> /\ section' = 3
      BY <2>1, <2>4 DEF Acquired, CmergeAcquires, CommandInv, PrintedInv
    <3>2. ReportSoFar'
      BY <3>1, NothingReported
    <3> QED  BY <2>3, <3>1, <3>2 DEF ReportInv
  <2>5. CASE Acquire(CmergeAcquires, 1)
    <3>1. \/ at' = "acquire" /\ step' = step + 1
          \/ at' \in {"release", "died"}
      BY <2>1, <2>5 DEF Acquire, Obtain, CannotObtain, GoOn
    <3> QED  BY <2>1, <2>3, <3>1 DEF ReportInv
  <2> QED  BY <1>4, <2>4, <2>5 DEF CmergeAcquire
<1>5. CASE InstallOrVersion \/ Help \/ SyncReturns
  <2>1. /\ Action # "info" /\ at' \in {"release", "replaced"} /\ UNCHANGED command
    BY <1>5 DEF InstallOrVersion, Help, SyncReturns, Return
  <2>2. Action' = Action
    BY <2>1, SameAction
  <2> QED  BY <2>1, <2>2 DEF ReportInv, InfoIsWhole
<1>6. CASE InfoHead \/ InfoSystem \/ InfoLinker \/ InfoPackage \/ InfoRepositories \/ InfoVariable
             \/ InfoEnd
  BY <1>1, <1>6, ReportOn
<1>7. CASE CmergeRelease \/ CmergeReport
  <2>1. /\ UNCHANGED <<command, section, retval, error, out>>
        /\ at' \in {"release", "died", "exited"}
    BY <1>7 DEF CmergeRelease, CmergeReport, Release, GoOn, Report, cmerge
  <2> QED  BY <2>1, SameReport DEF ReportInv
<1> QED  BY <1>2, <1>3, <1>4, <1>5, <1>6, <1>7 DEF Merge, CmergeStep

LEMMA ReportStep ==
    ASSUME CommandInv, ReportInv, [ProgramsNext]_allVars
    PROVE  ReportInv'
<1>1. CASE Load
  <2>1. at = "idle" /\ UNCHANGED <<command, at, section, retval, error, out>>
    BY <1>1 DEF Load, process, cmerge, InitMain, NextOverlay, InitReposDone, CommandInv, PrintedInv
  <2> QED  BY <2>1, SameReport DEF ReportInv
<1>2. CASE Start
  <2>1. /\ at = "idle" /\ at' = "args" /\ section = 1 /\ section' = 1
    BY <1>2 DEF Start, Invoke, cmerge, ReportInv
  <2> QED  BY <2>1 DEF ReportInv, InfoIsWhole
<1>3. CASE Query
  <2>1. /\ IsCportageq /\ UNCHANGED command /\ at' \notin {"idle", "args"}
    BY <1>3 DEF Query, CportageqStep, Usage, TooFew, Begin, CportageqAnswer, PrintRepoPath,
                RepoPathsPrinted, Acquire, Obtain, CannotObtain, Acquired, Release, Report, GoOn
  <2>2. ~IsCmerge'
    BY <2>1 DEF IsCmerge, IsCportageq
  <2> QED  BY <2>1, <2>2 DEF ReportInv, InfoIsWhole
<1>4. CASE Merge
  BY <1>4, ReportMerge
<1>5. CASE Pull
  <2>1. /\ at = "answer" /\ Action = "sync" /\ UNCHANGED <<command, at, section, retval, error, out>>
    BY <1>5 DEF Pull, process, cmerge
  <2>2. Action' = Action
    BY <2>1, SameAction
  <2> QED  BY <2>1, <2>2, SameReport DEF ReportInv
<1>6. CASE UNCHANGED allVars
  <2>1. UNCHANGED <<fs, command, at, step, section, retval, error, out>>
    BY <1>6 DEF allVars, vars, settings, process, cmerge
  <2>2. IsCmerge' = IsCmerge /\ Action' = Action
    BY <2>1, SameAction
  <2>3. ReportSoFar' <=> ReportSoFar
    BY <2>1 DEF ReportSoFar, HasPart, LinesOfVariable, LinesOfPackage, SaysVariable, SaysPackage, IsSet, Range
  <2> QED  BY <2>1, <2>2, <2>3, SameReport DEF ReportInv
<1> QED  BY <1>1, <1>2, <1>3, <1>4, <1>5, <1>6 DEF ProgramsNext, Work, Gone

LEMMA ReportInit == ProgramsInit => ReportInv
BY DEF ProgramsInit, ProcessInit, CmergeInit, ReportInv, InfoIsWhole

\* A report of cmerge --info that succeeds is whole, and one that fails has not
\* come to the repositories, whatever is in info_pkgs and info_vars, also a line
\* that is there twice, and whichever query fails (info_action.c:129-242,
\* 346-395).
THEOREM ReportsAreWhole == ProgramsSpec => []InfoIsWhole
<1>1. CommandInv /\ ReportInv /\ [ProgramsNext]_allVars => CommandInv' /\ ReportInv'
  BY CommandNext, ReportStep
<1>2. ReportInv => InfoIsWhole
  BY DEF ReportInv
<1> QED  BY <1>1, <1>2, CommandInit, ReportInit, PTL DEF ProgramsSpec

-----------------------------------------------------------------------------
\* The counts of the objects of a command.  The pointers of H have been filled,
\* those of P have not been released yet, found is what the query has found.
One(b) == IF b THEN 1 ELSE 0

Lends == Asking /\ \E i \in 2..Len(Params) : Params[i] \in DOMAIN name2repo

OwnCounts(m, H, P, found) ==
    /\ \A o \in {"factory", "settings", "protect"} : m.refs[The(o)] = One(o \in P)
    /\ m.refs[The("atom")] = One("atom" \in P) + One("atom" \in H /\ "factory" \in P)
    /\ m.refs[The("tree")] = One("vardb" \in P)
    /\ m.refs[The("package")] =
          One("vartree" \in H /\ ("vardb" \in H => "vardb" \in P))
            + One("packages" \in P /\ found # <<>>)

\* A repository has no more references than the settings have pointers to it, and
\* fewer only if get_repo_path has released one it was lent.
ListedCounts(m, P) ==
    \A n \in DOMAIN name2repo :
        IF "settings" \in P
        THEN /\ m.refs[Repository(n)] = 0 <=> Repository(n) \in m.freed
             /\ m.refs[Repository(n)] <= refs[name2repo[n]]
             /\ ~Lends => m.refs[Repository(n)] = refs[name2repo[n]]
        ELSE m.refs[Repository(n)] = 0

Counts(m, H, P, found) ==
    /\ m \in Memories(Own \cup Listed)
    /\ \A x \in m.freed : m.refs[x] = 0
    /\ "vartree" \in H => "vartree" \in P
    /\ OwnCounts(m, H, P, found)
    /\ ListedCounts(m, P)

Given ==
    IF at = "release" THEN {Releases[i] : i \in {j \in 1..Len(Releases) : j < step}} ELSE {}

MemoryInv ==
    /\ at \in {"idle", "args", "acquire"} => memory.fault = "none"
    /\ at \in {"args", "acquire"} => memory.freed = {}
    /\ at = "answer" /\ ~Asking => step = 1
    /\ at \in {"args", "acquire", "answer", "release"} /\ memory.fault = "none" =>
         Counts(memory, has, has \ Given, pkgs)
    /\ FaultsAreKnown
    /\ EverythingReleased

LEMMA Things ==
    /\ \A o, p : The(o) = The(p) => o = p
    /\ \A n, k : Repository(n) = Repository(k) => n = k
    /\ \A o, n : The(o) # Repository(n)
    /\ \A n : Repository(n)[2] = n
BY DEF The, Repository

Blocks == Own \cup Listed

LEMMA BlocksAre ==
    /\ \A o \in {"factory", "atom", "settings", "protect", "tree", "package"} : The(o) \in Blocks
    /\ \A n \in DOMAIN name2repo : Repository(n) \in Blocks
    /\ \A x \in Blocks : x \in Listed \/ \E o \in {"factory", "atom", "settings", "protect", "tree",
                                                   "package"} : x = The(o)
BY DEF Blocks, Own, Listed

\* What is not about a repository leaves their counts alone.
LEMMA ListedKept ==
    ASSUME NEW m, NEW n, NEW P, NEW Q, ListedCounts(m, P), "settings" \in P <=> "settings" \in Q,
           \A x \in Listed : n.refs[x] = m.refs[x] /\ (x \in n.freed <=> x \in m.freed)
    PROVE  ListedCounts(n, Q)
BY DEF ListedCounts, Listed

\* One release, of an object that is no repository and has references.
LEMMA OneRelease ==
    ASSUME NEW m, NEW H, NEW P, NEW found, m.fault = "none", Counts(m, H, P, found),
           NEW o \in {"factory", "atom", "settings", "protect", "tree", "package"},
           m.refs[The(o)] # 0, NEW n, n = Unref(m, The(o))
    PROVE  /\ n \in Memories(Blocks) /\ n.fault = "none"
           /\ n.refs[The(o)] = m.refs[The(o)] - 1 /\ m.refs[The(o)] \in Nat
           /\ \A x \in Blocks : x # The(o) => n.refs[x] = m.refs[x]
           /\ \A x \in n.freed : n.refs[x] = 0
           /\ \A x \in Blocks : x \in n.freed <=> x \in m.freed \/ (x = The(o) /\ m.refs[The(o)] = 1)
           /\ \A x \in Listed : n.refs[x] = m.refs[x] /\ (x \in n.freed <=> x \in m.freed)
<1>1. m \in Memories(Blocks) /\ The(o) \in Blocks
  BY BlocksAre DEF Counts, Blocks
<1>2. The(o) \notin m.freed
  BY DEF Counts
<1>3. /\ n \in Memories(Blocks) /\ n.fault = "none"
      /\ n.refs[The(o)] = m.refs[The(o)] - 1
      /\ \A x \in Blocks : x # The(o) => n.refs[x] = m.refs[x]
      /\ \A x \in Blocks : x \in n.freed <=> x \in m.freed \/ (x = The(o) /\ m.refs[The(o)] = 1)
  BY <1>1, <1>2, UnrefAt
<1>4. \A x \in Listed : x \in Blocks /\ x # The(o)
  BY Things DEF Listed, Blocks
<1>5. m.freed \subseteq Blocks /\ m.refs[The(o)] \in Nat
  BY <1>1 DEF Memories
<1>6. \A x \in n.freed : n.refs[x] = 0
  <2>1. \A x \in m.freed : n.refs[x] = 0
    BY <1>2, <1>3, <1>5 DEF Counts
  <2>2. m.refs[The(o)] = 1 => n.refs[The(o)] = 0
    BY <1>3
  <2>3. n.freed \subseteq Blocks
    BY <1>3 DEF Memories
  <2> QED  BY <1>3, <2>1, <2>2, <2>3
<1> QED  BY <1>3, <1>4, <1>5, <1>6

\* The release of an object that owns none.
LEMMA ReleaseSingle ==
    ASSUME NEW P, NEW o \in P, P \subseteq has, memory.fault = "none", Counts(memory, has, P, pkgs),
           o \in {"atom", "protect"}, NEW n, n = UnrefPointer(o)
    PROVE  n.fault = "none" /\ Counts(n, has, P \ {o}, pkgs)
<1>1. n = Unref(memory, The(o))
  BY DEF UnrefPointer
<1>2. memory.refs[The(o)] # 0
  BY DEF Counts, OwnCounts, One
<1>3. /\ n \in Memories(Blocks) /\ n.fault = "none"
      /\ n.refs[The(o)] = memory.refs[The(o)] - 1
      /\ \A x \in Blocks : x # The(o) => n.refs[x] = memory.refs[x]
      /\ \A x \in n.freed : n.refs[x] = 0
      /\ \A x \in Listed : n.refs[x] = memory.refs[x] /\ (x \in n.freed <=> x \in memory.freed)
  BY <1>1, <1>2, OneRelease
<1>4. OwnCounts(n, has, P \ {o}, pkgs)
  BY <1>3, Things, BlocksAre DEF Counts, OwnCounts, One
<1>5. ListedCounts(n, P \ {o})
  BY <1>3, ListedKept DEF Counts
<1> QED  BY <1>3, <1>4, <1>5 DEF Counts, Blocks

\* The factory has a reference to the atom it made.
LEMMA ReleaseFactory ==
    ASSUME NEW P, "factory" \in P, P \subseteq has, memory.fault = "none",
           Counts(memory, has, P, pkgs), NEW n, n = UnrefPointer("factory")
    PROVE  n.fault = "none" /\ Counts(n, has, P \ {"factory"}, pkgs)
<1>1. PICK m, S : m = Unref(memory, The("factory"))
                  /\ S = IF "atom" \in has THEN {The("atom")} ELSE {}
  OBVIOUS
<1>2. memory.refs[The("factory")] = 1
  BY DEF Counts, OwnCounts, One
<1>3. /\ m \in Memories(Blocks) /\ m.fault = "none"
      /\ m.refs[The("factory")] = 0
      /\ \A x \in Blocks : x # The("factory") => m.refs[x] = memory.refs[x]
      /\ \A x \in m.freed : m.refs[x] = 0
      /\ \A x \in Blocks : x \in m.freed <=> x \in memory.freed \/ x = The("factory")
      /\ \A x \in Listed : m.refs[x] = memory.refs[x] /\ (x \in m.freed <=> x \in memory.freed)
  BY <1>1, <1>2, OneRelease
<1>4. The("factory") \notin memory.freed
  BY <1>2 DEF Counts
<1>5. n = UnrefAll(m, S)
  <2>1. UnrefPointer("factory") = UnrefOwner(memory, The("factory"), S)
    BY <1>1 DEF UnrefPointer
  <2>2. m.freed # memory.freed
    BY <1>3, <1>4, BlocksAre
  <2> QED  BY <1>1, <2>1, <2>2 DEF UnrefOwner
<1>6. S \subseteq Blocks /\ S \cap Listed = {} /\ \A x \in S : x = The("atom")
  BY <1>1, Things, BlocksAre DEF Listed
<1>7. "atom" \in has => m.refs[The("atom")] = One("atom" \in P) + 1
  BY <1>3, Things, BlocksAre DEF Counts, OwnCounts, One
<1>8. \A x \in S : m.refs[x] # 0
  BY <1>1, <1>7 DEF One
<1>9. S \cap m.freed = {}
  BY <1>3, <1>8
<1>10. /\ n \in Memories(Blocks) /\ n.fault = "none"
       /\ \A x \in Blocks : n.refs[x] = IF x \in S THEN m.refs[x] - 1 ELSE m.refs[x]
       /\ \A x \in Blocks : x \in n.freed <=> x \in m.freed \/ (x \in S /\ m.refs[x] = 1)
  BY <1>3, <1>5, <1>6, <1>8, <1>9, UnrefAllAt
<1>11. n.refs[The("atom")] = One("atom" \in P)
  BY <1>1, <1>3, <1>7, <1>10, Things, BlocksAre DEF Counts, OwnCounts, One
<1>12. \A x \in Blocks : x # The("factory") /\ x # The("atom") => n.refs[x] = memory.refs[x]
  BY <1>3, <1>6, <1>10
<1>13. n.refs[The("factory")] = 0
  BY <1>3, <1>6, <1>10, Things, BlocksAre
<1>14. \A x \in n.freed : n.refs[x] = 0
  <2>1. m.freed \subseteq Blocks /\ n.freed \subseteq Blocks
    BY <1>3, <1>10 DEF Memories
  <2>2. \A x \in m.freed : n.refs[x] = 0
    BY <1>3, <1>9, <1>10, <2>1
  <2>3. \A x \in S : m.refs[x] = 1 => n.refs[x] = 0
    BY <1>6, <1>10
  <2> QED  BY <1>10, <2>1, <2>2, <2>3
<1>15. OwnCounts(n, has, P \ {"factory"}, pkgs)
  BY <1>11, <1>12, <1>13, Things, BlocksAre DEF Counts, OwnCounts, One
<1>16. ListedCounts(n, P \ {"factory"})
  <2>1. \A x \in Listed : n.refs[x] = memory.refs[x] /\ (x \in n.freed <=> x \in memory.freed)
    BY <1>3, <1>6, <1>10, BlocksAre DEF Blocks
  <2> QED  BY <2>1, ListedKept DEF Counts
<1> QED  BY <1>10, <1>14, <1>15, <1>16 DEF Counts, Blocks

\* What the query has found is one reference to the cache of the vartree.
LEMMA ReleasePackages ==
    ASSUME NEW P, "packages" \in P, P \subseteq has, memory.fault = "none",
           Counts(memory, has, P, pkgs), NEW n, n = UnrefPointer("packages")
    PROVE  n.fault = "none" /\ Counts(n, has, P \ {"packages"}, pkgs)
<1>1. CASE pkgs = <<>>
  <2>1. n = memory
    BY <1>1 DEF UnrefPointer
  <2>2. OwnCounts(n, has, P \ {"packages"}, pkgs)
    BY <1>1, <2>1 DEF Counts, OwnCounts, One
  <2>3. ListedCounts(n, P \ {"packages"})
    BY <2>1 DEF Counts, ListedCounts
  <2> QED  BY <2>1, <2>2, <2>3 DEF Counts
<1>2. CASE pkgs # <<>>
  <2>1. n = Unref(memory, The("package"))
    BY <1>2 DEF UnrefPointer
  <2>2. memory.refs[The("package")] # 0
    BY <1>2 DEF Counts, OwnCounts, One
  <2>3. /\ n \in Memories(Blocks) /\ n.fault = "none"
        /\ n.refs[The("package")] = memory.refs[The("package")] - 1
        /\ \A x \in Blocks : x # The("package") => n.refs[x] = memory.refs[x]
        /\ \A x \in n.freed : n.refs[x] = 0
        /\ \A x \in Listed : n.refs[x] = memory.refs[x] /\ (x \in n.freed <=> x \in memory.freed)
    BY <2>1, <2>2, OneRelease
  <2>4. n.refs[The("package")] = One("vartree" \in has /\ ("vardb" \in has => "vardb" \in P))
    BY <1>2, <2>3 DEF Counts, OwnCounts, One
  <2>5. OwnCounts(n, has, P \ {"packages"}, pkgs)
    BY <2>3, <2>4, Things, BlocksAre DEF Counts, OwnCounts, One
  <2>6. ListedCounts(n, P \ {"packages"})
    BY <2>3, ListedKept DEF Counts
  <2> QED  BY <2>3, <2>5, <2>6 DEF Counts, Blocks
<1> QED  BY <1>1, <1>2

\* The vardb is the tree of the vartree with a reference; the tree goes with it,
\* and the cache with the tree.
LEMMA ReleaseVardb ==
    ASSUME NEW P, "vardb" \in P, P \subseteq has, "vartree" \in has, memory.fault = "none",
           Counts(memory, has, P, pkgs), NEW n, n = UnrefPointer("vardb")
    PROVE  n.fault = "none" /\ Counts(n, has, P \ {"vardb"}, pkgs)
<1>1. PICK m, S : m = Unref(memory, The("tree")) /\ S = {The("package")}
  OBVIOUS
<1>2. memory.refs[The("tree")] = 1
  BY DEF Counts, OwnCounts, One
<1>3. /\ m \in Memories(Blocks) /\ m.fault = "none"
      /\ m.refs[The("tree")] = 0
      /\ \A x \in Blocks : x # The("tree") => m.refs[x] = memory.refs[x]
      /\ \A x \in m.freed : m.refs[x] = 0
      /\ \A x \in Blocks : x \in m.freed <=> x \in memory.freed \/ x = The("tree")
      /\ \A x \in Listed : m.refs[x] = memory.refs[x] /\ (x \in m.freed <=> x \in memory.freed)
  BY <1>1, <1>2, OneRelease
<1>4. The("tree") \notin memory.freed
  BY <1>2 DEF Counts
<1>5. n = UnrefAll(m, S)
  <2>1. UnrefPointer("vardb") = UnrefOwner(memory, The("tree"), S)
    BY <1>1 DEF UnrefPointer
  <2>2. m.freed # memory.freed
    BY <1>3, <1>4, BlocksAre
  <2> QED  BY <1>1, <2>1, <2>2 DEF UnrefOwner
<1>6. S \subseteq Blocks /\ S \cap Listed = {} /\ \A x \in S : x = The("package")
  BY <1>1, Things, BlocksAre DEF Listed
<1>7. m.refs[The("package")] = 1 + One("packages" \in P /\ pkgs # <<>>)
  BY <1>3, Things, BlocksAre DEF Counts, OwnCounts, One
<1>8. \A x \in S : m.refs[x] # 0
  BY <1>6, <1>7 DEF One
<1>9. S \cap m.freed = {}
  BY <1>3, <1>8
<1>10. /\ n \in Memories(Blocks) /\ n.fault = "none"
       /\ \A x \in Blocks : n.refs[x] = IF x \in S THEN m.refs[x] - 1 ELSE m.refs[x]
       /\ \A x \in Blocks : x \in n.freed <=> x \in m.freed \/ (x \in S /\ m.refs[x] = 1)
  BY <1>3, <1>5, <1>6, <1>8, <1>9, UnrefAllAt
<1>11. n.refs[The("package")] = One("packages" \in P /\ pkgs # <<>>)
  <2>1. n.refs[The("package")] = m.refs[The("package")] - 1
    BY <1>1, <1>10, BlocksAre
  <2> QED  BY <1>7, <2>1 DEF One
<1>12. \A x \in Blocks : x # The("tree") /\ x # The("package") => n.refs[x] = memory.refs[x]
  BY <1>3, <1>6, <1>10
<1>13. n.refs[The("tree")] = 0
  BY <1>3, <1>6, <1>10, Things, BlocksAre
<1>14. \A x \in n.freed : n.refs[x] = 0
  <2>1. m.freed \subseteq Blocks /\ n.freed \subseteq Blocks
    BY <1>3, <1>10 DEF Memories
  <2>2. \A x \in m.freed : n.refs[x] = 0
    BY <1>3, <1>9, <1>10, <2>1
  <2>3. \A x \in S : m.refs[x] = 1 => n.refs[x] = 0
    BY <1>6, <1>10
  <2> QED  BY <1>10, <2>1, <2>2, <2>3
<1>15. OwnCounts(n, has, P \ {"vardb"}, pkgs)
  BY <1>11, <1>12, <1>13, Things, BlocksAre DEF Counts, OwnCounts, One
<1>16. ListedCounts(n, P \ {"vardb"})
  <2>1. \A x \in Listed : n.refs[x] = memory.refs[x] /\ (x \in n.freed <=> x \in memory.freed)
    BY <1>3, <1>6, <1>10, BlocksAre DEF Blocks
  <2> QED  BY <2>1, ListedKept DEF Counts
<1> QED  BY <1>10, <1>14, <1>15, <1>16 DEF Counts, Blocks

\* Without the vardb the tree of the vartree has no reference: its release fails.
LEMMA TreeFaults ==
    ASSUME NEW m, NEW H, NEW P, NEW found, m.fault = "none", Counts(m, H, P, found), "vardb" \notin P
    PROVE  Unref(m, The("tree")).fault # "none"
<1>1. m \in Memories(Blocks) /\ The("tree") \in Blocks
  BY BlocksAre DEF Counts, Blocks
<1>2. m.refs[The("tree")] = 0
  BY DEF Counts, OwnCounts, One
<1> QED  BY <1>1, <1>2, UnrefSucceeds

LEMMA ReleaseVartree ==
    ASSUME NEW P, "vartree" \in has, "vardb" \notin P, memory.fault = "none",
           Counts(memory, has, P, pkgs), NEW n, n = UnrefPointer("vartree")
    PROVE  n.fault # "none"
<1>1. PICK m : m = Unref(memory, The("tree"))
  OBVIOUS
<1>2. m.fault # "none"
  BY <1>1, TreeFaults
<1>3. n = UnrefOwner(memory, The("tree"), {The("package")})
  BY DEF UnrefPointer
<1>4. n \in {m, UnrefAll(m, {The("package")})}
  BY <1>1, <1>3 DEF UnrefOwner
<1>5. UnrefAll(m, {The("package")}) = m
  BY <1>2 DEF UnrefAll
<1> QED  BY <1>2, <1>4, <1>5

\* The settings have two pointers to the main repository and one to each other.
LEMMA Bases ==
    ASSUME ListInv, phase # "main"
    PROVE  /\ NameOf(MainPath) \in DOMAIN name2repo
           /\ refs[name2repo[NameOf(MainPath)]] = 2
           /\ \A n \in DOMAIN name2repo : n # NameOf(MainPath) => refs[name2repo[n]] = 1
<1>1. repos # <<>> /\ repos \in Seq(DOMAIN refs) /\ 1 \in DOMAIN repos /\ repos[1].path = MainPath
  BY DEF ListInv, RepoInv, Agree, OrderInv, OverlayInv
<1>2. NameOf(MainPath) \in DOMAIN name2repo /\ name2repo[NameOf(MainPath)] = repos[1]
  BY <1>1 DEF ListInv, RepoInv, Agree
<1>3. \A i \in DOMAIN repos : repos[i] \in DOMAIN refs
  BY <1>1
<1>4. refs[repos[1]] = 2
  BY <1>1, <1>3 DEF ListInv, RepoInv, Counted
<1>5. ASSUME NEW n \in DOMAIN name2repo, n # NameOf(MainPath)
      PROVE  refs[name2repo[n]] = 1
  <2>1. PICK i \in DOMAIN repos : name2repo[n] = repos[i]
    BY DEF ListInv, RepoInv, Agree
  <2>2. NameOf(repos[i].path) = n
    BY <2>1 DEF ListInv, RepoInv, Agree
  <2>3. repos[i] # repos[1]
    BY <1>1, <1>5, <2>2
  <2> QED  BY <1>3, <2>1, <2>3 DEF ListInv, RepoInv, Counted
<1> QED  BY <1>2, <1>4, <1>5

\* The settings go, then one reference of every repository, then the second one of
\* the main repository.  That fails only if get_repo_path has released one before.
LEMMA ReleaseSettings ==
    ASSUME NEW P, "settings" \in P, P \subseteq has, ListInv, phase # "main", memory.fault = "none",
           Counts(memory, has, P, pkgs), NEW n, n = UnrefPointer("settings")
    PROVE  /\ n.fault # "none" => Lends
           /\ n.fault = "none" => Counts(n, has, P \ {"settings"}, pkgs)
<1>1. PICK m, k, r : m = Unref(memory, The("settings")) /\ k = UnrefAll(m, Listed)
                     /\ r = Repository(NameOf(MainPath))
  OBVIOUS
<1>2. memory.refs[The("settings")] = 1
  BY DEF Counts, OwnCounts, One
<1>3. /\ m \in Memories(Blocks) /\ m.fault = "none"
      /\ m.refs[The("settings")] = 0
      /\ \A x \in Blocks : x # The("settings") => m.refs[x] = memory.refs[x]
      /\ \A x \in m.freed : m.refs[x] = 0
      /\ \A x \in Blocks : x \in m.freed <=> x \in memory.freed \/ x = The("settings")
      /\ \A x \in Listed : m.refs[x] = memory.refs[x] /\ (x \in m.freed <=> x \in memory.freed)
  BY <1>1, <1>2, OneRelease
<1>4. The("settings") \notin memory.freed /\ The("settings") \in m.freed
  BY <1>2, <1>3, BlocksAre DEF Counts
<1>5. UnrefOwner(memory, The("settings"), Listed) = k
  BY <1>1, <1>4 DEF UnrefOwner
<1>6. n = IF The("settings") \in k.freed THEN Unref(k, r) ELSE k
  <2>1. n = UnrefSettings(memory)
    BY DEF UnrefPointer
  <2> QED  BY <1>1, <1>5, <2>1 DEF UnrefSettings
<1>7. Listed \subseteq Blocks /\ r \in Listed /\ The("settings") \in Blocks /\ The("settings") \notin Listed
  BY <1>1, Bases, Things, BlocksAre DEF Listed, Blocks
<1>8. \A x \in Listed : m.refs[x] = 0 <=> x \in m.freed
  BY <1>3 DEF Counts, ListedCounts, Listed
<1>9. \A x \in Listed : m.refs[x] \in Nat /\ m.refs[x] <= (IF x = r THEN 2 ELSE 1)
  <2>1. \A x \in Blocks : m.refs[x] \in Nat
    BY <1>3 DEF Memories
  <2>2. ASSUME NEW l \in DOMAIN name2repo
        PROVE  m.refs[Repository(l)] <= refs[name2repo[l]]
    BY <1>3 DEF Counts, ListedCounts, Listed
  <2>3. \A l \in DOMAIN name2repo : Repository(l) = r <=> l = NameOf(MainPath)
    BY <1>1, Things
  <2> QED  BY <1>7, <2>1, <2>2, <2>3, Bases DEF Listed
<1>10. ~Lends => \A x \in Listed : m.refs[x] = (IF x = r THEN 2 ELSE 1)
  <2>1. \A l \in DOMAIN name2repo : Repository(l) = r <=> l = NameOf(MainPath)
    BY <1>1, Things
  <2>2. ASSUME ~Lends, NEW l \in DOMAIN name2repo
        PROVE  m.refs[Repository(l)] = refs[name2repo[l]]
    BY <1>3, <2>2 DEF Counts, ListedCounts, Listed
  <2> QED  BY <2>1, <2>2, Bases DEF Listed
\* The table.
<1>11. ASSUME \A x \in Listed : m.refs[x] # 0
       PROVE  /\ k \in Memories(Blocks) /\ k.fault = "none"
              /\ \A x \in Blocks : x \notin Listed => k.refs[x] = m.refs[x]
              /\ \A x \in Listed : k.refs[x] = m.refs[x] - 1
              /\ \A x \in Blocks : x \in k.freed <=> x \in m.freed \/ (x \in Listed /\ m.refs[x] = 1)
  <2>1. Listed \cap m.freed = {}
    BY <1>8, <1>11
  <2>2. /\ k \in Memories(Blocks) /\ k.fault = "none"
        /\ \A x \in Blocks : k.refs[x] = IF x \in Listed THEN m.refs[x] - 1 ELSE m.refs[x]
        /\ \A x \in Blocks : x \in k.freed <=> x \in m.freed \/ (x \in Listed /\ m.refs[x] = 1)
    BY <1>1, <1>3, <1>7, <1>11, <2>1, UnrefAllAt
  <2> QED  BY <1>7, <2>2
<1>12. k.fault = "none" => \A x \in Listed : m.refs[x] # 0
  BY <1>1, <1>3, <1>7, UnrefAllSucceeds
\* The main repository.
<1>13. ASSUME \A x \in Listed : m.refs[x] # 0
       PROVE  /\ n = Unref(k, r)
              /\ k.refs[r] = 0 <=> r \in k.freed
              /\ k.refs[r] \in Nat /\ k.refs[r] <= 1
              /\ \A x \in Listed : x # r => k.refs[x] = 0
              /\ m.refs[r] = 2 => k.refs[r] = 1
  <2>1. n = Unref(k, r)
    BY <1>4, <1>6, <1>7, <1>11, <1>13
  <2>2. k.refs[r] = m.refs[r] - 1 /\ m.refs[r] \in Nat /\ m.refs[r] <= 2 /\ m.refs[r] # 0
    BY <1>7, <1>9, <1>11, <1>13
  <2>3. r \in k.freed <=> m.refs[r] = 1
    BY <1>7, <1>8, <1>11, <1>13
  <2>4. \A x \in Listed : x # r => k.refs[x] = 0
    BY <1>9, <1>11, <1>13
  <2> QED  BY <2>1, <2>2, <2>3, <2>4
<1>14. n.fault = "none" => /\ \A x \in Listed : m.refs[x] # 0
                           /\ k.refs[r] # 0
  <2>1. ASSUME n.fault = "none" PROVE k.fault = "none"
    <3>1. CASE k.fault # "none"
      <4>1. Unref(k, r) = k
        BY <3>1 DEF Unref, Touch
      <4> QED  BY <1>6, <2>1, <3>1, <4>1
    <3> QED  BY <3>1
  <2>2. ASSUME n.fault = "none" PROVE k.refs[r] # 0
    <3>1. \A x \in Listed : m.refs[x] # 0
      BY <1>12, <2>1, <2>2
    <3>2. n = Unref(k, r) /\ k \in Memories(Blocks) /\ k.fault = "none"
      BY <1>11, <1>13, <3>1
    <3> QED  BY <1>7, <2>2, <3>2, UnrefSucceeds
  <2> QED  BY <1>12, <2>1, <2>2
<1>15. ASSUME \A x \in Listed : m.refs[x] # 0, k.refs[r] # 0
       PROVE  /\ n \in Memories(Blocks) /\ n.fault = "none"
              /\ \A x \in Listed : n.refs[x] = 0
              /\ \A x \in Blocks : x \notin Listed => n.refs[x] = m.refs[x]
              /\ \A x \in Blocks : x \in n.freed => x \in m.freed \/ x \in Listed
  <2>1. n = Unref(k, r) /\ r \notin k.freed /\ k.refs[r] = 1
    BY <1>13, <1>15
  <2>2. k \in Memories(Blocks) /\ k.fault = "none"
    BY <1>11, <1>15
  <2>3. /\ n \in Memories(Blocks) /\ n.fault = "none"
        /\ n.refs[r] = k.refs[r] - 1
        /\ \A x \in Blocks : x # r => n.refs[x] = k.refs[x]
        /\ \A x \in Blocks : x \in n.freed <=> x \in k.freed \/ (x = r /\ k.refs[r] = 1)
    BY <1>7, <2>1, <2>2, UnrefAt
  <2>4. n.refs[r] = 0
    BY <2>1, <2>3
  <2>5. \A x \in Listed : n.refs[x] = 0
    BY <1>7, <1>13, <1>15, <2>3, <2>4
  <2>6. \A x \in Blocks : x \notin Listed => n.refs[x] = m.refs[x]
    BY <1>7, <1>11, <1>15, <2>3
  <2>7. \A x \in Blocks : x \in n.freed => x \in m.freed \/ x \in Listed
    BY <1>7, <1>11, <1>15, <2>3
  <2> QED  BY <2>3, <2>5, <2>6, <2>7
<1>16. ASSUME n.fault # "none" PROVE Lends
  <2>1. ASSUME ~Lends PROVE FALSE
    <3>1. \A x \in Listed : m.refs[x] # 0
      BY <1>10, <2>1
    <3>2. m.refs[r] = 2
      BY <1>7, <1>10, <2>1
    <3>3. k.refs[r] # 0
      BY <1>13, <3>1, <3>2
    <3> QED  BY <1>15, <1>16, <3>1, <3>3
  <2> QED  BY <2>1
<1>17. ASSUME n.fault = "none" PROVE Counts(n, has, P \ {"settings"}, pkgs)
  <2>1. /\ n \in Memories(Blocks) /\ n.fault = "none"
        /\ \A x \in Listed : n.refs[x] = 0
        /\ \A x \in Blocks : x \notin Listed => n.refs[x] = m.refs[x]
        /\ \A x \in Blocks : x \in n.freed => x \in m.freed \/ x \in Listed
    BY <1>14, <1>15, <1>17
  <2>2. n.refs[The("settings")] = 0
    BY <1>3, <1>7, <2>1
  <2>3. \A x \in Blocks : x \notin Listed /\ x # The("settings") => n.refs[x] = memory.refs[x]
    BY <1>3, <2>1
  <2>4. OwnCounts(n, has, P \ {"settings"}, pkgs)
    <3>1. \A o \in {"factory", "atom", "protect", "tree", "package"} :
             n.refs[The(o)] = memory.refs[The(o)]
      BY <2>3, Things, BlocksAre DEF Listed
    <3> QED  BY <2>2, <3>1 DEF Counts, OwnCounts, One
  <2>5. ListedCounts(n, P \ {"settings"})
    BY <2>1 DEF ListedCounts, Listed
  <2>6. \A x \in n.freed : n.refs[x] = 0
    <3>1. n.freed \subseteq Blocks
      BY <2>1 DEF Memories
    <3>2. \A x \in Blocks : x \in m.freed /\ x \notin Listed => n.refs[x] = 0
      BY <1>3, <2>1
    <3> QED  BY <2>1, <3>1, <3>2
  <2> QED  BY <2>1, <2>4, <2>5, <2>6 DEF Counts, Blocks
<1> QED  BY <1>16, <1>17

-----------------------------------------------------------------------------
\* The pointer o is the next to be filled when those of H have been.
NextTo(o, H) == o \notin H /\ Needs(o) \subseteq H /\ \A x \in H : Needs(x) \subseteq H

\* The object that the pointer o gets, and its references: a new one, or one more.
Creates(o, t, v) ==
    <<o, t, v>> \in {<<"factory", "factory", 1>>, <<"protect", "protect", 1>>,
                     <<"atom", "atom", 2>>, <<"vartree", "package", 1>>}
Shares(o, t, found) ==
    \/ <<o, t>> = <<"vardb", "tree">> /\ found = pkgs
    \/ <<o, t>> = <<"packages", "package">> /\ found # <<>>

\* What the calls that succeed make of the counts: nothing of the object existed,
\* and what it is made with does.
LEMMA MadeOne ==
    ASSUME NEW m, NEW H, Counts(m, H, H, pkgs), NEW o, NEW t, NEW v,
           Creates(o, t, v), NextTo(o, H), m.fault = "none", m.freed = {},
           NEW n, n = [m EXCEPT !.refs[The(t)] = v]
    PROVE  n.fault = "none" /\ n.freed = {} /\ Counts(n, H \cup {o}, H \cup {o}, pkgs)
<1>1. t \in {"factory", "atom", "protect", "package"} /\ v \in Nat
  BY DEF Creates
<1>2. m \in Memories(Blocks) /\ The(t) \in Blocks
  BY <1>1, BlocksAre DEF Counts, Blocks
<1>3. /\ n \in Memories(Blocks) /\ n.freed = m.freed /\ n.fault = m.fault
      /\ n.refs[The(t)] = v
      /\ \A x \in Blocks : x # The(t) => n.refs[x] = m.refs[x]
  BY ONLY <1>1, <1>2, n = [m EXCEPT !.refs[The(t)] = v], RefsSet
<1>4. \A p \in {"factory", "atom", "settings", "protect", "tree", "package"} :
         n.refs[The(p)] = IF p = t THEN v ELSE m.refs[The(p)]
  BY <1>3, Things, BlocksAre
<1>5. \A x \in Listed : n.refs[x] = m.refs[x] /\ (x \in n.freed <=> x \in m.freed)
  BY <1>3, Things, BlocksAre DEF Listed
<1>6. OwnCounts(n, H \cup {o}, H \cup {o}, pkgs)
  <2>1. CASE o = "factory"
    <3>1. "atom" \notin H
      BY <2>1 DEF Needs, NextTo
    <3> QED  BY <1>4, <2>1, <3>1 DEF Counts, OwnCounts, One, Creates, NextTo
  <2>2. CASE o = "protect"
    BY <1>4, <2>2 DEF Counts, OwnCounts, One, Creates, NextTo
  <2>3. CASE o = "atom"
    <3>1. "factory" \in H
      BY <2>3 DEF Needs, NextTo
    <3> QED  BY <1>4, <2>3, <3>1 DEF Counts, OwnCounts, One, Creates, NextTo
  <2>4. CASE o = "vartree"
    <3>1. "vardb" \notin H /\ "packages" \notin H
      BY <2>4 DEF Needs, NextTo
    <3> QED  BY <1>4, <2>4, <3>1 DEF Counts, OwnCounts, One, Creates, NextTo
  <2> QED  BY <2>1, <2>2, <2>3, <2>4 DEF Creates
<1>7. ListedCounts(n, H \cup {o})
  <2>1. ListedCounts(m, H)
    BY DEF Counts
  <2>2. "settings" \in H <=> "settings" \in H \cup {o}
    BY DEF Creates
  <2> QED  BY ONLY <1>5, <2>1, <2>2, ListedKept
<1>8. "vartree" \in H \cup {o} => "vartree" \in H \cup {o}
  OBVIOUS
<1> QED  BY <1>3, <1>6, <1>7, <1>8 DEF Counts, Blocks

\* cp_vartree_get_vardb, and a query that finds something.
LEMMA MadeReference ==
    ASSUME NEW m, NEW H, NEW found, Counts(m, H, H, pkgs), NEW o, NEW t,
           Shares(o, t, found), NextTo(o, H), m.fault = "none", m.freed = {},
           NEW n, n = Ref(m, The(t))
    PROVE  n.fault = "none" /\ n.freed = {} /\ Counts(n, H \cup {o}, H \cup {o}, found)
<1>1. t \in {"tree", "package"}
  BY DEF Shares
<1>2. m \in Memories(Blocks) /\ The(t) \in Blocks
  BY <1>1, BlocksAre DEF Counts, Blocks
<1>3. /\ n \in Memories(Blocks) /\ n.freed = m.freed /\ n.fault = "none"
      /\ n.refs[The(t)] = m.refs[The(t)] + 1
      /\ \A x \in Blocks : x # The(t) => n.refs[x] = m.refs[x]
  BY <1>1, <1>2, RefAt
<1>4. \A p \in {"factory", "atom", "settings", "protect", "tree", "package"} :
         n.refs[The(p)] = IF p = t THEN m.refs[The(p)] + 1 ELSE m.refs[The(p)]
  BY <1>3, Things, BlocksAre
<1>5. \A x \in Listed : n.refs[x] = m.refs[x] /\ (x \in n.freed <=> x \in m.freed)
  BY <1>3, Things, BlocksAre DEF Listed
<1>6. OwnCounts(n, H \cup {o}, H \cup {o}, found)
  <2>1. CASE o = "vardb"
    <3>1. "vartree" \in H /\ "packages" \notin H
      BY <2>1 DEF Needs, NextTo
    <3> QED  BY <1>4, <2>1, <3>1 DEF Counts, OwnCounts, One, Shares, NextTo
  <2>2. CASE o = "packages"
    BY <1>4, <2>2 DEF Counts, OwnCounts, One, Shares, NextTo
  <2> QED  BY <2>1, <2>2 DEF Shares
<1>7. ListedCounts(n, H \cup {o})
  <2>1. ListedCounts(m, H)
    BY DEF Counts
  <2>2. "settings" \in H <=> "settings" \in H \cup {o}
    BY DEF Shares
  <2> QED  BY ONLY <1>5, <2>1, <2>2, ListedKept
<1> QED  BY <1>3, <1>6, <1>7 DEF Counts, Blocks

\* A query that finds nothing.
LEMMA MadeNothing ==
    ASSUME NEW H, Counts(memory, H, H, pkgs), "packages" \notin H
    PROVE  Counts(memory, H \cup {"packages"}, H \cup {"packages"}, <<>>)
<1>1. OwnCounts(memory, H \cup {"packages"}, H \cup {"packages"}, <<>>)
  BY DEF Counts, OwnCounts, One
<1>2. ListedCounts(memory, H \cup {"packages"})
  BY DEF Counts, ListedCounts
<1> QED  BY <1>1, <1>2 DEF Counts

\* cp_settings_new, which made the repositories as well.
LEMMA MadeSettings ==
    ASSUME NEW m, NEW H, ListInv, phase # "main", Counts(m, H, H, pkgs), m.fault = "none",
           m.freed = {}, "settings" \notin H,
           NEW n, n = [m EXCEPT !.refs = [x \in DOMAIN @ |->
                         IF x = The("settings") THEN 1
                         ELSE IF x \in Listed THEN refs[name2repo[x[2]]]
                         ELSE @[x]]]
    PROVE  /\ n.fault = "none" /\ n.freed = {}
           /\ Counts(n, H \cup {"settings"}, H \cup {"settings"}, pkgs)
<1>1. m \in Memories(Blocks) /\ m.refs \in [Blocks -> Nat] /\ DOMAIN m.refs = Blocks
  BY DEF Counts, Blocks, Memories
<1>2. PICK r : r = [x \in Blocks |->
                       IF x = The("settings") THEN 1
                       ELSE IF x \in Listed THEN refs[name2repo[x[2]]] ELSE m.refs[x]]
  OBVIOUS
<1>3. n = [m EXCEPT !.refs = r]
  BY <1>1, <1>2
<1>4. \A k \in DOMAIN name2repo : refs[name2repo[k]] \in {1, 2}
  BY Bases
<1>5. \A k \in DOMAIN name2repo :
         Repository(k) \in Blocks /\ r[Repository(k)] = refs[name2repo[k]]
  BY <1>2, Things, BlocksAre DEF Listed
<1>6. \A p \in {"factory", "atom", "protect", "tree", "package"} : r[The(p)] = m.refs[The(p)]
  BY <1>2, Things, BlocksAre DEF Listed
<1>7. r[The("settings")] = 1
  BY <1>2, BlocksAre
<1>8. r \in [Blocks -> Nat]
  <2>1. \A x \in Blocks : r[x] \in Nat
    BY <1>1, <1>2, <1>4, <1>5 DEF Listed
  <2> QED  BY <1>2, <2>1
<1>9. n \in Memories(Blocks) /\ n.refs = r /\ n.freed = m.freed /\ n.fault = m.fault
  BY ONLY <1>1, <1>3, <1>8, RefsReplaced
<1>10. OwnCounts(n, H \cup {"settings"}, H \cup {"settings"}, pkgs)
  BY <1>6, <1>7, <1>9 DEF Counts, OwnCounts, One
<1>11. ListedCounts(n, H \cup {"settings"})
  <2> SUFFICES ASSUME NEW k \in DOMAIN name2repo
               PROVE  /\ n.refs[Repository(k)] # 0 /\ Repository(k) \notin n.freed
                      /\ n.refs[Repository(k)] = refs[name2repo[k]]
                      /\ n.refs[Repository(k)] \in {1, 2}
    BY DEF ListedCounts
  <2> QED  BY <1>4, <1>5, <1>9
<1> QED  BY <1>9, <1>10, <1>11 DEF Counts, Blocks

\* Whatever is made, in the order of the plan.
LEMMA MadeCounts ==
    ASSUME CommandInv, MemoryInv, Runs, at = "acquire", step <= Len(Acquires), NEW o,
           o = Acquires[step], Obtain(o), NEW n, n = memory', NEW found, found = pkgs'
    PROVE  n.fault = "none" /\ n.freed = {} /\ Counts(n, has \cup {o}, has \cup {o}, found)
<1>1. GoodPlan(Acquires, Releases)
  BY PlansAreGood DEF Runs
<1>2. PICK A : A = Acquires
  OBVIOUS
<1>3. PICK l \in Nat : l = Len(A)
  BY <1>1, <1>2 DEF GoodPlan
<1>4. step \in 1..l
  <2>1. step \in Nat /\ step > 0
    BY DEF CommandInv, PrintedInv
  <2> QED  BY <1>2, <1>3, <2>1
<1>5. \A i \in 1..l : A[i] \in has <=> i < step
  BY <1>2, <1>3 DEF CommandInv, MadeInv
<1>6. o \in Pointers /\ o \notin has
  <2>1. A \in Seq(Pointers)
    BY <1>1, <1>2 DEF GoodPlan
  <2>2. A[step] \in Pointers
    BY <1>3, <1>4, <2>1
  <2>3. A[step] \notin has
    BY <1>4, <1>5
  <2> QED  BY <1>2, <2>2, <2>3
<1>7. Needs(o) \subseteq has
  <2> SUFFICES ASSUME NEW p \in Needs(o) PROVE p \in has
    OBVIOUS
  <2>1. PICK j \in 1..(step - 1) : A[j] = p
    BY <1>1, <1>2, <1>3, <1>4 DEF GoodPlan
  <2>2. j \in 1..l /\ j < step
    BY <1>4, <2>1
  <2> QED  BY <1>5, <2>1, <2>2
<1>8. \A x \in has : Needs(x) \subseteq has
  BY DEF CommandInv, MadeInv
<1>9. memory.fault = "none" /\ memory.freed = {}
  BY DEF MemoryInv
<1>10. Counts(memory, has, has, pkgs)
  <2>1. has \ Given = has
    BY DEF Given
  <2> QED  BY <1>9, <2>1 DEF MemoryInv
<1>11. NextTo(o, has)
  BY <1>6, <1>7, <1>8 DEF NextTo
<1>12. n = Made(o) /\ found \in (IF o = "packages" THEN Answers ELSE {pkgs})
  BY DEF Obtain
<1>13. ListInv /\ phase # "main"
  BY DEF CommandInv, PrintedInv
<1>14. CASE o \in {"factory", "protect"}
  <2>1. n = [memory EXCEPT !.refs[The(o)] = 1] /\ found = pkgs
    BY <1>12, <1>14 DEF Made
  <2>2. Creates(o, o, 1)
    BY <1>14 DEF Creates
  <2> QED  BY ONLY <1>9, <1>10, <1>11, <1>14, <2>1, <2>2, MadeOne
<1>15. CASE o = "atom"
  <2>1. n = [memory EXCEPT !.refs[The("atom")] = 2] /\ found = pkgs
    BY <1>12, <1>15 DEF Made
  <2>2. Creates(o, "atom", 2)
    BY <1>15 DEF Creates
  <2> QED  BY ONLY <1>9, <1>10, <1>11, <1>15, <2>1, <2>2, MadeOne
<1>16. CASE o = "vartree"
  <2>1. n = [memory EXCEPT !.refs[The("package")] = 1] /\ found = pkgs
    BY <1>12, <1>16 DEF Made
  <2>2. Creates(o, "package", 1)
    BY <1>16 DEF Creates
  <2> QED  BY ONLY <1>9, <1>10, <1>11, <1>16, <2>1, <2>2, MadeOne
<1>17. CASE o = "vardb"
  <2>1. n = Ref(memory, The("tree")) /\ found = pkgs
    BY <1>12, <1>17 DEF Made
  <2>2. Shares(o, "tree", found)
    BY <1>17, <2>1 DEF Shares
  <2> QED  BY ONLY <1>9, <1>10, <1>11, <1>17, <2>1, <2>2, MadeReference
<1>18. CASE o = "packages" /\ found = <<>>
  <2>1. n = memory
    BY <1>12, <1>18 DEF Made
  <2> QED  BY <1>6, <1>9, <1>10, <1>18, <2>1, MadeNothing
<1>19. CASE o = "packages" /\ found # <<>>
  <2>1. n = Ref(memory, The("package"))
    BY <1>12, <1>19 DEF Made
  <2>2. Shares(o, "package", found)
    BY <1>19 DEF Shares
  <2> QED  BY ONLY <1>9, <1>10, <1>11, <1>19, <2>1, <2>2, MadeReference
<1>20. CASE o = "settings"
  <2>1. n = [memory EXCEPT !.refs = [x \in DOMAIN @ |->
                IF x = The("settings") THEN 1
                ELSE IF x \in Listed THEN refs[name2repo[x[2]]]
                ELSE @[x]]]
    BY <1>12, <1>20 DEF Made
  <2>2. found = pkgs
    BY <1>12, <1>20
  <2>3. n.fault = "none" /\ n.freed = {}
        /\ Counts(n, has \cup {"settings"}, has \cup {"settings"}, pkgs)
    BY ONLY <1>6, <1>9, <1>10, <1>13, <1>20, <2>1, MadeSettings
  <2> QED  BY <1>20, <2>2, <2>3
<1> QED
  BY <1>6, <1>14, <1>15, <1>16, <1>17, <1>18, <1>19, <1>20 DEF Pointers

-----------------------------------------------------------------------------
\* The counts stay true as long as the repositories stay.
LEMMA SameCounts ==
    ASSUME UNCHANGED <<command, name2repo, refs>>, NEW m, NEW H, NEW P, NEW found,
           Counts(m, H, P, found),
           memory' = m, has' = H, (has \ Given)' = P, pkgs' = found
    PROVE  Counts(memory, has, has \ Given, pkgs)'
<1>1. Own' = Own /\ Listed' = Listed
  BY DEF Own, Listed
<1>2. Lends' = Lends
  BY SamePlan DEF Lends, Asking
<1>3. PICK n, G, Q, f : n = memory' /\ G = has' /\ Q = (has \ Given)' /\ f = pkgs'
  OBVIOUS
<1>4. Counts(n, G, Q, f)
  BY <1>3
<1>5. OwnCounts(n, G, Q, f)'
  BY <1>4 DEF Counts, OwnCounts
<1>6. ListedCounts(n, Q)'
  BY <1>2, <1>4 DEF Counts, ListedCounts
<1>7. Counts(n, G, Q, f)'
  BY <1>1, <1>4, <1>5, <1>6 DEF Counts
<1> QED  BY <1>3, <1>7 DEF Counts, OwnCounts, ListedCounts

\* A known fault stays known.
LEMMA FaultsStay ==
    ASSUME FaultsAreKnown, memory.fault # "none", UNCHANGED <<command, name2repo>>,
           has \subseteq has', retval # Undecided => retval' # Undecided
    PROVE  FaultsAreKnown'
<1>1. IsCmerge' = IsCmerge /\ IsCportageq' = IsCportageq /\ Sub' = Sub /\ Params' = Params
  BY SamePlan
<1>2. CASE IsCmerge /\ "settings" \in has /\ retval # Undecided
  BY <1>1, <1>2 DEF FaultsAreKnown
<1>3. CASE IsCportageq /\ Sub \in PackageQueries \cup {"vdb_path"} /\ retval # Undecided
  BY <1>1, <1>3 DEF FaultsAreKnown
<1>4. CASE IsCportageq /\ Sub = "get_repo_path" /\ \E i \in 2..Len(Params) : Params[i] \in DOMAIN name2repo
  BY <1>1, <1>4 DEF FaultsAreKnown
<1> QED  BY <1>2, <1>3, <1>4 DEF FaultsAreKnown

LEMMA SameFaults ==
    ASSUME FaultsAreKnown, UNCHANGED <<command, memory, name2repo>>,
           has \subseteq has', retval # Undecided => retval' # Undecided
    PROVE  FaultsAreKnown'
<1>1. CASE memory.fault = "none"
  BY <1>1 DEF FaultsAreKnown
<1>2. CASE memory.fault # "none"
  BY <1>2, FaultsStay
<1> QED  BY <1>1, <1>2

\* Which questions need the installed packages.
LEMMA VartreePlans ==
    ASSUME IsCportageq, IsQuestion, NEW i \in 1..Len(Acquires), Acquires[i] = "vartree"
    PROVE  Sub \in PackageQueries \cup {"vdb_path"}
<1>1. Acquires = ThePlan.acquires
  BY DEF Acquires, IsCmerge, IsCportageq
<1>2. ASSUME Sub \notin PackageQueries \cup {"vdb_path"} PROVE FALSE
  <2>1. ThePlan \in {EnvvarPlan, GetReposPlan, GetRepoPathPlan, IsProtectedPlan}
    <3>1. CASE Sub \in LowerVars \cup {"envvar"}
      BY <3>1, LowerVarsAssumption DEF ThePlan, Words, PackageQueries
    <3>2. CASE Sub = "get_repos"
      BY <3>2, LowerVarsAssumption DEF ThePlan, Words, PackageQueries
    <3>3. CASE Sub = "get_repo_path"
      BY <3>3, LowerVarsAssumption DEF ThePlan, Words, PackageQueries
    <3>4. CASE Sub = "is_protected"
      BY <3>4, LowerVarsAssumption DEF ThePlan, Words, PackageQueries
    <3> QED  BY <1>2, <3>1, <3>2, <3>3, <3>4 DEF IsQuestion, Questions, Words
  <2>2. ThePlan.acquires \in {<<"settings">>, <<"settings", "protect">>}
    BY <2>1 DEF EnvvarPlan, GetReposPlan, GetRepoPathPlan, IsProtectedPlan, Plan
  <2> QED  BY <1>1, <2>2
<1> QED  BY <1>2

\* Nothing is left when every pointer has been released.
LEMMA NothingIsLeft ==
    ASSUME NEW m, NEW H, NEW found, Counts(m, H, {}, found)
    PROVE  \A x \in DOMAIN m.refs : m.refs[x] = 0
<1>1. DOMAIN m.refs = Blocks
  BY DEF Counts, Memories, Blocks
<1>2. \A o \in {"factory", "atom", "settings", "protect", "tree", "package"} : m.refs[The(o)] = 0
  BY DEF Counts, OwnCounts, One
<1>3. \A x \in Listed : m.refs[x] = 0
  BY DEF Counts, ListedCounts, Listed
<1> QED  BY <1>1, <1>2, <1>3, BlocksAre

\* What main returns is decided once.
LEMMA DecidedOnce ==
    ASSUME StatusInv, at \in Early
    PROVE  retval = Undecided
BY DEF StatusInv, NothingYet

\* A step that leaves the memory alone.
LEMMA MemoryKept ==
    ASSUME StatusInv, MemoryInv, UNCHANGED <<command, name2repo, refs, has, pkgs, memory>>,
           retval' = retval \/ at \in Early,
           at \in {"args", "acquire", "answer", "release"},
           \/ at' = at /\ step' = step
           \/ at = "args" /\ step = 1 /\ at' \in {"acquire", "release"} /\ step' = step
           \/ at = "acquire" /\ at' \in {"answer", "release"} /\ step' = 1
           \/ at = "answer" /\ at' = "release" /\ step' = 1
           \/ at' = "replaced"
    PROVE  MemoryInv'
<1>1. /\ IsCmerge' = IsCmerge /\ IsCportageq' = IsCportageq /\ Sub' = Sub /\ Params' = Params
      /\ Asking' = Asking /\ Releases' = Releases
  BY SamePlan DEF Asking
<1>2. at \in Early => retval = Undecided
  BY DecidedOnce
<1>3. FaultsAreKnown'
  <2>1. retval # Undecided => retval' # Undecided
    BY <1>2
  <2> QED  BY <2>1, SameFaults DEF MemoryInv
<1>4. at' # "exited"
  OBVIOUS
<1>5. EverythingReleased'
  BY <1>4 DEF EverythingReleased
<1>6. at' \in {"args", "acquire", "answer", "release"} => Given' = Given
  <2>1. CASE at' = at /\ step' = step
    BY <1>1, <2>1 DEF Given
  <2>2. CASE at # "release" /\ at' # "release"
    BY <2>2 DEF Given
  <2>3. CASE at # "release" /\ at' = "release"
    <3>1. step' = 1
      BY <2>3
    <3>2. {i \in {j \in 1..Len(Releases) : j < 1} : TRUE} = {}
      OBVIOUS
    <3> QED  BY <1>1, <2>3, <3>1, <3>2 DEF Given
  <2> QED  BY <2>1, <2>2, <2>3
<1>7. ASSUME at' \in {"args", "acquire", "answer", "release"}, memory'.fault = "none"
      PROVE  Counts(memory, has, has \ Given, pkgs)'
  <2>1. Counts(memory, has, has \ Given, pkgs)
    BY <1>7 DEF MemoryInv
  <2>2. PICK m, H, P, f : m = memory /\ H = has /\ P = has \ Given /\ f = pkgs
    OBVIOUS
  <2>3. Counts(m, H, P, f)
    BY <2>1, <2>2
  <2>4. m = memory' /\ H = has' /\ P = (has \ Given)' /\ f = pkgs'
    BY <1>6, <1>7, <2>2
  <2> QED  BY <2>3, <2>4, SameCounts
<1>8. (at \in {"idle", "args", "acquire"} => memory.fault = "none")'
      /\ (at \in {"args", "acquire"} => memory.freed = {})'
  BY DEF MemoryInv
<1>9. (at = "answer" /\ ~Asking => step = 1)'
  BY <1>1 DEF MemoryInv
<1> QED  BY <1>3, <1>5, <1>7, <1>8, <1>9 DEF MemoryInv

\* One more object.
LEMMA MemoryObtain ==
    ASSUME CommandInv, MemoryInv, Runs, UNCHANGED <<command, name2repo, refs>>,
           at = "acquire", step <= Len(Acquires), NEW o, o = Acquires[step], Obtain(o)
    PROVE  MemoryInv'
<1>1. PICK m, H, f : m = memory' /\ H = has' /\ f = pkgs'
  OBVIOUS
<1>2. at' = "acquire" /\ retval' = retval /\ has' = has \cup {o}
  BY DEF Obtain
<1>3. m.fault = "none" /\ m.freed = {} /\ Counts(m, has \cup {o}, has \cup {o}, f)
  BY <1>1, MadeCounts
<1>4. Counts(m, H, H, f)
  BY <1>1, <1>2, <1>3
<1>5. (has \ Given)' = H
  BY <1>1, <1>2 DEF Given
<1>6. Counts(memory, has, has \ Given, pkgs)'
  BY <1>1, <1>4, <1>5, SameCounts
<1>7. FaultsAreKnown' /\ EverythingReleased'
  BY <1>1, <1>2, <1>3 DEF FaultsAreKnown, EverythingReleased
<1> QED  BY <1>1, <1>2, <1>3, <1>6, <1>7 DEF MemoryInv

\* What could not be made; cp_vartree_new fails on its own tree.
LEMMA MemoryCannot ==
    ASSUME CommandInv, MemoryInv, Runs, UNCHANGED <<command, name2repo, refs>>,
           at = "acquire", step <= Len(Acquires), NEW o, o = Acquires[step],
           NEW status \in 1..255, CannotObtain(o, status)
    PROVE  MemoryInv'
<1>1. /\ retval' = status /\ retval' # Undecided /\ step' = 1 /\ UNCHANGED <<has, pkgs>>
      /\ at' \in {"release", "died"}
  BY DEF CannotObtain, GoOn, Undecided
<1>2. memory.fault = "none" /\ has \ Given = has /\ Counts(memory, has, has, pkgs)
  <2>1. has \ Given = has
    BY DEF Given
  <2> QED  BY <2>1 DEF MemoryInv
<1>3. CASE o # "vartree"
  <2>1. memory' = memory /\ at' = "release"
    BY <1>2, <1>3 DEF CannotObtain, GoOn
  <2>2. retval' = retval \/ at \in Early
    BY DEF Early
  <2> QED  BY <1>1, <2>1, <2>2, MemoryKept DEF CommandInv
<1>4. CASE o = "vartree"
  <2>1. PICK A : A = Acquires
    OBVIOUS
  <2>2. GoodPlan(A, Releases)
    BY <2>1, PlansAreGood DEF Runs
  <2>3. PICK l \in Nat : l = Len(A)
    BY <2>2 DEF GoodPlan
  <2>4. step \in 1..l /\ A[step] = "vartree"
    <3>1. step \in Nat /\ step > 0
      BY DEF CommandInv, PrintedInv
    <3>2. step <= l
      BY <2>1, <2>3
    <3>3. A[step] = "vartree"
      BY <1>4, <2>1
    <3> QED  BY ONLY <2>3, <3>1, <3>2, <3>3
  <2>5. \A i \in 1..l : A[i] \in has <=> i < step
    BY <2>1, <2>3 DEF CommandInv, MadeInv
  <2>6. "settings" \in has
    <3>1. "settings" \in Needs("vartree")
      BY DEF Needs
    <3>2. PICK j \in 1..(step - 1) : A[j] = "settings"
      BY <2>2, <2>3, <2>4, <3>1 DEF GoodPlan
    <3>3. j \in 1..l /\ j < step
      BY <2>4, <3>2
    <3> QED  BY <2>5, <3>2, <3>3
  <2>7. "vardb" \notin has
    <3>1. "vartree" \notin has
      BY <2>4, <2>5
    <3> QED  BY <3>1 DEF CommandInv, MadeInv, Needs
  <2>8. memory' = Unref(memory, The("tree")) /\ memory'.fault # "none"
    <3>1. memory' = Unref(memory, The("tree"))
      BY <1>4 DEF CannotObtain, GoOn
    <3> QED  BY <1>2, <2>7, <3>1, TreeFaults
  <2>9. IsCportageq => Sub \in PackageQueries \cup {"vdb_path"}
    <3>1. IsCportageq => IsQuestion
      BY DEF Runs, IsCmerge, IsCportageq
    <3> QED  BY <2>1, <2>3, <2>4, <3>1, VartreePlans
  <2>10. FaultsAreKnown'
    <3>1. IsCmerge' = IsCmerge /\ IsCportageq' = IsCportageq /\ Sub' = Sub
      BY SamePlan
    <3> QED  BY <1>1, <2>6, <2>9, <3>1 DEF FaultsAreKnown, Runs
  <2> QED  BY <1>1, <2>8, <2>10 DEF MemoryInv, EverythingReleased
<1> QED  BY <1>3, <1>4

\* The releases are given up one by one: what has not been given up yet loses the
\* next pointer, if it was filled.
LEMMA GivesOne ==
    ASSUME CommandInv, Runs, at = "release", at' = "release", UNCHANGED <<command, has>>,
           step <= Len(Releases), step' = step + 1, NEW o, o = Releases[step]
    PROVE  /\ o \notin Given
           /\ (has \ Given)' = (has \ Given) \ {o}
<1>1. GoodPlan(Acquires, Releases)
  BY PlansAreGood DEF Runs
<1>2. PICK R : R = Releases
  OBVIOUS
<1>3. PICK l \in Nat : l = Len(R)
  BY <1>1, <1>2 DEF GoodPlan
<1>4. step \in 1..l /\ o = R[step]
  <2>1. step \in Nat /\ step > 0
    BY DEF CommandInv, PrintedInv
  <2>2. step <= l /\ o = R[step]
    BY <1>2, <1>3
  <2> QED  BY ONLY <1>3, <2>1, <2>2
<1>5. Given = {R[i] : i \in {j \in 1..l : j < step}}
  BY <1>2, <1>3 DEF Given
<1>6. Given' = {R[i] : i \in {j \in 1..l : j < step + 1}}
  <2>1. Releases' = R
    BY <1>2, SamePlan
  <2> QED  BY <1>3, <2>1 DEF Given
<1>7. \A j \in 1..l : j < step + 1 <=> j < step \/ j = step
  BY <1>4
<1>8. Given' = Given \cup {o}
  BY <1>4, <1>5, <1>6, <1>7
<1>9. o \notin Given
  <2>1. \A i, j \in 1..l : R[i] = R[j] => i = j
    BY <1>1, <1>2, <1>3 DEF GoodPlan
  <2>2. ASSUME NEW i \in 1..l, i < step, R[i] = o PROVE FALSE
    <3>1. i = step
      BY <1>4, <2>1, <2>2
    <3> QED  BY <1>4, <2>2, <3>1
  <2> QED  BY <1>5, <2>2
<1> QED  BY <1>8, <1>9

\* The vardb is given up before the vartree.
LEMMA VardbFirst ==
    ASSUME CommandInv, Runs, at = "release", step <= Len(Releases), Releases[step] = "vartree"
    PROVE  "vardb" \notin has \ Given
<1>1. GoodPlan(Acquires, Releases)
  BY PlansAreGood DEF Runs
<1>2. PICK A, R : A = Acquires /\ R = Releases
  OBVIOUS
<1>3. PICK k \in Nat, l \in Nat : k = Len(A) /\ l = Len(R)
  BY <1>1, <1>2 DEF GoodPlan
<1>4. step \in 1..l /\ R[step] = "vartree"
  <2>1. step \in Nat /\ step > 0
    BY DEF CommandInv, PrintedInv
  <2>2. step <= l /\ R[step] = "vartree"
    BY <1>2, <1>3
  <2> QED  BY ONLY <1>3, <2>1, <2>2
<1>5. ASSUME "vardb" \in has PROVE "vardb" \in Given
  <2>1. PICK i \in 1..k : A[i] = "vardb"
    BY <1>2, <1>3, <1>5 DEF CommandInv, MadeInv
  <2>2. PICK j \in 1..l : R[j] = "vardb"
    BY <1>1, <1>2, <1>3, <2>1 DEF GoodPlan
  <2>3. j < step
    BY <1>1, <1>2, <1>3, <1>4, <2>2 DEF GoodPlan
  <2> QED  BY <1>2, <1>3, <2>2, <2>3 DEF Given
<1> QED  BY <1>5

\* In the end everything has been given up.
LEMMA GivesAll ==
    ASSUME CommandInv, Runs, at = "release", step > Len(Releases)
    PROVE  has \ Given = {}
<1>1. GoodPlan(Acquires, Releases)
  BY PlansAreGood DEF Runs
<1>2. PICK A, R : A = Acquires /\ R = Releases
  OBVIOUS
<1>3. PICK k \in Nat, l \in Nat : k = Len(A) /\ l = Len(R)
  BY <1>1, <1>2 DEF GoodPlan
<1>4. step \in Nat /\ step > l
  BY <1>2, <1>3 DEF CommandInv, PrintedInv
<1>5. ASSUME NEW o \in has PROVE o \in Given
  <2>1. PICK i \in 1..k : o = A[i]
    BY <1>2, <1>3 DEF CommandInv, MadeInv
  <2>2. PICK j \in 1..l : R[j] = A[i]
    BY <1>1, <1>2, <1>3, <2>1 DEF GoodPlan
  <2>3. j < step
    BY <1>4
  <2> QED  BY <1>2, <1>3, <2>1, <2>2, <2>3 DEF Given
<1> QED  BY <1>5

\* A fault stays.
LEMMA UnrefKeepsFault ==
    ASSUME NEW m, m.fault # "none"
    PROVE  /\ \A o : Unref(m, o) = m
           /\ \A S : UnrefAll(m, S) = m
<1>1. \A o : Touch(m, o) = m
  BY DEF Touch
<1>2. \A o : Unref(m, o) = m
  BY <1>1 DEF Unref
<1>3. \A S : UnrefAll(m, S) = m
  BY DEF UnrefAll
<1> QED  BY <1>2, <1>3

LEMMA PointerKeepsFault ==
    ASSUME memory.fault # "none", NEW o \in Pointers
    PROVE  UnrefPointer(o) = memory
<1>1. \A x : Unref(memory, x) = memory
  BY UnrefKeepsFault
<1>2. \A x, S : UnrefOwner(memory, x, S) = memory
  BY <1>1 DEF UnrefOwner
<1>3. UnrefSettings(memory) = memory
  BY <1>1, <1>2 DEF UnrefSettings
<1> QED  BY <1>1, <1>2, <1>3 DEF UnrefPointer, Pointers

\* The release of any pointer that was filled.
LEMMA ReleaseOne ==
    ASSUME CommandInv, MemoryInv, Runs, at = "release", step <= Len(Releases), memory.fault = "none",
           NEW o \in Pointers, o = Releases[step], o \in has, o \notin Given,
           NEW P, P = has \ Given, NEW n, n = UnrefPointer(o)
    PROVE  /\ n.fault = "none" => Counts(n, has, P \ {o}, pkgs)
           /\ n.fault # "none" => (o = "settings" /\ Lends) \/ o = "vartree"
<1>1. o \in P /\ P \subseteq has /\ Counts(memory, has, P, pkgs)
  BY DEF MemoryInv
<1>2. CASE o = "factory"
  BY <1>1, <1>2, ReleaseFactory
<1>3. CASE o \in {"atom", "protect"}
  BY <1>1, <1>3, ReleaseSingle
<1>4. CASE o = "packages"
  BY <1>1, <1>4, ReleasePackages
<1>5. CASE o = "vardb"
  <2>1. "vartree" \in has
    BY <1>1, <1>5 DEF CommandInv, MadeInv, Needs
  <2> QED  BY <1>1, <1>5, <2>1, ReleaseVardb
<1>6. CASE o = "vartree"
  <2>1. "vardb" \notin P
    BY <1>6, VardbFirst
  <2> QED  BY <1>1, <1>6, <2>1, ReleaseVartree
<1>7. CASE o = "settings"
  <2>1. ListInv /\ phase # "main"
    BY DEF CommandInv, PrintedInv
  <2> QED  BY <1>1, <1>7, <2>1, ReleaseSettings
<1> QED  BY <1>2, <1>3, <1>4, <1>5, <1>6, <1>7 DEF Pointers

LEMMA MemoryRelease ==
    ASSUME CommandInv, MemoryInv, Runs, UNCHANGED <<name2repo, refs>>, Release(Releases)
    PROVE  MemoryInv'
<1>1. PICK o : o = Releases[step]
  OBVIOUS
<1>2. PICK n : n = memory'
  OBVIOUS
<1>3. /\ at = "release" /\ step <= Len(Releases) /\ at' \in {"release", "died"}
      /\ at' = "died" => n.fault # "none"
      /\ n = UnrefPointer(o) /\ step' = step + 1
      /\ UNCHANGED <<command, has, pkgs, retval>>
  BY <1>1, <1>2 DEF Release, GoOn
<1>4. o \in Pointers
  <2>1. GoodPlan(Acquires, Releases)
    BY PlansAreGood DEF Runs
  <2>2. step \in 1..Len(Releases)
    <3>1. step \in Nat /\ step > 0 /\ Len(Releases) \in Nat
      BY <2>1 DEF CommandInv, PrintedInv, GoodPlan
    <3> QED  BY <1>3, <3>1
  <2> QED  BY <1>1, <2>1, <2>2 DEF GoodPlan
<1>5. EverythingReleased'
  BY <1>3 DEF EverythingReleased
<1>6. CASE memory.fault # "none"
  <2>1. n = memory
    BY <1>3, <1>4, <1>6, PointerKeepsFault
  <2>2. FaultsAreKnown'
    BY <1>3, <1>6, FaultsStay DEF MemoryInv
  <2> QED  BY <1>2, <1>3, <1>5, <1>6, <2>1, <2>2 DEF MemoryInv
<1>7. CASE memory.fault = "none" /\ o \notin has
  <2>1. n = memory /\ at' = "release"
    <3>1. n = memory
      BY <1>3, <1>7 DEF UnrefPointer
    <3> QED  BY <1>3, <1>7, <3>1
  <2>2. (has \ Given)' = has \ Given
    BY <1>1, <1>3, <1>7, <2>1, GivesOne
  <2>3. PICK H, P, f : H = has /\ P = has \ Given /\ f = pkgs
    OBVIOUS
  <2>4. Counts(n, H, P, f)
    BY <1>3, <1>7, <2>1, <2>3 DEF MemoryInv
  <2>5. memory' = n /\ has' = H /\ (has \ Given)' = P /\ pkgs' = f
    BY <1>2, <1>3, <2>2, <2>3
  <2>6. Counts(memory, has, has \ Given, pkgs)'
    BY <1>3, <2>4, <2>5, SameCounts
  <2>7. FaultsAreKnown'
    BY <1>2, <1>7, <2>1 DEF FaultsAreKnown
  <2> QED  BY <1>3, <1>5, <2>1, <2>6, <2>7 DEF MemoryInv
<1>8. CASE memory.fault = "none" /\ o \in has
  <2>1. PICK H, P, f : H = has /\ P = has \ Given /\ f = pkgs
    OBVIOUS
  <2>2. o \notin Given
    <3>1. PICK i \in 1..Len(Releases) : TRUE /\ i = step
      <4>1. Len(Releases) \in Nat /\ step \in Nat /\ step > 0
        BY PlansAreGood DEF Runs, GoodPlan, CommandInv, PrintedInv
      <4> QED  BY <1>3, <4>1
    <3>2. \A j, k \in 1..Len(Releases) : Releases[j] = Releases[k] => j = k
      BY PlansAreGood DEF Runs, GoodPlan
    <3>3. ASSUME NEW j \in 1..Len(Releases), j < step, Releases[j] = o PROVE FALSE
      <4>1. j = step
        BY <1>1, <3>1, <3>2, <3>3
      <4> QED  BY <3>3, <4>1
    <3> QED  BY <1>3, <3>3 DEF Given
  <2>3. /\ n.fault = "none" => Counts(n, H, P \ {o}, f)
        /\ n.fault # "none" => (o = "settings" /\ Lends) \/ o = "vartree"
    BY <1>1, <1>3, <1>4, <1>8, <2>1, <2>2, ReleaseOne
  <2>4. CASE n.fault = "none"
    <3>1. at' = "release"
      BY <1>3, <2>4
    <3>2. memory' = n /\ has' = H /\ (has \ Given)' = P \ {o} /\ pkgs' = f
      BY <1>1, <1>2, <1>3, <2>1, <3>1, GivesOne
    <3>3. Counts(memory, has, has \ Given, pkgs)'
      BY <1>3, <2>3, <2>4, <3>2, SameCounts
    <3>4. FaultsAreKnown'
      BY <2>4, <3>2 DEF FaultsAreKnown
    <3> QED  BY <1>3, <1>5, <3>1, <3>3, <3>4 DEF MemoryInv
  <2>5. CASE n.fault # "none"
    <3>1. /\ IsCmerge' = IsCmerge /\ IsCportageq' = IsCportageq /\ Sub' = Sub /\ Params' = Params
      BY <1>3, SamePlan
    <3>2. retval # Undecided
      <4>1. Decided
        BY <1>3 DEF CommandInv, StatusInv
      <4>2. retval \in 0..255
        BY <4>1 DEF Decided
      <4> QED  BY ONLY <4>2 DEF Undecided
    <3>3. FaultsAreKnown'
      <4>1. CASE o = "settings" /\ Lends
        BY <1>3, <3>1, <4>1 DEF FaultsAreKnown, Lends, Asking
      <4>2. CASE o = "vartree" /\ IsCmerge
        <5>1. "settings" \in has
          BY <1>8, <4>2 DEF CommandInv, MadeInv, Needs
        <5> QED  BY <1>3, <3>1, <3>2, <4>2, <5>1 DEF FaultsAreKnown
      <4>3. CASE o = "vartree" /\ ~IsCmerge
        <5>1. IsCportageq /\ IsQuestion
          BY <4>3 DEF Runs
        <5>2. PICK i \in 1..Len(Acquires) : Acquires[i] = "vartree"
          BY <1>8, <4>3 DEF CommandInv, MadeInv
        <5>3. Sub \in PackageQueries \cup {"vdb_path"}
          BY <5>1, <5>2, VartreePlans
        <5> QED  BY <1>3, <3>1, <3>2, <5>1, <5>3 DEF FaultsAreKnown
      <4> QED  BY <2>3, <2>5, <4>1, <4>2, <4>3
    <3> QED  BY <1>2, <1>3, <1>5, <2>5, <3>3 DEF MemoryInv
  <2> QED  BY <2>4, <2>5
<1> QED  BY <1>6, <1>7, <1>8

\* The end: nothing is left to release.
LEMMA MemoryReport ==
    ASSUME CommandInv, MemoryInv, Runs, UNCHANGED <<name2repo, refs>>, Report(Releases)
    PROVE  MemoryInv'
<1>1. /\ at = "release" /\ step > Len(Releases) /\ at' = "exited"
      /\ UNCHANGED <<command, has, pkgs, retval, memory>>
  BY DEF Report
<1>2. has \ Given = {}
  BY <1>1, GivesAll
<1>3. memory.fault = "none" => \A x \in DOMAIN memory.refs : memory.refs[x] = 0
  <2>1. ASSUME memory.fault = "none" PROVE Counts(memory, has, {}, pkgs)
    BY <1>1, <1>2, <2>1 DEF MemoryInv
  <2> QED  BY <2>1, NothingIsLeft
<1>4. EverythingReleased'
  BY <1>1, <1>3 DEF EverythingReleased
<1>5. FaultsAreKnown'
  BY <1>1, SameFaults DEF MemoryInv
<1> QED  BY <1>1, <1>4, <1>5 DEF MemoryInv

\* The steps all commands of both programs have.
LEMMA MemoryCommon ==
    ASSUME CommandInv, MemoryInv, Runs, UNCHANGED <<name2repo, refs>>, NEW status \in 1..255,
           \/ Acquire(Acquires, status) \/ Acquired(Acquires)
           \/ Release(Releases) \/ Report(Releases)
    PROVE  MemoryInv'
<1>1. CASE Acquire(Acquires, status)
  <2>1. PICK o : o = Acquires[step]
    OBVIOUS
  <2>2. /\ at = "acquire" /\ step <= Len(Acquires) /\ UNCHANGED command
        /\ Obtain(o) \/ CannotObtain(o, status)
    BY <1>1, <2>1 DEF Acquire
  <2> QED  BY <2>1, <2>2, MemoryObtain, MemoryCannot
<1>2. CASE Acquired(Acquires)
  <2>1. /\ at = "acquire" /\ at' = "answer" /\ step' = 1
        /\ UNCHANGED <<command, has, pkgs, memory, retval>>
    BY <1>2 DEF Acquired
  <2> QED  BY <2>1, MemoryKept DEF CommandInv
<1>3. CASE Release(Releases)
  BY <1>3, MemoryRelease
<1>4. CASE Report(Releases)
  BY <1>4, MemoryReport
<1> QED  BY <1>1, <1>2, <1>3, <1>4

\* get_repo_path releases a repository it was lent: the count is too small from
\* then on, or the repository is gone.
LEMMA LentReleased ==
    ASSUME ListInv, phase # "main", NEW m, NEW H, NEW found, NEW name \in DOMAIN name2repo,
           m.fault = "none", Counts(m, H, H, found), Lends, NEW n, n = Unref(m, Repository(name)), n.fault = "none"
    PROVE  Counts(n, H, H, found)
<1>1. PICK r : r = Repository(name)
  OBVIOUS
<1>2. r \in Blocks /\ r \in Listed /\ m \in Memories(Blocks)
  BY <1>1, BlocksAre DEF Counts, Blocks, Listed
<1>3. r \notin m.freed /\ m.refs[r] # 0
  BY <1>1, <1>2, UnrefSucceeds
<1>4. /\ n \in Memories(Blocks)
      /\ n.refs[r] = m.refs[r] - 1
      /\ \A x \in Blocks : x # r => n.refs[x] = m.refs[x]
      /\ \A x \in Blocks : x \in n.freed <=> x \in m.freed \/ (x = r /\ m.refs[r] = 1)
  BY <1>1, <1>2, <1>3, UnrefAt
<1>5. m.refs[r] \in Nat
  BY <1>2 DEF Memories
<1>6. n.refs[r] = 0 <=> m.refs[r] = 1
  BY <1>4, <1>5
<1>7. \A o \in {"factory", "atom", "settings", "protect", "tree", "package"} :
         n.refs[The(o)] = m.refs[The(o)]
  BY <1>1, <1>4, Things, BlocksAre
<1>8. OwnCounts(n, H, H, found)
  BY <1>7 DEF Counts, OwnCounts
<1>9. \A x \in n.freed : n.refs[x] = 0
  <2>1. n.freed \subseteq Blocks
    BY <1>4 DEF Memories
  <2>2. \A x \in m.freed : m.refs[x] = 0
    BY DEF Counts
  <2> QED  BY <1>3, <1>4, <1>6, <2>1, <2>2
<1>10. "settings" \in H
  BY <1>1, <1>3 DEF Counts, ListedCounts
<1>11. ASSUME NEW k \in DOMAIN name2repo
       PROVE  /\ n.refs[Repository(k)] = 0 <=> Repository(k) \in n.freed
              /\ n.refs[Repository(k)] <= refs[name2repo[k]]
  <2>1. /\ m.refs[Repository(k)] = 0 <=> Repository(k) \in m.freed
        /\ m.refs[Repository(k)] <= refs[name2repo[k]]
    BY <1>10 DEF Counts, ListedCounts
  <2>2. Repository(k) \in Blocks
    BY BlocksAre
  <2>3. CASE Repository(k) # r
    BY <1>4, <2>1, <2>2, <2>3
  <2>4. CASE Repository(k) = r
    <3>1. n.refs[r] = 0 <=> r \in n.freed
      BY <1>2, <1>3, <1>4, <1>6
    <3>2. refs[name2repo[k]] \in {1, 2}
      BY Bases
    <3>3. n.refs[r] <= refs[name2repo[k]]
      BY <1>4, <1>5, <2>1, <2>4, <3>2
    <3> QED  BY <2>4, <3>1, <3>3
  <2> QED  BY <2>3, <2>4
<1>12. ListedCounts(n, H)
  BY <1>10, <1>11 DEF ListedCounts
<1> QED  BY <1>4, <1>8, <1>9, <1>12 DEF Counts, Blocks

LEMMA MemoryPath ==
    ASSUME CommandInv, MemoryInv, UNCHANGED <<name2repo, refs>>, PrintRepoPath
    PROVE  MemoryInv'
<1>1. PICK n, name : n = memory' /\ name = Params[step + 1]
  OBVIOUS
<1>2. /\ IsCportageq /\ at = "answer" /\ Sub = "get_repo_path" /\ step < Len(Params)
      /\ at' \in {"answer", "died"}
      /\ at' = "died" => n.fault # "none"
      /\ name \in DOMAIN name2repo => n = Unref(memory, Repository(name))
      /\ name \notin DOMAIN name2repo => n = memory
      /\ UNCHANGED <<command, has, pkgs, retval>>
  BY <1>1 DEF PrintRepoPath, GoOn
<1>3. EverythingReleased'
  BY <1>2 DEF EverythingReleased
<1>4. Asking /\ Asking' /\ Sub' = Sub /\ Params' = Params /\ IsCportageq' = IsCportageq
  <2>1. IsQuestion
    BY <1>2 DEF CommandInv, StatusInv, Asks
  <2> QED  BY <1>2, <2>1, SamePlan DEF Asking
<1>5. name \in DOMAIN name2repo => \E i \in 2..Len(Params) : Params[i] \in DOMAIN name2repo
  <2>1. step \in Nat /\ step > 0 /\ Len(Params) \in Nat
    <3>1. step \in Nat /\ step > 0
      BY DEF CommandInv, PrintedInv
    <3>2. Len(Params) \in Nat
      BY <1>2 DEF CommandInv
    <3> QED  BY <3>1, <3>2
  <2>2. step + 1 \in 2..Len(Params)
    BY <1>2, <2>1
  <2> QED  BY <1>1, <2>2
<1>6. name \in DOMAIN name2repo => Lends
  BY <1>4, <1>5 DEF Lends
<1>7. FaultsAreKnown'
  <2>1. CASE memory.fault # "none"
    BY <1>2, <2>1, FaultsStay DEF MemoryInv
  <2>2. CASE n.fault = "none"
    BY <1>1, <2>2 DEF FaultsAreKnown
  <2>3. CASE memory.fault = "none" /\ n.fault # "none"
    <3>1. name \in DOMAIN name2repo
      BY <1>2, <2>3
    <3> QED  BY <1>2, <1>4, <1>5, <3>1 DEF FaultsAreKnown
  <2> QED  BY <2>1, <2>2, <2>3
<1>8. ASSUME n.fault = "none" PROVE Counts(memory, has, has \ Given, pkgs)'
  <2>1. memory.fault = "none"
    <3>1. CASE memory.fault # "none"
      <4>1. n = memory
        BY <1>2, <3>1, UnrefKeepsFault
      <4> QED  BY <1>8, <4>1
    <3> QED  BY <3>1
  <2>2. PICK H, f : H = has /\ f = pkgs
    OBVIOUS
  <2>3. PICK m : m = memory
    OBVIOUS
  <2>4. has \ Given = H
    BY <1>2, <2>2 DEF Given
  <2>5. Counts(m, H, H, f)
    BY <1>2, <2>1, <2>2, <2>3, <2>4 DEF MemoryInv
  <2>6. ListInv /\ phase # "main"
    BY <1>2 DEF CommandInv, PrintedInv
  <2>7. Counts(n, H, H, f)
    <3>1. CASE name \in DOMAIN name2repo
      <4>1. n = Unref(m, Repository(name)) /\ m.fault = "none"
        BY <1>2, <2>1, <2>3, <3>1
      <4> QED  BY ONLY <1>6, <1>8, <2>5, <2>6, <3>1, <4>1, LentReleased
    <3>2. CASE name \notin DOMAIN name2repo
      BY <1>2, <2>3, <2>5, <3>2
    <3> QED  BY <3>1, <3>2
  <2>8. memory' = n /\ has' = H /\ (has \ Given)' = H /\ pkgs' = f
    BY <1>1, <1>2, <2>2 DEF Given
  <2> QED  BY <1>2, <2>7, <2>8, SameCounts
<1> QED  BY <1>1, <1>2, <1>3, <1>4, <1>7, <1>8 DEF MemoryInv

\* The steps of cportageq.
LEMMA MemoryQuery ==
    ASSUME CommandInv, MemoryInv, Query
    PROVE  MemoryInv'
<1>1. UNCHANGED <<name2repo, refs>>
  BY DEF Query, vars, settings
<1>2. IsCportageq
  BY DEF Query, CportageqStep, Usage, TooFew, Begin, CportageqAnswer, PrintRepoPath, RepoPathsPrinted
<1>3. Acquires = ThePlan.acquires /\ Releases = ThePlan.releases
  BY <1>2 DEF Acquires, Releases, IsCmerge, IsCportageq
<1>4. CASE Usage
  <2>1. at = "args" /\ has = {} /\ UNCHANGED <<command, has, pkgs, memory>> /\ at' = "exited"
        /\ memory.fault = "none"
    BY <1>4 DEF Usage, CommandInv, MadeInv, MemoryInv
  <2>2. Counts(memory, has, {}, pkgs)
    <3>1. has \ Given = {}
      BY <2>1
    <3> QED  BY <2>1, <3>1 DEF MemoryInv
  <2>3. EverythingReleased'
    BY <2>1, <2>2, NothingIsLeft DEF EverythingReleased
  <2>4. FaultsAreKnown'
    BY <2>1 DEF FaultsAreKnown
  <2> QED  BY <2>1, <2>3, <2>4 DEF MemoryInv
<1>5. CASE TooFew \/ Begin
  <2>1. /\ at = "args" /\ step = 1 /\ step' = step /\ at' \in {"acquire", "release"}
        /\ UNCHANGED <<command, has, pkgs, memory>>
    BY <1>5 DEF TooFew, Begin, CommandInv, MadeInv
  <2> QED  BY <1>1, <2>1, MemoryKept DEF Early, CommandInv
<1>6. CASE CportageqAnswer
  <2>1. /\ at = "answer" /\ at' = "release" /\ step' = step
        /\ UNCHANGED <<command, has, pkgs, memory>>
    BY <1>6 DEF CportageqAnswer
  <2>2. ~Asking
    BY <1>6, LowerVarsAssumption DEF CportageqAnswer, Asking, Words, PackageQueries
  <2>3. step = 1
    BY <2>1, <2>2 DEF MemoryInv
  <2> QED  BY <1>1, <2>1, <2>3, MemoryKept DEF Early, CommandInv
<1>7. CASE PrintRepoPath
  BY <1>1, <1>7, MemoryPath
<1>8. CASE RepoPathsPrinted
  <2>1. /\ at = "answer" /\ at' = "release" /\ step' = 1
        /\ UNCHANGED <<command, has, pkgs, memory>>
    BY <1>8 DEF RepoPathsPrinted
  <2> QED  BY <1>1, <2>1, MemoryKept DEF Early, CommandInv
<1>9. CASE IsQuestion /\ (\/ Acquire(ThePlan.acquires, Error) \/ Acquired(ThePlan.acquires)
                         \/ Release(ThePlan.releases) \/ Report(ThePlan.releases))
  <2>1. Error \in 1..255
    BY DEF Error
  <2> QED  BY <1>1, <1>2, <1>3, <1>9, <2>1, MemoryCommon DEF Runs
<1> QED  BY <1>4, <1>5, <1>6, <1>7, <1>8, <1>9 DEF Query, CportageqStep

\* The steps of cmerge.
LEMMA MemoryMerge ==
    ASSUME CommandInv, MemoryInv, Merge
    PROVE  MemoryInv'
<1>1. UNCHANGED <<name2repo, refs>>
  BY DEF Merge, vars, settings
<1>2. IsCmerge /\ Runs /\ Acquires = CmergeAcquires /\ Releases = CmergeReleases /\ ~Asking
  BY MergeIsCmerge DEF Runs, Acquires, Releases, Asking, IsCmerge, IsCportageq
<1>3. CASE ParseOptions
  <2>1. /\ at = "args" /\ step = 1 /\ step' = step /\ at' \in {"acquire", "release"}
        /\ UNCHANGED <<command, has, pkgs, memory>>
    BY <1>3 DEF ParseOptions, CommandInv, MadeInv
  <2> QED  BY <1>1, <2>1, MemoryKept DEF Early, CommandInv
<1>4. CASE AdjustNiceness \/ AdjustIonice
  <2>1. at = "acquire" /\ UNCHANGED <<command, at, step, has, pkgs, memory, retval>>
    BY <1>4 DEF AdjustNiceness, AdjustIonice, Adjusts, process
  <2> QED  BY <1>1, <2>1, MemoryKept DEF CommandInv
<1>5. CASE CmergeAcquire \/ CmergeRelease \/ CmergeReport
  <2>1. 1 \in 1..255
    OBVIOUS
  <2> QED  BY <1>1, <1>2, <1>5, <2>1, MemoryCommon DEF CmergeAcquire, CmergeRelease, CmergeReport
<1>6. CASE InstallOrVersion \/ Help \/ SyncReturns \/ InfoHead \/ InfoSystem \/ InfoLinker
             \/ InfoPackage \/ InfoRepositories \/ InfoVariable \/ InfoEnd
  <2>1. /\ at = "answer" /\ at' \in {"answer", "release", "replaced"}
        /\ UNCHANGED <<command, step, has, pkgs, memory>>
    BY <1>6 DEF InstallOrVersion, Help, SyncReturns, InfoHead, InfoSystem, InfoLinker, InfoPackage,
                InfoRepositories, InfoVariable, InfoEnd, InInfo, Return, Printed, QueryFails
  <2>2. step = 1
    BY <1>2, <2>1 DEF MemoryInv
  <2> QED  BY <1>1, <2>1, <2>2, MemoryKept DEF Early, CommandInv
<1> QED  BY <1>3, <1>4, <1>5, <1>6 DEF Merge, CmergeStep

\* A command starts without an object.
LEMMA MemoryStart ==
    ASSUME CommandInv, MemoryInv, Start
    PROVE  MemoryInv'
<1>1. /\ at' = "args" /\ memory' = NoMemory(Own \cup Listed) /\ UNCHANGED <<name2repo, refs>>
      /\ has' = {}
  BY DEF Start, Invoke, vars, settings, CommandInv, MadeInv
<1>2. PICK r : r = [o \in Blocks |-> 0]
  OBVIOUS
<1>3. r \in [Blocks -> Nat] /\ \A x \in Blocks : r[x] = 0
  BY <1>2
<1>4. PICK n : n = memory'
  OBVIOUS
<1>5. n = [refs |-> r, freed |-> {}, fault |-> "none"]
  BY <1>1, <1>2, <1>4 DEF NoMemory, Blocks
<1>6. n \in Memories(Blocks) /\ n.refs = r /\ n.freed = {} /\ n.fault = "none"
  <2>1. {} \in SUBSET Blocks /\ "none" \in {"none", "freed memory", "assertion"}
    OBVIOUS
  <2> QED  BY ONLY <1>3, <1>5, <2>1, MakeMemory
<1>7. Own' = Own /\ Listed' = Listed
  BY <1>1 DEF Own, Listed
<1>8. Counts(memory, has, has \ Given, pkgs)'
  <2>1. OwnCounts(memory, has, has \ Given, pkgs)'
    BY <1>1, <1>3, <1>4, <1>6, BlocksAre DEF OwnCounts, One
  <2>2. ListedCounts(memory, has \ Given)'
    BY <1>1, <1>3, <1>4, <1>6, BlocksAre DEF ListedCounts
  <2> QED  BY <1>1, <1>4, <1>6, <1>7, <2>1, <2>2 DEF Counts, Blocks
<1> QED  BY <1>1, <1>4, <1>6, <1>8 DEF MemoryInv, FaultsAreKnown, EverythingReleased

LEMMA MemoryStep ==
    ASSUME CommandInv, MemoryInv, [ProgramsNext]_allVars
    PROVE  MemoryInv'
<1>1. CASE Load
  <2>1. at = "idle" /\ UNCHANGED <<at, memory>>
    BY <1>1 DEF Load, process, InitMain, NextOverlay, InitReposDone, CommandInv, PrintedInv
  <2> QED  BY <2>1 DEF MemoryInv, FaultsAreKnown, EverythingReleased
<1>2. CASE Pull \/ UNCHANGED allVars
  <2>1. UNCHANGED <<command, at, step, has, pkgs, memory, retval, name2repo, refs>>
    BY <1>2 DEF Pull, SyncDone, SyncNext, settings, allVars, vars, process
  <2>2. CASE at \in {"args", "acquire", "answer", "release"}
    BY <2>1, <2>2, MemoryKept DEF CommandInv
  <2>3. CASE at \notin {"args", "acquire", "answer", "release"}
    <3>1. FaultsAreKnown' /\ EverythingReleased'
      BY <2>1, SameFaults DEF MemoryInv, EverythingReleased
    <3> QED  BY <2>1, <2>3, <3>1 DEF MemoryInv
  <2> QED  BY <2>2, <2>3
<1>3. CASE Start
  BY <1>3, MemoryStart
<1>4. CASE Query
  BY <1>4, MemoryQuery
<1>5. CASE Merge
  BY <1>5, MemoryMerge
<1> QED  BY <1>1, <1>2, <1>3, <1>4, <1>5 DEF ProgramsNext, Work, Gone

LEMMA MemoryInit == ProgramsInit => MemoryInv
<1> SUFFICES ASSUME ProgramsInit PROVE MemoryInv
  OBVIOUS
<1>1. at = "idle" /\ memory = NoMemory({})
  BY DEF ProgramsInit, ProcessInit
<1>2. memory.fault = "none"
  BY <1>1 DEF NoMemory
<1> QED  BY <1>1, <1>2 DEF MemoryInv, FaultsAreKnown, EverythingReleased

\* A command that ends as it should has released everything, on every path to the
\* label ERR and whatever was made before it (cmerge/main.c:193-197,
\* cportageq/main.c:194-200).
THEOREM AllIsReleased == ProgramsSpec => []EverythingReleased
<1>1. CommandInv /\ MemoryInv /\ [ProgramsNext]_allVars => CommandInv' /\ MemoryInv'
  BY CommandNext, MemoryStep
<1>2. MemoryInv => EverythingReleased
  BY DEF MemoryInv
<1> QED  BY <1>1, <1>2, CommandInit, MemoryInit, PTL DEF ProgramsSpec

\* A command that reads freed memory or releases once too often is one of three
\* kinds: cmerge with settings, whatever its action, once that is decided; match,
\* has_version, best_version or vdb_path of cportageq, once decided; get_repo_path
\* of a name that there is.  The others have no fault, and the first two kinds none
\* before they have their answer (vartree.c:354, 370-376, cportageq/main.c:138-140,
\* 194-200, cmerge/main.c:193-197).
THEOREM NoOtherFaults == ProgramsSpec => []FaultsAreKnown
<1>1. CommandInv /\ MemoryInv /\ [ProgramsNext]_allVars => CommandInv' /\ MemoryInv'
  BY CommandNext, MemoryStep
<1>2. MemoryInv => FaultsAreKnown
  BY DEF MemoryInv
<1> QED  BY <1>1, <1>2, CommandInit, MemoryInit, PTL DEF ProgramsSpec
=============================================================================
