----------------------- MODULE RepositoriesProperties -----------------------
(***************************************************************************)
(* What init_repos and the sync action promise.                            *)
(***************************************************************************)
EXTENDS Repositories

Objects == [id: Nat, path: Paths]

RepositoriesTypeOK ==
    /\ phase \in {"main", "overlays", "ready", "stopped"}
    /\ words \in Seq(Paths) /\ overlay \in Seq(Paths)
    /\ repos \in Seq(Objects)
    /\ DOMAIN refs \subseteq Objects /\ \A o \in DOMAIN refs : refs[o] \in Nat
    /\ \A n \in DOMAIN name2repo : name2repo[n] \in Objects
    /\ Len(pulls) <= Len(repos)
    /\ result.retval \in Nat

\* The list and the table hold the same repositories, each found under its own
\* name, so that no repository hides another one; and every object that was made
\* has as many references as the settings have pointers to it that they will
\* release, and is freed if that is none (settings.c:298-331, 479-482).
ListAndTableAgree ==
    /\ Range(name2repo) = Range(repos)
    /\ \A i \in DOMAIN repos : name2repo[NameOf(repos[i].path)] = repos[i]
    /\ \A i, j \in DOMAIN repos : i # j => NameOf(repos[i].path) # NameOf(repos[j].path)
    /\ \A o \in DOMAIN refs :
          refs[o] = Cardinality({n \in DOMAIN name2repo : name2repo[n] = o})
                      + IF o = repos[1] THEN 1 ELSE 0

\* The words that make a repository: directories whose name neither PORTDIR nor
\* an earlier directory has.
Kept ==
    {i \in DOMAIN fs.overlays :
        LET p == fs.overlays[i]
            earlier == {fs.overlays[j] : j \in 1..(i - 1)} \cap fs.dirs
        IN p \in fs.dirs /\ \A q \in earlier \cup {MainPath} : NameOf(q) # NameOf(p)}

\* PORTDIR first, then the overlays in the order of PORTDIR_OVERLAY; of those
\* with one name the first; and the new PORTDIR_OVERLAY lists just these.  A
\* load with that value makes the same repositories (settings.c:308-344).
FirstOfANameWins ==
    phase \in {"ready", "stopped"} =>
        /\ overlay = [n \in 1..Cardinality(Kept) |->
                        fs.overlays[CHOOSE i \in Kept :
                                      Cardinality({j \in Kept : j < i}) = n - 1]]
        /\ [n \in DOMAIN repos |-> repos[n].path] = <<MainPath>> \o overlay

\* The repositories are pulled in the order of the list, one after the other as
\* long as the calls report success, each at most once; and the action fails
\* exactly with an error set, as main asserts (sync_action.c:32-37,
\* cmerge/main.c:200-204).
PullsFollowTheList ==
    /\ \A i \in DOMAIN pulls :
          /\ pulls[i].repo = repos[i]
          /\ i < Len(pulls) => Sync(pulls[i].outcome) = Success
    /\ result.error <=> result.retval # 0
    /\ phase = "stopped" /\ ~result.error => Len(pulls) = Len(repos)

\* cportage.h:196: "EXIT_SUCCESS on success, other value if an error occurred":
\* the action succeeds if and only if every git pull has exited with 0.
PullsAreReported ==
    phase = "stopped" =>
        (result = Success <=>
            /\ Len(pulls) = Len(repos)
            /\ \A i \in DOMAIN pulls : pulls[i].outcome = [kind |-> "exited", code |-> 0])
=============================================================================
