------------------------- MODULE InstalledPackages -------------------------
(***************************************************************************)
(* What a client of the vartree may rely on, whatever the mode: what is    *)
(* known of a category never changes once it is known, and an answer is    *)
(* the ordered list of the packages known that match.                      *)
(***************************************************************************)
EXTENDS Naturals, Sequences, Functions

CONSTANTS
    Categories,
    AllPackages,    \* [name, ver]
    Queries,        \* [cat, name, matching, ascending]
    Unknown         \* nothing is known of a category yet

VARIABLES
    known,      \* [category -> Unknown or set of packages]
    reply       \* the last answer: [ok, list, query]

state == <<known, reply>>

Init ==
    /\ known = [c \in Categories |-> Unknown]
    /\ reply.ok /\ reply.list = <<>>

Learned(c) ==
    /\ known[c] = Unknown
    /\ known'[c] # Unknown
    /\ known'[c] \in SUBSET AllPackages
    /\ known' = [known EXCEPT ![c] = known'[c]]

Learn == UNCHANGED reply /\ \E c \in Categories : Learned(c)

\* The list has just these versions, each once, in the order asked for.
Lists(list, versions, ascending) ==
    /\ Range(list) = versions
    /\ \A i, j \in DOMAIN list :
          i < j => IF ascending THEN list[i] < list[j] ELSE list[i] > list[j]

Matching(packages, q) == {v \in q.matching : [name |-> q.name, ver |-> v] \in packages}

\* An answer, for which the category may have had to be read; a category that
\* is not there has no packages, and may be there later.
Answer ==
    LET q == reply'.query IN
    /\ q \in Queries
    /\ Learned(q.cat) \/ UNCHANGED known
    /\ reply'.ok
    /\ Lists(reply'.list,
             IF known'[q.cat] = Unknown THEN {} ELSE Matching(known'[q.cat], q),
             q.ascending)

\* A category that cannot be read stays unknown.
Refuse ==
    /\ ~reply'.ok
    /\ known[reply'.query.cat] = Unknown
    /\ UNCHANGED known

Next == Learn \/ Answer \/ Refuse

Spec == Init /\ [][Next]_state
=============================================================================
