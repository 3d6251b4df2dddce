----------------------------- MODULE ExitStatus -----------------------------
(***************************************************************************)
(* What whoever runs cmerge or cportageq sees of it, and all that a script *)
(* may rely on: one verdict, a message for a failure and only for that,    *)
(* and a status that follows from the verdict.  A process may vanish at    *)
(* any time without a status; nothing else of it is visible then.          *)
(***************************************************************************)
EXTENDS Naturals

CONSTANT NoStatus

VARIABLES
    verdict,    \* "none", "yes", "no", "failure": has_version may answer no
    told,       \* messages about a failure
    status      \* the exit status

seen == <<verdict, told, status>>

Init ==
    /\ verdict = "none"
    /\ told = 0
    /\ status = NoStatus

\* What was asked for has been done, or the answer is no.
Answer(v) ==
    /\ verdict = "none"
    /\ verdict' = v
    /\ UNCHANGED <<told, status>>

\* A failure may be told at once.
Fail ==
    /\ verdict = "none"
    /\ verdict' = "failure"
    /\ told' \in {told, told + 1}
    /\ UNCHANGED status

\* The last message and the exit.
Exit ==
    /\ verdict # "none"
    /\ status = NoStatus
    /\ UNCHANGED verdict
    /\ told' = IF verdict = "failure" THEN 1 ELSE 0
    /\ told' >= told
    /\ status' \in Nat
    /\ status' = 0 <=> verdict = "yes"

\* A command line that asks for nothing: the usage, and a status in one step.
Usage ==
    /\ verdict = "none"
    /\ verdict' \in {"yes", "failure"}
    /\ status' = IF verdict' = "yes" THEN 0 ELSE 2
    /\ UNCHANGED told

Next == Answer("yes") \/ Answer("no") \/ Fail \/ Exit \/ Usage

Spec == Init /\ [][Next]_seen
=============================================================================
