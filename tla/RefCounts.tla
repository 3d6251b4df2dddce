----------------------------- MODULE RefCounts -----------------------------
(***************************************************************************)
(* The reference counts that every object of the library has: a field refs *)
(* that starts at 1, cp_*_ref and cp_*_unref.  A memory is a record        *)
(*   refs    the count of every object, 0 if it does not exist             *)
(*   freed   the objects whose memory has been given back                  *)
(*   fault   how the program died: "none", "freed memory", "assertion"     *)
(***************************************************************************)
EXTENDS Naturals

\* Whatever reads a freed object.
Touch(m, o) == IF m.fault = "none" /\ o \in m.freed
               THEN [m EXCEPT !.fault = "freed memory"] ELSE m

\* cp_*_ref.
Ref(m, o) ==
    LET n == Touch(m, o) IN
    IF n.fault = "none" THEN [n EXCEPT !.refs[o] = @ + 1] ELSE n

\* cp_*_unref: the assertion, the count, the end.
Unref(m, o) ==
    LET n == Touch(m, o) IN
    IF n.fault # "none" THEN n
    ELSE IF n.refs[o] = 0 THEN [n EXCEPT !.fault = "assertion"]
    ELSE [n EXCEPT !.refs[o] = @ - 1,
                   !.freed = IF n.refs[o] = 1 THEN @ \cup {o} ELSE @]

\* A table is destroyed, and with it one reference to each object of S.
UnrefAll(m, S) ==
    CASE m.fault # "none" -> m
      [] m.fault = "none" /\ S \cap m.freed # {} -> [m EXCEPT !.fault = "freed memory"]
      [] m.fault = "none" /\ S \cap m.freed = {} /\ (\E o \in S : m.refs[o] = 0)
           -> [m EXCEPT !.fault = "assertion"]
      [] OTHER -> [m EXCEPT !.refs = [o \in DOMAIN m.refs |->
                                        IF o \in S THEN m.refs[o] - 1 ELSE m.refs[o]],
                            !.freed = @ \cup {o \in S : m.refs[o] = 1}]
=============================================================================
