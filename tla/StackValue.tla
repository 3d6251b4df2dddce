----------------------------- MODULE StackValue -----------------------------
(***************************************************************************)
(* The text of an incremental variable, as cp_stack_dict sees it.          *)
(*                                                                         *)
(* cp_stack_dict walks the words of a value from left to right: "-*"       *)
(* empties the set of words it is stacking into, "-x" removes x and "x"    *)
(* adds it.  Two texts that do the same to every set are the same value    *)
(* here: a value says whether it wipes the set, which words it removes and *)
(* which it adds.  StackItems.tla has the word-by-word definition, and its *)
(* run shows that the two agree.                                           *)
(***************************************************************************)

\* The values whose words are all members of W.
Values(W) == [wipe: BOOLEAN, del: SUBSET W, add: SUBSET W]

\* The text "".
Empty == [wipe |-> FALSE, del |-> {}, add |-> {}]

\* The text concat_keys builds from a set of words: the words, and nothing else.
Concat(S) == [wipe |-> FALSE, del |-> {}, add |-> S]

\* cp_stack_dict: the words of v stacked into the set S.
Stack(S, v) == (IF v.wipe THEN {} ELSE S \ v.del) \cup v.add

\* Join with a bug: what w removes stays added.
JoinKeepsRemoved(v, w) ==
    [wipe |-> v.wipe \/ w.wipe, del |-> v.del \cup w.del, add |-> v.add \cup w.add]

\* The text "v w": what a double-quoted "${X} w" expands to when X is v.
Join(v, w) ==
    [wipe |-> v.wipe \/ w.wipe,
     del  |-> IF w.wipe THEN {} ELSE (v.del \ w.add) \cup w.del,
     add  |-> Stack(v.add, w)]
=============================================================================
