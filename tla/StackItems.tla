----------------------------- MODULE StackItems -----------------------------
(***************************************************************************)
(* cp_stack_dict (collections.c) word by word: the reader of a value takes *)
(* one word per step and updates the tree, value after value.  The module  *)
(* is here to justify the closed form of StackValue, which every other     *)
(* module uses.                                                            *)
(***************************************************************************)
EXTENDS StackValue, Naturals

CONSTANTS
    Word,       \* the words a value may hold
    MaxItems    \* bound: the words of all values together

\* One word of a value: "-*", "-w" or "w".
Item == [op: {"wipe"}] \cup [op: {"del", "add"}, word: Word]

VARIABLES
    tree,       \* the tree the calls modify
    taken,      \* how many words have been taken
    before,     \* history: the tree before the first call
    first,      \* history: the closed form of the values already stacked
    text        \* history: the closed form of what was taken of the present one

vars == <<tree, taken, before, first, text>>

\* The closed form of a single word.
ItemValue(i) ==
    CASE i.op = "wipe" -> [Empty EXCEPT !.wipe = TRUE]
      [] i.op = "del"  -> [Empty EXCEPT !.del = {i.word}]
      [] i.op = "add"  -> Concat({i.word})

Init ==
    /\ before \in SUBSET Word
    /\ tree = before
    /\ taken = 0
    /\ first = Empty
    /\ text = Empty

\* StackItem with a bug: "-*" is the removal of a word named "*".
StackItemNoWipe(S, i) ==
    CASE i.op = "wipe" -> S
      [] i.op = "del"  -> S \ {i.word}
      [] i.op = "add"  -> S \cup {i.word}

\* The three branches of the loop body.
StackItem(S, i) ==
    CASE i.op = "wipe" -> {}
      [] i.op = "del"  -> S \ {i.word}
      [] i.op = "add"  -> S \cup {i.word}

TakeItem(i) ==
    /\ taken < MaxItems
    /\ tree' = StackItem(tree, i)
    /\ taken' = taken + 1
    /\ text' = Join(text, ItemValue(i))
    /\ UNCHANGED <<before, first>>

\* The end of a value: the next call, with the same tree.
NextText ==
    /\ text # Empty
    /\ first' = Join(first, text)
    /\ text' = Empty
    /\ UNCHANGED <<tree, taken, before>>

Next == NextText \/ \E i \in Item : TakeItem(i)

Spec == Init /\ [][Next]_vars

-----------------------------------------------------------------------------

\* The closed form is cp_stack_dict: stacking the value of the words taken into
\* the tree gives the tree the loop has built, whatever the order of "-*", "-w"
\* and "w", and the same for a value that is stacked after others as a second
\* USE="foo" is, and for the one text "${USE} foo" (collections.c:122-133).
ClosedForm ==
    /\ tree = Stack(Stack(before, first), text)
    /\ tree = Stack(before, Join(first, text))
=============================================================================
