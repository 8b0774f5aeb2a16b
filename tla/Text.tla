-------------------------------- MODULE Text --------------------------------
(***************************************************************************)
(* What a text editor promises, with no rows, no columns and no window:    *)
(* the bytes of the program before the point where typing happens and the  *)
(* bytes after it.  Every line ends in a newline.                          *)
(***************************************************************************)
EXTENDS Integers, Sequences

CONSTANTS Char, Space, NL,
          MaxPad   \* bound: the spaces one insertion may add

VARIABLES before, after

text == <<before, after>>

Init == before = <<>> /\ after \in Seq(Char \cup {NL})

Insert(c) == after # <<>> /\ before' = before \o <<c>> /\ UNCHANGED after

\* Below the last line a new line begins, perhaps with spaces, and gets its end.
InsertAtEnd(c) ==
    /\ after = <<>>
    /\ \E n \in 0..MaxPad : before' = before \o [i \in 1..n |-> Space] \o <<c>>
    /\ after' = <<NL>>

Newline == before' = before \o <<NL>> /\ UNCHANGED after

Backspace ==
    /\ before # <<>>
    /\ before' = SubSeq(before, 1, Len(before) - 1)
    /\ UNCHANGED after

MovePoint == before' \o after' = before \o after

Next ==
    \/ \E c \in Char : Insert(c) \/ InsertAtEnd(c)
    \/ Newline
    \/ Backspace
    \/ MovePoint

Spec == Init /\ [][Next]_text
=============================================================================
