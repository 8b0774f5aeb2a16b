----------------------------- MODULE TextEditor -----------------------------
(***************************************************************************)
(* The editor without its window: the lines of the program and the row and *)
(* column of the cursor.  What each operation of editor.c means for the    *)
(* text, whatever part of it is shown.                                     *)
(***************************************************************************)
EXTENDS ProgramFile

CONSTANTS Docs,      \* the texts that may be opened
          MaxRows, MaxCols   \* bounds: rows, characters of a row

VARIABLES doc,       \* the lines
          row, col   \* the cursor, from 0; row = Len(doc) is the empty line below

editor == <<doc, row, col>>

LineAt(i) == IF i < Len(doc) THEN doc[i + 1] ELSE <<>>

Init == doc \in Docs /\ row = 0 /\ col = 0

Padding(n) == [i \in 1..n |-> Space]

\* The line with a character put at a column, which may be past its end.
Spliced(line, at, c) ==
    IF at > Len(line) THEN line \o Padding(at - Len(line)) \o <<c>>
    ELSE SubSeq(line, 1, at) \o <<c>> \o SubSeq(line, at + 1, Len(line))

Insert(c) ==
    /\ row < MaxRows /\ col < MaxCols /\ Len(LineAt(row)) < MaxCols
    /\ doc' = [(IF row = Len(doc) THEN Append(doc, <<>>) ELSE doc) EXCEPT
                 ![row + 1] = Spliced(@, col, c)]
    /\ col' = col + 1
    /\ UNCHANGED row

SplitAt(line, at) == <<SubSeq(line, 1, at), SubSeq(line, at + 1, Len(line))>>

NewlineBelow ==
    /\ row = Len(doc)
    /\ doc' = Append(doc, <<>>)

NewlineInText ==
    /\ row < Len(doc)
    /\ doc' = SubSeq(doc, 1, row) \o SplitAt(doc[row + 1], col)
                                 \o SubSeq(doc, row + 2, Len(doc))

Newline ==
    /\ Len(doc) < MaxRows
    /\ NewlineBelow \/ NewlineInText
    /\ row' = row + 1
    /\ col' = 0

Join ==
    /\ row < Len(doc) /\ row > 0 /\ col = 0
    /\ Len(LineAt(row - 1)) + Len(LineAt(row)) <= MaxCols
    /\ doc' = SubSeq(doc, 1, row - 1) \o <<doc[row] \o doc[row + 1]>>
                                     \o SubSeq(doc, row + 2, Len(doc))
    /\ row' = row - 1
    /\ col' = Len(doc[row])

Delete ==
    /\ row < Len(doc) /\ col > 0
    /\ doc' = [doc EXCEPT ![row + 1] = SubSeq(@, 1, col - 1)
                                         \o SubSeq(@, col + 1, Len(@))]
    /\ col' = col - 1
    /\ UNCHANGED row

\* The cursor goes to a row and a column, or to the end of the row.
Goto(r, c) ==
    /\ row' = r
    /\ col' = IF c > Len(LineAt(r)) THEN Len(LineAt(r)) ELSE c
    /\ UNCHANGED doc

Left == col > 0 /\ Goto(row, col - 1)
Right == row < Len(doc) /\ col < Len(LineAt(row)) /\ Goto(row, col + 1)
Up == row > 0 /\ Goto(row - 1, col)
Down == row < Len(doc) /\ Goto(row + 1, col)
Stay == Goto(row, col)

\* The mouse puts the cursor in a row; below the text it may leave it in any column.
Place ==
    /\ row' \in 0..Len(doc) /\ col' \in Nat
    /\ row' < Len(doc) => col' <= Len(doc[row' + 1])
    /\ UNCHANGED doc

Next ==
    \/ \E c \in Char : Insert(c)
    \/ Newline
    \/ Join \/ Delete
    \/ Left \/ Right \/ Up \/ Down \/ Stay
    \/ Place

Spec == Init /\ [][Next]_editor

-----------------------------------------------------------------------------
\* Every operation on lines is one on the bytes before and after the cursor, and
\* those bytes together are the ones a save writes: a newline adds one byte, a
\* backspace in a row or between two rows removes one, moving changes none.
Point == INSTANCE Text WITH
    before <- editorRowsToString(SubSeq(doc, 1, row)) \o SubSeq(LineAt(row), 1,
                  IF col > Len(LineAt(row)) THEN Len(LineAt(row)) ELSE col),
    after <- SubSeq(editorRowsToString(doc),
                 Len(editorRowsToString(SubSeq(doc, 1, row))) + 1
                   + (IF col > Len(LineAt(row)) THEN Len(LineAt(row)) ELSE col),
                 Len(editorRowsToString(doc))),
    MaxPad <- MaxCols

ImplementsText == Point!Spec
=============================================================================
