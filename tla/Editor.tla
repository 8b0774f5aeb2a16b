------------------------------- MODULE Editor -------------------------------
(***************************************************************************)
(* The text editor of editor.c: the rows of the program, the cursor and    *)
(* the part of the text the window shows, the dirty flag, the file, and    *)
(* the error the last run of the program left.  One action per operation   *)
(* of the editor; the keys and events that trigger them are not in here.   *)
(*                                                                         *)
(* C indexes rows and columns from 0, sequences start at 1: row i of the   *)
(* code is rows[i + 1].  The colours of the syntax highlighter are         *)
(* abstracted to one class, HL_SYNTAX, told apart from HL_ERROR only.      *)
(***************************************************************************)
EXTENDS Window, ProgramFile

CONSTANTS
    Missing,       \* the content of a file that does not exist
    Typed,         \* the characters the keyboard sends
    Files,         \* what the program file may hold when load81 starts
    SaveOutcomes,  \* how a save may end: "ok", "open_failed", "short_write"
    Clicks,        \* the mouse clicks <<x, y, button>> that may happen
    ErrLines,      \* the rows programError() may report
    MaxRows,       \* bound: rows of the text
    MaxCols,       \* bound: characters of a row
    MaxScroll      \* bound: columns a join may leave the window scrolled by

HL_SYNTAX == "syntax"
HL_ERROR == "error"
HL == {HL_SYNTAX, HL_ERROR}

ASSUME EditorAssumption ==
    /\ Missing \notin Bytes
    /\ Typed \subseteq Char
    /\ Files \subseteq Bytes \cup {Missing}
    /\ SaveOutcomes \subseteq {"ok", "open_failed", "short_write"}
    /\ Clicks \subseteq (0..Width - 1) \X (0..Height - 1) \X Nat
    /\ ErrLines \subseteq Int
    /\ MaxRows \in Nat
    /\ MaxCols \in Nat
    /\ MaxScroll \in Nat

VARIABLES
    rows,            \* E.row: the rows of the text
    cx, cy,          \* E.cx, E.cy: the cursor, in cells of the window
    rowoff, coloff,  \* E.rowoff, E.coloff: the first row and column shown
    dirty,           \* E.dirty # 0
    err, errline,    \* E.err # NULL, E.errline
    disk,            \* the bytes of the file E.filename
    status,          \* "running", "exited", or "fault" (see OutOfRow)
    torn             \* history: the last save wrote a part of the text

cursor == <<cx, cy>>
window == <<rowoff, coloff>>
vars == <<rows, cx, cy, rowoff, coloff, dirty, err, errline, disk, status, torn>>

Row == [size : Nat, chars : Line, hl : Seq(HL)]

-----------------------------------------------------------------------------
(* Operations on one row.                                                  *)

\* The bug class the highlighter invites: one cell too few is recoloured.
editorUpdateSyntax_Short(row) ==
    [row EXCEPT !.hl = [i \in 1..row.size - 1 |-> HL_SYNTAX]]

\* The scanner that follows the memset() only overwrites colours with others, none of
\* which is the colour of an error.
editorUpdateSyntax(row) ==
    [row EXCEPT !.hl = [i \in 1..row.size |-> HL_SYNTAX]]

NewRow(s) == editorUpdateSyntax([size |-> Len(s), chars |-> s, hl |-> <<>>])

Blanks(n) == [i \in 1..n |-> Space]

\* Past the end of the row the gap is filled with spaces.
editorRowInsertChar(row, at, c) ==
    IF at > row.size
    THEN LET padlen == at - row.size
         IN  editorUpdateSyntax([row EXCEPT !.chars = @ \o Blanks(padlen) \o <<c>>,
                                            !.size = @ + padlen + 1])
    ELSE editorUpdateSyntax([row EXCEPT !.chars = InsertAt(@, at + 1, c),
                                        !.size = @ + 1])

editorRowAppendString(row, s) ==
    editorUpdateSyntax([row EXCEPT !.chars = @ \o s, !.size = @ + Len(s)])

\* The column is not compared with the size of the row.
editorRowDelChar_Unguarded(row, at) ==
    [editorUpdateSyntax(row) EXCEPT
        !.chars = [i \in 1..row.size - 1 |-> @[IF i <= at THEN i ELSE i + 1]],
        !.size = @ - 1]

\* hl is computed before size is decremented: one entry more than characters
\* until the caller calls editorUpdateSyntax() again.
editorRowDelChar(row, at) ==
    IF row.size <= at
    THEN row
    ELSE LET moved == editorUpdateSyntax([row EXCEPT !.chars = RemoveAt(@, at + 1)])
         IN  [moved EXCEPT !.size = @ - 1]

\* The old row keeps what was moved to the new one.
RowCut_None(row, at) == row

\* The row cut at a column by editorInsertNewline().
RowCut(row, at) ==
    editorUpdateSyntax([row EXCEPT !.chars = SubSeq(@, 1, at), !.size = at])

-----------------------------------------------------------------------------
(* Operations on the rows.                                                 *)

\* No row can be added below the last one.
editorInsertRow_NotBelow(rs, at, s) ==
    IF at >= Len(rs) THEN rs ELSE InsertAt(rs, at + 1, NewRow(s))

editorInsertRow(rs, at, s) ==
    IF at > Len(rs) THEN rs ELSE InsertAt(rs, at + 1, NewRow(s))

editorDelRow(rs, at) ==
    IF at >= Len(rs) THEN rs ELSE RemoveAt(rs, at + 1)

\* The rows editorInsertChar() works on: empty rows are added until row
\* "at" exists.
RowsUpTo(rs, at) ==
    rs \o [i \in 1..(at + 1 - Len(rs)) |-> NewRow(<<>>)]

TextOf(rs) == [i \in DOMAIN rs |-> rs[i].chars]

RowsOf(lines) == [i \in DOMAIN lines |-> NewRow(lines[i])]

numrows == Len(rows)
filerow == rowoff + cy
filecol == coloff + cx
RowLen(i) == IF i < numrows THEN rows[i + 1].size ELSE 0

Running == status = "running"

-----------------------------------------------------------------------------
(* initEditor() and editorOpen().  Every editorInsertRow() increments      *)
(* dirty, which editorOpen() resets before it reads the file and not after.*)

LinesOf(f) == IF f = Missing THEN Template ELSE editorOpenLines(f)

Init ==
    /\ disk \in Files
    /\ rows = RowsOf(LinesOf(disk))
    /\ dirty = (LinesOf(disk) # <<>>)
    /\ cx = 0 /\ cy = 0
    /\ rowoff = 0 /\ coloff = 0
    /\ err = FALSE /\ errline = 0
    /\ status = "running"
    /\ torn = FALSE

-----------------------------------------------------------------------------
(* Editing.  The bounds MaxRows and MaxCols guard the steps that make the  *)
(* text grow.  A column left of the row is no index: those steps are       *)
(* OutOfRow, below.                                                        *)

editorInsertChar(c) ==
    /\ Running
    /\ filecol >= 0
    /\ filerow < MaxRows /\ filecol < MaxCols /\ RowLen(filerow) < MaxCols
    /\ rows' = [RowsUpTo(rows, filerow) EXCEPT
                   ![filerow + 1] = editorRowInsertChar(@, filecol, c)]
    /\ dirty' = TRUE
    /\ \/ /\ cx = ScreenCols - 1
          /\ coloff' = coloff + 1
          /\ UNCHANGED cx
       \/ /\ cx # ScreenCols - 1
          /\ cx' = cx + 1
          /\ UNCHANGED coloff
    /\ UNCHANGED <<cy, rowoff, err, errline, disk, status, torn>>

\* The rows after a newline at a column of row "at".
RowsSplit(rs, at, col) ==
    LET rest == SubSeq(rs[at + 1].chars, col + 1, rs[at + 1].size)
    IN  [editorInsertRow(rs, at + 1, rest) EXCEPT ![at + 1] = RowCut(@, col)]

editorInsertNewline ==
    LET at == IF filerow = numrows \/ filecol >= RowLen(filerow)
              THEN RowLen(filerow) ELSE filecol
    IN  /\ Running
        /\ filerow <= numrows
        /\ filerow < numrows => filecol >= 0
        /\ numrows < MaxRows
        /\ rows' = IF at = 0 THEN editorInsertRow(rows, filerow, <<>>)
                             ELSE RowsSplit(rows, filerow, at)
        /\ dirty' = TRUE
        /\ \/ /\ cy = ScreenRows - 1
              /\ rowoff' = rowoff + 1
              /\ UNCHANGED cy
           \/ /\ cy # ScreenRows - 1
              /\ cy' = cy + 1
              /\ UNCHANGED rowoff
        /\ cx' = 0
        /\ coloff' = 0
        /\ UNCHANGED <<err, errline, disk, status, torn>>

\* Column ScreenCols taken for one that is shown.
JoinShift_OffByOne(x) == IF x > ScreenCols THEN ScreenCols - x + 1 ELSE 0

\* editorDelChar() in column 0: the row moves to the end of the previous one.
\* When that end is not shown, shift is what the code computes to scroll.
JoinShift(x) == IF x >= ScreenCols THEN ScreenCols - x + 1 ELSE 0

RowsJoined(rs, at) ==
    editorDelRow([rs EXCEPT ![at] = editorRowAppendString(@, rs[at + 1].chars)], at)

DelCharJoin ==
    LET end == RowLen(filerow - 1)
    IN  /\ Running
        /\ filecol = 0
        /\ 0 < filerow /\ filerow < numrows
        /\ end + RowLen(filerow) <= MaxCols
        /\ coloff + JoinShift(end) \in (0 - MaxScroll)..MaxScroll
        /\ rows' = RowsJoined(rows, filerow)
        /\ dirty' = TRUE
        /\ \/ cy = 0 /\ rowoff' = rowoff - 1 /\ UNCHANGED cy
           \/ cy # 0 /\ cy' = cy - 1 /\ UNCHANGED rowoff
        /\ cx' = end - JoinShift(end)
        /\ coloff' = coloff + JoinShift(end)
        /\ UNCHANGED <<err, errline, disk, status, torn>>

\* editorDelChar() past column 0.
DelCharInRow ==
    /\ Running
    /\ filecol > 0
    /\ filerow < numrows
    /\ rows' = [rows EXCEPT ![filerow + 1] =
                   editorUpdateSyntax(editorRowDelChar(@, filecol - 1))]
    /\ dirty' = TRUE
    /\ \/ cx = 0 /\ coloff # 0 /\ coloff' = coloff - 1 /\ UNCHANGED cx
       \/ ~(cx = 0 /\ coloff # 0) /\ cx' = cx - 1 /\ UNCHANGED coloff
    /\ UNCHANGED <<cy, rowoff, err, errline, disk, status, torn>>

-----------------------------------------------------------------------------
(* Moving the cursor.  Left of the row nothing stops it: the bound here is *)
(* one column (filecol >= 0 before the step).                              *)

\* The end of editorMoveCursor(): the cursor goes to x, y in a window at
\* ro, co, and back into the row when the row is shorter.
PutCursor(x, y, ro, co) ==
    LET over == (co + x) - RowLen(ro + y)
    IN  /\ cy' = y
        /\ rowoff' = ro
        /\ cx' = IF over <= 0 THEN x ELSE IF x < over THEN 0 ELSE x - over
        /\ coloff' = IF over > 0 /\ x < over THEN co + (x - over) ELSE co
        /\ Running
        /\ UNCHANGED <<rows, dirty, err, errline, disk, status, torn>>

MoveLeft ==
    /\ filecol >= 0
    /\ \/ cx = 0 /\ coloff # 0 /\ PutCursor(cx, cy, rowoff, coloff - 1)
       \/ cx # 0 /\ PutCursor(cx - 1, cy, rowoff, coloff)

MoveRight ==
    /\ filerow < numrows /\ filecol < RowLen(filerow)
    /\ \/ cx = ScreenCols - 1 /\ PutCursor(cx, cy, rowoff, coloff + 1)
       \/ cx # ScreenCols - 1 /\ PutCursor(cx + 1, cy, rowoff, coloff)

MoveUp ==
    \/ cy = 0 /\ rowoff # 0 /\ PutCursor(cx, cy, rowoff - 1, coloff)
    \/ cy # 0 /\ PutCursor(cx, cy - 1, rowoff, coloff)

MoveDown ==
    /\ filerow < numrows
    /\ \/ cy = ScreenRows - 1 /\ PutCursor(cx, cy, rowoff + 1, coloff)
       \/ cy # ScreenRows - 1 /\ PutCursor(cx, cy + 1, rowoff, coloff)

\* An arrow key that cannot move the cursor still puts it back into its row.
MoveNowhere ==
    /\ \/ cx = 0 /\ coloff = 0
       \/ ~(filerow < numrows /\ filecol < RowLen(filerow))
       \/ cy = 0 /\ rowoff = 0
       \/ filerow >= numrows
    /\ PutCursor(cx, cy, rowoff, coloff)

-----------------------------------------------------------------------------
(* editorMouseClicked(): the power-off button, the save icon, the text.    *)
(* A click anywhere else, or below the text, changes nothing.              *)

ClickPowerOff(x, y, button) ==
    /\ Running
    /\ OnPowerOff(x, y, button)
    /\ status' = "exited"
    /\ UNCHANGED <<rows, cx, cy, rowoff, coloff, dirty, err, errline, disk, torn>>

\* The flag is cleared whether or not the file could be opened.
WriteFile_Unchecked(buf) ==
    /\ \/ "ok" \in SaveOutcomes /\ disk' = buf
       \/ "open_failed" \in SaveOutcomes /\ UNCHANGED disk
    /\ dirty' = FALSE
    /\ torn' = FALSE

\* fwrite() and fclose() are not checked: a short write counts as a save.
WriteFile(buf) ==
    \/ /\ "ok" \in SaveOutcomes
       /\ disk' = buf
       /\ dirty' = FALSE
       /\ torn' = FALSE
    \/ /\ "short_write" \in SaveOutcomes
       /\ \E n \in 0..Len(buf) - 1 : disk' = SubSeq(buf, 1, n)
       /\ dirty' = FALSE
       /\ torn' = TRUE
    \/ /\ "open_failed" \in SaveOutcomes
       /\ UNCHANGED <<disk, dirty, torn>>

editorSave ==
    /\ WriteFile(editorRowsToString(TextOf(rows)))
    /\ UNCHANGED <<rows, cx, cy, rowoff, coloff, err, errline, status>>

ClickSave(x, y, button) ==
    /\ Running
    /\ ~OnPowerOff(x, y, button)
    /\ OnSaveIcon(x, y, button)
    /\ editorSave

ClickText(x, y, button) ==
    LET row == ClickedRow(y)
        col == ClickedCol(x)
        r == rowoff + row
        size == RowLen(r)
    IN  /\ Running
        /\ ~OnPowerOff(x, y, button) /\ ~OnSaveIcon(x, y, button)
        /\ InTextArea(x, y)
        /\ r <= numrows
        /\ cy' = row
        /\ cx' = IF r = numrows THEN 0
                 ELSE IF coloff + col >= size THEN size - coloff ELSE col
        /\ UNCHANGED <<rows, rowoff, coloff, dirty, err, errline, disk, status, torn>>

-----------------------------------------------------------------------------
(* editorSetError() and editorClearError(), called by load81.c between two *)
(* sessions of the editor.                                                 *)

RowInError(row) == [row EXCEPT !.hl = [i \in 1..row.size |-> HL_ERROR]]

editorSetError(line) ==
    /\ Running
    /\ line >= 0
    /\ err' = TRUE
    /\ errline' = line
    /\ rows' = IF line < numrows
               THEN [rows EXCEPT ![line + 1] = RowInError(@)] ELSE rows
    /\ UNCHANGED <<cx, cy, rowoff, coloff, dirty, disk, status, torn>>

editorClearError ==
    /\ Running
    /\ err' = FALSE
    /\ errline' = 0
    /\ rows' = IF err /\ errline < numrows
               THEN [rows EXCEPT ![errline + 1] = editorUpdateSyntax(@)] ELSE rows
    /\ UNCHANGED <<cx, cy, rowoff, coloff, dirty, disk, status, torn>>

-----------------------------------------------------------------------------
(* What the code does with an index left of the row, or of the array of    *)
(* rows, is undefined: memory it does not own is read or written.  The     *)
(* model stops there, in status "fault".                                   *)

Fault ==
    /\ Running
    /\ status' = "fault"
    /\ UNCHANGED <<rows, cx, cy, rowoff, coloff, dirty, err, errline, disk, torn>>

\* editorInsertChar() left of the row it finds or adds, editorInsertNewline() and
\* editorDelChar() left of the row they find.
EditOutOfRow == filecol < 0 /\ Fault

\* editorDrawChars() reads the characters from column coloff on.
DrawOutOfRow == coloff < 0 /\ rowoff < numrows /\ Fault

\* editorSetError() with a negative line: E.row[-1].
SetErrorOutOfRows(line) == line < 0 /\ Fault

-----------------------------------------------------------------------------
Move == MoveLeft \/ MoveRight \/ MoveUp \/ MoveDown \/ MoveNowhere

editorDelChar == DelCharJoin \/ DelCharInRow

editorMouseClicked(x, y, button) ==
    \/ ClickPowerOff(x, y, button)
    \/ ClickSave(x, y, button)
    \/ ClickText(x, y, button)

OutOfRow ==
    \/ EditOutOfRow
    \/ DrawOutOfRow
    \/ \E line \in ErrLines : SetErrorOutOfRows(line)

Next ==
    \/ \E c \in Typed : editorInsertChar(c)
    \/ editorInsertNewline
    \/ editorDelChar
    \/ Move
    \/ \E click \in Clicks : editorMouseClicked(click[1], click[2], click[3])
    \/ \E line \in ErrLines : editorSetError(line)
    \/ editorClearError
    \/ OutOfRow

Spec == Init /\ [][Next]_vars

-----------------------------------------------------------------------------
(* Properties.                                                             *)

\* The variables have their types.
TypeOK ==
    /\ rows \in Seq(Row)
    /\ cx \in Int /\ cy \in Int
    /\ rowoff \in Int /\ coloff \in Int
    /\ dirty \in BOOLEAN
    /\ err \in BOOLEAN /\ errline \in Int
    /\ disk \in Bytes \cup {Missing}
    /\ status \in {"running", "exited", "fault"}
    /\ torn \in BOOLEAN

\* The three parts of a row agree: its size is the length of its text, and the
\* highlighter has a colour for each character, so that editorDrawChars() may
\* index both up to size.
RowsConsistent ==
    \A i \in DOMAIN rows :
        Len(rows[i].chars) = rows[i].size /\ Len(rows[i].hl) = rows[i].size

\* The cursor is on a row of the text or on the empty line below the last one,
\* and the window never starts before the first row: whatever is typed, joined,
\* scrolled or clicked, editorInsertChar() has to add one row at most and the
\* early return of editorInsertNewline() is never taken.
CursorRowInText == rowoff >= 0 /\ cy >= 0 /\ filerow <= numrows

\* When the editor says there is nothing to save, the file holds the text, but
\* for a write that ended short.
CleanMeansSaved == ~dirty /\ ~torn => disk = editorRowsToString(TextOf(rows))

\* A save the disk had no room for keeps the beginning of the text: opened again,
\* the file gives the first lines as they were and perhaps a part of one more,
\* never a line of an older text.
ShortSaveKeepsBeginning ==
    ~dirty /\ (\A i \in DOMAIN rows : rows[i].size < LineMax - 1) =>
        /\ disk # Missing
        /\ LET again == editorOpenLines(disk)
           IN  \A i \in DOMAIN again :
                   /\ i \in DOMAIN rows
                   /\ IsPrefix(again[i], rows[i].chars)
                   /\ i < Len(again) => again[i] = rows[i].chars

\* A text that is saved and opened again is the same text, whatever was typed,
\* split or joined since and whatever line ends the file had at first, provided
\* its rows are shorter than the buffer of editorOpen() less one character.
SavedTextReopens ==
    (\A i \in DOMAIN rows : rows[i].size < LineMax - 1) =>
        editorOpenLines(editorRowsToString(TextOf(rows))) = TextOf(rows)

\* The cursor is on a cell of the window, and not past the end of its row.
CursorInWindow ==
    /\ 0 <= cx /\ cx < ScreenCols
    /\ 0 <= cy /\ cy < ScreenRows
    /\ rowoff >= 0 /\ coloff >= 0
    /\ filerow < numrows => filecol <= RowLen(filerow)

\* The three ways to lose the cursor: joining a row to one that ends more than
\* a column right of the window; clicking below the last full row of the
\* window; clicking a row that ends left of the window, or a column of pixels
\* right of the last full one.
LongJoin == DelCharJoin /\ RowLen(filerow - 1) > ScreenCols

ClickBelowRows(x, y, button) == ClickText(x, y, button) /\ ClickedRow(y) >= ScreenRows

ClickBesideRow(x, y, button) ==
    /\ ClickText(x, y, button)
    /\ \/ RowLen(rowoff + ClickedRow(y)) < coloff
       \/ ClickedCol(x) >= ScreenCols

LosesCursor ==
    \/ LongJoin
    \/ \E click \in Clicks :
          \/ ClickBelowRows(click[1], click[2], click[3])
          \/ ClickBesideRow(click[1], click[2], click[3])

\* No other step takes the cursor out of the window: typing, splitting, moving,
\* scrolling and deleting keep the cursor visible and in its row.
CursorLostOnlyBy == [][CursorInWindow /\ ~CursorInWindow' => LosesCursor]_vars

\* "Column offset on screen" (editor.h): the window never starts left of the text.
ColoffNotNegative == coloff >= 0

\* "Cursor x ... position in characters" (editor.h): a column of the window.
CursorColNotNegative == cx >= 0

\* "Error line to highlight if err != NULL" (editor.h): without an error no row
\* has the colour of an error.
NoErrorNoHighlight ==
    ~err => \A i \in DOMAIN rows : \A j \in DOMAIN rows[i].hl : rows[i].hl[j] # HL_ERROR
=============================================================================
