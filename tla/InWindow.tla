------------------------------ MODULE InWindow ------------------------------
(***************************************************************************)
(* As long as the cursor stays in the window, the editor of editor.c is    *)
(* the plain text editor of TextEditor: rowoff and coloff only say which   *)
(* part of the text is shown, and the row and column of the cursor in the  *)
(* text are its cell of the window moved by them.                          *)
(***************************************************************************)
EXTENDS Editor

InWindowSpec == Init /\ [][Next /\ CursorInWindow']_vars

\* Scrolling, padding, splitting and joining in the window do to the text what
\* the same operations do without a window, and leave the cursor at the same
\* place of the text.
Plain == INSTANCE TextEditor WITH
    doc <- TextOf(rows), row <- filerow, col <- filecol, Docs <- Seq(Line)

ImplementsTextEditor == Plain!Spec

\* Through the window and its offsets, a key adds or removes exactly one byte at the
\* point, between the bytes before the cursor and those after it.
ImplementsText == Plain!ImplementsText
=============================================================================
