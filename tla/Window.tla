------------------------------- MODULE Window -------------------------------
(***************************************************************************)
(* The geometry of the editor window: how many rows and columns of text    *)
(* initEditor() decides the window can show, and what editorMouseClicked() *)
(* makes of a pixel.  Pixels have their origin at the left bottom corner:  *)
(* the event loop flips y before it calls the handler.                     *)
(***************************************************************************)
EXTENDS Integers

CONSTANTS Width,   \* --width, in pixels
          Height   \* --height, in pixels

\* main() passes the same margin for the four sides.
Margin == 30
FONT_KERNING == 10
FONT_HEIGHT == 16

\* Room for one character cell.  parseOptions() does not enforce it: a smaller
\* window has no row or no column to put the cursor on.
ASSUME WindowAssumption ==
    /\ Width \in Nat /\ Width >= 2 * Margin + FONT_KERNING
    /\ Height \in Nat /\ Height >= 2 * Margin + FONT_HEIGHT

ScreenCols == (Width - 2 * Margin) \div FONT_KERNING
ScreenRows == (Height - 2 * Margin) \div FONT_HEIGHT

LOCAL Near(a, b) == a - b < 15 /\ b - a < 15

OnPowerOff(x, y, button) == Near(x, Width - 18) /\ Near(y, 18) /\ button = 1

OnSaveIcon(x, y, button) ==
    Near(x, Width - Margin - 13) /\ Near(y, Height - 16) /\ button = 1

InTextArea(x, y) ==
    /\ Margin <= x /\ x <= Width - 1 - Margin
    /\ Margin <= y /\ y <= Height - 1 - Margin

\* The cell of the screen under a pixel of the text area.
ClickedRow(y) ==
    LET realheight == Height - 2 * Margin
        realy == y - Margin
    IN  (realheight - realy) \div FONT_HEIGHT

ClickedCol(x) == (x - Margin) \div FONT_KERNING
=============================================================================
