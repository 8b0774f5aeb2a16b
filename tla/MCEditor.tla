------------------------------ MODULE MCEditor ------------------------------
(* Instances of Editor for TLC.                                            *)
EXTENDS Editor

\* One pixel for each thing a click can mean: the cells of the window (the upper
\* left one of each, y grows upwards), the strip
\* below the last full row, the save icon and the power-off button, the latter
\* with another button too.
CellClicks ==
    {<<Margin + FONT_KERNING * c, Height - Margin - 1 - FONT_HEIGHT * r, 1>> :
        c \in 0..ScreenCols - 1, r \in 0..ScreenRows - 1}
StripClicks == {<<Margin, Margin, 1>>}
SaveClick == {<<Width - Margin - 13, Height - 16, 1>>}
PowerOffClicks == {<<Width - 18, 18, 1>>, <<Width - Margin - 1, Margin, 1>>}

TextClicks == CellClicks \cup StripClicks
SaveClicks == SaveClick \cup PowerOffClicks
NoClicks == {}

a == "a"
sp == " "
nl == "\n"
cr == "\r"

OneKey == {sp}
TwoKeys == {a, sp}
Chars == {a, sp, cr}
SmallTemplate == <<<<sp>>>>

\* An empty file, and two lines of which the second is longer than the window.
CursorFiles == {<<>>, <<sp, nl, sp, sp, sp, sp, nl>>}
SaveFiles == {Missing, <<a, cr, nl, sp>>}
\* programError() reports row -1 when the message has no line number.
BadErrLines == {-1, 0}
ErrFiles == {<<a, nl, a, nl>>}
=============================================================================
