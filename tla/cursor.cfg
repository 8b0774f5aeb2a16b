\* The cursor and the window: one character, two columns and two rows shown.
SPECIFICATION Spec
CONSTANTS
    Width = 80
    Height = 92
    Char <- Chars
    Space <- sp
    NL <- nl
    CR <- cr
    LineMax = 8
    Template <- SmallTemplate
    Missing = Missing
    Typed <- OneKey
    Files <- CursorFiles
    SaveOutcomes = {"ok"}
    Clicks <- TextClicks
    ErrLines = {}
    MaxRows = 3
    MaxCols = 4
    MaxScroll = 4
INVARIANTS TypeOK RowsConsistent CursorRowInText
PROPERTY CursorLostOnlyBy
CHECK_DEADLOCK FALSE
