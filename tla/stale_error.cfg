\* The colour of an error that is gone.
SPECIFICATION Spec
CONSTANTS
    Width = 80
    Height = 92
    Char <- Chars
    Space <- sp
    NL <- nl
    CR <- cr
    LineMax = 8
    Template <- SmallTemplate
    Missing = Missing
    Typed <- OneKey
    Files <- ErrFiles
    SaveOutcomes = {"ok"}
    Clicks <- NoClicks
    ErrLines = {0, 1}
    MaxRows = 3
    MaxCols = 2
    MaxScroll = 3
INVARIANT NoErrorNoHighlight
CHECK_DEADLOCK FALSE
