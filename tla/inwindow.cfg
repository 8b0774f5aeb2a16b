\* The window moved away: two columns and two rows of a larger text are shown.
SPECIFICATION InWindowSpec
CONSTANTS
    Width = 80
    Height = 92
    Char <- Chars
    Space <- sp
    NL <- nl
    CR <- cr
    LineMax = 8
    Template <- SmallTemplate
    Missing = Missing
    Typed <- TwoKeys
    Files <- InWindowFiles
    SaveOutcomes = {"ok"}
    Clicks <- TextClicks
    ErrLines = {}
    MaxRows = 3
    MaxCols = 3
    MaxScroll = 3
PROPERTIES ImplementsTextEditor ImplementsText
CHECK_DEADLOCK FALSE
