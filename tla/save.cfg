\* Saving: what the file holds, with a disk that may be full.
SPECIFICATION Spec
CONSTANTS
    Width = 80
    Height = 92
    Char <- Chars
    Space <- sp
    NL <- nl
    CR <- cr
    LineMax = 4
    Template <- SmallTemplate
    Missing = Missing
    Typed <- OneKey
    Files <- SaveFiles
    SaveOutcomes = {"ok", "open_failed", "short_write"}
    Clicks <- SaveClicks
    ErrLines <- BadErrLines
    MaxRows = 2
    MaxCols = 2
    MaxScroll = 3
INVARIANTS CleanMeansSaved ShortSaveKeepsBeginning SavedTextReopens
CHECK_DEADLOCK FALSE
