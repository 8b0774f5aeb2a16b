\* The main loop: loading, playing, failing, saving, editing, restarting.
SPECIFICATION FairSpec
CONSTANTS
    Char <- Chars
    Space <- sp
    NL <- nl
    CR <- cr
    LineMax = 4
    Template <- SmallTemplate
    Missing = Missing
    Docs <- SmallDocs
    Broken <- SmallBroken
    Files <- SmallFiles
    SaveOutcomes = {"ok", "open_failed", "short_write"}
    Rates = {60}
    MaxQueue = 2
INVARIANTS ModeConsistent PlayedTextIsShown
PROPERTIES BrokenNeverAutosaved PlayedIsSaved EscSwitchesMode
