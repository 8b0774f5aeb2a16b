----------------------------- MODULE MCInWindow -----------------------------
(* Instances of InWindow for TLC.                                          *)
EXTENDS InWindow, MCEditor

\* Two lines of which the second is longer than the window.
InWindowFiles == {<<>>, <<a, nl, a, a, a, nl>>}
=============================================================================
