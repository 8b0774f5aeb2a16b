----------------------------- MODULE MCSession -----------------------------
(* Instances of Session for TLC.                                           *)
EXTENDS Session

a == "a"
sp == " "
nl == "\n"
cr == "\r"

Chars == {a, sp, cr}
SmallTemplate == <<<<sp>>>>

\* The text "a" does not compile.
SmallDocs == {<<<<a>>>>, <<<<sp>>>>}
SmallBroken == {<<a, nl>>}
NoBroken == {}

\* No file, a file without a newline at its end, and one that does not compile.
SmallFiles == {Missing, <<sp>>, <<a, nl>>}
NoNewlineFile == {<<sp>>}
OneFile == {<<sp, nl>>}
OneDoc == {<<<<sp>>>>}
=============================================================================
