---------------------------- MODULE MCCoroutine ----------------------------
(* Instances of LuaCoroutine for TLC.                                      *)
EXTENDS LuaCoroutine

\* Coroutines are alike.
Alike == Permutations(Co)

Values == {"function", "thread", "true", "false", "error", "x", "y"}
AllLists == {<< >>, <<"y", "x">>}
ManyResults == {<< >>, <<"x", "x", "x", "x">>}
=============================================================================
