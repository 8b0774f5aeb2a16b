------------------------------ MODULE MCInput ------------------------------
(* Instances of Input for TLC.                                             *)
EXTENDS Input, TLC

CONSTANTS k1, k2, k3

\* Keys that differ in nothing but their names.
Keys == {k1, k2, k3}
Alike == Permutations(Keys)

\* Keys, and one SDL does not know.
KeysAndUnknown == {k1, k2, NoKey}
=============================================================================
