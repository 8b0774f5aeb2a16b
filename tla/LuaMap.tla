------------------------------- MODULE LuaMap -------------------------------
(***************************************************************************)
(* What a table of Lua promises a program: it is a map from keys to values. *)
(* TableLibrary implements it.  A traversal with next() meets every field   *)
(* that stays, once, though fields are assigned and cleared on the way; once *)
(* a field is added, nothing is promised of it any more.                     *)
(***************************************************************************)
EXTENDS Integers

CONSTANTS
    Key, Value,     \* what fields and values there may be
    Nil             \* the value of the fields that are not there

VARIABLES
    map,       \* the value of each field
    walk,      \* "on" while a traversal goes on, else "none"
    seen       \* the fields it has met

vars == <<map, walk, seen>>

Fields == {k \in Key : map[k] # Nil}
Index == {k[2] : k \in {q \in Key : q[1] = "number"}}
At(n) == map[<<"number", n>>]

\* The map with new values for the fields of some integers.
Rearranged(new) ==
    [k \in Key |-> IF k[1] = "number" /\ k[2] \in DOMAIN new THEN new[k[2]] ELSE map[k]]

\* An integer such that its field is there, or 0, and the next one is not.
IsBoundary(n) == (n = 0 \/ At(n) # Nil) /\ At(n + 1) = Nil

Lose == walk' = "none" /\ seen' = {}
Keep == UNCHANGED <<walk, seen>>

Assign ==
    \E k \in Key, v \in Value \cup {Nil} :
        /\ map' = [map EXCEPT ![k] = v]
        /\ IF k \in Fields THEN Keep ELSE Lose

\* The last part of a constructor: the values of 1, 2, 3, and so on.
List ==
    /\ \E n \in Index : map' = Rearranged([i \in 1..n |-> map'[<<"number", i>>]])
    /\ Lose

\* table.insert() moves up what is between the place and the end.
Insert ==
    /\ \E pos \in Index, n \in Index, v \in Value :
          /\ n + 1 \in Index /\ IsBoundary(n)
          /\ map' = Rearranged([i \in pos..(n + 1) \cup {pos} |->
                                  IF i = pos THEN v ELSE At(i - 1)])
    /\ Lose

\* table.remove() moves it down.
Remove ==
    \E n \in Index : \E pos \in 1..n :
        /\ n + 1 \in Index /\ IsBoundary(n)
        /\ map' = Rearranged([i \in pos..n |-> IF i = n THEN Nil ELSE At(i + 1)])
        /\ IF \A i \in pos..n : At(i) # Nil THEN Keep ELSE Lose

\* table.sort() exchanges two values.
Exchange ==
    /\ \E i, j \in Index :
          map' = Rearranged([k \in {i, j} |-> IF k = i THEN At(j) ELSE At(i)])
    /\ Keep

StartWalk == walk = "none" /\ walk' = "on" /\ seen' = {} /\ UNCHANGED map
Meet == walk = "on" /\ \E k \in Fields \ seen : seen' = seen \cup {k} /\ UNCHANGED <<map, walk>>
EndWalk == walk = "on" /\ Fields \subseteq seen /\ Lose /\ UNCHANGED map

Init == map = [k \in Key |-> Nil] /\ walk = "none" /\ seen = {}

Next == Assign \/ List \/ Insert \/ Remove \/ Exchange \/ StartWalk \/ Meet \/ EndWalk

Spec == Init /\ [][Next]_vars
=============================================================================
