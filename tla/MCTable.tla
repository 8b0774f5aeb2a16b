------------------------------ MODULE MCTable ------------------------------
(* Instances of TableLibrary for TLC.                                      *)
EXTENDS TableLibrary, TLC

\* Strings and an object, some of which collide in every hash part.
StringA == <<"string", "a">>
StringB == <<"string", "b">>
Object == <<"object", 1>>

\* The two words of a number in the format of IEEE 754, added up.
NumberWords == <<1072693248, 1073741824, 1074266112, 1074790400,
                 1075052544, 1075314688, 1075576832, 1075838976,
                 1075970048, 1076101120, 1076232192, 1076363264,
                 1076494336, 1076625408, 1076756480, 1076887552, 1076953088>>

Keys == {Number(n) : n \in 0..6} \cup {StringA, StringB, Object}
Hashes == [k \in Keys \cup {Number(n) : n \in 7..17} |->
    CASE k = Number(0) -> 0
      [] k = StringA -> 3
      [] k = StringB -> 7
      [] k = Object -> 9
      [] OTHER -> NumberWords[k[2]]]

Values == 1..5
Vals(f) == f @@ [k \in Keys |-> {}]

\* Fields added, changed and cleared in any order, and traversals.
Fields ==
    [can |-> {"assign", "pairs"}, narray |-> 0, nhash |-> 0, lists |-> {}, order |-> "<",
     vals |-> Vals(Number(1) :> {1, Nil} @@ Number(2) :> {2, Nil} @@ StringA :> {3, Nil}
                   @@ StringB :> {4, Nil} @@ Object :> {5, Nil})]

\* A sequence, built by a constructor with fields of its own.
Sequence ==
    [can |-> {"assign", "list", "insert", "remove"}, narray |-> 0, nhash |-> 1, order |-> "<",
     lists |-> {<<1>>, <<1, 2, 3>>},
     vals |-> Vals(Number(1) :> {1} @@ Number(2) :> {2, Nil} @@ Number(4) :> {3, Nil})]

\* Lists of values to sort, with "<" or with a function that answers anything.
Sorting(lists, order) ==
    [can |-> {"list", "sort"}, narray |-> 0, nhash |-> 0, vals |-> Vals(<< >>),
     lists |-> lists, order |-> order]

AllPrograms == {Fields, Sequence, Sorting([1..5 -> 1..3], "<"), Sorting([1..2 -> 1..2], "<"),
                Sorting({<<2, 3, 1, 4>>}, "any")}
=============================================================================
