---------------------------- MODULE TableLibrary ----------------------------
(***************************************************************************)
(* A program and one of its tables: fields assigned and cleared, traversals, *)
(* the collector passing between any two operations, and the table library  *)
(* (ltablib.c), whose sort() calls the program back for each comparison.    *)
(***************************************************************************)
EXTENDS LuaTable

CONSTANTS
    Key, Value,    \* the keys and the values there may be
    Programs,      \* what programs do: see ProgramAssumption
    MaxLength,     \* bound: values of a sequence that grows, moves or is sorted
    MaxAsked       \* bound: comparisons by a function that answers anything

Operation == {"assign", "list", "pairs", "insert", "remove", "sort"}

\* A program assigns vals[k] to field k; its table is made for some fields; its
\* comparison function is "<", or answers anything.
ASSUME KeyAssumption ==
    /\ \A k \in Key : /\ k \in DOMAIN Hash /\ Hash[k] \in Nat
                      /\ k = <<k[1], k[2]>> /\ (IsInteger(k) => k[2] \in Int)
                      /\ k # Nil /\ Dead(k) # Nil /\ Dead(k) \notin Key
    /\ Nil \notin Value /\ MaxLength \in 1..(MAX_INT - 2) /\ MaxAsked \in Nat
    /\ \A n \in 0..(MaxLength + 1) : Number(n) \in Key

ASSUME ProgramAssumption ==
    \A p \in Programs :
        /\ p.vals \in [Key -> SUBSET (Value \cup {Nil})]
        /\ p.narray \in Nat /\ p.nhash \in Nat /\ p.can \subseteq Operation
        /\ p.lists \subseteq Seq(Value) /\ \A list \in p.lists : Len(list) <= MaxLength
        /\ p.order \in {"<", "any"} /\ (p.order = "<" => Value \subseteq Int)

VARIABLES
    program,
    t,         \* the table
    walk,      \* a traversal with next(): "none", "on" or "invalid key"; the table is
               \* at first in its "constructor"
    at,        \* the control variable of the traversal
    seen,      \* history: the keys next() returned
    call,      \* the call of sort() that goes on; history: the comparisons it asked for,
               \* the nils it was given
    map        \* history: what luaH_get() finds in the table for each key

vars == <<program, t, walk, at, seen, call, map>>
walking == <<walk, at, seen>>

May(op) == op \in program.can
NoCall == [pc |-> "none"]
Positions == {k[2] : k \in {q \in Key : IsInteger(q)}}
rawgeti(h, n) == luaH_getnum(h, n)
Content(h) == [k \in Key |-> luaH_get(h, k)]
Recorded == map' = Content(t')

Init ==
    /\ program \in Programs
    /\ t = luaH_new(program.narray, program.nhash)
    /\ walk = "constructor" /\ at = Nil /\ seen = {} /\ call = NoCall
    /\ map = Content(t)

-----------------------------------------------------------------------------
(* Fields.                                                                 *)

\* A program that adds a field gives up its traversal, as the manual asks.
Abandon(added) ==
    IF added /\ walk # "constructor" THEN walk' = "none" /\ at' = Nil /\ seen' = {}
    ELSE UNCHANGED walking

\* lua_rawset(); an assignment of nil to a field that is not there makes it, too.
lua_rawset ==
    /\ May("assign") /\ call = NoCall
    /\ \E k \in Key : \E v \in program.vals[k] :
          /\ t' = Assigned(t, k, v)
          /\ Abandon(luaH_get(t, k) = Nil)
    /\ UNCHANGED <<program, call>> /\ Recorded

Listed(h, list) ==
    LET n == Len(list)
        table[i \in 0..n] ==
            IF i = 0 THEN h ELSE rawseti(table[i - 1], n + 1 - i, list[n + 1 - i])
    IN  table[n]

\* OP_SETLIST: the table gets an array part for all the values, the last goes in first.
SetList ==
    /\ May("list") /\ walk = "constructor"
    /\ \E list \in program.lists :
          LET n == Len(list)
              resized == IF n > sizearray(t) THEN luaH_resizearray(t, n) ELSE t
          IN  t' = Listed(resized, list)
    /\ walk' = "none"
    /\ UNCHANGED <<program, at, seen, call>> /\ Recorded

\* traversetable() of the collector: the keys of the fields that are nil die.
Dies(node) == node.val = Nil /\ node.key # Nil /\ iscollectable(node.key)
Collected(h) ==
    [h EXCEPT !.node = [n \in DOMAIN h.node |->
        IF Dies(h.node[n]) THEN [h.node[n] EXCEPT !.key = Dead(@)] ELSE h.node[n]]]

removeentry ==
    /\ t' = Collected(t)
    /\ UNCHANGED <<program, walking, call>> /\ Recorded

\* luaB_pairs(), luaB_next(), and foreach(), which drives a traversal itself.
luaB_pairs ==
    /\ May("pairs") /\ walk \in {"constructor", "none"} /\ call = NoCall
    /\ walk' = "on" /\ at' = Nil /\ seen' = {}
    /\ UNCHANGED <<program, t, call, map>>

lua_next ==
    /\ walk = "on"
    /\ LET k == luaH_next(t, at)
       IN  IF InvalidKey(t, at) THEN walk' = "invalid key" /\ UNCHANGED <<at, seen>>
           ELSE IF k = Nil THEN walk' = "none" /\ at' = Nil /\ seen' = {}
           ELSE at' = k /\ seen' = seen \cup {k} /\ UNCHANGED walk
    /\ UNCHANGED <<program, t, call, map>>

-----------------------------------------------------------------------------
(* insert() and remove().                                                  *)

Copied(h, from, to) == rawseti(h, to, rawgeti(h, from))
MovedUp(h, pos, e) ==
    LET table[i \in 0..(e - pos)] ==
            IF i = 0 THEN h ELSE Copied(table[i - 1], e - i, e - i + 1)
    IN  table[e - pos]
MovedDown(h, pos, e) ==
    LET table[i \in 0..(e - pos)] ==
            IF i = 0 THEN h ELSE Copied(table[i - 1], pos + i, pos + i - 1)
    IN  table[e - pos]

\* Without a position the place is the end; a position beyond it makes the end.
tinsert ==
    /\ May("insert") /\ call = NoCall
    /\ LET e == luaH_getn(t) + 1
       IN  \E pos \in Positions \cap (1..(e + 1)) : \E v \in program.vals[Number(pos)] \ {Nil} :
              /\ e <= MaxLength
              /\ t' = rawseti(MovedUp(t, pos, Max({pos, e})), pos, v)
    /\ Abandon(TRUE)
    /\ UNCHANGED <<program, call>> /\ Recorded

tremove ==
    /\ May("remove") /\ call = NoCall
    /\ LET e == luaH_getn(t)
       IN  \E pos \in 1..e :
              /\ e <= MaxLength
              /\ t' = rawseti(MovedDown(t, pos, e), e, Nil)
              /\ Abandon(\E i \in pos..e : rawgeti(t, i) = Nil)
    /\ UNCHANGED <<program, call>> /\ Recorded

-----------------------------------------------------------------------------
(* sort().  auxsort() runs from one comparison, x < y, to the next; the     *)
(* intervals of the calls and loops that wait are on the stack.             *)

set2(i, x, j, y) == t' = rawseti(rawseti(t, i, x), j, y)

Goto(pc) == call' = [call EXCEPT !.pc = pc]

\* The comparison x < y comes next.
Asking(pc, x, y) == [call EXCEPT !.pc = pc, !.x = x, !.y = y, !.asked = @ + 1]

sort ==
    /\ May("sort") /\ call = NoCall /\ walk = "none" /\ luaH_getn(t) <= MaxLength
    /\ call' = [pc |-> "while", n |-> luaH_getn(t), l |-> 1, u |-> luaH_getn(t), i |-> 0,
                j |-> 0, P |-> Nil, x |-> Nil, y |-> Nil, ai |-> Nil, stack |-> << >>, asked |-> 0,
                holes |-> {k \in 1..luaH_getn(t) : rawgeti(t, k) = Nil}]
    /\ UNCHANGED <<program, t, walking, map>>

auxsort_While ==
    /\ call.pc = "while"
    /\ IF call.l < call.u
       THEN call' = Asking("first", rawgeti(t, call.u), rawgeti(t, call.l))
       ELSE Goto("end")
    /\ UNCHANGED t

auxsort_Return ==
    /\ call.pc = "end"
    /\ IF call.stack = << >> THEN Goto("returned")
       ELSE call' = [call EXCEPT !.pc = "while", !.l = Head(call.stack)[1],
                                 !.u = Head(call.stack)[2], !.stack = Tail(@)]
    /\ UNCHANGED t

\* a[u] < a[l]?
OutOfOrder(b) ==
    LET i == (call.l + call.u) \div 2
    IN  /\ call.pc = "first"
        /\ IF b THEN set2(call.l, call.x, call.u, call.y) ELSE UNCHANGED t
        /\ IF call.u - call.l = 1 THEN Goto("end")
           ELSE call' = [Asking("middle", rawgeti(t', i), rawgeti(t', call.l)) EXCEPT !.i = i]

AfterMedian == Goto(IF call.u - call.l = 2 THEN "end" ELSE "pivot")

\* a[i] < a[l]?
BelowLow(b) ==
    /\ call.pc = "middle"
    /\ IF b THEN set2(call.i, call.y, call.l, call.x) /\ AfterMedian
       ELSE call' = Asking("last", rawgeti(t, call.u), call.x) /\ UNCHANGED t

\* a[u] < a[i]?
AboveHigh(b) ==
    /\ call.pc = "last"
    /\ IF b THEN set2(call.i, call.x, call.u, call.y) ELSE UNCHANGED t
    /\ AfterMedian

\* ++i and --j, and the next comparison with the pivot.
Up(i, P) == [Asking("up", rawgeti(t', i), P) EXCEPT !.i = i, !.P = P]
Down(j) == [Asking("down", call.P, rawgeti(t, j)) EXCEPT !.j = j]

Pivot ==
    LET P == rawgeti(t, call.i)
    IN  /\ call.pc = "pivot"
        /\ set2(call.i, rawgeti(t, call.u - 1), call.u - 1, P)
        /\ call' = [Up(call.l + 1, P) EXCEPT !.j = call.u - 1]

\* a[i] < P?
GoUp(b) ==
    /\ call.pc = "up"
    /\ UNCHANGED t
    /\ IF ~b THEN call' = [Down(call.j - 1) EXCEPT !.ai = call.x]
       ELSE IF call.i > call.u THEN Goto("error")
       ELSE call' = Up(call.i + 1, call.P)

\* P < a[j]?
GoDown(b) ==
    /\ call.pc = "down"
    /\ IF b
       THEN /\ UNCHANGED t
            /\ IF call.j < call.l THEN Goto("error") ELSE call' = Down(call.j - 1)
       ELSE IF call.j < call.i THEN UNCHANGED t /\ Goto("split")
       ELSE /\ set2(call.i, call.y, call.j, call.ai)
            /\ call' = Up(call.i + 1, call.P)

\* Mutant: the part below the pivot without its last value.
Split_ShortPart ==
    LET i == call.i
        lower == <<call.l, i - 2>>
        upper == <<i + 1, call.u>>
        Sorted(now, later) ==
            call' = [call EXCEPT !.pc = "while", !.l = now[1], !.u = now[2],
                                 !.stack = <<later>> \o @]
    IN  /\ call.pc = "split"
        /\ set2(call.u - 1, rawgeti(t, i), i, rawgeti(t, call.u - 1))
        /\ IF i - call.l < call.u - i THEN Sorted(lower, upper) ELSE Sorted(upper, lower)

\* Mutant: the larger part is sorted by the call.
Split_LargerFirst ==
    LET i == call.i
        lower == <<call.l, i - 1>>
        upper == <<i + 1, call.u>>
        Sorted(now, later) ==
            call' = [call EXCEPT !.pc = "while", !.l = now[1], !.u = now[2],
                                 !.stack = <<later>> \o @]
    IN  /\ call.pc = "split"
        /\ set2(call.u - 1, rawgeti(t, i), i, rawgeti(t, call.u - 1))
        /\ IF i - call.l < call.u - i THEN Sorted(upper, lower) ELSE Sorted(lower, upper)

\* The smaller part is sorted by a call, the larger one by the loop.
Split ==
    LET i == call.i
        lower == <<call.l, i - 1>>
        upper == <<i + 1, call.u>>
        Sorted(now, later) ==
            call' = [call EXCEPT !.pc = "while", !.l = now[1], !.u = now[2],
                                 !.stack = <<later>> \o @]
    IN  /\ call.pc = "split"
        /\ set2(call.u - 1, rawgeti(t, i), i, rawgeti(t, call.u - 1))
        /\ IF i - call.l < call.u - i THEN Sorted(lower, upper) ELSE Sorted(upper, lower)

\* sort_comp(): "<" raises an error when a value is nil; a function answers what it likes.
sort_comp ==
    /\ call.pc \in {"first", "middle", "last", "up", "down"}
    /\ program.order = "any" => call.asked <= MaxAsked
    /\ IF program.order = "<" /\ Nil \in {call.x, call.y} THEN Goto("error") /\ UNCHANGED t
       ELSE \E b \in IF program.order = "<" THEN {call.x < call.y} ELSE BOOLEAN :
               OutOfOrder(b) \/ BelowLow(b) \/ AboveHigh(b) \/ GoUp(b) \/ GoDown(b)

auxsort ==
    /\ call # NoCall
    /\ auxsort_While \/ auxsort_Return \/ Pivot \/ Split \/ sort_comp
    /\ UNCHANGED <<program, walking>> /\ Recorded

EndSort ==
    /\ call.pc \in {"returned", "error"}
    /\ call' = NoCall
    /\ UNCHANGED <<program, t, walking, map>>

-----------------------------------------------------------------------------

Next ==
    \/ lua_rawset \/ SetList \/ removeentry \/ luaB_pairs \/ lua_next
    \/ tinsert \/ tremove \/ sort \/ auxsort \/ EndSort

Spec == Init /\ [][Next]_vars

-----------------------------------------------------------------------------
(* Properties.                                                             *)

TypeOK ==
    /\ program \in Programs
    /\ t.array \in Seq(Value \cup {Nil})
    /\ \A n \in Nodes(t) :
          /\ gnode(t, n).key \in Key \cup {Nil} \cup {Dead(k) : k \in Key}
          /\ gnode(t, n).val \in Value \cup {Nil}
          /\ gnode(t, n).next \in {NULL} \cup Nodes(t)
    /\ t.lastfree \in 0..sizenode(t) /\ (t.dummy => t.node = Empty.node)
    /\ walk \in {"constructor", "none", "on", "invalid key"}
    /\ at \in Key \cup {Nil} /\ seen \subseteq Key

\* The invariant of ltable.c:15-17 and what it is for: every field is found from its main
\* position, and a node that is not there met one that is at home.
EveryFieldFound ==
    \A n \in Nodes(t) :
        LET key == gnode(t, n).key
            mp == mainposition(t, key)
        IN  gnode(t, n).val # Nil =>
                /\ Find(t, key) = sizearray(t) + n
                /\ gnode(t, mp).val = Nil \/ mainposition(t, gnode(t, mp).key) = mp

\* No chain runs in a circle.
ChainsEnd == \A n \in Nodes(t) : Chain(t, n)[sizenode(t)] = NULL

\* Nodes, chains and the free pointer fit each other, in the dummynode, too.
NodesConsistent == TypeOK /\ EveryFieldFound /\ ChainsEnd

\* #t is a boundary of the table, whatever holes it has (luaH_getn).
LengthIsBoundary ==
    LET n == luaH_getn(t)
    IN  (n = 0 \/ rawgeti(t, n) # Nil) /\ rawgeti(t, n + 1) = Nil

\* sort() puts the values of a sequence without holes in order, and needs no value outside
\* of it (auxsort).
SortSorts ==
    call # NoCall /\ program.order = "<" /\ call.holes = {} =>
        /\ call.pc # "error" /\ call.asked <= call.n * call.n
        /\ call.pc = "returned" =>
              \A i \in 1..(call.n - 1) : rawgeti(t, i) <= rawgeti(t, i + 1)

\* Each call of auxsort() inside another has at most half of its interval, whatever the
\* comparison function answers: ltablib.c:258 counts on less than 40 of them.
SortIsShallow ==
    call # NoCall => twoto[Len(call.stack)] * (call.u - call.l + 1) <= call.n

\* A table is a map: no operation touches a field it should not, a traversal meets every
\* field that stays once and needs no key that is gone, and sort() only exchanges values,
\* whatever the comparison function answers.
Map == INSTANCE LuaMap WITH
    walk <- IF walk = "constructor" THEN "none" ELSE walk
ImplementsMap == Map!Spec
=============================================================================
