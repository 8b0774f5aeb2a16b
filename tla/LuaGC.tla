------------------------------- MODULE LuaGC -------------------------------
(***************************************************************************)
(* The incremental garbage collector of Lua (lgc.c) and what a program does *)
(* to the heap between two of its steps: objects, barriers, open upvalues,  *)
(* weak tables, interned strings, userdata with finalizers such as sprites. *)
(*                                                                         *)
(* An address holds one object.  An object has at most two references, key  *)
(* and val: the entry of a table, the value of an upvalue, the upvalue of a *)
(* function, a constant of a prototype, the environment of a userdata, the  *)
(* one slot of the stack of a coroutine.  Lists of objects are sets: the    *)
(* collector may take them in any order, and they are empty when nothing   *)
(* reads them before markroot() empties them.  How much work a step does and     *)
(* when it is due are left out: a step may come between any two operations. *)
(***************************************************************************)
EXTENDS Integers, Sequences, FiniteSets

CONSTANTS
    Addr,      \* the addresses of objects
    Main,      \* the main thread, which is never freed
    Nil,       \* no value
    Num,       \* a value that is not collectable
    Programs,  \* what kinds of objects a program has, and at which addresses
    MaxHeld    \* bound: values on the main stack

Kind == {"string", "table", "weakk", "weakv", "function", "proto", "upval",
         "thread", "userdata"}

ASSUME GCAssumption ==
    /\ Main \notin Addr /\ Nil # Num /\ {Nil, Num} \cap (Addr \cup {Main}) = {}
    /\ IsFiniteSet(Addr)
    /\ Programs \subseteq [Addr -> SUBSET Kind] /\ MaxHeld \in Nat

VARIABLES
    program,      \* the kinds of objects that may be at an address
    kind,         \* the kind of the object at an address, or "free"
    key, val,     \* its references
    open,         \* the coroutine an open upvalue points into, else Nil
    held,         \* the values on the main stack, in the globals and the registry
    udlist,       \* userdata behind the main thread in rootgc, the newest first
    finalized,    \* userdata with FINALIZEDBIT
    color,        \* marked
    gcstate, currentwhite, gray, grayagain, weak, tmudata,
    tosweep,      \* the objects between sweepgc and the end of rootgc
    full,         \* what keeps the program waiting: luaC_fullgc() in its "sweep" or its
                  \* "cycle", lua_close() before its first finalizer ("close"), or "no"
    called,       \* history: userdata whose finalizer was called
    garbage,      \* history: what was unreachable when the cycle began, and is still
    atclose       \* history: the userdata there were when lua_close() was called

heap == <<program, kind, key, val, open, held, udlist, finalized>>
lists == <<gray, grayagain, weak>>
gcvars == <<color, gcstate, currentwhite, lists, tmudata, tosweep, full>>
vars == <<heap, gcvars, called, garbage, atclose>>

Weak == {"weakk", "weakv"}
Table == {"table"} \cup Weak
Live == {a \in Addr : kind[a] # "free"}
OfKind(k) == {a \in Addr : kind[a] \in k}
InList(s) == {s[i] : i \in DOMAIN s}

\* A list without some of its objects.
Without(s, S) ==
    LET w[n \in 0..Len(s)] ==
            IF n = 0 THEN <<>>
            ELSE IF s[n] \in S THEN w[n - 1] ELSE Append(w[n - 1], s[n])
    IN  w[Len(s)]

KindOf(o) == IF o = Main THEN "thread" ELSE kind[o]
otherwhite == IF currentwhite = "white0" THEN "white1" ELSE "white0"
IsWhite(c, o) == c[o] \in {"white0", "white1"}
isdead(o) == color[o] = otherwhite

-----------------------------------------------------------------------------
(* References.                                                             *)

\* uv->v of an upvalue, open or closed.
UpvalValue(u) == IF open[u] = Nil THEN val[u] ELSE val[open[u]]

\* What the traversal of an object marks.
Strong(o) ==
    IF o = Main THEN held
    ELSE {r \in Addr :
            \/ kind[o] \in {"table", "weakv"} /\ r = key[o]
            \/ kind[o] = "upval" /\ r = UpvalValue(o)
            \/ kind[o] \notin {"weakv", "upval", "string", "free"} /\ r = val[o]}

\* What a program can get from an object.
Refs(o) == IF kind[o] \in Table THEN {key[o], val[o]} \cap Addr ELSE Strong(o)

\* All that is reached from a set of objects.
Reach(S) ==
    LET r[n \in 0..Cardinality(Addr)] ==
            IF n = 0 THEN S
            ELSE LET q == r[n - 1] IN q \cup UNION {Strong(o) : o \in q}
    IN  r[Cardinality(Addr)]

Reachable == Reach(held \cup InList(tmudata))

-----------------------------------------------------------------------------
(* Marking.  m is [color, gray, again, weak].                              *)

\* Userdata and upvalues are not queued: they are marked with what they hold.
MarkedAtOnce == {"userdata", "upval"}

Through(m, S) ==
    S \cup UNION {Strong(o) : o \in {x \in S : IsWhite(m.color, x)
                                              /\ KindOf(x) \in MarkedAtOnce}}

\* reallymarkobject() on the white ones of a set of objects.
MarkObjects(m, S) ==
    LET new == {o \in Through(m, Through(m, S)) : IsWhite(m.color, o)}
    IN  [m EXCEPT
           !.color = [o \in DOMAIN @ |->
                        IF o \notin new THEN @[o]
                        ELSE IF KindOf(o) = "userdata"
                                \/ (KindOf(o) = "upval" /\ open[o] = Nil)
                             THEN "black" ELSE "gray"],
           !.gray = @ \cup {o \in new : KindOf(o) \notin MarkedAtOnce \cup {"string"}}]

\* propagatemark() on some gray objects: weak tables and threads stay gray.
Propagate(m, S) ==
    MarkObjects([m EXCEPT
                   !.gray = @ \ S,
                   !.color = [o \in DOMAIN @ |->
                                IF o \in S /\ KindOf(o) \notin Weak \cup {"thread"}
                                THEN "black" ELSE @[o]],
                   !.weak = @ \cup {o \in S : KindOf(o) \in Weak},
                   !.again = @ \cup {o \in S : KindOf(o) = "thread"}],
                UNION {Strong(o) : o \in S})

propagateall(m) ==
    LET p[n \in 0..Cardinality(Addr) + 1] ==
            IF n = 0 THEN m ELSE LET q == p[n - 1] IN Propagate(q, q.gray)
    IN  p[Cardinality(Addr) + 1]

Marks == [color |-> color, gray |-> gray, again |-> grayagain, weak |-> weak]

SetMarks(m) ==
    color' = m.color /\ gray' = m.gray /\ grayagain' = m.again /\ weak' = m.weak

-----------------------------------------------------------------------------
(* Barriers, for an object o that gets a reference to v.                   *)

White(v) == v \in Addr /\ IsWhite(color, v)

\* luaC_barrierf(): the collector moves forward over v.
BarrierForward(o, v) ==
    IF color[o] = "black" /\ White(v)
    THEN IF gcstate = "propagate"
         THEN SetMarks(MarkObjects(Marks, {v}))
         ELSE color' = [color EXCEPT ![o] = currentwhite] /\ UNCHANGED lists
    ELSE UNCHANGED <<color, lists>>

\* A table that is gray already is queued once more.
BarrierBack_Queued(o, vs) ==
    IF ~IsWhite(color, o) /\ \E v \in vs : White(v)
    THEN /\ color' = [color EXCEPT ![o] = "gray"]
         /\ grayagain' = IF gcstate = "propagate" THEN grayagain \cup {o} ELSE {}
         /\ UNCHANGED <<gray, weak>>
    ELSE UNCHANGED <<color, lists>>

\* luaC_barrierback(): the collector comes back to the table.
BarrierBack(o, vs) ==
    IF color[o] = "black" /\ \E v \in vs : White(v)
    THEN /\ color' = [color EXCEPT ![o] = "gray"]
         /\ grayagain' = IF gcstate = "propagate" THEN grayagain \cup {o} ELSE {}
         /\ UNCHANGED <<gray, weak>>
    ELSE UNCHANGED <<color, lists>>

-----------------------------------------------------------------------------
(* The program, the finalizers included: GCTM() runs them as Lua, in a cycle, in    *)
(* luaC_fullgc() and in lua_close().                                              *)

Running == full = "no" /\ gcstate # "closed"

Hold(S) == held' = held \cup S /\ Cardinality(held \cup S) <= MaxHeld

UNCHANGED_GC ==
    UNCHANGED <<gcstate, currentwhite, tmudata, tosweep, full, called, atclose>>

\* A new object is white and on the stack.
Made(a, k) ==
    /\ Running /\ kind[a] = "free" /\ k \in program[a]
    /\ kind' = [kind EXCEPT ![a] = k]
    /\ color' = [color EXCEPT ![a] = currentwhite]
    /\ Hold({a})
    /\ UNCHANGED <<program, key, val, open, finalized, lists, garbage>>
    /\ UNCHANGED_GC

\* A string that is in no chain of the string table.
newlstr(a) == Made(a, "string") /\ UNCHANGED udlist

\* Userdata are linked behind the main thread.
luaS_newudata(a) == Made(a, "userdata") /\ udlist' = <<a>> \o udlist

luaC_link(a) ==
    /\ \E k \in Kind \ {"string", "userdata", "upval"} : Made(a, k)
    /\ UNCHANGED udlist

Drop(a) ==
    /\ Running /\ a \in held
    /\ held' = held \ {a}
    /\ UNCHANGED <<program, kind, key, val, open, udlist, finalized, color, lists, garbage>>
    /\ UNCHANGED_GC

\* A value is read: from a table, through a closure, from the stack of a coroutine.
Get(o, v) ==
    /\ Running /\ o \in held /\ v \in Refs(o) \ held
    /\ kind[v] # "upval" /\ Hold({v})
    /\ garbage' = garbage \ Reach({v})
    /\ UNCHANGED <<program, kind, key, val, open, udlist, finalized, color, lists>>
    /\ UNCHANGED_GC

\* OP_GETUPVAL.
GetUpval(f, v) ==
    /\ Running /\ f \in held /\ kind[f] = "function" /\ val[f] \in Addr
    /\ v \in Strong(val[f]) \ held /\ Hold({v})
    /\ UNCHANGED <<program, kind, key, val, open, udlist, finalized, color, lists, garbage>>
    /\ UNCHANGED_GC

\* luaS_newlstr() finds the string, which may be dead.
Intern_KeepsDead(s) ==
    /\ Running /\ kind[s] = "string" /\ s \notin held
    /\ Hold({s})
    /\ garbage' = garbage \ {s}
    /\ UNCHANGED <<program, kind, key, val, open, udlist, finalized, color, lists>>
    /\ UNCHANGED_GC

Intern(s) ==
    /\ Running /\ kind[s] = "string" /\ s \notin held
    /\ color' = IF isdead(s) THEN [color EXCEPT ![s] = currentwhite] ELSE color
    /\ Hold({s})
    /\ garbage' = garbage \ {s}
    /\ UNCHANGED <<program, kind, key, val, open, udlist, finalized, lists>>
    /\ UNCHANGED_GC

\* luaV_settable(), lua_rawset(): a table has one entry.
SetTable(t, k, v) ==
    /\ Running /\ t \in held /\ kind[t] \in Table
    /\ k \in held \cup {Num} /\ v \in held \cup {Nil, Num}
    /\ val[t] = Nil \/ key[t] = k
    /\ val' = [val EXCEPT ![t] = v]
    /\ key' = [key EXCEPT ![t] = IF v = Nil THEN Num ELSE k]
    /\ BarrierBack(t, IF val[t] = Nil THEN {k, v} ELSE {v})
    /\ UNCHANGED <<program, kind, open, held, udlist, finalized, garbage>>
    /\ UNCHANGED_GC

\* lua_setfenv() and lua_setmetatable() on a userdata, addk() on a prototype.
SetField(o, v) ==
    /\ Running /\ o \in held /\ v \in held
    /\ \/ kind[o] = "userdata" /\ kind[v] \in Table
       \/ kind[o] = "proto" /\ kind[v] \in {"string", "proto"}
    /\ val' = [val EXCEPT ![o] = v]
    /\ BarrierForward(o, v)
    /\ UNCHANGED <<program, kind, key, open, held, udlist, finalized, garbage>>
    /\ UNCHANGED_GC

\* lua_xmove(): no barrier, a thread is never black.
SetSlot(c, v) ==
    /\ Running /\ c \in held /\ kind[c] = "thread" /\ v \in held \cup {Nil}
    /\ val' = [val EXCEPT ![c] = v]
    /\ UNCHANGED <<program, kind, key, open, held, udlist, finalized, color, lists, garbage>>
    /\ UNCHANGED_GC

\* OP_CLOSURE in a coroutine: luaF_findupval() finds the upvalue of the slot, which
\* may be dead, or makes one.
Closure(f, u, c) ==
    /\ Running /\ c \in held /\ kind[c] = "thread" /\ "function" \in program[f] /\ "upval" \in program[u]
    /\ kind[f] = "free" /\ f # u /\ u # c
    /\ IF \E x \in OfKind({"upval"}) : open[x] = c
       THEN open[u] = c /\ kind[u] = "upval"
       ELSE kind[u] = "free"
    /\ kind' = [kind EXCEPT ![f] = "function", ![u] = "upval"]
    /\ color' = [color EXCEPT ![f] = currentwhite,
                              ![u] = IF kind[u] = "free" \/ isdead(u) THEN currentwhite ELSE @]
    /\ open' = [open EXCEPT ![u] = c]
    /\ val' = [val EXCEPT ![f] = u]
    /\ Hold({f})
    /\ garbage' = garbage \ {u}
    /\ UNCHANGED <<program, key, udlist, finalized, lists>>
    /\ UNCHANGED_GC

\* OP_SETUPVAL: an open upvalue is a slot of a stack, a closed one has its value.
SetUpval(f, v) ==
    /\ Running /\ f \in held /\ kind[f] = "function" /\ v \in held
    /\ LET u == val[f]
       IN  /\ u \in Addr
           /\ val' = [val EXCEPT ![IF open[u] = Nil THEN u ELSE open[u]] = v]
           /\ BarrierForward(u, v)
    /\ UNCHANGED <<program, kind, key, open, held, udlist, finalized, garbage>>
    /\ UNCHANGED_GC

-----------------------------------------------------------------------------
(* The end of objects.                                                     *)

\* The heap after objects are freed, upvalues are closed with the value of their
\* slot, and the slots of some coroutines are emptied.
Ended(freed, closed, popped) ==
    /\ kind' = [a \in Addr |-> IF a \in freed THEN "free" ELSE kind[a]]
    /\ key' = [a \in Addr |-> IF a \in freed THEN Num ELSE key[a]]
    /\ val' = [a \in Addr |-> IF a \in freed \cup popped THEN Nil
                              ELSE IF a \in closed THEN UpvalValue(a) ELSE val[a]]
    /\ open' = [a \in Addr |-> IF a \in freed \cup closed THEN Nil ELSE open[a]]
    /\ udlist' = Without(udlist, freed)
    /\ finalized' = finalized \ freed
    /\ called' = called \ freed
    /\ garbage' = garbage \ freed
    /\ UNCHANGED <<program, held>>

\* rootgc and the string table: an open upvalue is in the list of its thread.
RootList == {Main} \cup {a \in Live : open[a] = Nil}

OpenIn(c) == {u \in OfKind({"upval"}) : open[u] = c}

\* A closed upvalue gets no barrier.
luaC_linkupval_NoBarrier(kept, v) ==
    /\ color' = [o \in DOMAIN color |->
                   IF o \in kept /\ color[o] = "gray"
                   THEN IF gcstate = "propagate" THEN "black" ELSE currentwhite
                   ELSE color[o]]
    /\ UNCHANGED lists

\* luaC_linkupval(): a closed upvalue that was visited gets its barrier.
luaC_linkupval(kept, v) ==
    LET grays == {u \in kept : color[u] = "gray"}
        linked == [Marks EXCEPT !.color = [o \in DOMAIN @ |->
                     IF o \notin grays THEN @[o]
                     ELSE IF gcstate = "propagate" THEN "black" ELSE currentwhite]]
    IN  SetMarks(IF gcstate = "propagate" /\ grays # {}
                 THEN MarkObjects(linked, {v} \cap Addr)
                 ELSE linked)

\* luaF_close() for the slot of a coroutine that is left.
CloseUpvals(c) ==
    /\ Running /\ c \in held /\ kind[c] = "thread" /\ OpenIn(c) # {}
    /\ LET kept == {u \in OpenIn(c) : ~isdead(u)}
       IN  Ended(OpenIn(c) \ kept, kept, {c}) /\ luaC_linkupval(kept, val[c])
    /\ UNCHANGED <<gcstate, currentwhite, tmudata, tosweep, full, atclose>>

-----------------------------------------------------------------------------
(* The collector: singlestep().                                            *)

\* The mark phase begins with the main thread; globals, registry and basic
\* metatables are part of what it holds.
markroot ==
    /\ SetMarks(MarkObjects([color |-> color, gray |-> {}, again |-> {}, weak |-> {}],
                            {Main}))
    /\ gcstate' = "propagate"
    /\ garbage' = Live \ Reachable
    /\ UNCHANGED <<heap, currentwhite, tmudata, tosweep, called, atclose>>

Start == gcstate = "pause" /\ full # "sweep" /\ markroot /\ UNCHANGED full

propagatemark ==
    /\ gcstate = "propagate"
    /\ \E o \in gray : SetMarks(Propagate(Marks, {o}))
    /\ UNCHANGED <<heap, gcstate, currentwhite, tmudata, tosweep, full, called, garbage,
                   atclose>>

\* FINALIZEDBIT is not looked at.
Separated_Again(c) ==
    Without(udlist, {u \in Addr : ~IsWhite(c, u)})

\* luaC_separateudata(): dead userdata are queued for their finalizers.
Separated(c) ==
    Without(udlist, finalized \cup {u \in Addr : ~IsWhite(c, u)})

\* iscleared(): a key or a value that a weak table loses.
iscleared(c, fin, o, iskey) ==
    /\ o \in Addr /\ kind[o] # "string"
    /\ IsWhite(c, o) \/ (kind[o] = "userdata" /\ ~iskey /\ o \in fin)

Cleared(c, fin, h) ==
    val[h] # Nil /\ (iscleared(c, fin, key[h], TRUE) \/ iscleared(c, fin, val[h], FALSE))

\* remarkupvals(), then the weak tables and the threads once more.
Remarked(m) ==
    LET grayopen == {u \in OfKind({"upval"}) : open[u] # Nil /\ m.color[u] = "gray"}
        upvals == propagateall(MarkObjects(m, {UpvalValue(u) : u \in grayopen} \cap Addr))
        weaks == propagateall([upvals EXCEPT !.gray = upvals.weak, !.weak = {}])
    IN  propagateall([weaks EXCEPT !.gray = weaks.again, !.again = {}])

\* marktmu(): userdata that wait for their finalizers are kept with all they hold.
MarkTmu(m, queue) ==
    propagateall(MarkObjects([m EXCEPT !.color = [o \in DOMAIN @ |->
                                IF o \in InList(queue) THEN currentwhite ELSE @[o]]],
                             InList(queue)))

\* iscleared() marks a string it is asked about.
StringsKept(m, fin) ==
    {s \in OfKind({"string"}) : \E h \in m.weak : val[h] # Nil
         /\ (key[h] = s \/ (val[h] = s /\ ~iscleared(m.color, fin, key[h], TRUE)))}

atomic ==
    /\ gcstate = "propagate" /\ gray = {}
    /\ LET m == Remarked(Marks)
           dead == Separated(m.color)
           t == MarkTmu(m, tmudata \o dead)
           fin == finalized \cup InList(dead)
           gone == {h \in t.weak : Cleared(t.color, fin, h)}
       IN  /\ tmudata' = tmudata \o dead
           /\ udlist' = Without(udlist, InList(dead))
           /\ finalized' = fin
           /\ garbage' = garbage \ (Reach(InList(tmudata \o dead)) \cup StringsKept(t, fin))
           /\ SetMarks([t EXCEPT !.again = {}, !.weak = {}, !.color = [o \in DOMAIN @ |->
                          IF o \in StringsKept(t, fin) /\ IsWhite(@, o) THEN "gray" ELSE @[o]]])
           /\ val' = [a \in Addr |-> IF a \in gone THEN Nil ELSE val[a]]
           /\ key' = [a \in Addr |-> IF a \in gone THEN Num ELSE key[a]]
           /\ tosweep' = RootList \ InList(tmudata \o dead)
    /\ currentwhite' = otherwhite
    /\ gcstate' = "sweepstring"
    /\ UNCHANGED <<program, kind, open, held, full, called, atclose>>

\* The open upvalues of a thread are not swept.
SweepObject_NoUpvals(o) ==
    LET freed == IF o # Main /\ isdead(o) THEN {o} ELSE {}
    IN  /\ Ended(freed, IF o \in freed THEN OpenIn(o) ELSE {}, {})
        /\ color' = [color EXCEPT ![o] = IF o \in freed THEN "white0" ELSE currentwhite]
        /\ tosweep' = tosweep \ {o}

\* sweeplist() on one object; with a thread go its open upvalues.
SweepObject(o) ==
    LET upvals == IF KindOf(o) = "thread" THEN OpenIn(o) ELSE {}
        deadones == {u \in upvals : isdead(u)}
        freed == deadones \cup (IF o # Main /\ isdead(o) THEN {o} ELSE {})
        kept == ({o} \cup upvals) \ freed
    IN  /\ Ended(freed, IF o \in freed THEN upvals \ freed ELSE {}, {})
        /\ color' = [x \in DOMAIN color |-> IF x \in kept THEN currentwhite
                                            ELSE IF x \in freed THEN "white0" ELSE color[x]]
        /\ tosweep' = tosweep \ {o}

Pending ==
    {o \in tosweep : (KindOf(o) = "string") <=> (gcstate = "sweepstring")}

\* Strings first, a chain of the string table at a time; then the other objects.
sweep ==
    /\ gcstate \in {"sweepstring", "sweep"}
    /\ \/ Pending = {} /\ UNCHANGED <<heap, color, tosweep, called, garbage>>
       \/ \E o \in Pending : SweepObject(o)
    /\ gcstate' = IF Cardinality(Pending) > 1 THEN gcstate
                  ELSE IF gcstate = "sweepstring" THEN "sweep" ELSE "finalize"
    /\ UNCHANGED <<currentwhite, lists, tmudata, full, atclose>>

\* GCTM(): a finalizer gets its userdata, and what it does with it are operations of
\* the program.  luaC_fullgc() and lua_close() go on between two of them: what
\* luaC_fullgc() has left to do are steps of the collector like any others.
GCTM ==
    /\ tmudata # <<>>
    /\ LET u == Head(tmudata)
       IN  /\ tmudata' = Tail(tmudata)
           /\ udlist' = <<u>> \o udlist
           /\ color' = [color EXCEPT ![u] = currentwhite]
           /\ called' = called \cup {u}
           /\ held' \in {held} \cup {h \in {held \cup {u}} : Cardinality(h) <= MaxHeld}
    /\ full' = "no"
    /\ UNCHANGED <<program, kind, key, val, open, finalized, gcstate, currentwhite, lists,
                   tosweep, garbage, atclose>>

Finalize == gcstate = "finalize" /\ full # "sweep" /\ GCTM

FinalizeEnd ==
    /\ gcstate = "finalize" /\ full # "sweep" /\ tmudata = <<>>
    /\ gcstate' = "pause" /\ full' = "no"
    /\ UNCHANGED <<heap, color, currentwhite, lists, tmudata, tosweep, called, garbage,
                   atclose>>

\* luaC_fullgc(): a mark phase that has begun is given up and all is swept to white;
\* then comes a whole cycle.
luaC_fullgc ==
    /\ Running /\ gcstate # "closing"
    /\ full' = "sweep"
    /\ IF gcstate \in {"pause", "propagate"}
       THEN /\ gcstate' = "sweepstring"
            /\ tosweep' = RootList \ InList(tmudata)
            /\ gray' = {} /\ grayagain' = {} /\ weak' = {}
       ELSE UNCHANGED <<gcstate, tosweep, lists>>
    /\ garbage' = {}
    /\ UNCHANGED <<heap, color, currentwhite, tmudata, called, atclose>>

FullMark == full = "sweep" /\ gcstate = "finalize" /\ markroot /\ full' = "cycle"

\* lua_close(): all userdata are queued, once, with what was queued before.  What is
\* in the globals and in the registry stays.  Where the collector was is forgotten:
\* its steps are left out from here on.
lua_close ==
    /\ Running /\ gcstate # "closing"
    /\ LET rest == Without(udlist, finalized)
       IN  /\ tmudata' = tmudata \o rest
           /\ udlist' = Without(udlist, InList(rest))
           /\ finalized' = finalized \cup InList(rest)
    /\ held' \in SUBSET held
    /\ gcstate' = "closing" /\ full' = "close"
    /\ gray' = {} /\ grayagain' = {} /\ weak' = {} /\ tosweep' = {} /\ garbage' = {}
    /\ atclose' = OfKind({"userdata"})
    /\ UNCHANGED <<program, kind, key, val, open, color, currentwhite, called>>

\* luaC_callGCTM() of lua_close(), which an error in a finalizer only makes go on.
CloseFinalize == gcstate = "closing" /\ GCTM

\* luaC_freeall(), whatever the finalizers have made.
luaC_freeall ==
    /\ gcstate = "closing" /\ tmudata = <<>>
    /\ gcstate' = "closed"
    /\ Ended(Live, {}, {})
    /\ UNCHANGED <<color, currentwhite, lists, tmudata, tosweep, full, atclose>>

-----------------------------------------------------------------------------
Init ==
    /\ program \in Programs
    /\ kind = [a \in Addr |-> "free"]
    /\ key = [a \in Addr |-> Num] /\ val = [a \in Addr |-> Nil]
    /\ open = [a \in Addr |-> Nil]
    /\ held = {} /\ udlist = <<>> /\ finalized = {}
    /\ color = [o \in Addr \cup {Main} |-> "white0"]
    /\ gcstate = "pause" /\ currentwhite = "white0"
    /\ gray = {} /\ grayagain = {} /\ weak = {} /\ tmudata = <<>>
    /\ tosweep = {} /\ full = "no"
    /\ called = {} /\ garbage = {} /\ atclose = {}

Program ==
    \/ \E a \in Addr : newlstr(a) \/ luaS_newudata(a) \/ luaC_link(a)
    \/ \E a \in Addr : Drop(a) \/ Intern(a) \/ CloseUpvals(a)
    \/ \E o, v \in Addr : Get(o, v) \/ GetUpval(o, v) \/ SetField(o, v) \/ SetUpval(o, v)
    \/ \E t \in Addr, k \in Addr \cup {Num}, v \in Addr \cup {Nil, Num} : SetTable(t, k, v)
    \/ \E c \in Addr, v \in Addr \cup {Nil} : SetSlot(c, v)
    \/ \E f, u, c \in Addr : Closure(f, u, c)
    \/ luaC_fullgc \/ lua_close

singlestep ==
    Start \/ propagatemark \/ atomic \/ sweep \/ Finalize \/ FinalizeEnd \/ FullMark

Next == Program \/ singlestep \/ CloseFinalize \/ luaC_freeall

Spec == Init /\ [][Next]_vars

-----------------------------------------------------------------------------
(* Properties.                                                             *)

TypeOK ==
    /\ kind \in [Addr -> Kind \cup {"free"}]
    /\ key \in [Addr -> Addr \cup {Num}] /\ val \in [Addr -> Addr \cup {Nil, Num}]
    /\ open \in [Addr -> Addr \cup {Nil}]
    /\ held \subseteq Addr /\ garbage \subseteq Addr /\ called \subseteq finalized
    /\ atclose \subseteq Addr
    /\ color \in [Addr \cup {Main} -> {"white0", "white1", "gray", "black"}]
    /\ gcstate \in {"pause", "propagate", "sweepstring", "sweep", "finalize", "closing",
                    "closed"}
    /\ UNION {gray, grayagain, weak, tosweep} \subseteq Addr \cup {Main}

\* No reference a program can follow leads to memory that was freed, weak references
\* included, whatever the program does between two steps of the collector, and in
\* lua_close() whatever finalizers do that do not run the collector there.
NoDangling ==
    gcstate # "closed" =>
        \A o \in Reachable : kind[o] # "free" /\ \A r \in Refs(o) : kind[r] # "free"

\* "All black objects point to gray or black ones" is what the barriers keep: while
\* marking, no black object refers to a white one.
NoBlackToWhite ==
    gcstate = "propagate" =>
        \A o \in Live \cup {Main} : color[o] = "black" /\ o \notin InList(tmudata) =>
            \A r \in Strong(o) : ~IsWhite(color, r)

\* gclist is one field: while marking, an object is in one list at most, and the
\* objects of the lists are gray.
OneList ==
    gcstate = "propagate" =>
        /\ gray \cap grayagain = {} /\ gray \cap weak = {} /\ grayagain \cap weak = {}
        /\ \A o \in gray \cup grayagain \cup weak : color[o] = "gray"

\* Objects, colours and lists fit each other at every step of the collector.
ListsConsistent == TypeOK /\ OneList

\* What was unreachable when a cycle began is gone when its sweep ends, unless the
\* program found it again, a userdata that waits for its finalizer holds it, or it is
\* a string in a weak table.
GarbageCollected == gcstate \in {"finalize", "pause"} => garbage = {}

\* A userdata waits for its finalizer once, its finalizer was not called before, and
\* before the state is freed each userdata that was there when lua_close() was called
\* has had its turn, whatever the finalizers do to each other's userdata.
FinalizedOnce ==
    /\ \A i, j \in DOMAIN tmudata : tmudata[i] = tmudata[j] => i = j
    /\ InList(tmudata) \cap called = {}
    /\ gcstate = "closing" /\ tmudata = <<>> => atclose \subseteq called

\* lua_close() "destroys all objects in the given Lua state (calling the corresponding
\* garbage-collection metamethods, if any)", the manual says: not those of userdata
\* that a finalizer makes meanwhile.
CloseFinalizesAll ==
    [][gcstate = "closing" /\ gcstate' = "closed" => OfKind({"userdata"}) \subseteq called]_vars
=============================================================================
