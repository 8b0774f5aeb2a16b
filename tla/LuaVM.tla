------------------------------- MODULE LuaVM -------------------------------
(***************************************************************************)
(* The virtual machine of Lua: a chunk is compiled (lparser.c) and run, one *)
(* instruction a step (luaV_execute() of lvm.c), with the calls of ldo.c,   *)
(* the upvalues of lfunc.c, the metamethods of ltm.c and the functions of   *)
(* lbaselib.c that the chunks use.                                         *)
(*                                                                         *)
(* L is the lua_State with the heap of its global_State.  A call made from  *)
(* C, for which luaV_execute() recurs, leaves in the frame of the callee    *)
(* what C does when it returns (cont).  The memory of the stack grows       *)
(* without limit, the collector (LuaGC) does not run, and a table is a map,  *)
(* whose nodes LuaTable models.                                            *)
(***************************************************************************)
EXTENDS LuaCompiler, LuaVerify, FiniteSets

CONSTANTS
    Chunks,             \* names of chunks
    Chunk(_),           \* the tokens of a chunk
    STACKSIZE,
    BASIC_CI_SIZE,      \* frames there is memory for at first
    LUAI_MAXCALLS,      \* nested calls of functions
    LUAI_MAXCCALLS,     \* nested calls from C
    LUAI_MAXCSTACK,     \* values a C function may have
    MAXTAGLOOP          \* tables tried for __index or __newindex

ASSUME VMAssumption ==
    /\ {STACKSIZE, LUAI_MAXCALLS, LUAI_MAXCCALLS, LUAI_MAXCSTACK, MAXTAGLOOP} \subseteq Nat \ {0}
    /\ BASIC_CI_SIZE \in 2..LUAI_MAXCALLS

VARIABLES
    chunkname,  \* the chunk that is run
    L

vars == <<chunkname, L>>

CFunctions == {"print", "error", "assert", "pcall", "setmetatable", "getmetatable", "rawset",
               "rawget", "rawequal", "type", "select", "unpack", "ipairs", "ipairsaux"}

LFunction(c) == <<"function", "L", c>>
CFunction(name) == <<"function", "C", name>>
table(h) == <<"table", h>>

ttisfunction(v) == ttype(v) = "function"
ttistable(v) == ttype(v) = "table"

\* Frames.  cont.k is "call" for a call made by an instruction.
Frame(func, base, top, nresults, cont) ==
    [func |-> func, base |-> base, top |-> top, savedpc |-> 0, nresults |-> nresults,
     cont |-> cont]

ByInstruction == [k |-> "call"]

ci(l) == l.ci[Len(l.ci)]

clvalue(l, frame) == l.closures[l.stack[frame.func][3]]

isLua(l, frame) == ttisfunction(l.stack[frame.func]) /\ l.stack[frame.func][2] = "L"

Set(l, at, v) == [l EXCEPT !.stack[at] = v]

Values(l, from, to) == [j \in 1..(to - from) |-> l.stack[from + j - 1]]

SetAll(l, from, vs) ==
    [l EXCEPT !.stack = [at \in from..(from + Len(vs) - 1) |-> vs[at - from + 1]] @@ @]

-----------------------------------------------------------------------------
(* Upvalues.  An open one is a register, and is in openupval, the highest   *)
(* register first.                                                         *)

\* The search stops at the level itself.
HeadFrom_Above(l, level) ==
    LET below == {n \in DOMAIN l.openupval : l.upvals[l.openupval[n]].at <= level}
    IN  IF below = {} THEN Len(l.openupval)
        ELSE (CHOOSE n \in below : \A o \in below : n <= o) - 1

\* How many upvalues at the head of the list are at a level or above.
HeadFrom(l, level) ==
    LET below == {n \in DOMAIN l.openupval : l.upvals[l.openupval[n]].at < level}
    IN  IF below = {} THEN Len(l.openupval)
        ELSE (CHOOSE n \in below : \A o \in below : n <= o) - 1

luaF_findupval(l, level) ==
    LET n == HeadFrom(l, level)
        new == Len(l.upvals) + 1
    IN  IF n > 0 /\ l.upvals[l.openupval[n]].at = level THEN [l |-> l, u |-> l.openupval[n]]
        ELSE [l |-> [l EXCEPT !.upvals = Append(@, [open |-> TRUE, at |-> level, v |-> nil]),
                              !.openupval = SubSeq(@, 1, n) \o <<new>>
                                            \o SubSeq(@, n + 1, Len(@))],
              u |-> new]

luaF_close(l, level) ==
    LET n == HeadFrom(l, level)
        closing == {l.openupval[m] : m \in 1..n}
    IN  [l EXCEPT
           !.upvals = [u \in closing |-> [open |-> FALSE, at |-> 0, v |-> l.stack[@[u].at]]] @@ @,
           !.openupval = SubSeq(@, n + 1, Len(@))]

upvalue(l, u) == IF l.upvals[u].open THEN l.stack[l.upvals[u].at] ELSE l.upvals[u].v

-----------------------------------------------------------------------------
(* Conversions, tables and metamethods.                                    *)

\* luaO_str2d() of the numerals that chunks use.
Numerals == [n \in {ToString(m) : m \in 0..30} |-> CHOOSE m \in 0..30 : ToString(m) = n]

tonumber(v) ==
    IF ttype(v) = "string" /\ v[2] \in DOMAIN Numerals THEN number(Numerals[v[2]]) ELSE v

isnumber(v) == ttype(tonumber(v)) = "number"

tostring(v) == IF ttype(v) = "number" THEN string(ToString(v[2])) ELSE v

luaH_get(h, key) == IF key \in DOMAIN h.map THEN h.map[key] ELSE nil

\* A key without a value is as a key that is not there.
Stored(h, key, v) ==
    [h EXCEPT !.map = IF v = nil THEN [k \in DOMAIN @ \ {key} |-> @[k]] ELSE (key :> v) @@ @]

\* The flags stay when a field is set.
luaH_set_KeepsFlags(l, h, key, v) == [l EXCEPT !.tables[h] = Stored(@, key, v)]

\* The flags of a table say which metamethods it is known not to have.
luaH_set(l, h, key, v) ==
    [l EXCEPT !.tables[h] = [Stored(@, key, v) EXCEPT !.flags = {}]]

\* A new table has nothing, and is known to have no metamethod.
NewTable(map) == [map |-> map, meta |-> 0, flags |-> {"__index", "__newindex", "__eq"}]

luaH_getn(h) == CHOOSE n \in 0..Cardinality(DOMAIN h.map) :
                   /\ number(n + 1) \notin DOMAIN h.map
                   /\ \A m \in 1..n : number(m) \in DOMAIN h.map

luaT_gettm(l, mt, event) ==
    LET tm == luaH_get(l.tables[mt], string(event))
    IN  [l |-> IF tm = nil THEN [l EXCEPT !.tables[mt].flags = @ \cup {event}] ELSE l, tm |-> tm]

fasttm(l, mt, event) ==
    IF mt = 0 THEN [l |-> l, tm |-> nil]
    ELSE IF event \in l.tables[mt].flags THEN [l |-> l, tm |-> nil]
    ELSE luaT_gettm(l, mt, event)

luaT_gettmbyobj(l, o, event) ==
    IF ttistable(o) /\ l.tables[o[2]].meta # 0
    THEN luaH_get(l.tables[l.tables[o[2]].meta], string(event)) ELSE nil

-----------------------------------------------------------------------------
(* Calls.                                                                  *)

luaD_poscall(l, firstResult) ==
    LET c == ci(l)
        got == Values(l, firstResult, l.top)
        wanted == IF c.nresults = LUA_MULTRET THEN Len(got) ELSE c.nresults
        results == [j \in 1..wanted |-> IF j <= Len(got) THEN got[j] ELSE nil]
    IN  [SetAll(l, c.func, results)
           EXCEPT !.ci = SubSeq(@, 1, Len(@) - 1), !.top = c.func + wanted]

\* Missing parameters become nil; the extra arguments stay below the new base.
adjust_varargs(l, p, actual) ==
    LET fixed == l.top - actual
        given == Values(l, fixed, l.top)
        nvar == IF actual > p.numparams THEN actual - p.numparams ELSE 0
        params == [j \in 1..p.numparams |-> IF j <= actual THEN given[j] ELSE nil]
        base == fixed + p.numparams + nvar
        moved == SetAll(SetAll(l, fixed, [j \in 1..p.numparams |-> nil]), base, params)
        entries == [k \in {number(j) : j \in 1..nvar} |-> given[p.numparams + k[2]]]
        arg == NewTable(entries @@ (string("n") :> number(nvar)))
        named == [moved EXCEPT !.tables = Append(@, arg),
                               !.stack[base + p.numparams] = table(Len(l.tables) + 1)]
    IN  IF "NEEDS" \in p.is_vararg
        THEN [l |-> [named EXCEPT !.top = base + p.numparams + 1], base |-> base]
        ELSE [l |-> [moved EXCEPT !.top = base + p.numparams], base |-> base]

\* An error, the return of a function and the run of a C function are steps of their own.
luaD_throw(l, v) == [l EXCEPT !.todo = [k |-> "throw", v |-> v]]

Return(l, firstResult) == [l EXCEPT !.todo = [k |-> "return", first |-> firstResult]]

Results(l, vs) == Return([SetAll(l, l.top, vs) EXCEPT !.top = @ + Len(vs)], l.top)

\* The array of frames.
luaD_reallocCI(l, newsize) == [l EXCEPT !.size_ci = newsize]

\* The array is doubled, also when that is too much: handling the error has the rest of it.
growCI(l) ==
    LET grown == luaD_reallocCI(l, 2 * l.size_ci)
    IN  IF l.size_ci > LUAI_MAXCALLS
        THEN luaD_throw(l, string("error in error handling"))
        ELSE IF grown.size_ci > LUAI_MAXCALLS THEN luaD_throw(grown, string("overflow"))
        ELSE grown

\* A frame is entered, when there is memory for it; entered is l with the frame.
inc_ci(l, entered) ==
    IF Len(l.ci) < l.size_ci THEN entered
    ELSE IF 2 * l.size_ci <= LUAI_MAXCALLS THEN luaD_reallocCI(entered, growCI(l).size_ci)
    ELSE growCI(l)

\* After an error the array gets its size back, unless it is in use.
restore_stack_limit(l) ==
    IF l.size_ci > LUAI_MAXCALLS /\ Len(l.ci) < LUAI_MAXCALLS
    THEN luaD_reallocCI(l, LUAI_MAXCALLS) ELSE l

PrecallLua(l, func, nresults, cont) ==
    LET p == l.closures[l.stack[func][3]].p
        cut == IF l.top > func + 1 + p.numparams THEN [l EXCEPT !.top = func + 1 + p.numparams] ELSE l
        a == IF p.is_vararg = {} THEN [l |-> cut, base |-> func + 1]
             ELSE adjust_varargs(l, p, l.top - func - 1)
        top == a.base + p.maxstacksize
        q == SetAll(a.l, a.l.top, [j \in 1..(top - a.l.top) |-> nil])
    IN  inc_ci(q, [q EXCEPT !.ci = Append(@, Frame(func, a.base, top, nresults, cont)), !.top = top])

\* A value that is not a function is the first argument of its __call.
luaD_precall(l, func, nresults, cont) ==
    LET tm == luaT_gettmbyobj(l, l.stack[func], "__call")
        holed == [SetAll(l, func, <<tm>> \o Values(l, func, l.top)) EXCEPT !.top = @ + 1]
        called == IF ttisfunction(l.stack[func]) THEN l ELSE holed
    IN  CASE ~ttisfunction(l.stack[func]) /\ ~ttisfunction(tm) ->
                luaD_throw(l, string("call"))
          [] called.stack[func][2] = "L" -> PrecallLua(called, func, nresults, cont)
          [] OTHER ->
                inc_ci(called, [called EXCEPT
                                  !.ci = Append(@, Frame(func, func + 1, called.top, nresults, cont)),
                                  !.todo = [k |-> "C"]])

\* A call from C.
luaD_call(l, func, nresults, cont) ==
    IF l.nCcalls + 1 >= LUAI_MAXCCALLS THEN luaD_throw(l, string("overflow"))
    ELSE luaD_precall([l EXCEPT !.nCcalls = @ + 1], func, nresults, cont)

\* A metamethod is called without counting the call.
callTMres_Uncounted(l, tm, p1, p2, cont) ==
    luaD_precall([SetAll(l, l.top, <<tm, p1, p2>>) EXCEPT !.top = @ + 3], l.top, 1, cont)

callTMres(l, tm, p1, p2, cont) ==
    luaD_call([SetAll(l, l.top, <<tm, p1, p2>>) EXCEPT !.top = @ + 3], l.top, 1, cont)

callTM(l, tm, p1, p2, p3) ==
    luaD_call([SetAll(l, l.top, <<tm, p1, p2, p3>>) EXCEPT !.top = @ + 4], l.top, 0, [k |-> "done"])

-----------------------------------------------------------------------------
(* The instruction of a frame.                                             *)

i_of(l) == clvalue(l, ci(l)).p.code[ci(l).savedpc]    \* the one being executed
next_of(l) == clvalue(l, ci(l)).p.code[ci(l).savedpc + 1]

dojump(l, n) == [l EXCEPT !.ci[Len(l.ci)].savedpc = @ + n]

\* A test is followed by a jump, which is taken or skipped.
Test(l, taken) == dojump(l, IF taken THEN next_of(l).b + 1 ELSE 1)

Conditional(l, res) == Test(l, res <=> i_of(l).a = 1)

-----------------------------------------------------------------------------
(* Functions of lbaselib.c.                                                *)

\* What print() shows of a value.
Shown(v) == IF ttype(v) \in {"table", "function"} THEN <<ttype(v)>> ELSE v

lua_setmetatable(l, t, mt) ==
    [l EXCEPT !.tables[t[2]].meta = IF mt = nil THEN 0 ELSE mt[2]]

\* An argument of the function that runs, and how many it has.
lua_gettop(l) == l.top - ci(l).base
index2adr(l, n) == IF n <= lua_gettop(l) THEN l.stack[ci(l).base + n - 1] ELSE nil

luaL_argerror(l) == luaD_throw(l, string("argument"))

luaB_print(l) ==
    Results([l EXCEPT !.out = Append(@, [n \in 1..lua_gettop(l) |-> Shown(index2adr(l, n))])], <<>>)

IsStr(v) == ttype(v) \in {"string", "number"}

\* What luaL_optstring() and luaL_optint() make of an argument, when it has the type.
IsOptString(v) == v = nil \/ IsStr(v)
IsOptNumber(v) == v = nil \/ isnumber(v)
luaL_optint(v, d) == IF v = nil THEN d ELSE tonumber(v)[2]

luaB_error(l) ==
    IF IsOptNumber(index2adr(l, 2)) THEN luaD_throw(l, index2adr(l, 1)) ELSE luaL_argerror(l)

\* A message gets no position here.
luaB_assert(l) ==
    LET message == index2adr(l, 2)
    IN  IF lua_gettop(l) = 0 \/ (l_isfalse(index2adr(l, 1)) /\ ~IsOptString(message))
        THEN luaL_argerror(l)
        ELSE IF ~l_isfalse(index2adr(l, 1)) THEN Return(l, ci(l).base)
        ELSE luaD_throw(l, IF message = nil THEN string("assertion failed!") ELSE tostring(message))

\* A protected call (f_call() in luaD_pcall()) remembers what an error puts back.
lua_pcall(l, func, nresults, cont) ==
    luaD_call([l EXCEPT !.errorJmp = Append(@, [ci |-> Len(l.ci), top |-> func,
                                                nCcalls |-> l.nCcalls])],
              func, nresults, cont)

luaB_pcall(l) ==
    IF lua_gettop(l) = 0 THEN luaL_argerror(l)
    ELSE lua_pcall(l, ci(l).base, LUA_MULTRET, [k |-> "pcall"])

luaL_getmetafield(l, o, event) == luaT_gettmbyobj(l, o, event)

luaB_setmetatable(l) ==
    LET t == index2adr(l, 1)
        mt == index2adr(l, 2)
    IN  IF ~(ttistable(t) /\ (ttistable(mt) \/ (lua_gettop(l) > 1 /\ mt = nil)))
        THEN luaL_argerror(l)
        ELSE IF luaL_getmetafield(l, t, "__metatable") # nil THEN luaD_throw(l, string("protected"))
        ELSE Results(lua_setmetatable(l, t, mt), <<t>>)

luaB_getmetatable(l) ==
    LET o == index2adr(l, 1)
        protection == luaL_getmetafield(l, o, "__metatable")
    IN  IF lua_gettop(l) = 0 THEN luaL_argerror(l)
        ELSE IF ~ttistable(o) \/ l.tables[o[2]].meta = 0 THEN Results(l, <<nil>>)
        ELSE Results(l, <<IF protection # nil THEN protection ELSE table(l.tables[o[2]].meta)>>)

luaB_type(l) ==
    IF lua_gettop(l) = 0 THEN luaL_argerror(l)
    ELSE Results(l, <<string(ttype(index2adr(l, 1)))>>)

\* A negative number counts from the last argument.
luaB_select(l) ==
    LET n == lua_gettop(l)
        first == index2adr(l, 1)
        asked == tonumber(first)[2]
        place == IF asked < 0 THEN n + asked ELSE IF asked > n THEN n ELSE asked
    IN  IF ttype(first) = "string" /\ first[2] # "" /\ SubSeq(first[2], 1, 1) = "#"
        THEN Results(l, <<number(n - 1)>>)
        ELSE IF ~isnumber(first) THEN luaL_argerror(l)
        ELSE IF place < 1 THEN luaL_argerror(l)
        ELSE Return(l, l.top - (n - place))

lua_checkstack(l, size) == lua_gettop(l) + size <= LUAI_MAXCSTACK

luaB_unpack(l) ==
    LET t == index2adr(l, 1)
        from == luaL_optint(index2adr(l, 2), 1)
        e == luaL_optint(index2adr(l, 3), luaH_getn(l.tables[t[2]]))
        n == e - from + 1
    IN  IF ~ttistable(t) \/ ~IsOptNumber(index2adr(l, 2)) \/ ~IsOptNumber(index2adr(l, 3))
        THEN luaL_argerror(l)
        ELSE IF n <= 0 THEN Results(l, <<>>)
        ELSE IF ~lua_checkstack(l, n) THEN luaD_throw(l, string("too many results"))
        ELSE Results(l, [j \in 1..n |-> luaH_get(l.tables[t[2]], number(from + j - 1))])

luaB_rawequal(l) ==
    IF lua_gettop(l) < 2 THEN luaL_argerror(l)
    ELSE Results(l, <<bool(index2adr(l, 1) = index2adr(l, 2))>>)

luaB_rawget(l) ==
    LET t == index2adr(l, 1)
    IN  IF ttistable(t) /\ lua_gettop(l) > 1
        THEN Results(l, <<luaH_get(l.tables[t[2]], index2adr(l, 2))>>)
        ELSE luaL_argerror(l)

luaB_rawset(l) ==
    LET t == index2adr(l, 1)
        key == index2adr(l, 2)
    IN  IF ~(ttistable(t) /\ lua_gettop(l) > 2) THEN luaL_argerror(l)
        ELSE IF key = nil THEN luaD_throw(l, string("nil key"))
        ELSE Results(luaH_set(l, t[2], key, index2adr(l, 3)), <<t>>)

luaB_ipairs(l) ==
    IF ttistable(index2adr(l, 1))
    THEN Results(l, <<CFunction("ipairsaux"), index2adr(l, 1), number(0)>>)
    ELSE luaL_argerror(l)

ipairsaux(l) ==
    LET t == index2adr(l, 1)
        n == number(tonumber(index2adr(l, 2))[2] + 1)
        v == luaH_get(l.tables[t[2]], n)
    IN  IF ~(isnumber(index2adr(l, 2)) /\ ttistable(t)) THEN luaL_argerror(l)
        ELSE Results(l, IF v = nil THEN <<>> ELSE <<n, v>>)

-----------------------------------------------------------------------------
(* Operations with metamethods.                                            *)

RECURSIVE luaV_gettable(_, _, _, _, _), luaV_settable(_, _, _, _, _)

luaV_gettable(l, t, key, val, loop) ==
    LET h == l.tables[t[2]]
        res == luaH_get(h, key)
        fast == fasttm(l, h.meta, "__index")
        tm == IF ttistable(t) THEN fast.tm ELSE luaT_gettmbyobj(l, t, "__index")
        tried == IF ttistable(t) THEN fast.l ELSE l
    IN  CASE loop = 0 -> luaD_throw(l, string("loop"))
          [] loop > 0 /\ ttistable(t) /\ res # nil -> Set(l, val, res)
          [] loop > 0 /\ ttistable(t) /\ res = nil /\ tm = nil -> Set(tried, val, nil)
          [] loop > 0 /\ ~ttistable(t) /\ tm = nil -> luaD_throw(l, string("index"))
          [] loop > 0 /\ ttisfunction(tm) ->
                callTMres(tried, tm, t, key, [k |-> "result", at |-> val])
          [] OTHER -> luaV_gettable(tried, tm, key, val, loop - 1)

\* luaH_set() makes the key before the metamethod is looked for, the value comes after.
luaV_settable(l, t, key, val, loop) ==
    LET oldval == luaH_get(l.tables[t[2]], key)
        made == luaH_set(l, t[2], key, oldval)
        fast == fasttm(made, made.tables[t[2]].meta, "__newindex")
        tm == IF ttistable(t) THEN fast.tm ELSE luaT_gettmbyobj(l, t, "__newindex")
        store(m) == [m EXCEPT !.tables[t[2]] = [Stored(@, key, val) EXCEPT !.flags = {}]]
    IN  CASE loop = 0 -> luaD_throw(l, string("loop"))
          [] loop > 0 /\ ttistable(t) /\ key = nil -> luaD_throw(l, string("nil key"))
          [] loop > 0 /\ ttistable(t) /\ key # nil /\ oldval # nil -> store(made)
          [] loop > 0 /\ ttistable(t) /\ key # nil /\ oldval = nil /\ tm = nil -> store(fast.l)
          [] loop > 0 /\ ~ttistable(t) /\ tm = nil -> luaD_throw(l, string("index"))
          [] loop > 0 /\ ttisfunction(tm) /\ ~(ttistable(t) /\ (key = nil \/ oldval # nil)) ->
                callTM(IF ttistable(t) THEN fast.l ELSE l, tm, t, key, val)
          [] OTHER -> luaV_settable(IF ttistable(t) THEN fast.l ELSE l, tm, key, val, loop - 1)

\* The metamethod of the first operand, else that of the second.
binTM(l, p1, p2, event) ==
    LET tm == luaT_gettmbyobj(l, p1, event)
    IN  IF tm = nil THEN luaT_gettmbyobj(l, p2, event) ELSE tm

call_binTM(l, p1, p2, event, cont, what) ==
    LET tm == binTM(l, p1, p2, event)
    IN  IF tm = nil THEN luaD_throw(l, string(what)) ELSE callTMres(l, tm, p1, p2, cont)

Arith(l, at, rb, rc, op, event) ==
    IF isnumber(rb) /\ isnumber(rc)
    THEN Set(l, at, number(luai_num(op, tonumber(rb)[2], tonumber(rc)[2])))
    ELSE call_binTM(l, rb, rc, event, [k |-> "result", at |-> at], "arithmetic")

\* As many strings as there are at the top become one.
RECURSIVE luaV_concat(_, _, _)
luaV_concat(l, total, last) ==
    LET top == ci(l).base + last + 1
        i == i_of(l)
        two == l.stack[top - 2]
        one == l.stack[top - 1]
        ns == {m \in 2..total : \A j \in 1..m : IsStr(l.stack[top - j])}
        n == CHOOSE m \in ns : \A o \in ns : o <= m
        RECURSIVE joined(_)
        joined(j) == IF j = 0 THEN "" ELSE tostring(l.stack[top - j])[2] \o joined(j - 1)
    IN  CASE total = 1 -> Set(l, ci(l).base + i.a, l.stack[ci(l).base + i.b])
          [] total > 1 /\ ~(IsStr(two) /\ IsStr(one)) ->
                call_binTM(l, two, one, "__concat",
                           [k |-> "concat", at |-> top - 2, total |-> total - 1, last |-> last - 1],
                           "concatenate")
          [] total > 1 /\ IsStr(two) /\ tostring(one)[2] = "" ->
                luaV_concat(Set(l, top - 2, tostring(two)), total - 1, last - 1)
          [] OTHER ->
                luaV_concat(Set(l, top - n, string(joined(n))), total - n + 1, last - n + 1)

\* The order of the C locale.
Collation == "!#-0123456789:<=>abcdefghijklmnopqrstuvwxyz"
Rank(c) == CHOOSE n \in 1..Len(Collation) : SubSeq(Collation, n, n) = c

RECURSIVE strcoll(_, _)
strcoll(x, y) ==
    CASE x = y -> 0
      [] x # y /\ x = "" -> -1
      [] x # y /\ y = "" -> 1
      [] OTHER -> LET d == Rank(SubSeq(x, 1, 1)) - Rank(SubSeq(y, 1, 1))
                  IN  IF d # 0 THEN d ELSE strcoll(SubSeq(x, 2, Len(x)), SubSeq(y, 2, Len(y)))

Condition(negated) == [k |-> "condition", negated |-> negated]

orderTM(l, p1, p2, event) ==
    LET tm == luaT_gettmbyobj(l, p1, event)
    IN  IF tm = luaT_gettmbyobj(l, p2, event) THEN tm ELSE nil

luaV_lessthan(l, x, y) ==
    LET tm == orderTM(l, x, y, "__lt")
    IN  CASE ttype(x) = "number" /\ ttype(y) = "number" -> Conditional(l, x[2] < y[2])
          [] ttype(x) = "string" /\ ttype(y) = "string" -> Conditional(l, strcoll(x[2], y[2]) < 0)
          [] ttype(x) = ttype(y) /\ tm # nil -> callTMres(l, tm, x, y, Condition(FALSE))
          [] OTHER -> luaD_throw(l, string("compare"))

\* Without __le, x <= y is not (y < x).
lessequal(l, x, y) ==
    LET le == orderTM(l, x, y, "__le")
        lt == orderTM(l, y, x, "__lt")
    IN  CASE ttype(x) = "number" /\ ttype(y) = "number" -> Conditional(l, x[2] <= y[2])
          [] ttype(x) = "string" /\ ttype(y) = "string" -> Conditional(l, strcoll(x[2], y[2]) <= 0)
          [] ttype(x) = ttype(y) /\ le # nil -> callTMres(l, le, x, y, Condition(FALSE))
          [] ttype(x) = ttype(y) /\ le = nil /\ lt # nil -> callTMres(l, lt, y, x, Condition(TRUE))
          [] OTHER -> luaD_throw(l, string("compare"))

\* The metamethod of two tables is called when both have the same.
get_compTM(l, mt1, mt2, event) ==
    LET one == fasttm(l, mt1, event)
        two == fasttm(one.l, mt2, event)
    IN  CASE one.tm = nil \/ mt1 = mt2 -> one
          [] one.tm # nil /\ mt1 # mt2 /\ two.tm = one.tm -> two
          [] OTHER -> [two EXCEPT !.tm = nil]

luaV_equalval(l, x, y) ==
    LET comp == get_compTM(l, l.tables[x[2]].meta, l.tables[y[2]].meta, "__eq")
    IN  IF ~(ttistable(x) /\ ttistable(y)) \/ x = y THEN Conditional(l, x = y)
        ELSE IF comp.tm = nil THEN Conditional(comp.l, FALSE)
        ELSE callTMres(comp.l, comp.tm, x, y, Condition(FALSE))

-----------------------------------------------------------------------------
(* Steps between instructions.                                             *)

\* The error object becomes the only value above a place.
luaD_seterrorobj(l, v, oldtop) == [Set(l, oldtop, v) EXCEPT !.top = oldtop + 1]

\* What luaB_pcall() puts below the results of lua_pcall().
Status(l, status) ==
    LET base == ci(l).base
    IN  [SetAll(l, base, <<bool(status)>> \o Values(l, base, l.top)) EXCEPT !.top = @ + 1]

\* What C does with the results of the call it has made.
Continue(l, callee) ==
    LET cont == callee.cont
        back == [l EXCEPT !.nCcalls = @ - 1]
        result == l.stack[l.top - 1]
        one == [back EXCEPT !.top = @ - 1]
        again == [back EXCEPT !.top = ci(l).top]
    IN  CASE cont.k = "call" ->
                IF callee.nresults = LUA_MULTRET THEN l ELSE [l EXCEPT !.top = ci(l).top]
          [] cont.k = "exit" -> [back EXCEPT !.status = "done"]
          [] cont.k = "done" -> back
          [] cont.k = "result" -> Set(one, cont.at, result)
          [] cont.k = "condition" -> Conditional(one, l_isfalse(result) = cont.negated)
          [] cont.k = "concat" -> luaV_concat(Set(one, cont.at, result), cont.total, cont.last)
          [] cont.k = "for" ->
                IF l.stack[cont.at] = nil THEN Test(again, FALSE)
                ELSE Test(Set(again, cont.at - 1, l.stack[cont.at]), TRUE)
          [] cont.k = "pcall" ->
                Return([Status(back, TRUE) EXCEPT !.errorJmp = SubSeq(@, 1, Len(@) - 1)], ci(l).base)

\* An error goes to the last protected call that has not returned (luaD_pcall).
Catch(l, v) ==
    LET lj == l.errorJmp[Len(l.errorJmp)]
        closed == luaF_close(l, lj.top)
        caught == [luaD_seterrorobj(closed, v, lj.top) EXCEPT
                     !.errorJmp = SubSeq(@, 1, Len(@) - 1), !.ci = SubSeq(@, 1, lj.ci),
                     !.nCcalls = lj.nCcalls]
    IN  IF l.errorJmp = <<>> THEN [l EXCEPT !.status = "error"]
        ELSE Return(Status(restore_stack_limit(caught), FALSE), lj.top)

Todo(k) == L.status = "running" /\ L.todo.k = k /\ UNCHANGED chunkname

Going == [L EXCEPT !.todo = [k |-> "execute"]]

Throw == Todo("throw") /\ L' = Catch(Going, L.todo.v)

Returning == Todo("return") /\ L' = Continue(luaD_poscall(Going, L.todo.first), ci(L))

RunC(name) == Todo("C") /\ L.stack[ci(L).func][3] = name

LibraryCall ==
    \/ RunC("print") /\ L' = luaB_print(Going)
    \/ RunC("error") /\ L' = luaB_error(Going)
    \/ RunC("assert") /\ L' = luaB_assert(Going)
    \/ RunC("pcall") /\ L' = luaB_pcall(Going)
    \/ RunC("setmetatable") /\ L' = luaB_setmetatable(Going)
    \/ RunC("getmetatable") /\ L' = luaB_getmetatable(Going)
    \/ RunC("rawset") /\ L' = luaB_rawset(Going)
    \/ RunC("rawget") /\ L' = luaB_rawget(Going)
    \/ RunC("rawequal") /\ L' = luaB_rawequal(Going)
    \/ RunC("type") /\ L' = luaB_type(Going)
    \/ RunC("select") /\ L' = luaB_select(Going)
    \/ RunC("unpack") /\ L' = luaB_unpack(Going)
    \/ RunC("ipairs") /\ L' = luaB_ipairs(Going)
    \/ RunC("ipairsaux") /\ L' = ipairsaux(Going)

-----------------------------------------------------------------------------
(* luaV_execute(): one action per instruction.                             *)

Fetched == dojump(L, 1)

i == i_of(Fetched)

base == ci(L).base
ra == base + i.a

R_(x) == L.stack[base + x]
RK(x) == IF ISK(x) THEN clvalue(L, ci(L)).p.k[INDEXK(x) + 1] ELSE R_(x)
KBx == clvalue(L, ci(L)).p.k[i.b + 1]

Execute(op) == Todo("execute") /\ i.op = op

globals == table(1)

OP_MOVE == Execute("MOVE") /\ L' = Set(Fetched, ra, R_(i.b))

OP_LOADK == Execute("LOADK") /\ L' = Set(Fetched, ra, KBx)

OP_LOADBOOL ==
    /\ Execute("LOADBOOL")
    /\ L' = dojump(Set(Fetched, ra, bool(i.b = 1)), i.c)

OP_LOADNIL ==
    /\ Execute("LOADNIL")
    /\ L' = SetAll(Fetched, ra, [j \in 1..(i.b - i.a + 1) |-> nil])

OP_GETUPVAL ==
    /\ Execute("GETUPVAL")
    /\ L' = Set(Fetched, ra, upvalue(L, clvalue(L, ci(L)).upvals[i.b + 1]))

OP_SETUPVAL ==
    /\ Execute("SETUPVAL")
    /\ LET u == clvalue(L, ci(L)).upvals[i.b + 1]
       IN  L' = IF L.upvals[u].open THEN Set(Fetched, L.upvals[u].at, L.stack[ra])
                ELSE [Fetched EXCEPT !.upvals[u].v = L.stack[ra]]

OP_GETGLOBAL ==
    Execute("GETGLOBAL") /\ L' = luaV_gettable(Fetched, globals, KBx, ra, MAXTAGLOOP)

OP_SETGLOBAL ==
    Execute("SETGLOBAL") /\ L' = luaV_settable(Fetched, globals, KBx, L.stack[ra], MAXTAGLOOP)

OP_GETTABLE ==
    Execute("GETTABLE") /\ L' = luaV_gettable(Fetched, R_(i.b), RK(i.c), ra, MAXTAGLOOP)

OP_SETTABLE ==
    Execute("SETTABLE") /\ L' = luaV_settable(Fetched, L.stack[ra], RK(i.b), RK(i.c), MAXTAGLOOP)

OP_NEWTABLE ==
    /\ Execute("NEWTABLE")
    /\ L' = Set([Fetched EXCEPT !.tables = Append(@, NewTable(<<>>))], ra,
                table(Len(L.tables) + 1))

OP_SELF ==
    /\ Execute("SELF")
    /\ L' = luaV_gettable(Set(Fetched, ra + 1, R_(i.b)), R_(i.b), RK(i.c), ra, MAXTAGLOOP)

Event == [ADD |-> "__add", SUB |-> "__sub", MUL |-> "__mul", DIV |-> "__div", MOD |-> "__mod",
          POW |-> "__pow"]

OP_ARITH ==
    \E op \in DOMAIN Event :
        Execute(op) /\ L' = Arith(Fetched, ra, RK(i.b), RK(i.c), op, Event[op])

OP_UNM ==
    /\ Execute("UNM")
    /\ L' = IF isnumber(R_(i.b)) THEN Set(Fetched, ra, number(-tonumber(R_(i.b))[2]))
            ELSE Arith(Fetched, ra, R_(i.b), R_(i.b), "UNM", "__unm")

OP_NOT == Execute("NOT") /\ L' = Set(Fetched, ra, bool(l_isfalse(R_(i.b))))

OP_LEN ==
    /\ Execute("LEN")
    /\ LET rb == R_(i.b)
       IN  L' = CASE ttistable(rb) -> Set(Fetched, ra, number(luaH_getn(L.tables[rb[2]])))
                  [] ttype(rb) = "string" -> Set(Fetched, ra, number(Len(rb[2])))
                  [] OTHER ->
                        call_binTM(Fetched, rb, nil, "__len", [k |-> "result", at |-> ra], "length")

OP_CONCAT == Execute("CONCAT") /\ L' = luaV_concat(Fetched, i.c - i.b + 1, i.c)

OP_JMP == Execute("JMP") /\ L' = dojump(Fetched, i.b)

OP_EQ == Execute("EQ") /\ L' = luaV_equalval(Fetched, RK(i.b), RK(i.c))

OP_LT == Execute("LT") /\ L' = luaV_lessthan(Fetched, RK(i.b), RK(i.c))

OP_LE == Execute("LE") /\ L' = lessequal(Fetched, RK(i.b), RK(i.c))

OP_TEST == Execute("TEST") /\ L' = Test(Fetched, l_isfalse(L.stack[ra]) # (i.c = 1))

OP_TESTSET ==
    /\ Execute("TESTSET")
    /\ L' = IF l_isfalse(R_(i.b)) # (i.c = 1) THEN Test(Set(Fetched, ra, R_(i.b)), TRUE)
            ELSE Test(Fetched, FALSE)

\* Without a count, the arguments end at the top that the last instruction has set.
Called == IF i.b # 0 THEN [Fetched EXCEPT !.top = ra + i.b] ELSE Fetched

OP_CALL == Execute("CALL") /\ L' = luaD_precall(Called, ra, i.c - 1, ByInstruction)

\* The frame of a Lua function takes the place of the caller's.
OP_TAILCALL ==
    /\ Execute("TAILCALL")
    /\ LET new == luaD_precall(Called, ra, LUA_MULTRET, ByInstruction)
           n == Len(L.ci)
           func == L.ci[n].func
           callee == new.ci[n + 1]
           moved == SetAll(luaF_close(new, base), func, Values(new, callee.func, new.top))
           top == func + new.top - callee.func
       IN  L' = IF Len(new.ci) = n + 1 /\ new.todo.k = "execute"
                THEN [moved EXCEPT
                        !.ci = Append(SubSeq(@, 1, n - 1),
                                      [L.ci[n] EXCEPT !.base = func + callee.base - callee.func,
                                                      !.top = top, !.savedpc = 0]),
                        !.top = top]
                ELSE new

OP_RETURN ==
    /\ Execute("RETURN")
    /\ LET top == IF i.b # 0 THEN ra + i.b - 1 ELSE L.top
       IN  L' = Return(luaF_close([Fetched EXCEPT !.top = top], base), ra)

OP_FORLOOP ==
    /\ Execute("FORLOOP")
    /\ LET step == L.stack[ra + 2][2]
           idx == L.stack[ra][2] + step
           limit == L.stack[ra + 1][2]
       IN  L' = IF IF step > 0 THEN idx <= limit ELSE limit <= idx
                THEN dojump(Set(Set(Fetched, ra, number(idx)), ra + 3, number(idx)), i.b)
                ELSE Fetched

OP_FORPREP ==
    /\ Execute("FORPREP")
    /\ LET n(j) == tonumber(L.stack[ra + j])
       IN  L' = IF \A j \in 0..2 : isnumber(L.stack[ra + j])
                THEN dojump(SetAll(Fetched, ra, <<number(n(0)[2] - n(2)[2]), n(1), n(2)>>), i.b)
                ELSE luaD_throw(Fetched, string("for"))

OP_TFORLOOP ==
    /\ Execute("TFORLOOP")
    /\ L' = luaD_call([SetAll(Fetched, ra + 3, Values(L, ra, ra + 3)) EXCEPT !.top = ra + 6],
                      ra + 3, i.c, [k |-> "for", at |-> ra + 3])

OP_SETLIST ==
    /\ Execute("SETLIST")
    /\ LET n == IF i.b = 0 THEN L.top - ra - 1 ELSE i.b
           first == (i.c - 1) * LFIELDS_PER_FLUSH
           items == [k \in {number(first + j) : j \in 1..n} |-> L.stack[ra + k[2] - first]]
           h == L.stack[ra][2]
           stored == {k \in DOMAIN items : items[k] # nil}
       IN  L' = [Fetched EXCEPT
                   !.top = ci(L).top,
                   !.tables[h].map = [k \in stored |-> items[k]]
                                      @@ [k \in DOMAIN @ \ DOMAIN items |-> @[k]]]

OP_CLOSE == Execute("CLOSE") /\ L' = luaF_close(Fetched, ra)

\* The instructions after it say which variables it captures.
OP_CLOSURE ==
    /\ Execute("CLOSURE")
    /\ LET cl == clvalue(L, ci(L))
           p == cl.p.p[i.b + 1]
           RECURSIVE captured(_)
           captured(j) ==
             LET before == captured(j - 1)
                 u == cl.p.code[ci(L).savedpc + 1 + j]
                 found == luaF_findupval(before.l, base + u.b)
             IN  IF j = 0 THEN [l |-> Fetched, ups |-> <<>>]
                 ELSE IF u.op = "GETUPVAL"
                 THEN [before EXCEPT !.ups = Append(@, cl.upvals[u.b + 1])]
                 ELSE [l |-> found.l, ups |-> Append(before.ups, found.u)]
           all == captured(p.nups)
       IN  L' = Set([dojump(all.l, p.nups) EXCEPT
                       !.closures = Append(@, [p |-> p, upvals |-> all.ups])],
                    ra, LFunction(Len(L.closures) + 1))

OP_VARARG ==
    /\ Execute("VARARG")
    /\ LET n == base - ci(L).func - clvalue(L, ci(L)).p.numparams - 1
           b == IF i.b = 0 THEN n ELSE i.b - 1
           values == [j \in 1..b |-> IF j <= n THEN L.stack[base - n + j - 1] ELSE nil]
       IN  L' = [SetAll(Fetched, ra, values) EXCEPT !.top = IF i.b = 0 THEN ra + n ELSE @]

-----------------------------------------------------------------------------
(* The host of Lua compiles the chunk and calls it (lua_load, lua_pcall).   *)

Empty == [
    status |-> "loaded", bad |-> FALSE, todo |-> [k |-> "execute"], out |-> <<>>, nCcalls |-> 0, errorJmp |-> <<>>,
    stack |-> [at \in 0..(STACKSIZE - 1) |-> nil], top |-> 1, openupval |-> <<>>, upvals |-> <<>>,
    closures |-> <<>>, ci |-> <<Frame(0, 1, 1, 0, ByInstruction)>>, size_ci |-> BASIC_CI_SIZE,
    tables |-> <<NewTable([k \in {string(x) : x \in CFunctions \ {"ipairsaux"}} |-> CFunction(k[2])])>>]

Init == chunkname \in Chunks /\ L = Empty

\* f_parser(), then the call of the main function.
Loaded(parsed) ==
    LET main == [p |-> parsed.f, upvals |-> <<>>]
        pushed == [Set(L, 1, LFunction(1)) EXCEPT
                     !.closures = <<main>>, !.bad = parsed.bad, !.status = "running", !.top = 2]
    IN  IF parsed.err THEN [L EXCEPT !.status = "syntax error"]
        ELSE luaD_call(pushed, 1, 0, [k |-> "exit"])

Start ==
    /\ L.status = "loaded"
    /\ L' = Loaded(luaY_parser(Chunk(chunkname)))
    /\ UNCHANGED chunkname

Ended == L.status \notin {"loaded", "running"} /\ UNCHANGED vars

Next ==
    \/ Start \/ Ended \/ Throw \/ Returning \/ LibraryCall
    \/ OP_MOVE \/ OP_LOADK \/ OP_LOADBOOL \/ OP_LOADNIL \/ OP_GETUPVAL \/ OP_SETUPVAL
    \/ OP_GETGLOBAL \/ OP_SETGLOBAL \/ OP_GETTABLE \/ OP_SETTABLE \/ OP_NEWTABLE \/ OP_SELF
    \/ OP_ARITH \/ OP_UNM \/ OP_NOT \/ OP_LEN \/ OP_CONCAT \/ OP_JMP \/ OP_EQ \/ OP_LT \/ OP_LE
    \/ OP_TEST \/ OP_TESTSET \/ OP_CALL \/ OP_TAILCALL \/ OP_RETURN \/ OP_FORLOOP \/ OP_FORPREP
    \/ OP_TFORLOOP \/ OP_SETLIST \/ OP_CLOSE \/ OP_CLOSURE \/ OP_VARARG

Spec == Init /\ [][Next]_vars

-----------------------------------------------------------------------------
(* Properties.                                                             *)

Value(v) == ttype(v) \in {"nil", "boolean", "number", "string", "table", "function"}

\* Types: what runs is a frame on the stack, and registers hold values.
TypeOK ==
    /\ L.status \in {"loaded", "running", "done", "error", "syntax error"}
    /\ DOMAIN L.stack = 0..(STACKSIZE - 1) /\ L.top \in 1..STACKSIZE
    /\ \A at \in DOMAIN L.stack : Value(L.stack[at])
    /\ L.ci # <<>> /\ \A n \in DOMAIN L.ci : L.ci[n].func < L.ci[n].base /\ L.ci[n].top <= STACKSIZE
    /\ \A n \in DOMAIN L.ci \ {1} : L.ci[n - 1].base <= L.ci[n].func
    /\ \A h \in DOMAIN L.tables : L.tables[h].meta \in 0..Len(L.tables)

RECURSIVE Prototypes(_)
Prototypes(p) == {p} \cup UNION {Prototypes(p.p[n]) : n \in DOMAIN p.p}

JustLoaded == L.status = "running" /\ Len(L.closures) = 1 /\ ci(L).savedpc = 0

\* luaV_execute() tests neither registers nor jumps: what luaY_parser() makes of any
\* chunk, with every function in it, is code that luaG_checkcode() accepts, and no
\* assertion of the parser or the generator fails on the way.
CodeAccepted ==
    /\ ~L.bad
    /\ JustLoaded => \A p \in Prototypes(L.closures[1].p) : luaG_checkcode(p)

\* The assertions of luaV_execute() and the count of calls that keeps the C stack:
\* the top is that of the frame unless the next instruction takes open results, the
\* frames are in their array, and nCcalls is the number of frames called from C, after
\* errors too.
AssertionsHold ==
    L.status = "running" /\ L.todo.k = "execute" =>
        /\ isLua(L, ci(L))
        /\ base <= L.top
        /\ L.top = ci(L).top \/ luaG_checkopenop(i)
        /\ Len(L.ci) <= L.size_ci
        /\ L.nCcalls = Cardinality({n \in DOMAIN L.ci : L.ci[n].cont # ByInstruction})

\* A captured variable has one open upvalue while its register lives: the list, which
\* luaF_findupval() and luaF_close() stop searching at the first lower level, is in
\* order, has every open upvalue, and names no register above the running frame.
OpenUpvals ==
    /\ \A m, n \in DOMAIN L.openupval :
         m < n => L.upvals[L.openupval[m]].at > L.upvals[L.openupval[n]].at
    /\ {L.openupval[n] : n \in DOMAIN L.openupval} = {u \in DOMAIN L.upvals : L.upvals[u].open}
    /\ L.status = "running" => \A n \in DOMAIN L.openupval : L.upvals[L.openupval[n]].at < ci(L).top

\* The stack, its frames and the variables captured on it fit each other.
StackConsistent == TypeOK /\ OpenUpvals

\* fasttm() believes the flags of a table: a metamethod they say is absent is not in
\* the table, though fields are set through registers, constructors and rawset().
FlagsTrue ==
    \A h \in DOMAIN L.tables : \A event \in L.tables[h].flags :
        luaH_get(L.tables[h], string(event)) = nil
=============================================================================
