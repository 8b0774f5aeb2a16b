---------------------------- MODULE LuaCompiler ----------------------------
(***************************************************************************)
(* The compiler of Lua: the parser (lparser.c) drives the code generator    *)
(* (lcode.c) while it reads the tokens, and there is no syntax tree.        *)
(*                                                                         *)
(* fs is a FuncState, e an expdesc.  An operator that changes both returns  *)
(* a record of both.  A list of jumps, which the code threads through the  *)
(* jumps themselves, is the set of their positions; a jump without a target *)
(* has the offset NO_JUMP.  fs.err is the first error of the limits, fs.bad *)
(* says that an lua_assert() has failed.                                   *)
(*                                                                         *)
(* s is the LexState: the tokens, the position of the current one, and the  *)
(* FuncStates of the functions being compiled, the innermost last.  An      *)
(* operator that fills an expdesc returns it with s.  A syntax error moves  *)
(* to the end of the tokens, where every rule stops.  Where a line begins   *)
(* is not modelled: neither the line numbers kept for messages nor the test *)
(* for a call whose arguments begin a line.                                *)
(***************************************************************************)
EXTENDS LuaOpcodes

(* The functions that the others are built from call each other in every    *)
(* way.  They are reached by name, through Invoke: f_ is the body of f.       *)

RECURSIVE Invoke(_, _)

luaK_codeABC(fs, o, a, b, c) == Invoke("luaK_codeABC", <<fs, o, a, b, c>>)
luaK_dischargevars(fs, e) == Invoke("luaK_dischargevars", <<fs, e>>)
discharge2reg(fs, e, reg) == Invoke("discharge2reg", <<fs, e, reg>>)
exp2reg(fs, e, reg) == Invoke("exp2reg", <<fs, e, reg>>)
luaK_exp2nextreg(fs, e) == Invoke("luaK_exp2nextreg", <<fs, e>>)
luaK_exp2anyreg(fs, e) == Invoke("luaK_exp2anyreg", <<fs, e>>)
luaK_exp2RK(fs, e) == Invoke("luaK_exp2RK", <<fs, e>>)
luaK_infix(fs, op, v) == Invoke("luaK_infix", <<fs, op, v>>)
luaK_posfix(fs, op, e1, e2) == Invoke("luaK_posfix", <<fs, op, e1, e2>>)
luaK_prefix(fs, op, e) == Invoke("luaK_prefix", <<fs, op, e>>)
singlevar(s) == Invoke("singlevar", <<s>>)
field(s, v) == Invoke("field", <<s, v>>)
constructor(s) == Invoke("constructor", <<s>>)
body(s, needself) == Invoke("body", <<s, needself>>)
funcargs(s, f) == Invoke("funcargs", <<s, f>>)
primaryexp(s) == Invoke("primaryexp", <<s>>)
subexpr(s, limit) == Invoke("subexpr", <<s, limit>>)
cond(s) == Invoke("cond", <<s>>)
forbody(s, base, nvars, isnum) == Invoke("forbody", <<s, base, nvars, isnum>>)
statement(s) == Invoke("statement", <<s>>)
chunk(s) == Invoke("chunk", <<s>>)
luaY_parser(toks) == Invoke("luaY_parser", <<toks>>)

pc(fs) == Len(fs.code)

W(fs, e) == [fs |-> fs, e |-> e]

init_exp(k, i) == [k |-> k, info |-> i, aux |-> 0, t |-> {}, f |-> {}]

lua_assert(fs, truth) == IF truth THEN fs ELSE [fs EXCEPT !.bad = TRUE]

Limit(fs, ok, what) == IF ok \/ fs.err # "" THEN fs ELSE [fs EXCEPT !.err = what]

hasjumps(e) == e.t # e.f

isnumeral(e) == e.k = "VKNUM" /\ ~hasjumps(e)

-----------------------------------------------------------------------------
(* Jumps.                                                                  *)

\* The index in fs.code of the instruction that decides whether a jump is taken.
getjumpcontrol(fs, j) == IF j >= 1 /\ testTMode(fs.code[j].op) THEN j ELSE j + 1

need_value(fs, list) == \E j \in list : fs.code[getjumpcontrol(fs, j)].op # "TESTSET"

\* A test that has a value to move is told where, or told that nobody wants it.
patchtestreg(i, reg) ==
    IF i.op # "TESTSET" THEN i
    ELSE IF reg \notin {NO_REG, i.b} THEN [i EXCEPT !.a = reg]
    ELSE CREATE_ABC("TEST", i.b, 0, i.c)

\* Replaces the instructions at some indices.
Replace(fs, indices, New(_, _)) == [fs EXCEPT !.code = [n \in indices |-> New(n, @[n])] @@ @]

removevalues(fs, list) ==
    Replace(fs, {getjumpcontrol(fs, j) : j \in list}, LAMBDA n, i : patchtestreg(i, NO_REG))

\* Jumps with a value go to vtarget, the others to dtarget.
patchlistaux(fs, list, vtarget, reg, dtarget) ==
    LET controls == {getjumpcontrol(fs, j) : j \in list}
        target(j) == IF fs.code[getjumpcontrol(fs, j)].op = "TESTSET" THEN vtarget ELSE dtarget
        jumped == Replace(fs, {j + 1 : j \in list},
                          LAMBDA n, i : [i EXCEPT !.b = target(n - 1) - n])
    IN  Replace(jumped, {n \in controls : fs.code[n].op = "TESTSET"},
                LAMBDA n, i : patchtestreg(i, reg))

dischargejpc(fs) ==
    [patchlistaux(fs, fs.jpc, pc(fs), NO_REG, pc(fs)) EXCEPT !.jpc = {}]

luaK_code(fs, i) == [dischargejpc(fs) EXCEPT !.code = Append(@, i)]

luaK_codeABC_(fs, o, a, b, c) ==
    lua_assert(luaK_code(fs, CREATE_ABC(o, a, b, c)),
               /\ getOpMode(o) = "iABC"
               /\ getBMode(o) = "N" => b = 0
               /\ getCMode(o) = "N" => c = 0)

luaK_codeABx(fs, o, a, b) ==
    lua_assert(luaK_code(fs, CREATE_ABx(o, a, b)),
               getOpMode(o) # "iABC" /\ getCMode(o) = "N")

luaK_getlabel(fs) == [fs EXCEPT !.lasttarget = pc(fs)]

luaK_patchtohere(fs, list) == [luaK_getlabel(fs) EXCEPT !.jpc = @ \cup list]

luaK_patchlist(fs, list, target) ==
    IF target = pc(fs) THEN luaK_patchtohere(fs, list)
    ELSE patchlistaux(lua_assert(fs, target < pc(fs)), list, target, NO_REG, target)

\* A jump takes the jumps to itself with it.
luaK_jump(fs) ==
    [fs |-> luaK_codeABx([fs EXCEPT !.jpc = {}], "JMP", 0, NO_JUMP),
     list |-> {pc(fs)} \cup fs.jpc]

condjump(fs, op, a, b, c) == luaK_jump(luaK_codeABC(fs, op, a, b, c)).fs

luaK_ret(fs, first, nret) == luaK_codeABC(fs, "RETURN", first, nret + 1, 0)

\* Registers from..from+n-1 become nil, by the instruction before if it can do it.
luaK_nil(fs, from, n) ==
    LET previous == fs.code[pc(fs)]
        reachable == pc(fs) <= fs.lasttarget  \* a jump may come here
        clean == pc(fs) = 0 /\ from >= fs.nactvar
        connect == /\ pc(fs) > 0 /\ previous.op = "LOADNIL"
                   /\ previous.a <= from /\ from <= previous.b + 1
    IN  CASE ~reachable /\ clean -> fs
          [] ~reachable /\ connect ->
                IF from + n - 1 > previous.b THEN [fs EXCEPT !.code[pc(fs)].b = from + n - 1]
                ELSE fs
          [] OTHER -> luaK_codeABC(fs, "LOADNIL", from, from + n - 1, 0)

-----------------------------------------------------------------------------
(* Registers and constants.                                                *)

luaK_checkstack(fs, n) ==
    LET newstack == fs.freereg + n
    IN  IF newstack <= fs.maxstacksize THEN fs
        ELSE [Limit(fs, newstack < MAXSTACK, "function or expression too complex")
                EXCEPT !.maxstacksize = newstack]

\* The size of the stack is not checked.
luaK_reserveregs_NoCheck(fs, n) == [fs EXCEPT !.freereg = @ + n]

luaK_reserveregs(fs, n) == [luaK_checkstack(fs, n) EXCEPT !.freereg = @ + n]

freereg(fs, reg) ==
    IF ~ISK(reg) /\ reg >= fs.nactvar
    THEN lua_assert([fs EXCEPT !.freereg = @ - 1], reg = fs.freereg - 1)
    ELSE fs

freeexp(fs, e) == IF e.k = "VNONRELOC" THEN freereg(fs, e.info) ELSE fs

\* The index of a constant, which is added when it is new.
addk(fs, v) ==
    IF \E i \in DOMAIN fs.k : fs.k[i] = v
    THEN [fs |-> fs, i |-> (CHOOSE i \in DOMAIN fs.k : fs.k[i] = v) - 1]
    ELSE [fs |-> [fs EXCEPT !.k = Append(@, v)], i |-> Len(fs.k)]

-----------------------------------------------------------------------------
(* Expressions.                                                            *)

luaK_setreturns(fs, e, nresults) ==
    CASE e.k = "VCALL" -> [fs EXCEPT !.code[e.info + 1].c = nresults + 1]
      [] e.k = "VVARARG" ->
            luaK_reserveregs([fs EXCEPT !.code[e.info + 1].b = nresults + 1,
                                        !.code[e.info + 1].a = fs.freereg], 1)
      [] OTHER -> fs

luaK_setmultret(fs, e) == luaK_setreturns(fs, e, LUA_MULTRET)

luaK_setoneret(fs, e) ==
    CASE e.k = "VCALL" ->
            W(fs, [e EXCEPT !.k = "VNONRELOC", !.info = fs.code[e.info + 1].a])
      [] e.k = "VVARARG" ->
            W([fs EXCEPT !.code[e.info + 1].b = 2], [e EXCEPT !.k = "VRELOCABLE"])
      [] OTHER -> W(fs, e)

Relocable(fs, e) == W(fs, [e EXCEPT !.k = "VRELOCABLE", !.info = pc(fs) - 1])

luaK_dischargevars_(fs, e) ==
    CASE e.k = "VLOCAL" -> W(fs, [e EXCEPT !.k = "VNONRELOC"])
      [] e.k = "VUPVAL" -> Relocable(luaK_codeABC(fs, "GETUPVAL", 0, e.info, 0), e)
      [] e.k = "VGLOBAL" -> Relocable(luaK_codeABx(fs, "GETGLOBAL", 0, e.info), e)
      [] e.k = "VINDEXED" ->
            Relocable(luaK_codeABC(freereg(freereg(fs, e.aux), e.info),
                                   "GETTABLE", 0, e.info, e.aux), e)
      [] e.k \in {"VVARARG", "VCALL"} -> luaK_setoneret(fs, e)
      [] OTHER -> W(fs, e)

code_label(fs, a, b, jump) == luaK_codeABC(luaK_getlabel(fs), "LOADBOOL", a, b, jump)

discharge2reg_(fs, e, reg) ==
    LET d == luaK_dischargevars(fs, e)
        k == d.e.k
        const == addk(d.fs, number(d.e.info))
        coded ==
          CASE k = "VNIL" -> luaK_nil(d.fs, reg, 1)
            [] k = "VFALSE" -> luaK_codeABC(d.fs, "LOADBOOL", reg, 0, 0)
            [] k = "VTRUE" -> luaK_codeABC(d.fs, "LOADBOOL", reg, 1, 0)
            [] k = "VK" -> luaK_codeABx(d.fs, "LOADK", reg, d.e.info)
            [] k = "VKNUM" -> luaK_codeABx(const.fs, "LOADK", reg, const.i)
            [] k = "VRELOCABLE" -> [d.fs EXCEPT !.code[d.e.info + 1].a = reg]
            [] k = "VNONRELOC" /\ reg # d.e.info -> luaK_codeABC(d.fs, "MOVE", reg, d.e.info, 0)
            [] OTHER -> d.fs
    IN  IF k \in {"VVOID", "VJMP"} THEN d
        ELSE W(coded, [d.e EXCEPT !.k = "VNONRELOC", !.info = reg])

discharge2anyreg(fs, e) ==
    IF e.k = "VNONRELOC" THEN W(fs, e)
    ELSE discharge2reg(luaK_reserveregs(fs, 1), e, fs.freereg)

\* Jumps that carry no value land on instructions that load one.
exp2reg_(fs, e, reg) ==
    LET d == discharge2reg(fs, e, reg)
        jump == d.e.k = "VJMP"
        t == d.e.t \cup (IF jump THEN {d.e.info} ELSE {})
        f == d.e.f
        load == need_value(d.fs, t) \/ need_value(d.fs, f)
        over == IF jump THEN [fs |-> d.fs, list |-> {}] ELSE luaK_jump(d.fs)
        p_f == pc(over.fs)
        loads == luaK_patchtohere(
                   code_label(code_label(over.fs, reg, 0, 1), reg, 1, 0), over.list)
        here == luaK_getlabel(IF load THEN loads ELSE d.fs)
        patched == patchlistaux(patchlistaux(here, f, pc(here), reg, p_f),
                                t, pc(here), reg, p_f + 1)
    IN  W(IF t \cup f # {} THEN patched ELSE d.fs, init_exp("VNONRELOC", reg))

luaK_exp2nextreg_(fs, e) ==
    LET d == luaK_dischargevars(fs, e)
        r == luaK_reserveregs(freeexp(d.fs, d.e), 1)
    IN  exp2reg(r, d.e, r.freereg - 1)

luaK_exp2anyreg_(fs, e) ==
    LET d == luaK_dischargevars(fs, e)
    IN  CASE d.e.k = "VNONRELOC" /\ ~hasjumps(d.e) -> d
          [] d.e.k = "VNONRELOC" /\ hasjumps(d.e) /\ d.e.info >= d.fs.nactvar ->
                exp2reg(d.fs, d.e, d.e.info)
          [] OTHER -> luaK_exp2nextreg(d.fs, d.e)

luaK_exp2val(fs, e) ==
    IF hasjumps(e) THEN luaK_exp2anyreg(fs, e) ELSE luaK_dischargevars(fs, e)

\* An operand: a constant if it can be named, else a register; r is its number.
luaK_exp2RK_(fs, e) ==
    LET d == luaK_exp2val(fs, e)
        const == addk(d.fs, CASE d.e.k = "VNIL" -> nil
                              [] d.e.k = "VKNUM" -> number(d.e.info)
                              [] OTHER -> bool(d.e.k = "VTRUE"))
        any == luaK_exp2anyreg(d.fs, d.e)
    IN  CASE d.e.k \in {"VKNUM", "VTRUE", "VFALSE", "VNIL"} /\ Len(d.fs.k) <= MAXINDEXRK ->
                [fs |-> const.fs, e |-> [d.e EXCEPT !.k = "VK", !.info = const.i],
                 r |-> RKASK(const.i)]
          [] d.e.k = "VK" /\ d.e.info <= MAXINDEXRK ->
                [fs |-> d.fs, e |-> d.e, r |-> RKASK(d.e.info)]
          [] OTHER -> [fs |-> any.fs, e |-> any.e, r |-> any.e.info]

luaK_storevar(fs, var, ex) ==
    LET any == luaK_exp2anyreg(fs, ex)
        rk == luaK_exp2RK(fs, ex)
    IN  CASE var.k = "VLOCAL" -> exp2reg(freeexp(fs, ex), ex, var.info).fs
          [] var.k = "VUPVAL" ->
                freeexp(luaK_codeABC(any.fs, "SETUPVAL", any.e.info, var.info, 0), any.e)
          [] var.k = "VGLOBAL" ->
                freeexp(luaK_codeABx(any.fs, "SETGLOBAL", any.e.info, var.info), any.e)
          [] var.k = "VINDEXED" ->
                freeexp(luaK_codeABC(rk.fs, "SETTABLE", var.info, var.aux, rk.r), rk.e)
          [] OTHER -> lua_assert(fs, FALSE)

luaK_self(fs, e, key) ==
    LET o == luaK_exp2anyreg(fs, e)
        free == freeexp(o.fs, o.e)
        k == luaK_exp2RK(luaK_reserveregs(free, 2), key)
    IN  W(freeexp(luaK_codeABC(k.fs, "SELF", free.freereg, o.e.info, k.r), k.e),
          [o.e EXCEPT !.k = "VNONRELOC", !.info = free.freereg])

luaK_indexed(fs, t, key) ==
    LET k == luaK_exp2RK(fs, key)
    IN  W(k.fs, [t EXCEPT !.k = "VINDEXED", !.aux = k.r])

-----------------------------------------------------------------------------
(* Logic.                                                                  *)

invertjump(fs, e) ==
    LET i == getjumpcontrol(fs, e.info)
    IN  lua_assert([fs EXCEPT !.code[i].a = 1 - @],
                   testTMode(fs.code[i].op) /\ fs.code[i].op \notin {"TESTSET", "TEST"})

\* A jump that is taken when the value of an expression is truth, 0 or 1.
jumponcond(fs, e, truth) ==
    LET ie == fs.code[e.info + 1]
        d == discharge2anyreg(fs, e)
    IN  IF e.k = "VRELOCABLE" /\ ie.op = "NOT"
        THEN condjump([fs EXCEPT !.code = SubSeq(@, 1, Len(@) - 1)], "TEST", ie.b, 0, 1 - truth)
        ELSE condjump(freeexp(d.fs, d.e), "TESTSET", NO_REG, d.e.info, truth)

luaK_goiftrue(fs, e) ==
    LET d == luaK_dischargevars(fs, e)
        j == IF d.e.k = "VJMP" THEN invertjump(d.fs, d.e) ELSE jumponcond(d.fs, d.e, 0)
        list == IF d.e.k = "VJMP" THEN {d.e.info} ELSE {pc(j) - 1}
    IN  IF d.e.k \in {"VK", "VKNUM", "VTRUE"}
        THEN W(luaK_patchtohere(d.fs, d.e.t), [d.e EXCEPT !.t = {}])
        ELSE W(luaK_patchtohere(j, d.e.t), [d.e EXCEPT !.f = @ \cup list, !.t = {}])

luaK_goiffalse(fs, e) ==
    LET d == luaK_dischargevars(fs, e)
        j == IF d.e.k = "VJMP" THEN d.fs ELSE jumponcond(d.fs, d.e, 1)
        list == IF d.e.k = "VJMP" THEN {d.e.info} ELSE {pc(j) - 1}
    IN  IF d.e.k \in {"VNIL", "VFALSE"}
        THEN W(luaK_patchtohere(d.fs, d.e.f), [d.e EXCEPT !.f = {}])
        ELSE W(luaK_patchtohere(j, d.e.f), [d.e EXCEPT !.t = @ \cup list, !.f = {}])

codenot(fs, e) ==
    LET d == luaK_dischargevars(fs, e)
        k == d.e.k
        any == discharge2anyreg(d.fs, d.e)
        negated ==
          CASE k \in {"VNIL", "VFALSE"} -> W(d.fs, [d.e EXCEPT !.k = "VTRUE"])
            [] k \in {"VK", "VKNUM", "VTRUE"} -> W(d.fs, [d.e EXCEPT !.k = "VFALSE"])
            [] k = "VJMP" -> W(invertjump(d.fs, d.e), d.e)
            [] k \in {"VRELOCABLE", "VNONRELOC"} ->
                  Relocable(luaK_codeABC(freeexp(any.fs, any.e), "NOT", 0, any.e.info, 0), any.e)
            [] OTHER -> W(lua_assert(d.fs, FALSE), d.e)
    IN  W(removevalues(negated.fs, negated.e.t \cup negated.e.f),
          [negated.e EXCEPT !.t = negated.e.f, !.f = negated.e.t])

-----------------------------------------------------------------------------
(* Operators.                                                              *)

CanFold(op, e1, e2) ==
    /\ isnumeral(e1) /\ isnumeral(e2)
    /\ op \in {"ADD", "SUB", "MUL", "DIV", "MOD", "POW", "UNM"}
    /\ op \in {"DIV", "MOD"} => e2.info # 0

codearith(fs, op, e1, e2) ==
    LET o2 == IF op \in {"UNM", "LEN"} THEN [fs |-> fs, e |-> e2, r |-> 0]
              ELSE luaK_exp2RK(fs, e2)
        o1 == luaK_exp2RK(o2.fs, e1)
        free == IF o1.r > o2.r THEN freeexp(freeexp(o1.fs, o1.e), o2.e)
                ELSE freeexp(freeexp(o1.fs, o2.e), o1.e)
    IN  IF CanFold(op, e1, e2)
        THEN W(fs, [e1 EXCEPT !.info = luai_num(op, e1.info, e2.info)])
        ELSE Relocable(luaK_codeABC(free, op, 0, o1.r, o2.r), o1.e)

codecomp(fs, op, truth, e1, e2) ==
    LET o1 == luaK_exp2RK(fs, e1)
        o2 == luaK_exp2RK(o1.fs, e2)
        free == freeexp(freeexp(o2.fs, o2.e), o1.e)
        coded == IF truth = 0 /\ op # "EQ" THEN condjump(free, op, 1, o2.r, o1.r)
                 ELSE condjump(free, op, truth, o1.r, o2.r)
    IN  W(coded, [o1.e EXCEPT !.k = "VJMP", !.info = pc(coded) - 1])

luaK_prefix_(fs, op, e) ==
    LET zero == init_exp("VKNUM", 0)
        any == luaK_exp2anyreg(fs, e)
    IN  CASE op = "-" /\ isnumeral(e) -> codearith(fs, "UNM", e, zero)
          [] op = "-" /\ ~isnumeral(e) -> codearith(any.fs, "UNM", any.e, zero)
          [] op = "not" -> codenot(fs, e)
          [] op = "#" -> codearith(any.fs, "LEN", any.e, zero)

OpOf == ("+" :> "ADD") @@ ("-" :> "SUB") @@ ("*" :> "MUL") @@ ("/" :> "DIV") @@ ("%" :> "MOD")
        @@ ("^" :> "POW")

luaK_infix_(fs, op, v) ==
    LET rk == luaK_exp2RK(fs, v)
    IN  CASE op = "and" -> luaK_goiftrue(fs, v)
          [] op = "or" -> luaK_goiffalse(fs, v)
          [] op = ".." -> luaK_exp2nextreg(fs, v)
          [] op \in DOMAIN OpOf /\ isnumeral(v) -> W(fs, v)
          [] OTHER -> W(rk.fs, rk.e)

\* Strings that are concatenated from the right become one instruction.
ConcatPosfix(fs, e1, e2) ==
    LET v == luaK_exp2val(fs, e2)
        i == v.fs.code[v.e.info + 1]
        next == luaK_exp2nextreg(v.fs, v.e)
    IN  IF v.e.k = "VRELOCABLE" /\ i.op = "CONCAT"
        THEN W([lua_assert(freeexp(v.fs, e1), e1.info = i.b - 1)
                  EXCEPT !.code[v.e.info + 1].b = e1.info],
               [e1 EXCEPT !.k = "VRELOCABLE", !.info = v.e.info])
        ELSE codearith(next.fs, "CONCAT", e1, next.e)

luaK_posfix_(fs, op, e1, e2) ==
    LET d == luaK_dischargevars(fs, e2)
    IN  CASE op = "and" -> W(lua_assert(d.fs, e1.t = {}), [d.e EXCEPT !.f = @ \cup e1.f])
          [] op = "or" -> W(lua_assert(d.fs, e1.f = {}), [d.e EXCEPT !.t = @ \cup e1.t])
          [] op = ".." -> ConcatPosfix(fs, e1, e2)
          [] op \in DOMAIN OpOf -> codearith(fs, OpOf[op], e1, e2)
          [] op = "==" -> codecomp(fs, "EQ", 1, e1, e2)
          [] op = "~=" -> codecomp(fs, "EQ", 0, e1, e2)
          [] op = "<" -> codecomp(fs, "LT", 1, e1, e2)
          [] op = "<=" -> codecomp(fs, "LE", 1, e1, e2)
          [] op = ">" -> codecomp(fs, "LT", 0, e1, e2)
          [] op = ">=" -> codecomp(fs, "LE", 0, e1, e2)

\* MAXARG_C is not reached: the count of OP_SETLIST is always in the instruction.
luaK_setlist(fs, base, nelems, tostore) ==
    LET c == (nelems - 1) \div LFIELDS_PER_FLUSH + 1
        b == IF tostore = LUA_MULTRET THEN 0 ELSE tostore
    IN  [luaK_codeABC(lua_assert(fs, tostore # 0), "SETLIST", base, b, c)
           EXCEPT !.freereg = base + 1]

-----------------------------------------------------------------------------
(* The parser.                                                             *)

R(s, e) == [s |-> s, e |-> e]

FS(s) == s.fs[Len(s.fs)]
P(s, fs) == [s EXCEPT !.fs[Len(s.fs)] = fs]

tok(s) == s.toks[s.pos][1]
seminfo(s) == s.toks[s.pos][2]

luaX_next(s) == IF s.pos < Len(s.toks) THEN [s EXCEPT !.pos = @ + 1] ELSE s

luaX_lookahead(s) == s.toks[s.pos + 1][1]

luaX_syntaxerror(s) == [s EXCEPT !.err = TRUE, !.pos = Len(s.toks)]

check(s, c) == IF tok(s) = c THEN s ELSE luaX_syntaxerror(s)

checknext(s, c) == luaX_next(check(s, c))

testnext(s, c) == IF tok(s) = c THEN luaX_next(s) ELSE s

\* A syntax error has no name to give.
str_checkname(s) == IF tok(s) = "NAME" THEN seminfo(s) ELSE ""

codestring(s, x) ==
    LET k == addk(FS(s), string(x)) IN R(P(s, k.fs), init_exp("VK", k.i))

checkname(s) ==
    LET x == str_checkname(s) IN codestring(checknext(s, "NAME"), x)

-----------------------------------------------------------------------------
(* Variables and blocks.                                                   *)

new_localvar(fs, name, n) ==
    [Limit(fs, fs.nactvar + n + 1 <= LUAI_MAXVARS, "local variables")
       EXCEPT !.vars = Append(SubSeq(@, 1, fs.nactvar + n), name)]

adjustlocalvars(fs, nvars) == [fs EXCEPT !.nactvar = @ + nvars]

removevars(fs, tolevel) == [fs EXCEPT !.nactvar = IF tolevel < @ THEN tolevel ELSE @]

\* The upvalue of a function that is a variable of the one around it.
indexupvalue(fs, name, v) ==
    LET at == {i \in DOMAIN fs.upvalues : fs.upvalues[i].k = v.k /\ fs.upvalues[i].info = v.info}
        i == CHOOSE i \in at : TRUE
    IN  IF at # {}
        THEN W(lua_assert(fs, fs.upvalues[i].name = name), init_exp("VUPVAL", i - 1))
        ELSE W([Limit(fs, Len(fs.upvalues) < LUAI_MAXUPVALUES, "upvalues")
                  EXCEPT !.upvalues = Append(@, [k |-> v.k, info |-> v.info, name |-> name])],
               init_exp("VUPVAL", Len(fs.upvalues)))

searchvar(fs, n) ==
    LET found == {i \in 1..fs.nactvar : fs.vars[i] = n}
    IN  IF found = {} THEN -1 ELSE (CHOOSE i \in found : \A j \in found : j <= i) - 1

\* The block that declares a captured variable has upvalues to close.
markupval(fs, level) ==
    LET around == {i \in DOMAIN fs.bl : fs.bl[i].nactvar <= level}
        bl == CHOOSE i \in around : \A j \in around : j <= i
    IN  IF around = {} THEN fs ELSE [fs EXCEPT !.bl[bl].upval = TRUE]

RECURSIVE singlevaraux(_, _, _, _)
singlevaraux(fss, level, n, base) ==
    LET v == searchvar(fss[level], n)
        outer == singlevaraux(fss, level - 1, n, FALSE)
        up == indexupvalue(outer.fss[level], n, outer.e)
    IN  IF level = 0 THEN [fss |-> fss, e |-> init_exp("VGLOBAL", NO_REG)]
        ELSE IF v >= 0
        THEN [fss |-> IF base THEN fss ELSE [fss EXCEPT ![level] = markupval(@, v)],
              e |-> init_exp("VLOCAL", v)]
        ELSE IF outer.e.k = "VGLOBAL" THEN outer
        ELSE [fss |-> [outer.fss EXCEPT ![level] = up.fs], e |-> up.e]

singlevar_(s) ==
    LET name == str_checkname(s)
        var == singlevaraux(s.fs, Len(s.fs), name, TRUE)
        found == [checknext(s, "NAME") EXCEPT !.fs = var.fss]
        global == codestring(found, name)
    IN  IF var.e.k = "VGLOBAL" THEN R(global.s, init_exp("VGLOBAL", global.e.info))
        ELSE R(found, var.e)

hasmultret(e) == e.k \in {"VCALL", "VVARARG"}

\* As many values as variables: a last call gives the rest, or nil does.
adjust_assign(fs, nvars, nexps, e) ==
    LET extra == nvars - nexps
        results == IF extra + 1 < 0 THEN 0 ELSE extra + 1
        called == luaK_setreturns(fs, e, results)
        closed == IF e.k = "VVOID" THEN fs ELSE luaK_exp2nextreg(fs, e).fs
    IN  IF hasmultret(e)
        THEN IF results > 1 THEN luaK_reserveregs(called, results - 1) ELSE called
        ELSE IF extra > 0 THEN luaK_nil(luaK_reserveregs(closed, extra), closed.freereg, extra)
        ELSE closed

enterblock(fs, isbreakable) ==
    lua_assert([fs EXCEPT !.bl = Append(@, [breaklist |-> {}, isbreakable |-> isbreakable,
                                             nactvar |-> fs.nactvar, upval |-> FALSE])],
               fs.freereg = fs.nactvar)

leaveblock(fs) ==
    LET bl == fs.bl[Len(fs.bl)]
        out == removevars([fs EXCEPT !.bl = SubSeq(@, 1, Len(@) - 1)], bl.nactvar)
        closed == IF bl.upval THEN luaK_codeABC(out, "CLOSE", bl.nactvar, 0, 0) ELSE out
        checked == lua_assert(closed, ~(bl.isbreakable /\ bl.upval) /\ bl.nactvar = out.nactvar)
    IN  luaK_patchtohere([checked EXCEPT !.freereg = out.nactvar], bl.breaklist)

-----------------------------------------------------------------------------
(* Functions.                                                              *)

NewFuncState == [
    code |-> <<>>, k |-> <<>>, p |-> <<>>, upvalues |-> <<>>, vars |-> <<>>, bl |-> <<>>,
    nactvar |-> 0, freereg |-> 0, maxstacksize |-> 2, numparams |-> 0, is_vararg |-> {},
    jpc |-> {}, lasttarget |-> -1, err |-> "", bad |-> FALSE]

open_func(s) == [s EXCEPT !.fs = Append(@, NewFuncState)]

\* The prototype of a function, with what went wrong in it.
Proto(fs) == [
    code |-> fs.code, k |-> fs.k, p |-> fs.p, nups |-> Len(fs.upvalues),
    numparams |-> fs.numparams, is_vararg |-> fs.is_vararg, maxstacksize |-> fs.maxstacksize]

\* The errors of a function become those of the compilation.
close_func(s) ==
    LET ret == luaK_ret(removevars(FS(s), 0), 0, 0)
    IN  [s EXCEPT !.fs = SubSeq(@, 1, Len(@) - 1),
                  !.err = @ \/ ret.err # "",
                  !.bad = @ \/ ret.bad \/ ret.bl # <<>>,
                  !.f = Proto(ret)]

pushclosure(s, func) ==
    LET fs == [FS(s) EXCEPT !.p = Append(@, s.f)]
        closure == luaK_codeABx(fs, "CLOSURE", 0, Len(fs.p) - 1)
        captures == [i \in DOMAIN func.upvalues |->
                       CREATE_ABC(IF func.upvalues[i].k = "VLOCAL" THEN "MOVE" ELSE "GETUPVAL",
                                  0, func.upvalues[i].info, 0)]
    IN  R(P(s, [closure EXCEPT !.code = @ \o captures]),
          init_exp("VRELOCABLE", pc(closure) - 1))

-----------------------------------------------------------------------------
(* Expressions.                                                            *)

RECURSIVE primarysuffix(_, _), constructoritems(_), parlistitems(_, _), explistrest(_, _)

expr(s) == subexpr(s, 0)

field_(s, v) ==
    LET any == luaK_exp2anyreg(FS(s), v)
        key == checkname(luaX_next(P(s, any.fs)))
        i == luaK_indexed(FS(key.s), any.e, key.e)
    IN  R(P(key.s, i.fs), i.e)

yindex(s) ==
    LET e == expr(luaX_next(s))
        v == luaK_exp2val(FS(e.s), e.e)
    IN  R(checknext(P(e.s, v.fs), "]"), v.e)

recfield(s, cc) ==
    LET reg == FS(s).freereg
        key == IF tok(s) = "NAME" THEN checkname(s) ELSE yindex(s)
        eq == checknext(key.s, "=")
        rkkey == luaK_exp2RK(FS(eq), key.e)
        val == expr(P(eq, rkkey.fs))
        rkval == luaK_exp2RK(FS(val.s), val.e)
        set == luaK_codeABC(rkval.fs, "SETTABLE", cc.t.info, rkkey.r, rkval.r)
    IN  [cc EXCEPT !.s = P(val.s, [set EXCEPT !.freereg = reg]), !.nh = @ + 1]

listfield(s, cc) ==
    LET e == expr(s)
    IN  [cc EXCEPT !.s = e.s, !.v = e.e, !.na = @ + 1, !.tostore = @ + 1]

closelistfield(cc) ==
    LET fs == luaK_exp2nextreg(FS(cc.s), cc.v).fs
        full == cc.tostore = LFIELDS_PER_FLUSH
    IN  IF cc.v.k = "VVOID" THEN cc
        ELSE [cc EXCEPT
               !.v.k = "VVOID",
               !.s = P(@, IF full THEN luaK_setlist(fs, cc.t.info, cc.na, cc.tostore) ELSE fs),
               !.tostore = IF full THEN 0 ELSE @]

lastlistfield(cc) ==
    LET fs == FS(cc.s)
        open == luaK_setmultret(fs, cc.v)
        closed == IF cc.v.k = "VVOID" THEN fs ELSE luaK_exp2nextreg(fs, cc.v).fs
    IN  IF cc.tostore = 0 THEN cc
        ELSE IF hasmultret(cc.v)
        THEN [cc EXCEPT !.s = P(@, luaK_setlist(open, cc.t.info, cc.na, LUA_MULTRET)),
                        !.na = @ - 1]
        ELSE [cc EXCEPT !.s = P(@, luaK_setlist(closed, cc.t.info, cc.na, cc.tostore))]

constructoritems(cc) ==
    LET asserted == lua_assert(FS(cc.s), cc.v.k = "VVOID" \/ cc.tostore > 0)
        c == closelistfield([cc EXCEPT !.s = P(@, asserted)])
        item == IF tok(c.s) = "[" \/ (tok(c.s) = "NAME" /\ luaX_lookahead(c.s) = "=")
                THEN recfield(c.s, c) ELSE listfield(c.s, c)
    IN  IF tok(cc.s) = "}" THEN cc
        ELSE IF tok(item.s) \in {",", ";"}
        THEN constructoritems([item EXCEPT !.s = luaX_next(@)])
        ELSE item

\* luaO_int2fb() keeps sizes up to 7 as they are.
constructor_(s) ==
    LET new == luaK_codeABC(FS(s), "NEWTABLE", 0, 0, 0)
        t == luaK_exp2nextreg(new, init_exp("VRELOCABLE", pc(new) - 1))
        first == [s |-> checknext(P(s, t.fs), "{"), t |-> t.e, v |-> init_exp("VVOID", 0),
                  nh |-> 0, na |-> 0, tostore |-> 0]
        items == constructoritems(first)
        last == lastlistfield([items EXCEPT !.s = checknext(@, "}")])
    IN  R(P(last.s, [FS(last.s) EXCEPT !.code[pc(new)].b = last.na, !.code[pc(new)].c = last.nh]),
          t.e)

\* LUA_COMPAT_VARARG: the extra arguments also have a name.
parlistitems(s, nparams) ==
    LET name == P(checknext(s, "NAME"), new_localvar(FS(s), str_checkname(s), nparams))
        dots == P(luaX_next(s), [new_localvar(FS(s), "arg", nparams)
                                   EXCEPT !.is_vararg = {"HAS", "NEEDS", "IS"}])
    IN  CASE tok(s) = "NAME" /\ tok(name) = "," -> parlistitems(luaX_next(name), nparams + 1)
          [] tok(s) = "NAME" /\ tok(name) # "," -> [s |-> name, n |-> nparams + 1]
          [] tok(s) = "..." -> [s |-> dots, n |-> nparams + 1]
          [] OTHER -> [s |-> luaX_syntaxerror(s), n |-> nparams]

parlist(s) ==
    LET list == IF tok(s) = ")" THEN [s |-> s, n |-> 0] ELSE parlistitems(s, 0)
        fs == adjustlocalvars(FS(list.s), list.n)
    IN  P(list.s, luaK_reserveregs(
          [fs EXCEPT !.numparams = fs.nactvar - (IF "HAS" \in fs.is_vararg THEN 1 ELSE 0)],
          fs.nactvar))

body_(s, needself) ==
    LET open == checknext(open_func(s), "(")
        self == P(open, adjustlocalvars(new_localvar(FS(open), "self", 0), 1))
        params == parlist(IF needself THEN self ELSE open)
        end == checknext(chunk(checknext(params, ")")), "end")
    IN  pushclosure(close_func(end), FS(end))

explistrest(l, n) ==
    LET fs == luaK_exp2nextreg(FS(l.s), l.e).fs
    IN  IF tok(l.s) = "," THEN explistrest(expr(P(luaX_next(l.s), fs)), n + 1)
        ELSE [s |-> l.s, e |-> l.e, n |-> n]

explist1(s) == explistrest(expr(s), 1)

\* The arguments of a call to the function in register f.info.
funcargs_(s, f) ==
    LET void == init_exp("VVOID", 0)
        list == explist1(luaX_next(s))
        parenthesis ==
          IF luaX_lookahead(s) = ")" THEN R(luaX_next(s), void)
          ELSE R(P(list.s, luaK_setmultret(FS(list.s), list.e)), list.e)
        args ==
          CASE tok(s) = "(" -> R(checknext(parenthesis.s, ")"), parenthesis.e)
            [] tok(s) = "{" -> constructor(s)
            [] tok(s) = "STRING" -> codestring(luaX_next(s), seminfo(s))
            [] OTHER -> R(luaX_syntaxerror(s), void)
        fs == lua_assert(FS(args.s), f.k = "VNONRELOC")
        closed == IF hasmultret(args.e) \/ args.e.k = "VVOID" THEN fs
                  ELSE luaK_exp2nextreg(fs, args.e).fs
        nparams == IF hasmultret(args.e) THEN LUA_MULTRET ELSE closed.freereg - (f.info + 1)
        call == luaK_codeABC(closed, "CALL", f.info, nparams + 1, 2)
    IN  R(P(args.s, [call EXCEPT !.freereg = f.info + 1]), init_exp("VCALL", pc(call) - 1))

prefixexp(s) ==
    LET e == expr(luaX_next(s))
        closed == checknext(e.s, ")")
        d == luaK_dischargevars(FS(closed), e.e)
    IN  CASE tok(s) = "(" -> R(P(closed, d.fs), d.e)
          [] tok(s) = "NAME" -> singlevar(s)
          [] OTHER -> R(luaX_syntaxerror(s), init_exp("VNIL", 0))

primarysuffix(s, v) ==
    LET any == luaK_exp2anyreg(FS(s), v)
        key == yindex(P(s, any.fs))
        at == luaK_indexed(FS(key.s), any.e, key.e)
        name == checkname(luaX_next(s))
        self == luaK_self(FS(name.s), v, name.e)
        next == luaK_exp2nextreg(FS(s), v)
        longer ==
          CASE tok(s) = "." -> field(s, v)
            [] tok(s) = "[" -> R(P(key.s, at.fs), at.e)
            [] tok(s) = ":" -> funcargs(P(name.s, self.fs), self.e)
            [] OTHER -> funcargs(P(s, next.fs), next.e)
    IN  IF tok(s) \in {".", "[", ":", "(", "STRING", "{"} THEN primarysuffix(longer.s, longer.e)
        ELSE R(s, v)

primaryexp_(s) == LET v == prefixexp(s) IN primarysuffix(v.s, v.e)

simpleexp(s) ==
    LET fs == FS(s)
        vararg == luaK_codeABC([fs EXCEPT !.is_vararg = @ \ {"NEEDS"}], "VARARG", 0, 1, 0)
    IN  CASE tok(s) = "NUMBER" -> R(luaX_next(s), init_exp("VKNUM", seminfo(s)))
          [] tok(s) = "STRING" -> codestring(luaX_next(s), seminfo(s))
          [] tok(s) = "nil" -> R(luaX_next(s), init_exp("VNIL", 0))
          [] tok(s) = "true" -> R(luaX_next(s), init_exp("VTRUE", 0))
          [] tok(s) = "false" -> R(luaX_next(s), init_exp("VFALSE", 0))
          [] tok(s) = "..." /\ fs.is_vararg = {} ->
                R(luaX_syntaxerror(s), init_exp("VNIL", 0))
          [] tok(s) = "..." /\ fs.is_vararg # {} ->
                R(luaX_next(P(s, vararg)), init_exp("VVARARG", pc(vararg) - 1))
          [] tok(s) = "{" -> constructor(s)
          [] tok(s) = "function" -> body(luaX_next(s), FALSE)
          [] OTHER -> primaryexp(s)

getunopr(s) == tok(s) \in {"not", "-", "#"}

Priority(l, r) == [left |-> l, right |-> r]

priority == ("+" :> Priority(6, 6)) @@ ("-" :> Priority(6, 6)) @@ ("*" :> Priority(7, 7))
            @@ ("/" :> Priority(7, 7)) @@ ("%" :> Priority(7, 7)) @@ ("^" :> Priority(10, 9))
            @@ (".." :> Priority(5, 4)) @@ ("~=" :> Priority(3, 3)) @@ ("==" :> Priority(3, 3))
            @@ ("<" :> Priority(3, 3)) @@ ("<=" :> Priority(3, 3)) @@ (">" :> Priority(3, 3))
            @@ (">=" :> Priority(3, 3)) @@ ("and" :> Priority(2, 2)) @@ ("or" :> Priority(1, 1))

UNARY_PRIORITY == 8

RECURSIVE binaryrest(_, _, _)
binaryrest(s, v, limit) ==
    LET op == tok(s)
        left == luaK_infix(FS(s), op, v)
        right == subexpr(P(luaX_next(s), left.fs), priority[op].right)
        result == luaK_posfix(FS(right.s), op, left.e, right.e)
    IN  IF op \in DOMAIN priority /\ priority[op].left > limit
        THEN binaryrest(P(right.s, result.fs), result.e, limit)
        ELSE R(s, v)

subexpr_(s, limit) ==
    LET operand == subexpr(luaX_next(s), UNARY_PRIORITY)
        unary == luaK_prefix(FS(operand.s), tok(s), operand.e)
        simple == simpleexp(s)
    IN  IF getunopr(s) THEN binaryrest(P(operand.s, unary.fs), unary.e, limit)
        ELSE binaryrest(simple.s, simple.e, limit)

-----------------------------------------------------------------------------
(* Statements.                                                             *)

block_follow(s) == tok(s) \in {"else", "elseif", "end", "until", "EOS"}

block(s) ==
    LET inside == chunk(P(s, enterblock(FS(s), FALSE)))
        fs == FS(inside)
    IN  P(inside, leaveblock(lua_assert(fs, fs.bl[Len(fs.bl)].breaklist = {})))

\* A local variable is assigned while targets still index with it.
check_conflict_Ignored(fs, lhs, v) == [fs |-> fs, lhs |-> lhs]

\* A table or a key of an earlier target that is the local v is copied first.
check_conflict(fs, lhs, v) ==
    LET extra == fs.freereg
        conflict(e) == e.k = "VINDEXED" /\ v.info \in {e.info, e.aux}
        safe(r) == IF r = v.info THEN extra ELSE r
        copied == luaK_reserveregs(luaK_codeABC(fs, "MOVE", extra, v.info, 0), 1)
    IN  [fs |-> IF \E i \in DOMAIN lhs : conflict(lhs[i]) THEN copied ELSE fs,
         lhs |-> [i \in DOMAIN lhs |->
                    IF conflict(lhs[i]) THEN [lhs[i] EXCEPT !.info = safe(@), !.aux = safe(@)]
                    ELSE lhs[i]]]

StoreTop(r, n) ==
    [r EXCEPT !.s = P(@, luaK_storevar(FS(@), r.lhs[n], init_exp("VNONRELOC", FS(@).freereg - 1)))]

\* The targets are stored from the last to the first.
RECURSIVE assignment(_, _)
assignment(s, lhs) ==
    LET nvars == Len(lhs)
        nv == primaryexp(luaX_next(s))
        checked == IF nv.e.k = "VLOCAL" THEN check_conflict(FS(nv.s), lhs, nv.e)
                   ELSE [fs |-> FS(nv.s), lhs |-> lhs]
        rest == assignment(P(nv.s, checked.fs), Append(checked.lhs, nv.e))
        list == explist1(checknext(s, "="))
        one == luaK_setoneret(FS(list.s), list.e)
        adjusted == adjust_assign(FS(list.s), nvars, list.n, list.e)
        cut == IF list.n > nvars THEN [adjusted EXCEPT !.freereg = @ - (list.n - nvars)]
               ELSE adjusted
    IN  CASE lhs[nvars].k \notin {"VLOCAL", "VUPVAL", "VGLOBAL", "VINDEXED"} ->
                [s |-> luaX_syntaxerror(s), lhs |-> lhs]
          [] tok(s) = "," -> StoreTop(rest, nvars)
          [] list.n = nvars ->
                [s |-> P(list.s, luaK_storevar(one.fs, lhs[nvars], one.e)), lhs |-> lhs]
          [] OTHER -> StoreTop([s |-> P(list.s, cut), lhs |-> lhs], nvars)

\* The jumps of a false condition.
cond_(s) ==
    LET v == expr(s)
        e == luaK_goiftrue(FS(v.s), IF v.e.k = "VNIL" THEN [v.e EXCEPT !.k = "VFALSE"] ELSE v.e)
    IN  [s |-> P(v.s, e.fs), list |-> e.e.f]

breakstat(s) ==
    LET fs == FS(s)
        loops == {i \in DOMAIN fs.bl : fs.bl[i].isbreakable}
        bl == CHOOSE i \in loops : \A j \in loops : j <= i
        upval == \E i \in (bl + 1)..Len(fs.bl) : fs.bl[i].upval
        closed == IF upval THEN luaK_codeABC(fs, "CLOSE", fs.bl[bl].nactvar, 0, 0) ELSE fs
        jump == luaK_jump(closed)
    IN  IF loops = {} THEN luaX_syntaxerror(s)
        ELSE P(s, [jump.fs EXCEPT !.bl[bl].breaklist = @ \cup jump.list])

JumpBack(fs, target) == LET j == luaK_jump(fs) IN luaK_patchlist(j.fs, j.list, target)

whilestat(s) ==
    LET start == luaX_next(s)
        whileinit == pc(FS(start))
        exit == cond(P(start, luaK_getlabel(FS(start))))
        inside == block(checknext(P(exit.s, enterblock(FS(exit.s), TRUE)), "do"))
        end == checknext(P(inside, JumpBack(FS(inside), whileinit)), "end")
    IN  P(end, luaK_patchtohere(leaveblock(FS(end)), exit.list))

\* The condition sees the variables of the body, and closes them if they are captured.
repeatstat(s) ==
    LET init == pc(FS(s))
        in == enterblock(enterblock(luaK_getlabel(FS(s)), TRUE), FALSE)
        exit == cond(checknext(chunk(luaX_next(P(s, in))), "until"))
        fs == FS(exit.s)
        broken == FS(breakstat(exit.s))
        upval == fs.bl[Len(fs.bl)].upval
        looped == IF upval
                  THEN JumpBack(leaveblock(luaK_patchtohere(broken, exit.list)), init)
                  ELSE luaK_patchlist(leaveblock(fs), exit.list, init)
    IN  P(exit.s, leaveblock(looped))

exp1(s) == LET e == expr(s) IN P(e.s, luaK_exp2nextreg(FS(e.s), e.e).fs)

forbody_(s, base, nvars, isnum) ==
    LET start == checknext(P(s, adjustlocalvars(FS(s), 3)), "do")
        prep == IF isnum THEN luaK_codeABx(FS(start), "FORPREP", base, NO_JUMP)
                ELSE luaK_jump(FS(start)).fs
        at == pc(prep) - 1
        list == IF isnum THEN {at} ELSE luaK_jump(FS(start)).list
        scope == luaK_reserveregs(adjustlocalvars(enterblock(prep, FALSE), nvars), nvars)
        inside == block(P(start, scope))
        end == luaK_patchtohere(leaveblock(FS(inside)), list)
        loop == IF isnum THEN luaK_codeABx(end, "FORLOOP", base, NO_JUMP)
                ELSE luaK_codeABC(end, "TFORLOOP", base, 0, nvars)
    IN  P(inside, IF isnum THEN luaK_patchlist(loop, {pc(loop) - 1}, at + 1)
                  ELSE JumpBack(loop, at + 1))

ForVars(fs, names) ==
    LET RECURSIVE declare(_, _)
        declare(g, n) == IF n > Len(names) THEN g
                         ELSE declare(new_localvar(g, names[n], n - 1), n + 1)
    IN  declare(fs, 1)

fornum(s, varname) ==
    LET base == FS(s).freereg
        named == ForVars(FS(s), <<"(for index)", "(for limit)", "(for step)", varname>>)
        limit == exp1(checknext(exp1(checknext(P(s, named), "=")), ","))
        one == addk(FS(limit), number(1))
        default == luaK_reserveregs(luaK_codeABx(one.fs, "LOADK", one.fs.freereg, one.i), 1)
        step == IF tok(limit) = "," THEN exp1(luaX_next(limit)) ELSE P(limit, default)
    IN  forbody(step, base, 1, TRUE)

RECURSIVE forlist(_, _)
forlist(s, names) ==
    LET base == FS(s).freereg
        more == luaX_next(s)
        control == <<"(for generator)", "(for state)", "(for control)">>
        list == explist1(checknext(P(s, ForVars(FS(s), control \o names)), "in"))
        three == luaK_checkstack(adjust_assign(FS(list.s), 3, list.n, list.e), 3)
    IN  IF tok(s) = "," /\ tok(more) = "NAME"
        THEN forlist(luaX_next(more), Append(names, seminfo(more)))
        ELSE forbody(P(list.s, three), base, Len(names), FALSE)

forstat(s) ==
    LET named == luaX_next(P(s, enterblock(FS(s), TRUE)))
        varname == str_checkname(named)
        header == checknext(named, "NAME")
        loop == CASE tok(header) = "=" -> fornum(header, varname)
                  [] tok(header) \in {",", "in"} -> forlist(header, <<varname>>)
                  [] OTHER -> luaX_syntaxerror(header)
        end == checknext(loop, "end")
    IN  P(end, leaveblock(FS(end)))

test_then_block(s) ==
    LET exit == cond(luaX_next(s))
    IN  [s |-> block(checknext(exit.s, "then")), list |-> exit.list]

\* The jumps over the rest of the statement are gathered in escape.
RECURSIVE elseparts(_, _, _)
elseparts(s, flist, escape) ==
    LET jump == luaK_jump(FS(s))
        over == P(s, luaK_patchtohere(jump.fs, flist))
        next == test_then_block(over)
        last == block(luaX_next(over))
    IN  CASE tok(s) = "elseif" -> elseparts(next.s, next.list, escape \cup jump.list)
          [] tok(s) = "else" -> P(last, luaK_patchtohere(FS(last), escape \cup jump.list))
          [] OTHER -> P(s, luaK_patchtohere(FS(s), escape \cup flist))

ifstat(s) ==
    LET first == test_then_block(s) IN checknext(elseparts(first.s, first.list, {}), "end")

localfunc(s) ==
    LET fs == new_localvar(FS(s), str_checkname(s), 0)
        v == init_exp("VLOCAL", fs.freereg)
        b == body(P(checknext(s, "NAME"), adjustlocalvars(luaK_reserveregs(fs, 1), 1)), FALSE)
    IN  P(b.s, luaK_storevar(FS(b.s), v, b.e))

RECURSIVE localstat(_, _)
localstat(s, nvars) ==
    LET named == P(checknext(s, "NAME"), new_localvar(FS(s), str_checkname(s), nvars))
        list == IF tok(named) = "=" THEN explist1(luaX_next(named))
                ELSE [s |-> named, e |-> init_exp("VVOID", 0), n |-> 0]
        fs == adjust_assign(FS(list.s), nvars + 1, list.n, list.e)
    IN  IF tok(named) = "," THEN localstat(luaX_next(named), nvars + 1)
        ELSE P(list.s, adjustlocalvars(fs, nvars + 1))

RECURSIVE funcname(_, _)
funcname(s, v) ==
    LET f == field(s, v)
    IN  CASE tok(s) = "." -> funcname(f.s, f.e)
          [] tok(s) = ":" -> [s |-> f.s, e |-> f.e, needself |-> TRUE]
          [] OTHER -> [s |-> s, e |-> v, needself |-> FALSE]

funcstat(s) ==
    LET first == singlevar(luaX_next(s))
        v == funcname(first.s, first.e)
        b == body(v.s, v.needself)
    IN  P(b.s, luaK_storevar(FS(b.s), v.e, b.e))

\* The statement is a call, whose results nobody wants, or an assignment.
exprstat(s) ==
    LET v == primaryexp(s)
    IN  IF v.e.k = "VCALL" THEN P(v.s, [FS(v.s) EXCEPT !.code[v.e.info + 1].c = 1])
        ELSE assignment(v.s, <<v.e>>).s

\* A single call in a return is a tail call.
retstat(s) ==
    LET start == luaX_next(s)
        list == explist1(start)
        fs == FS(list.s)
        e == list.e
        open == luaK_setmultret(fs, e)
        tail == lua_assert([open EXCEPT !.code[e.info + 1].op = "TAILCALL"],
                           open.code[e.info + 1].a = fs.nactvar)
        any == luaK_exp2anyreg(fs, e)
        next == luaK_exp2nextreg(fs, e).fs
        ret ==
          CASE hasmultret(e) ->
                  luaK_ret(IF e.k = "VCALL" /\ list.n = 1 THEN tail ELSE open,
                           fs.nactvar, LUA_MULTRET)
            [] ~hasmultret(e) /\ list.n = 1 -> luaK_ret(any.fs, any.e.info, 1)
            [] OTHER -> luaK_ret(lua_assert(next, list.n = next.freereg - next.nactvar),
                                 next.nactvar, list.n)
    IN  IF block_follow(start) \/ tok(start) = ";" THEN P(start, luaK_ret(FS(start), 0, 0))
        ELSE P(list.s, ret)

statement_(s) ==
    LET next == luaX_next(s)
    IN  CASE tok(s) = "if" -> ifstat(s)
          [] tok(s) = "while" -> whilestat(s)
          [] tok(s) = "do" -> checknext(block(next), "end")
          [] tok(s) = "for" -> forstat(s)
          [] tok(s) = "repeat" -> repeatstat(s)
          [] tok(s) = "function" -> funcstat(s)
          [] tok(s) = "local" /\ tok(next) = "function" -> localfunc(luaX_next(next))
          [] tok(s) = "local" /\ tok(next) # "function" -> localstat(next, 0)
          [] tok(s) = "return" -> retstat(s)
          [] tok(s) = "break" -> breakstat(next)
          [] OTHER -> exprstat(s)

\* return and break end a chunk.
chunk_(s) ==
    LET last == tok(s) \in {"return", "break"}
        done == testnext(statement(s), ";")
        fs == FS(done)
        free == [lua_assert(fs, fs.maxstacksize >= fs.freereg /\ fs.freereg >= fs.nactvar)
                   EXCEPT !.freereg = fs.nactvar]
    IN  IF block_follow(s) THEN s
        ELSE IF last THEN P(done, free)
        ELSE chunk(P(done, free))

\* The prototype of the main function; err and bad tell of errors and failed assertions.
luaY_parser_(toks) ==
    LET start == open_func([toks |-> toks, pos |-> 1, fs |-> <<>>, err |-> FALSE, bad |-> FALSE,
                            f |-> <<>>])
        main == chunk(P(start, [FS(start) EXCEPT !.is_vararg = {"IS"}]))
        closed == close_func(check(main, "EOS"))
    IN  [f |-> closed.f, err |-> closed.err, bad |-> closed.bad \/ closed.f.nups # 0]

Invoke(f, x) ==
    CASE f = "luaK_codeABC" -> luaK_codeABC_(x[1], x[2], x[3], x[4], x[5])
      [] f = "luaK_dischargevars" -> luaK_dischargevars_(x[1], x[2])
      [] f = "discharge2reg" -> discharge2reg_(x[1], x[2], x[3])
      [] f = "exp2reg" -> exp2reg_(x[1], x[2], x[3])
      [] f = "luaK_exp2nextreg" -> luaK_exp2nextreg_(x[1], x[2])
      [] f = "luaK_exp2anyreg" -> luaK_exp2anyreg_(x[1], x[2])
      [] f = "luaK_exp2RK" -> luaK_exp2RK_(x[1], x[2])
      [] f = "luaK_infix" -> luaK_infix_(x[1], x[2], x[3])
      [] f = "luaK_posfix" -> luaK_posfix_(x[1], x[2], x[3], x[4])
      [] f = "luaK_prefix" -> luaK_prefix_(x[1], x[2], x[3])
      [] f = "singlevar" -> singlevar_(x[1])
      [] f = "field" -> field_(x[1], x[2])
      [] f = "constructor" -> constructor_(x[1])
      [] f = "body" -> body_(x[1], x[2])
      [] f = "funcargs" -> funcargs_(x[1], x[2])
      [] f = "primaryexp" -> primaryexp_(x[1])
      [] f = "subexpr" -> subexpr_(x[1], x[2])
      [] f = "cond" -> cond_(x[1])
      [] f = "forbody" -> forbody_(x[1], x[2], x[3], x[4])
      [] f = "statement" -> statement_(x[1])
      [] f = "chunk" -> chunk_(x[1])
      [] f = "luaY_parser" -> luaY_parser_(x[1])
=============================================================================
