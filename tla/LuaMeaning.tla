---------------------------- MODULE LuaMeaning ----------------------------
(***************************************************************************)
(* What a Lua program means, by recursion on its syntax tree (manual.html,  *)
(* section 2): the specification of the compiler together with the virtual  *)
(* machine.  There are no registers, no jumps and no upvalues here:         *)
(* variables live in a store, and an environment gives their places.        *)
(*                                                                         *)
(* st is the state: the store, the tables, the functions that exist and     *)
(* what has been printed.  The outcome of a piece of program is a record of *)
(* how it ended (s), its values (v) and the state it leaves.                *)
(***************************************************************************)
EXTENDS LuaVM, LuaSyntax

CONSTANTS
    MaxDepth,           \* calls that can be nested
    Program(_),         \* the syntax tree of a chunk
    Refused             \* the chunks that the grammar or a limit refuses

ASSUME MeaningAssumption ==
    MaxDepth \in Nat /\ Refused \subseteq Chunks

Outcome(s, v, st) == [s |-> s, v |-> v, st |-> st, env |-> <<>>]
Ok(v, st) == Outcome("ok", v, st)
Failed(what, st) == Outcome("error", <<string(what)>>, st)

Then(r, Next_(_)) == IF r.s = "ok" THEN Next_(r) ELSE r

Nth(v, n) == IF n \in DOMAIN v THEN v[n] ELSE nil
One(r) == IF r.s = "ok" THEN [r EXCEPT !.v = <<Nth(@, 1)>>] ELSE r
Truth(v) == ~l_isfalse(v)

\* New variables.
Bind(env, xs, vs, st) ==
    LET place(x) == CHOOSE n \in DOMAIN xs : xs[n] = x /\ \A m \in DOMAIN xs : xs[m] = x => m <= n
    IN  [env |-> [env EXCEPT !.vars =
                    [x \in {xs[n] : n \in DOMAIN xs} |-> Len(st.store) + place(x)] @@ @],
         st |-> [st EXCEPT !.store = @ \o [n \in DOMAIN xs |-> Nth(vs, n)]]]

Meta(o, event, st) ==
    IF ttistable(o) /\ st.tables[o[2]].meta # 0
    THEN luaH_get(st.tables[st.tables[o[2]].meta], string(event)) ELSE nil

Alloc(map, st) == [st EXCEPT !.tables = Append(@, [map |-> map, meta |-> 0])]
Last_(st) == table(Len(st.tables))

RECURSIVE Eval(_, _, _), EvalList(_, _, _, _), Apply(_, _, _, _), Exec(_, _, _),
          ExecBlock(_, _, _, _), Loop(_, _, _), For(_, _, _, _), ForIn(_, _, _, _),
          Index(_, _, _, _, _), Update(_, _, _, _, _, _),
          Fields(_, _, _, _, _, _), Targets(_, _, _, _), Stores(_, _, _, _),
          Clause(_, _, _, _)

-----------------------------------------------------------------------------
(* Operations (section 2.8).                                               *)

Index(o, k, st, d, tries) ==
    LET h == st.tables[o[2]]
        tm == Meta(o, "__index", st)
        raw == IF ttistable(o) THEN luaH_get(h, k) ELSE nil
    IN  CASE tries = 0 -> Failed("loop", st)
          [] tries > 0 /\ (raw # nil \/ (ttistable(o) /\ tm = nil)) -> Ok(<<raw>>, st)
          [] tries > 0 /\ ~ttistable(o) -> Failed("index", st)
          [] tries > 0 /\ raw = nil /\ ttisfunction(tm) -> One(Apply(tm, <<o, k>>, st, d))
          [] OTHER -> Index(tm, k, st, d, tries - 1)

Update(o, k, v, st, d, tries) ==
    LET tm == Meta(o, "__newindex", st)
        raw == IF ttistable(o) THEN luaH_get(st.tables[o[2]], k) ELSE nil
    IN  CASE tries = 0 -> Failed("loop", st)
          [] tries > 0 /\ ~ttistable(o) -> Failed("index", st)
          [] tries > 0 /\ ttistable(o) /\ k = nil -> Failed("nil key", st)
          [] tries > 0 /\ ttistable(o) /\ k # nil /\ (raw # nil \/ tm = nil) ->
                Ok(<<>>, [st EXCEPT !.tables[o[2]] = Stored(@, k, v)])
          [] tries > 0 /\ raw = nil /\ ttisfunction(tm) -> Apply(tm, <<o, k, v>>, st, d)
          [] OTHER -> Update(tm, k, v, st, d, tries - 1)

\* The handler of the first operand is preferred.
Handled(a, b, event, what, st, d) ==
    LET tm == IF Meta(a, event, st) # nil THEN Meta(a, event, st) ELSE Meta(b, event, st)
    IN  IF tm = nil THEN Failed(what, st) ELSE One(Apply(tm, <<a, b>>, st, d))

Arithmetic(op, a, b, st, d) ==
    IF isnumber(a) /\ isnumber(b)
    THEN Ok(<<number(luai_num(OpOf[op], tonumber(a)[2], tonumber(b)[2]))>>, st)
    ELSE Handled(a, b, Event[OpOf[op]], "arithmetic", st, d)

Concatenation(a, b, st, d) ==
    IF IsStr(a) /\ IsStr(b) THEN Ok(<<string(tostring(a)[2] \o tostring(b)[2])>>, st)
    ELSE Handled(a, b, "__concat", "concatenate", st, d)

AsBoolean(r, positive) == Then(r, LAMBDA q : Ok(<<bool(Truth(q.v[1]) = positive)>>, q.st))

\* Operands of one type, with the same handler.
Ordered(a, b, event, st) ==
    IF ttype(a) = ttype(b) /\ Meta(a, event, st) = Meta(b, event, st) THEN Meta(a, event, st) ELSE nil

Less(a, b, st, d) ==
    LET tm == Ordered(a, b, "__lt", st)
    IN  CASE ttype(a) = "number" /\ ttype(b) = "number" -> Ok(<<bool(a[2] < b[2])>>, st)
          [] ttype(a) = "string" /\ ttype(b) = "string" -> Ok(<<bool(strcoll(a[2], b[2]) < 0)>>, st)
          [] tm # nil -> AsBoolean(One(Apply(tm, <<a, b>>, st, d)), TRUE)
          [] OTHER -> Failed("compare", st)

LessOrEqual(a, b, st, d) ==
    LET le == Ordered(a, b, "__le", st)
        lt == Ordered(b, a, "__lt", st)
    IN  CASE ttype(a) = "number" /\ ttype(b) = "number" -> Ok(<<bool(a[2] <= b[2])>>, st)
          [] ttype(a) = "string" /\ ttype(b) = "string" -> Ok(<<bool(strcoll(a[2], b[2]) <= 0)>>, st)
          [] le # nil -> AsBoolean(One(Apply(le, <<a, b>>, st, d)), TRUE)
          [] le = nil /\ lt # nil -> AsBoolean(One(Apply(lt, <<b, a>>, st, d)), FALSE)
          [] OTHER -> Failed("compare", st)

Equal(a, b, st, d) ==
    LET tm == Ordered(a, b, "__eq", st)
    IN  IF a = b \/ ~ttistable(a) \/ tm = nil THEN Ok(<<bool(a = b)>>, st)
        ELSE AsBoolean(One(Apply(tm, <<a, b>>, st, d)), TRUE)

Binary(op, a, b, st, d) ==
    CASE op \in DOMAIN OpOf -> Arithmetic(op, a, b, st, d)
      [] op = ".." -> Concatenation(a, b, st, d)
      [] op = "==" -> Equal(a, b, st, d)
      [] op = "~=" -> AsBoolean(Equal(a, b, st, d), FALSE)
      [] op = "<" -> Less(a, b, st, d)
      [] op = "<=" -> LessOrEqual(a, b, st, d)
      [] op = ">" -> Less(b, a, st, d)
      [] op = ">=" -> LessOrEqual(b, a, st, d)

Unary(op, a, st, d) ==
    CASE op = "not" -> Ok(<<bool(~Truth(a))>>, st)
      [] op = "-" /\ isnumber(a) -> Ok(<<number(-tonumber(a)[2])>>, st)
      [] op = "-" /\ ~isnumber(a) -> Handled(a, a, "__unm", "arithmetic", st, d)
      [] op = "#" /\ ttistable(a) -> Ok(<<number(luaH_getn(st.tables[a[2]]))>>, st)
      [] op = "#" /\ ttype(a) = "string" -> Ok(<<number(Len(a[2]))>>, st)
      [] OTHER -> Failed("length", st)

-----------------------------------------------------------------------------
(* Calls.                                                                  *)

\* The arguments from a place on, which is counted from the end when it is negative.
Selected(args, st) ==
    LET last == Len(args)
        n == tonumber(Nth(args, 1))[2]
        from == IF n < 0 THEN last + n + 1 ELSE n + 1
    IN  IF Nth(args, 1) = string("#") THEN Ok(<<number(last - 1)>>, st)
        ELSE IF ~isnumber(Nth(args, 1)) THEN Failed("argument", st)
        ELSE IF from < 2 THEN Failed("argument", st)
        ELSE Ok(SubSeq(args, from, last), st)

\* The values of a range of keys, when there is room for them and for the arguments.
Unpacked(t, first, last, nargs, st) ==
    LET from == IF first = nil THEN 1 ELSE tonumber(first)[2]
        e == IF last = nil THEN luaH_getn(t) ELSE tonumber(last)[2]
    IN  IF from <= e /\ nargs + (e - from + 1) > LUAI_MAXCSTACK THEN Failed("too many results", st)
        ELSE Ok([n \in 1..(e - from + 1) |-> luaH_get(t, number(from + n - 1))], st)

ApplyC(name, args, st, d) ==
    LET a(n) == Nth(args, n)
        called == Apply(a(1), Tail(args), st, d + 1)
        settable == ttistable(a(1)) /\ (ttistable(a(2)) \/ (Len(args) > 1 /\ a(2) = nil))
        protected == Meta(a(1), "__metatable", st)
    IN  CASE name = "print" ->
                Ok(<<>>, [st EXCEPT !.out = Append(@, [n \in DOMAIN args |-> Shown(args[n])])])
          [] name = "error" -> Outcome("error", <<a(1)>>, st)
          [] name = "pcall" /\ args # <<>> ->
                IF called.s = "error" THEN Ok(<<bool(FALSE)>> \o called.v, called.st)
                ELSE Ok(<<bool(TRUE)>> \o called.v, called.st)
          [] name = "assert" /\ args # <<>> /\ Truth(a(1)) -> Ok(args, st)
          [] name = "assert" /\ args # <<>> /\ ~Truth(a(1)) /\ a(2) = nil -> Failed("assertion failed!", st)
          [] name = "assert" /\ args # <<>> /\ ~Truth(a(1)) /\ a(2) # nil /\ IsStr(a(2)) ->
                Failed(tostring(a(2))[2], st)
          [] name = "setmetatable" /\ settable /\ protected # nil -> Failed("protected", st)
          [] name = "setmetatable" /\ settable /\ protected = nil ->
                Ok(<<a(1)>>, [st EXCEPT !.tables[a(1)[2]].meta = IF a(2) = nil THEN 0 ELSE a(2)[2]])
          [] name = "rawset" /\ ttistable(a(1)) /\ Len(args) > 2 ->
                Ok(<<a(1)>>, [st EXCEPT !.tables[a(1)[2]] = Stored(@, a(2), a(3))])
          [] name = "rawget" /\ ttistable(a(1)) /\ Len(args) > 1 ->
                Ok(<<luaH_get(st.tables[a(1)[2]], a(2))>>, st)
          [] name = "rawequal" /\ Len(args) > 1 -> Ok(<<bool(a(1) = a(2))>>, st)
          [] name = "type" /\ args # <<>> -> Ok(<<string(ttype(a(1)))>>, st)
          [] name = "getmetatable" /\ args # <<>> ->
                Ok(<<IF protected # nil THEN protected
                     ELSE IF ttistable(a(1)) /\ st.tables[a(1)[2]].meta # 0
                     THEN table(st.tables[a(1)[2]].meta) ELSE nil>>, st)
          [] name = "select" -> Selected(args, st)
          [] name = "unpack" /\ ttistable(a(1)) /\ \A n \in 2..3 : a(n) = nil \/ isnumber(a(n)) ->
                Unpacked(st.tables[a(1)[2]], a(2), a(3), Len(args), st)
          [] name = "ipairs" /\ ttistable(a(1)) ->
                Ok(<<CFunction("ipairsaux"), a(1), number(0)>>, st)
          [] name = "ipairsaux" ->
                LET v == luaH_get(st.tables[a(1)[2]], number(a(2)[2] + 1))
                IN  Ok(IF v = nil THEN <<>> ELSE <<number(a(2)[2] + 1), v>>, st)
          [] OTHER -> Failed("argument", st)

\* The old name of the extra arguments, for a function that does not use the new one.
OldStyle(f, extra, b) ==
    LET entries == [k \in {number(n) : n \in DOMAIN extra} |-> extra[k[2]]]
        st == Alloc(entries @@ (string("n") :> number(Len(extra))), b.st)
    IN  IF ~f.vararg THEN b
        ELSE IF \E n \in DOMAIN Block(f.block) : Block(f.block)[n] = <<"...">>
        THEN Bind(b.env, <<"arg">>, <<nil>>, b.st)
        ELSE Bind(b.env, <<"arg">>, <<Last_(st)>>, st)

\* A call in a return gives its place to the call it returns.
Apply(f, args, st, d) ==
    LET fun == st.funs[f[3]]
        tm == Meta(f, "__call", st)
        extra == IF fun.vararg THEN SubSeq(args, Len(fun.params) + 1, Len(args)) ELSE <<>>
        params == Bind([fun.env EXCEPT !.va = extra, !.d = d + 1], fun.params, args, st)
        b == OldStyle(fun, extra, params)
        r == ExecBlock(fun.block, 1, b.env, b.st)
    IN  CASE ~ttisfunction(f) /\ ~ttisfunction(tm) -> Failed("call", st)
          [] ~ttisfunction(f) /\ ttisfunction(tm) -> Apply(tm, <<f>> \o args, st, d)
          [] ttisfunction(f) /\ d >= MaxDepth -> Failed("overflow", st)
          [] ttisfunction(f) /\ d < MaxDepth /\ f[2] = "C" -> ApplyC(f[3], args, st, d)
          [] OTHER -> CASE r.s = "tail" -> Apply(r.v[1], Tail(r.v), r.st, d)
                        [] r.s = "error" -> r
                        [] OTHER -> Ok(r.v, r.st)

-----------------------------------------------------------------------------
(* Expressions.                                                            *)

Closure(f, env, st) ==
    Ok(<<LFunction(Len(st.funs) + 1)>>,
       [st EXCEPT !.funs = Append(@, [params |-> f[2], vararg |-> f[3], block |-> f[4], env |-> env])])

\* Only the last expression of a list gives all its values.
EvalList(es, n, env, st) ==
    IF n > Len(es) THEN Ok(<<>>, st)
    ELSE IF n = Len(es) THEN Eval(es[n], env, st)
    ELSE Then(One(Eval(es[n], env, st)), LAMBDA r :
         Then(EvalList(es, n + 1, env, r.st), LAMBDA q : Ok(r.v \o q.v, q.st)))

Fields(fs, n, m, t, env, st) ==
    LET put(k, v, s) == [s EXCEPT !.tables[t[2]] = Stored(@, k, v)]
        f == fs[n]
    IN  IF n > Len(fs) THEN Ok(<<t>>, st)
        ELSE IF f[1] = "pair"
        THEN Then(One(Eval(f[2], env, st)), LAMBDA k :
             Then(One(Eval(f[3], env, k.st)), LAMBDA v :
               IF k.v[1] = nil THEN Failed("nil key", v.st)
               ELSE Fields(fs, n + 1, m, t, env, put(k.v[1], v.v[1], v.st))))
        ELSE Then(IF n = Len(fs) THEN Eval(f[2], env, st) ELSE One(Eval(f[2], env, st)), LAMBDA v :
               Fields(fs, n + 1, m + Len(v.v), t, env,
                      FoldLeftDomain(LAMBDA s, j : put(number(m + j), v.v[j], s), v.st, v.v)))

Variable(x, env, st) ==
    IF x \in DOMAIN env.vars THEN Ok(<<st.store[env.vars[x]]>>, st)
    ELSE Index(globals, string(x), st, env.d, MAXTAGLOOP)

CallParts(e, env, st) ==
    IF e[1] = "call"
    THEN Then(One(Eval(e[2], env, st)), LAMBDA f :
         Then(EvalList(e[3], 1, env, f.st), LAMBDA a : Ok(f.v \o a.v, a.st)))
    ELSE Then(One(Eval(e[2], env, st)), LAMBDA o :
         Then(Index(o.v[1], string(e[3]), o.st, env.d, MAXTAGLOOP), LAMBDA f :
         Then(EvalList(e[4], 1, env, f.st), LAMBDA a : Ok(f.v \o o.v \o a.v, a.st))))

Eval(e, env, st) ==
    CASE e[1] = "nil" -> Ok(<<nil>>, st)
      [] e[1] \in {"true", "false"} -> Ok(<<bool(e[1] = "true")>>, st)
      [] e[1] = "num" -> Ok(<<number(e[2])>>, st)
      [] e[1] = "str" -> Ok(<<string(e[2])>>, st)
      [] e[1] = "..." -> Ok(env.va, st)
      [] e[1] = "name" -> Variable(e[2], env, st)
      [] e[1] = "paren" -> One(Eval(e[2], env, st))
      [] e[1] = "function" -> Closure(e, env, st)
      [] e[1] = "field" ->
            Then(One(Eval(e[2], env, st)), LAMBDA o :
                 Index(o.v[1], string(e[3]), o.st, env.d, MAXTAGLOOP))
      [] e[1] = "index" ->
            Then(One(Eval(e[2], env, st)), LAMBDA o :
            Then(One(Eval(e[3], env, o.st)), LAMBDA k :
                 Index(o.v[1], k.v[1], k.st, env.d, MAXTAGLOOP)))
      [] e[1] \in {"call", "method"} ->
            Then(CallParts(e, env, st), LAMBDA c : Apply(c.v[1], Tail(c.v), c.st, env.d))
      [] e[1] = "table" ->
            LET new == Alloc(<<>>, st) IN Fields(e[2], 1, 0, Last_(new), env, new)
      [] e[1] = "unop" ->
            Then(One(Eval(e[3], env, st)), LAMBDA a : Unary(e[2], a.v[1], a.st, env.d))
      [] e[1] = "binop" /\ e[2] = "and" ->
            Then(One(Eval(e[3], env, st)), LAMBDA a :
                 IF Truth(a.v[1]) THEN One(Eval(e[4], env, a.st)) ELSE a)
      [] e[1] = "binop" /\ e[2] = "or" ->
            Then(One(Eval(e[3], env, st)), LAMBDA a :
                 IF Truth(a.v[1]) THEN a ELSE One(Eval(e[4], env, a.st)))
      [] e[1] = "binop" /\ e[2] \notin {"and", "or"} ->
            Then(One(Eval(e[3], env, st)), LAMBDA a :
            Then(One(Eval(e[4], env, a.st)), LAMBDA b :
                 Binary(e[2], a.v[1], b.v[1], b.st, env.d)))

-----------------------------------------------------------------------------
(* Statements.                                                             *)

\* The tables and the keys of the targets are evaluated before the values.
Targets(ts, n, env, st) ==
    LET t == ts[n]
        key == IF t[1] = "index" THEN t[3] ELSE <<"str", t[3]>>
    IN  IF n > Len(ts) THEN Ok(<<>>, st)
        ELSE IF t[1] = "name"
        THEN Then(Targets(ts, n + 1, env, st), LAMBDA r : Ok(<<<<"name", t[2]>>>> \o r.v, r.st))
        ELSE Then(EvalList(<<<<"paren", t[2]>>, <<"paren", key>>>>, 1, env, st), LAMBDA a :
             Then(Targets(ts, n + 1, env, a.st), LAMBDA r : Ok(<<<<"at", a.v>>>> \o r.v, r.st)))

Stores(ts, vs, env, st) ==
    LET t == ts[Len(ts)]
        v == Nth(vs, Len(ts))
        r == CASE t[1] = "at" -> Update(t[2][1], t[2][2], v, st, env.d, MAXTAGLOOP)
               [] t[1] = "name" /\ t[2] \in DOMAIN env.vars ->
                     Ok(<<>>, [st EXCEPT !.store[env.vars[t[2]]] = v])
               [] OTHER -> Update(globals, string(t[2]), v, st, env.d, MAXTAGLOOP)
    IN  IF ts = <<>> THEN Ok(<<>>, st)
        ELSE Then(r, LAMBDA q : Stores(SubSeq(ts, 1, Len(ts) - 1), vs, env, q.st))

Assign(ts, es, env, st) ==
    Then(Targets(ts, 1, env, st), LAMBDA t :
    Then(EvalList(es, 1, env, t.st), LAMBDA v : Stores(t.v, v.v, env, v.st)))

\* A loop ends normally after a break.
Broken(r) == IF r.s = "break" THEN Ok(<<>>, r.st) ELSE r

Loop(s, env, st) ==
    IF s[1] = "while"
    THEN Then(One(Eval(s[2], env, st)), LAMBDA c :
           IF ~Truth(c.v[1]) THEN Ok(<<>>, c.st)
           ELSE Then(ExecBlock(s[3], 1, env, c.st), LAMBDA r : Loop(s, env, r.st)))
    ELSE Then(ExecBlock(s[2], 1, env, st), LAMBDA r :
         Then(One(Eval(s[3], r.env, r.st)), LAMBDA c :
           IF Truth(c.v[1]) THEN Ok(<<>>, c.st) ELSE Loop(s, env, c.st)))

For(s, range, env, st) ==
    LET b == Bind(env, <<s[2]>>, <<number(range[1])>>, st)
    IN  IF IF range[3] > 0 THEN range[1] > range[2] ELSE range[1] < range[2] THEN Ok(<<>>, st)
        ELSE Then(ExecBlock(s[4], 1, b.env, b.st), LAMBDA r :
                  For(s, <<range[1] + range[3], range[2], range[3]>>, env, r.st))

ForIn(s, f, env, st) ==
    Then(Apply(f[1], <<f[2], f[3]>>, st, env.d), LAMBDA r :
      LET b == Bind(env, s[2], r.v, r.st)
      IN  IF Nth(r.v, 1) = nil THEN Ok(<<>>, r.st)
          ELSE Then(ExecBlock(s[4], 1, b.env, b.st), LAMBDA q :
                    ForIn(s, <<f[1], f[2], r.v[1]>>, env, q.st)))

Clause(s, n, env, st) ==
    IF n > Len(s[2]) THEN ExecBlock(s[3], 1, env, st)
    ELSE Then(One(Eval(s[2][n][1], env, st)), LAMBDA c :
           IF Truth(c.v[1]) THEN ExecBlock(s[2][n][2], 1, env, c.st) ELSE Clause(s, n + 1, env, c.st))

Method(f) == <<"function", <<"self">> \o f[2], f[3], f[4]>>

Exec(s, env, st) ==
    CASE s[1] = "assign" -> Assign(s[2], s[3], env, st)
      [] s[1] = "functionstat" -> Assign(<<s[2]>>, <<s[3]>>, env, st)
      [] s[1] = "methodstat" -> Assign(<<<<"field", s[2], s[3]>>>>, <<Method(s[4])>>, env, st)
      [] s[1] = "callstat" -> Eval(s[2], env, st)
      [] s[1] = "do" -> ExecBlock(s[2], 1, env, st)
      [] s[1] = "if" -> Clause(s, 1, env, st)
      [] s[1] \in {"while", "repeat"} -> Broken(Loop(s, env, st))
      [] s[1] = "fornum" ->
            Then(EvalList(s[3] \o <<<<"num", 1>>>>, 1, env, st), LAMBDA r :
              IF \A n \in 1..3 : isnumber(r.v[n])
              THEN Broken(For(s, [n \in 1..3 |-> tonumber(r.v[n])[2]], env, r.st))
              ELSE Failed("for", r.st))
      [] s[1] = "forin" ->
            Then(EvalList(s[3], 1, env, st), LAMBDA r :
                 Broken(ForIn(s, [n \in 1..3 |-> Nth(r.v, n)], env, r.st)))
      [] s[1] = "break" -> Outcome("break", <<>>, st)
      [] s[1] = "return" /\ Len(s[2]) = 1 /\ s[2][1][1] \in {"call", "method"} ->
            Then(CallParts(s[2][1], env, st), LAMBDA c : Outcome("tail", c.v, c.st))
      [] OTHER -> Then(EvalList(s[2], 1, env, st), LAMBDA r : Outcome("return", r.v, r.st))

\* The variables of a local statement exist from the next one, those of a function in it.
ExecBlock(b, n, env, st) ==
    LET s == b[n]
        f == Bind(env, <<s[2]>>, <<nil>>, st)
        c == Closure(s[3], f.env, f.st)
    IN  IF n > Len(b) THEN [Ok(<<>>, st) EXCEPT !.env = env]
        ELSE IF s[1] = "local"
        THEN Then(EvalList(s[3], 1, env, st), LAMBDA r :
               LET v == Bind(env, s[2], r.v, r.st) IN ExecBlock(b, n + 1, v.env, v.st))
        ELSE IF s[1] = "localfunction"
        THEN ExecBlock(b, n + 1, f.env, [c.st EXCEPT !.store[Len(f.st.store)] = c.v[1]])
        ELSE Then(Exec(s, env, st), LAMBDA r : ExecBlock(b, n + 1, env, r.st))

\* What a chunk prints, and whether it ends in an error.
Meaning(program) ==
    LET st == [store |-> <<>>, tables |-> <<[map |-> Empty.tables[1].map, meta |-> 0]>>,
               funs |-> <<>>, out |-> <<>>]
        r == ExecBlock(program, 1, [vars |-> <<>>, va |-> <<>>, d |-> 1], st)
        ended == IF r.s = "tail" THEN Apply(r.v[1], Tail(r.v), r.st, 1) ELSE r
    IN  [out |-> ended.st.out, status |-> IF ended.s = "error" THEN "error" ELSE "done"]

-----------------------------------------------------------------------------
(* Properties.                                                             *)

\* A chunk prints what its program means, in that order, and ends in an error exactly
\* when the program does; a chunk that is refused prints nothing.
RunsAsWritten ==
    [][L'.status \in {"done", "error", "syntax error"} =>
         [out |-> L'.out, status |-> L'.status] =
             IF chunkname \in Refused THEN [out |-> <<>>, status |-> "syntax error"]
             ELSE Meaning(Program(chunkname))]_vars
=============================================================================
