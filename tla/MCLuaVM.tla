------------------------------ MODULE MCLuaVM ------------------------------
(***************************************************************************)
(* Chunks for LuaVM: families that combine the constructs of the language,  *)
(* and single programs for what the families do not reach.                 *)
(***************************************************************************)
EXTENDS LuaMeaning

N(x) == <<"name", x>>
I(n) == <<"num", n>>
S(s) == <<"str", s>>
Nil == <<"nil">>
False == <<"false">>
True == <<"true">>
Dots == <<"...">>
Op(op, x, y) == <<"binop", op, x, y>>
Un(op, x) == <<"unop", op, x>>
At(t, k) == <<"index", t, k>>
Dot(t, s) == <<"field", t, s>>
CallE(f, args) == <<"call", f, args>>
Call(f, args) == <<"callstat", CallE(f, args)>>
Show(args) == Call(N("print"), args)
Fun(xs, b) == <<"function", xs, FALSE, b>>
VarFun(xs, b) == <<"function", xs, TRUE, b>>
Table(es) == <<"table", [n \in DOMAIN es |-> <<"item", es[n]>>]>>
Record(k, e) == <<"table", << <<"pair", S(k), e>> >> >>
Local(xs, es) == <<"local", xs, es>>
Let1(x, e) == Local(<<x>>, <<e>>)
Assign_(ts, es) == <<"assign", ts, es>>
Put(t, e) == Assign_(<<t>>, <<e>>)
If(e, b) == <<"if", << <<e, b>> >>, <<>> >>
Return_(es) == <<"return", es>>
Def(x, f) == <<"localfunction", x, f>>
Break == <<"break">>


-----------------------------------------------------------------------------
(* Families.                                                               *)

\* A value, a condition and a negation made of jumps.
Atoms == <<N("a"), N("c"), I(1), Nil, Op("<", N("c"), I(2)), Un("not", N("a"))>>
Logic == {"and", "or"}

LogicChunk(c) ==
    LET shown(z) == LET l == Op(c[1], Op(c[2], c[3], c[4]), z)
                        r == Op(c[1], c[3], Op(c[2], c[4], z))
                    IN  <<Let1("d", l), Show(<<N("d"), r, Un("not", l)>>),
                          If(r, <<Show(<<I(1)>>)>>)>>
    IN  <<Local(<<"a", "b", "c">>, <<False, Nil, I(1)>>)>>
        \o shown(N("b")) \o shown(I(2)) \o shown(Op("==", N("c"), I(1)))

\* Assignments whose targets and values mention each other.
Targets_ == <<N("x"), N("t"), N("g"), At(N("t"), N("x")), Dot(N("t"), "x"), N("u")>>
Values_ == <<N("x"), I(2), At(N("t"), I(1)), CallE(N("two"), <<>>), Nil>>

AssignChunk(c) == <<
    Local(<<"x", "t", "u">>, <<I(1), Table(<<I(5), I(6)>>), I(7)>>),
    Def("two", Fun(<<>>, <<Return_(<<N("u"), I(8)>>)>>)),
    Let1("old", N("t")),
    Assign_(<<c[1], c[2]>>, IF c[4] = Nil THEN <<c[3]>> ELSE <<c[3], c[4], I(9)>>),
    Show(<<N("x"), N("u"), N("g"), At(N("old"), I(1)), Dot(N("old"), "x"), At(N("old"), I(2))>>)>>

\* Loops that end early, whose variables are captured or not.
Bodies == <<
    <<Let1("y", N("x")), Put(N("f"), Fun(<<>>, <<Put(N("y"), Op("+", N("y"), I(3))), Return_(<<N("y")>>)>>))>>,
    <<Let1("y", N("x"))>>,
    <<Let1("y", N("x")), <<"do", <<Let1("z", N("y")), Put(N("f"), Fun(<<>>, <<Return_(<<N("z")>>)>>))>>>>>> >>
Exits == <<If(Op("==", N("n"), I(2)), <<Break>>), Put(N("n"), N("n")),
           If(Op(">", N("n"), I(1)), <<Return_(<<CallE(N("print"), <<N("n")>>)>>)>>)>>
Loops == {"while", "repeat", "fornum", "forin"}

LoopChunk(c) ==
    LET count == <<Put(N("n"), Op("+", N("n"), I(1))), Let1("x", N("n"))>>
        inside == count \o c[2] \o <<c[3], Call(N("show"), <<N("f")>>)>>
        loop == CASE c[1] = "while" -> <<"while", Op("<", N("n"), I(3)), inside>>
                  [] c[1] = "repeat" -> <<"repeat", inside, Op(">=", Op("+", N("x"), N("y")), I(6))>>
                  [] c[1] = "fornum" -> <<"fornum", "v", <<I(3), I(1), Un("-", I(1))>>, inside>>
                  [] c[1] = "forin" -> <<"forin", <<"k", "v">>, <<CallE(N("ipairs"), <<Table(<<I(5), I(6), I(7)>>)>>)>>, inside>>
    IN  <<Local(<<"n", "f">>, <<I(0)>>),
          Def("show", Fun(<<"f">>, <<If(N("f"), <<Show(<<CallE(N("f"), <<>>)>>)>>)>>)),
          loop, Call(N("show"), <<N("f")>>), Call(N("show"), <<N("f")>>)>>

\* Lists of values: how many each context takes.
Lists == << <<>>, <<I(1)>>, <<CallE(N("two"), <<>>)>>, <<I(1), CallE(N("two"), <<>>)>>,
            <<CallE(N("two"), <<>>), I(1)>>, <<Dots>>, <<I(1), Nil, Dots>>,
            << <<"paren", Dots>> >>, <<I(1), I(2), I(3), CallE(N("two"), <<>>)>> >>
Params == << <<>>, <<"p">>, <<"p", "q">> >>

ListChunk(c) == <<
    Def("two", Fun(<<>>, <<Return_(<<I(4), I(5)>>)>>)),
    Def("f", VarFun(c[2], <<
        Local(<<"a", "b">>, c[1]),
        Let1("t", Table(c[1])),
        Show(<<N("a"), N("b"), Un("#", N("t")), At(N("t"), I(2)), At(N("t"), I(4))>>),
        Show(c[1]),
        Return_(c[1])>>)),
    Show(<<CallE(N("f"), <<I(6), I(7), I(8)>>)>>),
    Show(<<CallE(N("f"), <<>>), CallE(N("f"), <<I(9)>>)>>)>>

\* Operands with and without metamethods; a handler shows what it is given.
Handlers == {"__index", "__newindex", "__call", "__add", "__concat", "__eq", "__lt", "__le", "__unm"}
Operands == <<N("t"), N("o"), I(1), S("2")>>

MetaChunk(c) ==
    LET x == c[2]
        y == c[3]
        handler == Fun(<<"p", "q">>, <<Show(<<S(c[1]), N("p"), N("q")>>), Return_(<<False, I(3)>>)>>)
        attempt(e) == <<Show(<<CallE(N("pcall"), <<Fun(<<>>, <<Return_(<<e, I(0)>>)>>)>>)>>)>>
        change == <<Show(<<CallE(N("pcall"), <<Fun(<<>>, <<Put(At(x, y), I(4))>>)>>)>>)>>
    IN  <<Let1("m", Record(c[1], handler)),
          Local(<<"t", "o">>, <<CallE(N("setmetatable"), <<Table(<<>>), N("m")>>), Table(<<>>)>>)>>
        \o attempt(CASE c[1] \in {"__index", "__newindex"} -> At(x, y)
                     [] c[1] = "__call" -> CallE(x, <<y>>)
                     [] c[1] = "__add" -> Op("+", x, y)
                     [] c[1] = "__concat" -> Op("..", I(1), Op("..", x, y))
                     [] c[1] = "__eq" -> Op("~=", x, y)
                     [] c[1] = "__lt" -> Op(">=", x, y)
                     [] c[1] = "__le" -> Op("<=", x, y)
                     [] c[1] = "__unm" -> Un("-", x))
        \o (IF c[1] \in {"__index", "__newindex"} THEN change ELSE <<>>)
        \o attempt(Op("==", x, y))

\* Functions of the library with pairs of tables, numbers, strings and nil, and how many
\* results they give.
Library == {"assert", "getmetatable", "setmetatable", "rawget", "rawequal", "type", "select", "unpack"}
Arguments == <<N("t"), N("o"), I(2), Un("-", I(1)), S("#"), S("3"), Nil>>

LibraryChunk(c) ==
    LET try(args) == Show(<<CallE(N("pcall"), <<N(c[1])>> \o args)>>)
    IN  <<Local(<<"t", "o">>, <<Table(<<>>), Table(<<I(4), I(5), S("x")>>)>>),
          Call(N("setmetatable"), <<N("t"), Record("__metatable", I(7))>>),
          Call(N("setmetatable"), <<N("o"), Record("__index", N("t"))>>),
          try(<<>>), try(<<c[2]>>), try(<<c[2], I(2), I(4)>>), try(<<c[2], I(1), I(4)>>)>>
        \o [n \in DOMAIN Arguments |-> try(<<c[2], Arguments[n]>>)]

-----------------------------------------------------------------------------
(* Single programs.                                                        *)

\* A tail call needs no frame; other calls come to the limit, and pcall() out of it.  The
\* last pcall() of deep() is in the last frame, and leaves no limit but twice the first.
Recursion == <<
    Def("down", Fun(<<"k">>, <<If(Op("==", N("k"), I(0)), <<Return_(<<S("end")>>)>>),
                               Return_(<<CallE(N("down"), <<Op("-", N("k"), I(1))>>)>>)>>)),
    Def("sum", Fun(<<"k">>, <<If(Op("==", N("k"), I(0)), <<Return_(<<I(0)>>)>>),
                              Return_(<<Op("+", N("k"), CallE(N("sum"), <<Op("-", N("k"), I(1))>>))>>)>>)),
    Def("deep", Fun(<<>>, <<Call(N("pcall"), <<N("deep")>>)>>)),
    Show(<<CallE(N("down"), <<I(12)>>)>>),
    Show(<<CallE(N("sum"), <<I(2)>>), CallE(N("pcall"), <<N("sum"), I(9)>>)>>),
    Call(N("deep"), <<>>), Call(N("sum"), <<I(20)>>)>>

\* An error passes through loops whose variables are captured, twice.
Unwinding == <<
    Local(<<"f", "g">>, <<>>),
    Def("fail", Fun(<<"k">>, <<
        <<"fornum", "x", <<I(1), I(3)>>, <<
            Let1("y", Op("*", N("x"), I(10))),
            Put(N("f"), Fun(<<>>, <<Put(N("y"), Op("+", N("y"), N("k"))), Return_(<<N("y")>>)>>)),
            If(Op("==", N("x"), I(2)), <<Call(N("error"), <<N("f")>>)>>)>>>>>>)),
    Def("middle", Fun(<<>>, <<
        Let1("z", I(5)),
        Put(N("g"), Fun(<<>>, <<Put(N("z"), Op("+", N("z"), I(1))), Return_(<<N("z")>>)>>)),
        Local(<<"ok", "e">>, <<CallE(N("pcall"), <<N("fail"), I(1)>>)>>),
        Show(<<N("ok"), CallE(N("e"), <<>>), CallE(N("f"), <<>>), CallE(N("g"), <<>>)>>),
        Call(N("error"), <<Table(<<CallE(N("g"), <<>>)>>)>>)>>)),
    Local(<<"ok", "e">>, <<CallE(N("pcall"), <<N("middle")>>)>>),
    Show(<<N("ok"), At(N("e"), I(1)), CallE(N("g"), <<>>), CallE(N("f"), <<>>)>>),
    Call(N("error"), <<S("last")>>)>>

\* A table that is its own metatable gets a metamethod after it was known to have none.
LateMethods == <<
    Let1("t", Table(<<>>)),
    Call(N("setmetatable"), <<N("t"), N("t")>>),
    Show(<<Dot(N("t"), "a")>>), Put(Dot(N("t"), "b"), I(1)),
    Put(Dot(N("t"), "__newindex"), Fun(<<"o", "k", "v">>, <<Call(N("rawset"), <<N("o"), N("k"), I(7)>>)>>)),
    Put(Dot(N("t"), "c"), I(2)), Show(<<Dot(N("t"), "c"), Dot(N("t"), "b"), Dot(N("t"), "z")>>),
    Put(Dot(N("t"), "__index"), Record("d", I(3))), Show(<<Dot(N("t"), "__index")>>),
    Call(N("rawset"), <<N("t"), S("__index"), Record("d", I(3))>>), Show(<<Dot(N("t"), "d"), Dot(N("t"), "e")>>),
    Call(N("rawset"), <<N("t"), S("__index"), N("t")>>), Show(<<Dot(N("t"), "e")>>)>>

\* The upvalue of a function around the one around; two closures of one variable.
Counters == <<
    Def("make", Fun(<<"n">>, <<
        Let1("step", I(2)),
        Return_(<<Fun(<<>>, <<
            Let1("inner", Fun(<<>>, <<Put(N("n"), Op("+", N("n"), N("step"))), Return_(<<N("n")>>)>>)),
            Return_(<<CallE(N("inner"), <<>>)>>)>>),
          Fun(<<"s">>, <<Put(N("step"), N("s"))>>)>>)>>)),
    Local(<<"a", "set">>, <<CallE(N("make"), <<I(1)>>)>>), Let1("b", CallE(N("make"), <<I(10)>>)),
    Show(<<CallE(N("a"), <<>>), CallE(N("a"), <<>>), CallE(N("b"), <<>>)>>),
    Call(N("set"), <<I(5)>>), Show(<<CallE(N("a"), <<>>), CallE(N("b"), <<>>)>>)>>

\* Methods, the old name of the extra arguments, more constants than an operand can name.
Objects == <<
    Put(N("o"), <<"table", << <<"pair", S("n"), I(2)>>, <<"item", I(6)>>, <<"pair", I(9), False>>, <<"item", True>> >> >>),
    <<"methodstat", N("o"), "add", Fun(<<"k">>, <<Put(Dot(N("self"), "n"), Op("+", Dot(N("self"), "n"), N("k"))),
                                                   Return_(<<N("self"), Dot(N("self"), "n")>>)>>)>>,
    <<"functionstat", Dot(N("o"), "old"), VarFun(<<>>, <<Return_(<<Dot(N("arg"), "n"), At(N("arg"), I(2))>>)>>)>>,
    Show(<<<<"method", N("o"), "add", <<I(3)>>>>, <<"method", N("o"), "old", <<S("x"), S("y")>>>>>>),
    Show(<<Op("..", Op("..", S(""), I(1)), Op("..", S("a"), S(""))), Op("-", Op("^", I(2), Op("^", I(3), I(2))), I(1)),
           Op("%", I(7), I(3)), Op("/", N("o"), Nil)>>)>>

Compared == <<
    Show(<<Op("<", S("a"), S("b")), Op("<=", S("a"), S("")), Op("==", S("1"), I(1)), Op("<=", I(2), I(2)),
           Op("+", S("10"), I(1)), Un("-", S("3")), Un("#", S("abc")), Op("~=", Nil, False)>>),
    <<"fornum", "x", <<S("1"), I(4), I(2)>>, <<Show(<<N("x")>>)>>>>,
    <<"if", << <<Nil, <<Show(<<I(1)>>)>> >>, <<Op("<", I(1), I(0)), <<Show(<<I(2)>>)>> >> >>, <<Show(<<I(3)>>)>>>>,
    <<"fornum", "x", <<I(1), N("none")>>, <<>>>>>>

Failures == <<
    <<Call(N("none"), <<>>)>>, <<Show(<<At(N("none"), I(1))>>)>>, <<Put(At(Table(<<>>), Nil), I(1))>>,
    <<Show(<<Un("#", I(1))>>)>>, <<Call(N("setmetatable"), <<I(1)>>)>>, <<Call(N("ipairs"), <<>>)>>,
    <<Call(N("pcall"), <<>>)>>, <<Return_(<<CallE(N("none"), <<>>)>>)>>,
    <<Return_(<<CallE(N("print"), <<I(1)>>)>>)>> >>

\* What the grammar or a limit of the compiler refuses.
Names(n) == [m \in 1..n |-> ToString(m)]
Wrong == <<
    <<Break>>, <<Def("f", Fun(<<>>, <<Break>>))>>, <<Def("f", Fun(<<>>, <<Return_(<<Dots>>)>>))>>,
    <<Put(CallE(N("f"), <<>>), I(1))>>, <<Put(<<"paren", N("x")>>, I(1))>>,
    <<Return_(<<>>), Show(<<>>)>>,
    <<Local(Names(LUAI_MAXVARS + 1), <<>>)>>,
    <<Local(Names(LUAI_MAXUPVALUES + 1), <<>>),
      Def("f", Fun(<<>>, <<Show([m \in 1..(LUAI_MAXUPVALUES + 1) |-> N(ToString(m))])>>))>>,
    <<Show([m \in 1..MAXSTACK |-> I(m)])>> >>

Single == <<Recursion, Unwinding, LateMethods, Counters, Objects, Compared>> \o Failures

\* The name of a chunk says its family and its elements.
TheProgram(name) ==
    LET of(seq, n) == seq[name[n]]
    IN  CASE name[1] = "single" -> of(Single, 2)
          [] name[1] = "wrong" -> of(Wrong, 2)
          [] name[1] = "logic" -> LogicChunk(<<name[2], name[3], of(Atoms, 4), of(Atoms, 5)>>)
          [] name[1] = "assign" ->
                AssignChunk(<<of(Targets_, 2), of(Targets_, 3), of(Values_, 4), of(Values_, 5)>>)
          [] name[1] = "loop" -> LoopChunk(<<name[2], of(Bodies, 3), of(Exits, 4)>>)
          [] name[1] = "list" -> ListChunk(<<of(Lists, 2), of(Params, 3)>>)
          [] name[1] = "library" -> LibraryChunk(<<name[2], of(Arguments, 3)>>)
          [] name[1] = "meta" -> MetaChunk(<<name[2], of(Operands, 3), of(Operands, 4)>>)

TheRefused == {"wrong"} \X (DOMAIN Wrong)

TheChunks ==
    TheRefused \cup {"single"} \X (DOMAIN Single)
    \cup {"logic"} \X Logic \X Logic \X (DOMAIN Atoms) \X (DOMAIN Atoms)
    \cup {"assign"} \X (DOMAIN Targets_) \X (DOMAIN Targets_) \X (DOMAIN Values_) \X (DOMAIN Values_)
    \cup {"loop"} \X Loops \X (DOMAIN Bodies) \X (DOMAIN Exits)
    \cup {"list"} \X (DOMAIN Lists) \X (DOMAIN Params)
    \cup {"library"} \X Library \X (DOMAIN Arguments)
    \cup {"meta"} \X Handlers \X (DOMAIN Operands) \X (DOMAIN Operands)

TheChunk(name) == Tokens(TheProgram(name))
=============================================================================
