----------------------------- MODULE LuaSyntax -----------------------------
(***************************************************************************)
(* Programs as syntax trees, and the tokens they are written with: the      *)
(* input of the compiler.  Parentheses are written only where the order of  *)
(* the operators (manual.html, section 2.5.6) does not do without them, so  *)
(* that a chunk tests how the parser groups operators.                     *)
(*                                                                         *)
(* A tree is a tuple whose first element says what it is:                   *)
(*   <<"nil">>, <<"true">>, <<"false">>, <<"...">>, <<"num", n>>,           *)
(*   <<"str", s>>, <<"name", x>>, <<"index", e, k>>, <<"field", e, s>>,     *)
(*   <<"call", f, args>>, <<"method", o, s, args>>, <<"paren", e>>,         *)
(*   <<"function", params, vararg, block>>, <<"unop", op, e>>,              *)
(*   <<"binop", op, a, b>>, <<"table", fields>>, whose fields are           *)
(*   <<"item", e>> and <<"pair", k, e>>;                                    *)
(*   <<"assign", targets, es>>, <<"local", xs, es>>, <<"localfunction", x,  *)
(*   f>>, <<"callstat", call>>, <<"do", block>>, <<"while", e, block>>,     *)
(*   <<"repeat", block, e>>, <<"if", clauses, orelse>>, <<"fornum", x, es,  *)
(*   block>>, <<"forin", xs, es, block>>, <<"return", es>>, <<"break">>.    *)
(***************************************************************************)
EXTENDS Integers, Sequences, SequencesExt

Level(e) ==
    CASE e[1] = "binop" /\ e[2] = "or" -> 1
      [] e[1] = "binop" /\ e[2] = "and" -> 2
      [] e[1] = "binop" /\ e[2] \in {"<", ">", "<=", ">=", "~=", "=="} -> 3
      [] e[1] = "binop" /\ e[2] = ".." -> 4
      [] e[1] = "binop" /\ e[2] \in {"+", "-"} -> 5
      [] e[1] = "binop" /\ e[2] \in {"*", "/", "%"} -> 6
      [] e[1] = "unop" -> 7
      [] e[1] = "binop" /\ e[2] = "^" -> 8
      [] OTHER -> 9

IsPrefix_(e) == e[1] \in {"name", "index", "field", "call", "method", "paren"}

RECURSIVE Exp(_), Stat(_), Block(_)

Parenthesised(ts) == <<<<"(">>>> \o ts \o <<<<")">>>>

Above(e, level) == IF Level(e) >= level THEN Exp(e) ELSE Parenthesised(Exp(e))

PrefixExp(e) == IF IsPrefix_(e) THEN Exp(e) ELSE Parenthesised(Exp(e))

Separated(tss, separator) ==
    FoldLeftDomain(LAMBDA ts, n : ts \o (IF n = 1 THEN <<>> ELSE <<<<separator>>>>) \o tss[n],
                   <<>>, tss)

ExpList(es) == Separated([n \in DOMAIN es |-> Exp(es[n])], ",")

NameList(xs) == Separated([n \in DOMAIN xs |-> <<<<"NAME", xs[n]>>>>], ",")

Field(f) ==
    IF f[1] = "item" THEN Exp(f[2])
    ELSE IF f[2][1] = "str" THEN <<<<"NAME", f[2][2]>>, <<"=">>>> \o Exp(f[3])
    ELSE <<<<"[">>>> \o Exp(f[2]) \o <<<<"]">>, <<"=">>>> \o Exp(f[3])

FuncBody(f) ==
    Parenthesised(Separated([n \in DOMAIN f[2] |-> <<<<"NAME", f[2][n]>>>>]
                            \o (IF f[3] THEN << <<<<"...">>>> >> ELSE <<>>), ","))
    \o Block(f[4]) \o <<<<"end">>>>

\* ^ and .. group from the right.
Exp(e) ==
    CASE e[1] = "num" -> <<<<"NUMBER", e[2]>>>>
      [] e[1] = "str" -> <<<<"STRING", e[2]>>>>
      [] e[1] = "name" -> <<<<"NAME", e[2]>>>>
      [] e[1] = "index" -> PrefixExp(e[2]) \o <<<<"[">>>> \o Exp(e[3]) \o <<<<"]">>>>
      [] e[1] = "field" -> PrefixExp(e[2]) \o <<<<".">>, <<"NAME", e[3]>>>>
      [] e[1] = "call" -> PrefixExp(e[2]) \o Parenthesised(ExpList(e[3]))
      [] e[1] = "method" ->
            PrefixExp(e[2]) \o <<<<":">>, <<"NAME", e[3]>>>> \o Parenthesised(ExpList(e[4]))
      [] e[1] = "paren" -> Parenthesised(Exp(e[2]))
      [] e[1] = "function" -> <<<<"function">>>> \o FuncBody(e)
      [] e[1] = "unop" -> <<<<e[2]>>>> \o Above(e[3], 7)
      [] e[1] = "binop" /\ e[2] \in {"..", "^"} ->
            Above(e[3], Level(e) + 1) \o <<<<e[2]>>>> \o Above(e[4], IF e[2] = "^" THEN 7 ELSE 4)
      [] e[1] = "binop" /\ e[2] \notin {"..", "^"} ->
            Above(e[3], Level(e)) \o <<<<e[2]>>>> \o Above(e[4], Level(e) + 1)
      [] e[1] = "table" ->
            <<<<"{">>>> \o Separated([n \in DOMAIN e[2] |-> Field(e[2][n])], ",") \o <<<<"}">>>>
      [] OTHER -> <<<<e[1]>>>>

Clauses(cs) ==
    FoldLeftDomain(LAMBDA ts, n : ts \o <<<<IF n = 1 THEN "if" ELSE "elseif">>>> \o Exp(cs[n][1])
                                     \o <<<<"then">>>> \o Block(cs[n][2]), <<>>, cs)

Stat(s) ==
    CASE s[1] = "assign" -> ExpList(s[2]) \o <<<<"=">>>> \o ExpList(s[3])
      [] s[1] = "local" ->
            <<<<"local">>>> \o NameList(s[2])
            \o (IF s[3] = <<>> THEN <<>> ELSE <<<<"=">>>> \o ExpList(s[3]))
      [] s[1] = "localfunction" -> <<<<"local">>, <<"function">>, <<"NAME", s[2]>>>> \o FuncBody(s[3])
      [] s[1] = "functionstat" -> <<<<"function">>>> \o Exp(s[2]) \o FuncBody(s[3])
      [] s[1] = "methodstat" ->
            <<<<"function">>>> \o Exp(s[2]) \o <<<<":">>, <<"NAME", s[3]>>>> \o FuncBody(s[4])
      [] s[1] = "callstat" -> Exp(s[2])
      [] s[1] = "do" -> <<<<"do">>>> \o Block(s[2]) \o <<<<"end">>>>
      [] s[1] = "while" ->
            <<<<"while">>>> \o Exp(s[2]) \o <<<<"do">>>> \o Block(s[3]) \o <<<<"end">>>>
      [] s[1] = "repeat" -> <<<<"repeat">>>> \o Block(s[2]) \o <<<<"until">>>> \o Exp(s[3])
      [] s[1] = "if" ->
            Clauses(s[2]) \o (IF s[3] = <<>> THEN <<>> ELSE <<<<"else">>>> \o Block(s[3]))
            \o <<<<"end">>>>
      [] s[1] = "fornum" ->
            <<<<"for">>, <<"NAME", s[2]>>, <<"=">>>> \o ExpList(s[3]) \o <<<<"do">>>>
            \o Block(s[4]) \o <<<<"end">>>>
      [] s[1] = "forin" ->
            <<<<"for">>>> \o NameList(s[2]) \o <<<<"in">>>> \o ExpList(s[3]) \o <<<<"do">>>>
            \o Block(s[4]) \o <<<<"end">>>>
      [] s[1] = "return" -> <<<<"return">>>> \o ExpList(s[2])
      [] s[1] = "break" -> <<<<"break">>>>

\* Statements that begin with a parenthesis need the separator.
Block(b) == FoldLeftDomain(LAMBDA ts, n : ts \o Stat(b[n]) \o <<<<";">>>>, <<>>, b)

Tokens(b) == Block(b) \o <<<<"EOS">>>>
=============================================================================
