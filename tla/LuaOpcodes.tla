---------------------------- MODULE LuaOpcodes ----------------------------
(***************************************************************************)
(* The instructions of Lua (lopcodes.h, lopcodes.c), its values, and what   *)
(* the compiler and the virtual machine compute with them.                 *)
(*                                                                         *)
(* A value is a tuple that begins with its type.  Numbers are integers: the *)
(* quotient is rounded down, HUGE stands for an infinity.                  *)
(***************************************************************************)
EXTENDS Integers, Sequences, TLC

CONSTANTS
    MAXINDEXRK,         \* the last constant an operand can name
    LFIELDS_PER_FLUSH,  \* list items stored by one OP_SETLIST
    MAXSTACK,           \* registers of a function
    LUAI_MAXVARS,       \* local variables of a function
    LUAI_MAXUPVALUES    \* upvalues of a function

BITRK == 256
NO_REG == 255
NO_JUMP == -1
LUA_MULTRET == -1

ASSUME OpcodesAssumption ==
    /\ MAXINDEXRK \in 0..(BITRK - 1) /\ LFIELDS_PER_FLUSH \in Nat \ {0}
    /\ MAXSTACK \in 2..(NO_REG - 1) /\ LUAI_MAXVARS \in 1..MAXSTACK
    /\ LUAI_MAXUPVALUES \in Nat

\* An instruction; b is Bx or sBx in the formats that have one.
CREATE_ABC(o, a, b, c) == [op |-> o, a |-> a, b |-> b, c |-> c]
CREATE_ABx(o, a, b) == CREATE_ABC(o, a, b, 0)

ISK(x) == x >= BITRK
INDEXK(x) == x - BITRK
RKASK(x) == x + BITRK

(* luaP_opmodes: how an instruction uses its operands, N not at all, U as a *)
(* number, R as a register (or an offset), K as a register or a constant.   *)

ArithmeticOps == {"ADD", "SUB", "MUL", "DIV", "MOD", "POW"}
ComparisonOps == {"EQ", "LT", "LE"}

getOpMode(o) ==
    CASE o \in {"LOADK", "GETGLOBAL", "SETGLOBAL", "CLOSURE"} -> "iABx"
      [] o \in {"JMP", "FORLOOP", "FORPREP"} -> "iAsBx"
      [] OTHER -> "iABC"

getBMode(o) ==
    CASE o \in {"TFORLOOP", "CLOSE"} -> "N"
      [] o \in {"MOVE", "LOADNIL", "GETTABLE", "SELF", "UNM", "NOT", "LEN", "CONCAT", "JMP",
                "TEST", "TESTSET", "FORLOOP", "FORPREP"} -> "R"
      [] o \in {"LOADK", "GETGLOBAL", "SETGLOBAL", "SETTABLE"} \cup ArithmeticOps \cup ComparisonOps -> "K"
      [] OTHER -> "U"

getCMode(o) ==
    CASE o = "CONCAT" -> "R"
      [] o \in {"GETTABLE", "SETTABLE", "SELF"} \cup ArithmeticOps \cup ComparisonOps -> "K"
      [] o \in {"LOADBOOL", "NEWTABLE", "TEST", "TESTSET", "CALL", "TAILCALL", "TFORLOOP",
                "SETLIST"} -> "U"
      [] OTHER -> "N"

\* A test: the instruction after it is a jump.
testTMode(o) == o \in {"TEST", "TESTSET", "TFORLOOP"} \cup ComparisonOps

-----------------------------------------------------------------------------
(* Values.                                                                 *)

nil == <<"nil">>
bool(b) == <<"boolean", b>>
number(n) == <<"number", n>>
string(s) == <<"string", s>>

ttype(v) == v[1]
l_isfalse(v) == v \in {nil, bool(FALSE)}

HUGE == 1000000

\* luai_numadd() and the others.
luai_num(op, x, y) ==
    CASE op = "ADD" -> x + y
      [] op = "SUB" -> x - y
      [] op = "MUL" -> x * y
      [] op = "DIV" -> IF y = 0 THEN HUGE ELSE IF y > 0 THEN x \div y ELSE (-x) \div (-y)
      [] op = "MOD" -> IF y = 0 THEN HUGE
                       ELSE x - y * (IF y > 0 THEN x \div y ELSE (-x) \div (-y))
      [] op = "POW" -> IF y >= 0 THEN x ^ y ELSE 0
      [] op = "UNM" -> -x
=============================================================================
