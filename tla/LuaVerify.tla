----------------------------- MODULE LuaVerify -----------------------------
(***************************************************************************)
(* The checker of compiled code (ldebug.c), which the virtual machine       *)
(* relies on for what it never tests: registers and constants that exist,   *)
(* jumps inside the function, open results consumed at once.               *)
(*                                                                         *)
(* The count of an OP_SETLIST is always in the instruction (LuaCompiler), so no *)
(* jump can land on one.                                                   *)
(***************************************************************************)
EXTENDS LuaOpcodes

sizecode(pt) == Len(pt.code)

checkjump(pt, pc) == 0 <= pc /\ pc < sizecode(pt)

checkreg(pt, reg) == reg < pt.maxstacksize

precheck(pt) ==
    /\ pt.maxstacksize <= MAXSTACK
    /\ pt.numparams + (IF "HAS" \in pt.is_vararg THEN 1 ELSE 0) <= pt.maxstacksize
    /\ "NEEDS" \in pt.is_vararg => "HAS" \in pt.is_vararg
    /\ sizecode(pt) > 0 /\ pt.code[sizecode(pt)].op = "RETURN"

\* Results without a number are taken by the next instruction.
luaG_checkopenop(i) == i.op \in {"CALL", "TAILCALL", "RETURN", "SETLIST"} /\ i.b = 0

checkArgMode(pt, r, mode) ==
    CASE mode = "N" -> r = 0
      [] mode = "U" -> TRUE
      [] mode = "R" -> checkreg(pt, r)
      [] mode = "K" -> IF ISK(r) THEN INDEXK(r) < Len(pt.k) ELSE checkreg(pt, r)

checkOperands(pt, pc, i) ==
    /\ checkreg(pt, i.a)
    /\ CASE getOpMode(i.op) = "iABC" ->
              checkArgMode(pt, i.b, getBMode(i.op)) /\ checkArgMode(pt, i.c, getCMode(i.op))
         [] getOpMode(i.op) = "iABx" -> getBMode(i.op) = "K" => i.b < Len(pt.k)
         [] getOpMode(i.op) = "iAsBx" -> getBMode(i.op) = "R" => checkjump(pt, pc + 1 + i.b)
    /\ testTMode(i.op) => pc + 2 < sizecode(pt) /\ pt.code[pc + 2].op = "JMP"

checkInstruction(pt, pc) ==
    LET i == pt.code[pc + 1]
        a == i.a
        open == pc + 1 < sizecode(pt) /\ luaG_checkopenop(pt.code[pc + 2])
    IN  /\ checkOperands(pt, pc, i)
        /\ CASE i.op = "LOADBOOL" -> i.c = 1 => pc + 2 < sizecode(pt)
             [] i.op \in {"GETUPVAL", "SETUPVAL"} -> i.b < pt.nups
             [] i.op \in {"GETGLOBAL", "SETGLOBAL"} -> ttype(pt.k[i.b + 1]) = "string"
             [] i.op = "SELF" -> checkreg(pt, a + 1)
             [] i.op = "CONCAT" -> i.b < i.c
             [] i.op = "TFORLOOP" -> i.c >= 1 /\ checkreg(pt, a + 2 + i.c)
             [] i.op \in {"FORLOOP", "FORPREP"} -> checkreg(pt, a + 3)
             [] i.op \in {"CALL", "TAILCALL"} ->
                   /\ i.b # 0 => checkreg(pt, a + i.b - 1)
                   /\ i.c = 0 => open
                   /\ i.c > 1 => checkreg(pt, a + i.c - 2)
             [] i.op = "RETURN" -> i.b > 1 => checkreg(pt, a + i.b - 2)
             [] i.op = "SETLIST" -> i.b > 0 => checkreg(pt, a + i.b)
             [] i.op = "CLOSURE" ->
                   /\ i.b < Len(pt.p)
                   /\ pc + pt.p[i.b + 1].nups < sizecode(pt)
                   /\ \A j \in 1..pt.p[i.b + 1].nups :
                        pt.code[pc + 1 + j].op \in {"GETUPVAL", "MOVE"}
             [] i.op = "VARARG" ->
                   /\ "IS" \in pt.is_vararg /\ "NEEDS" \notin pt.is_vararg
                   /\ i.b = 0 => open
                   /\ checkreg(pt, a + i.b - 2)
             [] OTHER -> TRUE

luaG_checkcode(pt) ==
    precheck(pt) /\ \A pc \in 0..(sizecode(pt) - 1) : checkInstruction(pt, pc)
=============================================================================
