---------------------------- MODULE LuaCoroutine ----------------------------
(***************************************************************************)
(* Coroutines (ldo.c, lbaselib.c), protected calls and the C stack.         *)
(*                                                                         *)
(* Every coroutine has frames of its own, but they all share one C stack:   *)
(* resume() runs a coroutine inside the frame of the one that resumes it,   *)
(* and errors and yields leave C frames behind.  A program does anything:   *)
(* its functions call each other, directly, through pcall() or through a    *)
(* metamethod, they create, resume and leave coroutines, return and raise   *)
(* errors.  The program is called for every frame of the game (draw()).      *)
(***************************************************************************)
EXTENDS Integers, Sequences, FiniteSets, SequencesExt

CONSTANTS
    Main,              \* the main thread
    Co,                \* the coroutines there may be
    Value,             \* strings, the values there may be
    Lists,             \* the arguments and the results there may be
    LUAI_MAXCCALLS,    \* nested calls from C
    ErrorCalls,        \* LUAI_MAXCCALLS >> 3: more of them, kept for the handling of errors
    LUAI_MAXCSTACK,    \* values in the frame of a C function
    MaxFrames          \* bound: frames of a thread

ASSUME CoroutineAssumption ==
    /\ Main \notin Co
    /\ {"function", "thread", "true", "false", "error"} \subseteq Value
    /\ Lists \subseteq Seq(Value)
    /\ LUAI_MAXCCALLS \in Nat \ {0} /\ ErrorCalls \in Nat \ {0} /\ LUAI_MAXCSTACK \in Nat /\ MaxFrames \in Nat

VARIABLES
    th,        \* the threads; see Thread
    cstack,    \* the calls on the C stack that run a thread, the innermost last
    throwing,  \* "raise" when an error was raised, "throw" on its way to the next protected
               \* call, else "no"
    bad,       \* an assertion of the code failed
    sent       \* history: what was given to resume() or yield(), or returned, last

vars == <<th, cstack, throwing, bad, sent>>

\* L->status, the functions that are called (base_ci left out), and the values above
\* L->base; errfunc says that errors go to the handler of xpcall().  A coroutine that was
\* not created yet has the status "none".
Frame == {"Lua", "pcall", "xpcall", "resume", "wrap", "yield"}
NewThread == [status |-> "0", ci |-> << >>, stack |-> << >>, nCcalls |-> 0, baseCcalls |-> 0,
              errfunc |-> FALSE]
NoThread == [NewThread EXCEPT !.status = "none"]

\* A call on the C stack: its thread, the frames below the ones it runs, and what
\* luaD_pcall() restores.
CCall(k, l, below, nCcalls, errfunc) ==
    [k |-> k, l |-> l, ci |-> below, nCcalls |-> nCcalls, errfunc |-> errfunc]

Top == Last(cstack)
Running == IF cstack = << >> THEN Main ELSE Top.l
L == th[Running]
InLua == throwing = "no" /\ L.ci # << >> /\ Last(L.ci) = "Lua"
Pop(ci) == SubSeq(ci, 1, Len(ci) - 1)

\* Of the running thread: the C function on top gives back what it returns.
Results(l, vals) == [l EXCEPT !.ci = Pop(@), !.stack = vals]
lua_checkstack(l, n) == Len(l.stack) + n <= LUAI_MAXCSTACK

Raised(err) == IF err THEN "raise" ELSE "no"

Init ==
    /\ th = [l \in Co \cup {Main} |-> IF l = Main THEN NewThread ELSE NoThread]
    /\ cstack = << >> /\ throwing = "no" /\ bad = FALSE /\ sent = << >>

-----------------------------------------------------------------------------
(* Calls.                                                                  *)

\* draw() of load81.c, for each frame of the game.
draw ==
    /\ cstack = << >>
    /\ cstack' = <<CCall("pcall", Main, 0, 0, FALSE)>>
    /\ th' = [th EXCEPT ![Main] = [NewThread EXCEPT !.ci = <<"Lua">>, !.nCcalls = 1]]
    /\ UNCHANGED <<throwing, bad, sent>>

\* A function of Lua calls another: luaV_execute() goes on with it.
Call ==
    /\ InLua /\ Len(L.ci) < MaxFrames
    /\ th' = [th EXCEPT ![Running].ci = Append(@, "Lua"), ![Running].stack = << >>]
    /\ UNCHANGED <<cstack, throwing, bad, sent>>

\* A call raises "C stack overflow" at the limit, and is refused when errors in the
\* handling of errors have used up the calls beyond it.  A coroutine that begins at the
\* limit may use them, too.
Overflow(nCcalls) ==
    IF nCcalls = LUAI_MAXCCALLS THEN "raise"
    ELSE IF nCcalls >= LUAI_MAXCCALLS + ErrorCalls THEN "throw" ELSE "no"

\* luaD_call(): a call from C; a function of Lua gets a luaV_execute() of its own.
luaD_call(l, k, ef) ==
    LET called == [l EXCEPT !.nCcalls = @ + 1, !.stack = << >>, !.errfunc = ef]
    IN  /\ cstack' = Append(cstack, CCall(k, Running, Len(l.ci), l.nCcalls, L.errfunc))
        /\ throwing' = Overflow(called.nCcalls)
        /\ th' = [th EXCEPT ![Running] = IF throwing' # "no" THEN called
                                         ELSE [called EXCEPT !.ci = Append(@, "Lua")]]
        /\ UNCHANGED <<bad, sent>>

\* From the interpreter, for a metamethod or an iterator.
CallMetamethod == InLua /\ Len(L.ci) < MaxFrames /\ luaD_call(L, "call", L.errfunc)

\* luaB_pcall() and luaB_xpcall(), through lua_pcall() and luaD_pcall(): an overflow is
\* raised inside.
luaB_pcall ==
    /\ InLua /\ Len(L.ci) < MaxFrames
    /\ \E fn \in {"pcall", "xpcall"} :
          luaD_call([L EXCEPT !.ci = Append(@, fn)], "pcall", fn = "xpcall")

-----------------------------------------------------------------------------
(* Coroutines.                                                             *)

\* costatus(), as the running thread sees it.
costatus(co) ==
    LET l == th[co]
    IN  IF co = Running THEN "running"
        ELSE IF l.status = "0" /\ l.ci # << >> THEN "normal"
        ELSE IF l.status = "yield" \/ (l.status = "0" /\ l.stack # << >>) THEN "suspended"
        ELSE IF l.status = "none" THEN "none" ELSE "dead"

\* luaB_cocreate() and luaB_cowrap(): the function is on the stack of the new thread.
luaB_cocreate ==
    /\ InLua
    /\ \E co \in Co :
          /\ th[co].status = "none"
          /\ th' = [th EXCEPT ![co] = [NewThread EXCEPT !.stack = <<"function">>],
                              ![Running].stack = << >>]
    /\ UNCHANGED <<cstack, throwing, bad, sent>>

\* What resume() and a function of wrap() return to the running thread, whose frames are
\* those of l; an error in a function of wrap() goes on.
Refused(l) ==
    IF Last(l.ci) = "resume" THEN [l |-> Results(l, <<"false", "error">>), err |-> FALSE]
    ELSE [l |-> l, err |-> TRUE]
Answered(l, vals) ==
    IF Last(l.ci) = "resume" THEN [l |-> Results(l, <<"true">> \o vals), err |-> FALSE]
    ELSE [l |-> Results(l, vals), err |-> FALSE]

\* Mutant: the results are copied, not moved.
Resumed_Copied(co, l) ==
    IF ~lua_checkstack(l, Len(co.stack) + 1)
    THEN [co |-> co, to |-> [l |-> l, err |-> TRUE]]
    ELSE [co |-> co, to |-> Answered(l, co.stack)]

\* The rest of auxresume() when lua_resume() comes back, with a yield or at the end.
Resumed(co, l) ==
    IF ~lua_checkstack(l, Len(co.stack) + 1)
    THEN [co |-> co, to |-> [l |-> l, err |-> TRUE]]
    ELSE [co |-> [co EXCEPT !.stack = << >>], to |-> Answered(l, co.stack)]

\* resume(): a coroutine that begins has its function below the arguments; one that goes
\* on gets them as the results of its call of yield().
Continued(co, args) ==
    IF co.status = "0"
    THEN [co EXCEPT !.ci = <<"Lua">>, !.stack = args]
    ELSE [Results(co, args) EXCEPT !.status = "0"]

IsCallable(co) == co.status = "0" => Last(co.stack) = "function"

\* The frame of resume() holds the coroutine, one of wrap() has it as an upvalue.
Asking(fn) ==
    [L EXCEPT !.ci = Append(@, fn), !.stack = IF fn = "resume" THEN <<"thread">> ELSE << >>]

\* The thread after resume_error(): the message it leaves is moved to the caller.
OutOfCalls(co) == [co EXCEPT !.stack = << >>]

\* Mutant: every coroutine counts its own calls.
lua_setlevel_Own(from, to) == [to EXCEPT !.nCcalls = 0]

\* A coroutine counts the calls from C of the thread that resumes it.
lua_setlevel(from, to) == [to EXCEPT !.nCcalls = from.nCcalls]

\* lua_resume(), once the arguments are on the stack of the coroutine.
lua_resume(co, args, l) ==
    LET levelled == lua_setlevel(l, th[co])
        level == levelled.nCcalls
        started == [levelled EXCEPT !.nCcalls = level + 1, !.baseCcalls = level + 1]
        to == Refused(l)
    IN  IF level >= LUAI_MAXCCALLS
        THEN /\ th' = [th EXCEPT ![co] = OutOfCalls(levelled), ![Running] = to.l]
             /\ throwing' = Raised(to.err)
             /\ UNCHANGED <<cstack, bad>>
        ELSE /\ cstack' = Append(cstack, CCall("resume", co, 0, level, FALSE))
             /\ throwing' = Raised(~IsCallable(started))
             /\ th' = [th EXCEPT ![Running] = l,
                                 ![co] = IF IsCallable(started) THEN Continued(started, args)
                                         ELSE started]
             /\ bad' = (bad \/ started.errfunc \/ (started.status = "0" /\ started.ci # << >>))

\* luaB_coresume(), luaB_auxwrap() and auxresume().
auxresume ==
    /\ InLua
    /\ \E fn \in {"resume", "wrap"}, co \in Co, args \in Lists :
          LET l == Asking(fn)
              to == Refused(l)
              room == IF co = Running THEN [l EXCEPT !.stack = @ \o args] ELSE th[co]
          IN  /\ th[co].status # "none"
              /\ sent' = args
              /\ IF ~lua_checkstack(room, Len(args))
                 THEN th' = [th EXCEPT ![Running] = l] /\ throwing' = "raise"
                      /\ UNCHANGED <<cstack, bad>>
                 ELSE IF costatus(co) # "suspended"
                 THEN th' = [th EXCEPT ![Running] = to.l] /\ throwing' = Raised(to.err)
                      /\ UNCHANGED <<cstack, bad>>
                 ELSE lua_resume(co, args, l)

\* The C call on top is done with its thread, which is now co: back to its caller.
BackToResumer(co) ==
    LET caller == cstack[Len(cstack) - 1].l
        r == Resumed([co EXCEPT !.nCcalls = @ - 1], th[caller])
    IN  /\ cstack' = Pop(cstack)
        /\ th' = [th EXCEPT ![Running] = r.co, ![caller] = r.to.l]
        /\ throwing' = Raised(r.to.err)
        /\ bad' = (bad \/ co.nCcalls # co.baseCcalls)

\* Mutant: one call from C may be left.
CanYield_OneCall(l) == l.nCcalls <= l.baseCcalls + 1

\* lua_yield(), which may not leave a call from C.
CanYield(l) == l.nCcalls <= l.baseCcalls

lua_yield ==
    /\ InLua
    /\ \E vals \in Lists :
          /\ sent' = vals
          /\ IF ~CanYield(L)
             THEN /\ th' = [th EXCEPT ![Running].ci = Append(@, "yield")]
                  /\ throwing' = "raise" /\ UNCHANGED <<cstack, bad>>
             ELSE IF Top.k # "resume" THEN bad' = TRUE /\ UNCHANGED <<th, cstack, throwing>>
             ELSE BackToResumer([L EXCEPT !.ci = Append(@, "yield"), !.status = "yield",
                                          !.stack = vals])

-----------------------------------------------------------------------------
(* Returns and errors.                                                     *)

\* A function of Lua returns: to the one that called it, or through the C call on top.
Return ==
    /\ InLua
    /\ \E vals \in Lists :
          LET l == Results(L, vals)
          IN  /\ sent' = vals
              /\ IF Len(l.ci) > Top.ci
                 THEN th' = [th EXCEPT ![Running] = l] /\ UNCHANGED <<cstack, throwing, bad>>
                 ELSE IF Top.k = "resume" THEN BackToResumer(l)
                 ELSE /\ cstack' = Pop(cstack)
                      /\ th' = [th EXCEPT ![Running] =
                                  [IF Top.k = "pcall" /\ l.ci # << >>
                                   THEN Results(l, <<"true">> \o vals) ELSE l
                                   EXCEPT !.nCcalls = @ - 1, !.errfunc = Top.errfunc]]
                      /\ throwing' = IF Top.k = "handler" THEN "throw" ELSE "no"
                      /\ UNCHANGED bad

\* error(), and every other error of the running function.
luaB_error == InLua /\ throwing' = "raise" /\ UNCHANGED <<th, cstack, bad, sent>>

\* The handler of xpcall() is called where the error happened, before anything is undone;
\* errors in the handler go to the handler.
luaG_errormsg ==
    /\ throwing = "raise"
    /\ IF L.errfunc THEN luaD_call(L, "handler", TRUE)
       ELSE throwing' = "throw" /\ UNCHANGED <<th, cstack, bad, sent>>

\* The next protected call on the C stack: luaD_pcall() restores its thread, lua_resume()
\* leaves a dead one.
Protected == {n \in DOMAIN cstack : cstack[n].k \in {"pcall", "resume"}}

Restored(l, at) ==
    [l EXCEPT !.ci = SubSeq(@, 1, at.ci), !.nCcalls = at.nCcalls, !.errfunc = at.errfunc]

luaD_throw ==
    LET n == CHOOSE n \in Protected : \A m \in Protected : m <= n
        at == cstack[n]
    IN  /\ throwing = "throw"
        /\ cstack' = SubSeq(cstack, 1, n - 1)
        /\ IF at.k = "resume"
           THEN LET to == Refused(th[cstack[n - 1].l])
                IN  /\ th' = [th EXCEPT ![at.l].status = "error", ![at.l].nCcalls = @ - 1,
                                        ![at.l].stack = << >>, ![cstack[n - 1].l] = to.l]
                    /\ throwing' = Raised(to.err)
           ELSE LET l == Restored(th[at.l], at)
                IN  /\ th' = [th EXCEPT ![at.l] = IF l.ci = << >> THEN l
                                                  ELSE Results(l, <<"false", "error">>)]
                    /\ throwing' = "no"
        /\ UNCHANGED <<bad, sent>>

-----------------------------------------------------------------------------

Next ==
    \/ draw \/ Call \/ CallMetamethod \/ luaB_pcall \/ luaB_cocreate \/ auxresume
    \/ lua_yield \/ Return \/ luaB_error \/ luaG_errormsg \/ luaD_throw

Spec == Init /\ [][Next]_vars

-----------------------------------------------------------------------------
(* Properties.                                                             *)

Thread ==
    [status : {"0", "none", "yield", "error"}, ci : Seq(Frame), stack : Seq(Value),
     nCcalls : Nat, baseCcalls : Nat, errfunc : BOOLEAN]

TypeOK ==
    /\ th \in [Co \cup {Main} -> Thread]
    /\ \A n \in DOMAIN cstack :
          /\ cstack[n].k \in {"pcall", "call", "handler", "resume"}
          /\ cstack[n].l \in Co \cup {Main} /\ cstack[n].errfunc \in BOOLEAN
          /\ cstack[n].ci \in Nat /\ cstack[n].nCcalls \in Nat
    /\ throwing \in {"no", "raise", "throw"} /\ bad \in BOOLEAN /\ sent \in Seq(Value)

\* The assertions of lua_resume() and resume(): a coroutine that begins has no frames, and
\* one that comes back has left no call from C (ldo.c:388, 435, 447).
AssertionsHold == ~bad

\* nCcalls is the depth of the C stack, through resumes, yields and errors, so that the C
\* stack of all coroutines together is bounded (lua_setlevel).
CallsCounted ==
    /\ throwing = "no" => L.nCcalls = Len(cstack)
    /\ Len(cstack) <= LUAI_MAXCCALLS + ErrorCalls

\* A call from C goes on in a frame of its thread, and a thread that waits for a resume
\* has none: neither yields nor errors leave a call behind or drop one (lua_yield).
CallsHaveFrames ==
    throwing = "no" =>
        /\ \A n \in DOMAIN cstack :
              LET l == th[cstack[n].l]
              IN  Len(l.ci) > cstack[n].ci /\ l.ci[cstack[n].ci + 1] = "Lua"
        /\ \A co \in Co :
              (\E n \in DOMAIN cstack : cstack[n].l = co) <=> costatus(co) \in {"running", "normal"}

\* A handler gets the errors of its own xpcall(), and no others: the running thread has one
\* exactly when its next protected call is an xpcall() (luaD_pcall() and lua_resume()).
HandlerOfCall ==
    throwing = "no" /\ cstack # << >> =>
        LET at == cstack[CHOOSE n \in Protected : \A m \in Protected : m <= n]
        IN  L.errfunc = (at.k = "pcall" /\ at.ci > 0 /\ L.ci[at.ci] = "xpcall")

\* The frames of the threads and the C stack fit each other through every resume, yield,
\* error and return, and the assertions of lua_resume() and resume() hold.
FramesConsistent == TypeOK /\ AssertionsHold /\ CallsHaveFrames /\ HandlerOfCall

\* The threads are coroutines as the manual describes them (coroutine.status()).
Status == [co \in Co |-> costatus(co)]

\* The coroutines whose resume() has not come back, the running one last.
Active(calls) ==
    LET active[n \in 0..Len(calls)] ==
            IF n = 0 THEN << >>
            ELSE IF calls[n].k = "resume" THEN Append(active[n - 1], calls[n].l)
            ELSE active[n - 1]
    IN  active[Len(calls)]

\* What the running one got, or that an error is on its way.
Got == IF throwing # "no" THEN <<"false", "error">> ELSE L.stack

Promise == INSTANCE Coroutines WITH status <- Status, active <- Active(cstack), got <- Got
ImplementsCoroutines == Promise!Spec

\* "dead if the coroutine has finished its body function" (manual.html:6274).
DeadWhenFinished ==
    [][\A co \in Co : th[co].ci # << >> /\ th'[co].ci = << >> => costatus(co)' = "dead"]_vars
=============================================================================
