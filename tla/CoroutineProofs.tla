-------------------------- MODULE CoroutineProofs --------------------------
(***************************************************************************)
(* nCcalls counts the calls on the C stack; the frames of the threads, their *)
(* handlers and the calls on the C stack fit each other; and coroutines do   *)
(* what the manual says of them: for any number of coroutines, any limits   *)
(* and any program, through resumes, yields, errors and their handlers.     *)
(***************************************************************************)
EXTENDS LuaCoroutine, SequenceTheorems, LeastNumber, TLAPS

Threads == Co \cup {Main}
AnyCall ==
    [k : {"pcall", "call", "handler", "resume"}, l : Threads, ci : Nat, nCcalls : Nat,
     errfunc : BOOLEAN]
N == Len(cstack)

\* A coroutine that left through yield() is in a function, and in yield().
Good == {t \in Thread : t.status = "yield" => Len(t.ci) >= 2}

\* The calls of a thread that the C stack runs next to each other end with m: above is
\* nothing or the resume of another thread.
Ends(m) == m \in 1..N /\ (m = N \/ cstack[m + 1].k = "resume")

\* What a call needs of the one below: only a resume changes the thread, and the function
\* that calls keeps its frame, under the one of pcall().
Follows(c, below) ==
    c.k # "resume" =>
        /\ c.l = below.l
        /\ c.k = "call" => c.ci > below.ci
        /\ c.k = "pcall" => c.ci > below.ci + 1
        /\ c.k = "handler" => c.ci >= below.ci

\* The C stack begins with the call of draw(), and each call has what luaD_pcall() restores.
CStackInv ==
    /\ cstack \in Seq(AnyCall)
    /\ N > 0 => cstack[1].k = "pcall" /\ cstack[1].l = Main /\ cstack[1].ci = 0
    /\ \A n \in 1..N : cstack[n].nCcalls = n - 1
    /\ \A n \in 2..N : Follows(cstack[n], cstack[n - 1])

\* A thread that waits for a resume counts the calls up to its own, so that no two are the
\* same, and is in a function below resume().
Waiting(m) ==
    LET l == th[cstack[m].l]
    IN  l.nCcalls = m /\ l.status = "0" /\ Len(l.ci) > cstack[m].ci + 1

\* The running thread counts them all.  It has a frame of its own but on the way of an error.
RunningInv ==
    N > 0 =>
        LET l == th[cstack[N].l]
        IN  /\ l.nCcalls = N /\ l.status = "0" /\ Len(l.ci) >= cstack[N].ci
            /\ throwing = "no" => Len(l.ci) > cstack[N].ci

StackInv ==
    /\ th \in [Threads -> Good]
    /\ CStackInv
    /\ \A m \in 1..N : Ends(m) /\ m < N => Waiting(m)
    /\ RunningInv

\* Between two calls of draw() nothing is left of them.
IdleInv ==
    cstack = << >> => throwing = "no" /\ th[Main].nCcalls = 0 /\ th[Main].ci = << >>

\* Errors in the handling of errors end before the last of the calls kept for them is used
\* up, unless that one is on its way.
Bounded ==
    /\ N <= LUAI_MAXCCALLS + ErrorCalls
    /\ throwing # "throw" => N < LUAI_MAXCCALLS + ErrorCalls

Flags == throwing \in {"no", "raise", "throw"} /\ bad \in BOOLEAN /\ sent \in Seq(Value)

Inv == StackInv /\ IdleInv /\ Bounded /\ Flags

-----------------------------------------------------------------------------
(* The C stack.                                                            *)

\* The running thread, and the ones that wait.
LEMMA RunningThread ==
    ASSUME StackInv, N > 0
    PROVE  /\ cstack # << >> /\ N \in Nat \ {0}
           /\ Top = cstack[N] /\ Top \in AnyCall /\ Running = Top.l /\ Running \in Threads
           /\ L \in Good /\ L.nCcalls = N /\ L.status = "0" /\ Len(L.ci) >= Top.ci
           /\ throwing = "no" => Len(L.ci) > Top.ci
           /\ \A m \in 1..N : Ends(m) /\ m < N => Waiting(m) /\ cstack[m].l # Running
<1>1. cstack \in Seq(AnyCall) /\ N \in Nat \ {0} /\ cstack # << >>
  BY DEF StackInv, CStackInv, N
<1>2. Top = cstack[N] /\ Top \in AnyCall
  BY <1>1 DEF Top, Last, N
<1>3. Running = Top.l /\ Running \in Threads
  BY <1>1, <1>2 DEF Running, AnyCall
<1>4. /\ L \in Good /\ L.nCcalls = N /\ L.status = "0" /\ Len(L.ci) >= Top.ci
      /\ throwing = "no" => Len(L.ci) > Top.ci
  BY <1>1, <1>2, <1>3 DEF StackInv, RunningInv, L
<1>5. ASSUME NEW m \in 1..N, Ends(m), m < N
      PROVE  Waiting(m) /\ cstack[m].l # Running
  BY <1>1, <1>4, <1>5 DEF StackInv, Waiting, L
<1> QED
  BY <1>1, <1>2, <1>3, <1>4, <1>5

\* What a thread that waits for a resume is like.
LEMMA WaitingThread ==
    ASSUME StackInv, N > 0, NEW m \in 1..N, Ends(m), m < N, NEW l, l = cstack[m].l
    PROVE  /\ l \in Threads /\ l # Running /\ th[l] \in Thread
           /\ th[l].nCcalls = m /\ th[l].status = "0"
           /\ Len(th[l].ci) > cstack[m].ci + 1 /\ cstack[m].ci \in Nat
           /\ th[l].ci # << >> /\ Len(th[l].ci) \in Nat
<1>1. cstack[m] \in AnyCall
  BY DEF StackInv, CStackInv, N
<1>2. l \in Threads /\ cstack[m].ci \in Nat
  BY <1>1 DEF AnyCall
<1>3. Waiting(m) /\ l # Running
  BY RunningThread
<1>4. th[l].nCcalls = m /\ th[l].status = "0" /\ Len(th[l].ci) > cstack[m].ci + 1
  BY <1>3 DEF Waiting
<1>5. th[l] \in Thread
  BY <1>2 DEF StackInv, Good
<1>6. th[l].ci # << >> /\ Len(th[l].ci) \in Nat
  BY <1>2, <1>4, <1>5 DEF Thread
<1> QED
  BY <1>2, <1>3, <1>4, <1>5, <1>6

\* No resume waits in co.
Off(co) == \A m \in 1..N : Ends(m) /\ m < N => cstack[m].l # co

\* A thread that has no functions, or has left them, does not wait for a resume.
LEMMA IdleIsOff ==
    ASSUME StackInv, N > 0, NEW co \in Threads, th[co].status # "0" \/ th[co].ci = << >>
    PROVE  Off(co)
<1> SUFFICES ASSUME NEW m \in 1..N, Ends(m), m < N, cstack[m].l = co PROVE FALSE
  BY DEF Off
<1>1. cstack[m] \in AnyCall
  BY DEF StackInv, CStackInv, N
<1>2. th[co].status = "0" /\ Len(th[co].ci) > cstack[m].ci + 1 /\ cstack[m].ci \in Nat
  BY <1>1, RunningThread DEF Waiting, AnyCall
<1>3. Len(th[co].ci) = 0
  BY <1>2
<1> QED
  BY <1>2, <1>3

\* A step that changes the running thread and one that is off changes none that waits.
LEMMA WaitingKept ==
    ASSUME StackInv, N > 0, NEW co \in Threads, Off(co),
           \A l \in Threads \ {Running, co} : th'[l] = th[l]
    PROVE  \A m \in 1..N : Ends(m) /\ m < N => th'[cstack[m].l] = th[cstack[m].l]
<1> SUFFICES ASSUME NEW m \in 1..N, Ends(m), m < N
             PROVE  th'[cstack[m].l] = th[cstack[m].l]
  OBVIOUS
<1>1. cstack[m] \in AnyCall
  BY DEF StackInv, CStackInv, N
<1>2. cstack[m].l # co /\ cstack[m].l # Running /\ cstack[m].l \in Threads
  BY <1>1, RunningThread DEF Off, AnyCall
<1> QED
  BY <1>2

\* A step of the running thread that leaves the C stack alone.
LEMMA Stays ==
    ASSUME StackInv, N > 0, UNCHANGED cstack, th' \in [Threads -> Good],
           \A m \in 1..N : Ends(m) /\ m < N => th'[cstack[m].l] = th[cstack[m].l],
           th'[Running].nCcalls = N, th'[Running].status = "0",
           Len(th'[Running].ci) >= Top.ci,
           throwing' = "no" => Len(th'[Running].ci) > Top.ci
    PROVE  StackInv' /\ N' = N
<1>1. N' = N /\ CStackInv' /\ \A m : Ends(m)' <=> Ends(m)
  BY DEF StackInv, CStackInv, N, Ends
<1>2. \A m \in 1..N : Ends(m) /\ m < N => Waiting(m)'
  BY RunningThread DEF Waiting
<1>3. RunningInv'
  BY <1>1, RunningThread DEF RunningInv
<1> QED
  BY <1>1, <1>2, <1>3 DEF StackInv

\* A call on the C stack, of the running thread or the resume of another.
LEMMA Pushed ==
    ASSUME StackInv, N > 0, NEW c \in AnyCall, cstack' = Append(cstack, c),
           c.nCcalls = N, Follows(c, Top), th' \in [Threads -> Good],
           \A m \in 1..N : Ends(m) /\ m < N => th'[cstack[m].l] = th[cstack[m].l],
           c.k = "resume" =>
               /\ th'[Running].nCcalls = N /\ th'[Running].status = "0"
               /\ Len(th'[Running].ci) > Top.ci + 1,
           th'[c.l].nCcalls = N + 1, th'[c.l].status = "0",
           Len(th'[c.l].ci) >= c.ci,
           throwing' = "no" => Len(th'[c.l].ci) > c.ci
    PROVE  StackInv' /\ N' = N + 1
<1>1. /\ cstack \in Seq(AnyCall) /\ N \in Nat \ {0}
      /\ cstack' \in Seq(AnyCall) /\ N' = N + 1 /\ cstack'[N + 1] = c
      /\ \A n \in 1..N : cstack'[n] = cstack[n]
      /\ Top = cstack[N]
  BY RunningThread DEF StackInv, CStackInv, N
<1>2. CStackInv'
  <2>1. cstack'[1] = cstack[1]
    BY <1>1
  <2>2. \A n \in 1..N' : cstack'[n].nCcalls = n - 1
    BY <1>1 DEF StackInv, CStackInv
  <2>3. ASSUME NEW n \in 2..N' PROVE Follows(cstack'[n], cstack'[n - 1])
    <3>1. CASE n = N + 1
      <4>1. n - 1 = N /\ N \in 1..N
        BY <1>1, <3>1
      <4>2. cstack'[n] = c /\ cstack'[n - 1] = Top
        BY <1>1, <3>1, <4>1
      <4> QED
        BY <4>2
    <3>2. CASE n \in 2..N
      <4>1. n \in 1..N /\ n - 1 \in 1..N
        BY <1>1, <3>2
      <4>2. cstack'[n] = cstack[n] /\ cstack'[n - 1] = cstack[n - 1]
        BY <1>1, <4>1
      <4> QED
        BY <3>2, <4>2 DEF StackInv, CStackInv
    <3>3. N \in Nat /\ N' = N + 1
      BY <1>1
    <3>4. n = N + 1 \/ n \in 2..N
      BY <3>3
    <3> QED
      BY <3>1, <3>2, <3>4
  <2>4. \A n \in 2..N' : Follows(cstack'[n], cstack'[n - 1])
    BY <2>3
  <2>5. N > 0 /\ CStackInv
    BY DEF StackInv
  <2>6. cstack'[1].k = "pcall" /\ cstack'[1].l = Main /\ cstack'[1].ci = 0
    BY <2>1, <2>5 DEF CStackInv
  <2> QED
    BY <1>1, <2>2, <2>4, <2>6 DEF CStackInv, Follows
<1>3. ASSUME NEW m \in 1..N + 1, Ends(m)', m < N + 1 PROVE Waiting(m)'
  <2>1. m \in 1..N /\ cstack'[m + 1].k = "resume" /\ cstack'[m] = cstack[m]
    <3>1. m \in 1..N
      BY <1>1, <1>3
    <3>2. m # N'
      BY <1>1, <3>1
    <3> QED
      BY <1>1, <1>3, <3>1, <3>2 DEF Ends
  <2>2. CASE m = N
    <3>1. c.k = "resume" /\ cstack'[m] = Top /\ Running = Top.l
      BY <1>1, <2>1, <2>2, RunningThread
    <3>2. /\ th'[Running].nCcalls = N /\ th'[Running].status = "0"
          /\ Len(th'[Running].ci) > Top.ci + 1
      BY <3>1
    <3> QED
      BY <2>2, <3>1, <3>2 DEF Waiting
  <2>3. CASE m < N
    <3>1. m + 1 \in 1..N
      BY <1>1, <2>1, <2>3
    <3>2. cstack'[m + 1] = cstack[m + 1]
      BY <1>1, <3>1
    <3>3. Ends(m)
      BY <2>1, <3>2 DEF Ends
    <3> QED
      BY <2>1, <2>3, <3>3, RunningThread DEF Waiting
  <2> QED
    BY <1>1, <2>1, <2>2, <2>3
<1>4. RunningInv'
  BY <1>1 DEF RunningInv
<1> QED
  BY <1>1, <1>2, <1>3, <1>4 DEF StackInv

\* The calls on top of the C stack end: what is left runs on, or nothing is.
LEMMA Cut ==
    ASSUME StackInv, N > 0, NEW n \in 0..N - 1, cstack' = SubSeq(cstack, 1, n),
           th' \in [Threads -> Good],
           \A m \in 1..N : Ends(m) /\ m < n => th'[cstack[m].l] = th[cstack[m].l],
           n > 0 =>
               /\ th'[cstack[n].l].nCcalls = n /\ th'[cstack[n].l].status = "0"
               /\ Len(th'[cstack[n].l].ci) >= cstack[n].ci
               /\ throwing' = "no" => Len(th'[cstack[n].l].ci) > cstack[n].ci
    PROVE  StackInv' /\ N' = n /\ (n = 0 <=> cstack' = << >>)
<1>1. /\ cstack \in Seq(AnyCall) /\ N \in Nat \ {0} /\ n \in Nat /\ n < N
      /\ cstack' \in Seq(AnyCall) /\ N' = n
      /\ \A m \in 1..n : m \in 1..N /\ cstack'[m] = cstack[m]
  BY DEF StackInv, CStackInv, N
<1>2. CStackInv'
  <2>1. n > 0 => cstack'[1] = cstack[1]
    BY <1>1
  <2>2. \A m \in 1..n : cstack'[m].nCcalls = m - 1
    BY <1>1 DEF StackInv, CStackInv
  <2>3. ASSUME NEW m \in 2..n PROVE Follows(cstack'[m], cstack'[m - 1])
    <3>1. m \in 1..n /\ m - 1 \in 1..n /\ m \in 2..N
      BY <1>1
    <3> QED
      BY <1>1, <3>1 DEF StackInv, CStackInv
  <2> QED
    BY <1>1, <2>1, <2>2, <2>3 DEF StackInv, CStackInv, Follows
<1>3. ASSUME NEW m \in 1..N', Ends(m)', m < N' PROVE Waiting(m)'
  <2>1. m \in 1..n /\ m + 1 \in 1..n /\ cstack'[m + 1].k = "resume"
    BY <1>1, <1>3 DEF Ends
  <2>2. Ends(m) /\ m < N /\ m < n /\ m \in 1..N
    BY <1>1, <1>3, <2>1 DEF Ends
  <2> QED
    BY <1>1, <2>1, <2>2 DEF StackInv, Waiting
<1>4. RunningInv'
  BY <1>1 DEF RunningInv
<1>5. n = 0 <=> cstack' = << >>
  BY <1>1 DEF N
<1> QED
  BY <1>1, <1>2, <1>3, <1>4, <1>5 DEF StackInv

-----------------------------------------------------------------------------
(* What the operations make of a thread.                                   *)

LEMMA ResultsType ==
    ASSUME NEW t \in Thread, NEW vals \in Seq(Value), t.ci # << >>
    PROVE  /\ Results(t, vals) \in Thread
           /\ Results(t, vals).nCcalls = t.nCcalls
           /\ Results(t, vals).status = t.status
           /\ Results(t, vals).stack = vals
           /\ Len(Results(t, vals).ci) = Len(t.ci) - 1
<1>1. t.ci \in Seq(Frame)
  BY DEF Thread
<1>2. Pop(t.ci) \in Seq(Frame) /\ Len(Pop(t.ci)) = Len(t.ci) - 1
  BY <1>1 DEF Pop
<1> HIDE DEF Pop
<1>3. /\ Results(t, vals) \in Thread
      /\ Results(t, vals).nCcalls = t.nCcalls
      /\ Results(t, vals).status = t.status
      /\ Results(t, vals).stack = vals
      /\ Results(t, vals).ci = Pop(t.ci)
  BY <1>2 DEF Results, Thread
<1> QED
  BY <1>2, <1>3

LEMMA ShortList ==
    ASSUME NEW S, NEW a \in S, NEW b \in S
    PROVE  <<a>> \in Seq(S) /\ <<a, b>> \in Seq(S)
  OBVIOUS

\* What a thread gets from resume() or wrap(), which end.
LEMMA AnswerType ==
    ASSUME NEW t \in Thread, t.status = "0", t.ci # << >>, NEW vals \in Seq(Value),
           NEW r \in {Refused(t), Answered(t, vals)}
    PROVE  /\ r.l \in Good /\ r.l.nCcalls = t.nCcalls /\ r.l.status = "0"
           /\ Len(r.l.ci) >= Len(t.ci) - 1 /\ r.err \in BOOLEAN
<1> DEFINE Fine(u) == /\ u \in Good /\ u.nCcalls = t.nCcalls /\ u.status = "0"
                      /\ Len(u.ci) >= Len(t.ci) - 1
<1>1. ASSUME NEW w \in Seq(Value) PROVE Fine(Results(t, w))
  BY ResultsType DEF Good
<1>2. Fine(t)
  <2>1. Len(t.ci) \in Nat
    BY DEF Thread
  <2> QED
    BY <2>1 DEF Good
<1>3. <<"false", "error">> \in Seq(Value) /\ <<"true">> \o vals \in Seq(Value)
  <2>1. <<"false", "error">> \in Seq(Value) /\ <<"true">> \in Seq(Value)
    <3>1. "false" \in Value /\ "error" \in Value /\ "true" \in Value
      BY CoroutineAssumption
    <3> QED
      BY <3>1, ShortList
  <2> QED
    BY <2>1, ConcatProperties
<1> HIDE DEF Fine
<1>4. Fine(Refused(t).l) /\ Refused(t).err \in BOOLEAN
  BY <1>1, <1>2, <1>3 DEF Refused
<1>5. Fine(Answered(t, vals).l) /\ Answered(t, vals).err \in BOOLEAN
  BY <1>1, <1>3 DEF Answered
<1> QED
  BY <1>4, <1>5 DEF Fine

\* The same when a coroutine comes back.
LEMMA ResumedType ==
    ASSUME NEW co \in Good, NEW t \in Thread, t.status = "0", t.ci # << >>
    PROVE  /\ Resumed(co, t).co \in Good
           /\ Resumed(co, t).to.l \in Good /\ Resumed(co, t).to.l.nCcalls = t.nCcalls
           /\ Resumed(co, t).to.l.status = "0"
           /\ Len(Resumed(co, t).to.l.ci) >= Len(t.ci) - 1
           /\ Resumed(co, t).to.err \in BOOLEAN
<1>1. co.stack \in Seq(Value) /\ co \in Thread
  BY DEF Good, Thread
<1>2. CASE lua_checkstack(t, Len(co.stack) + 1)
  <2>1. Resumed(co, t) = [co |-> [co EXCEPT !.stack = << >>], to |-> Answered(t, co.stack)]
    BY <1>2 DEF Resumed
  <2>2. [co EXCEPT !.stack = << >>] \in Good
    <3>1. << >> \in Seq(Value)
      OBVIOUS
    <3> DEFINE left == [co EXCEPT !.stack = << >>]
    <3>2. left \in Thread /\ left.status = co.status /\ left.ci = co.ci
      BY <1>1, <3>1 DEF Thread
    <3> QED
      BY <3>2 DEF Good
  <2> QED
    BY <1>1, <2>1, <2>2, AnswerType
<1>3. CASE ~lua_checkstack(t, Len(co.stack) + 1)
  <2>1. Resumed(co, t) = [co |-> co, to |-> [l |-> t, err |-> TRUE]]
    BY <1>3 DEF Resumed
  <2>2. Len(t.ci) \in Nat
    BY DEF Thread
  <2>3. t \in Good
    BY DEF Good
  <2> QED
    <3>1. Resumed(co, t).co = co /\ Resumed(co, t).to = [l |-> t, err |-> TRUE]
      BY <2>1
    <3> QED
      BY <2>2, <2>3, <3>1
<1> QED
  BY <1>2, <1>3

-----------------------------------------------------------------------------
(* The steps.                                                              *)

LEMMA NewThreadType ==
    /\ NewThread \in Good /\ NoThread \in Good
    /\ NewThread.nCcalls = 0 /\ NewThread.ci = << >> /\ NewThread.status = "0"
    /\ << >> \in Seq(Value) /\ << >> \in Seq(Frame)
<1>1. << >> \in Seq(Value) /\ << >> \in Seq(Frame)
  OBVIOUS
<1>2. NewThread \in Thread
  BY <1>1 DEF NewThread, Thread
<1>3. NewThread.nCcalls = 0 /\ NewThread.ci = << >> /\ NewThread.status = "0"
  BY DEF NewThread
<1>4. NoThread \in Thread /\ NoThread.status = "none"
  BY <1>2 DEF NoThread, Thread
<1> QED
  BY <1>1, <1>2, <1>3, <1>4 DEF Good

LEMMA Begins == Init => Inv
<1> SUFFICES ASSUME Init PROVE Inv
  OBVIOUS
<1>1. NewThread \in Good /\ NoThread \in Good
  BY NewThreadType
<1>2. cstack \in Seq(AnyCall) /\ N = 0
  BY DEF Init, N
<1>3. th \in [Threads -> Good] /\ th[Main] = NewThread
  BY <1>1 DEF Init, Threads
<1>4. StackInv
  BY <1>2, <1>3 DEF StackInv, CStackInv, RunningInv
<1>5. IdleInv /\ Flags
  BY <1>3, NewThreadType DEF Init, IdleInv, Flags
<1>6. Bounded
  BY <1>2, CoroutineAssumption DEF Init, Bounded
<1> QED
  BY <1>4, <1>5, <1>6 DEF Inv

LEMMA drawKeeps == Inv /\ draw => Inv'
<1> SUFFICES ASSUME Inv, draw PROVE Inv'
  OBVIOUS
<1> DEFINE c == CCall("pcall", Main, 0, 0, FALSE)
           t == [NewThread EXCEPT !.ci = <<"Lua">>, !.nCcalls = 1]
<1>1. /\ t \in Good /\ t.nCcalls = 1 /\ t.status = "0" /\ Len(t.ci) = 1
      /\ Main \in Threads
  <2>1. <<"Lua">> \in Seq(Frame) /\ Len(<<"Lua">>) = 1
    BY DEF Frame
  <2>2. NewThread \in Thread /\ NewThread.status = "0"
    BY NewThreadType DEF Good
  <2>3. t \in Thread /\ t.nCcalls = 1 /\ t.status = "0" /\ t.ci = <<"Lua">>
    BY <2>1, <2>2 DEF Thread
  <2> QED
    BY <2>1, <2>3 DEF Good, Threads
<1>2. c \in AnyCall /\ c.k = "pcall" /\ c.l = Main /\ c.ci = 0 /\ c.nCcalls = 0
  BY DEF CCall, AnyCall, Threads
<1>3. th' = [th EXCEPT ![Main] = t] /\ cstack' = <<c>>
  BY DEF draw
<1> HIDE DEF c, t
<1>4. th' \in [Threads -> Good] /\ th'[Main] = t
  BY <1>1, <1>3 DEF Inv, StackInv
<1>5. cstack' \in Seq(AnyCall) /\ N' = 1 /\ cstack'[1] = c /\ cstack' # << >>
  BY <1>2, <1>3 DEF N
<1>6. StackInv'
  <2>1. CStackInv'
    BY <1>2, <1>5 DEF CStackInv
  <2>2. RunningInv'
    <3>1. cstack'[N'] = c
      BY <1>5
    <3>2. th'[cstack'[N'].l] = t /\ cstack'[N'].ci = 0
      BY <1>2, <1>4, <3>1
    <3>3. N' = 1 /\ t.nCcalls = 1 /\ t.status = "0" /\ Len(t.ci) >= 0 /\ Len(t.ci) > 0
      BY <1>1, <1>5
    <3> QED
      BY <3>2, <3>3 DEF RunningInv
  <2> QED
    BY <1>4, <1>5, <2>1, <2>2 DEF StackInv
<1>7. IdleInv' /\ Flags'
  BY <1>5 DEF draw, Inv, IdleInv, Flags
<1>8. Bounded'
  BY <1>5, CoroutineAssumption DEF Bounded
<1> QED
  BY <1>6, <1>7, <1>8 DEF Inv

\* A function of Lua only runs in a call of draw().
LEMMA InLuaRuns ==
    ASSUME Inv, InLua \/ throwing # "no"
    PROVE  N > 0 /\ cstack # << >>
<1>1. cstack # << >>
  BY DEF Inv, IdleInv, InLua, L, Running
<1> QED
  BY <1>1 DEF Inv, StackInv, CStackInv, N

\* The running thread goes on, on the same C stack, and may change one that is off.
LEMMA RunningMoves ==
    ASSUME Inv, N > 0, UNCHANGED cstack, th' \in [Threads -> Good],
           NEW co \in Threads, Off(co), \A l \in Threads \ {Running, co} : th'[l] = th[l],
           th'[Running].nCcalls = N, th'[Running].status = "0",
           Len(th'[Running].ci) >= Top.ci,
           throwing' = "no" => Len(th'[Running].ci) > Top.ci,
           throwing' \in {"no", "raise", "throw"}, throwing # "throw", bad' \in BOOLEAN,
           sent' \in Seq(Value)
    PROVE  Inv'
<1>1. StackInv' /\ N' = N
  BY WaitingKept, Stays DEF Inv
<1>2. cstack # << >>
  BY RunningThread DEF Inv
<1> QED
  BY <1>1, <1>2 DEF Inv, IdleInv, Bounded, Flags

\* The running thread is not waiting.
LEMMA RunningIsOff ==
    ASSUME StackInv, N > 0
    PROVE  Off(Running) /\ Running \in Threads
  BY RunningThread DEF Off

\* What the steps need of it.
LEMMA RunningFacts ==
    ASSUME Inv, InLua \/ throwing # "no"
    PROVE  /\ N > 0 /\ N \in Nat /\ StackInv /\ Running \in Threads /\ Off(Running)
           /\ Running = Top.l /\ Top = cstack[N]
           /\ L \in Thread /\ L \in Good /\ L = th[Running]
           /\ L.nCcalls = N /\ L.status = "0" /\ Len(L.ci) >= Top.ci
           /\ throwing = "no" => Len(L.ci) > Top.ci
           /\ Top \in AnyCall /\ Top.ci \in Nat /\ L.ci \in Seq(Frame) /\ Len(L.ci) \in Nat
           /\ bad \in BOOLEAN /\ sent \in Seq(Value)
  BY InLuaRuns, RunningThread, RunningIsOff DEF Inv, Good, Thread, AnyCall, L, Flags

LEMMA AppendType ==
    ASSUME NEW t \in Thread, NEW fn \in Frame
    PROVE  Append(t.ci, fn) \in Seq(Frame) /\ Len(Append(t.ci, fn)) = Len(t.ci) + 1
  BY DEF Thread

LEMMA CallKeeps == Inv /\ Call => Inv'
<1> SUFFICES ASSUME Inv, Call PROVE Inv'
  OBVIOUS
<1>1. /\ N > 0 /\ Running \in Threads /\ Off(Running) /\ StackInv /\ throwing = "no"
      /\ L \in Thread /\ L.nCcalls = N /\ L.status = "0" /\ Len(L.ci) > Top.ci
      /\ Top.ci \in Nat /\ Len(L.ci) \in Nat
  BY RunningFacts DEF Call, InLua
<1> DEFINE ci == Append(L.ci, "Lua")
           t == [L EXCEPT !.ci = ci, !.stack = << >>]
<1>2. ci \in Seq(Frame) /\ Len(ci) = Len(L.ci) + 1
  BY <1>1, AppendType DEF Frame
<1> HIDE DEF ci
<1>3. t \in Good /\ t.nCcalls = N /\ t.status = "0" /\ t.ci = ci
  <2>1. t \in Thread /\ t.nCcalls = N /\ t.status = "0" /\ t.ci = ci
    BY <1>1, <1>2, NewThreadType DEF Thread
  <2> QED
    BY <2>1 DEF Good
<1>4. /\ th'[Running] = t
      /\ \A l \in Threads \ {Running} : th'[l] = th[l]
      /\ th' \in [Threads -> Good]
  <2>1. th' = [th EXCEPT ![Running] = t]
    BY <1>1 DEF Call, L, ci, StackInv
  <2> HIDE DEF t
  <2> QED
    BY <1>1, <1>3, <2>1 DEF StackInv
<1> HIDE DEF t
<1>5. Len(th'[Running].ci) > Top.ci /\ Len(th'[Running].ci) >= Top.ci
  BY <1>1, <1>2, <1>3, <1>4
<1>6. /\ UNCHANGED cstack /\ throwing' = "no"
      /\ bad' \in BOOLEAN /\ sent' \in Seq(Value)
  BY <1>1 DEF Call, Inv, Flags
<1>7. th'[Running].nCcalls = N /\ th'[Running].status = "0"
  BY <1>3, <1>4
<1> QED
  BY <1>1, <1>4, <1>5, <1>6, <1>7, RunningMoves
LEMMA luaB_errorKeeps == Inv /\ luaB_error => Inv'
<1> SUFFICES ASSUME Inv, luaB_error PROVE Inv'
  OBVIOUS
<1>1. InLua /\ throwing = "no" /\ throwing' = "raise" /\ UNCHANGED <<th, cstack, bad, sent>>
  BY DEF luaB_error, InLua
<1>2. th' \in [Threads -> Good] /\ \A l \in Threads : th'[l] = th[l]
  BY <1>1, RunningFacts DEF StackInv
<1>3. th'[Running] = L
  BY <1>1, <1>2, RunningFacts
<1> QED
  BY <1>1, <1>2, <1>3, RunningFacts, RunningMoves

\* A call from C, of a thread that is now t.
LEMMA luaD_callKeeps ==
    ASSUME Inv, N > 0, throwing \in {"no", "raise"}, NEW t \in Thread,
           t.nCcalls = N, t.status = "0",
           NEW k \in {"call", "pcall", "handler"}, NEW ef \in BOOLEAN, luaD_call(t, k, ef),
           k = "call" => Len(t.ci) > Top.ci, k = "pcall" => Len(t.ci) > Top.ci + 1,
           k = "handler" => Len(t.ci) >= Top.ci
    PROVE  Inv'
<1> DEFINE called == [t EXCEPT !.nCcalls = @ + 1, !.stack = << >>, !.errfunc = ef]
           gone == [called EXCEPT !.ci = Append(@, "Lua")]
           c == CCall(k, Running, Len(t.ci), t.nCcalls, L.errfunc)
<1>1. /\ cstack' = Append(cstack, c) /\ throwing' = Overflow(called.nCcalls)
      /\ th' = [th EXCEPT ![Running] = IF throwing' # "no" THEN called ELSE gone]
      /\ UNCHANGED <<bad, sent>>
  BY DEF luaD_call
<1>2. /\ StackInv /\ N \in Nat /\ Running \in Threads /\ Off(Running) /\ Top.l = Running
      /\ L \in Thread /\ Len(t.ci) \in Nat /\ t.ci \in Seq(Frame)
  BY RunningThread, RunningIsOff DEF Inv, Good, Thread
<1>3. called \in Thread /\ called.nCcalls = N + 1 /\ called.status = "0" /\ called.ci = t.ci
  <2>1. t.nCcalls + 1 \in Nat /\ << >> \in Seq(Value)
    BY <1>2, NewThreadType
  <2>2. called \in Thread
    BY <2>1 DEF Thread
  <2>3. called.nCcalls = N + 1 /\ called.status = "0" /\ called.ci = t.ci
    BY DEF Thread
  <2> QED
    BY <2>2, <2>3
<1>4. Append(called.ci, "Lua") \in Seq(Frame) /\ Len(Append(called.ci, "Lua")) = Len(t.ci) + 1
  BY <1>3, AppendType DEF Frame
<1> HIDE DEF called
<1>5. gone \in Thread /\ gone.nCcalls = N + 1 /\ gone.status = "0" /\ Len(gone.ci) = Len(t.ci) + 1
  BY <1>3, <1>4 DEF Thread
<1>6. /\ c \in AnyCall /\ c.k = k /\ c.l = Running /\ c.ci = Len(t.ci) /\ c.nCcalls = N
  BY <1>2 DEF CCall, AnyCall, Thread
<1> HIDE DEF gone, c
<1>7. called \in Good /\ gone \in Good
  BY <1>3, <1>5 DEF Good
<1>8. /\ th' \in [Threads -> Good] /\ \A l \in Threads \ {Running} : th'[l] = th[l]
      /\ th'[Running] = IF throwing' # "no" THEN called ELSE gone
  BY <1>1, <1>2, <1>7 DEF StackInv
<1>9. /\ th'[c.l].nCcalls = N + 1 /\ th'[c.l].status = "0" /\ Len(th'[c.l].ci) >= c.ci
      /\ throwing' = "no" => Len(th'[c.l].ci) > c.ci
  BY <1>2, <1>3, <1>5, <1>6, <1>8
<1>10. Follows(c, Top) /\ c.k # "resume"
  BY <1>2, <1>6 DEF Follows
<1>11. \A m \in 1..N : Ends(m) /\ m < N => th'[cstack[m].l] = th[cstack[m].l]
  BY <1>2, <1>8, WaitingKept
<1>12. StackInv' /\ N' = N + 1
  BY <1>1, <1>2, <1>6, <1>8, <1>9, <1>10, <1>11, Pushed
<1>13. Bounded' /\ throwing' \in {"no", "raise", "throw"}
  <2>1. N < LUAI_MAXCCALLS + ErrorCalls /\ LUAI_MAXCCALLS \in Nat /\ ErrorCalls \in Nat \ {0}
    BY CoroutineAssumption DEF Inv, Bounded
  <2>2. N + 1 >= LUAI_MAXCCALLS + ErrorCalls => throwing' = "throw"
    BY <1>1, <1>2, <1>3, <2>1 DEF Overflow
  <2>3. throwing' \in {"no", "raise", "throw"}
    BY <1>1 DEF Overflow
  <2> QED
    BY <1>2, <1>12, <2>1, <2>2, <2>3 DEF Bounded
<1>14. cstack' # << >>
  BY <1>2, <1>12 DEF N
<1> QED
  BY <1>1, <1>12, <1>13, <1>14 DEF Inv, IdleInv, Flags

LEMMA CallMetamethodKeeps == Inv /\ CallMetamethod => Inv'
<1> SUFFICES ASSUME Inv, CallMetamethod PROVE Inv'
  OBVIOUS
<1>1. InLua /\ throwing = "no" /\ luaD_call(L, "call", L.errfunc)
  BY DEF CallMetamethod, InLua
<1>2. L.errfunc \in BOOLEAN
  BY <1>1, RunningFacts DEF Thread
<1> QED
  BY <1>1, <1>2, RunningFacts, luaD_callKeeps

LEMMA luaB_pcallKeeps == Inv /\ luaB_pcall => Inv'
<1> SUFFICES ASSUME Inv, luaB_pcall PROVE Inv'
  OBVIOUS
<1>1. InLua /\ throwing = "no"
  BY DEF luaB_pcall, InLua
<1>2. PICK fn \in {"pcall", "xpcall"} :
          luaD_call([L EXCEPT !.ci = Append(@, fn)], "pcall", fn = "xpcall")
  BY DEF luaB_pcall
<1> DEFINE t == [L EXCEPT !.ci = Append(@, fn)]
<1>3. Append(L.ci, fn) \in Seq(Frame) /\ Len(Append(L.ci, fn)) = Len(L.ci) + 1
  BY <1>1, RunningFacts, AppendType DEF Frame
<1>4. t \in Thread /\ t.nCcalls = N /\ t.status = "0" /\ t.ci = Append(L.ci, fn)
  BY <1>1, <1>3, RunningFacts DEF Thread
<1> HIDE DEF t
<1>5. Len(t.ci) > Top.ci + 1
  BY <1>1, <1>3, <1>4, RunningFacts
<1>6. (fn = "xpcall") \in BOOLEAN /\ luaD_call(t, "pcall", fn = "xpcall")
  BY <1>2 DEF t
<1> QED
  BY <1>1, <1>4, <1>5, <1>6, RunningFacts, luaD_callKeeps

LEMMA luaG_errormsgKeeps == Inv /\ luaG_errormsg => Inv'
<1> SUFFICES ASSUME Inv, luaG_errormsg PROVE Inv'
  OBVIOUS
<1>1. throwing = "raise"
  BY DEF luaG_errormsg
<1>2. CASE luaD_call(L, "handler", TRUE)
  BY <1>1, <1>2, RunningFacts, luaD_callKeeps
<1>3. CASE throwing' = "throw" /\ UNCHANGED <<th, cstack, bad, sent>>
  <2>1. th' \in [Threads -> Good] /\ \A l \in Threads : th'[l] = th[l]
    BY <1>1, <1>3, RunningFacts DEF StackInv
  <2>2. th'[Running] = L
    BY <1>1, <1>3, <2>1, RunningFacts
  <2> QED
    BY <1>1, <1>3, <2>1, <2>2, RunningFacts, RunningMoves
<1> QED
  BY <1>2, <1>3 DEF luaG_errormsg

LEMMA luaB_cocreateKeeps == Inv /\ luaB_cocreate => Inv'
<1> SUFFICES ASSUME Inv, luaB_cocreate PROVE Inv'
  OBVIOUS
<1>1. InLua /\ throwing = "no" /\ UNCHANGED <<cstack, throwing, bad, sent>>
  BY DEF luaB_cocreate, InLua
<1> DEFINE new == [NewThread EXCEPT !.stack = <<"function">>]
           t == [L EXCEPT !.stack = << >>]
<1>2. PICK co \in Co :
          /\ th[co].status = "none"
          /\ th' = [th EXCEPT ![co] = new, ![Running].stack = << >>]
  BY DEF luaB_cocreate
<1>3. co \in Threads /\ co # Running /\ Off(co)
  BY <1>1, <1>2, RunningFacts, IdleIsOff DEF Threads
<1>4. new \in Good
  <2>1. <<"function">> \in Seq(Value)
    <3>1. "function" \in Value
      BY CoroutineAssumption
    <3> QED
      BY <3>1
  <2>2. NewThread \in Thread
    BY NewThreadType DEF Good
  <2>3. new \in Thread /\ new.status = "0"
    BY <2>1, <2>2, NewThreadType DEF Thread
  <2> QED
    BY <2>3 DEF Good
<1>5. t \in Good /\ t.nCcalls = N /\ t.status = "0" /\ t.ci = L.ci
  <2>1. t \in Thread /\ t.nCcalls = N /\ t.status = "0" /\ t.ci = L.ci
    BY <1>1, RunningFacts, NewThreadType DEF Thread
  <2> QED
    BY <2>1 DEF Good
<1>6. /\ th'[Running] = t
      /\ \A l \in Threads \ {Running, co} : th'[l] = th[l]
      /\ th' \in [Threads -> Good]
  <2>1. th' = [th EXCEPT ![co] = new, ![Running] = t]
    BY <1>1, <1>2, <1>3, RunningFacts DEF StackInv
  <2> HIDE DEF new, t
  <2> QED
    BY <1>1, <1>3, <1>4, <1>5, <2>1, RunningFacts DEF StackInv
<1> HIDE DEF t, new
<1>7. Len(th'[Running].ci) > Top.ci /\ Len(th'[Running].ci) >= Top.ci
  BY <1>1, <1>5, <1>6, RunningFacts
<1>8. th'[Running].nCcalls = N /\ th'[Running].status = "0"
  BY <1>5, <1>6
<1> QED
  BY <1>1, <1>3, <1>6, <1>7, <1>8, RunningFacts, RunningMoves
LEMMA OneLess ==
    ASSUME NEW a \in Nat, NEW b \in Nat, NEW c \in Nat, a >= b - 1, b > c + 1
    PROVE  a >= c /\ a > c
  OBVIOUS

\* The running coroutine, which is now t, leaves through the resume on top.
LEMMA BackToResumerKeeps ==
    ASSUME Inv, InLua, Top.k = "resume", NEW t \in Good, t.nCcalls = N, BackToResumer(t),
           sent' \in Seq(Value)
    PROVE  Inv'
<1> DEFINE n == N - 1
           caller == cstack[n].l
           left == [t EXCEPT !.nCcalls = @ - 1]
           r == Resumed(left, th[caller])
<1>1. throwing = "no"
  BY DEF InLua
<1>2. n \in 1..N /\ n < N /\ n \in Nat /\ n > 0 /\ cstack[n] \in AnyCall /\ Ends(n)
  <2>1. N # 1 /\ cstack \in Seq(AnyCall)
    BY <1>1, RunningFacts DEF StackInv, CStackInv
  <2>2. n \in 1..N /\ n < N /\ n \in Nat /\ n > 0 /\ n + 1 = N
    BY <1>1, <2>1, RunningFacts
  <2>3. cstack[n] \in AnyCall
    BY <2>1, <2>2 DEF N
  <2> QED
    BY <1>1, <2>2, <2>3, RunningFacts DEF Ends
<1>3. /\ caller \in Threads /\ caller # Running /\ th[caller] \in Thread
      /\ th[caller].nCcalls = n /\ th[caller].status = "0"
      /\ Len(th[caller].ci) > cstack[n].ci + 1 /\ cstack[n].ci \in Nat
      /\ th[caller].ci # << >> /\ Len(th[caller].ci) \in Nat
  <2>1. StackInv /\ N > 0
    BY <1>1, RunningFacts
  <2> HIDE DEF n
  <2> QED
    BY <1>2, <2>1, WaitingThread
<1>4. th[caller].ci # << >> /\ Len(th[caller].ci) \in Nat
  BY <1>3
<1>5. left \in Good
  <2>1. t.nCcalls - 1 \in Nat
    BY <1>1, RunningFacts
  <2>2. left \in Thread /\ left.status = t.status /\ left.ci = t.ci
    BY <2>1 DEF Good, Thread
  <2> QED
    BY <2>2 DEF Good
<1>6. /\ cstack' = SubSeq(cstack, 1, n)
      /\ th' = [th EXCEPT ![Running] = r.co, ![caller] = r.to.l]
      /\ throwing' = Raised(r.to.err)
      /\ bad' = (bad \/ t.nCcalls # t.baseCcalls)
  BY DEF BackToResumer, Pop, N
<1> HIDE DEF left
<1>7. /\ r.co \in Good /\ r.to.l \in Good /\ r.to.l.nCcalls = n /\ r.to.l.status = "0"
      /\ Len(r.to.l.ci) >= Len(th[caller].ci) - 1 /\ r.to.err \in BOOLEAN
  BY <1>3, <1>4, <1>5, ResumedType
<1> HIDE DEF r, caller, n
<1>8. /\ th' \in [Threads -> Good] /\ th'[caller] = r.to.l
      /\ \A l \in Threads \ {Running, caller} : th'[l] = th[l]
  BY <1>1, <1>3, <1>6, <1>7, RunningFacts DEF StackInv
<1>9. ASSUME NEW m \in 1..N, Ends(m), m < n PROVE th'[cstack[m].l] = th[cstack[m].l]
  <2>1. m < N /\ cstack[m] \in AnyCall
    BY <1>2, <1>9 DEF Inv, StackInv, CStackInv, N
  <2>2. Waiting(m) /\ cstack[m].l # Running
    BY <1>1, <1>9, <2>1, RunningFacts, RunningThread
  <2>3. cstack[m].l # caller /\ cstack[m].l \in Threads
    BY <1>2, <1>3, <1>9, <2>1, <2>2 DEF Waiting, AnyCall
  <2> QED
    BY <1>8, <2>2, <2>3
<1>10. /\ th'[cstack[n].l].nCcalls = n /\ th'[cstack[n].l].status = "0"
       /\ Len(th'[cstack[n].l].ci) >= cstack[n].ci /\ Len(th'[cstack[n].l].ci) > cstack[n].ci
  <2>1. th'[cstack[n].l] = r.to.l
    BY <1>8 DEF caller
  <2>2. Len(r.to.l.ci) \in Nat
    BY <1>7 DEF Good, Thread
  <2>3. Len(r.to.l.ci) >= cstack[n].ci /\ Len(r.to.l.ci) > cstack[n].ci
    <3>1. Len(r.to.l.ci) >= Len(th[caller].ci) - 1
      BY <1>7
    <3>2. Len(th[caller].ci) > cstack[n].ci + 1 /\ cstack[n].ci \in Nat
      BY <1>3
    <3>3. Len(th[caller].ci) \in Nat
      BY <1>4
    <3> QED
      BY <2>2, <3>1, <3>2, <3>3, OneLess
  <2> QED
    BY <1>7, <2>1, <2>3
<1>11. StackInv' /\ N' = n /\ cstack' # << >>
  <2>1. n \in 0..N - 1 /\ StackInv /\ N > 0
    BY <1>1, <1>2, RunningFacts
  <2>2. n # 0
    BY <1>2
  <2> QED
    BY <1>6, <1>8, <1>9, <1>10, <2>1, <2>2, Cut
<1>12. throwing' \in {"no", "raise"}
  BY <1>6, <1>7 DEF Raised
<1>13. Bounded'
  <2>1. N <= LUAI_MAXCCALLS + ErrorCalls /\ N \in Nat
    BY <1>1, RunningFacts DEF Inv, Bounded
  <2>2. N' < LUAI_MAXCCALLS + ErrorCalls
    BY <1>2, <1>11, <2>1, CoroutineAssumption
  <2> QED
    BY <1>2, <1>11, <2>2, CoroutineAssumption DEF Bounded
<1>14. Flags'
  BY <1>1, <1>6, <1>12, RunningFacts DEF Flags
<1> QED
  BY <1>11, <1>13, <1>14 DEF Inv, IdleInv

LEMMA lua_yieldKeeps == Inv /\ lua_yield => Inv'
<1> SUFFICES ASSUME Inv, lua_yield PROVE Inv'
  OBVIOUS
<1>1. InLua /\ throwing = "no" /\ L.ci # << >>
  BY DEF lua_yield, InLua
<1> DEFINE ci == Append(L.ci, "yield")
<1>2. PICK vals \in Lists :
          /\ sent' = vals
          /\ IF ~CanYield(L)
             THEN /\ th' = [th EXCEPT ![Running].ci = Append(@, "yield")]
                  /\ throwing' = "raise" /\ UNCHANGED <<cstack, bad>>
             ELSE IF Top.k # "resume" THEN bad' = TRUE /\ UNCHANGED <<th, cstack, throwing>>
             ELSE BackToResumer([L EXCEPT !.ci = Append(@, "yield"), !.status = "yield",
                                          !.stack = vals])
  BY DEF lua_yield
<1>3. sent' \in Seq(Value) /\ vals \in Seq(Value)
  BY <1>2, CoroutineAssumption
<1>4. ci \in Seq(Frame) /\ Len(ci) = Len(L.ci) + 1 /\ Len(ci) >= 2
  <2>1. ci \in Seq(Frame) /\ Len(ci) = Len(L.ci) + 1
    BY <1>1, RunningFacts, AppendType DEF Frame
  <2>2. Len(L.ci) > 0
    BY <1>1, RunningFacts
  <2> QED
    BY <1>1, <2>1, <2>2, RunningFacts
<1>5. CASE ~CanYield(L)
  <2> DEFINE u == [L EXCEPT !.ci = ci]
  <2>1. th' = [th EXCEPT ![Running] = u]
    BY <1>1, <1>2, <1>5, RunningFacts DEF StackInv
  <2> HIDE DEF ci
  <2>2. u \in Thread /\ u.nCcalls = N /\ u.status = "0" /\ u.ci = ci
    BY <1>1, <1>4, RunningFacts DEF Thread
  <2> HIDE DEF u
  <2>3. u \in Good
    BY <2>2 DEF Good
  <2>4. /\ th' \in [Threads -> Good] /\ th'[Running] = u
        /\ \A l \in Threads \ {Running} : th'[l] = th[l]
    BY <1>1, <2>1, <2>3, RunningFacts DEF StackInv
  <2>5. Len(u.ci) >= Top.ci
    BY <1>1, <1>4, <2>2, RunningFacts
  <2>6. throwing' = "raise" /\ UNCHANGED <<cstack, bad>>
    BY <1>2, <1>5
  <2> QED
    BY <1>1, <1>3, <2>2, <2>4, <2>5, <2>6, RunningFacts, RunningMoves
<1>6. CASE CanYield(L) /\ Top.k # "resume"
  <2>1. bad' = TRUE /\ UNCHANGED <<th, cstack, throwing>>
    BY <1>2, <1>6
  <2>2. th' \in [Threads -> Good] /\ \A l \in Threads : th'[l] = th[l]
    BY <1>1, <2>1, RunningFacts DEF StackInv
  <2>3. th'[Running] = L
    BY <1>1, <2>2, RunningFacts
  <2> QED
    BY <1>1, <1>3, <2>1, <2>2, <2>3, RunningFacts, RunningMoves
<1>7. CASE CanYield(L) /\ Top.k = "resume"
  <2> DEFINE u == [L EXCEPT !.ci = ci, !.status = "yield", !.stack = vals]
  <2>1. BackToResumer(u)
    BY <1>2, <1>7
  <2> HIDE DEF ci
  <2>2. u \in Thread /\ u.nCcalls = N /\ u.ci = ci
    BY <1>1, <1>3, <1>4, RunningFacts DEF Thread
  <2> HIDE DEF u
  <2>3. u \in Good
    BY <1>4, <2>2 DEF Good
  <2> QED
    BY <1>1, <1>3, <1>7, <2>1, <2>2, <2>3, BackToResumerKeeps
<1> QED
  BY <1>5, <1>6, <1>7
\* The running thread in the frame of resume() or of a function of wrap().
LEMMA AskingType ==
    ASSUME Inv, InLua, NEW fn \in {"resume", "wrap"}
    PROVE  /\ Asking(fn) \in Good /\ Asking(fn) \in Thread /\ Asking(fn).nCcalls = N
           /\ Asking(fn).status = "0" /\ Asking(fn).ci # << >>
           /\ Len(Asking(fn).ci) = Len(L.ci) + 1
<1>1. throwing = "no"
  BY DEF InLua
<1>2. Append(L.ci, fn) \in Seq(Frame) /\ Len(Append(L.ci, fn)) = Len(L.ci) + 1
  BY <1>1, RunningFacts, AppendType DEF Frame
<1>3. (IF fn = "resume" THEN <<"thread">> ELSE << >>) \in Seq(Value)
  <2>1. "thread" \in Value
    BY CoroutineAssumption
  <2> QED
    BY <2>1, NewThreadType
<1>4. /\ Asking(fn) \in Thread /\ Asking(fn).nCcalls = N /\ Asking(fn).status = "0"
      /\ Asking(fn).ci = Append(L.ci, fn)
  BY <1>1, <1>2, <1>3, RunningFacts DEF Asking, Thread
<1>5. Asking(fn).ci # << >>
  BY <1>1, <1>2, <1>4, RunningFacts
<1> QED
  BY <1>2, <1>4, <1>5 DEF Good

\* A resume that is refused, or has no room for the arguments, changes the running thread
\* to u, and maybe a coroutine that is off.
LEMMA RefusedKeeps ==
    ASSUME Inv, InLua, NEW fn \in {"resume", "wrap"}, NEW u,
           u = Asking(fn) \/ u = Refused(Asking(fn)).l,
           NEW co \in Threads, Off(co), NEW t \in Good,
           th' = [th EXCEPT ![Running] = u] \/
               (co # Running /\ th' = [th EXCEPT ![co] = t, ![Running] = u]),
           throwing' \in {"no", "raise"}, UNCHANGED <<cstack, bad>>, sent' \in Seq(Value)
    PROVE  Inv'
<1>1. throwing = "no"
  BY DEF InLua
<1>2. u \in Good /\ u.nCcalls = N /\ u.status = "0" /\ Len(u.ci) >= Len(L.ci)
  <2> DEFINE a == Asking(fn)
  <2>1. a \in Good /\ a \in Thread /\ a.nCcalls = N /\ a.status = "0" /\ a.ci # << >>
        /\ Len(a.ci) = Len(L.ci) + 1 /\ Len(L.ci) \in Nat
    BY <1>1, AskingType, RunningFacts
  <2> HIDE DEF a
  <2>2. CASE u = a
    BY <2>1, <2>2
  <2>3. CASE u = Refused(a).l
    <3>1. << >> \in Seq(Value)
      BY NewThreadType
    <3>2. /\ u \in Good /\ u.nCcalls = N /\ u.status = "0" /\ Len(u.ci) >= Len(a.ci) - 1
      BY <2>1, <2>3, <3>1, AnswerType
    <3> QED
      BY <2>1, <3>2
  <2> QED
    BY <2>2, <2>3 DEF a
<1>3. /\ th' \in [Threads -> Good] /\ th'[Running] = u
      /\ \A l \in Threads \ {Running, co} : th'[l] = th[l]
  BY <1>1, <1>2, RunningFacts DEF StackInv
<1>4. Len(u.ci) > Top.ci /\ Len(u.ci) >= Top.ci
  <2>1. Len(u.ci) \in Nat
    BY <1>2 DEF Good, Thread
  <2> QED
    BY <1>1, <1>2, <2>1, RunningFacts
<1>5. bad' \in BOOLEAN /\ UNCHANGED cstack
  BY <1>1, RunningFacts
<1> QED
  BY <1>1, <1>2, <1>3, <1>4, <1>5, RunningFacts, RunningMoves

LEMMA lua_resumeKeeps ==
    ASSUME Inv, InLua, NEW fn \in {"resume", "wrap"}, NEW co \in Co, NEW args \in Seq(Value),
           costatus(co) = "suspended", lua_resume(co, args, Asking(fn)), sent' \in Seq(Value)
    PROVE  Inv'
<1> DEFINE a == Asking(fn)
           levelled == lua_setlevel(a, th[co])
           level == levelled.nCcalls
           started == [levelled EXCEPT !.nCcalls = level + 1, !.baseCcalls = level + 1]
           c == CCall("resume", co, 0, level, FALSE)
           going == IF IsCallable(started) THEN Continued(started, args) ELSE started
<1>1. throwing = "no"
  BY DEF InLua
<1>2. /\ a \in Good /\ a \in Thread /\ a.nCcalls = N /\ a.status = "0" /\ a.ci # << >>
      /\ Len(a.ci) = Len(L.ci) + 1
  BY AskingType
<1>3. /\ co \in Threads /\ co # Running /\ th[co].status \in {"0", "yield"} /\ Off(co)
      /\ th[co] \in Good /\ th[co] \in Thread
  <2>1. co \in Threads /\ th[co] \in Good /\ th[co] \in Thread
    BY <1>1, RunningFacts DEF Threads, StackInv, Good
  <2>2. /\ co # Running /\ th[co].status \in {"0", "yield"}
        /\ th[co].status # "0" \/ th[co].ci = << >>
    BY DEF costatus
  <2> QED
    BY <1>1, <2>1, <2>2, RunningFacts, IdleIsOff
<1> HIDE DEF a
<1>4. /\ levelled \in Thread /\ level = N /\ levelled.status = th[co].status
      /\ levelled.ci = th[co].ci
  BY <1>1, <1>2, <1>3, RunningFacts DEF lua_setlevel, Thread
<1> HIDE DEF levelled
<1>5. CASE level >= LUAI_MAXCCALLS
  <2> DEFINE t == OutOfCalls(levelled)
  <2>1. t \in Good
    <3>1. t \in Thread /\ t.status = levelled.status /\ t.ci = levelled.ci
      BY <1>4, NewThreadType DEF OutOfCalls, Thread
    <3> QED
      BY <1>3, <1>4, <3>1 DEF Good
  <2>2. /\ th' = [th EXCEPT ![co] = t, ![Running] = Refused(a).l]
        /\ throwing' = Raised(Refused(a).err) /\ UNCHANGED <<cstack, bad>>
    BY <1>5 DEF lua_resume, a, levelled
  <2>3. throwing' \in {"no", "raise"}
    BY <2>2 DEF Raised
  <2> HIDE DEF t
  <2> QED
    BY <1>3, <2>1, <2>2, <2>3, RefusedKeeps DEF a
<1>6. CASE ~(level >= LUAI_MAXCCALLS)
  <2>1. /\ started \in Thread /\ started.nCcalls = N + 1
        /\ started.status = th[co].status /\ started.ci = th[co].ci
    <3>1. level + 1 \in Nat
      BY <1>1, <1>4, RunningFacts
    <3>2. started \in Thread
      BY <1>4, <3>1 DEF Thread
    <3> QED
      BY <1>4, <3>2 DEF Thread
  <2>2. /\ cstack' = Append(cstack, c)
        /\ throwing' = Raised(~IsCallable(started))
        /\ th' = [th EXCEPT ![Running] = a, ![co] = going]
        /\ bad' = (bad \/ started.errfunc \/ (started.status = "0" /\ started.ci # << >>))
    BY <1>6 DEF lua_resume, a, levelled
  <2> HIDE DEF started
  <2>3. /\ going \in Good /\ going.nCcalls = N + 1 /\ going.status = "0"
        /\ throwing' = "no" => Len(going.ci) > 0
    <3>1. CASE ~IsCallable(started)
      <4>1. going = started /\ started.status = "0" /\ throwing' # "no"
        BY <2>2, <3>1 DEF IsCallable, Raised
      <4> QED
        BY <2>1, <4>1 DEF Good
    <3>2. CASE IsCallable(started) /\ started.status = "0"
      <4> DEFINE first == <<"Lua">>
      <4>1. going = [started EXCEPT !.ci = first, !.stack = args]
        BY <3>2 DEF Continued
      <4>2. first \in Seq(Frame) /\ Len(first) = 1
        BY DEF Frame
      <4> HIDE DEF first
      <4>3. /\ going \in Thread /\ going.nCcalls = N + 1 /\ going.status = "0"
            /\ going.ci = first
        BY <2>1, <3>2, <4>1, <4>2 DEF Thread
      <4> HIDE DEF going
      <4>4. Len(going.ci) > 0
        <5>1. Len(first) > 0 /\ going.ci = first
          BY <4>2, <4>3
        <5> QED
          BY <5>1
      <4>5. going \in Good
        BY <4>3 DEF Good
      <4> QED
        BY <4>3, <4>4, <4>5
    <3>3. CASE IsCallable(started) /\ started.status # "0"
      <4> DEFINE back == Results(started, args)
      <4>1. going = [back EXCEPT !.status = "0"]
        BY <3>3 DEF Continued
      <4>2. Len(started.ci) >= 2 /\ Len(started.ci) \in Nat
        BY <1>3, <2>1, <3>3 DEF Good, Thread
      <4>3. started.ci # << >>
        BY <4>2
      <4>4. back \in Thread /\ back.nCcalls = N + 1 /\ Len(back.ci) = Len(started.ci) - 1
        BY <2>1, <4>3, ResultsType
      <4> HIDE DEF back
      <4>5. /\ going \in Thread /\ going.nCcalls = N + 1 /\ going.status = "0"
            /\ going.ci = back.ci
        BY <4>1, <4>4 DEF Thread
      <4> QED
        BY <4>2, <4>4, <4>5 DEF Good
    <3> QED
      BY <3>1, <3>2, <3>3
  <2> HIDE DEF going
  <2>4. /\ th' \in [Threads -> Good] /\ th'[Running] = a /\ th'[co] = going
        /\ \A l \in Threads \ {Running, co} : th'[l] = th[l]
    BY <1>1, <1>2, <1>3, <2>2, <2>3, RunningFacts DEF StackInv
  <2>5. c \in AnyCall /\ c.k = "resume" /\ c.l = co /\ c.ci = 0 /\ c.nCcalls = N
    BY <1>1, <1>3, <1>4, RunningFacts DEF CCall, AnyCall
  <2> HIDE DEF c
  <2>6. Len(th'[Running].ci) > Top.ci + 1
    BY <1>1, <1>2, <2>4, RunningFacts
  <2>7. /\ th'[c.l].nCcalls = N + 1 /\ th'[c.l].status = "0" /\ Len(th'[c.l].ci) >= c.ci
        /\ throwing' = "no" => Len(th'[c.l].ci) > c.ci
    BY <2>3, <2>4, <2>5 DEF Good, Thread
  <2>8. StackInv' /\ N' = N + 1
    <3>1. \A m \in 1..N : Ends(m) /\ m < N => th'[cstack[m].l] = th[cstack[m].l]
      BY <1>1, <1>3, <2>4, RunningFacts, WaitingKept
    <3>2. th'[Running].nCcalls = N /\ th'[Running].status = "0"
      BY <1>2, <2>4
    <3>3. Follows(c, Top)
      BY <2>5 DEF Follows
    <3> QED
      BY <1>1, <2>2, <2>4, <2>5, <2>6, <2>7, <3>1, <3>2, <3>3, RunningFacts, Pushed
  <2>9. throwing' \in {"no", "raise"} /\ bad' \in BOOLEAN
    BY <2>2 DEF Raised
  <2>10. Bounded'
    <3>1. N < LUAI_MAXCCALLS /\ N \in Nat
      BY <1>1, <1>4, <1>6, RunningFacts, CoroutineAssumption
    <3> QED
      BY <2>8, <3>1, CoroutineAssumption DEF Bounded
  <2>11. cstack' # << >>
    BY <1>1, <2>8, RunningFacts DEF N
  <2> QED
    BY <2>8, <2>9, <2>10, <2>11 DEF Inv, IdleInv, Flags
<1> QED
  BY <1>5, <1>6

LEMMA auxresumeKeeps == Inv /\ auxresume => Inv'
<1> SUFFICES ASSUME Inv, auxresume PROVE Inv'
  OBVIOUS
<1>1. InLua /\ throwing = "no"
  BY DEF auxresume, InLua
<1>2. PICK fn \in {"resume", "wrap"}, co \in Co, args \in Lists :
          LET l == Asking(fn)
              to == Refused(l)
              room == IF co = Running THEN [l EXCEPT !.stack = @ \o args] ELSE th[co]
          IN  /\ th[co].status # "none"
              /\ sent' = args
              /\ IF ~lua_checkstack(room, Len(args))
                 THEN th' = [th EXCEPT ![Running] = l] /\ throwing' = "raise"
                      /\ UNCHANGED <<cstack, bad>>
                 ELSE IF costatus(co) # "suspended"
                 THEN th' = [th EXCEPT ![Running] = to.l] /\ throwing' = Raised(to.err)
                      /\ UNCHANGED <<cstack, bad>>
                 ELSE lua_resume(co, args, l)
  BY DEF auxresume
<1>3. args \in Seq(Value) /\ sent' \in Seq(Value)
  BY <1>2, CoroutineAssumption
<1>4. CASE /\ th' = [th EXCEPT ![Running] = Asking(fn)] /\ throwing' = "raise"
           /\ UNCHANGED <<cstack, bad>>
  BY <1>1, <1>3, <1>4, RunningFacts, RefusedKeeps
<1>5. CASE /\ th' = [th EXCEPT ![Running] = Refused(Asking(fn)).l]
           /\ throwing' = Raised(Refused(Asking(fn)).err) /\ UNCHANGED <<cstack, bad>>
  <2>1. throwing' \in {"no", "raise"}
    BY <1>5 DEF Raised
  <2> QED
    BY <1>1, <1>3, <1>5, <2>1, RunningFacts, RefusedKeeps
<1>6. CASE costatus(co) = "suspended" /\ lua_resume(co, args, Asking(fn))
  BY <1>1, <1>3, <1>6, lua_resumeKeeps
<1> QED
  BY <1>2, <1>4, <1>5, <1>6
\* Calls of the same thread that are not a resume follow each other on top of n.
LEMMA SameThreadAbove ==
    ASSUME CStackInv, NEW n \in 1..N, \A m \in n + 1..N : cstack[m].k \in {"call", "handler"}
    PROVE  \A m \in n..N : cstack[m].l = cstack[n].l /\ cstack[m].ci >= cstack[n].ci
<1> DEFINE Wrong == {m \in n..N : ~(cstack[m].l = cstack[n].l /\ cstack[m].ci >= cstack[n].ci)}
<1>1. N \in Nat /\ \A m \in 1..N : cstack[m].ci \in Nat
  <2>1. N \in Nat /\ \A m \in 1..N : cstack[m] \in AnyCall
    BY DEF CStackInv, N
  <2> QED
    BY <2>1 DEF AnyCall
<1> SUFFICES ASSUME Wrong # {} PROVE FALSE
  OBVIOUS
<1>2. Wrong \in SUBSET Nat
  BY <1>1
<1>3. PICK m \in Wrong : \A j \in Wrong : m <= j
  BY <1>2, LeastNatural
<1>4. m \in n + 1..N /\ m \in 2..N /\ m - 1 \in n..N /\ m \in 1..N /\ m - 1 \in 1..N
  <2>1. m # n
    BY <1>1, <1>3
  <2> QED
    BY <1>1, <1>3, <2>1
<1>5. cstack[m - 1].l = cstack[n].l /\ cstack[m - 1].ci >= cstack[n].ci
  <2>1. m - 1 \notin Wrong
    BY <1>3, <1>4
  <2> QED
    BY <1>4, <2>1
<1>6. Follows(cstack[m], cstack[m - 1]) /\ cstack[m].k \in {"call", "handler"}
  BY <1>4 DEF CStackInv
<1>7. cstack[m].l = cstack[m - 1].l /\ cstack[m].ci >= cstack[m - 1].ci
  BY <1>1, <1>4, <1>6 DEF Follows
<1>8. cstack[m].l = cstack[n].l /\ cstack[m].ci >= cstack[n].ci
  BY <1>1, <1>4, <1>5, <1>7
<1> QED
  BY <1>3, <1>8

LEMMA ReturnKeeps == Inv /\ Return => Inv'
<1> SUFFICES ASSUME Inv, Return PROVE Inv'
  OBVIOUS
<1>1. InLua /\ throwing = "no" /\ L.ci # << >>
  BY DEF Return, InLua
<1>2. PICK vals \in Lists :
          LET l == Results(L, vals)
          IN  /\ sent' = vals
              /\ IF Len(l.ci) > Top.ci
                 THEN th' = [th EXCEPT ![Running] = l] /\ UNCHANGED <<cstack, throwing, bad>>
                 ELSE IF Top.k = "resume" THEN BackToResumer(l)
                 ELSE /\ cstack' = Pop(cstack)
                      /\ th' = [th EXCEPT ![Running] =
                                  [IF Top.k = "pcall" /\ l.ci # << >>
                                   THEN Results(l, <<"true">> \o vals) ELSE l
                                   EXCEPT !.nCcalls = @ - 1, !.errfunc = Top.errfunc]]
                      /\ throwing' = IF Top.k = "handler" THEN "throw" ELSE "no"
                      /\ UNCHANGED bad
  BY DEF Return
<1> DEFINE t == Results(L, vals)
<1>3. vals \in Seq(Value) /\ sent' \in Seq(Value)
  BY <1>2, CoroutineAssumption
<1>4. /\ t \in Thread /\ t.nCcalls = N /\ t.status = "0" /\ Len(t.ci) = Len(L.ci) - 1
      /\ Len(t.ci) >= Top.ci /\ Len(t.ci) \in Nat
  <2>1. /\ t \in Thread /\ t.nCcalls = N /\ t.status = "0" /\ Len(t.ci) = Len(L.ci) - 1
    BY <1>1, <1>3, RunningFacts, ResultsType
  <2> QED
    BY <1>1, <2>1, RunningFacts DEF Thread
<1>5. t \in Good
  BY <1>4 DEF Good
<1>6. CASE Len(t.ci) > Top.ci
  <2>1. th' = [th EXCEPT ![Running] = t] /\ UNCHANGED <<cstack, throwing, bad>>
    BY <1>2, <1>6
  <2> HIDE DEF t
  <2>2. /\ th' \in [Threads -> Good] /\ th'[Running] = t
        /\ \A l \in Threads \ {Running} : th'[l] = th[l]
    BY <1>1, <1>5, <2>1, RunningFacts DEF StackInv
  <2> QED
    BY <1>1, <1>3, <1>4, <1>6, <2>1, <2>2, RunningFacts, RunningMoves
<1>7. CASE ~(Len(t.ci) > Top.ci) /\ Top.k = "resume"
  <2>1. BackToResumer(t)
    BY <1>2, <1>7
  <2> HIDE DEF t
  <2> QED
    BY <1>1, <1>3, <1>4, <1>5, <1>7, <2>1, BackToResumerKeeps
<1>8. CASE ~(Len(t.ci) > Top.ci) /\ Top.k # "resume"
  <2> DEFINE answered == IF Top.k = "pcall" /\ t.ci # << >>
                         THEN Results(t, <<"true">> \o vals) ELSE t
             u == [answered EXCEPT !.nCcalls = @ - 1, !.errfunc = Top.errfunc]
             n == N - 1
  <2>1. /\ cstack' = SubSeq(cstack, 1, n) /\ th' = [th EXCEPT ![Running] = u]
        /\ throwing' = IF Top.k = "handler" THEN "throw" ELSE "no"
        /\ UNCHANGED bad
    BY <1>2, <1>8 DEF Pop, N
  <2>2. Len(t.ci) = Top.ci
    BY <1>1, <1>4, <1>8, RunningFacts
  <2> HIDE DEF t
  <2>3. /\ answered \in Thread /\ answered.nCcalls = N /\ answered.status = "0"
        /\ Len(answered.ci) \in Nat
        /\ Len(answered.ci) = IF Top.k = "pcall" /\ t.ci # << >> THEN Top.ci - 1 ELSE Top.ci
    <3>1. <<"true">> \o vals \in Seq(Value)
      <4>1. "true" \in Value
        BY CoroutineAssumption
      <4>2. <<"true">> \in Seq(Value)
        BY <4>1, ShortList
      <4> QED
        BY <1>3, <4>2, ConcatProperties
    <3>2. CASE Top.k = "pcall" /\ t.ci # << >>
      <4> DEFINE all == <<"true">> \o vals
                 w == Results(t, all)
      <4> HIDE DEF all
      <4>1. /\ w \in Thread /\ w.nCcalls = N /\ w.status = "0" /\ Len(w.ci) = Top.ci - 1
        <5>1. all \in Seq(Value)
          BY <3>1 DEF all
        <5>2. /\ w \in Thread /\ w.nCcalls = t.nCcalls /\ w.status = t.status
              /\ Len(w.ci) = Len(t.ci) - 1
          BY <1>4, <3>2, <5>1, ResultsType
        <5> QED
          BY <1>4, <2>2, <5>2
      <4>2. Len(w.ci) \in Nat
        BY <4>1 DEF Thread
      <4>3. answered = w
        BY <3>2 DEF all
      <4> QED
        BY <3>2, <4>1, <4>2, <4>3
    <3>3. CASE ~(Top.k = "pcall" /\ t.ci # << >>)
      <4>1. answered = t
        BY <3>3
      <4> QED
        BY <1>4, <2>2, <3>3, <4>1
    <3> QED
      BY <3>2, <3>3
  <2> HIDE DEF answered
  <2>4. u \in Good /\ u.nCcalls = n /\ u.status = "0" /\ u.ci = answered.ci
    <3>1. answered.nCcalls - 1 \in Nat /\ Top.errfunc \in BOOLEAN
      BY <1>1, <2>3, RunningFacts DEF AnyCall
    <3>2. u \in Thread
      BY <2>3, <3>1 DEF Thread
    <3>3. u.nCcalls = n /\ u.status = "0" /\ u.ci = answered.ci
      BY <2>3 DEF Thread
    <3> QED
      BY <3>2, <3>3 DEF Good
  <2> HIDE DEF u
  <2>5. /\ th' \in [Threads -> Good] /\ th'[Running] = u
        /\ \A l \in Threads \ {Running} : th'[l] = th[l]
    BY <1>1, <2>1, <2>4, RunningFacts DEF StackInv
  <2>6. ASSUME NEW m \in 1..N, Ends(m), m < n PROVE th'[cstack[m].l] = th[cstack[m].l]
    <3>1. m < N
      BY <1>1, <2>6, RunningFacts
    <3> QED
      BY <1>1, <2>5, <2>6, <3>1, RunningFacts, WaitingKept
  <2>7. n \in 0..N - 1 /\ n \in Nat /\ n < N
    BY <1>1, RunningFacts
  <2>8. ASSUME n > 0
        PROVE  /\ th'[cstack[n].l].nCcalls = n /\ th'[cstack[n].l].status = "0"
               /\ Len(th'[cstack[n].l].ci) >= cstack[n].ci
               /\ throwing' = "no" => Len(th'[cstack[n].l].ci) > cstack[n].ci
    <3>1. Follows(Top, cstack[n]) /\ cstack[n].ci \in Nat
      <4>1. N \in 2..N /\ n \in 1..N /\ cstack[n] \in AnyCall
        BY <1>1, <2>7, <2>8, RunningFacts DEF StackInv, CStackInv, N
      <4> QED
        BY <1>1, <4>1, RunningFacts DEF StackInv, CStackInv, AnyCall
    <3>2. cstack[n].l = Running /\ Top.k \in {"call", "pcall", "handler"}
      BY <1>1, <1>8, <3>1, RunningFacts DEF Follows, AnyCall
    <3>3. Top.k = "pcall" => Top.ci > cstack[n].ci + 1 /\ Len(answered.ci) >= Top.ci - 1
      BY <1>1, <1>8, <2>3, <3>1, RunningFacts DEF Follows
    <3>4. /\ Top.k = "call" => Top.ci > cstack[n].ci /\ Len(answered.ci) = Top.ci
          /\ Top.k = "handler" => Top.ci >= cstack[n].ci /\ Len(answered.ci) = Top.ci
      BY <1>8, <2>3, <3>1 DEF Follows
    <3>5. /\ Len(answered.ci) >= cstack[n].ci
          /\ Top.k # "handler" => Len(answered.ci) > cstack[n].ci
      <4>1. Top.ci \in Nat
        BY <1>1, RunningFacts
      <4>2. CASE Top.k = "pcall"
        BY <2>3, <3>1, <3>3, <4>1, <4>2, OneLess
      <4>3. CASE Top.k # "pcall"
        BY <2>3, <3>1, <3>2, <3>4, <4>1, <4>3
      <4> QED
        BY <4>2, <4>3
    <3> QED
      BY <2>1, <2>4, <2>5, <3>2, <3>5
  <2>9. StackInv' /\ N' = n /\ (n = 0 <=> cstack' = << >>)
    <3> HIDE DEF n
    <3> QED
      BY <1>1, <2>1, <2>5, <2>6, <2>7, <2>8, RunningFacts, Cut
  <2>10. ASSUME n = 0 PROVE throwing' = "no" /\ th'[Main].nCcalls = 0 /\ th'[Main].ci = << >>
    <3>1. N = 1
      BY <1>1, <2>10, RunningFacts
    <3>2. Top.k = "pcall" /\ Running = Main /\ Top.ci = 0
      BY <1>1, <3>1, RunningFacts DEF StackInv, CStackInv
    <3>3. t.ci = << >>
      BY <1>4, <2>2, <3>2 DEF Thread
    <3>4. answered = t
      BY <3>3 DEF answered
    <3> QED
      BY <2>1, <2>4, <2>5, <2>10, <3>2, <3>3, <3>4
  <2>11. Bounded'
    <3>1. N <= LUAI_MAXCCALLS + ErrorCalls /\ N \in Nat
      BY <1>1, RunningFacts DEF Inv, Bounded
    <3>2. N' < LUAI_MAXCCALLS + ErrorCalls /\ N' \in Nat
      BY <2>7, <2>9, <3>1, CoroutineAssumption
    <3> QED
      BY <3>2, CoroutineAssumption DEF Bounded
  <2>12. Flags'
    BY <1>1, <1>3, <2>1, RunningFacts DEF Flags
  <2> QED
    BY <2>9, <2>10, <2>11, <2>12 DEF Inv, IdleInv
<1> QED
  BY <1>6, <1>7, <1>8
\* The protected call an error goes to is the last one, and there is one.
LEMMA LastProtected ==
    ASSUME Inv, N > 0, NEW n, n = CHOOSE i \in Protected : \A m \in Protected : m <= i
    PROVE  /\ n \in 1..N /\ cstack[n].k \in {"pcall", "resume"}
           /\ \A m \in n + 1..N : cstack[m].k \in {"call", "handler"}
<1>1. N \in Nat /\ DOMAIN cstack = 1..N /\ \A m \in 1..N : cstack[m] \in AnyCall
  BY DEF Inv, StackInv, CStackInv, N
<1>2. Protected \in SUBSET (1..N) /\ 1 \in Protected
  BY <1>1 DEF Protected, Inv, StackInv, CStackInv
<1>3. \E i \in Protected : \A m \in Protected : m <= i
  <2>1. PICK i \in Protected : \A m \in Protected : i >= m
    BY <1>1, <1>2, GreatestInRange
  <2>2. \A m \in Protected : m <= i
    BY <1>2, <2>1
  <2> QED
    BY <2>2
<1>4. n \in Protected /\ \A m \in Protected : m <= n
  BY <1>3
<1>5. n \in 1..N /\ cstack[n].k \in {"pcall", "resume"}
  BY <1>2, <1>4 DEF Protected
<1>6. ASSUME NEW m \in n + 1..N PROVE cstack[m].k \in {"call", "handler"}
  <2>1. m \in 1..N /\ ~(m <= n)
    BY <1>1, <1>5
  <2>2. m \notin Protected
    BY <1>4, <2>1
  <2> QED
    BY <1>1, <2>1, <2>2 DEF Protected, AnyCall
<1> QED
  BY <1>5, <1>6

LEMMA luaD_throwKeeps == Inv /\ luaD_throw => Inv'
<1> SUFFICES ASSUME Inv, luaD_throw PROVE Inv'
  OBVIOUS
<1> DEFINE n == CHOOSE i \in Protected : \A m \in Protected : m <= i
           at == cstack[n]
           low == n - 1
<1>1. throwing = "throw"
  BY DEF luaD_throw
<1>2. /\ n \in 1..N /\ at.k \in {"pcall", "resume"}
      /\ \A m \in n + 1..N : cstack[m].k \in {"call", "handler"}
  BY <1>1, RunningFacts, LastProtected
<1>3. /\ cstack' = SubSeq(cstack, 1, low)
      /\ IF at.k = "resume"
         THEN LET to == Refused(th[cstack[low].l])
              IN  /\ th' = [th EXCEPT ![at.l].status = "error", ![at.l].nCcalls = @ - 1,
                                      ![at.l].stack = << >>, ![cstack[low].l] = to.l]
                  /\ throwing' = Raised(to.err)
         ELSE LET l == Restored(th[at.l], at)
              IN  /\ th' = [th EXCEPT ![at.l] = IF l.ci = << >> THEN l
                                                ELSE Results(l, <<"false", "error">>)]
                  /\ throwing' = "no"
      /\ UNCHANGED <<bad, sent>>
  BY DEF luaD_throw
<1> HIDE DEF n
<1>4. /\ n \in Nat /\ low \in 0..N - 1 /\ low \in Nat /\ low < N /\ low < n
      /\ at \in AnyCall /\ CStackInv /\ cstack \in Seq(AnyCall)
  <2>1. n \in Nat /\ low \in 0..N - 1 /\ low \in Nat /\ low < N /\ low < n
    BY <1>1, <1>2, RunningFacts
  <2>2. CStackInv /\ cstack \in Seq(AnyCall)
    BY DEF Inv, StackInv, CStackInv
  <2> QED
    BY <1>2, <2>1, <2>2 DEF N
<1>5. at.l = Running /\ Top.ci >= at.ci /\ at.ci \in Nat /\ at.errfunc \in BOOLEAN /\ at.nCcalls = low
  <2>1. N \in n..N
    BY <1>1, <1>2, RunningFacts
  <2>2. cstack[N].l = at.l /\ cstack[N].ci >= at.ci
    BY <1>2, <1>4, <2>1, SameThreadAbove
  <2>3. at.nCcalls = low
    BY <1>2, <1>4 DEF CStackInv
  <2> QED
    BY <1>1, <1>4, <2>2, <2>3, RunningFacts DEF AnyCall
<1> HIDE DEF at
<1>6. ASSUME NEW m \in 1..N, Ends(m), m < low
      PROVE  Waiting(m) /\ cstack[m].l \in Threads /\ cstack[m].l # Running
  <2>1. m < N
    BY <1>1, <1>4, <1>6, RunningFacts
  <2>2. cstack[m] \in AnyCall
    BY <1>4 DEF N
  <2> QED
    BY <1>1, <1>6, <2>1, <2>2, RunningFacts, RunningThread DEF AnyCall
<1>7. CASE at.k = "resume"
  <2> DEFINE caller == cstack[low].l
             r == Refused(th[caller])
             dead == [L EXCEPT !.status = "error", !.nCcalls = @ - 1, !.stack = << >>]
  <2>1. low \in 1..N /\ low > 0 /\ Ends(low) /\ cstack[low] \in AnyCall
    <3>1. n # 1
      BY <1>1, <1>7, RunningFacts DEF at, StackInv, CStackInv
    <3>2. low \in 1..N /\ low > 0 /\ low + 1 = n
      BY <1>1, <1>2, <1>4, <3>1, RunningFacts
    <3> QED
      BY <1>4, <1>7, <3>2 DEF Ends, at, N
  <2>2. /\ caller \in Threads /\ caller # Running /\ th[caller] \in Thread
        /\ th[caller].nCcalls = low /\ th[caller].status = "0"
        /\ Len(th[caller].ci) > cstack[low].ci + 1 /\ cstack[low].ci \in Nat
        /\ th[caller].ci # << >> /\ Len(th[caller].ci) \in Nat
    <3>1. StackInv /\ N > 0
      BY <1>1, RunningFacts
    <3> HIDE DEF low
    <3> QED
      BY <1>4, <2>1, <3>1, WaitingThread
  <2>3. th[caller].ci # << >> /\ Len(th[caller].ci) \in Nat
    BY <2>2
  <2>4. /\ r.l \in Good /\ r.l.nCcalls = low /\ r.l.status = "0"
        /\ Len(r.l.ci) >= Len(th[caller].ci) - 1 /\ r.err \in BOOLEAN
    BY <2>2, <2>3, NewThreadType, AnswerType
  <2>5. dead \in Good
    <3>1. L.nCcalls - 1 \in Nat
      BY <1>1, RunningFacts
    <3>2. dead \in Thread /\ dead.status = "error"
      BY <1>1, <3>1, RunningFacts, NewThreadType DEF Thread
    <3> QED
      BY <3>2 DEF Good
  <2>6. /\ th' = [th EXCEPT ![Running] = dead, ![caller] = r.l]
        /\ throwing' = Raised(r.err)
    <3>1. /\ th' = [th EXCEPT ![Running].status = "error", ![Running].nCcalls = @ - 1,
                              ![Running].stack = << >>, ![caller] = r.l]
          /\ throwing' = Raised(r.err)
      BY <1>3, <1>5, <1>7
    <3> HIDE DEF r, caller
    <3> QED
      BY <1>1, <3>1, RunningFacts DEF StackInv
  <2> HIDE DEF r, caller, dead
  <2>7. /\ th' \in [Threads -> Good] /\ th'[caller] = r.l
        /\ \A l \in Threads \ {Running, caller} : th'[l] = th[l]
    BY <1>1, <2>2, <2>4, <2>5, <2>6, RunningFacts DEF StackInv
  <2>8. ASSUME NEW m \in 1..N, Ends(m), m < low PROVE th'[cstack[m].l] = th[cstack[m].l]
    <3>1. cstack[m].l # caller
      BY <1>4, <1>6, <2>2, <2>8 DEF Waiting
    <3> QED
      BY <1>6, <2>7, <2>8, <3>1
  <2>9. /\ th'[cstack[low].l].nCcalls = low /\ th'[cstack[low].l].status = "0"
        /\ Len(th'[cstack[low].l].ci) >= cstack[low].ci
        /\ Len(th'[cstack[low].l].ci) > cstack[low].ci
    <3>1. th'[cstack[low].l] = r.l
      BY <2>7 DEF caller
    <3>2. Len(r.l.ci) \in Nat
      BY <2>4 DEF Good, Thread
    <3>3. Len(r.l.ci) >= Len(th[caller].ci) - 1
      BY <2>4
    <3>4. Len(th[caller].ci) > cstack[low].ci + 1 /\ cstack[low].ci \in Nat
      BY <2>2
    <3>5. Len(r.l.ci) >= cstack[low].ci /\ Len(r.l.ci) > cstack[low].ci
      BY <2>3, <3>2, <3>3, <3>4, OneLess
    <3> QED
      BY <2>4, <3>1, <3>5
  <2>10. StackInv' /\ N' = low /\ cstack' # << >>
    <3>1. low # 0
      BY <2>1
    <3> HIDE DEF low
    <3> QED
      BY <1>1, <1>3, <1>4, <2>7, <2>8, <2>9, <3>1, RunningFacts, Cut
  <2>11. throwing' \in {"no", "raise"}
    BY <2>4, <2>6 DEF Raised
  <2>12. Bounded'
    <3>1. N <= LUAI_MAXCCALLS + ErrorCalls /\ N \in Nat
      BY <1>1, RunningFacts DEF Inv, Bounded
    <3>2. N' < LUAI_MAXCCALLS + ErrorCalls /\ N' \in Nat
      BY <1>4, <2>10, <3>1, CoroutineAssumption
    <3> QED
      BY <3>2, CoroutineAssumption DEF Bounded
  <2>13. Flags'
    BY <1>1, <1>3, <2>11, RunningFacts DEF Flags
  <2> QED
    BY <2>10, <2>12, <2>13 DEF Inv, IdleInv
<1>8. CASE at.k = "pcall"
  <2> DEFINE t == Restored(L, at)
             u == IF t.ci = << >> THEN t ELSE Results(t, <<"false", "error">>)
  <2>1. th' = [th EXCEPT ![Running] = u] /\ throwing' = "no" /\ UNCHANGED <<bad, sent>>
    <3>1. L = th[Running]
      BY <1>1, RunningFacts
    <3> QED
      BY <1>3, <1>5, <1>8, <3>1
  <2>2. t \in Thread /\ t.nCcalls = low /\ t.status = "0" /\ Len(t.ci) = at.ci
    <3> DEFINE ci == SubSeq(L.ci, 1, at.ci)
    <3>1. at.ci <= Len(L.ci)
      BY <1>1, <1>5, RunningFacts
    <3>2. ci \in Seq(Frame) /\ Len(ci) = at.ci
      BY <1>1, <1>5, <3>1, RunningFacts
    <3>3. t = [L EXCEPT !.ci = ci, !.nCcalls = at.nCcalls, !.errfunc = at.errfunc]
      BY DEF Restored
    <3> HIDE DEF ci, t
    <3>4. t \in Thread /\ t.nCcalls = at.nCcalls /\ t.status = L.status /\ t.ci = ci
      BY <1>1, <1>4, <1>5, <3>2, <3>3, RunningFacts DEF Thread
    <3> QED
      BY <1>1, <1>5, <3>2, <3>4, RunningFacts
  <2> HIDE DEF t
  <2>3. t.ci = << >> <=> at.ci = 0
    BY <1>5, <2>2 DEF Thread
  <2>4. /\ u \in Good /\ u.nCcalls = low /\ u.status = "0"
        /\ at.ci = 0 => u.ci = << >>
        /\ at.ci > 0 => Len(u.ci) = at.ci - 1
    <3>1. CASE t.ci = << >>
      <4>1. u = t
        BY <3>1
      <4> QED
        BY <1>5, <2>2, <2>3, <3>1, <4>1 DEF Good
    <3>2. CASE t.ci # << >>
      <4> DEFINE failed == <<"false", "error">>
                 w == Results(t, failed)
      <4>1. failed \in Seq(Value)
        <5>1. "false" \in Value /\ "error" \in Value
          BY CoroutineAssumption
        <5> QED
          BY <5>1, ShortList
      <4>2. u = w
        BY <3>2
      <4> HIDE DEF failed
      <4>3. /\ w \in Thread /\ w.nCcalls = t.nCcalls /\ w.status = t.status
            /\ Len(w.ci) = Len(t.ci) - 1
        BY <2>2, <3>2, <4>1, ResultsType
      <4>4. w \in Good
        BY <2>2, <4>3 DEF Good
      <4> HIDE DEF u, w
      <4> QED
        BY <1>5, <2>2, <2>3, <3>2, <4>2, <4>3, <4>4
    <3> QED
      BY <3>1, <3>2
  <2> HIDE DEF u
  <2>5. /\ th' \in [Threads -> Good] /\ th'[Running] = u
        /\ \A l \in Threads \ {Running} : th'[l] = th[l]
    BY <1>1, <2>1, <2>4, RunningFacts DEF StackInv
  <2>6. ASSUME NEW m \in 1..N, Ends(m), m < low PROVE th'[cstack[m].l] = th[cstack[m].l]
    BY <1>6, <2>5, <2>6
  <2>7. ASSUME low > 0
        PROVE  /\ th'[cstack[low].l].nCcalls = low /\ th'[cstack[low].l].status = "0"
               /\ Len(th'[cstack[low].l].ci) >= cstack[low].ci
               /\ Len(th'[cstack[low].l].ci) > cstack[low].ci
    <3>1. n \in 2..N /\ low \in 1..N
      BY <1>1, <1>2, <1>4, <2>7, RunningFacts
    <3>2. Follows(at, cstack[low]) /\ cstack[low].ci \in Nat
      <4>1. cstack[low] \in AnyCall
        BY <1>4, <3>1 DEF N
      <4> QED
        BY <1>4, <3>1, <4>1 DEF CStackInv, AnyCall, at
    <3>3. cstack[low].l = Running /\ at.ci > cstack[low].ci + 1
      BY <1>5, <1>8, <3>2 DEF Follows
    <3>4. Len(u.ci) = at.ci - 1 /\ Len(u.ci) \in Nat
      BY <1>5, <2>4, <3>2, <3>3 DEF Good, Thread
    <3>5. Len(u.ci) >= cstack[low].ci /\ Len(u.ci) > cstack[low].ci
      BY <1>5, <3>2, <3>3, <3>4, OneLess
    <3> QED
      BY <2>4, <2>5, <3>3, <3>5
  <2>8. StackInv' /\ N' = low /\ (low = 0 <=> cstack' = << >>)
    <3> HIDE DEF low
    <3> QED
      BY <1>1, <1>3, <1>4, <2>5, <2>6, <2>7, RunningFacts, Cut
  <2>9. ASSUME low = 0 PROVE throwing' = "no" /\ th'[Main].nCcalls = 0 /\ th'[Main].ci = << >>
    <3>1. n = 1
      BY <1>4, <2>9
    <3>2. at.l = Main /\ at.ci = 0
      BY <1>1, <1>4, <3>1, RunningFacts DEF CStackInv, at
    <3> QED
      BY <1>5, <2>1, <2>4, <2>5, <2>9, <3>2
  <2>10. Bounded'
    <3>1. N <= LUAI_MAXCCALLS + ErrorCalls /\ N \in Nat
      BY <1>1, RunningFacts DEF Inv, Bounded
    <3>2. N' < LUAI_MAXCCALLS + ErrorCalls /\ N' \in Nat
      BY <1>4, <2>8, <3>1, CoroutineAssumption
    <3> QED
      BY <3>2, CoroutineAssumption DEF Bounded
  <2>11. Flags'
    BY <1>1, <2>1, RunningFacts DEF Flags
  <2> QED
    BY <2>8, <2>9, <2>10, <2>11 DEF Inv, IdleInv
<1> QED
  BY <1>2, <1>7, <1>8

-----------------------------------------------------------------------------
(* The theorems.                                                           *)

LEMMA StepKeeps == Inv /\ [Next]_vars => Inv'
<1> SUFFICES ASSUME Inv, [Next]_vars PROVE Inv'
  OBVIOUS
<1>1. CASE Next
  BY <1>1, drawKeeps, CallKeeps, CallMetamethodKeeps, luaB_pcallKeeps, luaB_cocreateKeeps,
     auxresumeKeeps, lua_yieldKeeps, ReturnKeeps, luaB_errorKeeps, luaG_errormsgKeeps,
     luaD_throwKeeps DEF Next
<1>2. CASE UNCHANGED vars
  BY <1>2 DEF vars, Inv, StackInv, CStackInv, RunningInv, IdleInv, Bounded, Flags, N, Ends,
              Waiting
<1> QED
  BY <1>1, <1>2

LEMMA InvHolds == Spec => []Inv
  BY Begins, StepKeeps, PTL DEF Spec

\* nCcalls is the depth of the one C stack all coroutines share, whatever they resume, yield
\* and raise, so that the stack never grows beyond the limit and the calls kept for errors
\* (lua_setlevel() and luaD_call()).
THEOREM CallsStayCounted == Spec => []CallsCounted
<1>1. Inv => CallsCounted
  <2> SUFFICES ASSUME Inv PROVE CallsCounted
    OBVIOUS
  <2>1. Len(cstack) <= LUAI_MAXCCALLS + ErrorCalls
    BY DEF Inv, Bounded, N
  <2>2. L.nCcalls = Len(cstack)
    <3>1. CASE cstack = << >>
      <4>1. L = th[Main] /\ th[Main].nCcalls = 0 /\ Len(cstack) = 0
        BY <3>1 DEF L, Running, Inv, IdleInv
      <4> QED
        BY <4>1
    <3>2. CASE cstack # << >>
      <4>1. N > 0
        BY <3>2 DEF Inv, StackInv, CStackInv, N
      <4> QED
        BY <4>1, RunningThread DEF Inv, N
    <3> QED
      BY <3>1, <3>2
  <2> QED
    BY <2>1, <2>2 DEF CallsCounted
<1> QED
  BY <1>1, InvHolds, PTL

\* The threads, their frames and the calls keep their types: an error never restores more
\* frames than its thread has (luaD_pcall()), and no count of calls falls below zero.
THEOREM TypesStayCorrect == Spec => []TypeOK
<1>1. Inv => TypeOK
  <2> SUFFICES ASSUME Inv PROVE TypeOK
    OBVIOUS
  <2>1. th \in [Co \cup {Main} -> Thread]
    BY DEF Inv, StackInv, Good, Threads
  <2>2. cstack \in Seq(AnyCall)
    BY DEF Inv, StackInv, CStackInv
  <2>3. \A n \in DOMAIN cstack : cstack[n] \in AnyCall
    BY <2>2
  <2> QED
    BY <2>1, <2>3 DEF TypeOK, Inv, Flags, AnyCall, Threads
<1> QED
  BY <1>1, InvHolds, PTL

-----------------------------------------------------------------------------
(* The frames.                                                             *)

OnStack(l) == \E n \in 1..N : cstack[n].l = l

\* A coroutine that does not run has no frames of functions to go on with, or left them in
\* yield(); its handler is set again when it begins.  What an error left is never used.
OffInv(t) ==
    /\ t.status = "0" => t.ci = << >>
    /\ t.status # "error" => ~t.errfunc
    /\ t.status = "yield" => t.ci[1] = "Lua"

\* n is the protected call that errors in the m-th call go to.
Rules(n, m) ==
    /\ n \in 1..m /\ cstack[n].k \in {"pcall", "resume"}
    /\ \A i \in n + 1..m : cstack[i].k \in {"call", "handler"}
WithHandler(n) ==
    LET at == cstack[n]
    IN  at.k = "pcall" /\ at.ci > 0 /\ th[at.l].ci[at.ci] = "xpcall"

\* The n-th call goes on in a frame of Lua, once it has one, and a resume begins the frames
\* and the calls of its thread.
CallInv(n) ==
    LET at == cstack[n]
        l == th[at.l]
    IN  /\ Len(l.ci) > at.ci => l.ci[at.ci + 1] = "Lua"
        /\ at.k = "resume" => l.baseCcalls = n /\ at.ci = 0

\* The handlers of a thread when the m-th call is its last, and what the call above restores.
HandlerInv(m) ==
    \A n \in 1..N : Rules(n, m) =>
        /\ Ends(m) => th[cstack[m].l].errfunc = WithHandler(n)
        /\ m < N /\ cstack[m + 1].k # "resume" => cstack[m + 1].errfunc = WithHandler(n)

FrameInv ==
    /\ ~bad /\ th[Main].baseCcalls = 0
    /\ \A co \in Co : ~OnStack(co) => OffInv(th[co])
    /\ \A n \in 1..N : CallInv(n) /\ HandlerInv(n)

-----------------------------------------------------------------------------
(* The threads of the C stack.                                             *)

\* Every call is of the thread of a last one, which is above it and has its frames above.
HasEnd ==
    \A n \in 1..N : \E m \in n..N :
        Ends(m) /\ cstack[m].l = cstack[n].l /\ cstack[n].ci <= cstack[m].ci

LEMMA StackHasEnd == StackInv => HasEnd
<1> SUFFICES ASSUME StackInv, NEW n \in 1..N
             PROVE  \E m \in n..N :
                        Ends(m) /\ cstack[m].l = cstack[n].l /\ cstack[n].ci <= cstack[m].ci
  BY DEF HasEnd
<1>1. CStackInv /\ N \in Nat /\ \A m \in 1..N : cstack[m] \in AnyCall /\ cstack[m].ci \in Nat
  <2>1. CStackInv /\ N \in Nat /\ \A m \in 1..N : cstack[m] \in AnyCall
    BY DEF StackInv, CStackInv, N
  <2> QED
    BY <2>1 DEF AnyCall
<1> DEFINE Last1 == {m \in n..N : Ends(m)}
<1>2. Last1 \in SUBSET Nat /\ N \in Last1
  BY <1>1 DEF Ends
<1>3. PICK m \in Last1 : \A j \in Last1 : m <= j
  BY <1>2, LeastNatural
<1>4. m \in n..N /\ m \in 1..N /\ Ends(m)
  BY <1>1, <1>3
<1>5. ASSUME NEW j \in n + 1..m PROVE cstack[j].k # "resume"
  <2>1. j - 1 \in n..N /\ j - 1 \in 1..N /\ ~(m <= j - 1) /\ j - 1 + 1 = j
    BY <1>1, <1>4
  <2>2. ~Ends(j - 1)
    BY <1>3, <2>1
  <2> QED
    BY <2>1, <2>2 DEF Ends
<1> DEFINE Wrong == {j \in n..m : ~(cstack[j].l = cstack[n].l /\ cstack[n].ci <= cstack[j].ci)}
<1>6. Wrong = {}
  <2> SUFFICES ASSUME Wrong # {} PROVE FALSE
    OBVIOUS
  <2>1. Wrong \in SUBSET Nat
    BY <1>1, <1>4
  <2>2. PICK j \in Wrong : \A i \in Wrong : j <= i
    BY <2>1, LeastNatural
  <2>3. j # n
    BY <1>1, <2>2
  <2>4. j \in n + 1..m /\ j - 1 \in n..m /\ j \in 2..N /\ j \in 1..N /\ j - 1 \in 1..N
        /\ ~(j <= j - 1)
    BY <1>1, <1>4, <2>2, <2>3
  <2>5. j - 1 \notin Wrong
    BY <2>2, <2>4
  <2>6. cstack[j - 1].l = cstack[n].l /\ cstack[n].ci <= cstack[j - 1].ci
    BY <2>4, <2>5
  <2>7. cstack[j].k # "resume" /\ Follows(cstack[j], cstack[j - 1])
    BY <1>1, <1>5, <2>4 DEF CStackInv
  <2>8. cstack[j].l = cstack[j - 1].l /\ cstack[j].ci >= cstack[j - 1].ci
    <3>1. cstack[j].k \in {"call", "pcall", "handler"} /\ cstack[j].ci \in Nat
          /\ cstack[j - 1].ci \in Nat
      BY <1>1, <2>4, <2>7 DEF AnyCall
    <3> QED
      BY <2>7, <3>1 DEF Follows
  <2>9. cstack[j].l = cstack[n].l /\ cstack[n].ci <= cstack[j].ci
    <3>1. cstack[j].ci \in Nat /\ cstack[j - 1].ci \in Nat /\ cstack[n].ci \in Nat
      BY <1>1, <2>4
    <3> QED
      BY <2>6, <2>8, <3>1
  <2> QED
    BY <2>2, <2>9
<1>7. m \notin Wrong /\ m \in n..m
  BY <1>1, <1>4, <1>6
<1> QED
  BY <1>4, <1>7

\* The last call of a thread is the only one that ends its calls, and is above all others.
Nested ==
    \A m, n \in 1..N : Ends(m) /\ cstack[n].l = cstack[m].l =>
        n <= m /\ cstack[n].ci <= cstack[m].ci

LEMMA EndCounts ==
    ASSUME StackInv, NEW m \in 1..N, Ends(m)
    PROVE  th[cstack[m].l].nCcalls = m
<1>1. N \in Nat
  BY DEF StackInv, CStackInv, N
<1>2. CASE m = N
  BY <1>1, <1>2 DEF StackInv, RunningInv
<1>3. CASE m < N
  BY <1>3 DEF StackInv, Waiting
<1> QED
  BY <1>1, <1>2, <1>3

LEMMA StackIsNested == StackInv => Nested
<1> SUFFICES ASSUME StackInv, NEW m \in 1..N, NEW n \in 1..N, Ends(m),
                    cstack[n].l = cstack[m].l
             PROVE  n <= m /\ cstack[n].ci <= cstack[m].ci
  BY DEF Nested
<1>1. PICK j \in n..N : Ends(j) /\ cstack[j].l = cstack[n].l /\ cstack[n].ci <= cstack[j].ci
  BY StackHasEnd DEF HasEnd
<1>2. N \in Nat /\ j \in 1..N
  BY <1>1 DEF StackInv, CStackInv, N
<1>3. th[cstack[m].l].nCcalls = m /\ th[cstack[j].l].nCcalls = j
  BY <1>1, <1>2, EndCounts
<1>4. j = m
  BY <1>1, <1>3
<1> QED
  BY <1>1, <1>2, <1>4

\* A thread on the C stack is not dead, and has a frame but when an error left it without.
LEMMA OnStackRuns ==
    ASSUME StackInv, NEW l, OnStack(l)
    PROVE  /\ th[l].status = "0" /\ l \in Threads
           /\ throwing = "no" => Len(th[l].ci) > 0 /\ th[l].ci # << >>
<1>1. PICK n \in 1..N : cstack[n].l = l
  BY DEF OnStack
<1>2. PICK m \in n..N : Ends(m) /\ cstack[m].l = l
  BY <1>1, StackHasEnd DEF HasEnd
<1>3. N \in Nat /\ m \in 1..N /\ cstack[m] \in AnyCall
  BY <1>2 DEF StackInv, CStackInv, N
<1>4. l \in Threads /\ cstack[m].ci \in Nat
  BY <1>2, <1>3 DEF AnyCall
<1>5. /\ th[l].status = "0"
      /\ throwing = "no" => Len(th[l].ci) > cstack[m].ci
  <2>1. CASE m = N
    BY <1>2, <1>3, <2>1 DEF StackInv, RunningInv
  <2>2. CASE m < N
    <3>1. Waiting(m)
      BY <1>2, <1>3, <2>2 DEF StackInv
    <3>2. th[l] \in Thread
      BY <1>4 DEF StackInv, Good
    <3>3. Len(th[l].ci) \in Nat
      BY <3>2 DEF Thread
    <3> QED
      BY <1>2, <1>4, <3>1, <3>3 DEF Waiting
  <2> QED
    BY <1>3, <2>1, <2>2
<1>6. throwing = "no" => Len(th[l].ci) > 0 /\ th[l].ci # << >>
  <2>1. th[l] \in Thread
    BY <1>4 DEF StackInv, Good
  <2>2. Len(th[l].ci) \in Nat
    BY <2>1 DEF Thread
  <2> QED
    BY <1>4, <1>5, <2>2
<1> QED
  BY <1>4, <1>5, <1>6

\* The frames of the n-th call are there.
HasFrames == \A n \in 1..N : Len(th[cstack[n].l].ci) >= cstack[n].ci

LEMMA StackHasFrames == StackInv => HasFrames
<1> SUFFICES ASSUME StackInv, NEW n \in 1..N PROVE Len(th[cstack[n].l].ci) >= cstack[n].ci
  BY DEF HasFrames
<1>1. PICK m \in n..N : Ends(m) /\ cstack[m].l = cstack[n].l /\ cstack[n].ci <= cstack[m].ci
  BY StackHasEnd DEF HasEnd
<1>2. N \in Nat /\ m \in 1..N /\ cstack[m] \in AnyCall /\ cstack[n] \in AnyCall
  BY <1>1 DEF StackInv, CStackInv, N
<1>3. cstack[m].ci \in Nat /\ cstack[n].ci \in Nat /\ th[cstack[m].l] \in Thread
  BY <1>2 DEF AnyCall, StackInv, Good
<1>4. Len(th[cstack[m].l].ci) \in Nat
  BY <1>3 DEF Thread
<1>5. Len(th[cstack[m].l].ci) >= cstack[m].ci
  <2>1. CASE m = N
    BY <1>2, <2>1 DEF StackInv, RunningInv
  <2>2. CASE m < N
    <3>1. Waiting(m)
      BY <1>1, <1>2, <2>2 DEF StackInv
    <3> QED
      BY <1>3, <1>4, <3>1 DEF Waiting
  <2> QED
    BY <1>2, <2>1, <2>2
<1> QED
  BY <1>1, <1>3, <1>4, <1>5

-----------------------------------------------------------------------------
(* What the steps keep.                                                    *)

\* The first k frames of a thread are those it had, and the next may be one of Lua.
SameFrames(new, old, k) ==
    \A i \in 1..k : i <= Len(new.ci) =>
        new.ci[i] = IF i <= Len(old.ci) THEN old.ci[i] ELSE "Lua"

\* A call that stays on the C stack, with the frames up to its own.
LEMMA CallKept ==
    ASSUME Inv, Inv', NEW n \in 1..N, n \in 1..N', cstack'[n] = cstack[n], CallInv(n),
           th'[cstack[n].l].baseCcalls = th[cstack[n].l].baseCcalls,
           SameFrames(th'[cstack[n].l], th[cstack[n].l], cstack[n].ci + 1)
    PROVE  CallInv(n)' /\ WithHandler(n)' = WithHandler(n)
<1> DEFINE at == cstack[n]
           new == th'[at.l]
           old == th[at.l]
<1>1. at \in AnyCall /\ at.ci \in Nat /\ at.l \in Threads
  <2>1. at \in AnyCall
    BY DEF Inv, StackInv, CStackInv, N
  <2> QED
    BY <2>1 DEF AnyCall
<1>2. new \in Thread /\ old \in Thread
  BY <1>1 DEF Inv, StackInv, Good
<1> HIDE DEF new, old
<1>3. Len(new.ci) \in Nat /\ Len(old.ci) \in Nat
  BY <1>2 DEF Thread
<1> USE DEF new, old
<1>4. Len(new.ci) >= at.ci /\ Len(old.ci) >= at.ci
  <2>1. (StackInv => HasFrames)'
    BY StackHasFrames, PTL
  <2>2. HasFrames /\ HasFrames'
    BY <2>1, StackHasFrames DEF Inv
  <2>3. Len(th'[cstack'[n].l].ci) >= cstack'[n].ci
    BY <2>2 DEF HasFrames
  <2> QED
    BY <2>2, <2>3 DEF HasFrames
<1>5. CallInv(n)'
  <2> SUFFICES /\ Len(new.ci) > at.ci => new.ci[at.ci + 1] = "Lua"
               /\ at.k = "resume" => new.baseCcalls = n /\ at.ci = 0
    BY DEF CallInv
  <2>1. ASSUME Len(new.ci) > at.ci PROVE new.ci[at.ci + 1] = "Lua"
    <3>1. at.ci + 1 \in 1..at.ci + 1 /\ at.ci + 1 <= Len(new.ci)
      BY <1>1, <1>3, <2>1
    <3>2. new.ci[at.ci + 1] = IF at.ci + 1 <= Len(old.ci) THEN old.ci[at.ci + 1] ELSE "Lua"
      BY <3>1 DEF SameFrames
    <3> QED
      BY <1>1, <1>3, <3>2 DEF CallInv
  <2> QED
    BY <2>1 DEF CallInv
<1>6. at.ci > 0 => new.ci[at.ci] = old.ci[at.ci]
  <2> SUFFICES ASSUME at.ci > 0 PROVE new.ci[at.ci] = old.ci[at.ci]
    OBVIOUS
  <2>1. at.ci \in 1..at.ci + 1 /\ at.ci <= Len(new.ci) /\ at.ci <= Len(old.ci)
    BY <1>1, <1>3, <1>4
  <2> QED
    BY <2>1 DEF SameFrames
<1>7. WithHandler(n)' = WithHandler(n)
  <2>1. WithHandler(n)' <=> (at.k = "pcall" /\ at.ci > 0 /\ new.ci[at.ci] = "xpcall")
    BY DEF WithHandler
  <2>2. WithHandler(n) <=> (at.k = "pcall" /\ at.ci > 0 /\ old.ci[at.ci] = "xpcall")
    BY DEF WithHandler
  <2>3. WithHandler(n)' \in BOOLEAN /\ WithHandler(n) \in BOOLEAN
    BY DEF WithHandler
  <2> QED
    BY <1>6, <2>1, <2>2, <2>3
<1> QED
  BY <1>5, <1>7

\* The running thread goes on, on the same C stack, and another may change that has no call.
LEMMA FramesStay ==
    ASSUME Inv, Inv', FrameInv, N > 0, UNCHANGED <<cstack, bad>>,
           \A l \in Threads \ {Running} : OnStack(l) => th'[l] = th[l],
           \A co \in Co : ~OnStack(co) => OffInv(th'[co]),
           th'[Running].errfunc = L.errfunc, th'[Running].baseCcalls = L.baseCcalls,
           SameFrames(th'[Running], L, Top.ci + 1)
    PROVE  FrameInv'
<1>1. /\ N \in Nat \ {0} /\ N' = N /\ N \in 1..N /\ Top = cstack[N] /\ Running = Top.l
      /\ Running \in Threads /\ L = th[Running]
      /\ \A n \in 1..N : cstack[n] \in AnyCall /\ cstack[n].l \in Threads
  <2>1. /\ N \in Nat \ {0} /\ Top = cstack[N] /\ Running = Top.l /\ Running \in Threads
    BY RunningThread DEF Inv
  <2>2. \A n \in 1..N : cstack[n] \in AnyCall
    BY DEF Inv, StackInv, CStackInv, N
  <2> QED
    BY <2>1, <2>2 DEF L, N, AnyCall
<1>2. ASSUME NEW n \in 1..N
      PROVE  /\ th'[cstack[n].l].errfunc = th[cstack[n].l].errfunc
             /\ CallInv(n)' /\ WithHandler(n)' = WithHandler(n)
  <2>1. CASE cstack[n].l = Running
    <3>1. cstack[n].ci <= Top.ci /\ cstack[n].ci \in Nat /\ Top.ci \in Nat
      <4>1. Ends(N)
        BY <1>1 DEF Ends
      <4>2. Nested
        BY StackIsNested DEF Inv
      <4> QED
        BY <1>1, <2>1, <4>1, <4>2 DEF Nested, AnyCall
    <3>2. 1..cstack[n].ci + 1 \subseteq 1..Top.ci + 1
      BY <3>1
    <3>3. SameFrames(th'[cstack[n].l], th[cstack[n].l], cstack[n].ci + 1)
      BY <1>1, <2>1, <3>2 DEF SameFrames
    <3> QED
      BY <1>1, <2>1, <3>3, CallKept DEF FrameInv
  <2>2. CASE cstack[n].l # Running
    <3>1. th'[cstack[n].l] = th[cstack[n].l]
      BY <1>1, <2>2 DEF OnStack
    <3>2. SameFrames(th'[cstack[n].l], th[cstack[n].l], cstack[n].ci + 1)
      BY <3>1 DEF SameFrames
    <3> QED
      BY <1>1, <3>1, <3>2, CallKept DEF FrameInv
  <2> QED
    BY <2>1, <2>2
<1>3. ASSUME NEW m \in 1..N PROVE HandlerInv(m)'
  <2> SUFFICES ASSUME NEW n \in 1..N, Rules(n, m)
               PROVE  /\ Ends(m) => th'[cstack[m].l].errfunc = WithHandler(n)'
                      /\ m < N /\ cstack[m + 1].k # "resume" =>
                             cstack[m + 1].errfunc = WithHandler(n)'
    BY <1>1 DEF HandlerInv, Rules, Ends
  <2> QED
    BY <1>2 DEF FrameInv, HandlerInv
<1>4. th'[Main].baseCcalls = 0
  <2>1. cstack[1].l = Main /\ 1 \in 1..N
    BY <1>1 DEF Inv, StackInv, CStackInv
  <2>2. OnStack(Main) /\ Main \in Threads
    BY <2>1 DEF OnStack, Threads
  <2> QED
    BY <1>1, <2>2 DEF FrameInv
<1>5. \A co \in Co : ~OnStack(co)' => OffInv(th'[co])
  BY <1>1 DEF OnStack
<1> QED
  BY <1>1, <1>2, <1>3, <1>4, <1>5 DEF FrameInv, OffInv

\* A call of the running thread, or the resume of one that was not on the C stack.
Pushes(c) ==
    /\ cstack' = Append(cstack, c) /\ ~bad'
    /\ \A l \in Threads \ {Running, c.l} : OnStack(l) => th'[l] = th[l]
    /\ \A co \in Co : ~OnStack(co) /\ co # c.l => OffInv(th'[co])
    /\ th'[Running].baseCcalls = L.baseCcalls /\ SameFrames(th'[Running], L, Top.ci + 1)
    /\ Len(th'[c.l].ci) > c.ci => th'[c.l].ci[c.ci + 1] = "Lua"
    /\ c.k = "resume" =>
           /\ ~OnStack(c.l) /\ c.ci = 0 /\ th'[Running].errfunc = L.errfunc
           /\ ~th'[c.l].errfunc /\ th'[c.l].baseCcalls = N + 1
    /\ c.k # "resume" => c.l = Running /\ c.errfunc = L.errfunc
    /\ c.k \in {"call", "handler"} => th'[Running].errfunc = L.errfunc
    /\ c.k = "pcall" => th'[Running].errfunc = (c.ci > 0 /\ th'[Running].ci[c.ci] = "xpcall")

LEMMA FramesPushed ==
    ASSUME Inv, Inv', FrameInv, N > 0, NEW c \in AnyCall, Pushes(c)
    PROVE  FrameInv'
<1>1. /\ N \in Nat \ {0} /\ N' = N + 1 /\ N \in 1..N /\ Top = cstack[N] /\ Running = Top.l
      /\ Running \in Threads /\ L = th[Running] /\ OnStack(Running)
      /\ \A n \in 1..N : cstack[n] \in AnyCall /\ cstack[n].l \in Threads
      /\ cstack'[N + 1] = c /\ \A n \in 1..N : cstack'[n] = cstack[n]
  <2>1. /\ N \in Nat \ {0} /\ Top = cstack[N] /\ Running = Top.l /\ Running \in Threads
    BY RunningThread DEF Inv
  <2>2. cstack \in Seq(AnyCall) /\ \A n \in 1..N : cstack[n] \in AnyCall
    BY DEF Inv, StackInv, CStackInv, N
  <2>3. \A n \in 1..N : cstack[n].l \in Threads
    BY <2>2 DEF AnyCall
  <2>4. N' = N + 1 /\ cstack'[N + 1] = c /\ \A n \in 1..N : cstack'[n] = cstack[n]
    BY <2>2 DEF N, Pushes
  <2>5. N \in 1..N
    BY <2>1
  <2>6. OnStack(Running)
    BY <2>1, <2>5 DEF OnStack
  <2> QED
    BY <2>1, <2>2, <2>3, <2>4, <2>5, <2>6 DEF L
<1> PICK k \in Nat : k = N + 1
  BY <1>1
<1>2. Nested /\ Ends(N) /\ c.l \in Threads /\ c.ci \in Nat
  BY <1>1, StackIsNested DEF Inv, Ends, AnyCall
<1>3. ASSUME NEW n \in 1..N, cstack[n].l # Running PROVE th'[cstack[n].l] = th[cstack[n].l]
  <2>1. OnStack(cstack[n].l)
    BY DEF OnStack
  <2>2. cstack[n].l # c.l
    BY <1>3, <2>1 DEF Pushes
  <2> QED
    BY <1>1, <1>3, <2>1, <2>2 DEF Pushes
<1>4. ASSUME NEW n \in 1..N
      PROVE  CallInv(n)' /\ WithHandler(n)' = WithHandler(n)
  <2>1. n \in 1..N' /\ cstack'[n] = cstack[n] /\ CallInv(n)
    <3>1. n \in 1..N'
      BY <1>1
    <3> QED
      BY <1>1, <3>1 DEF FrameInv
  <2>2. CASE cstack[n].l = Running
    <3>1. cstack[n].ci <= Top.ci /\ cstack[n].ci \in Nat /\ Top.ci \in Nat
      BY <1>1, <1>2, <2>2 DEF Nested, AnyCall
    <3>2. 1..cstack[n].ci + 1 \subseteq 1..Top.ci + 1
      BY <3>1
    <3>3. SameFrames(th'[Running], L, Top.ci + 1)
      BY DEF Pushes
    <3>4. SameFrames(th'[cstack[n].l], th[cstack[n].l], cstack[n].ci + 1)
      BY <1>1, <2>2, <3>2, <3>3 DEF SameFrames
    <3> QED
      BY <1>1, <2>1, <2>2, <3>4, CallKept DEF Pushes
  <2>3. CASE cstack[n].l # Running
    <3>1. th'[cstack[n].l] = th[cstack[n].l]
      BY <1>3, <2>3
    <3>2. SameFrames(th'[cstack[n].l], th[cstack[n].l], cstack[n].ci + 1)
      BY <3>1 DEF SameFrames
    <3> QED
      BY <2>1, <3>1, <3>2, CallKept
  <2> QED
    BY <2>2, <2>3
<1>5. CallInv(k)'
  BY <1>1 DEF CallInv, Pushes
<1>6. ASSUME NEW m \in 1..k, NEW n \in 1..k, Rules(n, m)', n <= N, m <= N
      PROVE  Rules(n, m)
  <2>1. \A i \in n..m : cstack'[i] = cstack[i]
    BY <1>1, <1>6
  <2>2. n \in 1..m /\ \A i \in n + 1..m : i \in n..m
    BY <1>1, <1>6 DEF Rules
  <2> QED
    BY <1>1, <1>6, <2>1, <2>2 DEF Rules
<1>7. ASSUME NEW n \in 1..k, Rules(n, k)'
      PROVE  th'[c.l].errfunc = WithHandler(n)'
  <2>1. CASE c.k \in {"pcall", "resume"}
    <3>1. n = k
      <4>1. ASSUME n # k PROVE FALSE
        <5>1. k \in n + 1..k
          BY <1>1, <4>1
        <5>2. cstack'[k].k \in {"call", "handler"}
          BY <1>7, <5>1 DEF Rules
        <5> QED
          BY <1>1, <2>1, <5>2
      <4> QED
        BY <4>1
    <3>2. WithHandler(n)' =
             (c.k = "pcall" /\ c.ci > 0 /\ th'[c.l].ci[c.ci] = "xpcall")
      BY <1>1, <3>1 DEF WithHandler
    <3>3. CASE c.k = "pcall"
      BY <3>2, <3>3 DEF Pushes
    <3>4. CASE c.k = "resume"
      <4>1. th'[c.l] \in Thread
        BY <1>2 DEF Inv, StackInv, Good
      <4>2. th'[c.l].errfunc = FALSE
        BY <3>4, <4>1 DEF Thread, Pushes
      <4> QED
        BY <3>2, <3>4, <4>2
    <3> QED
      BY <2>1, <3>3, <3>4
  <2>2. CASE c.k \in {"call", "handler"}
    <3>1. n \in 1..N
      <4>1. cstack'[n].k \in {"pcall", "resume"}
        BY <1>7 DEF Rules
      <4> QED
        BY <1>1, <2>2, <4>1
    <3>2. Rules(n, N)
      <4>1. N \in Nat /\ n \in Nat
        BY <1>1, <3>1
      <4>2. \A i \in n + 1..N : i \in n + 1..k /\ i \in 1..N
        BY <3>1, <4>1
      <4>3. \A i \in n + 1..N : cstack'[i].k \in {"call", "handler"} /\ cstack'[i] = cstack[i]
        BY <1>1, <1>7, <4>2 DEF Rules
      <4>4. cstack'[n].k \in {"pcall", "resume"} /\ cstack'[n] = cstack[n]
        BY <1>1, <1>7, <3>1 DEF Rules
      <4> QED
        BY <3>1, <4>3, <4>4 DEF Rules
    <3>3. th[cstack[N].l].errfunc = WithHandler(n)
      BY <1>1, <1>2, <3>1, <3>2 DEF FrameInv, HandlerInv
    <3>4. th'[c.l].errfunc = L.errfunc /\ c.l = Running
      BY <2>2 DEF Pushes
    <3> QED
      BY <1>1, <1>4, <3>1, <3>3, <3>4
  <2> QED
    BY <2>1, <2>2 DEF AnyCall
<1>8. ASSUME NEW m \in 1..N, NEW n \in 1..k, Rules(n, m)'
      PROVE  /\ Ends(m)' => th'[cstack[m].l].errfunc = WithHandler(n)'
             /\ cstack'[m + 1].k # "resume" => cstack'[m + 1].errfunc = WithHandler(n)'
  <2>1. n \in 1..m /\ n \in 1..N /\ m \in 1..k /\ n <= N /\ m <= N
    BY <1>1, <1>8 DEF Rules
  <2>2. Rules(n, m) /\ WithHandler(n)' = WithHandler(n) /\ HandlerInv(m)
    BY <1>4, <1>6, <1>8, <2>1 DEF FrameInv
  <2>3. CASE m = N
    <3>1. cstack'[m + 1] = c /\ cstack[m].l = Running
      BY <1>1, <2>3
    <3>2. /\ L.errfunc = WithHandler(n)
          /\ c.k = "resume" => th'[Running].errfunc = L.errfunc
          /\ c.k # "resume" => c.errfunc = L.errfunc
      BY <1>1, <1>2, <2>1, <2>2, <2>3 DEF HandlerInv, Pushes
    <3>3. Ends(m)' => c.k = "resume"
      BY <1>1, <2>3, <3>1 DEF Ends
    <3> QED
      BY <2>2, <3>1, <3>2, <3>3
  <2>4. CASE m # N
    <3>1. m < N /\ m + 1 \in 1..N
      BY <1>1, <2>4
    <3>2. cstack'[m + 1] = cstack[m + 1] /\ m # N'
      BY <1>1, <3>1
    <3>3. Ends(m)' => Ends(m)
      BY <3>2 DEF Ends
    <3>4. Ends(m) => cstack[m].l # Running
      <4>1. ~(N <= m)
        BY <1>1, <3>1
      <4> QED
        BY <1>1, <1>2, <4>1 DEF Nested
    <3> QED
      BY <1>3, <2>1, <2>2, <3>1, <3>2, <3>3, <3>4 DEF HandlerInv
  <2> QED
    BY <2>3, <2>4
<1>9. ASSUME NEW m \in 1..N' PROVE HandlerInv(m)'
  <2>1. CASE m = k
    <3>1. cstack'[m] = c /\ ~(m < N')
      BY <1>1, <2>1
    <3> QED
      BY <1>1, <1>7, <2>1, <3>1 DEF HandlerInv
  <2>2. CASE m \in 1..N
    BY <1>1, <1>8, <2>2 DEF HandlerInv
  <2> QED
    BY <1>1, <2>1, <2>2
<1>10. \A n \in 1..N' : CallInv(n)'
  BY <1>1, <1>4, <1>5
<1>11. th'[Main].baseCcalls = 0
  <2>1. cstack[1].l = Main /\ 1 \in 1..N
    BY <1>1 DEF Inv, StackInv, CStackInv
  <2>2. OnStack(Main) /\ Main \in Threads
    BY <2>1 DEF OnStack, Threads
  <2> QED
    BY <1>1, <2>2 DEF FrameInv, Pushes
<1>12. ASSUME NEW co \in Co, ~OnStack(co)' PROVE OffInv(th'[co])
  <2>1. N + 1 \in 1..N' /\ \A n \in 1..N : n \in 1..N'
    BY <1>1
  <2>2. co # c.l /\ ~OnStack(co)
    BY <1>1, <1>12, <2>1 DEF OnStack
  <2> QED
    BY <2>2 DEF Pushes
<1> QED
  BY <1>9, <1>10, <1>11, <1>12 DEF FrameInv, Pushes

\* The calls above n end, and the thread of n, which changes, goes on or goes on with an error.
CutsTo(n) ==
    /\ cstack' = SubSeq(cstack, 1, n) /\ ~bad' /\ th'[Main].baseCcalls = 0
    /\ \A m \in 1..n : cstack[m].l # cstack[n].l => th'[cstack[m].l] = th[cstack[m].l]
    /\ \A co \in Co : ~OnStack(co)' => OffInv(th'[co])
    /\ n > 0 =>
           LET l == cstack[n].l
           IN  /\ th'[l].baseCcalls = th[l].baseCcalls
               /\ SameFrames(th'[l], th[l], cstack[n].ci + 1)
               /\ \A p \in 1..n : Rules(p, n) => th'[l].errfunc = WithHandler(p)

LEMMA FramesCut ==
    ASSUME Inv, Inv', FrameInv, NEW n \in Nat, n < N, CutsTo(n)
    PROVE  FrameInv'
<1>1. /\ N \in Nat /\ N' = n /\ \A m \in 1..n : m \in 1..N /\ cstack'[m] = cstack[m]
      /\ \A m \in 1..N : cstack[m] \in AnyCall
  <2>1. cstack \in Seq(AnyCall) /\ N \in Nat
    BY DEF Inv, StackInv, CStackInv, N
  <2>2. N' = n /\ \A m \in 1..n : cstack'[m] = cstack[m]
    BY <2>1 DEF CutsTo, N
  <2>3. \A m \in 1..n : m \in 1..N
    BY <2>1
  <2> QED
    BY <2>1, <2>2, <2>3 DEF N
<1>2. Nested'
  <2>1. (StackInv => Nested)'
    BY StackIsNested, PTL
  <2> QED
    BY <2>1 DEF Inv
<1>3. n > 0 => n \in 1..n /\ Ends(n)'
  BY <1>1 DEF Ends
<1>4. ASSUME NEW m \in 1..n
      PROVE  CallInv(m)' /\ WithHandler(m)' = WithHandler(m)
  <2>1. m \in 1..N /\ m \in 1..N' /\ cstack'[m] = cstack[m] /\ CallInv(m) /\ n > 0
    BY <1>1 DEF FrameInv
  <2>2. CASE cstack[m].l = cstack[n].l
    <3> DEFINE l == cstack[n].l
    <3>1. cstack[m].ci <= cstack[n].ci /\ cstack[m].ci \in Nat /\ cstack[n].ci \in Nat
      <4>1. cstack'[m].ci <= cstack'[n].ci
        BY <1>1, <1>2, <1>3, <2>1, <2>2 DEF Nested
      <4>2. cstack[m] \in AnyCall /\ cstack[n] \in AnyCall
        BY <1>1, <1>3, <2>1
      <4> QED
        BY <1>1, <1>3, <2>1, <4>1, <4>2 DEF AnyCall
    <3>2. 1..cstack[m].ci + 1 \subseteq 1..cstack[n].ci + 1
      BY <3>1
    <3>3. SameFrames(th'[l], th[l], cstack[n].ci + 1) /\ th'[l].baseCcalls = th[l].baseCcalls
      BY <2>1 DEF CutsTo
    <3>4. SameFrames(th'[l], th[l], cstack[m].ci + 1)
      BY <3>2, <3>3 DEF SameFrames
    <3> QED
      BY <2>1, <2>2, <3>3, <3>4, CallKept
  <2>3. CASE cstack[m].l # cstack[n].l
    <3>1. th'[cstack[m].l] = th[cstack[m].l]
      BY <2>3 DEF CutsTo
    <3>2. SameFrames(th'[cstack[m].l], th[cstack[m].l], cstack[m].ci + 1)
      BY <3>1 DEF SameFrames
    <3> QED
      BY <2>1, <3>1, <3>2, CallKept
  <2> QED
    BY <2>2, <2>3
<1>5. ASSUME NEW m \in 1..n, NEW p \in 1..n, Rules(p, m)'
      PROVE  /\ p \in 1..m /\ p \in 1..N /\ m \in 1..N /\ Rules(p, m) /\ HandlerInv(m)
             /\ WithHandler(p)' = WithHandler(p)
  <2>1. p \in 1..m /\ \A i \in p..m : i \in 1..n
    BY <1>1, <1>5 DEF Rules
  <2>2. \A i \in p..m : cstack'[i] = cstack[i]
    BY <1>1, <2>1
  <2>3. p \in p..m /\ \A i \in p + 1..m : i \in p..m
    BY <2>1
  <2>4. Rules(p, m)
    BY <1>5, <2>1, <2>2, <2>3 DEF Rules
  <2> QED
    BY <1>1, <1>4, <2>1, <2>4 DEF FrameInv
<1>6. ASSUME NEW m \in 1..N' PROVE HandlerInv(m)'
  <2> SUFFICES ASSUME NEW p \in 1..N', Rules(p, m)'
               PROVE  /\ Ends(m)' => th'[cstack'[m].l].errfunc = WithHandler(p)'
                      /\ m < N' /\ cstack'[m + 1].k # "resume" =>
                             cstack'[m + 1].errfunc = WithHandler(p)'
    BY DEF HandlerInv
  <2>1. m \in 1..n /\ p \in 1..n /\ cstack'[m] = cstack[m]
    BY <1>1
  <2>2. /\ p \in 1..m /\ p \in 1..N /\ m \in 1..N /\ Rules(p, m) /\ HandlerInv(m)
        /\ WithHandler(p)' = WithHandler(p)
    BY <1>5, <2>1
  <2>3. CASE m = n
    <3>1. ~(m < N') /\ n > 0
      BY <1>1, <2>1, <2>3
    <3> QED
      BY <2>1, <2>2, <2>3, <3>1 DEF CutsTo
  <2>4. CASE m # n
    <3>1. m < n /\ m < N /\ m < N' /\ n > 0 /\ m + 1 \in 1..n /\ m # N' /\ m # N
      BY <1>1, <2>1, <2>4
    <3>2. cstack'[m + 1] = cstack[m + 1]
      BY <1>1, <3>1
    <3>3. Ends(m)' => Ends(m)
      BY <2>2, <3>1, <3>2 DEF Ends
    <3>4. ASSUME Ends(m)' PROVE cstack[m].l # cstack[n].l
      <4>1. ~(n <= m) /\ n \in 1..N'
        BY <1>1, <3>1
      <4>2. cstack'[n].l # cstack'[m].l
        BY <1>2, <3>4, <4>1 DEF Nested
      <4> QED
        BY <1>1, <1>3, <2>1, <3>1, <4>2
    <3>5. Ends(m)' => th'[cstack[m].l] = th[cstack[m].l]
      BY <2>1, <3>4 DEF CutsTo
    <3> QED
      BY <2>1, <2>2, <3>1, <3>2, <3>3, <3>5 DEF HandlerInv
  <2> QED
    BY <2>3, <2>4
<1> QED
  BY <1>1, <1>4, <1>6 DEF FrameInv, CutsTo

-----------------------------------------------------------------------------
(* What the operations make of the frames.                                 *)

\* The last frame may be left; the others stay.
Continues(new, old) ==
    /\ new.errfunc = old.errfunc /\ new.baseCcalls = old.baseCcalls
    /\ \A i \in 1..Len(old.ci) - 1 : i <= Len(new.ci) => new.ci[i] = old.ci[i]

LEMMA ResultsContinue ==
    ASSUME NEW t \in Thread, NEW vals
    PROVE  Continues(Results(t, vals), t)
<1>1. t.ci \in Seq(Frame)
  BY DEF Thread
<1>2. \A i \in 1..Len(t.ci) - 1 : Pop(t.ci)[i] = t.ci[i]
  BY <1>1 DEF Pop
<1> HIDE DEF Pop
<1>3. /\ Results(t, vals).errfunc = t.errfunc /\ Results(t, vals).baseCcalls = t.baseCcalls
      /\ Results(t, vals).ci = Pop(t.ci)
  BY DEF Results, Thread
<1> QED
  BY <1>2, <1>3 DEF Continues

LEMMA AnswerContinues ==
    ASSUME NEW t \in Thread, NEW vals \in Seq(Value), NEW r \in {Refused(t), Answered(t, vals)}
    PROVE  Continues(r.l, t)
<1>1. Continues(t, t)
  BY DEF Continues
<1>2. Continues(Refused(t).l, t)
  BY <1>1, ResultsContinue DEF Refused
<1>3. Continues(Answered(t, vals).l, t)
  BY ResultsContinue DEF Answered
<1> QED
  BY <1>2, <1>3

LEMMA ResumedContinues ==
    ASSUME NEW co \in Thread, NEW t \in Thread
    PROVE  /\ Continues(Resumed(co, t).to.l, t)
           /\ Resumed(co, t).co.status = co.status /\ Resumed(co, t).co.ci = co.ci
           /\ Resumed(co, t).co.errfunc = co.errfunc
<1>1. CASE lua_checkstack(t, Len(co.stack) + 1)
  <2>1. Resumed(co, t) = [co |-> [co EXCEPT !.stack = << >>], to |-> Answered(t, co.stack)]
    BY <1>1 DEF Resumed
  <2>2. co.stack \in Seq(Value)
    BY DEF Thread
  <2>3. Continues(Answered(t, co.stack).l, t)
    BY <2>2, AnswerContinues
  <2> DEFINE left == [co EXCEPT !.stack = << >>]
  <2>4. left.status = co.status /\ left.ci = co.ci /\ left.errfunc = co.errfunc
    BY DEF Thread
  <2> HIDE DEF left
  <2>5. Resumed(co, t).co = left /\ Resumed(co, t).to = Answered(t, co.stack)
    BY <2>1 DEF left
  <2> QED
    BY <2>3, <2>4, <2>5
<1>2. CASE ~lua_checkstack(t, Len(co.stack) + 1)
  <2>1. Resumed(co, t).co = co /\ Resumed(co, t).to = [l |-> t, err |-> TRUE]
    BY <1>2 DEF Resumed
  <2>2. Continues(t, t)
    BY DEF Continues
  <2> QED
    BY <2>1, <2>2
<1> QED
  BY <1>1, <1>2

\* A function that is called leaves the frames below it.
LEMMA AppendKeeps ==
    ASSUME NEW t \in Thread, NEW u, NEW fn, u.ci = Append(t.ci, fn), NEW k \in Nat,
           k <= Len(t.ci) \/ (k <= Len(t.ci) + 1 /\ fn = "Lua")
    PROVE  SameFrames(u, t, k)
<1>1. t.ci \in Seq(Frame) /\ Len(t.ci) \in Nat
  BY DEF Thread
<1>2. \A i \in 1..Len(t.ci) : u.ci[i] = t.ci[i]
  BY <1>1
<1>3. u.ci[Len(t.ci) + 1] = fn
  BY <1>1
<1> SUFFICES ASSUME NEW i \in 1..k, i <= Len(u.ci)
             PROVE  u.ci[i] = IF i <= Len(t.ci) THEN t.ci[i] ELSE "Lua"
  BY DEF SameFrames
<1>4. CASE i <= Len(t.ci)
  <2>1. i \in 1..Len(t.ci)
    BY <1>1, <1>4
  <2> QED
    BY <1>2, <1>4, <2>1
<1>5. CASE ~(i <= Len(t.ci))
  <2>1. i = Len(t.ci) + 1 /\ fn = "Lua"
    BY <1>1, <1>5
  <2> QED
    BY <1>3, <1>5, <2>1
<1> QED
  BY <1>4, <1>5

-----------------------------------------------------------------------------
(* The steps.                                                              *)

LEMMA FramesBegin == Init => FrameInv
<1> SUFFICES ASSUME Init PROVE FrameInv
  OBVIOUS
<1>1. N = 0 /\ ~bad
  BY DEF Init, N
<1>2. th[Main] = NewThread /\ \A co \in Co : th[co] = NoThread
  BY CoroutineAssumption DEF Init
<1>3. NewThread.baseCcalls = 0 /\ OffInv(NoThread)
  BY DEF NewThread, NoThread, OffInv
<1> QED
  BY <1>1, <1>2, <1>3 DEF FrameInv

LEMMA drawFrames ==
    ASSUME Inv, Inv', FrameInv, draw
    PROVE  FrameInv'
<1> DEFINE c == CCall("pcall", Main, 0, 0, FALSE)
           t == [NewThread EXCEPT !.ci = <<"Lua">>, !.nCcalls = 1]
<1>1. /\ t.errfunc = FALSE /\ t.baseCcalls = 0 /\ t.ci = <<"Lua">>
      /\ c.k = "pcall" /\ c.l = Main /\ c.ci = 0
  BY DEF NewThread, CCall
<1>2. <<"Lua">>[0 + 1] = "Lua"
  OBVIOUS
<1>3. th' = [th EXCEPT ![Main] = t] /\ cstack' = <<c>> /\ bad' = bad /\ cstack = << >>
  BY DEF draw
<1> HIDE DEF c, t
<1>4. th'[Main] = t /\ \A co \in Co : th'[co] = th[co]
  BY <1>3, CoroutineAssumption DEF Inv, StackInv, Threads
<1>5. N' = 1 /\ cstack'[1] = c /\ N = 0
  BY <1>3 DEF N
<1>6. CallInv(1)'
  BY <1>1, <1>2, <1>4, <1>5 DEF CallInv
<1>7. WithHandler(1)' = FALSE
  BY <1>1, <1>5 DEF WithHandler
<1>8. HandlerInv(1)'
  <2> SUFFICES ASSUME NEW n \in 1..N', Rules(n, 1)'
               PROVE  th'[cstack'[1].l].errfunc = WithHandler(n)'
    BY <1>5 DEF HandlerInv
  <2>1. n = 1
    BY <1>5
  <2> QED
    BY <1>1, <1>4, <1>5, <1>7, <2>1
<1>9. \A co \in Co : OffInv(th'[co])
  BY <1>4, <1>5 DEF FrameInv, OnStack
<1>10. \A n \in 1..N' : n = 1
  BY <1>5
<1> QED
  BY <1>1, <1>3, <1>4, <1>6, <1>8, <1>9, <1>10 DEF FrameInv

\* What the steps of the running thread need.
LEMMA FrameFacts ==
    ASSUME Inv, FrameInv, InLua \/ throwing # "no"
    PROVE  /\ OnStack(Running) /\ ~bad /\ bad = FALSE /\ L.errfunc \in BOOLEAN
           /\ \A co \in Co : ~OnStack(co) => OffInv(th[co])
<1>1. N \in 1..N /\ cstack[N].l = Running /\ L \in Thread /\ bad \in BOOLEAN
  BY RunningFacts
<1> QED
  BY <1>1 DEF OnStack, FrameInv, Thread

LEMMA CallFrames ==
    ASSUME Inv, Inv', FrameInv, Call
    PROVE  FrameInv'
<1>1. InLua /\ throwing = "no" /\ UNCHANGED <<cstack, bad>>
  BY DEF Call, InLua
<1> DEFINE t == [L EXCEPT !.ci = Append(@, "Lua"), !.stack = << >>]
<1>2. t.ci = Append(L.ci, "Lua") /\ t.errfunc = L.errfunc /\ t.baseCcalls = L.baseCcalls
  BY <1>1, RunningFacts DEF Thread
<1>3. th' = [th EXCEPT ![Running] = t]
  BY <1>1, RunningFacts DEF Call, StackInv
<1> HIDE DEF t
<1>4. th'[Running] = t /\ \A l \in Threads \ {Running} : th'[l] = th[l]
  BY <1>1, <1>3, RunningFacts DEF StackInv
<1>5. Top.ci + 1 \in Nat /\ Top.ci + 1 <= Len(L.ci)
  BY <1>1, RunningFacts
<1>6. SameFrames(t, L, Top.ci + 1)
  BY <1>1, <1>2, <1>5, RunningFacts, AppendKeeps
<1>7. \A co \in Co : ~OnStack(co) => OffInv(th'[co])
  BY <1>1, <1>4, FrameFacts DEF Threads
<1> QED
  BY <1>1, <1>2, <1>4, <1>6, <1>7, RunningFacts, FramesStay

LEMMA luaB_errorFrames ==
    ASSUME Inv, Inv', FrameInv, luaB_error \/ UNCHANGED vars
    PROVE  FrameInv'
<1>1. UNCHANGED <<th, cstack, bad>>
  BY DEF luaB_error, vars
<1> QED
  BY <1>1 DEF FrameInv, OnStack, CallInv, HandlerInv, Rules, WithHandler, Ends, N

LEMMA luaB_cocreateFrames ==
    ASSUME Inv, Inv', FrameInv, luaB_cocreate
    PROVE  FrameInv'
<1>1. InLua /\ throwing = "no" /\ UNCHANGED <<cstack, bad>>
  BY DEF luaB_cocreate, InLua
<1> DEFINE new == [NewThread EXCEPT !.stack = <<"function">>]
           t == [L EXCEPT !.stack = << >>]
<1>2. PICK co \in Co :
          /\ th[co].status = "none"
          /\ th' = [th EXCEPT ![co] = new, ![Running].stack = << >>]
  BY DEF luaB_cocreate
<1>3. ~OnStack(co) /\ co # Running /\ co \in Threads
  <2>1. ~OnStack(co)
    BY <1>2, OnStackRuns DEF Inv
  <2> QED
    BY <1>1, <2>1, FrameFacts DEF Threads
<1>4. OffInv(new)
  BY DEF NewThread, OffInv
<1>5. t.ci = L.ci /\ t.errfunc = L.errfunc /\ t.baseCcalls = L.baseCcalls
  BY <1>1, RunningFacts DEF Thread
<1>6. th' = [th EXCEPT ![co] = new, ![Running] = t]
  BY <1>1, <1>2, <1>3, RunningFacts DEF StackInv
<1> HIDE DEF new, t
<1>7. /\ th'[Running] = t /\ th'[co] = new
      /\ \A l \in Threads \ {Running, co} : th'[l] = th[l]
  BY <1>1, <1>3, <1>6, RunningFacts DEF StackInv
<1>8. SameFrames(t, L, Top.ci + 1)
  <2>1. \A i \in 1..Top.ci + 1 : i <= Len(L.ci)
    BY <1>1, RunningFacts
  <2> QED
    BY <1>5, <2>1 DEF SameFrames
<1>9. \A l \in Threads \ {Running} : OnStack(l) => th'[l] = th[l]
  BY <1>3, <1>7
<1>10. \A l \in Co : ~OnStack(l) => OffInv(th'[l])
  BY <1>1, <1>4, <1>7, FrameFacts DEF Threads
<1> QED
  BY <1>1, <1>5, <1>7, <1>8, <1>9, <1>10, RunningFacts, FramesStay

\* A call from C, of a thread that is now t.
LEMMA luaD_callFrames ==
    ASSUME Inv, Inv', FrameInv, throwing \in {"no", "raise"}, InLua \/ throwing # "no",
           NEW t \in Thread, NEW k \in {"call", "pcall", "handler"}, NEW ef \in BOOLEAN,
           luaD_call(t, k, ef), t.baseCcalls = L.baseCcalls,
           \/ k = "pcall" /\ throwing = "no" /\ t.ci = Append(L.ci, IF ef THEN "xpcall" ELSE "pcall")
           \/ k # "pcall" /\ t.ci = L.ci /\ ef = L.errfunc
    PROVE  FrameInv'
<1> DEFINE called == [t EXCEPT !.nCcalls = @ + 1, !.stack = << >>, !.errfunc = ef]
           gone == [called EXCEPT !.ci = Append(@, "Lua")]
           c == CCall(k, Running, Len(t.ci), t.nCcalls, L.errfunc)
<1>1. /\ cstack' = Append(cstack, c)
      /\ th' = [th EXCEPT ![Running] = IF throwing' # "no" THEN called ELSE gone]
      /\ UNCHANGED bad
  BY DEF luaD_call
<1>2. /\ N > 0 /\ Running \in Threads /\ L \in Thread /\ L.ci \in Seq(Frame) /\ L = th[Running]
      /\ Len(L.ci) \in Nat /\ Top.ci \in Nat /\ Len(L.ci) >= Top.ci
      /\ throwing = "no" => Len(L.ci) > Top.ci
  BY RunningFacts
<1>3. t.ci \in Seq(Frame) /\ Len(t.ci) \in Nat /\ t.nCcalls \in Nat
  BY DEF Thread
<1>4. /\ called.ci = t.ci /\ called.errfunc = ef /\ called.baseCcalls = L.baseCcalls
      /\ called \in Thread
  <2>1. t.nCcalls + 1 \in Nat /\ << >> \in Seq(Value)
    BY <1>3, NewThreadType
  <2> QED
    BY <2>1 DEF Thread
<1> HIDE DEF called
<1>5. /\ gone.ci = Append(t.ci, "Lua") /\ gone.errfunc = ef /\ gone.baseCcalls = L.baseCcalls
  BY <1>4 DEF Thread
<1>6. /\ c \in AnyCall /\ c.k = k /\ c.l = Running /\ c.ci = Len(t.ci)
      /\ c.errfunc = L.errfunc
  BY <1>2, <1>3, FrameFacts DEF CCall, AnyCall
<1> HIDE DEF gone, c
<1> DEFINE u == IF throwing' # "no" THEN called ELSE gone
<1>7. /\ th'[Running] = u /\ \A l \in Threads \ {Running} : th'[l] = th[l]
  BY <1>1, <1>2 DEF Inv, StackInv
<1>8. /\ u.errfunc = ef /\ u.baseCcalls = L.baseCcalls
      /\ u.ci = t.ci \/ u.ci = Append(t.ci, "Lua")
  BY <1>4, <1>5
<1> HIDE DEF u
<1>9. \A i \in 1..Len(t.ci) : u.ci[i] = t.ci[i]
  BY <1>3, <1>8
<1>10. Len(u.ci) > c.ci => u.ci[c.ci + 1] = "Lua"
  <2>1. CASE u.ci = t.ci
    BY <1>3, <1>6, <2>1
  <2>2. CASE u.ci = Append(t.ci, "Lua")
    BY <1>3, <1>6, <2>2
  <2> QED
    BY <1>8, <2>1, <2>2
<1>11. SameFrames(u, L, Top.ci + 1)
  <2>1. CASE k # "pcall"
    <3>1. t.ci = L.ci
      BY <2>1
    <3>2. CASE u.ci = t.ci
      <4>1. \A i \in 1..Top.ci + 1 : i <= Len(u.ci) => i <= Len(L.ci)
        BY <3>1, <3>2
      <4> QED
        BY <3>1, <3>2, <4>1 DEF SameFrames
    <3>3. CASE u.ci = Append(t.ci, "Lua")
      <4>1. Top.ci + 1 \in Nat /\ Top.ci + 1 <= Len(L.ci) + 1
        BY <1>2
      <4> QED
        BY <1>2, <3>1, <3>3, <4>1, AppendKeeps
    <3> QED
      BY <1>8, <3>2, <3>3
  <2>2. CASE k = "pcall"
    <3> DEFINE fn == IF ef THEN "xpcall" ELSE "pcall"
    <3>1. t.ci = Append(L.ci, fn) /\ Len(L.ci) > Top.ci
      BY <1>2, <2>2
    <3> HIDE DEF fn
    <3>2. /\ \A i \in 1..Len(L.ci) : t.ci[i] = L.ci[i]
          /\ Len(t.ci) = Len(L.ci) + 1
      BY <1>2, <3>1
    <3>3. \A i \in 1..Top.ci + 1 : i \in 1..Len(L.ci) /\ i \in 1..Len(t.ci)
      BY <1>2, <3>1, <3>2
    <3> QED
      BY <1>9, <3>2, <3>3 DEF SameFrames
  <2> QED
    BY <2>1, <2>2
<1>12. k = "pcall" => u.errfunc = (c.ci > 0 /\ u.ci[c.ci] = "xpcall")
  <2> SUFFICES ASSUME k = "pcall" PROVE u.errfunc = (c.ci > 0 /\ u.ci[c.ci] = "xpcall")
    OBVIOUS
  <2> DEFINE fn == IF ef THEN "xpcall" ELSE "pcall"
  <2>1. t.ci = Append(L.ci, fn)
    OBVIOUS
  <2>2. (fn = "xpcall") = ef
    OBVIOUS
  <2> HIDE DEF fn
  <2>3. Len(t.ci) = Len(L.ci) + 1 /\ t.ci[Len(L.ci) + 1] = fn
    BY <1>2, <2>1
  <2>4. Len(t.ci) \in 1..Len(t.ci) /\ Len(t.ci) > 0
    BY <1>2, <2>3
  <2>5. u.ci[c.ci] = fn /\ c.ci > 0
    BY <1>6, <1>9, <2>3, <2>4
  <2> QED
    BY <1>8, <2>2, <2>5
<1>13. Pushes(c)
  <2>1. \A co \in Co : ~OnStack(co) /\ co # c.l => OffInv(th'[co])
    BY <1>6, <1>7, FrameFacts DEF Threads
  <2>2. k \in {"call", "handler"} => u.errfunc = L.errfunc
    BY <1>8
  <2>3. ~bad'
    BY <1>1, FrameFacts
  <2> QED
    BY <1>1, <1>6, <1>7, <1>8, <1>10, <1>11, <1>12, <2>1, <2>2, <2>3 DEF Pushes
<1> QED
  BY <1>2, <1>6, <1>13, FramesPushed

LEMMA CallMetamethodFrames ==
    ASSUME Inv, Inv', FrameInv, CallMetamethod
    PROVE  FrameInv'
<1>1. InLua /\ throwing = "no" /\ luaD_call(L, "call", L.errfunc)
  BY DEF CallMetamethod, InLua
<1> QED
  BY <1>1, RunningFacts, FrameFacts, luaD_callFrames

LEMMA luaB_pcallFrames ==
    ASSUME Inv, Inv', FrameInv, luaB_pcall
    PROVE  FrameInv'
<1>1. InLua /\ throwing = "no"
  BY DEF luaB_pcall, InLua
<1>2. PICK fn \in {"pcall", "xpcall"} :
          luaD_call([L EXCEPT !.ci = Append(@, fn)], "pcall", fn = "xpcall")
  BY DEF luaB_pcall
<1> DEFINE t == [L EXCEPT !.ci = Append(@, fn)]
           ef == fn = "xpcall"
<1>3. Append(L.ci, fn) \in Seq(Frame)
  BY <1>1, RunningFacts, AppendType DEF Frame
<1>4. t \in Thread /\ t.baseCcalls = L.baseCcalls /\ t.ci = Append(L.ci, fn)
  BY <1>1, <1>3, RunningFacts DEF Thread
<1>5. luaD_call(t, "pcall", ef) /\ ef \in BOOLEAN /\ fn = IF ef THEN "xpcall" ELSE "pcall"
  BY <1>2
<1> HIDE DEF t, ef
<1> QED
  BY <1>1, <1>4, <1>5, luaD_callFrames

LEMMA luaG_errormsgFrames ==
    ASSUME Inv, Inv', FrameInv, luaG_errormsg
    PROVE  FrameInv'
<1>1. throwing = "raise"
  BY DEF luaG_errormsg
<1>2. CASE L.errfunc /\ luaD_call(L, "handler", TRUE)
  BY <1>1, <1>2, RunningFacts, FrameFacts, luaD_callFrames
<1>3. CASE UNCHANGED <<th, cstack, bad, sent>>
  BY <1>3 DEF FrameInv, OnStack, CallInv, HandlerInv, Rules, WithHandler, Ends, N
<1> QED
  BY <1>2, <1>3 DEF luaG_errormsg

\* The calls of a coroutine begin with its resume, at the number it keeps.
LEMMA BeginsWithResume ==
    ASSUME Inv, FrameInv, NEW n \in 1..N, cstack[n].l # Main, NEW s, s = th[cstack[n].l].baseCcalls
    PROVE  s \in 1..n /\ cstack[s].k = "resume" /\ cstack[s].l = cstack[n].l
<1> DEFINE Mine == {m \in 1..N : cstack[m].l = cstack[n].l}
<1>1. N \in Nat /\ CStackInv /\ \A m \in 1..N : cstack[m] \in AnyCall
  BY DEF Inv, StackInv, CStackInv, N
<1>2. Mine \in SUBSET Nat /\ n \in Mine
  BY <1>1
<1>3. PICK m \in Mine : \A j \in Mine : m <= j
  BY <1>2, LeastNatural
<1>4. m \in 1..N /\ m <= n /\ cstack[m].l = cstack[n].l /\ m \in 1..n
  <2>1. m \in 1..N /\ m <= n /\ cstack[m].l = cstack[n].l
    BY <1>2, <1>3
  <2> QED
    BY <1>1, <2>1
<1>5. m # 1
  BY <1>1, <1>4 DEF CStackInv
<1>6. m \in 2..N /\ m - 1 \in 1..N /\ ~(m <= m - 1)
  BY <1>1, <1>4, <1>5
<1>7. m - 1 \notin Mine
  BY <1>3, <1>6
<1>8. cstack[m - 1].l # cstack[m].l /\ Follows(cstack[m], cstack[m - 1])
  BY <1>1, <1>4, <1>6, <1>7 DEF CStackInv
<1>9. cstack[m].k = "resume"
  BY <1>8 DEF Follows
<1>10. th[cstack[m].l].baseCcalls = m
  BY <1>4, <1>9 DEF FrameInv, CallInv
<1> QED
  BY <1>4, <1>9, <1>10

\* The coroutine of the last resume has no handler but that of an xpcall() in it.
LEMMA ResumeIsBare ==
    ASSUME Inv, FrameInv, InLua, Top.k = "resume"
    PROVE  /\ L.errfunc = FALSE /\ L.baseCcalls = N /\ Top.ci = 0 /\ Running # Main
           /\ L.ci[1] = "Lua" /\ \A m \in 1..N - 1 : cstack[m].l # Running
<1>1. throwing = "no"
  BY DEF InLua
<1>2. N \in 1..N /\ Top = cstack[N] /\ cstack[N].l = Running /\ L = th[Running] /\ N \in Nat
  BY <1>1, RunningFacts
<1>3. Rules(N, N) /\ Ends(N)
  BY <1>2 DEF Rules, Ends
<1>4. CallInv(N) /\ HandlerInv(N)
  BY <1>2 DEF FrameInv
<1>5. L.errfunc = WithHandler(N)
  BY <1>2, <1>3, <1>4 DEF HandlerInv
<1>6. L.errfunc = FALSE
  BY <1>2, <1>5 DEF WithHandler
<1>7. L.baseCcalls = N /\ Top.ci = 0
  BY <1>2, <1>4 DEF CallInv
<1>8. L.ci[1] = "Lua"
  <2>1. Len(L.ci) > Top.ci
    BY <1>1, RunningFacts
  <2>2. Top.ci + 1 = 1
    BY <1>7
  <2> QED
    BY <1>2, <1>4, <2>1, <2>2 DEF CallInv
<1>9. Running # Main
  BY <1>2, <1>7 DEF FrameInv
<1>10. ASSUME NEW m \in 1..N - 1 PROVE cstack[m].l # Running
  <2>1. m \in 1..N /\ ~(N \in 1..m)
    BY <1>2
  <2> QED
    BY <1>2, <1>7, <1>9, <2>1, BeginsWithResume
<1> QED
  BY <1>6, <1>7, <1>8, <1>9, <1>10

LEMMA BelowLast ==
    ASSUME NEW a \in Nat, NEW b \in Nat, b > a + 1
    PROVE  \A i \in 1..a + 1 : i \in 1..b - 1 /\ i <= b
  OBVIOUS

\* The running coroutine, which is now t, leaves through the resume on top.
LEMMA BackToResumerFrames ==
    ASSUME Inv, Inv', FrameInv, InLua, Top.k = "resume", NEW t \in Good, t.nCcalls = N,
           t.baseCcalls = L.baseCcalls, t.errfunc = L.errfunc, OffInv(t), BackToResumer(t)
    PROVE  FrameInv'
<1>1. throwing = "no"
  BY DEF InLua
<1>2. PICK n \in Nat : n = N - 1 /\ n > 0 /\ n < N /\ n \in 1..N /\ n + 1 = N
  <2>1. N # 1
    BY <1>1, RunningFacts DEF StackInv, CStackInv
  <2> QED
    BY <1>1, <2>1, RunningFacts
<1>3. Ends(n) /\ cstack[n] \in AnyCall
  BY <1>1, <1>2, RunningFacts DEF Ends, StackInv, CStackInv, N
<1> DEFINE caller == cstack[n].l
           left == [t EXCEPT !.nCcalls = @ - 1]
           r == Resumed(left, th[caller])
<1>4. /\ cstack' = SubSeq(cstack, 1, n)
      /\ th' = [th EXCEPT ![Running] = r.co, ![caller] = r.to.l]
      /\ bad' = (bad \/ t.nCcalls # t.baseCcalls)
  BY <1>2 DEF BackToResumer, Pop, N
<1>5. /\ caller \in Threads /\ caller # Running /\ th[caller] \in Thread
      /\ Len(th[caller].ci) > cstack[n].ci + 1 /\ cstack[n].ci \in Nat
      /\ Len(th[caller].ci) \in Nat
  BY <1>1, <1>2, <1>3, RunningFacts, WaitingThread
<1>6. /\ left \in Thread /\ left.status = t.status /\ left.ci = t.ci /\ left.errfunc = t.errfunc
  <2>1. t.nCcalls - 1 \in Nat
    BY <1>1, RunningFacts
  <2> QED
    BY <2>1 DEF Good, Thread
<1> HIDE DEF left
<1>7. /\ Continues(r.to.l, th[caller])
      /\ r.co.status = t.status /\ r.co.ci = t.ci /\ r.co.errfunc = t.errfunc
  BY <1>5, <1>6, ResumedContinues
<1> HIDE DEF r, caller
<1>8. /\ th'[caller] = r.to.l /\ th'[Running] = r.co
      /\ \A l \in Threads \ {Running, caller} : th'[l] = th[l]
  BY <1>1, <1>4, <1>5, RunningFacts DEF StackInv
<1>9. ~bad'
  BY <1>1, <1>4, ResumeIsBare, FrameFacts
<1>10. th'[Main].baseCcalls = 0
  <2>1. th[Main].baseCcalls = 0 /\ Main # Running /\ Main \in Threads
    BY ResumeIsBare DEF FrameInv, Threads
  <2> QED
    BY <1>7, <1>8, <2>1 DEF Continues
<1>11. ASSUME NEW m \in 1..n, cstack[m].l # caller PROVE th'[cstack[m].l] = th[cstack[m].l]
  <2>1. m \in 1..N - 1 /\ m \in 1..N
    BY <1>2
  <2>2. cstack[m] \in AnyCall
    BY <2>1 DEF Inv, StackInv, CStackInv, N
  <2>3. cstack[m].l # Running /\ cstack[m].l \in Threads
    BY <2>1, <2>2, ResumeIsBare DEF AnyCall
  <2> QED
    BY <1>8, <1>11, <2>3
<1>12. ASSUME NEW co \in Co, ~OnStack(co)' PROVE OffInv(th'[co])
  <2>1. N' = n /\ \A m \in 1..n : cstack'[m] = cstack[m]
    BY <1>1, <1>2, <1>4, RunningFacts DEF StackInv, CStackInv, N
  <2>2. \A m \in 1..n : cstack[m].l # co
    BY <1>12, <2>1 DEF OnStack
  <2>3. CASE co = Running
    BY <1>7, <1>8, <2>3 DEF OffInv
  <2>4. CASE co # Running
    <3>1. co # caller
      BY <1>2, <2>2 DEF caller
    <3>2. \A m \in 1..N : m \in 1..n \/ m = N
      BY <1>2
    <3>3. ~OnStack(co)
      BY <1>1, <2>2, <2>4, <3>2, RunningFacts DEF OnStack
    <3>4. OffInv(th[co])
      BY <1>1, <3>3, FrameFacts
    <3>5. th'[co] = th[co]
      BY <1>8, <2>4, <3>1 DEF Threads
    <3> QED
      BY <3>4, <3>5
  <2> QED
    BY <2>3, <2>4
<1>13. SameFrames(r.to.l, th[caller], cstack[n].ci + 1)
  <2>1. \A i \in 1..cstack[n].ci + 1 : i \in 1..Len(th[caller].ci) - 1 /\ i <= Len(th[caller].ci)
    BY <1>5, BelowLast
  <2> QED
    BY <1>7, <2>1 DEF SameFrames, Continues
<1>14. ASSUME NEW p \in 1..n, Rules(p, n) PROVE r.to.l.errfunc = WithHandler(p)
  <2>1. p \in 1..N
    BY <1>2
  <2>2. th[caller].errfunc = WithHandler(p)
    BY <1>2, <1>3, <1>14, <2>1 DEF FrameInv, HandlerInv, caller
  <2> QED
    BY <1>7, <2>2 DEF Continues
<1>15. CutsTo(n)
  <2>1. th'[caller].baseCcalls = th[caller].baseCcalls
    BY <1>7, <1>8 DEF Continues
  <2> QED
    BY <1>4, <1>8, <1>9, <1>10, <1>11, <1>12, <1>13, <1>14, <2>1 DEF CutsTo, caller
<1> QED
  BY <1>2, <1>15, FramesCut

\* A coroutine that may yield left no call from C (lua_yield()).
LEMMA YieldsFromResume ==
    ASSUME Inv, FrameInv, InLua, CanYield(L)
    PROVE  Top.k = "resume"
<1>1. throwing = "no"
  BY DEF InLua
<1>2. N \in 1..N /\ Top = cstack[N] /\ cstack[N].l = Running /\ L = th[Running] /\ N \in Nat
      /\ L.nCcalls = N
  BY <1>1, RunningFacts
<1>3. CASE Running = Main
  BY <1>2, <1>3 DEF CanYield, FrameInv
<1>4. CASE Running # Main
  <2>1. L.baseCcalls \in 1..N /\ cstack[L.baseCcalls].k = "resume"
    BY <1>2, <1>4, BeginsWithResume
  <2>2. L.baseCcalls = N
    BY <1>2, <2>1 DEF CanYield
  <2> QED
    BY <1>2, <2>1, <2>2
<1> QED
  BY <1>3, <1>4

LEMMA lua_yieldFrames ==
    ASSUME Inv, Inv', FrameInv, lua_yield
    PROVE  FrameInv'
<1>1. InLua /\ throwing = "no"
  BY DEF lua_yield, InLua
<1> DEFINE ci == Append(L.ci, "yield")
<1>2. PICK vals \in Lists :
          IF ~CanYield(L)
          THEN /\ th' = [th EXCEPT ![Running].ci = Append(@, "yield")]
               /\ UNCHANGED <<cstack, bad>>
          ELSE IF Top.k # "resume" THEN bad' = TRUE
          ELSE BackToResumer([L EXCEPT !.ci = Append(@, "yield"), !.status = "yield",
                                       !.stack = vals])
  BY DEF lua_yield
<1>3. ci \in Seq(Frame) /\ Len(ci) = Len(L.ci) + 1 /\ vals \in Seq(Value)
  BY <1>1, RunningFacts, AppendType, CoroutineAssumption DEF Frame
<1>4. CASE ~CanYield(L)
  <2> DEFINE u == [L EXCEPT !.ci = ci]
  <2>1. th' = [th EXCEPT ![Running] = u] /\ UNCHANGED <<cstack, bad>>
    BY <1>1, <1>2, <1>4, RunningFacts DEF StackInv
  <2>2. u.ci = Append(L.ci, "yield") /\ u.errfunc = L.errfunc /\ u.baseCcalls = L.baseCcalls
    BY <1>1, RunningFacts DEF Thread
  <2> HIDE DEF u
  <2>3. th'[Running] = u /\ \A l \in Threads \ {Running} : th'[l] = th[l]
    BY <1>1, <2>1, RunningFacts DEF StackInv
  <2>4. Top.ci + 1 \in Nat /\ Top.ci + 1 <= Len(L.ci)
    BY <1>1, RunningFacts
  <2>5. SameFrames(u, L, Top.ci + 1)
    BY <1>1, <2>2, <2>4, RunningFacts, AppendKeeps
  <2>6. \A co \in Co : ~OnStack(co) => OffInv(th'[co])
    BY <1>1, <2>3, FrameFacts DEF Threads
  <2> QED
    BY <1>1, <2>1, <2>2, <2>3, <2>5, <2>6, RunningFacts, FramesStay
<1>5. CASE CanYield(L)
  <2> DEFINE u == [L EXCEPT !.ci = ci, !.status = "yield", !.stack = vals]
  <2>1. Top.k = "resume" /\ BackToResumer(u)
    BY <1>1, <1>2, <1>5, YieldsFromResume
  <2>2. Len(L.ci) > 0 /\ Len(ci) >= 2 /\ ci[1] = L.ci[1]
    BY <1>1, <1>3, RunningFacts
  <2> HIDE DEF ci
  <2>3. /\ u \in Thread /\ u.nCcalls = N /\ u.ci = ci /\ u.status = "yield"
        /\ u.errfunc = L.errfunc /\ u.baseCcalls = L.baseCcalls
    BY <1>1, <1>3, RunningFacts DEF Thread
  <2> HIDE DEF u
  <2>4. u \in Good
    BY <2>2, <2>3 DEF Good
  <2>5. OffInv(u)
    BY <1>1, <2>1, <2>2, <2>3, ResumeIsBare DEF OffInv
  <2> QED
    BY <1>1, <2>1, <2>3, <2>4, <2>5, BackToResumerFrames
<1> QED
  BY <1>4, <1>5

\* A resume that is refused, or has no room for the arguments.
LEMMA RefusedFrames ==
    ASSUME Inv, Inv', FrameInv, InLua, NEW fn \in {"resume", "wrap"}, NEW u,
           u = Asking(fn) \/ u = Refused(Asking(fn)).l,
           th'[Running] = u, \A l \in Threads \ {Running} : OnStack(l) => th'[l] = th[l],
           \A co \in Co : ~OnStack(co) => OffInv(th'[co]), UNCHANGED <<cstack, bad>>
    PROVE  FrameInv'
<1>1. throwing = "no"
  BY DEF InLua
<1> DEFINE a == Asking(fn)
<1>2. a \in Thread /\ a.ci # << >> /\ Len(a.ci) = Len(L.ci) + 1
  BY AskingType
<1>3. a.ci = Append(L.ci, fn) /\ a.errfunc = L.errfunc /\ a.baseCcalls = L.baseCcalls
  BY <1>1, RunningFacts DEF Asking, Thread
<1> HIDE DEF a
<1>4. Continues(u, a)
  <2>1. Continues(a, a)
    BY DEF Continues
  <2>2. Continues(Refused(a).l, a)
    BY <1>2, NewThreadType, AnswerContinues
  <2> QED
    BY <2>1, <2>2 DEF a
<1>5. SameFrames(u, L, Top.ci + 1)
  <2>1. \A i \in 1..Len(L.ci) : a.ci[i] = L.ci[i]
    BY <1>1, <1>3, RunningFacts
  <2>2. \A i \in 1..Len(L.ci) : i <= Len(u.ci) => u.ci[i] = a.ci[i]
    <3>1. Len(a.ci) - 1 = Len(L.ci)
      BY <1>1, <1>2, RunningFacts
    <3> QED
      BY <1>4, <3>1 DEF Continues
  <2>3. \A i \in 1..Top.ci + 1 : i \in 1..Len(L.ci)
    BY <1>1, RunningFacts
  <2> QED
    BY <2>1, <2>2, <2>3 DEF SameFrames
<1>6. u.errfunc = L.errfunc /\ u.baseCcalls = L.baseCcalls
  BY <1>3, <1>4 DEF Continues
<1> QED
  BY <1>1, <1>5, <1>6, RunningFacts, FramesStay

LEMMA lua_resumeFrames ==
    ASSUME Inv, Inv', FrameInv, InLua, NEW fn \in {"resume", "wrap"}, NEW co \in Co,
           NEW args \in Seq(Value), costatus(co) = "suspended", lua_resume(co, args, Asking(fn))
    PROVE  FrameInv'
<1> DEFINE a == Asking(fn)
           levelled == lua_setlevel(a, th[co])
           level == levelled.nCcalls
           started == [levelled EXCEPT !.nCcalls = level + 1, !.baseCcalls = level + 1]
           c == CCall("resume", co, 0, level, FALSE)
           going == IF IsCallable(started) THEN Continued(started, args) ELSE started
<1>1. throwing = "no"
  BY DEF InLua
<1>2. a \in Thread /\ a.nCcalls = N /\ Len(a.ci) = Len(L.ci) + 1
  BY AskingType
<1>3. a.ci = Append(L.ci, fn) /\ a.errfunc = L.errfunc /\ a.baseCcalls = L.baseCcalls
  BY <1>1, RunningFacts DEF Asking, Thread
<1>4. /\ co \in Threads /\ co # Running /\ ~OnStack(co)
      /\ th[co] \in Good /\ th[co] \in Thread
      /\ th[co].status = "yield" \/ (th[co].status = "0" /\ th[co].ci = << >>)
  <2>1. co \in Threads /\ th[co] \in Good /\ th[co] \in Thread
    BY <1>1, RunningFacts DEF Threads, StackInv, Good
  <2>2. /\ co # Running
        /\ th[co].status = "yield" \/ (th[co].status = "0" /\ th[co].ci = << >>)
    BY DEF costatus
  <2> QED
    BY <1>1, <2>1, <2>2, OnStackRuns DEF Inv
<1>5. OffInv(th[co]) /\ th[co].errfunc = FALSE
  <2>1. OffInv(th[co])
    BY <1>1, <1>4, FrameFacts
  <2> QED
    BY <1>4, <2>1 DEF OffInv, Thread
<1> HIDE DEF a
<1>6. /\ levelled \in Thread /\ level = N /\ levelled.status = th[co].status
      /\ levelled.ci = th[co].ci /\ levelled.errfunc = FALSE
  BY <1>1, <1>2, <1>4, <1>5, RunningFacts DEF lua_setlevel, Thread
<1> HIDE DEF levelled
<1>7. CASE level >= LUAI_MAXCCALLS
  <2> DEFINE t == OutOfCalls(levelled)
  <2>1. t.status = th[co].status /\ t.ci = th[co].ci /\ t.errfunc = FALSE
    BY <1>6 DEF OutOfCalls, Thread
  <2>2. OffInv(t)
    BY <1>5, <2>1 DEF OffInv
  <2>3. /\ th' = [th EXCEPT ![co] = t, ![Running] = Refused(a).l]
        /\ UNCHANGED <<cstack, bad>>
    BY <1>7 DEF lua_resume, a, levelled
  <2> HIDE DEF t
  <2>4. /\ th'[Running] = Refused(a).l /\ th'[co] = t
        /\ \A l \in Threads \ {Running, co} : th'[l] = th[l]
    BY <1>1, <1>4, <2>3, RunningFacts DEF StackInv
  <2>5. \A l \in Threads \ {Running} : OnStack(l) => th'[l] = th[l]
    BY <1>4, <2>4
  <2>6. \A l \in Co : ~OnStack(l) => OffInv(th'[l])
    BY <1>1, <2>2, <2>4, FrameFacts DEF Threads
  <2> QED
    BY <2>3, <2>4, <2>5, <2>6, RefusedFrames DEF a
<1>8. CASE ~(level >= LUAI_MAXCCALLS)
  <2>1. /\ started \in Thread /\ started.errfunc = FALSE /\ started.baseCcalls = N + 1
        /\ started.status = th[co].status /\ started.ci = th[co].ci
    <3>1. level + 1 \in Nat
      BY <1>1, <1>6, RunningFacts
    <3> QED
      BY <1>6, <3>1 DEF Thread
  <2>2. /\ cstack' = Append(cstack, c)
        /\ th' = [th EXCEPT ![Running] = a, ![co] = going]
        /\ bad' = (bad \/ started.errfunc \/ (started.status = "0" /\ started.ci # << >>))
    BY <1>8 DEF lua_resume, a, levelled
  <2> HIDE DEF started
  <2>3. ~bad'
    BY <1>1, <1>4, <2>1, <2>2, FrameFacts
  <2>4. /\ going.errfunc = FALSE /\ going.baseCcalls = N + 1
        /\ Len(going.ci) > 0 => going.ci[1] = "Lua"
    <3>1. CASE ~IsCallable(started)
      <4>1. going = started /\ started.status = "0" /\ started.ci = << >>
        BY <1>4, <2>1, <3>1 DEF IsCallable
      <4>2. Len(started.ci) = 0
        BY <4>1
      <4> QED
        BY <2>1, <4>1, <4>2
    <3>2. CASE IsCallable(started) /\ started.status = "0"
      <4> DEFINE first == <<"Lua">>
      <4>1. going = [started EXCEPT !.ci = first, !.stack = args]
        BY <3>2 DEF Continued
      <4>2. first[1] = "Lua"
        OBVIOUS
      <4> HIDE DEF first
      <4>3. going.errfunc = FALSE /\ going.baseCcalls = N + 1 /\ going.ci = first
        BY <2>1, <4>1 DEF Thread
      <4> QED
        BY <4>2, <4>3
    <3>3. CASE IsCallable(started) /\ started.status # "0"
      <4> DEFINE back == Results(started, args)
      <4>1. going = [back EXCEPT !.status = "0"]
        BY <3>3 DEF Continued
      <4>2. /\ Len(started.ci) >= 2 /\ Len(started.ci) \in Nat /\ started.ci # << >>
            /\ started.ci[1] = "Lua"
        <5>1. started.status = "yield" /\ th[co].ci[1] = "Lua"
          BY <1>4, <1>5, <2>1, <3>3 DEF OffInv
        <5>2. Len(started.ci) >= 2 /\ Len(started.ci) \in Nat
          <6>1. th[co].status = "yield" /\ started.ci = th[co].ci
            BY <2>1, <5>1
          <6>2. Len(th[co].ci) >= 2
            BY <1>4, <6>1 DEF Good
          <6>3. Len(th[co].ci) \in Nat
            BY <1>4 DEF Thread
          <6> QED
            BY <6>1, <6>2, <6>3
        <5>3. started.ci # << >>
          BY <5>2
        <5> QED
          BY <2>1, <5>1, <5>2, <5>3
      <4>3. back \in Thread /\ Len(back.ci) = Len(started.ci) - 1
        BY <2>1, <4>2, ResultsType
      <4>4. Continues(back, started)
        BY <2>1, ResultsContinue
      <4> HIDE DEF back
      <4>5. 1 \in 1..Len(started.ci) - 1 /\ 1 <= Len(back.ci)
        BY <4>2, <4>3
      <4>6. back.ci[1] = "Lua" /\ back.errfunc = FALSE /\ back.baseCcalls = N + 1
        BY <2>1, <4>2, <4>4, <4>5 DEF Continues
      <4>7. /\ going.errfunc = back.errfunc /\ going.baseCcalls = back.baseCcalls
            /\ going.ci = back.ci
        BY <4>1, <4>3 DEF Thread
      <4> QED
        BY <4>6, <4>7
    <3> QED
      BY <3>1, <3>2, <3>3
  <2> HIDE DEF going
  <2>5. /\ th'[Running] = a /\ th'[co] = going
        /\ \A l \in Threads \ {Running, co} : th'[l] = th[l]
    BY <1>1, <1>4, <2>2, RunningFacts DEF StackInv
  <2>6. c \in AnyCall /\ c.k = "resume" /\ c.l = co /\ c.ci = 0
    BY <1>1, <1>4, <1>6, RunningFacts DEF CCall, AnyCall
  <2> HIDE DEF c
  <2>7. SameFrames(a, L, Top.ci + 1)
    <3>1. Top.ci + 1 \in Nat /\ Top.ci + 1 <= Len(L.ci)
      BY <1>1, RunningFacts
    <3> QED
      BY <1>1, <1>3, <3>1, RunningFacts, AppendKeeps
  <2>8. \A l \in Co : ~OnStack(l) /\ l # co => OffInv(th'[l])
    BY <1>1, <2>5, FrameFacts DEF Threads
  <2>9. Len(th'[c.l].ci) > c.ci => th'[c.l].ci[c.ci + 1] = "Lua"
    BY <2>4, <2>5, <2>6
  <2>10. Pushes(c)
    BY <1>3, <1>4, <2>2, <2>3, <2>4, <2>5, <2>6, <2>7, <2>8, <2>9 DEF Pushes
  <2> QED
    BY <1>1, <2>6, <2>10, RunningFacts, FramesPushed
<1> QED
  BY <1>7, <1>8

LEMMA auxresumeFrames ==
    ASSUME Inv, Inv', FrameInv, auxresume
    PROVE  FrameInv'
<1>1. InLua /\ throwing = "no"
  BY DEF auxresume, InLua
<1>2. PICK fn \in {"resume", "wrap"}, co \in Co, args \in Lists :
          LET l == Asking(fn)
              to == Refused(l)
              room == IF co = Running THEN [l EXCEPT !.stack = @ \o args] ELSE th[co]
          IN  /\ th[co].status # "none"
              /\ sent' = args
              /\ IF ~lua_checkstack(room, Len(args))
                 THEN th' = [th EXCEPT ![Running] = l] /\ throwing' = "raise"
                      /\ UNCHANGED <<cstack, bad>>
                 ELSE IF costatus(co) # "suspended"
                 THEN th' = [th EXCEPT ![Running] = to.l] /\ throwing' = Raised(to.err)
                      /\ UNCHANGED <<cstack, bad>>
                 ELSE lua_resume(co, args, l)
  BY DEF auxresume
<1>3. args \in Seq(Value)
  BY <1>2, CoroutineAssumption
<1>4. CASE /\ \/ th' = [th EXCEPT ![Running] = Asking(fn)]
              \/ th' = [th EXCEPT ![Running] = Refused(Asking(fn)).l]
           /\ UNCHANGED <<cstack, bad>>
  <2>1. /\ th'[Running] = Asking(fn) \/ th'[Running] = Refused(Asking(fn)).l
        /\ \A l \in Threads \ {Running} : th'[l] = th[l]
    BY <1>1, <1>4, RunningFacts DEF StackInv
  <2>2. \A l \in Co : ~OnStack(l) => OffInv(th'[l])
    BY <1>1, <2>1, FrameFacts DEF Threads
  <2> QED
    BY <1>1, <1>4, <2>1, <2>2, RefusedFrames
<1>5. CASE costatus(co) = "suspended" /\ lua_resume(co, args, Asking(fn))
  BY <1>1, <1>3, <1>5, lua_resumeFrames
<1> QED
  BY <1>2, <1>4, <1>5

LEMMA ResultsFrames ==
    ASSUME NEW t \in Thread, NEW vals \in Seq(Value), t.ci # << >>
    PROVE  /\ Results(t, vals).errfunc = t.errfunc /\ Results(t, vals).baseCcalls = t.baseCcalls
           /\ \A i \in 1..Len(Results(t, vals).ci) :
                  i <= Len(t.ci) /\ Results(t, vals).ci[i] = t.ci[i]
<1>1. Len(t.ci) \in Nat /\ Len(Results(t, vals).ci) = Len(t.ci) - 1
  <2>1. Len(t.ci) \in Nat
    BY DEF Thread
  <2> QED
    BY <2>1, ResultsType
<1>2. Continues(Results(t, vals), t)
  BY ResultsContinue
<1>3. \A i \in 1..Len(Results(t, vals).ci) : i \in 1..Len(t.ci) - 1 /\ i <= Len(t.ci)
                                             /\ i <= Len(Results(t, vals).ci)
  BY <1>1
<1> QED
  BY <1>2, <1>3 DEF Continues

\* The last call of the running thread, which is now u, ends: the one below goes on.
LEMMA OneLessFrames ==
    ASSUME Inv, Inv', FrameInv, InLua \/ throwing # "no", NEW n \in Nat, n < N,
           cstack[n + 1].k # "resume",
           \A m \in n + 1..N : cstack[m].l = Running,
           NEW u, th' = [th EXCEPT ![Running] = u], cstack' = SubSeq(cstack, 1, n),
           bad' = bad, u.errfunc = cstack[n + 1].errfunc, u.baseCcalls = L.baseCcalls,
           \A i \in 1..Len(u.ci) : i <= Len(L.ci) /\ u.ci[i] = L.ci[i]
    PROVE  FrameInv'
<1>1. N' = n /\ \A m \in 1..n : cstack'[m] = cstack[m]
  <2>1. cstack \in Seq(AnyCall) /\ N \in Nat
    BY DEF Inv, StackInv, CStackInv, N
  <2> QED
    BY <2>1 DEF N
<1>2. th'[Running] = u /\ \A l \in Threads \ {Running} : th'[l] = th[l]
  BY RunningFacts DEF StackInv
<1>3. n = 0 => Running = Main
  BY RunningFacts DEF StackInv, CStackInv
<1>4. n > 0 => cstack[n].l = Running
  <2> SUFFICES ASSUME n > 0 PROVE cstack[n].l = Running
    OBVIOUS
  <2>1. n + 1 \in 2..N /\ n + 1 - 1 = n
    BY RunningFacts
  <2>2. Follows(cstack[n + 1], cstack[n])
    BY <2>1 DEF Inv, StackInv, CStackInv
  <2>3. cstack[n + 1].l = Running
    <3>1. n + 1 \in n + 1..N
      BY <2>1
    <3> QED
      BY <3>1
  <2> QED
    BY <2>2, <2>3 DEF Follows
<1>5. th'[Main].baseCcalls = 0
  <2>1. th[Main].baseCcalls = 0 /\ Main \in Threads
    BY DEF FrameInv, Threads
  <2>2. CASE Main = Running
    BY <1>2, <2>1, <2>2, RunningFacts
  <2>3. CASE Main # Running
    BY <1>2, <2>1, <2>3
  <2> QED
    BY <2>2, <2>3
<1>6. ASSUME NEW co \in Co, ~OnStack(co)' PROVE OffInv(th'[co])
  <2>1. \A m \in 1..n : cstack[m].l # co
    BY <1>1, <1>6 DEF OnStack
  <2>2. co # Running
    <3>1. CASE n = 0
      BY <1>3, <3>1, CoroutineAssumption
    <3>2. CASE n > 0
      <4>1. n \in 1..n
        BY <3>2
      <4> QED
        BY <1>4, <2>1, <3>2, <4>1
    <3> QED
      BY <3>1, <3>2
  <2>3. \A m \in 1..N : m \in 1..n \/ m \in n + 1..N
    BY RunningFacts
  <2>4. ~OnStack(co)
    BY <2>1, <2>2, <2>3 DEF OnStack
  <2>5. OffInv(th[co])
    BY <2>4, FrameFacts
  <2> QED
    BY <1>2, <2>2, <2>5 DEF Threads
<1>7. ASSUME NEW m \in 1..n, cstack[m].l # cstack[n].l PROVE th'[cstack[m].l] = th[cstack[m].l]
  <2>1. m \in 1..N /\ n > 0
    BY RunningFacts
  <2>2. cstack[m] \in AnyCall
    BY <2>1 DEF Inv, StackInv, CStackInv, N
  <2>3. cstack[m].l \in Threads /\ cstack[m].l # Running
    BY <1>4, <1>7, <2>1, <2>2 DEF AnyCall
  <2> QED
    BY <1>2, <2>3
<1>8. ASSUME n > 0, NEW p \in 1..n, Rules(p, n) PROVE u.errfunc = WithHandler(p)
  <2>1. n \in 1..N /\ p \in 1..N /\ n < N
    BY <1>8, RunningFacts
  <2> QED
    BY <1>8, <2>1 DEF FrameInv, HandlerInv
<1>9. SameFrames(u, L, IF n > 0 THEN cstack[n].ci + 1 ELSE 0)
  <2> SUFFICES ASSUME NEW k, NEW i \in 1..k, i <= Len(u.ci)
               PROVE  u.ci[i] = IF i <= Len(L.ci) THEN L.ci[i] ELSE "Lua"
    BY DEF SameFrames
  <2>1. Len(u.ci) \in Nat
    <3>1. u \in Thread
      BY <1>2, RunningFacts DEF Inv, StackInv, Good
    <3> QED
      BY <3>1 DEF Thread
  <2>2. i \in 1..Len(u.ci)
    BY <2>1
  <2> QED
    BY <2>2
<1>10. ~bad'
  BY FrameFacts
<1>11. CutsTo(n)
  <2>1. n > 0 => /\ th'[cstack[n].l] = u /\ th[cstack[n].l] = L
                 /\ SameFrames(u, L, cstack[n].ci + 1)
    BY <1>2, <1>4, <1>9, RunningFacts
  <2> QED
    BY <1>5, <1>6, <1>7, <1>8, <1>10, <2>1 DEF CutsTo
<1> QED
  BY <1>11, FramesCut

LEMMA ReturnFrames ==
    ASSUME Inv, Inv', FrameInv, Return
    PROVE  FrameInv'
<1>1. InLua /\ throwing = "no" /\ L.ci # << >>
  BY DEF Return, InLua
<1>2. PICK vals \in Lists :
          LET l == Results(L, vals)
          IN  /\ sent' = vals
              /\ IF Len(l.ci) > Top.ci
                 THEN th' = [th EXCEPT ![Running] = l] /\ UNCHANGED <<cstack, throwing, bad>>
                 ELSE IF Top.k = "resume" THEN BackToResumer(l)
                 ELSE /\ cstack' = Pop(cstack)
                      /\ th' = [th EXCEPT ![Running] =
                                  [IF Top.k = "pcall" /\ l.ci # << >>
                                   THEN Results(l, <<"true">> \o vals) ELSE l
                                   EXCEPT !.nCcalls = @ - 1, !.errfunc = Top.errfunc]]
                      /\ throwing' = IF Top.k = "handler" THEN "throw" ELSE "no"
                      /\ UNCHANGED bad
  BY DEF Return
<1> DEFINE t == Results(L, vals)
<1>3. vals \in Seq(Value)
  BY CoroutineAssumption
<1>4. /\ t \in Thread /\ t.nCcalls = N /\ t.status = "0" /\ Len(t.ci) = Len(L.ci) - 1
      /\ t.errfunc = L.errfunc /\ t.baseCcalls = L.baseCcalls /\ Len(t.ci) \in Nat
      /\ \A i \in 1..Len(t.ci) : i <= Len(L.ci) /\ t.ci[i] = L.ci[i]
  <2>1. /\ t \in Thread /\ t.nCcalls = N /\ t.status = "0" /\ Len(t.ci) = Len(L.ci) - 1
    BY <1>1, <1>3, RunningFacts, ResultsType
  <2>2. Len(t.ci) \in Nat
    BY <2>1 DEF Thread
  <2>3. /\ t.errfunc = L.errfunc /\ t.baseCcalls = L.baseCcalls
        /\ \A i \in 1..Len(t.ci) : i <= Len(L.ci) /\ t.ci[i] = L.ci[i]
    BY <1>1, <1>3, RunningFacts, ResultsFrames
  <2> QED
    BY <2>1, <2>2, <2>3
<1>5. CASE Len(t.ci) > Top.ci
  <2>1. th' = [th EXCEPT ![Running] = t] /\ UNCHANGED <<cstack, throwing, bad>>
    BY <1>2, <1>5
  <2> HIDE DEF t
  <2>2. th'[Running] = t /\ \A l \in Threads \ {Running} : th'[l] = th[l]
    BY <1>1, <2>1, RunningFacts DEF StackInv
  <2>3. SameFrames(t, L, Top.ci + 1)
    <3>1. \A i \in 1..Top.ci + 1 : i \in 1..Len(t.ci)
      BY <1>1, <1>4, <1>5, RunningFacts
    <3> QED
      BY <1>4, <3>1 DEF SameFrames
  <2>4. \A co \in Co : ~OnStack(co) => OffInv(th'[co])
    BY <1>1, <2>2, FrameFacts DEF Threads
  <2> QED
    BY <1>1, <1>4, <2>1, <2>2, <2>3, <2>4, RunningFacts, FramesStay
<1>6. CASE ~(Len(t.ci) > Top.ci) /\ Top.k = "resume"
  <2>1. BackToResumer(t)
    BY <1>2, <1>6
  <2> HIDE DEF t
  <2>2. t.ci = << >>
    <3>1. Top.ci = 0
      BY <1>1, <1>6, ResumeIsBare
    <3>2. t.ci \in Seq(Frame) /\ Len(t.ci) \in Nat
      BY <1>4 DEF Thread
    <3>3. ~(Len(t.ci) > 0)
      BY <1>6, <3>1
    <3>4. Len(t.ci) = 0
      BY <3>2, <3>3
    <3> QED
      BY <3>2, <3>4
  <2>3. OffInv(t) /\ t \in Good
    BY <1>1, <1>4, <1>6, <2>2, ResumeIsBare DEF OffInv, Good
  <2> QED
    BY <1>1, <1>4, <1>6, <2>1, <2>3, BackToResumerFrames
<1>7. CASE ~(Len(t.ci) > Top.ci) /\ Top.k # "resume"
  <2> DEFINE all == <<"true">> \o vals
             answered == IF Top.k = "pcall" /\ t.ci # << >> THEN Results(t, all) ELSE t
             u == [answered EXCEPT !.nCcalls = @ - 1, !.errfunc = Top.errfunc]
  <2>1. PICK n \in Nat : n = N - 1 /\ n < N /\ n + 1 = N
    BY <1>1, RunningFacts
  <2>2. /\ cstack' = SubSeq(cstack, 1, n) /\ th' = [th EXCEPT ![Running] = u]
        /\ UNCHANGED bad
    BY <1>2, <1>7, <2>1 DEF Pop, N
  <2>3. all \in Seq(Value)
    <3>1. "true" \in Value
      BY CoroutineAssumption
    <3>2. <<"true">> \in Seq(Value)
      BY <3>1, ShortList
    <3> QED
      BY <1>3, <3>2, ConcatProperties
  <2> HIDE DEF t, all
  <2>4. /\ answered \in Thread
        /\ answered.baseCcalls = L.baseCcalls
        /\ \A i \in 1..Len(answered.ci) : i <= Len(L.ci) /\ answered.ci[i] = L.ci[i]
    <3>1. CASE Top.k = "pcall" /\ t.ci # << >>
      <4> DEFINE w == Results(t, all)
      <4>1. /\ w \in Thread /\ w.baseCcalls = t.baseCcalls
            /\ \A i \in 1..Len(w.ci) : i <= Len(t.ci) /\ w.ci[i] = t.ci[i]
        BY <1>4, <2>3, <3>1, ResultsType, ResultsFrames
      <4> HIDE DEF w
      <4>2. \A i \in 1..Len(w.ci) : i \in 1..Len(t.ci)
        BY <1>4, <4>1
      <4>3. \A i \in 1..Len(w.ci) : i <= Len(L.ci) /\ w.ci[i] = L.ci[i]
        BY <1>4, <4>1, <4>2
      <4>4. answered = w
        BY <3>1 DEF w
      <4> HIDE DEF answered
      <4> QED
        BY <1>4, <4>1, <4>3, <4>4
    <3>2. CASE ~(Top.k = "pcall" /\ t.ci # << >>)
      <4>1. answered = t
        BY <3>2
      <4> HIDE DEF answered
      <4> QED
        BY <1>4, <4>1
    <3> QED
      BY <3>1, <3>2
  <2> HIDE DEF answered
  <2>5. /\ u.ci = answered.ci /\ u.baseCcalls = L.baseCcalls /\ u.errfunc = Top.errfunc
    BY <2>4 DEF Thread
  <2> HIDE DEF u
  <2>6. Top = cstack[n + 1] /\ \A m \in n + 1..N : cstack[m].l = Running
    BY <1>1, <2>1, RunningFacts
  <2>7. u.errfunc = cstack[n + 1].errfunc /\ cstack[n + 1].k # "resume"
    BY <1>7, <2>5, <2>6
  <2>8. \A i \in 1..Len(u.ci) : i <= Len(L.ci) /\ u.ci[i] = L.ci[i]
    BY <2>4, <2>5
  <2> QED
    BY <1>1, <2>1, <2>2, <2>5, <2>6, <2>7, <2>8, OneLessFrames
<1> QED
  BY <1>5, <1>6, <1>7

LEMMA luaD_throwFrames ==
    ASSUME Inv, Inv', FrameInv, luaD_throw
    PROVE  FrameInv'
<1> DEFINE n == CHOOSE i \in Protected : \A m \in Protected : m <= i
           at == cstack[n]
<1>1. throwing = "throw"
  BY DEF luaD_throw
<1>2. /\ n \in 1..N /\ at.k \in {"pcall", "resume"}
      /\ \A m \in n + 1..N : cstack[m].k \in {"call", "handler"}
  BY <1>1, RunningFacts, LastProtected
<1>3. /\ cstack' = SubSeq(cstack, 1, n - 1) /\ bad' = bad
      /\ IF at.k = "resume"
         THEN LET to == Refused(th[cstack[n - 1].l])
              IN  th' = [th EXCEPT ![at.l].status = "error", ![at.l].nCcalls = @ - 1,
                                   ![at.l].stack = << >>, ![cstack[n - 1].l] = to.l]
         ELSE LET l == Restored(th[at.l], at)
              IN  th' = [th EXCEPT ![at.l] = IF l.ci = << >> THEN l
                                             ELSE Results(l, <<"false", "error">>)]
  BY DEF luaD_throw
<1> HIDE DEF n
<1>4. PICK low \in Nat : low = n - 1 /\ low < N /\ low + 1 = n /\ n \in Nat
  BY <1>1, <1>2, RunningFacts
<1>5. /\ CStackInv /\ cstack \in Seq(AnyCall) /\ at \in AnyCall
      /\ \A m \in 1..N : cstack[m] \in AnyCall
  BY <1>2 DEF Inv, StackInv, CStackInv, N
<1>6. /\ \A m \in n..N : cstack[m].l = Running
      /\ at.l = Running /\ at.ci <= Top.ci /\ at.ci \in Nat
  <2>1. \A m \in n..N : cstack[m].l = at.l /\ cstack[m].ci >= at.ci
    BY <1>2, <1>5, SameThreadAbove
  <2>2. N \in n..N /\ n \in n..N
    BY <1>1, <1>2, RunningFacts
  <2>3. at.ci \in Nat
    BY <1>5 DEF AnyCall
  <2>4. cstack[N].ci >= at.ci /\ cstack[N].l = at.l
    BY <2>1, <2>2
  <2> QED
    BY <1>1, <2>1, <2>3, <2>4, RunningFacts
<1>7. CASE at.k = "resume"
  <2> DEFINE caller == cstack[low].l
             r == Refused(th[caller])
             dead == [L EXCEPT !.status = "error", !.nCcalls = @ - 1, !.stack = << >>]
  <2>1. low \in 1..N /\ low > 0 /\ Ends(low) /\ cstack[low] \in AnyCall
    <3>1. n # 1
      <4>1. cstack[1].k = "pcall"
        BY <1>1, RunningFacts DEF StackInv, CStackInv
      <4> QED
        BY <1>7, <4>1
    <3>2. low \in 1..N /\ low > 0
      BY <1>1, <1>2, <1>4, <3>1, RunningFacts
    <3> QED
      BY <1>4, <1>5, <1>7, <3>2 DEF Ends
  <2>2. /\ caller \in Threads /\ caller # Running /\ th[caller] \in Thread
        /\ Len(th[caller].ci) > cstack[low].ci + 1 /\ cstack[low].ci \in Nat
        /\ Len(th[caller].ci) \in Nat
    BY <1>1, <1>4, <2>1, RunningFacts, WaitingThread
  <2>3. Running # Main /\ L.baseCcalls = n
    <3>1. L.baseCcalls = n
      BY <1>1, <1>2, <1>6, <1>7, RunningFacts DEF FrameInv, CallInv
    <3> QED
      BY <1>1, <1>2, <3>1, RunningFacts DEF FrameInv
  <2>4. \A m \in 1..low : cstack[m].l # Running
    <3> SUFFICES ASSUME NEW m \in 1..low PROVE cstack[m].l # Running
      OBVIOUS
    <3>1. m \in 1..N /\ ~(n \in 1..m)
      BY <1>1, <1>4, RunningFacts
    <3> QED
      BY <1>1, <2>3, <3>1, BeginsWithResume, RunningFacts
  <2>5. Continues(r.l, th[caller])
    BY <2>2, NewThreadType, AnswerContinues
  <2>6. dead.status = "error"
    BY <1>1, RunningFacts DEF Thread
  <2>7. th' = [th EXCEPT ![Running] = dead, ![caller] = r.l]
    <3>1. th' = [th EXCEPT ![Running].status = "error", ![Running].nCcalls = @ - 1,
                           ![Running].stack = << >>, ![caller] = r.l]
      BY <1>3, <1>4, <1>6, <1>7
    <3> HIDE DEF r, caller
    <3> QED
      BY <1>1, <3>1, RunningFacts DEF StackInv
  <2> HIDE DEF r, caller, dead
  <2>8. /\ th'[caller] = r.l /\ th'[Running] = dead
        /\ \A l \in Threads \ {Running, caller} : th'[l] = th[l]
    BY <1>1, <2>2, <2>7, RunningFacts DEF StackInv
  <2>9. th'[Main].baseCcalls = 0
    <3>1. th[Main].baseCcalls = 0 /\ Main \in Threads
      BY DEF FrameInv, Threads
    <3> QED
      BY <2>3, <2>5, <2>8, <3>1 DEF Continues
  <2>10. ASSUME NEW m \in 1..low, cstack[m].l # caller
         PROVE  th'[cstack[m].l] = th[cstack[m].l]
    <3>1. m \in 1..N
      BY <1>1, <1>4, RunningFacts
    <3>2. cstack[m].l \in Threads
      BY <1>5, <3>1 DEF AnyCall
    <3> QED
      BY <2>4, <2>8, <2>10, <3>2
  <2>11. ASSUME NEW co \in Co, ~OnStack(co)' PROVE OffInv(th'[co])
    <3>1. N' = low /\ \A m \in 1..low : cstack'[m] = cstack[m]
      BY <1>1, <1>3, <1>4, <1>5, RunningFacts DEF N
    <3>2. \A m \in 1..low : cstack[m].l # co
      BY <2>11, <3>1 DEF OnStack
    <3>3. CASE co = Running
      BY <2>6, <2>8, <3>3 DEF OffInv
    <3>4. CASE co # Running
      <4>1. low \in 1..low
        BY <2>1
      <4>2. co # caller
        BY <3>2, <4>1 DEF caller
      <4>3. \A m \in 1..N : m \in 1..low \/ m \in n..N
        BY <1>1, <1>4, RunningFacts
      <4>4. ~OnStack(co)
        BY <1>6, <3>2, <3>4, <4>3 DEF OnStack
      <4> QED
        BY <1>1, <2>8, <3>4, <4>2, <4>4, FrameFacts DEF Threads
    <3> QED
      BY <3>3, <3>4
  <2>12. SameFrames(r.l, th[caller], cstack[low].ci + 1)
    <3>1. \A i \in 1..cstack[low].ci + 1 : i \in 1..Len(th[caller].ci) - 1 /\ i <= Len(th[caller].ci)
      BY <2>2, BelowLast
    <3> QED
      BY <2>5, <3>1 DEF SameFrames, Continues
  <2>13. ASSUME NEW p \in 1..low, Rules(p, low) PROVE r.l.errfunc = WithHandler(p)
    <3>1. p \in 1..N
      BY <1>1, <1>4, RunningFacts
    <3>2. th[caller].errfunc = WithHandler(p)
      BY <2>1, <2>13, <3>1 DEF FrameInv, HandlerInv, caller
    <3> QED
      BY <2>5, <3>2 DEF Continues
  <2>14. CutsTo(low)
    <3>1. th'[caller].baseCcalls = th[caller].baseCcalls
      BY <2>5, <2>8 DEF Continues
    <3>2. ~bad' /\ cstack' = SubSeq(cstack, 1, low)
      BY <1>1, <1>3, <1>4, FrameFacts
    <3> QED
      BY <2>8, <2>9, <2>10, <2>11, <2>12, <2>13, <3>1, <3>2 DEF CutsTo, caller
  <2> QED
    BY <1>4, <2>14, FramesCut
<1>8. CASE at.k = "pcall"
  <2> DEFINE t == Restored(L, at)
             failed == <<"false", "error">>
             u == IF t.ci = << >> THEN t ELSE Results(t, failed)
  <2>1. th' = [th EXCEPT ![Running] = u]
    BY <1>1, <1>3, <1>6, <1>8, RunningFacts
  <2>2. /\ t \in Thread /\ t.errfunc = at.errfunc /\ t.baseCcalls = L.baseCcalls
        /\ \A i \in 1..Len(t.ci) : i <= Len(L.ci) /\ t.ci[i] = L.ci[i]
    <3> DEFINE ci == SubSeq(L.ci, 1, at.ci)
    <3>1. at.ci <= Len(L.ci)
      BY <1>1, <1>6, RunningFacts
    <3>2. ci \in Seq(Frame) /\ Len(ci) = at.ci /\ \A i \in 1..at.ci : ci[i] = L.ci[i]
      BY <1>1, <1>6, <3>1, RunningFacts
    <3>3. t = [L EXCEPT !.ci = ci, !.nCcalls = at.nCcalls, !.errfunc = at.errfunc]
      BY DEF Restored
    <3>4. at.nCcalls \in Nat /\ at.errfunc \in BOOLEAN
      BY <1>5 DEF AnyCall
    <3> HIDE DEF ci, t
    <3>5. t \in Thread /\ t.errfunc = at.errfunc /\ t.baseCcalls = L.baseCcalls /\ t.ci = ci
      BY <1>1, <3>2, <3>3, <3>4, RunningFacts DEF Thread
    <3>6. \A i \in 1..at.ci : i <= Len(L.ci)
      BY <1>1, <1>6, <3>1, RunningFacts
    <3> QED
      BY <3>2, <3>5, <3>6
  <2>3. failed \in Seq(Value)
    <3>1. "false" \in Value /\ "error" \in Value
      BY CoroutineAssumption
    <3> QED
      BY <3>1, ShortList
  <2> HIDE DEF t, failed
  <2>4. /\ u.errfunc = at.errfunc /\ u.baseCcalls = L.baseCcalls
        /\ \A i \in 1..Len(u.ci) : i <= Len(L.ci) /\ u.ci[i] = L.ci[i]
    <3>1. CASE t.ci = << >>
      <4>1. u = t
        BY <3>1
      <4> QED
        BY <2>2, <4>1
    <3>2. CASE t.ci # << >>
      <4> DEFINE w == Results(t, failed)
      <4>1. /\ w.baseCcalls = t.baseCcalls /\ w.errfunc = t.errfunc
            /\ \A i \in 1..Len(w.ci) : i <= Len(t.ci) /\ w.ci[i] = t.ci[i]
        BY <2>2, <2>3, <3>2, ResultsFrames
      <4>2. Len(t.ci) \in Nat
        BY <2>2 DEF Thread
      <4> HIDE DEF w
      <4>3. \A i \in 1..Len(w.ci) : i \in 1..Len(t.ci)
        BY <4>1, <4>2
      <4>4. u = w
        BY <3>2 DEF w
      <4> HIDE DEF u
      <4> QED
        BY <2>2, <4>1, <4>3, <4>4
    <3> QED
      BY <3>1, <3>2
  <2> HIDE DEF u
  <2>5. /\ u.errfunc = cstack[low + 1].errfunc /\ cstack[low + 1].k # "resume"
        /\ \A m \in low + 1..N : cstack[m].l = Running
    BY <1>4, <1>6, <1>8, <2>4
  <2>6. cstack' = SubSeq(cstack, 1, low)
    BY <1>3, <1>4
  <2> HIDE DEF at
  <2> QED
    BY <1>1, <1>3, <1>4, <1>6, <2>1, <2>4, <2>5, <2>6, OneLessFrames
<1> QED
  BY <1>2, <1>7, <1>8

LEMMA FramesKept == Inv /\ FrameInv /\ [Next]_vars => FrameInv'
<1> SUFFICES ASSUME Inv, FrameInv, [Next]_vars PROVE FrameInv'
  OBVIOUS
<1>1. Inv'
  BY StepKeeps
<1> QED
  BY <1>1, drawFrames, CallFrames, CallMetamethodFrames, luaB_pcallFrames, luaB_cocreateFrames,
     auxresumeFrames, lua_yieldFrames, ReturnFrames, luaB_errorFrames, luaG_errormsgFrames,
     luaD_throwFrames DEF Next

LEMMA FrameInvHolds == Spec => []FrameInv
<1>1. Init => FrameInv
  BY FramesBegin
<1>2. Inv /\ FrameInv /\ [Next]_vars => FrameInv'
  BY FramesKept
<1> QED
  BY <1>1, <1>2, InvHolds, PTL DEF Spec

-----------------------------------------------------------------------------
(* The frames fit.                                                         *)

\* The frames of the threads and the C stack fit each other, whatever a program resumes,
\* yields and raises: a call from C goes on in its frame, a thread that waits has one, the
\* next error goes to the handler of the xpcall() it is in, and no assertion of lua_resume()
\* or resume() fails (ldo.c).
THEOREM FramesStayConsistent == Spec => []FramesConsistent
<1>1. Inv /\ FrameInv => AssertionsHold /\ CallsHaveFrames /\ HandlerOfCall
  <2> SUFFICES ASSUME Inv, FrameInv
               PROVE  AssertionsHold /\ CallsHaveFrames /\ HandlerOfCall
    OBVIOUS
  <2>1. AssertionsHold
    BY DEF AssertionsHold, FrameInv
  <2>2. CallsHaveFrames
    <3> SUFFICES ASSUME throwing = "no" PROVE CallsHaveFrames
      BY DEF CallsHaveFrames
    <3>1. ASSUME NEW n \in 1..N
          PROVE  LET l == th[cstack[n].l]
                 IN  Len(l.ci) > cstack[n].ci /\ l.ci[cstack[n].ci + 1] = "Lua"
      <4>1. PICK m \in n..N : /\ Ends(m) /\ cstack[m].l = cstack[n].l
                              /\ cstack[n].ci <= cstack[m].ci
        BY StackHasEnd DEF Inv, HasEnd
      <4>2. N \in Nat /\ m \in 1..N /\ cstack[m] \in AnyCall /\ cstack[n] \in AnyCall
        BY <4>1 DEF Inv, StackInv, CStackInv, N
      <4>3. cstack[m].ci \in Nat /\ cstack[n].ci \in Nat /\ th[cstack[m].l] \in Thread
        BY <4>2 DEF AnyCall, Inv, StackInv, Good
      <4>4. Len(th[cstack[m].l].ci) \in Nat
        BY <4>3 DEF Thread
      <4>5. Len(th[cstack[m].l].ci) > cstack[m].ci
        <5>1. CASE m = N
          BY <4>2, <5>1 DEF Inv, StackInv, RunningInv
        <5>2. CASE m < N
          <6>1. Waiting(m)
            BY <4>1, <4>2, <5>2 DEF Inv, StackInv
          <6> QED
            BY <4>3, <4>4, <6>1 DEF Waiting
        <5> QED
          BY <4>2, <5>1, <5>2
      <4>6. Len(th[cstack[n].l].ci) > cstack[n].ci
        BY <4>1, <4>3, <4>4, <4>5
      <4> QED
        BY <4>6 DEF FrameInv, CallInv
    <3>2. ASSUME NEW co \in Co
          PROVE  OnStack(co) <=> costatus(co) \in {"running", "normal"}
      <4>1. ASSUME OnStack(co) PROVE costatus(co) \in {"running", "normal"}
        <5>1. th[co].status = "0" /\ th[co].ci # << >>
          BY <4>1, OnStackRuns DEF Inv
        <5> QED
          BY <5>1 DEF costatus
      <4>2. ASSUME costatus(co) \in {"running", "normal"} PROVE OnStack(co)
        <5>1. CASE co = Running
          <6>1. cstack # << >>
            BY <5>1, CoroutineAssumption DEF Running
          <6>2. N > 0
            BY <6>1 DEF Inv, StackInv, CStackInv, N
          <6>3. N \in 1..N /\ cstack[N].l = Running
            BY <6>2, RunningThread DEF Inv
          <6> QED
            BY <5>1, <6>3 DEF OnStack
        <5>2. CASE co # Running
          <6>1. th[co].status = "0" /\ th[co].ci # << >>
            BY <4>2, <5>2 DEF costatus
          <6> QED
            BY <6>1 DEF FrameInv, OffInv
        <5> QED
          BY <5>1, <5>2
      <4> QED
        BY <4>1, <4>2
    <3>3. DOMAIN cstack = 1..N
      BY DEF Inv, StackInv, CStackInv, N
    <3> QED
      BY <3>1, <3>2, <3>3 DEF CallsHaveFrames, OnStack
  <2>3. HandlerOfCall
    <3> SUFFICES ASSUME throwing = "no", cstack # << >> PROVE HandlerOfCall
      BY DEF HandlerOfCall
    <3> DEFINE n == CHOOSE i \in Protected : \A m \in Protected : m <= i
    <3>1. N > 0 /\ N \in Nat
      BY DEF Inv, StackInv, CStackInv, N
    <3>2. /\ n \in 1..N /\ cstack[n].k \in {"pcall", "resume"}
          /\ \A m \in n + 1..N : cstack[m].k \in {"call", "handler"}
      BY <3>1, LastProtected
    <3> HIDE DEF n
    <3>3. N \in 1..N /\ Ends(N) /\ Rules(n, N)
      BY <3>1, <3>2 DEF Ends, Rules
    <3>4. /\ Top = cstack[N] /\ Running = cstack[N].l /\ L = th[Running]
      BY <3>1, RunningThread DEF Inv, L
    <3>5. L.errfunc = WithHandler(n)
      BY <3>2, <3>3, <3>4 DEF FrameInv, HandlerInv
    <3>6. cstack[n].k = "pcall" => cstack[n].l = Running
      <4>1. CStackInv
        BY DEF Inv, StackInv
      <4>2. N \in n..N
        BY <3>1, <3>2
      <4> QED
        BY <3>2, <3>4, <4>1, <4>2, SameThreadAbove
    <3>7. L.errfunc = (cstack[n].k = "pcall" /\ cstack[n].ci > 0
                       /\ L.ci[cstack[n].ci] = "xpcall")
      BY <3>4, <3>5, <3>6 DEF WithHandler
    <3> QED
      BY <3>7 DEF HandlerOfCall, n
  <2> QED
    BY <2>1, <2>2, <2>3
<1> QED
  BY <1>1, InvHolds, FrameInvHolds, TypesStayCorrect, PTL DEF FramesConsistent

-----------------------------------------------------------------------------
(* The coroutines whose resume() has not come back.                        *)

\* The steps of Active().
IsActive(a, calls) ==
    \A n \in 0..Len(calls) :
        a[n] = IF n = 0 THEN << >>
               ELSE IF calls[n].k = "resume" THEN Append(a[n - 1], calls[n].l)
               ELSE a[n - 1]

LEMMA ActiveSteps ==
    ASSUME NEW calls \in Seq(AnyCall)
    PROVE  \E a \in [0..Len(calls) -> Seq(Threads)] :
              IsActive(a, calls) /\ Active(calls) = a[Len(calls)]
<1> DEFINE M == Len(calls)
           next(s, n) == IF calls[n].k = "resume" THEN Append(s, calls[n].l) ELSE s
           step == [p \in Seq(Threads) \X (1..M) |-> next(p[1], p[2])]
           IsLoop(h) ==
             h = [n \in 0..M |->
                     IF n = 0 THEN << >>
                     ELSE IF calls[n].k = "resume" THEN Append(h[n - 1], calls[n].l)
                     ELSE h[n - 1]]
           a == CHOOSE h : IsLoop(h)
<1>1. M \in Nat
  OBVIOUS
<1>2. ASSUME NEW s \in Seq(Threads), NEW n \in 1..M PROVE next(s, n) \in Seq(Threads)
  <2>1. calls[n] \in AnyCall
    OBVIOUS
  <2>2. calls[n].l \in Threads
    BY <2>1 DEF AnyCall
  <2> QED
    BY <2>2, AppendProperties
<1>3. << >> \in Seq(Threads)
  OBVIOUS
<1>4. /\ step \in [Seq(Threads) \X (1..M) -> Seq(Threads)]
      /\ \A s \in Seq(Threads), n \in 1..M : step[<<s, n>>] = next(s, n)
  <2> HIDE DEF next
  <2> QED
    BY <1>2
<1> HIDE DEF step, M
<1>5. PICK f \in [0..M -> Seq(Threads)] :
          \A n \in 0..M : f[n] = IF n = 0 THEN << >> ELSE step[<<f[n - 1], n>>]
  <2>1. step \in Steps(Seq(Threads), M)
    BY <1>4 DEF Steps
  <2>2. Runs(Seq(Threads), M, << >>, step) # {}
    BY <1>1, <1>3, <2>1, LoopRuns
  <2> QED
    BY <2>2 DEF Runs
<1>6. ASSUME NEW n \in 0..M
      PROVE  f[n] = IF n = 0 THEN << >>
                    ELSE IF calls[n].k = "resume" THEN Append(f[n - 1], calls[n].l)
                    ELSE f[n - 1]
  <2>1. CASE n = 0
    BY <1>5, <2>1
  <2>2. CASE n \in 1..M
    <3>1. f[n - 1] \in Seq(Threads) /\ n # 0
      BY <1>1, <1>5, <2>2
    <3>2. step[<<f[n - 1], n>>] = next(f[n - 1], n)
      BY <1>4, <2>2, <3>1
    <3>3. f[n] = step[<<f[n - 1], n>>]
      BY <1>5, <3>1
    <3> QED
      BY <3>1, <3>2, <3>3
  <2>3. n = 0 \/ n \in 1..M
    BY <1>1
  <2> QED
    BY <2>1, <2>2, <2>3
<1>7. IsLoop(f)
  BY <1>5, <1>6
<1>8. IsLoop(a)
  <2> HIDE DEF IsLoop
  <2> QED
    BY <1>7
<1> HIDE DEF a
<1>9. \A n \in 0..M :
         a[n] = IF n = 0 THEN << >>
                ELSE IF calls[n].k = "resume" THEN Append(a[n - 1], calls[n].l) ELSE a[n - 1]
  BY <1>8
<1>10. ASSUME NEW k \in 0..M PROVE a[k] \in Seq(Threads)
  <2> DEFINE T == {m \in 0..M : a[m] \in Seq(Threads)}
  <2>1. 0 \in T
    <3>1. 0 \in 0..M
      BY <1>1
    <3>2. a[0] = << >>
      BY <1>9, <3>1
    <3> QED
      BY <1>3, <3>1, <3>2
  <2>2. ASSUME NEW n \in 0..M - 1, n \in T PROVE n + 1 \in T
    <3>1. n + 1 \in 1..M /\ n + 1 \in 0..M /\ n + 1 # 0 /\ (n + 1) - 1 = n
      BY <1>1
    <3>2. a[n + 1] = next(a[n], n + 1)
      BY <1>9, <3>1
    <3>3. a[n] \in Seq(Threads)
      BY <2>2
    <3>4. next(a[n], n + 1) \in Seq(Threads)
      BY <1>2, <3>1, <3>3
    <3> QED
      BY <3>1, <3>2, <3>4
  <2> HIDE DEF T
  <2>3. k \in T
    BY <1>1, <2>1, <2>2, BoundedInduction
  <2> QED
    BY <2>3 DEF T
<1>11. a \in [0..M -> Seq(Threads)]
  BY <1>8, <1>10
<1>12. Active(calls) = a[M]
  BY DEF Active, a, M
<1> QED
  BY <1>9, <1>11, <1>12 DEF M, IsActive

\* The same calls make the same coroutines.
LEMMA ActiveSame ==
    ASSUME NEW calls \in Seq(AnyCall), NEW more \in Seq(AnyCall),
           NEW a \in [0..Len(calls) -> Seq(Threads)], IsActive(a, calls),
           NEW b \in [0..Len(more) -> Seq(Threads)], IsActive(b, more),
           NEW m \in Nat, m <= Len(calls), m <= Len(more),
           \A i \in 1..m : calls[i] = more[i]
    PROVE  a[m] = b[m]
<1> DEFINE T == {n \in 0..m : a[n] = b[n]}
<1>1. 0 \in T
  <2>1. 0 \in 0..Len(calls) /\ 0 \in 0..Len(more) /\ 0 \in 0..m
    OBVIOUS
  <2>2. a[0] = << >> /\ b[0] = << >>
    BY <2>1 DEF IsActive
  <2> QED
    BY <2>1, <2>2
<1>2. ASSUME NEW n \in 0..m - 1, n \in T PROVE n + 1 \in T
  <2>1. PICK q \in 1..m : q = n + 1 /\ q - 1 = n /\ q # 0
    OBVIOUS
  <2>2. q \in 0..Len(calls) /\ q \in 0..Len(more) /\ calls[q] = more[q] /\ q \in 0..m
    BY <2>1
  <2>3. a[q - 1] = b[q - 1]
    BY <1>2, <2>1
  <2>4. a[q] = IF calls[q].k = "resume" THEN Append(a[q - 1], calls[q].l) ELSE a[q - 1]
    BY <2>1, <2>2 DEF IsActive
  <2>5. b[q] = IF more[q].k = "resume" THEN Append(b[q - 1], more[q].l) ELSE b[q - 1]
    BY <2>1, <2>2 DEF IsActive
  <2>6. a[q] = b[q]
    BY <2>2, <2>3, <2>4, <2>5
  <2> QED
    BY <2>1, <2>2, <2>6
<1> HIDE DEF T
<1>3. \A n \in 0..m : n \in T
  BY <1>1, <1>2, BoundedInduction
<1> QED
  BY <1>3 DEF T

\* A call more.
LEMMA ActiveAppend ==
    ASSUME NEW calls \in Seq(AnyCall), NEW c \in AnyCall
    PROVE  /\ Active(calls) \in Seq(Threads)
           /\ Active(Append(calls, c)) =
                 IF c.k = "resume" THEN Append(Active(calls), c.l) ELSE Active(calls)
<1> DEFINE more == Append(calls, c)
<1>1. /\ more \in Seq(AnyCall) /\ Len(more) = Len(calls) + 1 /\ Len(calls) \in Nat
      /\ more[Len(calls) + 1] = c /\ \A i \in 1..Len(calls) : calls[i] = more[i]
  BY AppendProperties
<1> HIDE DEF more
<1>2. PICK a \in [0..Len(calls) -> Seq(Threads)] :
         IsActive(a, calls) /\ Active(calls) = a[Len(calls)]
  BY ActiveSteps
<1>3. PICK b \in [0..Len(more) -> Seq(Threads)] :
         IsActive(b, more) /\ Active(more) = b[Len(more)]
  BY <1>1, ActiveSteps
<1>4. a[Len(calls)] = b[Len(calls)]
  <2>1. Len(calls) <= Len(calls) /\ Len(calls) <= Len(more)
    BY <1>1
  <2>2. \A i \in 1..Len(calls) : calls[i] = more[i]
    BY <1>1
  <2>3. PICK m \in Nat : m = Len(calls)
    BY <1>1
  <2>4. a[m] = b[m]
    BY <1>1, <1>2, <1>3, <2>1, <2>2, <2>3, ActiveSame
  <2> QED
    BY <2>3, <2>4
<1>5. PICK q \in 0..Len(more) : q = Len(more) /\ q - 1 = Len(calls) /\ q # 0
  BY <1>1
<1>6. b[q] = IF more[q].k = "resume" THEN Append(b[q - 1], more[q].l) ELSE b[q - 1]
  BY <1>3, <1>5 DEF IsActive
<1>7. more[q] = c
  BY <1>1, <1>5
<1>8. Active(calls) \in Seq(Threads)
  BY <1>1, <1>2
<1> QED
  BY <1>2, <1>3, <1>4, <1>5, <1>6, <1>7, <1>8 DEF more

\* The calls above the n-th go, of which none is a resume.
LEMMA ActiveCut ==
    ASSUME NEW calls \in Seq(AnyCall), NEW n \in 1..Len(calls),
           \A i \in n + 1..Len(calls) : calls[i].k # "resume"
    PROVE  LET below == Active(SubSeq(calls, 1, n - 1))
           IN  /\ below \in Seq(Threads)
               /\ Active(calls) =
                     IF calls[n].k = "resume" THEN Append(below, calls[n].l) ELSE below
<1> DEFINE less == SubSeq(calls, 1, n - 1)
<1>1. /\ less \in Seq(AnyCall) /\ Len(less) = n - 1 /\ n - 1 \in Nat /\ Len(calls) \in Nat
      /\ n - 1 <= Len(calls) /\ \A i \in 1..n - 1 : calls[i] = less[i]
  <2>1. \A i \in 1..n - 1 : calls[i] \in AnyCall
    OBVIOUS
  <2> QED
    BY <2>1, SubSeqProperties
<1> HIDE DEF less
<1>2. PICK a \in [0..Len(calls) -> Seq(Threads)] :
         IsActive(a, calls) /\ Active(calls) = a[Len(calls)]
  BY ActiveSteps
<1>3. PICK b \in [0..Len(less) -> Seq(Threads)] :
         IsActive(b, less) /\ Active(less) = b[Len(less)]
  BY <1>1, ActiveSteps
<1>4. a[n - 1] = b[n - 1]
  <2>1. PICK m \in Nat : m = n - 1
    BY <1>1
  <2>2. m <= Len(calls) /\ m <= Len(less) /\ \A i \in 1..m : calls[i] = less[i]
    BY <1>1, <2>1
  <2>3. a[m] = b[m]
    BY <1>1, <1>2, <1>3, <2>2, ActiveSame
  <2> QED
    BY <2>1, <2>3
<1>5. a[n] = IF calls[n].k = "resume" THEN Append(a[n - 1], calls[n].l) ELSE a[n - 1]
  <2>1. n \in 0..Len(calls) /\ n # 0
    BY <1>1
  <2> QED
    BY <1>2, <2>1 DEF IsActive
<1>6. a[Len(calls)] = a[n]
  <2> DEFINE K == Len(calls) - n
             T == {k \in 0..K : a[n + k] = a[n]}
  <2>1. K \in Nat
    BY <1>1
  <2>2. 0 \in T
    BY <2>1
  <2>3. ASSUME NEW k \in 0..K - 1, k \in T PROVE k + 1 \in T
    <3>1. PICK q \in n + 1..Len(calls) : q = n + (k + 1) /\ q - 1 = n + k /\ q # 0
      BY <1>1, <2>1
    <3>2. a[q] = IF calls[q].k = "resume" THEN Append(a[q - 1], calls[q].l) ELSE a[q - 1]
      <4>1. q \in 0..Len(calls)
        BY <1>1, <3>1
      <4> QED
        BY <1>2, <3>1, <4>1 DEF IsActive
    <3>3. a[q] = a[n + k]
      BY <3>1, <3>2
    <3> QED
      BY <2>1, <2>3, <3>1, <3>3
  <2> HIDE DEF T
  <2>4. \A k \in 0..K : k \in T
    BY <2>1, <2>2, <2>3, BoundedInduction
  <2>5. K \in 0..K /\ n + K = Len(calls)
    BY <1>1, <2>1
  <2> QED
    BY <2>4, <2>5 DEF T
<1>7. Active(less) = a[n - 1] /\ Active(less) \in Seq(Threads)
  BY <1>1, <1>3, <1>4
<1> QED
  BY <1>2, <1>5, <1>6, <1>7 DEF less

\* The running thread is the coroutine that was resumed last.
LEMMA RunsActive ==
    ASSUME StackInv
    PROVE  /\ Active(cstack) \in Seq(Threads)
           /\ Running = IF Active(cstack) = << >> THEN Main ELSE Last(Active(cstack))
<1>0. cstack \in Seq(AnyCall) /\ N \in Nat /\ N = Len(cstack)
  BY DEF StackInv, CStackInv, N
<1>1. PICK a \in [0..N -> Seq(Threads)] : IsActive(a, cstack) /\ Active(cstack) = a[N]
  BY <1>0, ActiveSteps
<1> DEFINE Ruled(n) == cstack[n].l = IF a[n] = << >> THEN Main ELSE Last(a[n])
           T == {n \in 0..N : n = 0 \/ Ruled(n)}
<1>2. a[0] = << >>
  <2>1. 0 \in 0..Len(cstack)
    BY <1>0
  <2> QED
    BY <1>1, <2>1 DEF IsActive
<1>3. ASSUME NEW n \in 0..N - 1, n \in T PROVE n + 1 \in T
  <2>1. PICK q \in 1..N : q = n + 1 /\ q - 1 = n /\ q # 0 /\ q \in 0..Len(cstack)
    BY <1>0
  <2>2. a[q] = IF cstack[q].k = "resume" THEN Append(a[q - 1], cstack[q].l) ELSE a[q - 1]
    BY <1>1, <2>1 DEF IsActive
  <2>3. CASE cstack[q].k = "resume"
    <3>1. a[q - 1] \in Seq(Threads) /\ cstack[q].l \in Threads
      <4>1. q - 1 \in 0..N /\ cstack[q] \in AnyCall
        BY <1>0, <2>1
      <4> QED
        BY <4>1 DEF AnyCall
    <3>2. a[q] # << >> /\ Last(a[q]) = cstack[q].l
      <4>1. PICK s \in Seq(Threads) : s = a[q - 1]
        BY <3>1
      <4>2. /\ Len(Append(s, cstack[q].l)) = Len(s) + 1 /\ Append(s, cstack[q].l) # << >>
            /\ Append(s, cstack[q].l)[Len(s) + 1] = cstack[q].l
        BY <3>1, AppendProperties
      <4>3. a[q] = Append(s, cstack[q].l)
        BY <2>2, <2>3, <4>1
      <4> QED
        BY <4>2, <4>3 DEF Last
    <3>3. Ruled(q)
      BY <3>2
    <3> QED
      BY <2>1, <3>3
  <2>4. CASE cstack[q].k # "resume"
    <3>1. CASE n = 0
      <4>1. cstack[q].l = Main /\ a[q] = << >>
        BY <1>0, <1>2, <2>1, <2>2, <2>4, <3>1 DEF StackInv, CStackInv
      <4> QED
        BY <2>1, <4>1
    <3>2. CASE n # 0
      <4>1. q \in 2..N /\ q - 1 = n
        BY <1>0, <2>1, <3>2
      <4>2. Follows(cstack[q], cstack[q - 1])
        BY <4>1 DEF StackInv, CStackInv
      <4>3. cstack[q].l = cstack[n].l
        BY <2>4, <4>1, <4>2 DEF Follows
      <4>4. a[q] = a[n]
        BY <2>1, <2>2, <2>4
      <4>5. Ruled(n)
        BY <1>3, <3>2
      <4>6. Ruled(q)
        BY <4>3, <4>4, <4>5
      <4> QED
        BY <2>1, <4>6
    <3> QED
      BY <3>1, <3>2
  <2> QED
    BY <2>3, <2>4
<1>4. 0 \in T
  BY <1>0
<1>5. N \in T
  <2> HIDE DEF T
  <2>1. \A n \in 0..N : n \in T
    BY <1>0, <1>3, <1>4, BoundedInduction
  <2> QED
    BY <1>0, <2>1
<1>6. CASE N = 0
  <2>1. cstack = << >>
    <3>1. Len(cstack) = 0
      BY <1>0, <1>6
    <3> QED
      BY <1>0, <3>1, EmptySeq
  <2> QED
    BY <1>1, <1>2, <1>6, <2>1 DEF Running
<1>7. CASE N # 0
  <2>1. Running = cstack[N].l
    BY <1>0, <1>7, RunningThread
  <2>2. Ruled(N)
    BY <1>5, <1>7
  <2> QED
    BY <1>0, <1>1, <2>1, <2>2
<1> QED
  BY <1>6, <1>7

-----------------------------------------------------------------------------
(* The steps of Coroutines.                                                *)

\* The status of a thread that does not run is told by the thread alone.
StatusOf(t) ==
    IF t.status = "0" /\ t.ci # << >> THEN "normal"
    ELSE IF t.status = "yield" \/ (t.status = "0" /\ t.stack # << >>) THEN "suspended"
    ELSE IF t.status = "none" THEN "none" ELSE "dead"

LEMMA StatusIs ==
    ASSUME NEW co
    PROVE  /\ costatus(co) = IF co = Running THEN "running" ELSE StatusOf(th[co])
           /\ StatusOf(th[co]) # "running"
BY DEF costatus, StatusOf

LEMMA StatusWillBe ==
    ASSUME NEW co
    PROVE  /\ costatus(co)' = IF co = Running' THEN "running" ELSE StatusOf(th'[co])
           /\ StatusOf(th'[co]) # "running"
BY DEF costatus, StatusOf

\* The running thread after a step.
LEMMA RunsActiveNext ==
    ASSUME StackInv'
    PROVE  /\ Active(cstack') \in Seq(Threads)
           /\ Running' = IF Active(cstack') = << >> THEN Main ELSE Last(Active(cstack'))
<1>1. (StackInv => /\ Active(cstack) \in Seq(Threads)
                   /\ Running = IF Active(cstack) = << >> THEN Main
                                ELSE Last(Active(cstack)))'
  BY RunsActive, PTL
<1> QED
  BY <1>1

\* A step of one thread.
LEMMA RunStep ==
    ASSUME StackInv, StackInv', Active(cstack') = Active(cstack),
           \A c \in Co : c = Running \/ StatusOf(th'[c]) = StatusOf(th[c])
    PROVE  Promise!Next
<1>1. Running' = Running
  BY RunsActive, RunsActiveNext
<1>2. ASSUME NEW c \in Co PROVE costatus(c)' = costatus(c)
  BY <1>1, StatusIs, StatusWillBe
<1>3. Status' = Status
  BY <1>2 DEF Status
<1> QED
  BY <1>3 DEF Promise!Next, Promise!Run

\* A coroutine is resumed.
LEMMA ResumeStep ==
    ASSUME StackInv, StackInv', NEW co \in Co,
           Active(cstack') = Append(Active(cstack), co), costatus(co) = "suspended",
           th'[Running].status = "0", th'[Running].ci # << >>,
           \A c \in Co : c = Running \/ c = co \/ th'[c] = th[c],
           Got' = sent'
    PROVE  Promise!Next
<1>1. PICK active \in Seq(Threads) : active = Active(cstack)
  BY RunsActive
<1>2. Running' = co
  <2>1. /\ Append(active, co) # << >> /\ Len(Append(active, co)) = Len(active) + 1
        /\ Append(active, co)[Len(active) + 1] = co
    BY AppendProperties DEF Threads
  <2>2. Last(Append(active, co)) = co
    BY <2>1 DEF Last
  <2> QED
    BY <1>1, <2>1, <2>2, RunsActiveNext
<1>3. co # Running
  BY StatusIs
<1>4. ASSUME NEW c \in Co
      PROVE  costatus(c)' = IF c = co THEN "running"
                            ELSE IF costatus(c) = "running" THEN "normal" ELSE costatus(c)
  <2>1. CASE c = co
    BY <1>2, <2>1, StatusWillBe
  <2>2. CASE c = Running
    <3>1. StatusOf(th'[c]) = "normal"
      BY <2>2 DEF StatusOf
    <3> QED
      BY <1>2, <1>3, <2>2, <3>1, StatusIs, StatusWillBe
  <2>3. CASE c # co /\ c # Running
    BY <1>2, <2>3, StatusIs, StatusWillBe
  <2> QED
    BY <2>1, <2>2, <2>3
<1>5. Status' = [c \in Co |-> IF c = co THEN "running"
                              ELSE IF Status[c] = "running" THEN "normal" ELSE Status[c]]
  BY <1>4 DEF Status
<1>6. Status[co] = "suspended"
  BY DEF Status
<1>7. Promise!Resume(co)
  BY <1>5, <1>6 DEF Promise!Resume, Promise!Enter
<1> QED
  BY <1>7 DEF Promise!Next

\* The running coroutine goes back to the one that resumed it.
LEMMA LeaveStep ==
    ASSUME StackInv, StackInv', NEW co \in Co, co = Running, Running' # co,
           Active(cstack) = Append(Active(cstack'), co),
           NEW s, StatusOf(th'[co]) = s,
           \A c \in Co : c = co \/ c = Running' \/ th'[c] = th[c]
    PROVE  Promise!Leave(s)
<1>1. PICK left \in Seq(Threads) : left = Active(cstack')
  BY RunsActiveNext
<1>2. PICK active \in Seq(Threads) : active = Active(cstack) /\ active = Append(left, co)
  BY <1>1, RunsActive
<1>3. PICK n \in Nat : n = Len(active) /\ n = Len(left) + 1 /\ n - 1 = Len(left)
  BY <1>2, AppendProperties DEF Threads
<1>4. /\ n > 0 /\ active[n] = co /\ SubSeq(active, 1, n - 1) = left
      /\ n > 1 => active[n - 1] = Last(left) /\ left # << >>
      /\ ~(n > 1) => left = << >>
  <2>1. active[n] = co /\ \A i \in 1..Len(left) : active[i] = left[i]
    BY <1>2, <1>3, AppendProperties DEF Threads
  <2>2. SubSeq(active, 1, n - 1) = left
    <3> DEFINE f == SubSeq(active, 1, n - 1)
    <3>1. PICK k \in Nat : k = n - 1 /\ k <= Len(active)
      <4>1. Len(left) \in Nat /\ Len(left) = n - 1
        BY <1>1, <1>3
      <4>2. n - 1 <= n /\ n = Len(active)
        BY <1>3
      <4> QED
        BY <4>1, <4>2
    <3>2. \A i \in 1..k : active[i] \in Threads
      BY <3>1
    <3>3. f \in Seq(Threads) /\ Len(f) = n - 1 /\ \A i \in 1..n - 1 : f[i] = active[i]
      BY <1>3, <3>1, <3>2, SubSeqProperties
    <3> HIDE DEF f
    <3>4. f = left
      BY <1>3, <2>1, <3>3, SeqEqual
    <3> QED
      BY <3>4 DEF f
  <2>3. ASSUME n > 1 PROVE active[n - 1] = Last(left) /\ left # << >>
    <3>1. Len(left) \in 1..Len(left) /\ Len(left) # 0
      BY <1>3, <2>3
    <3>2. left # << >>
      BY <3>1
    <3> QED
      BY <1>3, <2>1, <3>1, <3>2 DEF Last
  <2>4. ASSUME ~(n > 1) PROVE left = << >>
    <3>1. Len(left) = 0
      BY <1>3, <2>4
    <3> QED
      BY <3>1, EmptySeq
  <2> QED
    BY <1>3, <2>1, <2>2, <2>3, <2>4
<1>5. Running' = IF n > 1 THEN active[n - 1] ELSE Main
  BY <1>1, <1>4, RunsActiveNext
<1>6. ASSUME NEW c \in Co
      PROVE  costatus(c)' = IF c = active[n] THEN s
                            ELSE IF n > 1 /\ c = active[n - 1] THEN "running" ELSE costatus(c)
  <2>1. CASE c = co
    BY <1>4, <2>1, StatusWillBe
  <2>2. CASE c = Running' /\ c # co
    <3>1. n > 1 /\ c = active[n - 1]
      BY <1>5, <2>2, CoroutineAssumption
    <3> QED
      BY <1>4, <2>2, <3>1, StatusWillBe
  <2>3. CASE c # co /\ c # Running'
    <3>1. ~(n > 1 /\ c = active[n - 1])
      BY <1>5, <2>3
    <3> QED
      BY <1>4, <2>3, <3>1, StatusIs, StatusWillBe
  <2> QED
    BY <2>1, <2>2, <2>3
<1>7. Status' = [c \in Co |-> IF c = active[n] THEN s
                              ELSE IF n > 1 /\ c = active[n - 1] THEN "running"
                              ELSE Status[c]]
  BY <1>6 DEF Status
<1> QED
  BY <1>1, <1>2, <1>3, <1>4, <1>7 DEF Promise!Leave

-----------------------------------------------------------------------------
(* What the threads have on their stacks.                                  *)

\* A coroutine that has not begun has its function, unless a resume was refused.
Begun ==
    \A co \in Co :
        th[co].status = "0" /\ ~OnStack(co) => th[co].stack \in {<< >>, <<"function">>}

\* A thread that waits for a resume has at most the coroutine.
Asked == \A m \in 1..N : Ends(m) /\ m < N => Len(th[cstack[m].l].stack) <= 1

ValueInv == Begun /\ Asked

\* The calls of the running thread on top of the C stack come and go.
OwnCalls ==
    /\ \A m \in 1..N : cstack[m].l = Running \/ (m \in 1..N' /\ cstack'[m] = cstack[m])
    /\ \A m \in 1..N' :
          (m \in 1..N /\ cstack'[m] = cstack[m]) \/ (m = N' /\ cstack'[m].k # "resume")

\* The running thread is on the C stack, but the main thread between two calls of draw().
LEMMA RunningOnStack == StackInv /\ Running \in Co => OnStack(Running)
<1> SUFFICES ASSUME StackInv, Running \in Co PROVE OnStack(Running)
  OBVIOUS
<1>1. cstack # << >>
  BY CoroutineAssumption DEF Running
<1>2. N > 0
  BY <1>1 DEF StackInv, CStackInv, N
<1>3. N \in 1..N /\ cstack[N].l = Running
  BY <1>2, RunningThread
<1> QED
  BY <1>3 DEF OnStack

\* A step of the running thread, which may change one that is off.
LEMMA ValuesKept ==
    ASSUME Inv, Inv', ValueInv, OwnCalls, Running' = Running,
           NEW co \in Threads, Off(co),
           co = Running \/ th'[co].stack \in {<< >>, <<"function">>},
           \A l \in Threads \ {Running, co} : th'[l] = th[l]
    PROVE  ValueInv'
<1>1. N \in Nat /\ N' \in Nat /\ StackInv
  BY DEF Inv, StackInv, CStackInv, N
<1>2. Asked'
  <2> SUFFICES ASSUME NEW m \in 1..N', Ends(m)', m < N'
               PROVE  Len(th'[cstack'[m].l].stack) <= 1
    BY DEF Asked
  <2>1. cstack'[m + 1].k = "resume" /\ m + 1 \in 1..N'
    BY <1>1 DEF Ends
  <2>2. m + 1 \in 1..N /\ cstack'[m + 1] = cstack[m + 1]
    BY <2>1 DEF OwnCalls
  <2>3. m \in 1..N /\ cstack'[m] = cstack[m]
    BY <1>1 DEF OwnCalls
  <2>4. Ends(m) /\ m < N /\ N > 0
    BY <1>1, <2>1, <2>2, <2>3 DEF Ends
  <2>5. cstack[m].l \in Threads /\ cstack[m].l # Running /\ cstack[m].l # co
    BY <1>1, <2>3, <2>4, WaitingThread DEF Off
  <2> QED
    BY <2>3, <2>4, <2>5 DEF ValueInv, Asked
<1>3. ASSUME NEW c \in Co, th'[c].status = "0", ~OnStack(c)'
      PROVE  th'[c].stack \in {<< >>, <<"function">>}
  <2>1. c # Running
    <3>1. (StackInv /\ Running \in Co => OnStack(Running))'
      BY RunningOnStack, PTL
    <3> QED
      BY <1>3, <3>1 DEF Inv
  <2>2. CASE c = co
    BY <2>1, <2>2
  <2>3. CASE c # co
    <3>1. th'[c] = th[c]
      BY <2>1, <2>3 DEF Threads
    <3>2. ~OnStack(c)
      <4> SUFFICES ASSUME NEW m \in 1..N, cstack[m].l = c PROVE FALSE
        BY DEF OnStack
      <4>1. m \in 1..N' /\ cstack'[m].l = c
        BY <2>1 DEF OwnCalls
      <4> QED
        BY <1>3, <4>1 DEF OnStack
    <3> QED
      BY <1>3, <3>1, <3>2 DEF ValueInv, Begun
  <2> QED
    BY <2>2, <2>3
<1>4. Begun'
  BY <1>3 DEF Begun
<1> QED
  BY <1>2, <1>4 DEF ValueInv

\* What the steps show.
Mapped == ValueInv' /\ Promise!Next

\* A step of the running thread alone.
LEMMA OwnStep ==
    ASSUME Inv, Inv', ValueInv, OwnCalls, Active(cstack') = Active(cstack),
           \A l \in Threads \ {Running} : th'[l] = th[l]
    PROVE  Mapped
<1>1. StackInv /\ StackInv' /\ Running' = Running
  BY RunsActive, RunsActiveNext DEF Inv
<1>2. Off(Running) /\ Running \in Threads
  <2>1. CASE N > 0
    BY <1>1, <2>1, RunningIsOff
  <2>2. CASE ~(N > 0)
    <3>1. N \in Nat /\ cstack = << >>
      <4>1. N \in Nat /\ cstack \in Seq(AnyCall) /\ Len(cstack) = 0
        BY <1>1, <2>2 DEF StackInv, CStackInv, N
      <4> QED
        BY <4>1, EmptySeq
    <3>2. 1..N = {}
      BY <2>2, <3>1
    <3> QED
      BY <3>1, <3>2 DEF Off, Running, Threads
  <2> QED
    BY <2>1, <2>2
<1>3. ValueInv'
  BY <1>1, <1>2, ValuesKept
<1>4. \A c \in Co : c = Running \/ StatusOf(th'[c]) = StatusOf(th[c])
  BY DEF Threads, StatusOf
<1>5. Promise!Next
  BY <1>1, <1>4, RunStep
<1> QED
  BY <1>3, <1>5 DEF Mapped

\* On the same C stack.
LEMMA OwnStays ==
    ASSUME Inv, cstack' = cstack
    PROVE  OwnCalls /\ Active(cstack') = Active(cstack)
BY DEF OwnCalls, N

\* With a call more.
LEMMA OwnCall ==
    ASSUME Inv, NEW c \in AnyCall, c.k # "resume", cstack' = Append(cstack, c)
    PROVE  OwnCalls /\ Active(cstack') = Active(cstack)
<1>1. cstack \in Seq(AnyCall) /\ N = Len(cstack) /\ N \in Nat
  BY DEF Inv, StackInv, CStackInv, N
<1>2. N' = N + 1 /\ cstack'[N + 1] = c /\ \A m \in 1..N : cstack'[m] = cstack[m]
  BY <1>1 DEF N
<1>3. \A m \in 1..N : m \in 1..N'
  BY <1>1, <1>2
<1>4. \A m \in 1..N' : m \in 1..N \/ m = N'
  BY <1>1, <1>2
<1>5. OwnCalls
  BY <1>2, <1>3, <1>4 DEF OwnCalls
<1>6. Active(Append(cstack, c)) = Active(cstack)
  BY <1>1, ActiveAppend
<1> QED
  BY <1>5, <1>6

\* Without its last ones.
LEMMA OwnEnd ==
    ASSUME Inv, N > 0, NEW n \in 1..N, cstack' = SubSeq(cstack, 1, n - 1),
           \A m \in n..N : cstack[m].l = Running /\ cstack[m].k # "resume"
    PROVE  OwnCalls /\ Active(cstack') = Active(cstack)
<1>1. cstack \in Seq(AnyCall) /\ N = Len(cstack) /\ N \in Nat
  BY DEF Inv, StackInv, CStackInv, N
<1>2. PICK low \in Nat : low = n - 1 /\ low < N /\ n = low + 1
  BY <1>1
<1>3. N' = low /\ \A m \in 1..low : m \in 1..N /\ cstack'[m] = cstack[m]
  BY <1>1, <1>2 DEF N
<1>4. \A m \in 1..N : m \in n..N \/ m \in 1..N'
  BY <1>1, <1>2, <1>3
<1>5. OwnCalls
  BY <1>3, <1>4 DEF OwnCalls
<1>6. \A i \in n + 1..Len(cstack) : i \in n..N
  BY <1>1
<1>7. n \in 1..Len(cstack) /\ n \in n..N
  BY <1>1
<1>8. Active(cstack) = Active(SubSeq(cstack, 1, n - 1))
  BY <1>1, <1>6, <1>7, ActiveCut
<1> QED
  BY <1>5, <1>8

-----------------------------------------------------------------------------
(* The steps of one thread.                                                *)

LEMMA drawMapped ==
    ASSUME Inv, Inv', ValueInv, draw
    PROVE  Mapped
<1> DEFINE c == CCall("pcall", Main, 0, 0, FALSE)
           t == [NewThread EXCEPT !.ci = <<"Lua">>, !.nCcalls = 1]
<1>1. c \in AnyCall /\ c.k = "pcall"
  BY DEF CCall, AnyCall, Threads
<1>2. cstack = << >> /\ cstack' = <<c>> /\ th' = [th EXCEPT ![Main] = t]
  BY DEF draw
<1> HIDE DEF c, t
<1>3. cstack' = Append(cstack, c) /\ Running = Main
  BY <1>1, <1>2 DEF Running
<1>4. \A l \in Threads \ {Running} : th'[l] = th[l]
  BY <1>2, <1>3 DEF Inv, StackInv
<1> QED
  BY <1>1, <1>3, <1>4, OwnCall, OwnStep

\* The running thread is changed.
LEMMA ThreadStep ==
    ASSUME Inv, Inv', ValueInv, InLua \/ throwing # "no", NEW u,
           th' = [th EXCEPT ![Running] = u], cstack' = cstack
    PROVE  Mapped
<1>1. \A l \in Threads \ {Running} : th'[l] = th[l]
  BY RunningFacts DEF StackInv
<1> QED
  BY <1>1, OwnStays, OwnStep

LEMMA CallMapped ==
    ASSUME Inv, Inv', ValueInv, Call
    PROVE  Mapped
<1>1. InLua /\ UNCHANGED cstack /\ Running \in Threads /\ th \in [Threads -> Good]
  BY RunningFacts DEF Call, StackInv
<1> DEFINE u == [th[Running] EXCEPT !.ci = Append(@, "Lua"), !.stack = << >>]
<1>2. th' = [th EXCEPT ![Running] = u]
  BY <1>1 DEF Call
<1> HIDE DEF u
<1> QED
  BY <1>1, <1>2, ThreadStep

LEMMA luaB_errorMapped ==
    ASSUME Inv, Inv', ValueInv, luaB_error \/ UNCHANGED vars
    PROVE  Mapped
<1>1. UNCHANGED <<th, cstack>>
  BY DEF luaB_error, vars
<1> QED
  BY <1>1, OwnStays, OwnStep

\* A call from C, of a thread that is now t.
LEMMA luaD_callMapped ==
    ASSUME Inv, Inv', ValueInv, FrameInv, InLua \/ throwing # "no",
           NEW t \in Thread, NEW k \in {"call", "pcall", "handler"}, NEW ef,
           luaD_call(t, k, ef)
    PROVE  Mapped
<1> DEFINE called == [t EXCEPT !.nCcalls = @ + 1, !.stack = << >>, !.errfunc = ef]
           u == IF throwing' # "no" THEN called ELSE [called EXCEPT !.ci = Append(@, "Lua")]
           c == CCall(k, Running, Len(t.ci), t.nCcalls, L.errfunc)
<1>1. cstack' = Append(cstack, c) /\ th' = [th EXCEPT ![Running] = u]
  BY DEF luaD_call
<1>2. Len(t.ci) \in Nat /\ t.nCcalls \in Nat
  BY DEF Thread
<1>3. c \in AnyCall /\ c.k # "resume"
  BY <1>2, RunningFacts, FrameFacts DEF CCall, AnyCall
<1> HIDE DEF c, u
<1>4. \A l \in Threads \ {Running} : th'[l] = th[l]
  BY <1>1, RunningFacts DEF StackInv
<1> QED
  BY <1>1, <1>3, <1>4, OwnCall, OwnStep

LEMMA CallMetamethodMapped ==
    ASSUME Inv, Inv', ValueInv, FrameInv, CallMetamethod
    PROVE  Mapped
<1>1. InLua /\ luaD_call(L, "call", L.errfunc)
  BY DEF CallMetamethod
<1> QED
  BY <1>1, RunningFacts, luaD_callMapped

LEMMA luaB_pcallMapped ==
    ASSUME Inv, Inv', ValueInv, FrameInv, luaB_pcall
    PROVE  Mapped
<1>1. InLua
  BY DEF luaB_pcall
<1>2. PICK fn \in {"pcall", "xpcall"} :
          luaD_call([L EXCEPT !.ci = Append(@, fn)], "pcall", fn = "xpcall")
  BY DEF luaB_pcall
<1> DEFINE t == [L EXCEPT !.ci = Append(@, fn)]
           ef == fn = "xpcall"
<1>3. Append(L.ci, fn) \in Seq(Frame)
  BY <1>1, RunningFacts, AppendType DEF Frame
<1>4. t \in Thread
  BY <1>1, <1>3, RunningFacts DEF Thread
<1>5. luaD_call(t, "pcall", ef)
  BY <1>2
<1> HIDE DEF t, ef
<1> QED
  BY <1>1, <1>4, <1>5, luaD_callMapped

LEMMA luaG_errormsgMapped ==
    ASSUME Inv, Inv', ValueInv, FrameInv, luaG_errormsg
    PROVE  Mapped
<1>1. throwing = "raise"
  BY DEF luaG_errormsg
<1>2. CASE luaD_call(L, "handler", TRUE)
  BY <1>1, <1>2, RunningFacts, luaD_callMapped
<1>3. CASE UNCHANGED <<th, cstack, bad, sent>>
  BY <1>3, OwnStays, OwnStep
<1> QED
  BY <1>2, <1>3 DEF luaG_errormsg

-----------------------------------------------------------------------------
(* A coroutine is created, or refused.                                     *)

LEMMA luaB_cocreateMapped ==
    ASSUME Inv, Inv', ValueInv, luaB_cocreate
    PROVE  Mapped
<1>1. InLua /\ UNCHANGED <<cstack, throwing, bad, sent>>
  BY DEF luaB_cocreate
<1> DEFINE new == [NewThread EXCEPT !.stack = <<"function">>]
           u == [th[Running] EXCEPT !.stack = << >>]
<1>2. PICK co \in Co :
          /\ th[co].status = "none"
          /\ th' = [th EXCEPT ![co] = new, ![Running].stack = << >>]
  BY DEF luaB_cocreate
<1>3. /\ StackInv /\ StackInv' /\ Running' = Running
      /\ OwnCalls /\ Active(cstack') = Active(cstack)
  BY <1>1, OwnStays, RunsActive, RunsActiveNext DEF Inv
<1>4. new.status = "0" /\ new.ci = << >> /\ new.stack = <<"function">> /\ new.stack # << >>
  BY NewThreadType DEF NewThread
<1>5. /\ co \in Threads /\ co # Running /\ Off(co)
      /\ th[Running].status = "0" /\ Running \in Threads
  BY <1>1, <1>2, RunningFacts, IdleIsOff DEF Threads
<1>6. th' = [th EXCEPT ![co] = new, ![Running] = u]
  BY <1>1, <1>2, <1>5, RunningFacts DEF StackInv
<1>7. u.status = th[Running].status /\ u.ci = th[Running].ci
  BY <1>1, RunningFacts DEF Thread
<1> HIDE DEF new, u
<1>8. th'[co] = new /\ \A l \in Threads \ {Running, co} : th'[l] = th[l]
  BY <1>3, <1>5, <1>6 DEF StackInv
<1>9. ValueInv'
  BY <1>3, <1>4, <1>5, <1>8, ValuesKept
<1>10. Promise!Create(co)
  <2>1. costatus(co) = "none"
    BY <1>2, <1>5 DEF costatus
  <2>2. ASSUME NEW c \in Co
        PROVE  costatus(c)' = IF c = co THEN "suspended" ELSE costatus(c)
    <3>1. CASE c = co
      BY <1>3, <1>4, <1>5, <1>8, <3>1, StatusWillBe DEF StatusOf
    <3>2. CASE c # co
      BY <1>3, <1>8, <3>2, StatusIs, StatusWillBe DEF Threads
    <3> QED
      BY <3>1, <3>2
  <2>3. Status' = [Status EXCEPT ![co] = "suspended"]
    BY <2>2 DEF Status
  <2>4. Status[co] = "none"
    BY <2>1 DEF Status
  <2> QED
    BY <1>1, <1>3, <2>3, <2>4 DEF Promise!Create
<1>11. Promise!Next
  BY <1>10 DEF Promise!Next
<1> QED
  BY <1>9, <1>11 DEF Mapped

-----------------------------------------------------------------------------
(* What the running thread gets.                                           *)

LEMMA RefusedGets ==
    ASSUME NEW t \in Thread, t.ci # << >>
    PROVE  Refused(t).err = FALSE => Refused(t).l.stack = Promise!Failed
<1>1. <<"false", "error">> \in Seq(Value)
  BY CoroutineAssumption, ShortList
<1> DEFINE failed == <<"false", "error">>
<1>2. Results(t, failed).stack = failed
  BY <1>1, ResultsType
<1>3. CASE Last(t.ci) = "resume"
  BY <1>2, <1>3 DEF Refused, Promise!Failed
<1>4. CASE Last(t.ci) # "resume"
  BY <1>4 DEF Refused
<1> QED
  BY <1>3, <1>4

LEMMA AnsweredGets ==
    ASSUME NEW t \in Thread, t.ci # << >>, NEW vals \in Seq(Value)
    PROVE  /\ Answered(t, vals).err = FALSE
           /\ Answered(t, vals).l.stack \in {vals, <<"true">> \o vals}
<1> DEFINE all == <<"true">> \o vals
<1>1. all \in Seq(Value)
  <2>1. "true" \in Value
    BY CoroutineAssumption
  <2>2. <<"true">> \in Seq(Value)
    BY <2>1, ShortList
  <2> QED
    BY <2>2, ConcatProperties
<1>2. Results(t, vals).stack = vals /\ Results(t, all).stack = all
  BY <1>1, ResultsType
<1> HIDE DEF all
<1>3. CASE Last(t.ci) = "resume"
  BY <1>2, <1>3 DEF Answered, all
<1>4. CASE Last(t.ci) # "resume"
  BY <1>2, <1>4 DEF Answered
<1> QED
  BY <1>3, <1>4

-----------------------------------------------------------------------------
(* A coroutine is resumed.                                                 *)

\* What the coroutine is like, before.
LEMMA SuspendedFacts ==
    ASSUME Inv, FrameInv, ValueInv, InLua, NEW co \in Co, costatus(co) = "suspended"
    PROVE  /\ co \in Threads /\ co # Running /\ Off(co) /\ ~OnStack(co) /\ th[co] \in Thread
           /\ \/ th[co].status = "yield" /\ th[co].ci # << >>
              \/ th[co].status = "0" /\ th[co].ci = << >> /\ th[co].stack = <<"function">>
<1>1. co \in Threads /\ co # Running /\ th[co] \in Thread /\ th[co] \in Good
  BY RunningFacts DEF Threads, StackInv, Good, costatus
<1>2. /\ th[co].status = "0" => th[co].ci = << >> /\ th[co].stack # << >>
      /\ th[co].status = "yield" \/ th[co].status = "0"
  BY <1>1 DEF costatus
<1>3. Off(co) /\ ~OnStack(co)
  <2>1. th[co].status # "0" \/ th[co].ci = << >>
    BY <1>2
  <2>2. throwing = "no"
    BY DEF InLua
  <2> QED
    BY <1>1, <2>1, <2>2, RunningFacts, IdleIsOff, OnStackRuns
<1>4. th[co].status = "0" => th[co].stack = <<"function">>
  BY <1>2, <1>3 DEF ValueInv, Begun
<1>5. th[co].status = "yield" => th[co].ci # << >>
  <2> SUFFICES ASSUME th[co].status = "yield" PROVE th[co].ci # << >>
    OBVIOUS
  <2>1. Len(th[co].ci) >= 2
    BY <1>1 DEF Good
  <2> QED
    BY <2>1
<1> QED
  BY <1>1, <1>2, <1>3, <1>4, <1>5

\* There are no calls left.
LEMMA OutOfCallsMapped ==
    ASSUME Inv, Inv', FrameInv, ValueInv, InLua, NEW fn \in {"resume", "wrap"}, NEW co \in Co,
           costatus(co) = "suspended", NEW t, t.status = th[co].status, t.ci = th[co].ci,
           t.stack = << >>, NEW r, r = Refused(Asking(fn)),
           th' = [th EXCEPT ![co] = t, ![Running] = r.l], throwing' = Raised(r.err),
           cstack' = cstack
    PROVE  Mapped
<1>1. /\ StackInv /\ StackInv' /\ Running' = Running /\ Running \in Threads
      /\ OwnCalls /\ Active(cstack') = Active(cstack)
  BY OwnStays, RunsActive, RunsActiveNext, RunningFacts DEF Inv
<1>2. /\ co \in Threads /\ co # Running /\ Off(co)
      /\ \/ th[co].status = "yield" /\ th[co].ci # << >>
         \/ th[co].status = "0" /\ th[co].ci = << >>
  BY SuspendedFacts
<1>3. th'[Running] = r.l /\ th'[co] = t /\ \A l \in Threads \ {Running, co} : th'[l] = th[l]
  BY <1>1, <1>2 DEF StackInv
<1>4. ValueInv'
  BY <1>1, <1>2, <1>3, ValuesKept
<1>5. Got' = Promise!Failed
  <2>1. Asking(fn) \in Thread /\ Asking(fn).ci # << >> /\ Asking(fn).status = "0"
    BY AskingType
  <2>2. r.err \in BOOLEAN /\ (r.err = FALSE => r.l.stack = Promise!Failed)
    <3>1. r \in {Refused(Asking(fn)), Answered(Asking(fn), << >>)}
      OBVIOUS
    <3> QED
      BY <2>1, <3>1, NewThreadType, AnswerType, RefusedGets
  <2>3. th'[Running'] = r.l
    BY <1>1, <1>3
  <2>4. CASE r.err = FALSE
    BY <2>2, <2>3, <2>4 DEF Got, L, Raised
  <2>5. CASE r.err = TRUE
    BY <2>5 DEF Got, Raised, Promise!Failed
  <2> QED
    BY <2>2, <2>4, <2>5
<1>6. CASE th[co].status = "yield"
  <2>1. ASSUME NEW c \in Co, c # Running PROVE StatusOf(th'[c]) = StatusOf(th[c])
    <3>1. CASE c = co
      BY <1>3, <1>6, <3>1 DEF StatusOf
    <3>2. CASE c # co
      BY <1>3, <2>1, <3>2 DEF Threads
    <3> QED
      BY <3>1, <3>2
  <2> QED
    BY <1>1, <1>4, <2>1, RunStep DEF Mapped
<1>7. CASE th[co].status = "0" /\ th[co].ci = << >>
  <2>1. ASSUME NEW c \in Co
        PROVE  costatus(c)' = IF c = co THEN "dead" ELSE costatus(c)
    <3>1. CASE c = co
      <4>1. StatusOf(t) = "dead"
        BY <1>7 DEF StatusOf
      <4> QED
        BY <1>1, <1>2, <1>3, <3>1, <4>1, StatusWillBe
    <3>2. CASE c # co
      <4>1. c = Running \/ th'[c] = th[c]
        BY <1>3, <3>2 DEF Threads
      <4> QED
        BY <1>1, <3>2, <4>1, StatusIs, StatusWillBe
    <3> QED
      BY <3>1, <3>2
  <2>2. Status' = [Status EXCEPT ![co] = "dead"]
    BY <2>1 DEF Status
  <2>3. Status[co] = "suspended"
    BY DEF Status
  <2>4. Promise!Refuse(co)
    BY <1>1, <1>5, <2>2, <2>3 DEF Promise!Refuse
  <2>5. Promise!Next
    BY <2>4 DEF Promise!Next
  <2> QED
    BY <1>4, <2>5 DEF Mapped
<1> QED
  BY <1>2, <1>6, <1>7

\* The running thread is the one of the last call.
LEMMA RunsLast == StackInv /\ N > 0 => Running = cstack[N].l
  BY RunningThread

LEMMA RunsLastNext ==
    ASSUME StackInv', N' > 0
    PROVE  Running' = cstack'[N'].l
<1>1. (StackInv /\ N > 0 => Running = cstack[N].l)'
  BY RunsLast, PTL
<1> QED
  BY <1>1

\* The running thread, which is now a, waits for co, which gets what it gave.
LEMMA ResumedMapped ==
    ASSUME Inv, Inv', FrameInv, ValueInv, InLua, NEW co \in Co, costatus(co) = "suspended",
           NEW a \in Thread, a.status = "0", a.ci # << >>, Len(a.stack) <= 1,
           NEW t, t.stack = sent', NEW c \in AnyCall, c.k = "resume", c.l = co,
           cstack' = Append(cstack, c), throwing' = "no",
           th' = [th EXCEPT ![Running] = a, ![co] = t]
    PROVE  Mapped
<1>1. /\ StackInv /\ StackInv' /\ Running \in Threads /\ N \in Nat /\ N > 0
      /\ cstack \in Seq(AnyCall) /\ Running = cstack[N].l
  BY RunningFacts DEF Inv, StackInv, CStackInv
<1>2. co \in Threads /\ co # Running /\ Off(co) /\ ~OnStack(co)
  BY SuspendedFacts
<1>3. th'[Running] = a /\ th'[co] = t /\ \A l \in Threads \ {Running, co} : th'[l] = th[l]
  BY <1>1, <1>2 DEF StackInv
<1>4. /\ N' = N + 1 /\ cstack'[N + 1] = c /\ \A m \in 1..N : cstack'[m] = cstack[m]
      /\ Active(cstack') = Append(Active(cstack), co)
  BY <1>1, ActiveAppend DEF N
<1>5. Running' = co
  <2>1. N' > 0 /\ cstack'[N'] = c
    BY <1>1, <1>4
  <2> QED
    BY <1>1, <2>1, RunsLastNext
<1>6. Asked'
  <2> SUFFICES ASSUME NEW m \in 1..N', Ends(m)', m < N'
               PROVE  Len(th'[cstack'[m].l].stack) <= 1
    BY DEF Asked
  <2>0. m \in 1..N /\ m # N'
    BY <1>1, <1>4
  <2>1. cstack'[m + 1].k = "resume" /\ m \in 1..N /\ cstack'[m] = cstack[m]
    BY <1>4, <2>0 DEF Ends
  <2>2. CASE m = N
    BY <1>1, <1>3, <2>1, <2>2
  <2>3. CASE m # N
    <3>1. m + 1 \in 1..N /\ m < N
      BY <1>1, <2>1, <2>3
    <3>2. Ends(m)
      BY <1>4, <2>1, <3>1 DEF Ends
    <3>3. cstack[m].l \in Threads /\ cstack[m].l # Running /\ cstack[m].l # co
      BY <1>1, <1>2, <2>1, <3>1, <3>2, WaitingThread DEF Off
    <3> QED
      BY <1>3, <2>1, <3>1, <3>2, <3>3 DEF ValueInv, Asked
  <2> QED
    BY <2>2, <2>3
<1>7. ASSUME NEW l \in Co, th'[l].status = "0", ~OnStack(l)'
      PROVE  th'[l].stack \in {<< >>, <<"function">>}
  <2>1. \A m \in 1..N + 1 : m \in 1..N' /\ cstack'[m].l # l
    BY <1>1, <1>4, <1>7 DEF OnStack
  <2>2. l # co
    <3>1. N + 1 \in 1..N + 1
      BY <1>1
    <3> QED
      BY <1>4, <2>1, <3>1
  <2>3. \A m \in 1..N : cstack[m].l # l
    <3>1. \A m \in 1..N : m \in 1..N + 1
      BY <1>1
    <3> QED
      BY <1>4, <2>1, <3>1
  <2>4. l # Running /\ ~OnStack(l)
    <3>1. N \in 1..N
      BY <1>1
    <3> QED
      BY <1>1, <2>3, <3>1 DEF OnStack
  <2>5. th'[l] = th[l]
    BY <1>3, <2>2, <2>4 DEF Threads
  <2> QED
    BY <1>7, <2>4, <2>5 DEF ValueInv, Begun
<1>8. Begun'
  BY <1>7 DEF Begun
<1>9. Got' = sent'
  BY <1>3, <1>5 DEF Got, L
<1>10. \A l \in Co : l = Running \/ l = co \/ th'[l] = th[l]
  BY <1>3 DEF Threads
<1>11. Promise!Next
  BY <1>1, <1>3, <1>4, <1>9, <1>10, ResumeStep
<1> QED
  BY <1>6, <1>8, <1>11 DEF Mapped, ValueInv

LEMMA lua_resumeMapped ==
    ASSUME Inv, Inv', FrameInv, ValueInv, InLua, NEW fn \in {"resume", "wrap"}, NEW co \in Co,
           NEW args \in Seq(Value), costatus(co) = "suspended",
           lua_resume(co, args, Asking(fn)), sent' = args
    PROVE  Mapped
<1> DEFINE a == Asking(fn)
           levelled == lua_setlevel(a, th[co])
           level == levelled.nCcalls
           started == [levelled EXCEPT !.nCcalls = level + 1, !.baseCcalls = level + 1]
           c == CCall("resume", co, 0, level, FALSE)
<1>1. a \in Thread /\ a.nCcalls = N /\ a.status = "0" /\ a.ci # << >>
  BY AskingType
<1>2. Len(a.stack) <= 1
  <2>1. CASE fn = "resume"
    <3> DEFINE s == <<"thread">>
    <3>1. Len(s) <= 1
      OBVIOUS
    <3>2. a.stack = s
      BY <2>1, RunningFacts DEF Asking, Thread
    <3> HIDE DEF a, s
    <3> QED
      BY <3>1, <3>2
  <2>2. CASE fn # "resume"
    <3>1. a.stack = << >>
      BY <2>2, RunningFacts DEF Asking, Thread
    <3> HIDE DEF a
    <3> QED
      BY <3>1
  <2> QED
    BY <2>1, <2>2
<1>3. /\ co \in Threads /\ th[co] \in Thread
      /\ \/ th[co].status = "yield" /\ th[co].ci # << >>
         \/ th[co].status = "0" /\ th[co].ci = << >> /\ th[co].stack = <<"function">>
  BY SuspendedFacts
<1> HIDE DEF a
<1>4. /\ levelled \in Thread /\ level = N /\ levelled.status = th[co].status
      /\ levelled.ci = th[co].ci /\ levelled.stack = th[co].stack
  BY <1>1, <1>3, RunningFacts DEF lua_setlevel, Thread
<1> HIDE DEF levelled
<1>5. CASE level >= LUAI_MAXCCALLS
  <2> DEFINE t == OutOfCalls(levelled)
             r == Refused(a)
  <2>1. t.status = th[co].status /\ t.ci = th[co].ci /\ t.stack = << >>
    BY <1>4 DEF OutOfCalls, Thread
  <2>2. /\ th' = [th EXCEPT ![co] = t, ![Running] = r.l] /\ throwing' = Raised(r.err)
        /\ cstack' = cstack
    BY <1>5 DEF lua_resume, a, levelled
  <2> HIDE DEF t, r
  <2>3. r = Refused(Asking(fn))
    BY DEF r, a
  <2> QED
    BY <2>1, <2>2, <2>3, OutOfCallsMapped
<1>6. CASE ~(level >= LUAI_MAXCCALLS)
  <2> DEFINE going == IF IsCallable(started) THEN Continued(started, args) ELSE started
  <2>1. /\ cstack' = Append(cstack, c) /\ throwing' = Raised(~IsCallable(started))
        /\ th' = [th EXCEPT ![Running] = a, ![co] = going]
    BY <1>6 DEF lua_resume, a, levelled
  <2>2. /\ started \in Thread /\ started.status = th[co].status
        /\ started.ci = th[co].ci /\ started.stack = th[co].stack
    <3>1. level + 1 \in Nat
      BY <1>4, RunningFacts
    <3> QED
      BY <1>4, <3>1 DEF Thread
  <2> HIDE DEF started
  <2>3. IsCallable(started)
    <3>1. CASE started.status = "0"
      <4> DEFINE f == <<"function">>
      <4>1. Last(f) = "function"
        BY DEF Last
      <4>2. started.stack = f
        BY <1>3, <2>2, <3>1
      <4> HIDE DEF f
      <4> QED
        BY <4>1, <4>2 DEF IsCallable
    <3>2. CASE started.status # "0"
      BY <3>2 DEF IsCallable
    <3> QED
      BY <3>1, <3>2
  <2>4. going.stack = args
    <3>1. CASE started.status = "0"
      <4> DEFINE first == <<"Lua">>
      <4>1. going = [started EXCEPT !.ci = first, !.stack = args]
        BY <2>3, <3>1 DEF Continued
      <4> HIDE DEF first, going
      <4> QED
        BY <2>2, <4>1 DEF Thread
    <3>2. CASE started.status # "0"
      <4> DEFINE back == Results(started, args)
      <4>1. going = [back EXCEPT !.status = "0"]
        BY <2>3, <3>2 DEF Continued
      <4>2. back \in Thread /\ back.stack = args
        BY <1>3, <2>2, <3>2, ResultsType
      <4> HIDE DEF back, going
      <4> QED
        BY <4>1, <4>2 DEF Thread
    <3> QED
      BY <3>1, <3>2
  <2>5. throwing' = "no"
    BY <2>1, <2>3 DEF Raised
  <2>6. c \in AnyCall /\ c.k = "resume" /\ c.l = co
    BY <1>3, <1>4, RunningFacts DEF CCall, AnyCall
  <2> HIDE DEF c, going
  <2>7. going.stack = sent'
    BY <2>4
  <2> QED
    BY <1>1, <1>2, <2>1, <2>5, <2>6, <2>7, ResumedMapped
<1> QED
  BY <1>5, <1>6

LEMMA auxresumeMapped ==
    ASSUME Inv, Inv', FrameInv, ValueInv, auxresume
    PROVE  Mapped
<1>1. InLua
  BY DEF auxresume
<1>2. PICK fn \in {"resume", "wrap"}, co \in Co, args \in Lists :
          LET l == Asking(fn)
              to == Refused(l)
              room == IF co = Running THEN [l EXCEPT !.stack = @ \o args] ELSE th[co]
          IN  /\ th[co].status # "none"
              /\ sent' = args
              /\ IF ~lua_checkstack(room, Len(args))
                 THEN th' = [th EXCEPT ![Running] = l] /\ throwing' = "raise"
                      /\ UNCHANGED <<cstack, bad>>
                 ELSE IF costatus(co) # "suspended"
                 THEN th' = [th EXCEPT ![Running] = to.l] /\ throwing' = Raised(to.err)
                      /\ UNCHANGED <<cstack, bad>>
                 ELSE lua_resume(co, args, l)
  BY DEF auxresume
<1>3. args \in Seq(Value) /\ sent' = args
  BY <1>2, CoroutineAssumption
<1>4. CASE th' = [th EXCEPT ![Running] = Asking(fn)] /\ cstack' = cstack
  BY <1>1, <1>4, ThreadStep
<1>5. CASE th' = [th EXCEPT ![Running] = Refused(Asking(fn)).l] /\ cstack' = cstack
  BY <1>1, <1>5, ThreadStep
<1>6. CASE costatus(co) = "suspended" /\ lua_resume(co, args, Asking(fn))
  BY <1>1, <1>3, <1>6, lua_resumeMapped
<1> QED
  BY <1>2, <1>4, <1>5, <1>6

-----------------------------------------------------------------------------
(* A coroutine leaves its resume.                                          *)

\* A thread that waits is not the one that runs.
WaitersWait == \A m \in 1..N : Ends(m) /\ m < N => cstack[m].l # Running

LEMMA WaitsNot == StackInv /\ N > 0 => WaitersWait
  BY RunningThread DEF WaitersWait

LEMMA WaitsNotNext ==
    ASSUME StackInv', N' > 0, NEW m \in 1..N', Ends(m)', m < N'
    PROVE  cstack'[m].l # Running'
<1>1. (StackInv /\ N > 0 => WaitersWait)'
  BY WaitsNot, PTL
<1>2. WaitersWait'
  BY <1>1
<1> QED
  BY <1>2 DEF WaitersWait

\* The calls from the resume up end, the coroutine is now t, and its resumer u.
LEMMA LeftMapped ==
    ASSUME Inv, Inv', ValueInv, InLua \/ throwing # "no", Running # Main,
           NEW low \in Nat, low > 0, low < N, cstack[low + 1].k = "resume",
           \A m \in low + 1..N : cstack[m].l = Running,
           \A m \in low + 2..N : cstack[m].k # "resume",
           \A m \in 1..low : cstack[m].l # Running,
           cstack' = SubSeq(cstack, 1, low), NEW t, NEW u,
           th' = [th EXCEPT ![Running] = t, ![cstack[low].l] = u],
           t.status = "0" => t.stack = << >>, NEW s, StatusOf(t) = s
    PROVE  ValueInv' /\ Promise!Leave(s) /\ Running' = cstack[low].l /\ th'[Running'] = u
<1> DEFINE caller == cstack[low].l
<1>1. /\ StackInv /\ StackInv' /\ N \in Nat /\ N > 0 /\ Running \in Threads
      /\ cstack \in Seq(AnyCall) /\ low \in 1..N /\ low + 1 \in 1..N
      /\ \A m \in 1..N : cstack[m] \in AnyCall
  <2>1. StackInv /\ StackInv' /\ N \in Nat /\ N > 0 /\ Running \in Threads
    BY RunningFacts DEF Inv
  <2>2. cstack \in Seq(AnyCall) /\ \A m \in 1..N : cstack[m] \in AnyCall
    BY <2>1 DEF StackInv, CStackInv, N
  <2>3. low \in 1..N /\ low + 1 \in 1..N
    BY <2>1
  <2> QED
    BY <2>1, <2>2, <2>3
<1>2. /\ N' = low /\ \A m \in 1..low : m \in 1..N /\ cstack'[m] = cstack[m]
  BY <1>1 DEF N
<1>3. Ends(low) /\ low \in 1..low
  BY <1>1 DEF Ends
<1>4. caller \in Threads /\ caller # Running
  BY <1>1, <1>3, WaitingThread
<1>5. Running' = caller
  BY <1>1, <1>2, <1>3, RunsLastNext
<1>6. /\ th'[caller] = u /\ th'[Running] = t
      /\ \A l \in Threads \ {Running, caller} : th'[l] = th[l]
  BY <1>1, <1>4 DEF StackInv
<1> HIDE DEF caller
<1>7. Asked'
  <2> SUFFICES ASSUME NEW m \in 1..N', Ends(m)', m < N'
               PROVE  Len(th'[cstack'[m].l].stack) <= 1
    BY DEF Asked
  <2>0. m # N' /\ m + 1 \in 1..low /\ m \in 1..low /\ m < N
    BY <1>1, <1>2
  <2>1. cstack'[m + 1].k = "resume"
    BY <2>0 DEF Ends
  <2>2. cstack'[m + 1] = cstack[m + 1] /\ cstack'[m] = cstack[m] /\ m \in 1..N
    BY <1>2, <2>0
  <2>3. Ends(m)
    BY <2>1, <2>2 DEF Ends
  <2>4. cstack[m].l \in Threads /\ cstack[m].l # Running
    BY <1>1, <2>0, <2>2, <2>3, WaitingThread
  <2>5. cstack[m].l # caller
    <3>1. cstack'[m].l # Running'
      BY <1>1, <1>2, WaitsNotNext
    <3> QED
      BY <1>5, <2>2, <3>1
  <2> QED
    BY <1>6, <2>0, <2>2, <2>3, <2>4, <2>5 DEF ValueInv, Asked
<1>8. ASSUME NEW l \in Co, th'[l].status = "0", ~OnStack(l)'
      PROVE  th'[l].stack \in {<< >>, <<"function">>}
  <2>1. CASE l = Running
    BY <1>6, <1>8, <2>1
  <2>2. CASE l # Running
    <3>1. \A m \in 1..low : cstack[m].l # l
      BY <1>2, <1>8 DEF OnStack
    <3>2. l # caller
      BY <1>3, <3>1 DEF caller
    <3>3. \A m \in 1..N : m \in 1..low \/ m \in low + 1..N
      BY <1>1
    <3>4. ~OnStack(l)
      BY <2>2, <3>1, <3>3 DEF OnStack
    <3>5. th'[l] = th[l]
      BY <1>6, <2>2, <3>2 DEF Threads
    <3> QED
      BY <1>8, <3>4, <3>5 DEF ValueInv, Begun
  <2> QED
    BY <2>1, <2>2
<1>9. Begun'
  BY <1>8 DEF Begun
<1>10. Active(cstack) = Append(Active(cstack'), Running)
  <2>1. PICK n \in 1..N : n = low + 1 /\ n - 1 = low
    BY <1>1
  <2>2. \A i \in n + 1..Len(cstack) : i \in low + 2..N
    BY <2>1 DEF N
  <2>3. n \in 1..Len(cstack) /\ n \in low + 1..N
    BY <1>1, <2>1 DEF N
  <2>4. Active(cstack) = IF cstack[n].k = "resume"
                         THEN Append(Active(SubSeq(cstack, 1, n - 1)), cstack[n].l)
                         ELSE Active(SubSeq(cstack, 1, n - 1))
    BY <1>1, <2>2, <2>3, ActiveCut
  <2>5. cstack[n].k = "resume" /\ cstack[n].l = Running
    BY <2>1, <2>3
  <2>6. cstack' = SubSeq(cstack, 1, n - 1)
    BY <2>1
  <2> QED
    BY <2>4, <2>5, <2>6
<1>11. Promise!Leave(s)
  <2>1. PICK co \in Co : co = Running
    BY <1>1 DEF Threads
  <2>2. Running' # co
    BY <1>4, <1>5, <2>1
  <2>3. StatusOf(th'[co]) = s
    BY <1>6, <2>1
  <2>4. \A c \in Co : c = co \/ c = Running' \/ th'[c] = th[c]
    BY <1>5, <1>6, <2>1 DEF Threads
  <2>5. Active(cstack) = Append(Active(cstack'), co)
    BY <1>10, <2>1
  <2> QED
    BY <1>1, <2>1, <2>2, <2>3, <2>4, <2>5, LeaveStep
<1> QED
  BY <1>5, <1>6, <1>7, <1>9, <1>11 DEF ValueInv, caller

\* What a resume gets back fits, so that it does not end with an error of its own.
ListsFit == \A vals \in Lists : Len(vals) + 2 <= LUAI_MAXCSTACK

\* The running coroutine, which is now t, leaves through the resume on top.
LEMMA BackToResumerMapped ==
    ASSUME Inv, Inv', FrameInv, ValueInv, ListsFit, InLua, Top.k = "resume",
           NEW vals \in Lists, sent' = vals, NEW t \in Good, t.nCcalls = N, t.stack = vals,
           t.status = "yield" \/ (t.status = "0" /\ t.ci = << >>), BackToResumer(t)
    PROVE  Mapped
<1>1. PICK n \in Nat : n = N - 1 /\ n > 0 /\ n < N /\ n \in 1..N /\ n + 1 = N
  <2>1. N # 1
    BY RunningFacts DEF StackInv, CStackInv
  <2> QED
    BY <2>1, RunningFacts
<1>2. Ends(n) /\ Running # Main /\ \A m \in 1..n : cstack[m].l # Running
  <2>1. cstack[N] = Top
    BY RunningFacts
  <2> QED
    BY <1>1, <2>1, ResumeIsBare DEF Ends
<1> DEFINE caller == cstack[n].l
           left == [t EXCEPT !.nCcalls = @ - 1]
           r == Resumed(left, th[caller])
<1>3. /\ cstack' = SubSeq(cstack, 1, n)
      /\ th' = [th EXCEPT ![Running] = r.co, ![caller] = r.to.l]
      /\ throwing' = Raised(r.to.err)
  BY <1>1 DEF BackToResumer, Pop, N
<1>4. th[caller] \in Thread /\ th[caller].ci # << >>
  BY <1>1, <1>2, RunningFacts, WaitingThread
<1>5. Len(th[caller].stack) <= 1 /\ Len(th[caller].stack) \in Nat
  <2>1. Len(th[caller].stack) <= 1
    BY <1>1, <1>2 DEF ValueInv, Asked
  <2>2. Len(th[caller].stack) \in Nat
    BY <1>4 DEF Thread
  <2> QED
    BY <2>1, <2>2
<1>6. /\ left \in Thread /\ left.status = t.status /\ left.ci = t.ci /\ left.stack = vals
  <2>1. t.nCcalls - 1 \in Nat
    BY RunningFacts
  <2> QED
    BY <2>1 DEF Good, Thread
<1> HIDE DEF left, caller
<1>7. vals \in Seq(Value) /\ Len(vals) \in Nat
  BY CoroutineAssumption
<1>8. lua_checkstack(th[caller], Len(left.stack) + 1)
  <2>1. Len(vals) + 2 <= LUAI_MAXCSTACK /\ LUAI_MAXCSTACK \in Nat
    BY CoroutineAssumption DEF ListsFit
  <2>2. PICK a \in Nat : a = Len(th[caller].stack) /\ a <= 1
    BY <1>5
  <2>3. PICK b \in Nat : b = Len(vals) /\ b + 2 <= LUAI_MAXCSTACK
    BY <1>7, <2>1
  <2>4. a + (b + 1) <= LUAI_MAXCSTACK
    <3>1. a <= 1 /\ b + 2 <= LUAI_MAXCSTACK /\ LUAI_MAXCSTACK \in Nat
      BY <2>1, <2>2, <2>3
    <3> QED
      BY <3>1
  <2> QED
    BY <1>6, <2>2, <2>3, <2>4 DEF lua_checkstack
<1> DEFINE gone == [left EXCEPT !.stack = << >>]
<1>9. r = [co |-> gone, to |-> Answered(th[caller], left.stack)]
  BY <1>8 DEF Resumed
<1>10. r.co = gone /\ r.to = Answered(th[caller], vals)
  BY <1>6, <1>9
<1>11. gone.status = t.status /\ gone.ci = t.ci /\ gone.stack = << >>
  BY <1>6 DEF Thread
<1> HIDE DEF r, gone
<1>12. PICK s \in {"suspended", "dead"} : StatusOf(gone) = s
  BY <1>11 DEF StatusOf
<1>13. ValueInv' /\ Promise!Leave(s) /\ Running' = caller /\ th'[Running'] = r.to.l
  <2>1. \A m \in n + 1..N : cstack[m].l = Running
    BY <1>1, RunningFacts
  <2>2. cstack[n + 1].k = "resume" /\ \A m \in n + 2..N : cstack[m].k # "resume"
    BY <1>1, RunningFacts
  <2>3. gone.status = "0" => gone.stack = << >>
    BY <1>11
  <2>4. th' = [th EXCEPT ![Running] = gone, ![cstack[n].l] = r.to.l]
    BY <1>3, <1>10 DEF caller
  <2> QED
    <3>1. PICK u : u = r.to.l
      OBVIOUS
    <3>2. /\ n > 0 /\ n < N /\ Running # Main /\ \A m \in 1..n : cstack[m].l # Running
          /\ cstack' = SubSeq(cstack, 1, n) /\ th' = [th EXCEPT ![Running] = gone, ![cstack[n].l] = u]
      BY <1>1, <1>2, <1>3, <2>4, <3>1
    <3>3. ValueInv' /\ Promise!Leave(s) /\ Running' = cstack[n].l /\ th'[Running'] = u
      BY <1>12, <2>1, <2>2, <2>3, <3>2, LeftMapped
    <3> QED
      BY <3>1, <3>3 DEF caller
<1>14. Promise!Answered
  <2>1. r.to.err = FALSE /\ r.to.l.stack \in {vals, <<"true">> \o vals}
    BY <1>4, <1>7, <1>10, AnsweredGets
  <2>2. Got' = r.to.l.stack
    BY <1>3, <1>13, <2>1 DEF Got, L, Raised
  <2> QED
    BY <2>1, <2>2 DEF Promise!Answered
<1>15. Promise!Next
  BY <1>13, <1>14 DEF Promise!Next, Promise!Yield, Promise!Finish
<1> QED
  BY <1>13, <1>15 DEF Mapped

LEMMA lua_yieldMapped ==
    ASSUME Inv, Inv', FrameInv, ValueInv, ListsFit, lua_yield
    PROVE  Mapped
<1>1. InLua /\ throwing = "no"
  BY DEF lua_yield, InLua
<1> DEFINE ci == Append(L.ci, "yield")
<1>2. PICK vals \in Lists :
          /\ sent' = vals
          /\ IF ~CanYield(L)
             THEN /\ th' = [th EXCEPT ![Running].ci = Append(@, "yield")]
                  /\ throwing' = "raise" /\ UNCHANGED <<cstack, bad>>
             ELSE IF Top.k # "resume" THEN bad' = TRUE /\ UNCHANGED <<th, cstack, throwing>>
             ELSE BackToResumer([L EXCEPT !.ci = Append(@, "yield"), !.status = "yield",
                                          !.stack = vals])
  BY DEF lua_yield
<1>3. ci \in Seq(Frame) /\ Len(ci) = Len(L.ci) + 1 /\ vals \in Seq(Value)
  BY <1>1, RunningFacts, AppendType, CoroutineAssumption DEF Frame
<1>4. CASE ~CanYield(L)
  <2> DEFINE u == [L EXCEPT !.ci = ci]
  <2>1. th' = [th EXCEPT ![Running] = u] /\ cstack' = cstack
    BY <1>1, <1>2, <1>4, RunningFacts DEF StackInv
  <2> HIDE DEF u
  <2> QED
    BY <1>1, <2>1, ThreadStep
<1>5. CASE CanYield(L)
  <2> DEFINE u == [L EXCEPT !.ci = ci, !.status = "yield", !.stack = vals]
  <2>1. Top.k = "resume" /\ BackToResumer(u)
    BY <1>1, <1>2, <1>5, YieldsFromResume
  <2>2. Len(L.ci) > 0 /\ Len(ci) >= 2
    BY <1>1, <1>3, RunningFacts
  <2> HIDE DEF ci
  <2>3. /\ u \in Thread /\ u.nCcalls = N /\ u.ci = ci /\ u.status = "yield"
        /\ u.stack = vals
    BY <1>1, <1>3, RunningFacts DEF Thread
  <2> HIDE DEF u
  <2>4. u \in Good
    BY <2>2, <2>3 DEF Good
  <2> QED
    BY <1>1, <1>2, <2>1, <2>3, <2>4, BackToResumerMapped
<1> QED
  BY <1>4, <1>5

LEMMA ReturnMapped ==
    ASSUME Inv, Inv', FrameInv, ValueInv, ListsFit, Return
    PROVE  Mapped
<1>1. InLua /\ throwing = "no" /\ L.ci # << >>
  BY DEF Return, InLua
<1>2. PICK vals \in Lists :
          LET l == Results(L, vals)
          IN  /\ sent' = vals
              /\ IF Len(l.ci) > Top.ci
                 THEN th' = [th EXCEPT ![Running] = l] /\ UNCHANGED <<cstack, throwing, bad>>
                 ELSE IF Top.k = "resume" THEN BackToResumer(l)
                 ELSE /\ cstack' = Pop(cstack)
                      /\ th' = [th EXCEPT ![Running] =
                                  [IF Top.k = "pcall" /\ l.ci # << >>
                                   THEN Results(l, <<"true">> \o vals) ELSE l
                                   EXCEPT !.nCcalls = @ - 1, !.errfunc = Top.errfunc]]
                      /\ throwing' = IF Top.k = "handler" THEN "throw" ELSE "no"
                      /\ UNCHANGED bad
  BY DEF Return
<1> DEFINE t == Results(L, vals)
<1>3. vals \in Seq(Value)
  BY CoroutineAssumption
<1>4. /\ t \in Thread /\ t.nCcalls = N /\ t.status = "0" /\ t.stack = vals
      /\ Len(t.ci) \in Nat /\ t.ci \in Seq(Frame)
  <2>1. t \in Thread /\ t.nCcalls = N /\ t.status = "0" /\ t.stack = vals
    BY <1>1, <1>3, RunningFacts, ResultsType
  <2> HIDE DEF t
  <2> QED
    BY <2>1 DEF Thread
<1>5. CASE Len(t.ci) > Top.ci
  <2>1. th' = [th EXCEPT ![Running] = t] /\ cstack' = cstack
    BY <1>2, <1>5
  <2> HIDE DEF t
  <2> QED
    BY <1>1, <2>1, ThreadStep
<1>6. CASE ~(Len(t.ci) > Top.ci) /\ Top.k = "resume"
  <2>1. BackToResumer(t) /\ sent' = vals
    BY <1>2, <1>6
  <2> HIDE DEF t
  <2>2. t.ci = << >>
    <3>1. Top.ci = 0
      BY <1>1, <1>6, ResumeIsBare
    <3>2. Len(t.ci) = 0
      BY <1>4, <1>6, <3>1
    <3> QED
      BY <1>4, <3>2, EmptySeq
  <2>3. t \in Good
    BY <1>4 DEF Good
  <2> QED
    BY <1>1, <1>4, <1>6, <2>1, <2>2, <2>3, BackToResumerMapped
<1>7. CASE ~(Len(t.ci) > Top.ci) /\ Top.k # "resume"
  <2> DEFINE u == [IF Top.k = "pcall" /\ t.ci # << >>
                   THEN Results(t, <<"true">> \o vals) ELSE t
                   EXCEPT !.nCcalls = @ - 1, !.errfunc = Top.errfunc]
  <2>1. cstack' = SubSeq(cstack, 1, N - 1) /\ th' = [th EXCEPT ![Running] = u]
    BY <1>2, <1>7 DEF Pop, N
  <2> HIDE DEF u
  <2>2. \A l \in Threads \ {Running} : th'[l] = th[l]
    BY <1>1, <2>1, RunningFacts DEF StackInv
  <2>3. N > 0 /\ N \in 1..N /\ \A m \in N..N : cstack[m].l = Running /\ cstack[m].k # "resume"
    BY <1>1, <1>7, RunningFacts
  <2> QED
    BY <2>1, <2>2, <2>3, OwnEnd, OwnStep
<1> QED
  BY <1>5, <1>6, <1>7

LEMMA luaD_throwMapped ==
    ASSUME Inv, Inv', FrameInv, ValueInv, luaD_throw
    PROVE  Mapped
<1> DEFINE n == CHOOSE i \in Protected : \A m \in Protected : m <= i
           at == cstack[n]
<1>1. throwing = "throw"
  BY DEF luaD_throw
<1>2. /\ n \in 1..N /\ at.k \in {"pcall", "resume"}
      /\ \A m \in n + 1..N : cstack[m].k \in {"call", "handler"}
  BY <1>1, RunningFacts, LastProtected
<1>3. /\ cstack' = SubSeq(cstack, 1, n - 1)
      /\ IF at.k = "resume"
         THEN LET to == Refused(th[cstack[n - 1].l])
              IN  /\ th' = [th EXCEPT ![at.l].status = "error", ![at.l].nCcalls = @ - 1,
                                      ![at.l].stack = << >>, ![cstack[n - 1].l] = to.l]
                  /\ throwing' = Raised(to.err)
         ELSE LET l == Restored(th[at.l], at)
              IN  th' = [th EXCEPT ![at.l] = IF l.ci = << >> THEN l
                                             ELSE Results(l, <<"false", "error">>)]
  BY DEF luaD_throw
<1> HIDE DEF n
<1>4. PICK low \in Nat : low = n - 1 /\ low < N /\ low + 1 = n /\ n \in Nat
  BY <1>1, <1>2, RunningFacts
<1>5. /\ CStackInv /\ cstack \in Seq(AnyCall) /\ at \in AnyCall
      /\ \A m \in 1..N : cstack[m] \in AnyCall
  BY <1>2 DEF Inv, StackInv, CStackInv, N
<1>6. at.l = Running /\ \A m \in n..N : cstack[m].l = Running
  <2>1. \A m \in n..N : cstack[m].l = at.l
    BY <1>2, <1>5, SameThreadAbove
  <2>2. N \in n..N
    BY <1>1, <1>2, RunningFacts
  <2>3. cstack[N].l = at.l
    BY <2>1, <2>2
  <2> QED
    BY <1>1, <2>1, <2>3, RunningFacts
<1>7. CASE at.k = "resume"
  <2> DEFINE caller == cstack[low].l
             r == Refused(th[caller])
             dead == [L EXCEPT !.status = "error", !.nCcalls = @ - 1, !.stack = << >>]
  <2>1. low \in 1..N /\ low > 0 /\ Ends(low)
    <3>1. n # 1
      <4>1. cstack[1].k = "pcall"
        BY <1>1, RunningFacts DEF StackInv, CStackInv
      <4> QED
        BY <1>7, <4>1
    <3>2. low \in 1..N /\ low > 0
      BY <1>1, <1>2, <1>4, <3>1, RunningFacts
    <3> QED
      BY <1>4, <1>7, <3>2 DEF Ends
  <2>2. /\ caller \in Threads /\ caller # Running /\ th[caller] \in Thread
        /\ th[caller].status = "0" /\ th[caller].ci # << >>
    BY <1>1, <1>4, <2>1, RunningFacts, WaitingThread
  <2>3. Running # Main
    <3>1. L.baseCcalls = n
      BY <1>1, <1>2, <1>6, <1>7, RunningFacts DEF FrameInv, CallInv
    <3> QED
      BY <1>1, <1>2, <3>1, RunningFacts DEF FrameInv
  <2>4. \A m \in 1..low : cstack[m].l # Running
    <3> SUFFICES ASSUME NEW m \in 1..low PROVE cstack[m].l # Running
      OBVIOUS
    <3>1. m \in 1..N /\ ~(n \in 1..m)
      BY <1>1, <1>4, RunningFacts
    <3>2. L.baseCcalls = n
      BY <1>1, <1>2, <1>6, <1>7, RunningFacts DEF FrameInv, CallInv
    <3> QED
      BY <1>1, <2>3, <3>1, <3>2, BeginsWithResume, RunningFacts
  <2>5. dead.status = "error" /\ StatusOf(dead) = "dead"
    <3>1. dead.status = "error"
      BY <1>1, RunningFacts DEF Thread
    <3> HIDE DEF dead
    <3> QED
      BY <3>1 DEF StatusOf
  <2>6. /\ th' = [th EXCEPT ![Running] = dead, ![caller] = r.l]
        /\ throwing' = Raised(r.err)
    <3>1. /\ th' = [th EXCEPT ![Running].status = "error", ![Running].nCcalls = @ - 1,
                              ![Running].stack = << >>, ![caller] = r.l]
          /\ throwing' = Raised(r.err)
      BY <1>3, <1>4, <1>6, <1>7
    <3> HIDE DEF r, caller
    <3> QED
      BY <1>1, <3>1, RunningFacts DEF StackInv
  <2> HIDE DEF dead
  <2>7. r.err \in BOOLEAN /\ (r.err = FALSE => r.l.stack = Promise!Failed)
    <3>1. r \in {Refused(th[caller]), Answered(th[caller], << >>)}
      OBVIOUS
    <3> QED
      BY <2>2, <3>1, NewThreadType, AnswerType, RefusedGets
  <2>8. PICK u : u = r.l
    OBVIOUS
  <2> HIDE DEF r
  <2>9. th' = [th EXCEPT ![Running] = dead, ![cstack[low].l] = u]
    BY <2>6, <2>8
  <2>10. /\ cstack[low + 1].k = "resume" /\ \A m \in low + 1..N : cstack[m].l = Running
         /\ cstack' = SubSeq(cstack, 1, low)
    BY <1>3, <1>4, <1>6, <1>7
  <2>11. \A m \in low + 2..N : cstack[m].k # "resume"
    <3>1. \A m \in low + 2..N : m \in n + 1..N
      BY <1>1, <1>4, RunningFacts
    <3> QED
      BY <1>2, <3>1
  <2>12. dead.status = "0" => dead.stack = << >>
    BY <2>5
  <2>13. PICK s : s = "dead" /\ StatusOf(dead) = s
    BY <2>5
  <2>14. ValueInv' /\ Promise!Leave(s) /\ Running' = cstack[low].l /\ th'[Running'] = u
    <3>1. throwing # "no" /\ low > 0 /\ low < N /\ StatusOf(dead) = s
      BY <1>1, <1>4, <2>1, <2>13
    <3> QED
      BY <2>3, <2>4, <2>9, <2>10, <2>11, <2>12, <3>1, LeftMapped
  <2>15. Got' = Promise!Failed
    <3>1. CASE r.err = FALSE
      BY <2>6, <2>7, <2>8, <2>14, <3>1 DEF Got, L, Raised
    <3>2. CASE r.err = TRUE
      BY <2>6, <3>2 DEF Got, Raised, Promise!Failed
    <3> QED
      BY <2>7, <3>1, <3>2
  <2>16. Promise!Fail
    BY <2>13, <2>14, <2>15 DEF Promise!Fail
  <2> QED
    BY <2>14, <2>16 DEF Mapped, Promise!Next
<1>8. CASE at.k = "pcall"
  <2> DEFINE t == Restored(L, at)
             u == IF t.ci = << >> THEN t ELSE Results(t, <<"false", "error">>)
  <2>1. th' = [th EXCEPT ![Running] = u]
    BY <1>1, <1>3, <1>6, <1>8, RunningFacts
  <2> HIDE DEF u
  <2>2. \A l \in Threads \ {Running} : th'[l] = th[l]
    BY <1>1, <2>1, RunningFacts DEF StackInv
  <2>3. \A m \in n..N : cstack[m].k # "resume"
    <3>1. \A m \in n..N : m = n \/ m \in n + 1..N
      BY <1>1, <1>4, RunningFacts
    <3> QED
      BY <1>2, <1>8, <3>1
  <2>4. N > 0 /\ \A m \in n..N : cstack[m].l = Running /\ cstack[m].k # "resume"
    BY <1>1, <1>6, <2>3, RunningFacts
  <2> HIDE DEF at
  <2> QED
    BY <1>2, <1>3, <2>2, <2>4, OwnEnd, OwnStep
<1> QED
  BY <1>2, <1>7, <1>8

-----------------------------------------------------------------------------
(* The refinement.                                                         *)

LEMMA StepMapped ==
    ASSUME ListsFit
    PROVE  Inv /\ FrameInv /\ ValueInv /\ [Next]_vars => ValueInv' /\ [Promise!Next]_(Promise!vars)
<1> SUFFICES ASSUME Inv, FrameInv, ValueInv, [Next]_vars
             PROVE  ValueInv' /\ [Promise!Next]_(Promise!vars)
  OBVIOUS
<1>1. Inv'
  BY StepKeeps
<1>2. Mapped
  BY <1>1, drawMapped, CallMapped, CallMetamethodMapped, luaB_pcallMapped,
     luaB_cocreateMapped, auxresumeMapped, lua_yieldMapped, ReturnMapped, luaB_errorMapped,
     luaG_errormsgMapped, luaD_throwMapped DEF Next
<1> QED
  BY <1>2 DEF Mapped

LEMMA BeginsMapped == Init => ValueInv /\ Promise!Init
<1> SUFFICES ASSUME Init PROVE ValueInv /\ Promise!Init
  OBVIOUS
<1>1. /\ cstack = << >> /\ throwing = "no" /\ sent = << >>
      /\ th = [l \in Threads |-> IF l = Main THEN NewThread ELSE NoThread]
  BY DEF Init, Threads
<1>2. N = 0 /\ Running = Main
  BY <1>1 DEF N, Running
<1>3. NewThread.stack = << >> /\ NoThread.status = "none"
  BY DEF NewThread, NoThread
<1>4. \A co \in Co : th[co].status = "none"
  BY <1>1, <1>3, CoroutineAssumption DEF Threads
<1>5. ValueInv
  BY <1>2, <1>4 DEF ValueInv, Begun, Asked
<1>6. Status = [co \in Co |-> "none"]
  <2>1. \A co \in Co : costatus(co) = "none"
    BY <1>2, <1>4, CoroutineAssumption DEF costatus
  <2> QED
    BY <2>1 DEF Status
<1>7. Active(cstack) = << >>
  <2>1. StackInv
    BY Begins DEF Inv
  <2>2. PICK a \in [0..Len(cstack) -> Seq(Threads)] :
           IsActive(a, cstack) /\ Active(cstack) = a[Len(cstack)]
    BY <2>1, ActiveSteps DEF StackInv, CStackInv
  <2>3. Len(cstack) = 0 /\ 0 \in 0..Len(cstack)
    BY <1>1
  <2> QED
    BY <2>2, <2>3 DEF IsActive
<1>8. Got = << >>
  <2>1. L.stack = << >>
    BY <1>1, <1>2, <1>3 DEF L, Threads
  <2> QED
    BY <1>1, <2>1 DEF Got
<1> QED
  BY <1>1, <1>5, <1>6, <1>7, <1>8 DEF Promise!Init

\* Coroutines do what the manual of Lua says, whatever a program resumes, yields and raises,
\* at any limits: one runs, and the others are normal, suspended or dead as coroutine.status()
\* tells (luaB_costatus()), a resume, a yield and the end of a coroutine give the other what
\* was sent, an error ends only the coroutine it is raised in (auxresume(), lua_resume(),
\* lua_yield()).  A result that does not fit is the exception, see ListsFit.
THEOREM CoroutinesAreImplemented == ASSUME ListsFit PROVE Spec => ImplementsCoroutines
<1>1. Init => ValueInv /\ Promise!Init
  BY BeginsMapped
<1>2. Inv /\ FrameInv /\ ValueInv /\ [Next]_vars => ValueInv' /\ [Promise!Next]_(Promise!vars)
  BY StepMapped
<1> QED
  BY <1>1, <1>2, InvHolds, FrameInvHolds, PTL DEF Spec, ImplementsCoroutines, Promise!Spec
=============================================================================
