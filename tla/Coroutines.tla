----------------------------- MODULE Coroutines -----------------------------
(***************************************************************************)
(* What the manual of Lua promises of coroutines: one runs at a time, the   *)
(* others wait for it, for a resume, or are dead, and what one sends with   *)
(* resume(), yield() or at its end is what the other gets.                  *)
(* LuaCoroutine implements it.                                              *)
(***************************************************************************)
EXTENDS Integers, Sequences

CONSTANT Co     \* the coroutines there may be

VARIABLES
    status,     \* what coroutine.status() says of each, "none" before it is created
    active,     \* the coroutines that were resumed and go on, the running one last
    sent,       \* what was given to resume() or yield(), or returned, last
    got         \* what the running one got from its last call

vars == <<status, active, sent, got>>

Failed == <<"false", "error">>

Enter(co) ==
    /\ active' = Append(active, co)
    /\ status' = [c \in Co |-> IF c = co THEN "running"
                               ELSE IF status[c] = "running" THEN "normal" ELSE status[c]]

Leave(s) ==
    LET n == Len(active)
    IN  /\ n > 0 /\ active' = SubSeq(active, 1, n - 1)
        /\ status' = [c \in Co |-> IF c = active[n] THEN s
                                   ELSE IF n > 1 /\ c = active[n - 1] THEN "running"
                                   ELSE status[c]]

\* resume() adds true to what it gets, wrap() does not; values that do not fit are an error.
Answered == got' \in {sent', <<"true">> \o sent', Failed}

Create(co) == status[co] = "none" /\ status' = [status EXCEPT ![co] = "suspended"]
              /\ UNCHANGED <<active, sent>>
Resume(co) == status[co] = "suspended" /\ Enter(co) /\ got' = sent'
Yield == Leave("suspended") /\ Answered
Finish == Leave("dead") /\ Answered
Fail == Leave("dead") /\ got' = Failed
\* A resume for which there is no room kills a coroutine that has not begun.
Refuse(co) == status[co] = "suspended" /\ status' = [status EXCEPT ![co] = "dead"]
              /\ got' = Failed /\ UNCHANGED active
\* What a coroutine does without another.
Run == UNCHANGED <<status, active>>

Init == status = [c \in Co |-> "none"] /\ active = << >> /\ sent = << >> /\ got = << >>

Next == (\E co \in Co : Create(co) \/ Resume(co) \/ Refuse(co)) \/ Yield \/ Finish \/ Fail \/ Run

Spec == Init /\ [][Next]_vars
=============================================================================
