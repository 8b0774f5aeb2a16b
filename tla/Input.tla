------------------------------- MODULE Input -------------------------------
(***************************************************************************)
(* Keys on their way from the keyboard to the two modes: SDL queues them   *)
(* as events, SDL_PollEvent() takes the first, and either play mode notes  *)
(* it in the table keyboard.pressed of the Lua program or the editor in    *)
(* its array of keys, from which each frame makes operations and           *)
(* repetitions.                                                            *)
(*                                                                         *)
(* What the modes do otherwise is in Session, what an operation does in    *)
(* Editor.  Mouse buttons are, for play mode, keys like others.  Text that *)
(* is typed is inserted at once and kept nowhere: it is not in here.       *)
(***************************************************************************)
EXTENDS Integers, Sequences, FiniteSetsExt

CONSTANTS
    Key,                \* the keys but ESC
    Esc,
    NoKey,              \* 0: the ksym of a free slot, and SDLK_UNKNOWN
    KEY_MAX,            \* slots of the array of keys: 32
    KEY_REPEAT_PERIOD,  \* 2
    KEY_REPEAT_DELAY,   \* 8
    MaxWaiting          \* bound: events in the queue

KEY_REPEAT_PERIOD_FAST == 1

\* From this counter on a key repeats in every frame: a bound that hides nothing.
FastCounter == KEY_REPEAT_DELAY + KEY_REPEAT_PERIOD * 3 + 1

ASSUME InputAssumption ==
    /\ Esc \notin Key \cup {NoKey}
    /\ KEY_MAX \in Nat \ {0}
    /\ KEY_REPEAT_PERIOD \in Nat \ {0, 1} /\ KEY_REPEAT_DELAY \in Nat
    /\ MaxWaiting \in Nat

Slot == 1..KEY_MAX
Event == [type : {"down", "up"}, key : Key \cup {Esc}]

VARIABLES
    mode,      \* "poll" and "draw", the halves of a frame in play mode; "edit"
    held,      \* the keys that are down
    queue,     \* the SDL event queue
    pressed,   \* the keys of the table keyboard.pressed
    slots,     \* E.key
    due,       \* history: the keys that went down in this frame and must be noticed
    drained,   \* history: the last peek found the queue empty
    lost       \* history: the keys of the array whose release play mode took

history == <<due, drained, lost>>
vars == <<mode, held, queue, pressed, slots, history>>

FreeSlot == [ksym |-> NoKey, counter |-> 0]
KeysIn(s) == {s[j].ksym : j \in Slot} \ {NoKey}

Init ==
    /\ mode = "poll"
    /\ held = {}
    /\ queue = <<>>
    /\ pressed = {}
    /\ slots = [j \in Slot |-> FreeSlot]
    /\ due = {} /\ drained = FALSE /\ lost = {}

-----------------------------------------------------------------------------
(* The keyboard and the window system.                                     *)

\* Events of the window system reach the queue at any time but during a peek.
Deliver(type, k) ==
    /\ Len(queue) < MaxWaiting
    /\ queue' = Append(queue, [type |-> type, key |-> k])
    /\ UNCHANGED <<mode, pressed, slots, history>>

Press(k) == k \notin held /\ held' = held \cup {k} /\ Deliver("down", k)

Release(k) == k \in held /\ held' = held \ {k} /\ Deliver("up", k)

\* The window system repeats a key that is held.
SystemRepeat(k) == k \in held /\ UNCHANGED held /\ Deliver("down", k)

\* SDL_PollEvent() with an event, and without.
Take(e) ==
    /\ queue # <<>>
    /\ e = Head(queue)
    /\ queue' = Tail(queue)
    /\ UNCHANGED held

Empty == queue = <<>> /\ UNCHANGED <<held, queue>>

NewFrame == due' = {} /\ drained' = FALSE

-----------------------------------------------------------------------------
(* Play mode: processSdlEvents().                                          *)

PlayEscape ==
    /\ mode = "poll"
    /\ Take([type |-> "down", key |-> Esc])
    /\ mode' = "edit"
    /\ NewFrame
    /\ UNCHANGED <<pressed, slots, lost>>

\* updatePressedState().
PlayDown(e) ==
    /\ e.type = "down" /\ e.key # Esc
    /\ pressed' = pressed \cup {e.key}
    /\ due' = due \cup {e.key}
    /\ UNCHANGED lost

PlayUp(e) ==
    /\ e.type = "up"
    /\ pressed' = pressed \ {e.key}
    /\ due' = IF drained THEN due \ {e.key} ELSE due
    /\ lost' = IF e.key \in KeysIn(slots) THEN lost \cup {e.key} ELSE lost

\* The polling loop without its peek.
PlayEvent_NoPeek ==
    /\ mode = "poll"
    /\ \E e \in Event : Take(e) /\ (PlayDown(e) \/ PlayUp(e))
    /\ drained' = (queue' = <<>>)
    /\ UNCHANGED <<mode, slots>>

\* The frame ends when a release is next in the queue.  SDL_PeepEvents() adds nothing
\* to the queue: a release that comes after it is polled in the same frame.
PlayEvent ==
    /\ mode = "poll"
    /\ \E e \in Event : Take(e) /\ (PlayDown(e) \/ PlayUp(e))
    /\ drained' = (queue' = <<>>)
    /\ mode' = IF queue' # <<>> /\ Head(queue').type = "up" THEN "draw" ELSE "poll"
    /\ UNCHANGED slots

PlayPollEnds ==
    /\ mode = "poll"
    /\ Empty
    /\ mode' = "draw"
    /\ drained' = FALSE
    /\ UNCHANGED <<pressed, slots, due, lost>>

\* setup() and draw(), one of which may fail.
Draw ==
    /\ mode = "draw"
    /\ mode' \in {"poll", "edit"}
    /\ NewFrame
    /\ UNCHANGED <<held, queue, pressed, slots, lost>>

-----------------------------------------------------------------------------
(* The editor: editorEvents().                                             *)

\* The search ends at the first free slot.
editorGetKeyState_FirstFree(s, k) ==
    LET found == {j \in Slot : s[j].ksym \in {k, NoKey}}
    IN  IF found = {} THEN 0 ELSE Min(found)

\* The slot of a key, else the last free one, else none: 0.
editorGetKeyState(s, k) ==
    LET found == {j \in Slot : s[j].ksym = k}
        free == {j \in Slot : s[j].ksym = NoKey}
    IN  IF found # {} THEN Min(found) ELSE IF free # {} THEN Max(free) ELSE 0

\* The program of the text starts without a key pressed in the tables of the old one.
EditEscape_KeepsTables ==
    /\ mode = "edit"
    /\ Take([type |-> "down", key |-> Esc])
    /\ mode' \in {"poll", "edit"}
    /\ NewFrame
    /\ UNCHANGED <<pressed, slots, lost>>

\* ESC leaves the rest of the queue, and the array of keys, as they are.  The new
\* Lua state has empty tables; the program may fail to load.
EditEscape ==
    /\ mode = "edit"
    /\ Take([type |-> "down", key |-> Esc])
    /\ mode' \in {"poll", "edit"}
    /\ pressed' = {}
    /\ NewFrame
    /\ UNCHANGED <<slots, lost>>

EditDown ==
    /\ mode = "edit"
    /\ \E k \in Key :
         LET j == editorGetKeyState(slots, k)
         IN  /\ Take([type |-> "down", key |-> k])
             /\ slots' = IF j = 0 THEN slots
                         ELSE [slots EXCEPT ![j] = [ksym |-> k, counter |-> 1]]
             /\ due' = IF j = 0 THEN due \ {k} ELSE due \cup ({k} \ {NoKey})
             /\ lost' = lost \ {k}
    /\ UNCHANGED <<mode, pressed, drained>>

\* The slot keeps its key.
EditUp_KeepsKey ==
    /\ mode = "edit"
    /\ \E k \in Key \cup {Esc} :
         LET j == editorGetKeyState(slots, k)
         IN  /\ Take([type |-> "up", key |-> k])
             /\ slots' = IF j = 0 THEN slots
                         ELSE [slots EXCEPT ![j] = [ksym |-> k, counter |-> 0]]
             /\ due' = due \ {k}
             /\ lost' = lost \ {k}
    /\ UNCHANGED <<mode, pressed, drained>>

EditUp ==
    /\ mode = "edit"
    /\ \E k \in Key \cup {Esc} :
         LET j == editorGetKeyState(slots, k)
         IN  /\ Take([type |-> "up", key |-> k])
             /\ slots' = IF j = 0 THEN slots ELSE [slots EXCEPT ![j] = FreeSlot]
             /\ due' = due \ {k}
             /\ lost' = lost \ {k}
    /\ UNCHANGED <<mode, pressed, drained>>

\* The period is counted from 0 and not from the press.
pressed_or_repeated_FromZero(counter) ==
    LET period == IF counter >= FastCounter
                  THEN KEY_REPEAT_PERIOD_FAST ELSE KEY_REPEAT_PERIOD
    IN  /\ ~(counter > 1 /\ counter < KEY_REPEAT_DELAY)
        /\ counter > 0 /\ counter % period = 0

pressed_or_repeated(counter) ==
    LET period == IF counter >= FastCounter
                  THEN KEY_REPEAT_PERIOD_FAST ELSE KEY_REPEAT_PERIOD
    IN  /\ ~(counter > 1 /\ counter < KEY_REPEAT_DELAY)
        /\ (counter + period - 1) % period = 0

\* What a frame leaves of a slot: an unknown key does not repeat.
Counted(s) ==
    IF pressed_or_repeated(s.counter) /\ s.ksym = NoKey THEN FreeSlot
    ELSE [s EXCEPT !.counter =
             IF @ = 0 \/ @ = FastCounter THEN @ ELSE @ + 1]

Acting == {slots[j].ksym : j \in {i \in Slot : pressed_or_repeated(slots[i].counter)}}

\* The queue is empty: the keys act, one slot after the other.
EditFrame ==
    /\ mode = "edit"
    /\ Empty
    /\ slots' = [j \in Slot |-> Counted(slots[j])]
    /\ NewFrame
    /\ UNCHANGED <<mode, pressed, lost>>

-----------------------------------------------------------------------------
Next ==
    \/ \E k \in Key \cup {Esc} : Press(k) \/ Release(k) \/ SystemRepeat(k)
    \/ PlayEscape \/ PlayEvent \/ PlayPollEnds \/ Draw
    \/ EditEscape \/ EditDown \/ EditUp \/ EditFrame

Spec == Init /\ [][Next]_vars

-----------------------------------------------------------------------------
(* Properties.                                                             *)

\* The variables have their types; a slot without a key counts nothing, unless
\* for the one batch in which an unknown key has it.
TypeOK ==
    /\ mode \in {"poll", "draw", "edit"}
    /\ held \subseteq Key \cup {Esc}
    /\ queue \in Seq(Event) /\ Len(queue) <= MaxWaiting
    /\ {pressed, due, lost} \subseteq SUBSET (Key \cup {Esc})
    /\ slots \in [Slot -> [ksym : Key \cup {NoKey}, counter : 0..FastCounter]]
    /\ \A j \in Slot : slots[j].ksym = NoKey => slots[j].counter \in {0, 1}

\* No key has two slots, in whatever order slots were taken and freed: a release
\* would free one of them and the other would repeat for ever.
NoKeyTwice ==
    \A i, j \in Slot : slots[i].ksym = slots[j].ksym /\ slots[i].ksym # NoKey => i = j

\* The array of keys is one, in any order of presses and releases (editorGetKeyState()).
SlotsConsistent == TypeOK /\ NoKeyTwice

ReleaseWaits(k) == \E i \in DOMAIN queue : queue[i] = [type |-> "up", key |-> k]

\* A key of the array is held, or its release is on its way, or play mode took its
\* release: full arrays, repetitions, releases of keys pressed elsewhere and ESC in
\* the middle of a batch leave no other key behind.
StuckOnlyIfLost ==
    \A k \in KeysIn(slots) : k \in held \/ ReleaseWaits(k) \/ k \in lost

\* A key the Lua program sees as pressed is held, or its release is on its way,
\* whatever was held when the program started.
PressedMeansHeld ==
    mode \in {"poll", "draw"} => \A k \in pressed : k \in held \/ ReleaseWaits(k)

\* "a fast up/down event be noticed by Lua" (processSdlEvents()): a key that went
\* down in this frame is pressed when draw() runs, unless its release arrived after
\* the peek that would have ended the frame.
FastPressNoticed == mode = "draw" => due \subseteq pressed

\* When a batch of events is over, each key that went down in it acts, unless the
\* array was full or the key was released in the same batch.
PressActs == mode = "edit" /\ queue = <<>> => due \subseteq Acting

\* "the array of currently pressed keys" (editorGetKeyState()): with no event on its
\* way, each key in it is held.
CurrentlyPressed == mode = "edit" /\ queue = <<>> => KeysIn(slots) \subseteq held
=============================================================================
