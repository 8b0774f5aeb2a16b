---------------------------- MODULE InputProofs ----------------------------
(***************************************************************************)
(* Proofs about Input for any keys, an array and a queue of any size and    *)
(* any delay: what a key does to the array of the editor and to the table   *)
(* of the program, wherever its press and its release are in the queue.     *)
(***************************************************************************)
EXTENDS Input, SequenceTheorems, LeastNumber, TLAPS

EventOf(type, k) == [type |-> type, key |-> k]

\* A key that goes down in the queue is held, or goes up further behind.
DownThenUp ==
    \A n \in DOMAIN queue : queue[n].type = "down" =>
        \/ queue[n].key \in held
        \/ \E m \in DOMAIN queue : m > n /\ queue[m] = EventOf("up", queue[n].key)

\* The frame of play mode goes on only while no release is next, unless the queue was
\* empty at the last look.
PeekSaysDown ==
    mode = "poll" /\ ~drained /\ due # {} => queue # <<>> /\ Head(queue).type = "down"

\* A key that is due in the editor has a slot that is to act.
JustPressed(k) == \E j \in Slot : slots[j] = [ksym |-> k, counter |-> 1]
DueHasSlot == mode = "edit" => \A k \in due : k # NoKey /\ JustPressed(k)

\* The types, one by one.
Typed ==
    /\ mode \in {"poll", "draw", "edit"}
    /\ held \subseteq Key \cup {Esc}
    /\ queue \in Seq(Event) /\ Len(queue) <= MaxWaiting
    /\ pressed \subseteq Key \cup {Esc} /\ due \subseteq Key \cup {Esc}
    /\ lost \subseteq Key \cup {Esc} /\ drained \in BOOLEAN
    /\ slots \in [Slot -> [ksym : Key \cup {NoKey}, counter : 0..FastCounter]]
    /\ \A j \in Slot : slots[j].ksym = NoKey => slots[j].counter \in {0, 1}

\* The queue, and what depends on it.
QueueInv == DownThenUp /\ StuckOnlyIfLost /\ PressedMeansHeld

\* What the frame of each mode has noticed.
FrameInv ==
    /\ PeekSaysDown /\ DueHasSlot
    /\ mode \in {"poll", "draw"} => due \subseteq pressed

Inv == Typed /\ NoKeyTwice /\ QueueInv /\ FrameInv

-----------------------------------------------------------------------------
(* The queue.                                                              *)

\* An event put at the end leaves the others where they are.
LEMMA DeliverKeeps ==
    ASSUME Typed, NEW type \in {"down", "up"}, NEW k \in Key \cup {Esc}, Deliver(type, k)
    PROVE  /\ queue' \in Seq(Event) /\ Len(queue') = Len(queue) + 1
           /\ Len(queue') <= MaxWaiting
           /\ \A n \in DOMAIN queue : n \in DOMAIN queue' /\ queue'[n] = queue[n]
           /\ queue'[Len(queue) + 1] = EventOf(type, k)
           /\ DOMAIN queue' = DOMAIN queue \cup {Len(queue) + 1}
           /\ DOMAIN queue = 1..Len(queue)
<1>1. EventOf(type, k) \in Event
  BY DEF EventOf, Event
<1>2. queue' = Append(queue, EventOf(type, k)) /\ Len(queue) < MaxWaiting
  BY DEF Deliver, EventOf
<1>3. queue \in Seq(Event) /\ Len(queue) \in Nat /\ DOMAIN queue = 1..Len(queue)
  BY DEF Typed
<1>4. /\ queue' \in Seq(Event) /\ Len(queue') = Len(queue) + 1
      /\ \A n \in 1..Len(queue) : queue'[n] = queue[n]
      /\ queue'[Len(queue) + 1] = EventOf(type, k)
  BY <1>1, <1>2, <1>3, AppendProperties
<1>5. DOMAIN queue' = 1..Len(queue')
  BY <1>4
<1> QED
  BY <1>2, <1>3, <1>4, <1>5, InputAssumption

\* The first event is taken: the others move up by one.
LEMMA TakeMoves ==
    ASSUME Typed, NEW e, Take(e)
    PROVE  /\ e \in Event /\ queue # <<>> /\ e = queue[1] /\ 1 \in DOMAIN queue
           /\ queue' \in Seq(Event) /\ Len(queue') <= MaxWaiting
           /\ \A n \in DOMAIN queue : n > 1 => n - 1 \in DOMAIN queue' /\ queue'[n - 1] = queue[n]
           /\ \A n \in DOMAIN queue' : n + 1 \in DOMAIN queue /\ queue'[n] = queue[n + 1]
           /\ DOMAIN queue \subseteq Nat \ {0} /\ DOMAIN queue' \subseteq Nat \ {0}
<1>1. queue \in Seq(Event) /\ queue # <<>> /\ e = Head(queue) /\ queue' = Tail(queue)
  BY DEF Typed, Take
<1>2. /\ Head(queue) \in Event /\ Tail(queue) \in Seq(Event)
      /\ Len(Tail(queue)) = Len(queue) - 1
      /\ \A n \in 1..Len(Tail(queue)) : Tail(queue)[n] = queue[n + 1]
  BY <1>1, HeadTailProperties
<1>3. Head(queue) = queue[1] /\ Len(queue) \in Nat \ {0} /\ DOMAIN queue = 1..Len(queue)
  BY <1>1
<1>4. DOMAIN queue' = 1..Len(queue) - 1
  BY <1>1, <1>2
<1> QED
  BY <1>1, <1>2, <1>3, <1>4, InputAssumption DEF Typed

\* A release that waits goes on waiting, unless it is the event that is taken; a key
\* whose press is taken is held, or its release waits.
LEMMA TakeKeeps ==
    ASSUME Typed, DownThenUp, NEW e, Take(e)
    PROVE  /\ DownThenUp'
           /\ \A k : ReleaseWaits(k) => ReleaseWaits(k)' \/ e = EventOf("up", k)
           /\ e.type = "down" => e.key \in held' \/ ReleaseWaits(e.key)'
           /\ held' = held
<1>1. held' = held
  BY DEF Take
<1>2. ASSUME NEW n \in DOMAIN queue, NEW m \in DOMAIN queue, m > n
      PROVE  m - 1 \in DOMAIN queue' /\ queue'[m - 1] = queue[m]
  <2>1. n \in Nat \ {0} /\ m \in Nat \ {0}
    BY TakeMoves
  <2> QED
    BY <1>2, <2>1, TakeMoves
<1>3. DownThenUp'
  <2> SUFFICES ASSUME NEW n \in DOMAIN queue', queue'[n].type = "down", queue'[n].key \notin held
               PROVE  \E m \in DOMAIN queue' : m > n /\ queue'[m] = EventOf("up", queue'[n].key)
    BY <1>1 DEF DownThenUp, EventOf
  <2>1. n \in Nat /\ n + 1 \in DOMAIN queue /\ queue'[n] = queue[n + 1]
    BY TakeMoves
  <2>2. PICK m \in DOMAIN queue : m > n + 1 /\ queue[m] = EventOf("up", queue[n + 1].key)
    BY <2>1 DEF DownThenUp
  <2>3. m - 1 \in DOMAIN queue' /\ queue'[m - 1] = queue[m]
    BY <1>2, <2>1, <2>2
  <2>4. m - 1 > n
    BY <2>1, <2>2, TakeMoves
  <2> QED
    BY <2>1, <2>2, <2>3, <2>4
<1>4. ASSUME NEW k, ReleaseWaits(k), e # EventOf("up", k)
      PROVE  ReleaseWaits(k)'
  <2>1. PICK m \in DOMAIN queue : queue[m] = EventOf("up", k)
    BY <1>4 DEF ReleaseWaits, EventOf
  <2>2. m # 1
    BY <1>4, <2>1, TakeMoves
  <2>3. m > 1 /\ 1 \in DOMAIN queue
    BY <2>1, <2>2, TakeMoves
  <2>4. m - 1 \in DOMAIN queue' /\ queue'[m - 1] = EventOf("up", k)
    BY <1>2, <2>1, <2>3
  <2> QED
    BY <2>4 DEF ReleaseWaits, EventOf
<1>5. ASSUME e.type = "down", e.key \notin held
      PROVE  ReleaseWaits(e.key)'
  <2>1. e = queue[1] /\ 1 \in DOMAIN queue
    BY TakeMoves
  <2>2. PICK m \in DOMAIN queue : m > 1 /\ queue[m] = EventOf("up", e.key)
    BY <1>5, <2>1 DEF DownThenUp
  <2>3. m - 1 \in DOMAIN queue' /\ queue'[m - 1] = EventOf("up", e.key)
    BY <1>2, <2>1, <2>2
  <2> QED
    BY <2>3 DEF ReleaseWaits, EventOf
<1> QED
  BY <1>1, <1>3, <1>4, <1>5

-----------------------------------------------------------------------------
(* The array of keys.                                                      *)

\* The search finds the slot of the key, else a free one, else none.
LEMMA GetKeyState ==
    ASSUME Typed, NEW k
    PROVE  LET j == editorGetKeyState(slots, k)
           IN  /\ j = 0 => \A i \in Slot : slots[i].ksym \notin {k, NoKey}
               /\ j # 0 => j \in Slot /\ slots[j].ksym \in {k, NoKey}
               /\ \A i \in Slot : slots[i].ksym = k => j \in Slot /\ slots[j].ksym = k
<1> DEFINE found == {j \in Slot : slots[j].ksym = k}
           free == {j \in Slot : slots[j].ksym = NoKey}
<1>1. found \in SUBSET Nat /\ free \in SUBSET (1..KEY_MAX) /\ KEY_MAX \in Nat
  BY InputAssumption DEF Slot
<1>2. ASSUME found # {} PROVE Min(found) \in found
  <2>1. \E m \in found : \A h \in found : m <= h
    BY <1>1, <1>2, LeastNatural
  <2> QED
    BY <2>1 DEF Min
<1>3. ASSUME free # {} PROVE Max(free) \in free
  <2>1. \E m \in free : \A h \in free : m >= h
    BY <1>1, <1>3, GreatestInRange
  <2> QED
    BY <2>1 DEF Max
<1>4. 0 \notin Slot
  BY DEF Slot
<1> QED
  BY <1>2, <1>3, <1>4 DEF editorGetKeyState

\* A counter that has begun does not repeat before its time.
LEMMA FirstActs ==
    FastCounter \in Nat /\ FastCounter > 1 /\ pressed_or_repeated(1)
<1>1. /\ FastCounter \in Nat /\ FastCounter > 1
      /\ KEY_REPEAT_PERIOD \in Nat \ {0} /\ KEY_REPEAT_DELAY \in Nat
  BY InputAssumption DEF FastCounter
<1>2. \A p \in Nat \ {0} : p % p = 0
  OBVIOUS
<1>3. 1 + KEY_REPEAT_PERIOD - 1 = KEY_REPEAT_PERIOD
  BY <1>1
<1> QED
  BY <1>1, <1>2, <1>3 DEF pressed_or_repeated
-----------------------------------------------------------------------------
(* The keyboard.                                                           *)

\* A press and a repetition are of a key that is held, and a release is behind what it
\* releases.
LEMMA KeyboardInv ==
    ASSUME Inv, NEW k \in Key \cup {Esc}, Press(k) \/ Release(k) \/ SystemRepeat(k)
    PROVE  Inv'
<1> USE DEF Inv
<1>1. PICK type \in {"down", "up"} : Deliver(type, k) /\ (type = "down" => k \in held')
                                     /\ held' = (IF type = "down" THEN held \cup {k} ELSE held \ {k})
  BY DEF Press, Release, SystemRepeat
<1>2. UNCHANGED <<mode, pressed, slots, due, drained, lost>>
  BY <1>1 DEF Deliver, history
<1> DEFINE last == Len(queue) + 1
<1>3. /\ queue' \in Seq(Event) /\ Len(queue') <= MaxWaiting
      /\ \A n \in DOMAIN queue : n \in DOMAIN queue' /\ queue'[n] = queue[n]
      /\ queue'[last] = EventOf(type, k)
      /\ DOMAIN queue' = DOMAIN queue \cup {last}
      /\ DOMAIN queue = 1..Len(queue) /\ Len(queue) \in Nat
  <2>1. Typed
    OBVIOUS
  <2>2. Len(queue) \in Nat
    BY DEF Typed
  <2> HIDE DEF Inv
  <2> QED
    BY <1>1, <2>1, <2>2, DeliverKeeps
<1> HIDE DEF last
<1>4. \A n \in DOMAIN queue : last > n
  BY <1>3 DEF last
<1>5. ASSUME NEW q, q \in held \/ ReleaseWaits(q)
      PROVE  q \in held' \/ ReleaseWaits(q)'
  <2>1. CASE ReleaseWaits(q)
    BY <1>3, <2>1 DEF ReleaseWaits
  <2>2. CASE q \in held /\ q \notin held'
    <3>1. q = k /\ type = "up"
      BY <1>1, <2>2
    <3> QED
      BY <1>3, <3>1 DEF ReleaseWaits, EventOf
  <2> QED
    BY <1>5, <2>1, <2>2
<1>6. DownThenUp'
  <2> SUFFICES ASSUME NEW n \in DOMAIN queue', queue'[n].type = "down", queue'[n].key \notin held'
               PROVE  \E m \in DOMAIN queue' : m > n /\ queue'[m] = EventOf("up", queue'[n].key)
    BY DEF DownThenUp, EventOf
  <2>1. CASE n = last
    BY <1>1, <1>3, <2>1 DEF EventOf
  <2>2. CASE n # last
    <3>1. n \in DOMAIN queue /\ queue'[n] = queue[n]
      BY <1>3, <2>2
    <3>2. CASE queue[n].key \in held
      <4>1. queue[n].key = k /\ type = "up"
        BY <1>1, <3>1, <3>2
      <4>2. last \in DOMAIN queue' /\ last > n /\ queue'[last] = EventOf("up", k)
        BY <1>3, <1>4, <3>1, <4>1
      <4> QED
        BY <3>1, <4>1, <4>2
    <3>3. CASE queue[n].key \notin held
      <4>1. PICK m \in DOMAIN queue : m > n /\ queue[m] = EventOf("up", queue[n].key)
        BY <3>1, <3>3 DEF QueueInv, DownThenUp
      <4> QED
        BY <1>3, <3>1, <4>1
    <3> QED
      BY <3>2, <3>3
  <2> QED
    BY <2>1, <2>2
<1>7. QueueInv'
  BY <1>2, <1>5, <1>6 DEF QueueInv, StuckOnlyIfLost, PressedMeansHeld, KeysIn
<1>8. FrameInv'
  <2>1. queue # <<>> => queue' # <<>> /\ Head(queue') = Head(queue)
    <3>1. ASSUME queue # <<>> PROVE 1 \in DOMAIN queue /\ Head(queue) = queue[1]
      BY <3>1 DEF Typed
    <3>2. ASSUME queue # <<>> PROVE queue' # <<>> /\ Head(queue') = queue'[1]
      BY <1>3, <3>1, <3>2
    <3> QED
      BY <1>3, <3>1, <3>2
  <2>2. PeekSaysDown'
    BY <1>2, <2>1 DEF FrameInv, PeekSaysDown
  <2>3. DueHasSlot'
    BY <1>2 DEF FrameInv, DueHasSlot, JustPressed
  <2> QED
    BY <1>2, <2>2, <2>3 DEF FrameInv
<1>9. held' \subseteq Key \cup {Esc}
  BY <1>1 DEF Typed
<1> QED
  BY <1>2, <1>3, <1>7, <1>8, <1>9 DEF Typed, NoKeyTwice

-----------------------------------------------------------------------------
(* The modes.                                                              *)

\* A step that takes an event and leaves the array alone.
LEMMA TakeStuck ==
    ASSUME Inv, NEW e, Take(e), slots' = slots,
           lost \subseteq lost', e.type = "up" /\ e.key \in KeysIn(slots) => e.key \in lost'
    PROVE  StuckOnlyIfLost'
<1> SUFFICES ASSUME NEW k \in KeysIn(slots), k \notin held, k \notin lost'
             PROVE  ReleaseWaits(k)'
  BY TakeKeeps DEF StuckOnlyIfLost, KeysIn, Inv, QueueInv
<1>1. ReleaseWaits(k)
  BY DEF Inv, QueueInv, StuckOnlyIfLost
<1>2. e # EventOf("up", k)
  BY DEF EventOf
<1> QED
  BY <1>1, <1>2, TakeKeeps DEF Inv, QueueInv

\* ESC changes the mode and keeps the rest, but for the tables of a new program.
LEMMA EscapeInv ==
    ASSUME Inv, PlayEscape \/ EditEscape
    PROVE  Inv'
<1> DEFINE e == EventOf("down", Esc)
<1>1. /\ Take(e) /\ UNCHANGED <<slots, lost>> /\ due' = {} /\ drained' = FALSE
      /\ \/ mode' = "edit" /\ pressed' = pressed
         \/ mode' \in {"poll", "edit"} /\ pressed' = {}
  BY DEF PlayEscape, EditEscape, NewFrame, EventOf
<1>2. StuckOnlyIfLost'
  BY <1>1, TakeStuck DEF EventOf
<1>3. DownThenUp' /\ held' = held /\ queue' \in Seq(Event) /\ Len(queue') <= MaxWaiting
  BY <1>1, TakeKeeps, TakeMoves DEF Inv, QueueInv
<1> QED
  BY <1>1, <1>2, <1>3
  DEF Inv, Typed, NoKeyTwice, QueueInv, PressedMeansHeld, FrameInv, PeekSaysDown, DueHasSlot, KeysIn

\* Play mode notes a press while it is held or its release waits, and a release that it
\* takes in the frame of the press only when the queue had been empty.
LEMMA PlayEventInv ==
    ASSUME Inv, PlayEvent
    PROVE  Inv'
<1>1. PICK e \in Event : Take(e) /\ (PlayDown(e) \/ PlayUp(e))
  BY DEF PlayEvent
<1>2. /\ mode = "poll" /\ mode' \in {"poll", "draw"} /\ slots' = slots
      /\ drained' = (queue' = <<>>)
      /\ mode' = "poll" => queue' = <<>> \/ Head(queue').type # "up"
  BY DEF PlayEvent
<1>3. /\ DownThenUp' /\ held' = held
      /\ queue' \in Seq(Event) /\ Len(queue') <= MaxWaiting
      /\ e = Head(queue) /\ queue # <<>>
      /\ e.type \in {"down", "up"} /\ e.key \in Key \cup {Esc}
  BY <1>1, TakeKeeps, TakeMoves DEF Inv, QueueInv, Take, Event
<1>4. queue' # <<>> => Head(queue').type \in {"down", "up"}
  <2>1. queue' # <<>> => Head(queue') \in Event
    BY <1>3, HeadTailProperties
  <2> QED
    BY <2>1 DEF Event
<1>5. StuckOnlyIfLost'
  BY <1>1, <1>2, TakeStuck DEF PlayDown, PlayUp
<1>6. ASSUME NEW k \in pressed'
      PROVE  k \in held' \/ ReleaseWaits(k)'
  <2>1. CASE PlayDown(e) /\ k = e.key
    BY <1>1, <2>1, TakeKeeps DEF PlayDown, Inv, QueueInv
  <2>2. CASE k \in pressed /\ e # EventOf("up", k)
    BY <1>1, <1>2, <2>2, TakeKeeps DEF Inv, QueueInv, PressedMeansHeld
  <2>3. CASE e = EventOf("up", k)
    BY <1>1, <1>6, <2>3 DEF EventOf, PlayUp, PlayDown
  <2> QED
    BY <1>1, <1>6, <2>1, <2>2, <2>3 DEF PlayUp, PlayDown
<1>7. due' \subseteq pressed'
  <2>1. due \subseteq pressed
    BY <1>2 DEF Inv, FrameInv
  <2>2. PlayUp(e) /\ ~drained => due = {}
    BY <1>2, <1>3 DEF PlayUp, Inv, FrameInv, PeekSaysDown
  <2> QED
    BY <1>1, <2>1, <2>2 DEF PlayUp, PlayDown
<1>8. FrameInv'
  BY <1>2, <1>4, <1>7 DEF FrameInv, PeekSaysDown, DueHasSlot
<1>9. pressed' \subseteq Key \cup {Esc} /\ due' \subseteq Key \cup {Esc} /\ lost' \subseteq Key \cup {Esc}
  BY <1>1, <1>3 DEF PlayUp, PlayDown, Inv, Typed
<1>10. drained' \in BOOLEAN
  BY <1>2
<1> QED
  BY <1>2, <1>3, <1>5, <1>6, <1>8, <1>9, <1>10
  DEF Inv, Typed, NoKeyTwice, QueueInv, PressedMeansHeld, KeysIn

\* The end of a frame.
LEMMA FrameEndInv ==
    ASSUME Inv, PlayPollEnds \/ Draw
    PROVE  Inv'
<1>1. /\ UNCHANGED <<held, queue, pressed, slots, lost>> /\ due' \subseteq due
      /\ drained' = FALSE
      /\ mode' = "draw" \/ (mode' \in {"poll", "edit"} /\ due' = {})
      /\ mode \in {"poll", "draw"}
  BY DEF PlayPollEnds, Draw, Empty, NewFrame
<1>2. Typed'
  BY <1>1 DEF Inv, Typed
<1>3. NoKeyTwice'
  BY <1>1 DEF Inv, NoKeyTwice
<1>4. QueueInv'
  BY <1>1
  DEF Inv, QueueInv, DownThenUp, StuckOnlyIfLost, PressedMeansHeld, ReleaseWaits, KeysIn
<1>5. FrameInv'
  BY <1>1 DEF Inv, FrameInv, PeekSaysDown, DueHasSlot
<1> QED
  BY <1>2, <1>3, <1>4, <1>5 DEF Inv

\* A press takes the slot of its key, or a free one, and acts at the end of the batch.
LEMMA EditDownInv ==
    ASSUME Inv, EditDown
    PROVE  Inv'
<1>1. PICK k \in Key :
         LET j == editorGetKeyState(slots, k)
         IN  /\ Take(EventOf("down", k))
             /\ slots' = IF j = 0 THEN slots
                         ELSE [slots EXCEPT ![j] = [ksym |-> k, counter |-> 1]]
             /\ due' = IF j = 0 THEN due \ {k} ELSE due \cup ({k} \ {NoKey})
             /\ lost' = lost \ {k}
  BY DEF EditDown, EventOf
<1> DEFINE j == editorGetKeyState(slots, k)
<1>2. mode = "edit" /\ UNCHANGED <<mode, pressed, drained>>
  BY DEF EditDown
<1>3. /\ j = 0 => \A i \in Slot : slots[i].ksym \notin {k, NoKey}
      /\ j # 0 => j \in Slot /\ slots[j].ksym \in {k, NoKey}
      /\ \A i \in Slot : slots[i].ksym = k => j \in Slot /\ slots[j].ksym = k
  BY GetKeyState DEF Inv
<1> HIDE DEF j
<1>4. /\ DownThenUp' /\ held' = held
      /\ queue' \in Seq(Event) /\ Len(queue') <= MaxWaiting
      /\ k \in held' \/ ReleaseWaits(k)'
      /\ \A q : ReleaseWaits(q) => ReleaseWaits(q)'
  BY <1>1, TakeKeeps, TakeMoves DEF Inv, QueueInv, EventOf
<1>5. /\ slots' \in [Slot -> [ksym : Key \cup {NoKey}, counter : 0..FastCounter]]
      /\ \A i \in Slot : slots'[i] = IF i = j /\ j # 0 THEN [ksym |-> k, counter |-> 1] ELSE slots[i]
  BY <1>1, <1>3, FirstActs DEF j, Inv, Typed
<1>6. \A i \in Slot : slots'[i].ksym = NoKey => slots'[i].counter \in {0, 1}
  BY <1>5 DEF Inv, Typed
<1>7. NoKeyTwice'
  BY <1>3, <1>5 DEF Inv, NoKeyTwice
<1>8. StuckOnlyIfLost'
  <2> SUFFICES ASSUME NEW i \in Slot, NEW q, slots'[i].ksym = q, q # NoKey
               PROVE  q \in held' \/ ReleaseWaits(q)' \/ q \in lost'
    BY DEF StuckOnlyIfLost, KeysIn
  <2>1. CASE q = k
    BY <1>4, <2>1
  <2>2. CASE q # k
    <3>1. slots'[i] = slots[i]
      BY <1>5, <2>2
    <3>2. slots[i].ksym \in KeysIn(slots)
      BY <3>1 DEF KeysIn
    <3> QED
      BY <1>1, <1>4, <2>2, <3>1, <3>2 DEF Inv, QueueInv, StuckOnlyIfLost
  <2> QED
    BY <2>1, <2>2
<1>9. ASSUME NEW q \in due'
      PROVE  q # NoKey /\ JustPressed(q)'
  <2>1. CASE q = k
    <3>1. j # 0 /\ q # NoKey
      BY <1>1, <1>2, <1>9, <2>1 DEF j, Inv, FrameInv, DueHasSlot
    <3> QED
      BY <1>3, <1>5, <2>1, <3>1 DEF JustPressed
  <2>2. CASE q # k
    <3>1. q \in due
      BY <1>1, <1>9, <2>2
    <3>2. q # NoKey /\ JustPressed(q)
      BY <1>2, <3>1 DEF Inv, FrameInv, DueHasSlot
    <3>3. PICK i \in Slot : slots[i] = [ksym |-> q, counter |-> 1]
      BY <3>2 DEF JustPressed
    <3>4. i # j \/ j = 0
      BY <1>3, <2>2, <3>2, <3>3
    <3> QED
      BY <1>5, <3>2, <3>3, <3>4 DEF JustPressed
  <2> QED
    BY <2>1, <2>2
<1>10. FrameInv'
  BY <1>2, <1>9 DEF FrameInv, PeekSaysDown, DueHasSlot
<1>11. due' \subseteq Key \cup {Esc} /\ lost' \subseteq Key \cup {Esc}
  BY <1>1 DEF Inv, Typed
<1> QED
  BY <1>2, <1>4, <1>5, <1>6, <1>7, <1>8, <1>10, <1>11
  DEF Inv, Typed, QueueInv, PressedMeansHeld

\* A release frees the one slot of its key.
LEMMA EditUpInv ==
    ASSUME Inv, EditUp
    PROVE  Inv'
<1>1. PICK k \in Key \cup {Esc} :
         LET j == editorGetKeyState(slots, k)
         IN  /\ Take(EventOf("up", k))
             /\ slots' = IF j = 0 THEN slots ELSE [slots EXCEPT ![j] = FreeSlot]
             /\ due' = due \ {k}
             /\ lost' = lost \ {k}
  BY DEF EditUp, EventOf
<1> DEFINE j == editorGetKeyState(slots, k)
<1>2. mode = "edit" /\ UNCHANGED <<mode, pressed, drained>>
  BY DEF EditUp
<1>3. /\ j # 0 => j \in Slot /\ slots[j].ksym \in {k, NoKey}
      /\ \A i \in Slot : slots[i].ksym = k => j \in Slot /\ slots[j].ksym = k
  BY GetKeyState DEF Inv
<1> HIDE DEF j
<1>4. /\ DownThenUp' /\ held' = held
      /\ queue' \in Seq(Event) /\ Len(queue') <= MaxWaiting
      /\ \A q : ReleaseWaits(q) /\ q # k => ReleaseWaits(q)'
  BY <1>1, TakeKeeps, TakeMoves DEF Inv, QueueInv, EventOf
<1>5. /\ slots' \in [Slot -> [ksym : Key \cup {NoKey}, counter : 0..FastCounter]]
      /\ \A i \in Slot : slots'[i] = IF i = j /\ j # 0 THEN FreeSlot ELSE slots[i]
  BY <1>1, <1>3, FirstActs DEF j, Inv, Typed, FreeSlot
<1>6. \A i \in Slot : slots'[i].ksym = NoKey => slots'[i].counter \in {0, 1}
  BY <1>5 DEF Inv, Typed, FreeSlot
<1>7. NoKeyTwice'
  BY <1>5 DEF Inv, NoKeyTwice, FreeSlot
<1>8. StuckOnlyIfLost'
  <2> SUFFICES ASSUME NEW i \in Slot, NEW q, slots'[i].ksym = q, q # NoKey
               PROVE  q \in held' \/ ReleaseWaits(q)' \/ q \in lost'
    BY DEF StuckOnlyIfLost, KeysIn
  <2>1. slots'[i] = slots[i] /\ slots[i].ksym \in KeysIn(slots)
    BY <1>5 DEF FreeSlot, KeysIn
  <2>2. slots[i].ksym # k
    <3> SUFFICES ASSUME slots[i].ksym = k PROVE FALSE
      OBVIOUS
    <3>1. j \in Slot /\ slots[j].ksym = k /\ k # NoKey
      BY <1>3, <2>1
    <3>2. i = j /\ 0 \notin Slot
      BY <2>1, <3>1 DEF Inv, NoKeyTwice, Slot
    <3> QED
      BY <1>5, <3>1, <3>2 DEF FreeSlot
  <2> QED
    BY <1>1, <1>4, <2>1, <2>2 DEF Inv, QueueInv, StuckOnlyIfLost
<1>9. ASSUME NEW q \in due'
      PROVE  q # NoKey /\ JustPressed(q)'
  <2>1. q \in due /\ q # k
    BY <1>1, <1>9
  <2>2. q # NoKey /\ JustPressed(q)
    BY <1>2, <2>1 DEF Inv, FrameInv, DueHasSlot
  <2>3. PICK i \in Slot : slots[i] = [ksym |-> q, counter |-> 1]
    BY <2>2 DEF JustPressed
  <2>4. i # j \/ j = 0
    BY <1>3, <2>1, <2>2, <2>3
  <2> QED
    BY <1>5, <2>2, <2>3, <2>4 DEF JustPressed
<1>10. FrameInv'
  BY <1>2, <1>9 DEF FrameInv, PeekSaysDown, DueHasSlot
<1>11. due' \subseteq Key \cup {Esc} /\ lost' \subseteq Key \cup {Esc}
  BY <1>1 DEF Inv, Typed
<1> QED
  BY <1>2, <1>4, <1>5, <1>6, <1>7, <1>8, <1>10, <1>11
  DEF Inv, Typed, QueueInv, PressedMeansHeld

\* A frame counts, and leaves the keys where they are.
LEMMA EditFrameInv ==
    ASSUME Inv, EditFrame
    PROVE  Inv'
<1>1. /\ mode = "edit" /\ due' = {} /\ drained' = FALSE
      /\ UNCHANGED <<mode, pressed, lost, held, queue>>
      /\ slots' = [i \in Slot |-> Counted(slots[i])]
  BY DEF EditFrame, Empty, NewFrame
<1>2. ASSUME NEW i \in Slot
      PROVE  /\ slots'[i] \in [ksym : Key \cup {NoKey}, counter : 0..FastCounter]
             /\ slots'[i].ksym = slots[i].ksym
             /\ slots'[i].ksym = NoKey => slots'[i].counter \in {0, 1}
  <2>1. slots[i] \in [ksym : Key \cup {NoKey}, counter : 0..FastCounter]
    BY DEF Inv, Typed
  <2>2. slots[i].ksym = NoKey => slots[i].counter \in {0, 1}
    BY DEF Inv, Typed
  <2>3. slots'[i] = Counted(slots[i])
    BY <1>1
  <2>4. CASE pressed_or_repeated(slots[i].counter) /\ slots[i].ksym = NoKey
    BY <2>3, <2>4, FirstActs DEF Counted, FreeSlot
  <2>5. CASE ~(pressed_or_repeated(slots[i].counter) /\ slots[i].ksym = NoKey)
    <3>1. slots[i].ksym = NoKey => slots[i].counter = 0
      BY <2>2, <2>5, FirstActs
    <3>2. slots'[i] = [slots[i] EXCEPT !.counter = IF @ = 0 \/ @ = FastCounter THEN @ ELSE @ + 1]
      BY <2>3, <2>5 DEF Counted
    <3> QED
      BY <2>1, <3>1, <3>2, FirstActs
  <2> QED
    BY <2>4, <2>5
<1>3. slots' \in [Slot -> [ksym : Key \cup {NoKey}, counter : 0..FastCounter]]
  BY <1>1, <1>2
<1>4. NoKeyTwice'
  BY <1>2 DEF Inv, NoKeyTwice
<1>5. KeysIn(slots') = KeysIn(slots)
  BY <1>2 DEF KeysIn
<1>6. QueueInv'
  BY <1>1, <1>5
  DEF Inv, QueueInv, DownThenUp, StuckOnlyIfLost, PressedMeansHeld, ReleaseWaits
<1> QED
  BY <1>1, <1>2, <1>3, <1>4, <1>6 DEF Inv, Typed, FrameInv, PeekSaysDown, DueHasSlot

-----------------------------------------------------------------------------
\* Every step preserves the invariant.
LEMMA InputInvariant == Spec => []Inv
<1>1. Init => Inv
  <2> SUFFICES ASSUME Init PROVE Inv
    OBVIOUS
  <2>1. /\ mode = "poll" /\ queue = <<>> /\ held = {} /\ pressed = {}
        /\ due = {} /\ drained = FALSE /\ lost = {}
        /\ slots = [j \in Slot |-> FreeSlot]
    BY DEF Init
  <2>2. queue \in Seq(Event) /\ Len(queue) <= MaxWaiting
    BY <2>1, InputAssumption
  <2>3. slots \in [Slot -> [ksym : Key \cup {NoKey}, counter : 0..FastCounter]]
    BY <2>1, FirstActs DEF FreeSlot
  <2>4. \A i \in Slot : slots[i].ksym = NoKey /\ slots[i].counter = 0
    BY <2>1 DEF FreeSlot
  <2>5. Typed
    BY <2>1, <2>2, <2>3, <2>4 DEF Typed
  <2>6. KeysIn(slots) = {} /\ NoKeyTwice
    BY <2>4 DEF KeysIn, NoKeyTwice
  <2>7. \A n : n \notin DOMAIN queue
    BY <2>1, <2>2
  <2>8. QueueInv
    BY <2>1, <2>6, <2>7 DEF QueueInv, DownThenUp, StuckOnlyIfLost, PressedMeansHeld
  <2>9. FrameInv
    BY <2>1 DEF FrameInv, PeekSaysDown, DueHasSlot
  <2> QED
    BY <2>5, <2>6, <2>8, <2>9 DEF Inv
<1>2. Inv /\ [Next]_vars => Inv'
  <2> SUFFICES ASSUME Inv, [Next]_vars PROVE Inv'
    OBVIOUS
  <2>1. CASE UNCHANGED vars
    <3>1. UNCHANGED <<mode, held, queue, pressed, slots, due, drained, lost>>
      BY <2>1 DEF vars, history
    <3>2. Typed' /\ NoKeyTwice'
      BY <3>1 DEF Inv, Typed, NoKeyTwice
    <3>3. QueueInv'
      BY <3>1
      DEF Inv, QueueInv, DownThenUp, StuckOnlyIfLost, PressedMeansHeld, ReleaseWaits, KeysIn
    <3>4. FrameInv'
      BY <3>1 DEF Inv, FrameInv, PeekSaysDown, DueHasSlot, JustPressed
    <3> QED
      BY <3>2, <3>3, <3>4 DEF Inv
  <2> QED
    BY <2>1, KeyboardInv, EscapeInv, PlayEventInv, FrameEndInv, EditDownInv, EditUpInv,
       EditFrameInv DEF Next
<1> QED
  BY <1>1, <1>2, PTL DEF Spec

\* The array of keys has each key once, in any order of presses and releases.
THEOREM SlotsStayConsistent == Spec => []SlotsConsistent
<1>1. Inv => SlotsConsistent
  BY DEF Inv, Typed, SlotsConsistent, TypeOK
<1> QED
  BY <1>1, InputInvariant, PTL

\* A key that repeats is held, or about to be released, or play mode took its release.
THEOREM StuckKeysAreLost == Spec => []StuckOnlyIfLost
<1>1. Inv => StuckOnlyIfLost
  BY DEF Inv, QueueInv
<1> QED
  BY <1>1, InputInvariant, PTL

\* What the program sees as pressed is held, or about to be released.
THEOREM PressedStaysHeld == Spec => []PressedMeansHeld
<1>1. Inv => PressedMeansHeld
  BY DEF Inv, QueueInv
<1> QED
  BY <1>1, InputInvariant, PTL

\* draw() sees the keys of its frame, but for those released after the peek.
THEOREM FastPressStaysNoticed == Spec => []FastPressNoticed
<1>1. Inv => FastPressNoticed
  BY DEF Inv, FrameInv, FastPressNoticed
<1> QED
  BY <1>1, InputInvariant, PTL

\* At the end of a batch each key that went down in it acts.
THEOREM PressesAct == Spec => []PressActs
<1>1. Inv => PressActs
  <2> SUFFICES ASSUME Inv, mode = "edit", NEW k \in due
               PROVE  k \in Acting
    BY DEF PressActs
  <2>1. PICK j \in Slot : slots[j] = [ksym |-> k, counter |-> 1]
    BY DEF Inv, FrameInv, DueHasSlot, JustPressed
  <2> QED
    BY <2>1, FirstActs DEF Acting
<1> QED
  BY <1>1, InputInvariant, PTL
=============================================================================
