----------------------------- MODULE LuaGCProofs -----------------------------
(***************************************************************************)
(* Proofs about LuaGC for any heap, any program and any order of steps of  *)
(* the collector and of the program.                                       *)
(*                                                                         *)
(* The invariant GCInv joins nine parts.  What is not dead refers only to  *)
(* what is not dead (AliveInv), the sweep has whitened all but what is     *)
(* still before it (SweepInv), and while the collector marks, a marked     *)
(* object is queued, or has its references marked, or will be looked at    *)
(* again by the atomic step (MarkInv); what was garbage when marking began *)
(* is never marked (GarbageInv).  Every action keeps every part.           *)
(***************************************************************************)
EXTENDS LuaGC, LeastNumber, SequenceTheorems, FiniteSetTheorems, TLAPS

-----------------------------------------------------------------------------
(* Lists.                                                                  *)

\* A list without repetitions.
NoTwice(s) == \A i, j \in DOMAIN s : s[i] = s[j] => i = j

\* A list of objects, one object longer.
LEMMA Appended ==
    ASSUME NEW s \in Seq(Addr), NEW a \in Addr
    PROVE  /\ Append(s, a) \in Seq(Addr)
           /\ InList(Append(s, a)) = InList(s) \cup {a}
           /\ NoTwice(s) /\ a \notin InList(s) => NoTwice(Append(s, a))
<1> DEFINE t == Append(s, a)
           n == Len(s)
<1>1. /\ t \in Seq(Addr) /\ n \in Nat /\ Len(t) = n + 1 /\ t[n + 1] = a
      /\ \A i \in 1..n : t[i] = s[i]
  BY AppendProperties
<1>2. DOMAIN s = 1..n /\ DOMAIN t = 1..n + 1
  BY <1>1
<1> HIDE DEF t, n
<1>3. 1..n + 1 = 1..n \cup {n + 1} /\ n + 1 \notin 1..n
  BY <1>1
<1>4. InList(t) = InList(s) \cup {a}
  BY <1>1, <1>2, <1>3 DEF InList
<1>5. ASSUME NoTwice(s), a \notin InList(s) PROVE NoTwice(t)
  BY <1>1, <1>2, <1>3, <1>5 DEF NoTwice, InList
<1> QED
  BY <1>1, <1>4, <1>5 DEF t

\* A list without some objects has all the others, and none of them twice.
LEMMA WithoutSome ==
    ASSUME NEW s \in Seq(Addr), NEW S
    PROVE  /\ Without(s, S) \in Seq(Addr)
           /\ InList(Without(s, S)) = InList(s) \ S
           /\ NoTwice(s) => NoTwice(Without(s, S))
<1> DEFINE N == Len(s)
           step == [p \in Seq(Addr) \X (1..N) |->
                       IF s[p[2]] \in S THEN p[1] ELSE Append(p[1], s[p[2]])]
           IsLoop(h) ==
             h = [n \in 0..N |-> IF n = 0 THEN <<>>
                                 ELSE IF s[n] \in S THEN h[n - 1] ELSE Append(h[n - 1], s[n])]
           w == CHOOSE h : IsLoop(h)
<1>1. N \in Nat /\ DOMAIN s = 1..N /\ \A n \in 1..N : s[n] \in Addr
  OBVIOUS
<1>2. /\ step \in Steps(Seq(Addr), N)
      /\ \A q \in Seq(Addr), n \in 1..N :
            step[<<q, n>>] = IF s[n] \in S THEN q ELSE Append(q, s[n])
  <2>1. \A q \in Seq(Addr), n \in 1..N : Append(q, s[n]) \in Seq(Addr)
    BY <1>1, Appended
  <2> QED
    BY <2>1 DEF Steps
<1> HIDE DEF step, N
<1>3. PICK f \in [0..N -> Seq(Addr)] :
          \A n \in 0..N : f[n] = IF n = 0 THEN <<>> ELSE step[<<f[n - 1], n>>]
  <2>1. <<>> \in Seq(Addr)
    OBVIOUS
  <2>2. Runs(Seq(Addr), N, <<>>, step) # {}
    BY <1>1, <1>2, <2>1, LoopRuns
  <2> QED
    BY <2>2 DEF Runs
<1>4. ASSUME NEW n \in 1..N
      PROVE  f[n - 1] \in Seq(Addr) /\ step[<<f[n - 1], n>>] =
               IF s[n] \in S THEN f[n - 1] ELSE Append(f[n - 1], s[n])
  <2>1. n - 1 \in 0..N
    BY <1>1
  <2> QED
    BY <1>2, <2>1
<1>5. IsLoop(f)
  <2>1. \A n \in 0..N : n = 0 \/ n \in 1..N
    BY <1>1
  <2>2. ASSUME NEW n \in 0..N
        PROVE  f[n] = IF n = 0 THEN <<>>
                      ELSE IF s[n] \in S THEN f[n - 1] ELSE Append(f[n - 1], s[n])
    BY <1>3, <1>4, <2>1
  <2> QED
    BY <2>2
<1>6. IsLoop(w)
  BY <1>5
<1> HIDE DEF w
<1>14. /\ w[0] = <<>>
       /\ \A n \in 1..N : w[n] = IF s[n] \in S THEN w[n - 1] ELSE Append(w[n - 1], s[n])
  <2>1. \A n \in 0..N : w[n] = IF n = 0 THEN <<>>
                     ELSE IF s[n] \in S THEN w[n - 1] ELSE Append(w[n - 1], s[n])
    BY <1>6
  <2>2. 0 \in 0..N /\ \A n \in 1..N : n \in 0..N /\ n # 0
    BY <1>1
  <2> QED
    BY <2>1, <2>2
<1>7. Without(s, S) = w[N]
  BY DEF Without, w, N
<1> DEFINE Good(q, n) ==
             /\ q \in Seq(Addr) /\ InList(q) = {s[i] : i \in 1..n} \ S
             /\ NoTwice(s) => NoTwice(q)
           T == {n \in 0..N : Good(w[n], n)}
<1>8. 0 \in T
  <2>1. w[0] = <<>>
    BY <1>14
  <2>2. 0 \in 0..N /\ Good(w[0], 0)
    BY <1>1, <2>1 DEF InList, NoTwice
  <2> HIDE DEF Good
  <2> QED
    BY <2>2
<1>9. ASSUME NEW n \in 0..N - 1, n \in T
      PROVE  n + 1 \in T
  <2>1. n + 1 \in 1..N /\ n + 1 \in 0..N /\ n + 1 # 0 /\ n + 1 - 1 = n
    BY <1>1
  <2>2. w[n + 1] = IF s[n + 1] \in S THEN w[n] ELSE Append(w[n], s[n + 1])
    BY <1>14, <2>1
  <2>3. {s[i] : i \in 1..n + 1} = {s[i] : i \in 1..n} \cup {s[n + 1]}
    <3>1. 1..n + 1 = 1..n \cup {n + 1}
      OBVIOUS
    <3> QED
      BY <3>1
  <2>4. Good(w[n], n)
    BY <1>9
  <2>5. Good(w[n + 1], n + 1)
    <3>1. CASE s[n + 1] \in S
      BY <2>2, <2>3, <2>4, <3>1
    <3>2. CASE s[n + 1] \notin S
      <4>1. s[n + 1] \in Addr
        BY <1>1, <2>1
      <4>2. /\ w[n + 1] \in Seq(Addr) /\ InList(w[n + 1]) = InList(w[n]) \cup {s[n + 1]}
            /\ NoTwice(w[n]) /\ s[n + 1] \notin InList(w[n]) => NoTwice(w[n + 1])
        BY <2>2, <2>4, <3>2, <4>1, Appended
      <4>3. NoTwice(s) => s[n + 1] \notin InList(w[n])
        <5>1. ASSUME NoTwice(s), NEW i \in 1..n, s[i] = s[n + 1] PROVE FALSE
          <6>1. i \in 1..N /\ i # n + 1
            BY <1>1
          <6> QED
            BY <1>1, <2>1, <5>1, <6>1 DEF NoTwice
        <5> QED
          BY <2>4, <5>1
      <4> QED
        BY <2>3, <2>4, <3>2, <4>2, <4>3
    <3> QED
      BY <3>1, <3>2
  <2> QED
    BY <2>1, <2>5
<1> HIDE DEF T
<1>10. \A n \in 0..N : n \in T
  BY <1>1, <1>8, <1>9, BoundedInduction
<1>11. N \in 0..N
  BY <1>1
<1>12. Good(w[N], N)
  BY <1>10, <1>11 DEF T
<1>13. InList(s) = {s[i] : i \in 1..N}
  BY <1>1 DEF InList
<1> QED
  BY <1>7, <1>12, <1>13

\* A list in front of another one.
LEMMA Joined ==
    ASSUME NEW s \in Seq(Addr), NEW t \in Seq(Addr)
    PROVE  /\ s \o t \in Seq(Addr)
           /\ InList(s \o t) = InList(s) \cup InList(t)
           /\ NoTwice(s) /\ NoTwice(t) /\ InList(s) \cap InList(t) = {} => NoTwice(s \o t)
<1> DEFINE u == s \o t
           n == Len(s)
           m == Len(t)
<1>1. /\ u \in Seq(Addr) /\ n \in Nat /\ m \in Nat /\ Len(u) = n + m
      /\ \A i \in 1..n + m : u[i] = IF i <= n THEN s[i] ELSE t[i - n]
  BY ConcatProperties
<1>2. DOMAIN s = 1..n /\ DOMAIN t = 1..m /\ DOMAIN u = 1..n + m
  BY <1>1
<1> HIDE DEF u, n, m
<1>3. \A i \in 1..n : i \in 1..n + m /\ u[i] = s[i]
  BY <1>1
<1>4. \A i \in 1..m : i + n \in 1..n + m /\ u[i + n] = t[i]
  BY <1>1
<1>5. \A i \in 1..n + m : i \in 1..n \/ (i - n \in 1..m /\ u[i] = t[i - n])
  BY <1>1
<1>6. InList(u) = InList(s) \cup InList(t)
  BY <1>2, <1>3, <1>4, <1>5 DEF InList
<1>7. ASSUME NoTwice(s), NoTwice(t), InList(s) \cap InList(t) = {},
             NEW i \in 1..n + m, NEW j \in 1..n + m, u[i] = u[j]
      PROVE  i = j
  <2>1. CASE i \in 1..n /\ j \in 1..n
    BY <1>2, <1>3, <1>7, <2>1 DEF NoTwice
  <2>2. CASE i \notin 1..n /\ j \notin 1..n
    <3>1. i - n = j - n
      BY <1>2, <1>5, <1>7, <2>2 DEF NoTwice
    <3> QED
      BY <1>1, <3>1
  <2>3. CASE i \in 1..n /\ j \notin 1..n
    BY <1>2, <1>3, <1>5, <1>7, <2>3 DEF InList
  <2>4. CASE i \notin 1..n /\ j \in 1..n
    BY <1>2, <1>3, <1>5, <1>7, <2>4 DEF InList
  <2> QED
    BY <2>1, <2>2, <2>3, <2>4
<1>8. NoTwice(s) /\ NoTwice(t) /\ InList(s) \cap InList(t) = {} => NoTwice(u)
  BY <1>2, <1>7 DEF NoTwice
<1> QED
  BY <1>1, <1>6, <1>8 DEF u

\* The first object of a list, and the others.
LEMMA Taken ==
    ASSUME NEW s \in Seq(Addr), s # <<>>
    PROVE  /\ Head(s) \in InList(s) /\ Head(s) \in Addr /\ Tail(s) \in Seq(Addr)
           /\ InList(s) = InList(Tail(s)) \cup {Head(s)}
           /\ NoTwice(s) => NoTwice(Tail(s)) /\ Head(s) \notin InList(Tail(s))
<1> DEFINE t == Tail(s)
           n == Len(t)
<1>1. /\ t \in Seq(Addr) /\ n \in Nat /\ Len(s) = n + 1 /\ Head(s) = s[1]
      /\ \A i \in 1..n : t[i] = s[i + 1]
  BY HeadTailProperties
<1>2. DOMAIN s = 1..n + 1 /\ DOMAIN t = 1..n
  BY <1>1
<1> HIDE DEF t, n
<1>3. 1 \in 1..n + 1 /\ \A i \in 1..n : i + 1 \in 1..n + 1 /\ i + 1 # 1
  BY <1>1
<1>4. \A i \in 1..n + 1 : i = 1 \/ (i - 1 \in 1..n /\ s[i] = t[i - 1])
  BY <1>1
<1>5. Head(s) \in InList(s) /\ Head(s) \in Addr
  BY <1>1, <1>2, <1>3 DEF InList
<1>6. InList(s) = InList(t) \cup {Head(s)}
  <2>1. ASSUME NEW i \in 1..n + 1 PROVE s[i] \in InList(t) \cup {Head(s)}
    BY <1>1, <1>2, <1>4 DEF InList
  <2>2. ASSUME NEW i \in 1..n PROVE t[i] \in InList(s)
    BY <1>1, <1>2, <1>3 DEF InList
  <2> QED
    BY <1>2, <1>5, <2>1, <2>2 DEF InList
<1>7. ASSUME NoTwice(s) PROVE NoTwice(t) /\ Head(s) \notin InList(t)
  <2>1. ASSUME NEW i \in 1..n, NEW j \in 1..n, t[i] = t[j] PROVE i = j
    <3>1. i + 1 \in DOMAIN s /\ j + 1 \in DOMAIN s
      BY <1>2, <1>3
    <3>2. s[i + 1] = s[j + 1]
      BY <1>1, <2>1
    <3>3. i + 1 = j + 1
      BY <1>7, <3>1, <3>2 DEF NoTwice
    <3> QED
      BY <3>3
  <2>2. ASSUME NEW i \in 1..n, t[i] = s[1] PROVE FALSE
    BY <1>1, <1>2, <1>3, <1>7, <2>2 DEF NoTwice
  <2> QED
    BY <1>1, <1>2, <2>1, <2>2 DEF NoTwice, InList
<1> QED
  BY <1>1, <1>5, <1>6, <1>7 DEF t

-----------------------------------------------------------------------------
(* References.                                                             *)

\* The places of objects, and their colours.
Node == Addr \cup {Main}
Color == {"white0", "white1", "gray", "black"}
Object == Live \cup {Main}
Closed(C) == \A o \in C : Strong(o) \subseteq C

\* Reach() is the least set with some objects that is closed under references.
LEMMA ReachIsLeast ==
    ASSUME NEW S \in SUBSET Addr
    PROVE  /\ S \subseteq Reach(S) /\ Reach(S) \subseteq Addr
           /\ Closed(Reach(S))
           /\ \A C : S \subseteq C /\ Closed(C) => Reach(S) \subseteq C
<1> DEFINE N == Cardinality(Addr)
           Spread(q) == q \cup UNION {Strong(o) : o \in q}
           step == [p \in (SUBSET Addr) \X (1..N) |-> Spread(p[1])]
           IsLoop(h) == h = [n \in 0..N |-> IF n = 0 THEN S
                                            ELSE LET q == h[n - 1] IN Spread(q)]
           w == CHOOSE h : IsLoop(h)
<1>1. N \in Nat /\ IsFiniteSet(Addr)
  BY GCAssumption, FS_CardinalityType
<1>2. \A o \in Addr : Strong(o) \subseteq Addr
  BY GCAssumption DEF Strong
<1>3. \A q \in SUBSET Addr : Spread(q) \in SUBSET Addr
  BY <1>2
<1>4. Reach(S) = w[N]
  BY DEF Reach
<1> HIDE DEF N
<1>5. /\ step \in Steps(SUBSET Addr, N)
      /\ \A q \in SUBSET Addr, n \in 1..N : step[<<q, n>>] = Spread(q)
  BY <1>3 DEF Steps
<1> HIDE DEF step
<1>6. PICK f \in [0..N -> SUBSET Addr] :
          \A n \in 0..N : f[n] = IF n = 0 THEN S ELSE step[<<f[n - 1], n>>]
  <2>1. Runs(SUBSET Addr, N, S, step) # {}
    BY <1>1, <1>5, LoopRuns
  <2> QED
    BY <2>1 DEF Runs
<1>7. \A n \in 0..N : n = 0 \/ (n \in 1..N /\ n - 1 \in 0..N)
  BY <1>1
<1> HIDE DEF Spread
<1>8. IsLoop(f)
  <2>1. ASSUME NEW n \in 0..N
        PROVE  f[n] = IF n = 0 THEN S ELSE Spread(f[n - 1])
    BY <1>5, <1>6, <1>7
  <2> QED
    BY <2>1
<1>9. IsLoop(w)
  BY <1>8
<1> HIDE DEF w
<1>10. \A n \in 0..N : w[n] = IF n = 0 THEN S ELSE Spread(w[n - 1])
  BY <1>9
<1> HIDE DEF IsLoop
<1>11. 0 \in 0..N /\ \A n \in 0..N - 1 : n \in 0..N /\ n + 1 \in 1..N /\ n + 1 \in 0..N
                                         /\ n + 1 # 0 /\ n + 1 - 1 = n
  BY <1>1
<1>12. w[0] = S /\ \A n \in 0..N - 1 : w[n + 1] = Spread(w[n])
  BY <1>10, <1>11
<1> DEFINE Full(q) == \A o \in q : Strong(o) \subseteq q
           Good(q, n) == /\ S \subseteq q /\ q \subseteq Addr
                         /\ \A C : S \subseteq C /\ Closed(C) => q \subseteq C
                         /\ Full(q) \/ Cardinality(q) >= n
           T == {n \in 0..N : Good(w[n], n)}
<1>13. 0 \in T
  <2>1. IsFiniteSet(S)
    BY <1>1, FS_Subset
  <2>2. Cardinality(S) >= 0
    BY <2>1, FS_CardinalityType
  <2> QED
    BY <1>11, <1>12, <2>2
<1>14. ASSUME NEW n \in 0..N - 1, n \in T
       PROVE  n + 1 \in T
  <2> DEFINE q == w[n]
             r == w[n + 1]
  <2>1. r = q \cup UNION {Strong(o) : o \in q}
    BY <1>12 DEF Spread
  <2>2. Good(q, n)
    BY <1>14
  <2> HIDE DEF q, r
  <2>3. S \subseteq r /\ q \subseteq r /\ r \subseteq Addr
    BY <1>2, <2>1, <2>2
  <2>4. ASSUME NEW C, S \subseteq C, Closed(C) PROVE r \subseteq C
    BY <2>1, <2>2, <2>4 DEF Closed
  <2>5. Full(r) \/ Cardinality(r) >= n + 1
    <3>1. CASE r = q
      BY <2>1, <3>1
    <3>2. CASE r # q
      <4>1. ~ Full(q)
        BY <2>1, <3>2
      <4>2. Cardinality(q) >= n
        BY <2>2, <4>1
      <4>3. IsFiniteSet(q) /\ IsFiniteSet(r)
        BY <1>1, <2>2, <2>3, FS_Subset
      <4>4. Cardinality(q) < Cardinality(r)
        BY <2>3, <3>2, <4>3, FS_Subset, FS_CardinalityType
      <4>5. Cardinality(q) \in Nat /\ Cardinality(r) \in Nat
        BY <4>3, FS_CardinalityType
      <4> QED
        BY <1>1, <4>2, <4>4, <4>5
    <3> QED
      BY <3>1, <3>2
  <2>6. Good(r, n + 1)
    BY <2>3, <2>4, <2>5
  <2> HIDE DEF Good
  <2> QED
    BY <1>11, <2>6 DEF r
<1> HIDE DEF T
<1>15. \A n \in 0..N : n \in T
  BY <1>1, <1>13, <1>14, BoundedInduction
<1>16. N \in 0..N
  BY <1>1
<1>17. Good(w[N], N)
  BY <1>15, <1>16 DEF T
<1>18. Full(w[N])
  <2>1. SUFFICES ASSUME Cardinality(w[N]) >= N PROVE Full(w[N])
    BY <1>17
  <2>2. w[N] \subseteq Addr
    BY <1>17
  <2>3. w[N] = Addr
    BY <1>1, <2>1, <2>2, FS_Subset, FS_CardinalityType DEF N
  <2> QED
    BY <1>2, <2>3
<1> QED
  BY <1>4, <1>17, <1>18 DEF Closed

-----------------------------------------------------------------------------
(* Marks.                                                                  *)

\* What marking works on, and what it has marked.
MarkState == [color : [Node -> Color], gray : SUBSET Node, again : SUBSET Node,
              weak : SUBSET Node]
Marked(m) == {o \in Node : ~IsWhite(m.color, o)}

\* What MarkObjects() marks.
New(m, S) == {o \in Through(m, Through(m, S)) : IsWhite(m.color, o)}
Queued(m, S) == {o \in New(m, S) : KindOf(o) \notin MarkedAtOnce \cup {"string"}}
AtOnce(o) == KindOf(o) = "userdata" \/ (KindOf(o) = "upval" /\ open[o] = Nil)

\* What propagatemark() does to the objects it takes, and what it marks then.
Turned(m, S) ==
    [m EXCEPT !.gray = @ \ S,
              !.color = [o \in DOMAIN @ |->
                           IF o \in S /\ KindOf(o) \notin Weak \cup {"thread"}
                           THEN "black" ELSE @[o]],
              !.weak = @ \cup {o \in S : KindOf(o) \in Weak},
              !.again = @ \cup {o \in S : KindOf(o) = "thread"}]
Children(S) == UNION {Strong(o) : o \in S}

\* What is marked is an object or a free address.
LEMMA NewIsNode ==
    ASSUME NEW m, NEW S \in SUBSET Node
    PROVE  New(m, S) \subseteq Node
<1>1. ASSUME NEW Q \in SUBSET Node PROVE Through(m, Q) \subseteq Node
  <2>1. ASSUME NEW o \in Q, KindOf(o) \in MarkedAtOnce PROVE Strong(o) \subseteq Addr
    BY <2>1 DEF Strong, KindOf, MarkedAtOnce
  <2> QED
    BY <2>1 DEF Through, Node
<1> QED
  BY <1>1 DEF New

\* MarkObjects(), field by field.
LEMMA MarkObjectsIs ==
    ASSUME NEW m \in MarkState, NEW S \in SUBSET Node
    PROVE  LET q == MarkObjects(m, S) IN
           /\ q \in MarkState /\ q.again = m.again /\ q.weak = m.weak
           /\ q.gray = m.gray \cup Queued(m, S)
           /\ \A o \in Node : q.color[o] = IF o \notin New(m, S) THEN m.color[o]
                                           ELSE IF AtOnce(o) THEN "black" ELSE "gray"
<1> DEFINE c == [o \in Node |-> IF o \notin New(m, S) THEN m.color[o]
                                ELSE IF AtOnce(o) THEN "black" ELSE "gray"]
           q == [m EXCEPT !.color = c, !.gray = m.gray \cup Queued(m, S)]
<1>1. DOMAIN m.color = Node /\ m.color \in [Node -> Color]
  BY DEF MarkState
<1>2. MarkObjects(m, S) = q
  BY <1>1 DEF MarkObjects, New, Queued, AtOnce
<1>3. c \in [Node -> Color]
  BY <1>1 DEF Color
<1>4. Queued(m, S) \subseteq Node
  BY NewIsNode DEF Queued
<1> HIDE DEF c
<1>5. q \in MarkState /\ q.again = m.again /\ q.weak = m.weak
      /\ q.gray = m.gray \cup Queued(m, S) /\ q.color = c
  BY <1>3, <1>4 DEF MarkState
<1> QED
  BY <1>2, <1>5 DEF c

\* What propagatemark() does to the objects it takes, field by field.
LEMMA TurnedIs ==
    ASSUME NEW m \in MarkState, NEW S \in SUBSET Node
    PROVE  LET q == Turned(m, S) IN
           /\ q \in MarkState /\ q.gray = m.gray \ S
           /\ q.weak = m.weak \cup {o \in S : KindOf(o) \in Weak}
           /\ q.again = m.again \cup {o \in S : KindOf(o) = "thread"}
           /\ \A o \in Node : q.color[o] = IF o \in S /\ KindOf(o) \notin Weak \cup {"thread"}
                                           THEN "black" ELSE m.color[o]
<1> DEFINE c == [o \in Node |-> IF o \in S /\ KindOf(o) \notin Weak \cup {"thread"}
                                THEN "black" ELSE m.color[o]]
           q == [m EXCEPT !.gray = m.gray \ S, !.color = c,
                          !.weak = m.weak \cup {o \in S : KindOf(o) \in Weak},
                          !.again = m.again \cup {o \in S : KindOf(o) = "thread"}]
<1>1. DOMAIN m.color = Node /\ m.color \in [Node -> Color]
  BY DEF MarkState
<1>2. Turned(m, S) = q
  BY <1>1 DEF Turned
<1>3. c \in [Node -> Color]
  BY <1>1 DEF Color
<1> HIDE DEF c
<1>4. /\ q \in MarkState /\ q.gray = m.gray \ S /\ q.color = c
      /\ q.weak = m.weak \cup {o \in S : KindOf(o) \in Weak}
      /\ q.again = m.again \cup {o \in S : KindOf(o) = "thread"}
  BY <1>3 DEF MarkState
<1> QED
  BY <1>2, <1>4 DEF c

\* propagatemark() turns gray objects and marks their references.
LEMMA PropagateIs ==
    ASSUME NEW m, NEW S
    PROVE  Propagate(m, S) = MarkObjects(Turned(m, S), Children(S))
BY DEF Propagate, Turned, Children

-----------------------------------------------------------------------------
(* Marking a set of objects.                                               *)

\* What marking needs of the heap: references lead to objects, and userdata and upvalues,
\* which are marked with what they hold, do not refer to each other in a longer chain
\* than reallymarkobject() follows.
SoundHeap ==
    /\ \A o \in Object : KindOf(o) \in Kind
    /\ \A o \in Object : Strong(o) \subseteq Live
    /\ \A o \in Object : KindOf(o) = "upval" => Strong(o) \cap OfKind({"upval"}) = {}
    /\ \A o \in Object : KindOf(o) = "userdata" => Strong(o) \subseteq OfKind(Table)

\* MarkObjects() marks what it is given, nothing that is out of reach of it, and queues what
\* has references that are not marked.
LEMMA NewObjects ==
    ASSUME SoundHeap, NEW m \in MarkState, NEW S \in SUBSET Object
    PROVE  /\ New(m, S) \subseteq Object /\ New(m, S) \cap Marked(m) = {}
           /\ S \subseteq Marked(m) \cup New(m, S)
           /\ \A C : S \subseteq C /\ Closed(C) => New(m, S) \subseteq C
           /\ \A o \in New(m, S) : \/ o \in Queued(m, S)
                                   \/ Strong(o) \subseteq Marked(m) \cup New(m, S)
<1> DEFINE A == Through(m, S)
           B == Through(m, A)
           Now(x) == IsWhite(m.color, x) /\ KindOf(x) \in MarkedAtOnce
<1>1. A = S \cup UNION {Strong(o) : o \in {x \in S : Now(x)}}
  BY DEF Through
<1>2. B = A \cup UNION {Strong(o) : o \in {x \in A : Now(x)}}
  BY DEF Through
<1>3. Object \subseteq Node /\ Live \subseteq Object /\ Live \subseteq Addr
  BY DEF Object, Node, Live
<1>4. New(m, S) = {o \in B : IsWhite(m.color, o)}
  BY DEF New
<1> HIDE DEF A, B
<1>5. A \subseteq Object /\ B \subseteq Object
  BY <1>1, <1>2, <1>3 DEF SoundHeap
<1>6. B \subseteq Marked(m) \cup New(m, S)
  BY <1>3, <1>4, <1>5 DEF Marked
<1>7. ASSUME NEW C, S \subseteq C, Closed(C) PROVE New(m, S) \subseteq C
  <2>1. A \subseteq C
    BY <1>1, <1>7 DEF Closed
  <2>2. B \subseteq C
    BY <1>2, <1>7, <2>1 DEF Closed
  <2> QED
    BY <1>4, <2>2
<1>8. ASSUME NEW o \in New(m, S), o \notin Queued(m, S)
      PROVE  Strong(o) \subseteq Marked(m) \cup New(m, S)
  <2>1. o \in Object /\ o \in B /\ IsWhite(m.color, o)
        /\ KindOf(o) \in {"userdata", "upval", "string"}
    BY <1>4, <1>5, <1>8 DEF Queued, MarkedAtOnce
  <2>2. CASE KindOf(o) = "string"
    <3>1. o # Main /\ kind[o] = "string"
      BY <2>2 DEF KindOf
    <3>2. Strong(o) = {}
      BY <3>1 DEF Strong
    <3> QED
      BY <3>2
  <2>3. CASE Now(o)
    <3>1. CASE o \in A
      <4>1. Strong(o) \subseteq B
        BY <1>2, <2>3, <3>1
      <4> QED
        BY <1>6, <4>1
    <3>2. CASE o \notin A
      <4>1. PICK x \in A : Now(x) /\ o \in Strong(x)
        BY <1>2, <2>1, <3>2
      <4>2. x \notin S
        BY <1>1, <3>2, <4>1
      <4>3. PICK y \in S : Now(y) /\ x \in Strong(y)
        BY <1>1, <4>1, <4>2
      <4>4. x # Main /\ o # Main /\ x \in Object /\ y \in Object
        BY <2>3, <4>1, <1>5 DEF KindOf, MarkedAtOnce
      <4>5. KindOf(x) = kind[x] /\ KindOf(o) = kind[o]
        BY <4>4 DEF KindOf
      <4>6. kind[x] = "userdata"
        <5>1. x \in Addr
          BY <1>3, <4>3, <4>4 DEF SoundHeap
        <5>2. KindOf(y) = "userdata" => kind[x] \in Table
          BY <4>3, <4>4 DEF SoundHeap, OfKind
        <5>3. KindOf(y) = "upval" => kind[x] # "upval"
          BY <4>3, <4>4, <5>1 DEF SoundHeap, OfKind
        <5>4. KindOf(x) \in {"userdata", "upval"} /\ KindOf(y) \in {"userdata", "upval"}
          BY <4>1, <4>3 DEF MarkedAtOnce
        <5> QED
          BY <4>5, <5>2, <5>3, <5>4 DEF Table, Weak
      <4>7. kind[o] \in Table
        BY <4>1, <4>4, <4>5, <4>6 DEF SoundHeap, OfKind
      <4> QED
        BY <2>3, <4>5, <4>7 DEF MarkedAtOnce, Table, Weak
    <3> QED
      BY <3>1, <3>2
  <2> QED
    BY <2>1, <2>2, <2>3 DEF MarkedAtOnce
<1>9. New(m, S) \subseteq Object /\ New(m, S) \cap Marked(m) = {}
  BY <1>4, <1>5 DEF Marked
<1>10. S \subseteq Marked(m) \cup New(m, S)
  BY <1>1, <1>2, <1>6
<1> QED
  BY <1>7, <1>8, <1>9, <1>10

\* What is marked grows by the new ones.
LEMMA MarkObjectsMarks ==
    ASSUME NEW m \in MarkState, NEW S \in SUBSET Node
    PROVE  Marked(MarkObjects(m, S)) = Marked(m) \cup New(m, S)
<1> DEFINE q == MarkObjects(m, S)
<1>1. \A o \in Node : q.color[o] = IF o \notin New(m, S) THEN m.color[o]
                                   ELSE IF AtOnce(o) THEN "black" ELSE "gray"
  BY MarkObjectsIs
<1>2. New(m, S) \subseteq Node
  BY NewIsNode
<1> HIDE DEF q
<1>3. Marked(q) = Marked(m) \cup New(m, S)
  BY <1>1, <1>2 DEF Marked, IsWhite
<1> QED
  BY <1>3 DEF q

-----------------------------------------------------------------------------
(* A mark phase at work.                                                   *)

\* The kinds that reallymarkobject() queues.
Queueable == {"table", "weakk", "weakv", "function", "proto", "thread"}

\* What is marked is queued, or has its references marked; but for the objects of X.  All
\* that is marked is in C, and nothing is dead.
MarksGood(m, X, C) ==
    /\ m \in MarkState
    /\ Main \in Marked(m)
    /\ m.gray \cup m.again \cup m.weak \subseteq Marked(m) \cap Object
    /\ \A o \in m.gray : KindOf(o) \in Queueable
    /\ \A o \in m.again : KindOf(o) \in {"table", "thread"}
    /\ \A o \in m.weak : KindOf(o) \in Weak
    /\ \A o \in Node : m.color[o] = "black" =>
          KindOf(o) \notin Weak \cup {"thread"} /\ (o \in Addr => open[o] = Nil)
    /\ \A o \in Marked(m) \cap Object :
          o \in m.gray \cup X \/ Strong(o) \subseteq Marked(m)
    /\ \A o \in Marked(m) \cap Object : KindOf(o) \in Weak => o \in m.gray \cup m.weak
    /\ Marked(m) \cap Object \subseteq C
    /\ \A o \in Live : m.color[o] # otherwhite

\* A mark phase loses nothing it has marked.
Grows(m, q) ==
    Marked(m) \subseteq Marked(q) /\ m.again \subseteq q.again /\ m.weak \subseteq q.weak

\* Open upvalues and their coroutines.
OpenIsUpval == \A u \in Addr : open[u] # Nil => kind[u] = "upval"

\* Marking objects keeps a mark phase good.
LEMMA MarkObjectsGood ==
    ASSUME SoundHeap, NEW m, NEW X, NEW C, MarksGood(m, X, C), OpenIsUpval,
           Closed(C), NEW S, S \subseteq Object, S \subseteq C
    PROVE  /\ MarksGood(MarkObjects(m, S), X, C) /\ Grows(m, MarkObjects(m, S))
           /\ S \subseteq Marked(MarkObjects(m, S))
<1> DEFINE q == MarkObjects(m, S)
           W == New(m, S)
<1>1. Object \subseteq Node /\ m \in MarkState /\ S \in SUBSET Node /\ S \in SUBSET Object
  BY DEF Object, Node, Live, MarksGood
<1>2. /\ q \in MarkState /\ q.again = m.again /\ q.weak = m.weak
      /\ q.gray = m.gray \cup Queued(m, S)
      /\ \A o \in Node : q.color[o] = IF o \notin W THEN m.color[o]
                                      ELSE IF AtOnce(o) THEN "black" ELSE "gray"
  BY <1>1, MarkObjectsIs
<1>3. Marked(q) = Marked(m) \cup W
  BY <1>1, MarkObjectsMarks
<1>4. /\ W \subseteq Object /\ W \cap Marked(m) = {} /\ S \subseteq Marked(m) \cup W
      /\ W \subseteq C
      /\ \A o \in W : o \in Queued(m, S) \/ Strong(o) \subseteq Marked(m) \cup W
  BY <1>1, NewObjects
<1>5. Queued(m, S) = {o \in W : KindOf(o) \notin {"userdata", "upval", "string"}}
  BY DEF Queued, MarkedAtOnce
<1>6. \A o \in Object : KindOf(o) \in Kind
  BY DEF SoundHeap
<1> HIDE DEF q, W
<1>7. \A o \in q.gray : KindOf(o) \in Queueable
  <2>1. ASSUME NEW o \in Queued(m, S) PROVE KindOf(o) \in Queueable
    BY <1>4, <1>5, <1>6, <2>1 DEF Queueable, Kind
  <2> QED
    BY <1>2, <2>1 DEF MarksGood
<1>8. ASSUME NEW o \in Node, q.color[o] = "black"
      PROVE  KindOf(o) \notin Weak \cup {"thread"} /\ (o \in Addr => open[o] = Nil)
  <2>1. CASE o \in W
    <3>1. AtOnce(o)
      BY <1>2, <1>8, <2>1
    <3>2. o # Main
      BY <3>1 DEF AtOnce, KindOf
    <3>3. o \in Addr /\ KindOf(o) = kind[o]
      BY <3>2 DEF Node, KindOf
    <3> QED
      BY <3>1, <3>3 DEF AtOnce, Weak, OpenIsUpval
  <2>2. CASE o \notin W
    BY <1>2, <1>8, <2>2 DEF MarksGood
  <2> QED
    BY <2>1, <2>2
<1>9. q.gray \cup q.again \cup q.weak \subseteq Marked(q) \cap Object
  BY <1>2, <1>3, <1>4, <1>5 DEF MarksGood
<1>10. ASSUME NEW o \in Marked(q) \cap Object
       PROVE  /\ o \in q.gray \cup X \/ Strong(o) \subseteq Marked(q)
              /\ KindOf(o) \in Weak => o \in q.gray \cup q.weak
  <2>1. CASE o \in W
    <3>1. o \in q.gray \/ Strong(o) \subseteq Marked(q)
      BY <1>2, <1>3, <1>4, <2>1
    <3>2. KindOf(o) \in Weak => o \in q.gray
      BY <1>2, <1>5, <2>1 DEF Weak
    <3> QED
      BY <3>1, <3>2
  <2>2. CASE o \in Marked(m)
    BY <1>2, <1>3, <2>2 DEF MarksGood
  <2> QED
    BY <1>3, <2>1, <2>2
<1>11. Marked(q) \cap Object \subseteq C
  BY <1>3, <1>4 DEF MarksGood
<1>12. Main \in Marked(q)
  BY <1>3 DEF MarksGood
<1>13. /\ \A o \in q.again : KindOf(o) \in {"table", "thread"}
       /\ \A o \in q.weak : KindOf(o) \in Weak
  BY <1>2 DEF MarksGood
<1>14. \A o \in Live : q.color[o] # otherwhite
  BY <1>1, <1>2 DEF MarksGood, Object, otherwhite
<1>15. MarksGood(q, X, C)
  BY <1>2, <1>7, <1>8, <1>9, <1>10, <1>11, <1>12, <1>13, <1>14 DEF MarksGood
<1>16. Grows(m, q) /\ S \subseteq Marked(q)
  BY <1>2, <1>3, <1>4 DEF Grows
<1> QED
  BY <1>15, <1>16 DEF q

\* propagatemark() keeps a mark phase good.
LEMMA PropagateGood ==
    ASSUME SoundHeap, NEW m, NEW X, NEW C, MarksGood(m, X, C), OpenIsUpval,
           Closed(C), NEW S, S \subseteq m.gray
    PROVE  MarksGood(Propagate(m, S), X, C) /\ Grows(m, Propagate(m, S))
<1> DEFINE t == Turned(m, S)
           q == MarkObjects(t, Children(S))
<1>1. Object \subseteq Node /\ m \in MarkState /\ S \in SUBSET Node
      /\ S \subseteq Object /\ S \subseteq Marked(m) /\ S \subseteq C
  BY DEF Object, Node, Live, MarksGood
<1>2. /\ t \in MarkState /\ t.gray = m.gray \ S
      /\ t.weak = m.weak \cup {o \in S : KindOf(o) \in Weak}
      /\ t.again = m.again \cup {o \in S : KindOf(o) = "thread"}
      /\ \A o \in Node : t.color[o] = IF o \in S /\ KindOf(o) \notin Weak \cup {"thread"}
                                      THEN "black" ELSE m.color[o]
  BY <1>1, TurnedIs
<1> HIDE DEF t
<1>3. Marked(t) = Marked(m)
  BY <1>1, <1>2 DEF Marked, IsWhite
<1>4. Children(S) \subseteq Object /\ Children(S) \subseteq C
  BY <1>1 DEF Children, SoundHeap, Object, Closed
<1>5. MarksGood(t, X \cup S, C)
  <2>1. Main \in Marked(t) /\ Marked(t) \cap Object \subseteq C
    BY <1>3 DEF MarksGood
  <2>2. t.gray \cup t.again \cup t.weak \subseteq Marked(t) \cap Object
    BY <1>1, <1>2, <1>3 DEF MarksGood
  <2>3. /\ \A o \in t.gray : KindOf(o) \in Queueable
        /\ \A o \in t.again : KindOf(o) \in {"table", "thread"}
        /\ \A o \in t.weak : KindOf(o) \in Weak
    BY <1>2 DEF MarksGood
  <2>4. ASSUME NEW o \in Node, t.color[o] = "black"
        PROVE  KindOf(o) \notin Weak \cup {"thread"} /\ (o \in Addr => open[o] = Nil)
    <3>1. CASE o \in S /\ KindOf(o) \notin Weak \cup {"thread"}
      <4>1. KindOf(o) \in Queueable
        BY <3>1 DEF MarksGood
      <4>2. o \in Addr => KindOf(o) = kind[o]
        BY GCAssumption DEF KindOf
      <4> QED
        BY <3>1, <4>1, <4>2 DEF OpenIsUpval, Queueable
    <3>2. CASE ~ (o \in S /\ KindOf(o) \notin Weak \cup {"thread"})
      BY <1>2, <2>4, <3>2 DEF MarksGood
    <3> QED
      BY <3>1, <3>2
  <2>5. ASSUME NEW o \in Marked(t) \cap Object
        PROVE  /\ o \in t.gray \cup (X \cup S) \/ Strong(o) \subseteq Marked(t)
               /\ KindOf(o) \in Weak => o \in t.gray \cup t.weak
    BY <1>2, <1>3, <2>5 DEF MarksGood
  <2>6. \A o \in Live : t.color[o] # otherwhite
    BY <1>1, <1>2 DEF MarksGood, Object, otherwhite
  <2> QED
    BY <1>2, <2>1, <2>2, <2>3, <2>4, <2>5, <2>6 DEF MarksGood
<1>6. /\ MarksGood(q, X \cup S, C) /\ Grows(t, q) /\ Children(S) \subseteq Marked(q)
  BY <1>4, <1>5, MarkObjectsGood
<1> HIDE DEF q
<1>7. MarksGood(q, X, C)
  <2>1. ASSUME NEW o \in S PROVE Strong(o) \subseteq Marked(q)
    BY <1>6, <2>1 DEF Children
  <2> QED
    BY <1>6, <2>1 DEF MarksGood
<1>8. Grows(m, q)
  BY <1>2, <1>3, <1>6 DEF Grows
<1> QED
  BY <1>7, <1>8, PropagateIs DEF q, t

-----------------------------------------------------------------------------
(* Marking until nothing is gray.                                          *)

\* Objects that are queued, or whose references are marked, need no exemption.
LEMMA Exempt ==
    ASSUME NEW m, NEW X, NEW Y, NEW C, MarksGood(m, X, C),
           \A o \in Marked(m) \cap Object :
              o \in X => o \in m.gray \cup Y \/ Strong(o) \subseteq Marked(m)
    PROVE  MarksGood(m, Y, C)
<1>1. ASSUME NEW o \in Marked(m) \cap Object
      PROVE  o \in m.gray \cup Y \/ Strong(o) \subseteq Marked(m)
  BY <1>1 DEF MarksGood
<1> QED
  BY <1>1 DEF MarksGood

\* When a round queues something, the round before had queued something, and there are
\* less white objects than before.
LEMMA RoundMarks ==
    ASSUME SoundHeap, NEW m \in MarkState, Propagate(m, m.gray).gray # {}
    PROVE  /\ m.gray # {}
           /\ \E o \in Node : o \in Marked(Propagate(m, m.gray)) /\ o \notin Marked(m)
<1> DEFINE t == Turned(m, m.gray)
           S == Children(m.gray)
           q == MarkObjects(t, S)
<1>1. m.gray \in SUBSET Node /\ Node = Addr \cup {Main}
  BY DEF MarkState, Node
<1>2. S \in SUBSET Node
  <2>1. ASSUME NEW o \in Addr PROVE Strong(o) \subseteq Addr
    BY GCAssumption DEF Strong
  <2>2. Strong(Main) \subseteq Addr
    BY DEF SoundHeap, Object, Live
  <2> QED
    BY <1>1, <2>1, <2>2 DEF Children
<1>3. /\ t \in MarkState /\ t.gray = {}
      /\ \A o \in Node : t.color[o] = IF o \in m.gray /\ KindOf(o) \notin Weak \cup {"thread"}
                                      THEN "black" ELSE m.color[o]
  BY <1>1, TurnedIs
<1> HIDE DEF t
<1>4. q.gray = t.gray \cup Queued(t, S) /\ Marked(q) = Marked(t) \cup New(t, S)
  BY <1>2, <1>3, MarkObjectsIs, MarkObjectsMarks
<1>5. Propagate(m, m.gray) = q
  BY PropagateIs DEF t
<1>6. PICK o \in New(t, S) : TRUE
  BY <1>3, <1>4, <1>5 DEF Queued
<1>7. o \in Node /\ o \in Marked(q)
  BY <1>2, <1>4, NewIsNode
<1>8. o \notin Marked(m)
  BY <1>3, <1>6, <1>7 DEF New, Marked, IsWhite
<1>9. m.gray # {}
  <2>1. S # {}
    BY <1>6 DEF New, Through
  <2> QED
    BY <2>1 DEF Children
<1> QED
  BY <1>5, <1>7, <1>8, <1>9

\* propagateall() takes as many rounds as it needs: at its end nothing is queued, and
\* whatever was queued at its beginning needs no exemption.
LEMMA PropagateAllGood ==
    ASSUME SoundHeap, NEW m, NEW X, NEW C, MarksGood(m, X, C), OpenIsUpval, Closed(C)
    PROVE  /\ MarksGood(propagateall(m), X \ m.gray, C)
           /\ Grows(m, propagateall(m)) /\ propagateall(m).gray = {}
<1> DEFINE A == Cardinality(Addr)
           N == A + 1
           Y == X \ m.gray
           step == [p \in MarkState \X (1..N) |-> Propagate(p[1], p[1].gray)]
           IsLoop(h) == h = [n \in 0..N |-> IF n = 0 THEN m
                                            ELSE LET q == h[n - 1] IN Propagate(q, q.gray)]
           w == CHOOSE h : IsLoop(h)
<1>1. N \in Nat /\ A \in Nat /\ IsFiniteSet(Addr)
  BY GCAssumption, FS_CardinalityType
<1>2. m \in MarkState
  BY DEF MarksGood
<1>3. ASSUME NEW q \in MarkState PROVE Propagate(q, q.gray) \in MarkState
  <2>1. q.gray \in SUBSET Node /\ Node = Addr \cup {Main}
    BY DEF MarkState, Node
  <2>2. Children(q.gray) \in SUBSET Node
    <3>1. ASSUME NEW o \in Addr PROVE Strong(o) \subseteq Addr
      BY GCAssumption DEF Strong
    <3>2. Strong(Main) \subseteq Addr
      BY DEF SoundHeap, Object, Live
    <3> QED
      BY <2>1, <3>1, <3>2 DEF Children
  <2>3. Turned(q, q.gray) \in MarkState
    BY <2>1, TurnedIs
  <2>4. MarkObjects(Turned(q, q.gray), Children(q.gray)) \in MarkState
    BY <2>2, <2>3, MarkObjectsIs
  <2> QED
    BY <2>4, PropagateIs
<1>4. propagateall(m) = w[N]
  BY DEF propagateall
<1> HIDE DEF N
<1>5. /\ step \in Steps(MarkState, N)
      /\ \A q \in MarkState, n \in 1..N : step[<<q, n>>] = Propagate(q, q.gray)
  BY <1>3 DEF Steps
<1> HIDE DEF step
<1>6. PICK f \in [0..N -> MarkState] :
          \A n \in 0..N : f[n] = IF n = 0 THEN m ELSE step[<<f[n - 1], n>>]
  <2>1. Runs(MarkState, N, m, step) # {}
    BY <1>1, <1>2, <1>5, LoopRuns
  <2> QED
    BY <2>1 DEF Runs
<1>7. \A n \in 0..N : n = 0 \/ (n \in 1..N /\ n - 1 \in 0..N)
  BY <1>1
<1>8. IsLoop(f)
  <2>1. ASSUME NEW n \in 0..N
        PROVE  f[n] = IF n = 0 THEN m ELSE Propagate(f[n - 1], f[n - 1].gray)
    BY <1>5, <1>6, <1>7
  <2> QED
    BY <2>1
<1>9. IsLoop(w)
  BY <1>8
<1> HIDE DEF w
<1>10. \A n \in 0..N : w[n] = IF n = 0 THEN m ELSE Propagate(w[n - 1], w[n - 1].gray)
  BY <1>9
<1> HIDE DEF IsLoop
<1>11. 0 \in 0..N /\ \A n \in 0..N - 1 : n \in 0..N /\ n + 1 \in 1..N /\ n + 1 \in 0..N
                                         /\ n + 1 # 0 /\ n + 1 - 1 = n
  BY <1>1
<1>12. w[0] = m /\ \A n \in 0..N - 1 : w[n + 1] = Propagate(w[n], w[n].gray)
  BY <1>10, <1>11
<1> DEFINE Left(q) == Cardinality(Node \ Marked(q))
           Done(q, n) == q.gray = {} \/ Left(q) + n <= A
           Good(q, n) == MarksGood(q, Y, C) /\ Grows(m, q) /\ Done(q, n)
           T == {n \in 0..N : Good(w[n], n)}
<1>13. ASSUME NEW q, MarksGood(q, Y, C)
       PROVE  /\ Node \ Marked(q) \subseteq Addr /\ IsFiniteSet(Node \ Marked(q))
              /\ Left(q) \in Nat /\ Left(q) <= A
  <2>1. Node \ Marked(q) \subseteq Addr
    BY <1>13 DEF MarksGood, Node
  <2> QED
    BY <1>1, <2>1, FS_Subset, FS_CardinalityType
<1> HIDE DEF A
<1>14. 0 \in T
  <2>1. MarksGood(m, Y, C)
    BY Exempt
  <2>2. Grows(m, m)
    BY DEF Grows
  <2>3. Done(m, 0)
    <3>1. Left(m) \in Nat /\ Left(m) <= A
      BY <1>13, <2>1
    <3> HIDE DEF Left
    <3> QED
      BY <1>1, <3>1
  <2>4. Good(w[0], 0)
    BY <1>12, <2>1, <2>2, <2>3
  <2> HIDE DEF Good
  <2> QED
    BY <1>11, <2>4
<1>15. ASSUME NEW n \in 0..N - 1, n \in T
       PROVE  n + 1 \in T
  <2> DEFINE q == w[n]
             r == Propagate(q, q.gray)
  <2>1. Good(q, n)
    BY <1>15
  <2> HIDE DEF q
  <2>2. MarksGood(r, Y, C) /\ Grows(q, r)
    BY <2>1, PropagateGood
  <2>3. Grows(m, r)
    BY <2>1, <2>2 DEF Grows
  <2>4. Done(r, n + 1)
    <3>1. SUFFICES ASSUME r.gray # {} PROVE Left(r) + (n + 1) <= A
      OBVIOUS
    <3>2. q \in MarkState
      BY <2>1 DEF MarksGood
    <3>3. q.gray # {} /\ \E o \in Node : o \in Marked(r) /\ o \notin Marked(q)
      BY <3>1, <3>2, RoundMarks
    <3>4. Left(q) + n <= A
      BY <2>1, <3>3
    <3>5. Node \ Marked(r) \subseteq Node \ Marked(q) /\ Node \ Marked(r) # Node \ Marked(q)
      BY <2>2, <3>3 DEF Grows
    <3>6. IsFiniteSet(Node \ Marked(q)) /\ Left(q) \in Nat /\ Left(r) \in Nat
      BY <1>13, <2>1, <2>2
    <3>7. Left(r) < Left(q)
      BY <3>5, <3>6, FS_Subset
    <3> HIDE DEF Left
    <3> QED
      BY <1>1, <3>4, <3>6, <3>7
  <2>5. Good(w[n + 1], n + 1)
    BY <1>12, <2>2, <2>3, <2>4 DEF q
  <2> HIDE DEF Good
  <2> QED
    BY <1>11, <2>5
<1> HIDE DEF T
<1>16. \A n \in 0..N : n \in T
  BY <1>1, <1>14, <1>15, BoundedInduction
<1>17. N \in 0..N
  BY <1>1
<1>18. Good(w[N], N)
  BY <1>16, <1>17 DEF T
<1>19. w[N].gray = {}
  <2>1. Left(w[N]) \in Nat
    BY <1>13, <1>18
  <2>2. ~ (Left(w[N]) + N <= A)
    <3> HIDE DEF Left
    <3> QED
      BY <1>1, <2>1 DEF N
  <2> QED
    BY <1>18, <2>2
<1> QED
  BY <1>4, <1>18, <1>19

-----------------------------------------------------------------------------
(* Marking in the atomic step.                                             *)

\* remarkupvals(), then the weak tables and the threads once more: what was exempt until
\* the end of the mark phase has its references marked.
LEMMA RemarkedGood ==
    ASSUME SoundHeap, NEW m, NEW X, NEW C, OpenIsUpval, Closed(C),
           MarksGood(m, m.again \cup m.weak \cup {u \in Addr : open[u] # Nil} \cup X, C),
           m.gray = {}
    PROVE  /\ MarksGood(Remarked(m), X, C) /\ Remarked(m).gray = {}
           /\ Marked(m) \subseteq Marked(Remarked(m))
<1> DEFINE G == {u \in OfKind({"upval"}) : open[u] # Nil /\ m.color[u] = "gray"}
           S == {UpvalValue(u) : u \in G} \cap Addr
           m1 == MarkObjects(m, S)
           upvals == propagateall(m1)
           a == [upvals EXCEPT !.gray = upvals.weak, !.weak = {}]
           weaks == propagateall(a)
           b == [weaks EXCEPT !.gray = weaks.again, !.again = {}]
           r == propagateall(b)
           Old == m.again \cup m.weak
<1>1. Remarked(m) = r
  BY DEF Remarked
<1>2. MarksGood(m, Old \cup G \cup X, C)
  <2>1. ASSUME NEW o \in Marked(m) \cap Object, o \in Addr, open[o] # Nil
        PROVE  o \in G
    <3>1. kind[o] = "upval" /\ o \in OfKind({"upval"})
      BY <2>1 DEF OpenIsUpval, OfKind
    <3>2. m.color[o] = "gray"
      BY <2>1 DEF MarksGood, Marked, IsWhite, MarkState, Node, Color
    <3> QED
      BY <2>1, <3>1, <3>2
  <2> HIDE DEF G
  <2> QED
    BY <2>1, Exempt
<1>3. ASSUME NEW u \in G
      PROVE  u \in Object /\ u \in C /\ Strong(u) \subseteq S
  <2>1. u \in Addr /\ kind[u] = "upval" /\ u # Main
    BY GCAssumption DEF OfKind
  <2>2. u \in Object
    BY <2>1 DEF Object, Live
  <2>3. u \in Marked(m)
    BY <2>1 DEF Marked, IsWhite, Node
  <2>4. Strong(u) = {UpvalValue(u)} \cap Addr
    BY <2>1 DEF Strong
  <2> QED
    BY <2>2, <2>3, <2>4 DEF MarksGood
<1>4. ASSUME NEW u \in G, UpvalValue(u) \in Addr PROVE UpvalValue(u) \in Strong(u)
  <2>1. u \in Addr /\ kind[u] = "upval" /\ u # Main
    BY GCAssumption DEF OfKind
  <2> QED
    BY <1>4, <2>1 DEF Strong
<1>5. S \subseteq Object /\ S \subseteq C
  BY <1>3, <1>4 DEF SoundHeap, Object, Closed
<1> HIDE DEF S, G, Old
<1>6. MarksGood(m1, Old \cup G \cup X, C) /\ Grows(m, m1) /\ S \subseteq Marked(m1)
  BY <1>2, <1>5, MarkObjectsGood
<1>7. MarksGood(m1, Old \cup X, C)
  BY <1>3, <1>6, Exempt
<1> HIDE DEF m1
<1>8. MarksGood(upvals, (Old \cup X) \ m1.gray, C) /\ Grows(m1, upvals) /\ upvals.gray = {}
  BY <1>7, PropagateAllGood
<1> HIDE DEF upvals
<1>9. /\ upvals \in MarkState /\ a \in MarkState /\ a.gray = upvals.weak /\ a.weak = {}
      /\ a.again = upvals.again /\ a.color = upvals.color
  BY <1>8 DEF MarksGood, MarkState
<1> HIDE DEF a
<1>10. Marked(a) = Marked(upvals)
  BY <1>9 DEF Marked
<1>11. MarksGood(a, Old \cup X, C)
  <2>1. \A o \in a.gray : KindOf(o) \in Queueable
    BY <1>8, <1>9 DEF MarksGood, Weak, Queueable
  <2> QED
    BY <1>8, <1>9, <1>10, <2>1 DEF MarksGood
<1>12. MarksGood(weaks, (Old \cup X) \ a.gray, C) /\ Grows(a, weaks) /\ weaks.gray = {}
  BY <1>11, PropagateAllGood
<1> HIDE DEF weaks
<1>13. m.weak \subseteq a.gray
  BY <1>6, <1>8, <1>9 DEF Grows
<1>14. /\ weaks \in MarkState /\ b \in MarkState /\ b.gray = weaks.again /\ b.again = {}
       /\ b.weak = weaks.weak /\ b.color = weaks.color
  BY <1>12 DEF MarksGood, MarkState
<1> HIDE DEF b
<1>15. Marked(b) = Marked(weaks)
  BY <1>14 DEF Marked
<1>16. MarksGood(b, m.again \cup X, C)
  <2>1. \A o \in b.gray : KindOf(o) \in Queueable
    BY <1>12, <1>14 DEF MarksGood, Queueable
  <2>2. \A o \in (Old \cup X) \ a.gray : o \in m.again \cup X
    BY <1>13 DEF Old
  <2> QED
    BY <1>12, <1>14, <1>15, <2>1, <2>2 DEF MarksGood
<1>17. MarksGood(r, (m.again \cup X) \ b.gray, C) /\ Grows(b, r) /\ r.gray = {}
  BY <1>16, PropagateAllGood
<1> HIDE DEF r
<1>18. m.again \subseteq b.gray
  BY <1>6, <1>8, <1>9, <1>12, <1>14 DEF Grows
<1>19. MarksGood(r, X, C)
  BY <1>17, <1>18, Exempt
<1>20. Marked(m) \subseteq Marked(r)
  BY <1>6, <1>8, <1>10, <1>12, <1>15, <1>17 DEF Grows
<1> QED
  BY <1>1, <1>17, <1>19, <1>20

\* marktmu(): userdata that wait for their finalizers are marked again, with all they hold.
LEMMA MarkTmuGood ==
    ASSUME SoundHeap, NEW m, NEW X, NEW C, OpenIsUpval, MarksGood(m, X, C),
           NEW D, Closed(D), C \subseteq D, m.gray = {}, currentwhite \in {"white0", "white1"},
           NEW queue, X \subseteq InList(queue), InList(queue) \subseteq OfKind({"userdata"}),
           InList(queue) \subseteq D
    PROVE  LET t == MarkTmu(m, queue) IN
           /\ MarksGood(t, {}, D) /\ t.gray = {}
           /\ Marked(m) \subseteq Marked(t) /\ InList(queue) \subseteq Marked(t)
<1> DEFINE Q == InList(queue)
           c == [m EXCEPT !.color = [o \in DOMAIN @ |-> IF o \in Q THEN currentwhite ELSE @[o]]]
           d == [o \in Node |-> IF o \in Q THEN currentwhite ELSE m.color[o]]
           q == MarkObjects(c, Q)
           W == New(c, Q)
           t == propagateall(q)
<1>1. MarkTmu(m, queue) = t
  BY DEF MarkTmu
<1>2. /\ m \in MarkState /\ DOMAIN m.color = Node /\ m.color \in [Node -> Color]
  BY DEF MarksGood, MarkState
<1>3. c = [m EXCEPT !.color = d]
  BY <1>2
<1>4. d \in [Node -> Color]
  BY <1>2 DEF Color
<1>5. /\ c \in MarkState /\ c.gray = m.gray /\ c.again = m.again /\ c.weak = m.weak
      /\ \A o \in Node : c.color[o] = IF o \in Q THEN currentwhite ELSE m.color[o]
  <2> HIDE DEF d
  <2>1. /\ c \in MarkState /\ c.gray = m.gray /\ c.again = m.again /\ c.weak = m.weak
        /\ c.color = d
    BY <1>2, <1>3, <1>4 DEF MarkState
  <2> QED
    BY <2>1 DEF d
<1>6. \A o \in Q : o \in Object /\ o \in Node /\ KindOf(o) = "userdata" /\ o # Main
  BY GCAssumption DEF OfKind, Object, Live, Node, KindOf
<1> HIDE DEF c, Q
<1>7. Q \in SUBSET Node /\ Q \in SUBSET Object /\ Object \subseteq Node
  BY <1>6 DEF Object, Node, Live
<1>8. Marked(c) = Marked(m) \ Q
  BY <1>5, <1>7 DEF Marked, IsWhite
<1>9. /\ q \in MarkState /\ q.again = m.again /\ q.weak = m.weak
      /\ q.gray = Queued(c, Q)
      /\ \A o \in Node : q.color[o] = IF o \notin W THEN c.color[o]
                                      ELSE IF AtOnce(o) THEN "black" ELSE "gray"
  <2>1. /\ q \in MarkState /\ q.again = c.again /\ q.weak = c.weak
        /\ q.gray = c.gray \cup Queued(c, Q)
        /\ \A o \in Node : q.color[o] = IF o \notin W THEN c.color[o]
                                        ELSE IF AtOnce(o) THEN "black" ELSE "gray"
    BY <1>5, <1>7, MarkObjectsIs
  <2> HIDE DEF q, W
  <2> QED
    BY <1>5, <2>1
<1>10. Marked(q) = Marked(c) \cup W
  BY <1>5, <1>7, MarkObjectsMarks
<1>11. /\ W \subseteq Object /\ W \cap Marked(c) = {} /\ Q \subseteq Marked(c) \cup W
       /\ W \subseteq D
       /\ \A o \in W : o \in Queued(c, Q) \/ Strong(o) \subseteq Marked(c) \cup W
  BY <1>5, <1>7, NewObjects DEF Q
<1>12. Queued(c, Q) = {o \in W : KindOf(o) \notin {"userdata", "upval", "string"}}
  BY DEF Queued, MarkedAtOnce
<1>13. Q \subseteq W
  BY <1>8, <1>11
<1> HIDE DEF W, q
<1>14. Marked(m) \subseteq Marked(q) /\ Q \subseteq Marked(q)
  BY <1>8, <1>10, <1>13
<1>15. \A o \in Queued(c, Q) : KindOf(o) \in Queueable
  BY <1>11, <1>12 DEF Queueable, Kind, SoundHeap
<1>16. ASSUME NEW o \in Node, q.color[o] = "black"
       PROVE  KindOf(o) \notin Weak \cup {"thread"} /\ (o \in Addr => open[o] = Nil)
  <2>1. CASE o \in W
    <3>1. AtOnce(o)
      BY <1>9, <1>16, <2>1
    <3>2. o # Main
      BY <3>1 DEF AtOnce, KindOf
    <3>3. o \in Addr /\ KindOf(o) = kind[o]
      BY <3>2 DEF Node, KindOf
    <3> QED
      BY <3>1, <3>3 DEF AtOnce, Weak, OpenIsUpval
  <2>2. CASE o \notin W
    <3>1. m.color[o] = "black"
      BY <1>5, <1>9, <1>16, <2>2
    <3> QED
      BY <3>1 DEF MarksGood
  <2> QED
    BY <2>1, <2>2
<1>17. ASSUME NEW o \in Marked(q) \cap Object
       PROVE  /\ o \in q.gray \/ Strong(o) \subseteq Marked(q)
              /\ KindOf(o) \in Weak => o \in q.gray \cup q.weak
  <2>1. CASE o \in W
    BY <1>9, <1>10, <1>11, <1>12, <2>1 DEF Weak
  <2>2. CASE o \notin W
    <3>1. o \in Marked(m) /\ o \notin X
      BY <1>8, <1>10, <2>2 DEF Q
    <3> QED
      BY <1>9, <1>14, <3>1 DEF MarksGood
  <2> QED
    BY <2>1, <2>2
<1>18. MarksGood(q, {}, D)
  <2>1. Marked(q) \cap Object \subseteq D
    BY <1>8, <1>10, <1>11 DEF MarksGood
  <2>2. Main \in Marked(q)
    BY <1>14 DEF MarksGood
  <2>3. q.gray \cup q.again \cup q.weak \subseteq Marked(q) \cap Object
    BY <1>9, <1>10, <1>11, <1>12, <1>14 DEF MarksGood
  <2>4. /\ \A o \in q.again : KindOf(o) \in {"table", "thread"}
        /\ \A o \in q.weak : KindOf(o) \in Weak
    BY <1>9 DEF MarksGood
  <2>5. \A o \in Live : q.color[o] # otherwhite
    BY <1>5, <1>7, <1>9 DEF MarksGood, Object, otherwhite
  <2> QED
    BY <1>9, <1>15, <1>16, <1>17, <2>1, <2>2, <2>3, <2>4, <2>5 DEF MarksGood
<1>19. MarksGood(t, {} \ q.gray, D) /\ Grows(q, t) /\ t.gray = {}
  BY <1>18, PropagateAllGood
<1> HIDE DEF t
<1>20. MarksGood(t, {}, D)
  BY <1>19, Exempt
<1> QED
  BY <1>1, <1>14, <1>19, <1>20 DEF Grows, Q

-----------------------------------------------------------------------------
(* The invariant.                                                          *)

\* The objects that the sweep would not free, the userdata that wait for their finalizers, and
\* the states of the collector.
Alive == {a \in Live : ~isdead(a)}
Waiting == InList(tmudata)
States == {"pause", "propagate", "sweepstring", "sweep", "finalize", "closing", "closed"}

TypeInv ==
    /\ program \in [Addr -> SUBSET Kind]
    /\ kind \in [Addr -> Kind \cup {"free"}]
    /\ key \in [Addr -> Addr \cup {Num}] /\ val \in [Addr -> Addr \cup {Nil, Num}]
    /\ open \in [Addr -> Addr \cup {Nil}]
    /\ held \subseteq Addr /\ finalized \subseteq Addr
    /\ udlist \in Seq(Addr) /\ tmudata \in Seq(Addr)
    /\ currentwhite \in {"white0", "white1"} /\ gcstate \in States
    /\ tosweep \subseteq Node /\ full \in {"no", "sweep", "cycle", "close"}

MarkTypes == Marks \in MarkState

\* A free address holds nothing, an open upvalue is one of a coroutine, and the entry of a
\* table without a value has no key.
ShapeInv ==
    /\ \A a \in Addr : kind[a] = "free" => key[a] = Num /\ val[a] = Nil /\ open[a] = Nil
    /\ \A u \in Addr : open[u] # Nil => kind[u] = "upval" /\ kind[open[u]] = "thread"
    /\ \A t \in Addr : kind[t] \in Table /\ val[t] = Nil => key[t] = Num

\* What is not dead refers to what is not dead; only functions refer to upvalues, and
\* userdata to tables alone.
RefsGood(a) ==
    /\ Refs(a) \subseteq Alive
    /\ kind[a] = "function" => Refs(a) \subseteq OfKind({"upval"})
    /\ kind[a] # "function" => Refs(a) \cap OfKind({"upval"}) = {}
    /\ kind[a] = "userdata" => Refs(a) \subseteq OfKind(Table)

AliveInv ==
    gcstate # "closed" =>
      /\ held \subseteq Alive /\ Waiting \subseteq Alive
      /\ held \cap OfKind({"upval"}) = {}
      /\ \A a \in Alive : RefsGood(a)

UdInv ==
    /\ NoTwice(udlist) /\ NoTwice(tmudata)
    /\ InList(udlist) \cap Waiting = {}
    /\ OfKind({"userdata"}) = InList(udlist) \cup Waiting
    /\ Waiting \subseteq finalized /\ finalized \subseteq OfKind({"userdata"})
    /\ called = finalized \cap InList(udlist)
    /\ \A u \in OfKind({"userdata"}) : isdead(u) => u \in finalized

\* The userdata that lua_close() found wait for their finalizers or have had their turn.
CloseInv ==
    /\ atclose \subseteq Addr
    /\ gcstate = "closing" => atclose \subseteq finalized

\* What has no barrier is never black.
ColorInv ==
    \A o \in Node : color[o] = "black" =>
        KindOf(o) \notin Weak \cup {"thread"} /\ (o \in Addr => open[o] = Nil)

\* The sweep has been at all that is not white, but for what it has still to do.
SweepInv ==
    /\ gcstate \in {"pause", "finalize"} =>
         \A o \in Object \ Waiting : color[o] = currentwhite
    /\ gcstate \in {"sweepstring", "sweep"} =>
         /\ \A o \in Object \ Waiting :
              color[o] = currentwhite \/ o \in tosweep \/ (o \in Addr /\ open[o] \in tosweep)
         /\ \A o \in tosweep : o = Main \/ (kind[o] # "free" /\ open[o] = Nil)
         /\ tosweep \cap Waiting = {}
    /\ gcstate = "sweep" => \A o \in tosweep : KindOf(o) # "string"

\* The gray objects are those of the lists, strings, open upvalues, and maybe userdata
\* that wait for their finalizers; no object is in two lists.
Listed(m) ==
    /\ m.gray \cap m.again = {} /\ m.gray \cap m.weak = {} /\ m.again \cap m.weak = {}
    /\ \A o \in m.gray \cup m.again \cup m.weak : m.color[o] = "gray"
    /\ \A o \in Object : m.color[o] = "gray" =>
          \/ o \in m.gray \cup m.again \cup m.weak
          \/ KindOf(o) = "string" \/ o \in Waiting
          \/ o \in Addr /\ open[o] # Nil

\* What the atomic step will mark again.
Late(m) == m.again \cup m.weak \cup {u \in Addr : open[u] # Nil} \cup Waiting

MarkInv ==
    gcstate = "propagate" =>
      /\ \A a \in Live : ~isdead(a)
      /\ MarksGood(Marks, Late(Marks), Object \ garbage) /\ Listed(Marks)
      /\ Closed(Object \ garbage)

\* Garbage is not marked, and dead when it was not marked.
GarbageInv ==
    /\ garbage \subseteq Live
    /\ gcstate \in {"pause", "sweepstring", "sweep", "finalize"} =>
         \A a \in garbage : isdead(a)
    /\ full = "sweep" => gcstate # "propagate"

GCInv == /\ TypeInv /\ MarkTypes /\ ShapeInv /\ AliveInv /\ UdInv /\ ColorInv /\ SweepInv
         /\ MarkInv /\ GarbageInv /\ CloseInv

-----------------------------------------------------------------------------
(* Types.                                                                  *)

\* The types of the colours and of the three lists.
LEMMA MarksTyped ==
    MarkTypes <=> /\ color \in [Node -> Color]
                  /\ gray \subseteq Node /\ grayagain \subseteq Node /\ weak \subseteq Node
BY DEF MarkTypes, Marks, MarkState

\* A step that ends with some marks has them.
LEMMA SetMarksTyped ==
    ASSUME NEW q \in MarkState, SetMarks(q)
    PROVE  MarkTypes' /\ Marks' = q
<1>1. Marks' = [color |-> q.color, gray |-> q.gray, again |-> q.again, weak |-> q.weak]
  BY DEF Marks, SetMarks
<1>2. Marks' = q
  BY <1>1 DEF MarkState
<1> QED
  BY <1>2 DEF MarkTypes, MarkState, Node, Color

\* The barriers keep the types.
LEMMA BarriersTyped ==
    ASSUME TypeInv, MarkTypes, NEW o \in Addr
    PROVE  /\ \A v : BarrierForward(o, v) => MarkTypes'
           /\ \A vs : BarrierBack(o, vs) => MarkTypes'
<1>1. /\ color \in [Node -> Color] /\ o \in Node
      /\ gray \subseteq Node /\ grayagain \subseteq Node /\ weak \subseteq Node
  BY MarksTyped DEF Node
<1>2. MarkTypes' <=> /\ color' \in [Node -> Color]
                     /\ gray' \subseteq Node /\ grayagain' \subseteq Node /\ weak' \subseteq Node
  BY DEF MarkTypes, Marks, MarkState, Node, Color
<1>3. ASSUME NEW v, BarrierForward(o, v) PROVE MarkTypes'
  <2>1. CASE color[o] = "black" /\ White(v) /\ gcstate = "propagate"
    <3>1. SetMarks(MarkObjects(Marks, {v})) /\ {v} \in SUBSET Node
      BY <1>3, <2>1 DEF BarrierForward, White, Node
    <3>2. MarkObjects(Marks, {v}) \in MarkState
      BY <3>1, MarkObjectsIs DEF MarkTypes
    <3> QED
      BY <3>1, <3>2, SetMarksTyped
  <2>2. CASE ~ (color[o] = "black" /\ White(v) /\ gcstate = "propagate")
    BY <1>1, <1>2, <1>3, <2>2 DEF BarrierForward, lists, TypeInv, Color
  <2> QED
    BY <2>1, <2>2
<1>4. ASSUME NEW vs, BarrierBack(o, vs) PROVE MarkTypes'
  BY <1>1, <1>2, <1>4 DEF BarrierBack, lists, Color
<1> QED
  BY <1>3, <1>4

\* The heap after the end of some objects.
LEMMA EndedTyped ==
    ASSUME TypeInv, NEW freed, NEW closed, NEW popped, Ended(freed, closed, popped)
    PROVE  /\ program' \in [Addr -> SUBSET Kind]
           /\ kind' \in [Addr -> Kind \cup {"free"}]
           /\ key' \in [Addr -> Addr \cup {Num}] /\ val' \in [Addr -> Addr \cup {Nil, Num}]
           /\ open' \in [Addr -> Addr \cup {Nil}]
           /\ held' \subseteq Addr /\ finalized' \subseteq Addr /\ udlist' \in Seq(Addr)
<1>1. \A a \in Addr : UpvalValue(a) \in Addr \cup {Nil, Num}
  BY DEF UpvalValue, TypeInv
<1>2. udlist' \in Seq(Addr)
  BY WithoutSome DEF Ended, TypeInv
<1> QED
  BY <1>1, <1>2 DEF Ended, TypeInv

\* luaF_close() of a coroutine keeps the types.
LEMMA CloseUpvalsTyped ==
    ASSUME TypeInv, MarkTypes, NEW c \in Addr, CloseUpvals(c)
    PROVE  TypeInv' /\ MarkTypes'
<1> DEFINE kept == {u \in OpenIn(c) : ~isdead(u)}
           grays == {u \in kept : color[u] = "gray"}
           d == [o \in Node |-> IF o \notin grays THEN color[o]
                                ELSE IF gcstate = "propagate" THEN "black" ELSE currentwhite]
           linked == [Marks EXCEPT !.color = d]
           q == IF gcstate = "propagate" /\ grays # {}
                THEN MarkObjects(linked, {val[c]} \cap Addr) ELSE linked
<1>1. Ended(OpenIn(c) \ kept, kept, {c}) /\ luaC_linkupval(kept, val[c])
      /\ UNCHANGED <<gcstate, currentwhite, tmudata, tosweep, full>>
  BY DEF CloseUpvals
<1>2. DOMAIN color = Node /\ color \in [Node -> Color]
  BY MarksTyped
<1>3. SetMarks(q)
  BY <1>1, <1>2 DEF luaC_linkupval, Marks
<1>4. d \in [Node -> Color]
  BY <1>2 DEF TypeInv, Color
<1>5. linked \in MarkState
  <2> HIDE DEF d
  <2> QED
    BY <1>4 DEF MarkTypes, MarkState
<1>6. q \in MarkState
  <2>1. {val[c]} \cap Addr \in SUBSET Node
    BY DEF Node
  <2> HIDE DEF linked
  <2> QED
    BY <1>5, <2>1, MarkObjectsIs
<1> HIDE DEF q
<1>7. MarkTypes'
  BY <1>3, <1>6, SetMarksTyped
<1>8. TypeInv'
  BY <1>1, EndedTyped DEF TypeInv
<1> QED
  BY <1>7, <1>8

-----------------------------------------------------------------------------
(* What the invariant gives a step of the collector.                       *)

\* What is marked can be got, and what can be got but is not marked is in a weak table.
LEMMA StrongInRefs ==
    ASSUME NEW a \in Addr
    PROVE  /\ Strong(a) \subseteq Refs(a)
           /\ kind[a] \notin Table => Refs(a) = Strong(a)
<1>1. a # Main
  BY GCAssumption
<1> QED
  BY <1>1 DEF Refs, Strong, Table, Weak

\* Nothing is dead but between the atomic step and the end of the sweep.
LEMMA NoneDead ==
    ASSUME GCInv, gcstate \in {"pause", "finalize", "propagate"}
    PROVE  Live = Alive
<1>1. ASSUME NEW a \in Live, a \notin Waiting, gcstate # "propagate" PROVE ~ isdead(a)
  <2>1. color[a] = currentwhite
    BY <1>1 DEF GCInv, SweepInv, Object
  <2> QED
    BY <2>1 DEF GCInv, TypeInv, isdead, otherwhite
<1>2. ASSUME NEW a \in Waiting, gcstate # "propagate" PROVE ~ isdead(a)
  BY <1>2 DEF GCInv, AliveInv, Alive
<1>3. gcstate = "propagate" => \A a \in Live : ~ isdead(a)
  BY DEF GCInv, MarkInv
<1> QED
  BY <1>1, <1>2, <1>3 DEF Alive

\* The heap is fit for marking whenever the collector marks or begins to.
LEMMA HeapIsSound ==
    ASSUME GCInv, gcstate \in {"pause", "finalize", "propagate"}
    PROVE  SoundHeap /\ OpenIsUpval
<1>1. Live = Alive
  BY NoneDead
<1>2. Main \notin Addr /\ Live \subseteq Addr
  BY GCAssumption DEF Live
<1>3. /\ held \subseteq Alive /\ \A a \in Alive : RefsGood(a)
  BY DEF GCInv, AliveInv
<1>4. Strong(Main) = held /\ KindOf(Main) = "thread"
  BY DEF Strong, KindOf
<1>5. ASSUME NEW o \in Live
      PROVE  /\ KindOf(o) = kind[o] /\ kind[o] \in Kind
             /\ Strong(o) \subseteq Live
             /\ kind[o] = "upval" => Strong(o) \cap OfKind({"upval"}) = {}
             /\ kind[o] = "userdata" => Strong(o) \subseteq OfKind(Table)
  <2>1. o \in Addr /\ Strong(o) \subseteq Refs(o)
    BY <1>2, StrongInRefs
  <2>2. RefsGood(o)
    BY <1>1, <1>3
  <2>3. KindOf(o) = kind[o] /\ kind[o] \in Kind
    BY <1>2 DEF KindOf, GCInv, TypeInv, Live
  <2> QED
    BY <1>1, <2>1, <2>2, <2>3 DEF RefsGood
<1>6. SoundHeap
  BY <1>1, <1>3, <1>4, <1>5 DEF SoundHeap, Object, Kind
<1>7. OpenIsUpval
  BY DEF GCInv, ShapeInv, OpenIsUpval
<1> QED
  BY <1>6, <1>7

-----------------------------------------------------------------------------
(* The beginning of a mark phase.                                          *)

\* The marks before and after markroot().
Fresh == [color |-> color, gray |-> {}, again |-> {}, weak |-> {}]
Begun == MarkObjects(Fresh, {Main})

\* The main thread is queued; what is marked else are userdata that wait for finalizers.
LEMMA MarkrootBegins ==
    ASSUME GCInv, gcstate \in {"pause", "finalize"}
    PROVE  /\ Begun \in MarkState
           /\ Begun.gray = {Main} /\ Begun.again = {} /\ Begun.weak = {}
           /\ \A o \in Node : Begun.color[o] = IF o = Main THEN "gray" ELSE color[o]
           /\ color[Main] = currentwhite
           /\ \A o \in Live : o \notin Waiting => color[o] = currentwhite
<1>1. color[Main] = currentwhite /\ \A o \in Live : o \notin Waiting => color[o] = currentwhite
  <2>1. Main \notin Waiting
    BY GCAssumption DEF Waiting, InList, GCInv, TypeInv
  <2> QED
    BY <2>1 DEF GCInv, SweepInv, Object
<1>2. Fresh \in MarkState
  BY MarksTyped DEF Fresh, MarkState, GCInv
<1>3. KindOf(Main) = "thread" /\ Main \in Node
  BY DEF KindOf, Node
<1>4. Through(Fresh, {Main}) = {Main}
  BY <1>3 DEF Through, MarkedAtOnce
<1>5. New(Fresh, {Main}) = {Main}
  BY <1>1, <1>4 DEF New, IsWhite, Fresh, GCInv, TypeInv
<1>6. Queued(Fresh, {Main}) = {Main} /\ ~ AtOnce(Main)
  BY <1>3, <1>5 DEF Queued, MarkedAtOnce, AtOnce
<1>7. {Main} \in SUBSET Node
  BY <1>3
<1>8. /\ Begun \in MarkState /\ Begun.again = Fresh.again /\ Begun.weak = Fresh.weak
      /\ Begun.gray = Fresh.gray \cup {Main}
      /\ \A o \in Node : Begun.color[o] = IF o \notin {Main} THEN Fresh.color[o]
                                          ELSE IF AtOnce(o) THEN "black" ELSE "gray"
  <2>1. PICK S : S = {Main}
    OBVIOUS
  <2>2. S \in SUBSET Node /\ New(Fresh, S) = S /\ Queued(Fresh, S) = S
        /\ Begun = MarkObjects(Fresh, S)
    BY <1>5, <1>6, <1>7, <2>1 DEF Begun
  <2>3. /\ MarkObjects(Fresh, S) \in MarkState
        /\ MarkObjects(Fresh, S).again = Fresh.again /\ MarkObjects(Fresh, S).weak = Fresh.weak
        /\ MarkObjects(Fresh, S).gray = Fresh.gray \cup Queued(Fresh, S)
        /\ \A o \in Node : MarkObjects(Fresh, S).color[o] =
              IF o \notin New(Fresh, S) THEN Fresh.color[o]
              ELSE IF AtOnce(o) THEN "black" ELSE "gray"
    BY <1>2, <2>2, MarkObjectsIs
  <2> QED
    BY <2>1, <2>2, <2>3
<1>9. Fresh.again = {} /\ Fresh.weak = {} /\ Fresh.gray = {} /\ Fresh.color = color
  BY DEF Fresh
<1> QED
  BY <1>1, <1>6, <1>8, <1>9

-----------------------------------------------------------------------------
(* The atomic step.                                                        *)

\* What the atomic step computes, name by name: see atomic of LuaGC.
RemarkedNow == Remarked(Marks)
DeadNow == Separated(RemarkedNow.color)
QueueNow == tmudata \o DeadNow
MarkedNow == MarkTmu(RemarkedNow, QueueNow)
FinalizedNow == finalized \cup InList(DeadNow)
KeptNow == StringsKept(MarkedNow, FinalizedNow)
GoneNow == {h \in MarkedNow.weak : Cleared(MarkedNow.color, FinalizedNow, h)}
FinalColor == [o \in Node |-> IF o \in KeptNow /\ IsWhite(MarkedNow.color, o)
                              THEN "gray" ELSE MarkedNow.color[o]]

\* All that is marked at the end has its references marked, the queue for the finalizers
\* is marked, and nothing that stays garbage is.
LEMMA AtomicMarks ==
    ASSUME GCInv, atomic
    PROVE  /\ DeadNow \in Seq(Addr) /\ QueueNow \in Seq(Addr)
           /\ InList(DeadNow) = {u \in InList(udlist) : u \notin finalized
                                                   /\ u \notin Marked(RemarkedNow)}
           /\ InList(QueueNow) = Waiting \cup InList(DeadNow)
           /\ NoTwice(DeadNow) /\ NoTwice(QueueNow)
           /\ MarksGood(MarkedNow, {}, (Object \ garbage) \cup Reach(InList(QueueNow)))
           /\ Marked(RemarkedNow) \subseteq Marked(MarkedNow)
           /\ InList(QueueNow) \subseteq Marked(MarkedNow) /\ MarkedNow.gray = {}
           /\ Closed((Object \ garbage) \cup Reach(InList(QueueNow)))
           /\ RemarkedNow \in MarkState
<1> USE DEF GCInv
<1>1. gcstate = "propagate" /\ gray = {}
  BY DEF atomic
<1>2. SoundHeap /\ OpenIsUpval
  BY <1>1, HeapIsSound
<1> DEFINE C == Object \ garbage
           R == Reach(InList(QueueNow))
<1>3. Closed(C) /\ MarksGood(Marks, Late(Marks), C)
  BY <1>1 DEF MarkInv
<1>4. Marks.gray = {} /\ Marks.again = grayagain /\ Marks.weak = weak
  BY <1>1 DEF Marks
<1>5. MarksGood(RemarkedNow, Waiting, C) /\ RemarkedNow.gray = {}
  BY <1>2, <1>3, <1>4, RemarkedGood DEF Late, RemarkedNow
<1>6. RemarkedNow \in MarkState
  BY <1>5 DEF MarksGood
<1>7. /\ DeadNow \in Seq(Addr) /\ NoTwice(DeadNow)
      /\ InList(DeadNow) = {u \in InList(udlist) : u \notin finalized
                                              /\ u \notin Marked(RemarkedNow)}
  <2> DEFINE S == finalized \cup {u \in Addr : ~IsWhite(RemarkedNow.color, u)}
  <2>1. udlist \in Seq(Addr) /\ NoTwice(udlist)
    BY DEF TypeInv, UdInv
  <2>2. /\ Without(udlist, S) \in Seq(Addr) /\ NoTwice(Without(udlist, S))
        /\ InList(Without(udlist, S)) = InList(udlist) \ S
    BY <2>1, WithoutSome
  <2>3. DeadNow = Without(udlist, S)
    BY DEF DeadNow, Separated
  <2>4. InList(udlist) \subseteq Addr
    BY <2>1 DEF InList
  <2> HIDE DEF S
  <2>5. InList(udlist) \ S = {u \in InList(udlist) : u \notin finalized
                                              /\ u \notin Marked(RemarkedNow)}
    BY <2>4 DEF S, Marked, Node
  <2> QED
    BY <2>2, <2>3, <2>5
<1>8. /\ QueueNow \in Seq(Addr) /\ NoTwice(QueueNow)
      /\ InList(QueueNow) = Waiting \cup InList(DeadNow)
  <2>1. tmudata \in Seq(Addr) /\ NoTwice(tmudata)
    BY DEF TypeInv, UdInv
  <2>2. Waiting \cap InList(DeadNow) = {}
    BY <1>7 DEF UdInv
  <2> QED
    BY <1>7, <2>1, <2>2, Joined DEF QueueNow, Waiting
<1>9. InList(QueueNow) \subseteq OfKind({"userdata"})
  BY <1>7, <1>8 DEF UdInv
<1>10. InList(QueueNow) \in SUBSET Addr
  BY <1>9 DEF OfKind
<1>11. InList(QueueNow) \subseteq R /\ Closed(R)
  BY <1>10, ReachIsLeast
<1>12. Closed(C \cup R)
  BY <1>3, <1>11 DEF Closed
<1> HIDE DEF C, R
<1>13. currentwhite \in {"white0", "white1"}
  BY DEF TypeInv
<1>14. /\ MarksGood(MarkedNow, {}, C \cup R)
       /\ Marked(RemarkedNow) \subseteq Marked(MarkedNow)
       /\ InList(QueueNow) \subseteq Marked(MarkedNow) /\ MarkedNow.gray = {}
  <2>1. /\ Waiting \subseteq InList(QueueNow) /\ C \subseteq C \cup R
        /\ InList(QueueNow) \subseteq C \cup R
    BY <1>8, <1>11
  <2> QED
    BY <1>2, <1>5, <1>9, <1>12, <1>13, <2>1, MarkTmuGood DEF MarkedNow
<1> QED
  BY <1>6, <1>7, <1>8, <1>12, <1>14 DEF C, R

\* The atomic step as a whole.
LEMMA AtomicIs ==
    ASSUME GCInv, atomic
    PROVE  /\ tmudata' = QueueNow /\ udlist' = Without(udlist, InList(DeadNow))
           /\ finalized' = FinalizedNow
           /\ garbage' = garbage \ (Reach(InList(QueueNow)) \cup KeptNow)
           /\ color' = FinalColor /\ grayagain' = {} /\ weak' = {} /\ gray' = MarkedNow.gray
           /\ val' = [a \in Addr |-> IF a \in GoneNow THEN Nil ELSE val[a]]
           /\ key' = [a \in Addr |-> IF a \in GoneNow THEN Num ELSE key[a]]
           /\ tosweep' = RootList \ InList(QueueNow)
           /\ currentwhite' = otherwhite /\ gcstate' = "sweepstring"
           /\ UNCHANGED <<program, kind, open, held, full, called>>
<1>1. MarkedNow \in MarkState
  BY AtomicMarks DEF MarksGood
<1>2. DOMAIN MarkedNow.color = Node
  BY <1>1 DEF MarkState
<1> DEFINE t == MarkedNow
           q == [t EXCEPT !.again = {}, !.weak = {}, !.color = [o \in DOMAIN @ |->
                    IF o \in KeptNow /\ IsWhite(@, o) THEN "gray" ELSE @[o]]]
<1>3. q = [t EXCEPT !.again = {}, !.weak = {}, !.color = FinalColor]
  BY <1>2 DEF FinalColor
<1>4. SetMarks(q)
  BY DEF atomic, MarkedNow, RemarkedNow, QueueNow, DeadNow, KeptNow, FinalizedNow
<1>5. q.color = FinalColor /\ q.again = {} /\ q.weak = {} /\ q.gray = t.gray
  <2> HIDE DEF t
  <2> QED
    BY <1>1, <1>3 DEF t, MarkState
<1>6. color' = FinalColor /\ grayagain' = {} /\ weak' = {} /\ gray' = MarkedNow.gray
  BY <1>4, <1>5 DEF SetMarks
<1>7. /\ tmudata' = QueueNow /\ udlist' = Without(udlist, InList(DeadNow))
      /\ finalized' = FinalizedNow
      /\ garbage' = garbage \ (Reach(InList(QueueNow)) \cup KeptNow)
      /\ val' = [a \in Addr |-> IF a \in GoneNow THEN Nil ELSE val[a]]
      /\ key' = [a \in Addr |-> IF a \in GoneNow THEN Num ELSE key[a]]
      /\ tosweep' = RootList \ InList(QueueNow)
  BY DEF atomic, MarkedNow, RemarkedNow, QueueNow, DeadNow, KeptNow, FinalizedNow, GoneNow
<1>8. currentwhite' = otherwhite /\ gcstate' = "sweepstring"
      /\ UNCHANGED <<program, kind, open, held, full, called>>
  BY DEF atomic
<1> QED
  BY <1>6, <1>7, <1>8

-----------------------------------------------------------------------------
(* Every step keeps the types.                                             *)

\* The types of the next colours and lists.
LEMMA MarksPrimed ==
    MarkTypes' <=> /\ color' \in [Node -> Color]
                   /\ gray' \subseteq Node /\ grayagain' \subseteq Node /\ weak' \subseteq Node
BY DEF MarkTypes, Marks, MarkState, Node, Color

\* GCTM(), in a collection or when the state is closed.
LEMMA GCTMTyped ==
    ASSUME TypeInv, MarkTypes, GCTM
    PROVE  TypeInv' /\ MarkTypes'
<1>1. /\ Head(tmudata) \in Addr /\ Tail(tmudata) \in Seq(Addr)
  BY Taken DEF GCTM, TypeInv
<1>2. udlist' \in Seq(Addr)
  <2>1. <<Head(tmudata)>> \in Seq(Addr) /\ udlist' = <<Head(tmudata)>> \o udlist
    BY <1>1 DEF GCTM
  <2> QED
    BY <2>1, Joined DEF TypeInv
<1>3. held' \subseteq Addr
  BY <1>1 DEF GCTM, TypeInv
<1>4. TypeInv'
  BY <1>1, <1>2, <1>3 DEF GCTM, TypeInv, States
<1>5. MarkTypes'
  BY <1>1, MarksTyped, MarksPrimed DEF GCTM, TypeInv, Color, lists
<1> QED
  BY <1>4, <1>5

\* markroot() keeps the types and leaves the marks Begun.
LEMMA MarkrootTyped ==
    ASSUME GCInv, gcstate \in {"pause", "finalize"}, markroot,
           full' \in {"no", "sweep", "cycle", "close"}
    PROVE  TypeInv' /\ MarkTypes' /\ Marks' = Begun
<1>1. Begun \in MarkState
  BY MarkrootBegins
<1>2. SetMarks(Begun)
  BY DEF markroot, Begun, Fresh
<1>3. MarkTypes' /\ Marks' = Begun
  BY <1>1, <1>2, SetMarksTyped
<1>4. TypeInv'
  BY DEF markroot, GCInv, TypeInv, heap, States
<1> QED
  BY <1>3, <1>4

\* A step of the sweep keeps the types.
LEMMA SweepObjectTyped ==
    ASSUME TypeInv, MarkTypes, NEW o \in tosweep, SweepObject(o), UNCHANGED lists
    PROVE  /\ program' \in [Addr -> SUBSET Kind]
           /\ kind' \in [Addr -> Kind \cup {"free"}]
           /\ key' \in [Addr -> Addr \cup {Num}] /\ val' \in [Addr -> Addr \cup {Nil, Num}]
           /\ open' \in [Addr -> Addr \cup {Nil}]
           /\ held' \subseteq Addr /\ finalized' \subseteq Addr /\ udlist' \in Seq(Addr)
           /\ MarkTypes' /\ tosweep' \subseteq Node
<1> DEFINE upvals == IF KindOf(o) = "thread" THEN OpenIn(o) ELSE {}
           freed == {u \in upvals : isdead(u)} \cup (IF o # Main /\ isdead(o) THEN {o} ELSE {})
           kept == ({o} \cup upvals) \ freed
<1>1. /\ Ended(freed, IF o \in freed THEN upvals \ freed ELSE {}, {})
      /\ color' = [x \in DOMAIN color |-> IF x \in kept THEN currentwhite
                                          ELSE IF x \in freed THEN "white0" ELSE color[x]]
      /\ tosweep' = tosweep \ {o}
  BY DEF SweepObject
<1> HIDE DEF freed, kept
<1>2. MarkTypes'
  BY <1>1, MarksTyped, MarksPrimed DEF TypeInv, Color, lists
<1> QED
  BY <1>1, <1>2, EndedTyped DEF TypeInv

\* A step keeps all types.
LEMMA TypeKept == GCInv /\ [Next]_vars => TypeInv' /\ MarkTypes'
<1> SUFFICES ASSUME GCInv, [Next]_vars PROVE TypeInv' /\ MarkTypes'
  OBVIOUS
<1>0. TypeInv /\ MarkTypes
  BY DEF GCInv
<1>1. ASSUME NEW a \in Addr, newlstr(a) \/ luaC_link(a) PROVE TypeInv' /\ MarkTypes'
  <2>1. PICK k \in Kind : Made(a, k) /\ UNCHANGED udlist
    BY <1>1 DEF newlstr, luaC_link, Kind
  <2>2. TypeInv'
    BY <1>0, <2>1 DEF TypeInv, Made, UNCHANGED_GC, Hold
  <2>3. MarkTypes'
    BY <1>0, <2>1, MarksTyped, MarksPrimed DEF TypeInv, Made, lists, Color
  <2> QED
    BY <2>2, <2>3
<1>2. ASSUME NEW a \in Addr, luaS_newudata(a) PROVE TypeInv' /\ MarkTypes'
  <2>1. Made(a, "userdata") /\ udlist' = <<a>> \o udlist /\ "userdata" \in Kind
    BY <1>2 DEF luaS_newudata, Kind
  <2>2. udlist' \in Seq(Addr)
    <3>1. <<a>> \in Seq(Addr)
      OBVIOUS
    <3> QED
      BY <1>0, <2>1, <3>1, Joined DEF TypeInv
  <2>3. TypeInv'
    BY <1>0, <2>1, <2>2 DEF TypeInv, Made, UNCHANGED_GC, Hold
  <2>4. MarkTypes'
    BY <1>0, <2>1, MarksTyped, MarksPrimed DEF TypeInv, Made, lists, Color
  <2> QED
    BY <2>3, <2>4
<1>3. ASSUME NEW a \in Addr, Drop(a) \/ Intern(a) PROVE TypeInv' /\ MarkTypes'
  <2>1. CASE Drop(a)
    BY <1>0, <2>1, MarksTyped, MarksPrimed DEF TypeInv, Drop, UNCHANGED_GC, lists
  <2>2. CASE Intern(a)
    <3>1. TypeInv'
      BY <1>0, <2>2 DEF TypeInv, Intern, UNCHANGED_GC, Hold
    <3>2. MarkTypes'
      BY <1>0, <2>2, MarksTyped, MarksPrimed DEF TypeInv, Intern, lists, Color
    <3> QED
      BY <3>1, <3>2
  <2> QED
    BY <1>3, <2>1, <2>2
<1>4. ASSUME NEW a \in Addr, CloseUpvals(a) PROVE TypeInv' /\ MarkTypes'
  BY <1>0, <1>4, CloseUpvalsTyped
<1>5. ASSUME NEW o \in Addr, NEW v \in Addr, Get(o, v) \/ GetUpval(o, v)
      PROVE  TypeInv' /\ MarkTypes'
  BY <1>0, <1>5, MarksTyped, MarksPrimed DEF TypeInv, Get, GetUpval, UNCHANGED_GC, lists, Hold
<1>6. ASSUME NEW o \in Addr, NEW v \in Addr, SetField(o, v) PROVE TypeInv' /\ MarkTypes'
  <2>1. MarkTypes'
    BY <1>0, <1>6, BarriersTyped DEF SetField
  <2>2. TypeInv'
    BY <1>0, <1>6 DEF TypeInv, SetField, UNCHANGED_GC
  <2> QED
    BY <2>1, <2>2
<1>7. ASSUME NEW f \in Addr, NEW v \in Addr, SetUpval(f, v) PROVE TypeInv' /\ MarkTypes'
  <2>1. MarkTypes'
    BY <1>0, <1>7, BarriersTyped DEF SetUpval
  <2>2. TypeInv'
    BY <1>0, <1>7 DEF TypeInv, SetUpval, UNCHANGED_GC
  <2> QED
    BY <2>1, <2>2
<1>8. ASSUME NEW t \in Addr, NEW k \in Addr \cup {Num}, NEW v \in Addr \cup {Nil, Num},
             SetTable(t, k, v)
      PROVE  TypeInv' /\ MarkTypes'
  <2>1. MarkTypes'
    <3>1. BarrierBack(t, IF val[t] = Nil THEN {k, v} ELSE {v})
      BY <1>8 DEF SetTable
    <3> QED
      BY <1>0, <3>1, BarriersTyped
  <2>2. TypeInv'
    BY <1>0, <1>8 DEF TypeInv, SetTable, UNCHANGED_GC
  <2> QED
    BY <2>1, <2>2
<1>9. ASSUME NEW c \in Addr, NEW v \in Addr \cup {Nil}, SetSlot(c, v)
      PROVE  TypeInv' /\ MarkTypes'
  BY <1>0, <1>9, MarksTyped, MarksPrimed DEF TypeInv, SetSlot, UNCHANGED_GC, lists
<1>10. ASSUME NEW f \in Addr, NEW u \in Addr, NEW c \in Addr, Closure(f, u, c)
       PROVE  TypeInv' /\ MarkTypes'
  <2>1. MarkTypes'
    BY <1>0, <1>10, MarksTyped, MarksPrimed DEF TypeInv, Closure, lists, Color
  <2>2. TypeInv'
    BY <1>0, <1>10 DEF TypeInv, Closure, UNCHANGED_GC, Hold, Kind
  <2> QED
    BY <2>1, <2>2
<1>11. ASSUME luaC_fullgc PROVE TypeInv' /\ MarkTypes'
  <2>1. MarkTypes'
    BY <1>0, <1>11, MarksTyped, MarksPrimed DEF luaC_fullgc, lists
  <2>2. TypeInv'
    BY <1>0, <1>11 DEF TypeInv, luaC_fullgc, heap, RootList, Live, Node, States
  <2> QED
    BY <2>1, <2>2
<1>12. ASSUME lua_close PROVE TypeInv' /\ MarkTypes'
  <2> DEFINE rest == Without(udlist, finalized)
  <2>1. rest \in Seq(Addr) /\ InList(rest) = InList(udlist) \ finalized
    BY <1>0, WithoutSome DEF TypeInv
  <2>2. /\ tmudata' = tmudata \o rest /\ udlist' = Without(udlist, InList(rest))
        /\ finalized' = finalized \cup InList(rest)
    BY <1>12 DEF lua_close
  <2> HIDE DEF rest
  <2>3. tmudata' \in Seq(Addr) /\ udlist' \in Seq(Addr)
    BY <1>0, <2>1, <2>2, Joined, WithoutSome DEF TypeInv
  <2>4. finalized' \subseteq Addr
    BY <1>0, <2>1, <2>2 DEF TypeInv, InList
  <2>5. TypeInv'
    BY <1>0, <1>12, <2>3, <2>4 DEF TypeInv, lua_close, States
  <2>6. MarkTypes'
    BY <1>0, <1>12, MarksTyped, MarksPrimed DEF lua_close, lists
  <2> QED
    BY <2>5, <2>6
<1>13. ASSUME Start \/ FullMark PROVE TypeInv' /\ MarkTypes'
  <2>1. /\ gcstate \in {"pause", "finalize"} /\ markroot
        /\ full' \in {"no", "sweep", "cycle", "close"}
    BY <1>0, <1>13 DEF Start, FullMark, TypeInv
  <2> QED
    BY <2>1, MarkrootTyped
<1>14. ASSUME propagatemark PROVE TypeInv' /\ MarkTypes'
  <2>1. PICK o \in gray : SetMarks(Propagate(Marks, {o}))
    BY <1>14 DEF propagatemark
  <2>2. gcstate = "propagate" /\ SoundHeap /\ OpenIsUpval
    BY <1>14, HeapIsSound DEF propagatemark
  <2>3. {o} \subseteq Marks.gray
    BY DEF Marks
  <2>4. MarksGood(Propagate(Marks, {o}), Late(Marks), Object \ garbage)
    BY <2>2, <2>3, PropagateGood DEF GCInv, MarkInv
  <2>5. MarkTypes'
    BY <2>1, <2>4, SetMarksTyped DEF MarksGood
  <2>6. TypeInv'
    BY <1>0, <1>14 DEF propagatemark, TypeInv, heap
  <2> QED
    BY <2>5, <2>6
<1>15. ASSUME atomic PROVE TypeInv' /\ MarkTypes'
  <2>1. MarkedNow \in MarkState /\ QueueNow \in Seq(Addr) /\ DeadNow \in Seq(Addr)
    BY <1>15, AtomicMarks DEF MarksGood
  <2>2. InList(DeadNow) \subseteq Addr
    BY <2>1 DEF InList
  <2>3. udlist' \in Seq(Addr)
    BY <1>0, <1>15, AtomicIs, WithoutSome DEF TypeInv
  <2>4. FinalColor \in [Node -> Color]
    BY <2>1 DEF FinalColor, MarkState, Color
  <2>5. MarkTypes'
    BY <1>15, <2>1, <2>4, AtomicIs, MarksPrimed DEF MarkState
  <2>6. val' \in [Addr -> Addr \cup {Nil, Num}] /\ key' \in [Addr -> Addr \cup {Num}]
    BY <1>0, <1>15, AtomicIs DEF TypeInv
  <2>7. finalized' \subseteq Addr /\ tosweep' \subseteq Node
    BY <1>0, <1>15, <2>2, AtomicIs DEF TypeInv, FinalizedNow, RootList, Node, Live
  <2>8. gcstate' \in States /\ currentwhite' \in {"white0", "white1"}
    BY <1>15, AtomicIs DEF States, otherwhite
  <2> QED
    BY <1>0, <1>15, <2>1, <2>3, <2>5, <2>6, <2>7, <2>8, AtomicIs DEF TypeInv
<1>16. ASSUME sweep PROVE TypeInv' /\ MarkTypes'
  <2>1. gcstate' \in States
    BY <1>16 DEF sweep, States
  <2>2. UNCHANGED <<currentwhite, lists, tmudata, full>>
    BY <1>16 DEF sweep
  <2>3. CASE UNCHANGED <<heap, color, tosweep, called, garbage>>
    BY <1>0, <2>1, <2>2, <2>3, MarksTyped, MarksPrimed DEF TypeInv, heap, lists
  <2>4. ASSUME NEW o \in Pending, SweepObject(o) PROVE TypeInv' /\ MarkTypes'
    <3>1. o \in tosweep
      BY <2>4 DEF Pending
    <3> QED
      BY <1>0, <2>1, <2>2, <2>4, <3>1, SweepObjectTyped DEF TypeInv
  <2> QED
    BY <1>16, <2>3, <2>4 DEF sweep
<1>17. ASSUME Finalize \/ CloseFinalize PROVE TypeInv' /\ MarkTypes'
  BY <1>0, <1>17, GCTMTyped DEF Finalize, CloseFinalize
<1>18. ASSUME FinalizeEnd PROVE TypeInv' /\ MarkTypes'
  BY <1>0, <1>18, MarksTyped, MarksPrimed DEF TypeInv, FinalizeEnd, heap, lists, States
<1>19. ASSUME luaC_freeall PROVE TypeInv' /\ MarkTypes'
  <2>1. Ended(Live, {}, {}) /\ UNCHANGED <<color, currentwhite, lists, tmudata, tosweep, full>>
        /\ gcstate' \in States
    BY <1>19 DEF luaC_freeall, States
  <2>2. TypeInv'
    BY <1>0, <2>1, EndedTyped DEF TypeInv
  <2>3. MarkTypes'
    BY <1>0, <2>1, MarksTyped, MarksPrimed DEF lists
  <2> QED
    BY <2>2, <2>3
<1>20. CASE UNCHANGED vars
  BY <1>0, <1>20, MarksTyped, MarksPrimed DEF TypeInv, vars, heap, gcvars, lists
<1> QED
  BY <1>1, <1>2, <1>3, <1>4, <1>5, <1>6, <1>7, <1>8, <1>9, <1>10, <1>11, <1>12, <1>13, <1>14,
     <1>15, <1>16, <1>17, <1>18, <1>19, <1>20 DEF Next, Program, singlestep

-----------------------------------------------------------------------------
(* Every step keeps the shapes.                                            *)

\* What a function of the main stack captures is an upvalue that is not dead.
LEMMA Captured ==
    ASSUME GCInv, Running, NEW f, f \in held, kind[f] = "function", val[f] \in Addr
    PROVE  kind[val[f]] = "upval" /\ val[f] \in Alive
<1>1. f \in Alive /\ RefsGood(f) /\ f \in Addr
  BY DEF GCInv, AliveInv, Running, Alive, Live
<1>2. f # Main
  BY <1>1, GCAssumption
<1>3. val[f] \in Refs(f)
  BY <1>2 DEF Refs, Strong, Table, Weak
<1> QED
  BY <1>1, <1>3 DEF RefsGood, OfKind

\* The end of objects keeps the shape of the others, when no open upvalue is left of a
\* coroutine that is freed.
LEMMA EndedShape ==
    ASSUME TypeInv, ShapeInv, NEW freed, NEW closed, NEW popped, Ended(freed, closed, popped),
           \A u \in closed : u \in Addr => kind[u] = "upval",
           \A c \in popped : c \in Addr => kind[c] = "thread",
           \A u \in Addr : open[u] \in freed => u \in freed \cup closed,
           Nil \notin freed
    PROVE  ShapeInv'
<1>1. /\ kind' = [a \in Addr |-> IF a \in freed THEN "free" ELSE kind[a]]
      /\ key' = [a \in Addr |-> IF a \in freed THEN Num ELSE key[a]]
      /\ val' = [a \in Addr |-> IF a \in freed \cup popped THEN Nil
                                ELSE IF a \in closed THEN UpvalValue(a) ELSE val[a]]
      /\ open' = [a \in Addr |-> IF a \in freed \cup closed THEN Nil ELSE open[a]]
  BY DEF Ended
<1>2. \A a \in Addr : kind'[a] = "free" => key'[a] = Num /\ val'[a] = Nil /\ open'[a] = Nil
  BY <1>1 DEF ShapeInv
<1>3. ASSUME NEW u \in Addr, open'[u] # Nil
      PROVE  kind'[u] = "upval" /\ kind'[open'[u]] = "thread"
  <2>1. u \notin freed \cup closed /\ open'[u] = open[u] /\ open[u] \notin freed
    BY <1>1, <1>3
  <2>2. kind[u] = "upval" /\ kind[open[u]] = "thread"
    BY <1>3, <2>1 DEF ShapeInv
  <2>3. open[u] \in Addr
    BY <1>3, <2>1 DEF TypeInv
  <2> QED
    BY <1>1, <1>3, <2>1, <2>2, <2>3
<1>4. \A t \in Addr : kind'[t] \in Table /\ val'[t] = Nil => key'[t] = Num
  BY <1>1 DEF ShapeInv, Table, Weak
<1> QED
  BY <1>2, <1>3, <1>4 DEF ShapeInv, Table, Weak

\* What one step of the sweep frees, and what it whitens.
SweptUpvals(o) == IF KindOf(o) = "thread" THEN OpenIn(o) ELSE {}
Freed(o) == {u \in SweptUpvals(o) : isdead(u)} \cup (IF o # Main /\ isdead(o) THEN {o} ELSE {})
Kept(o) == ({o} \cup SweptUpvals(o)) \ Freed(o)
Orphans(o) == IF o \in Freed(o) THEN SweptUpvals(o) \ Freed(o) ELSE {}

\* A step of the sweep frees the dead, whitens the rest, and leaves the upvalues of a dead
\* coroutine that are not dead without it.
LEMMA SweepObjectIs ==
    ASSUME GCInv, NEW o \in tosweep, SweepObject(o), gcstate \in {"sweepstring", "sweep"}
    PROVE  /\ Ended(Freed(o), Orphans(o), {}) /\ tosweep' = tosweep \ {o}
           /\ color' = [x \in Node |-> IF x \in Kept(o) THEN currentwhite
                                       ELSE IF x \in Freed(o) THEN "white0" ELSE color[x]]
           /\ Freed(o) \subseteq Addr /\ Kept(o) \subseteq Node /\ Orphans(o) \subseteq Kept(o)
           /\ \A x \in Freed(o) : isdead(x) /\ kind[x] # "free"
           /\ \A x \in Kept(o) \ {Main} : kind[x] # "free" /\ ~isdead(x)
           /\ \A u \in SweptUpvals(o) : u \in Addr /\ kind[u] = "upval" /\ open[u] = o
           /\ \A u \in Addr : open[u] = o => u \in SweptUpvals(o)
           /\ Freed(o) \cup Kept(o) = {o} \cup SweptUpvals(o)
           /\ o = Main \/ (o \in Addr /\ open[o] = Nil)
<1>1. o = Main \/ (kind[o] # "free" /\ open[o] = Nil)
  BY DEF GCInv, SweepInv
<1>2. o \in Node
  BY DEF GCInv, TypeInv
<1>3. \A u \in SweptUpvals(o) : u \in Addr /\ kind[u] = "upval" /\ open[u] = o
  BY DEF SweptUpvals, OpenIn, OfKind
<1>4. \A u \in Addr : open[u] = o => u \in SweptUpvals(o)
  <2>1. ASSUME NEW u \in Addr, open[u] = o PROVE u \in SweptUpvals(o)
    <3>1. o # Nil
      BY <1>2, GCAssumption DEF Node
    <3>2. kind[u] = "upval" /\ kind[o] = "thread"
      BY <2>1, <3>1 DEF GCInv, ShapeInv
    <3>3. KindOf(o) = "thread"
      BY <3>2 DEF KindOf
    <3> QED
      BY <2>1, <3>2, <3>3 DEF SweptUpvals, OpenIn, OfKind
  <2> QED
    BY <2>1
<1>5. /\ Ended(Freed(o), Orphans(o), {}) /\ tosweep' = tosweep \ {o}
      /\ color' = [x \in DOMAIN color |-> IF x \in Kept(o) THEN currentwhite
                                          ELSE IF x \in Freed(o) THEN "white0" ELSE color[x]]
  BY DEF SweepObject, Freed, Kept, Orphans, SweptUpvals
<1>6. DOMAIN color = Node
  BY MarksTyped DEF GCInv
<1>7. /\ Freed(o) \subseteq Addr /\ Kept(o) \subseteq Node /\ Orphans(o) \subseteq Kept(o)
      /\ Freed(o) \cup Kept(o) = {o} \cup SweptUpvals(o)
  BY <1>2, <1>3 DEF Freed, Kept, Orphans, Node
<1>8. \A x \in Freed(o) : isdead(x) /\ kind[x] # "free"
  BY <1>1, <1>3 DEF Freed
<1>9. \A x \in Kept(o) \ {Main} : kind[x] # "free" /\ ~isdead(x)
  BY <1>1, <1>3 DEF Freed, Kept
<1> QED
  BY <1>1, <1>2, <1>3, <1>4, <1>5, <1>6, <1>7, <1>8, <1>9 DEF Node

\* Objects keep their shape.
LEMMA ShapeKept == GCInv /\ [Next]_vars => ShapeInv'
<1> SUFFICES ASSUME GCInv, [Next]_vars PROVE ShapeInv'
  OBVIOUS
<1>0. ShapeInv /\ TypeInv /\ Nil \notin Addr /\ Main \notin Addr
  BY GCAssumption DEF GCInv
<1>1. ASSUME UNCHANGED <<kind, key, val, open>> PROVE ShapeInv'
  BY <1>0, <1>1 DEF ShapeInv, Table, Weak
<1>2. ASSUME NEW a \in Addr, NEW k \in Kind, Made(a, k) PROVE ShapeInv'
  <2>1. /\ kind[a] = "free" /\ kind' = [kind EXCEPT ![a] = k] /\ UNCHANGED <<key, val, open>>
    BY <1>2 DEF Made
  <2>2. ASSUME NEW u \in Addr, open[u] # Nil PROVE kind'[u] = "upval" /\ kind'[open[u]] = "thread"
    BY <1>0, <2>1, <2>2 DEF ShapeInv, TypeInv
  <2> QED
    BY <1>0, <2>1, <2>2 DEF ShapeInv, TypeInv, Table, Weak
<1>3. ASSUME NEW a \in Addr, CloseUpvals(a) PROVE ShapeInv'
  <2> DEFINE kept == {u \in OpenIn(a) : ~isdead(u)}
  <2>1. Ended(OpenIn(a) \ kept, kept, {a}) /\ kind[a] = "thread"
    BY <1>3 DEF CloseUpvals
  <2>2. \A u \in OpenIn(a) : u \in Addr /\ kind[u] = "upval"
    BY DEF OpenIn, OfKind
  <2>3. \A u \in Addr : open[u] \in OpenIn(a) \ kept => FALSE
    BY <1>0, <2>2 DEF ShapeInv
  <2> HIDE DEF kept
  <2>4. \A u \in kept : u \in OpenIn(a)
    BY DEF kept
  <2> QED
    BY <1>0, <2>1, <2>2, <2>3, <2>4, EndedShape
<1>4. ASSUME NEW o \in Addr, NEW v \in Addr, SetField(o, v) PROVE ShapeInv'
  <2>1. /\ kind[o] \in {"userdata", "proto"} /\ val' = [val EXCEPT ![o] = v]
        /\ UNCHANGED <<kind, key, open>>
    BY <1>4 DEF SetField
  <2> QED
    BY <1>0, <2>1 DEF ShapeInv, TypeInv, Table, Weak
<1>5. ASSUME NEW f \in Addr, NEW v \in Addr, SetUpval(f, v) PROVE ShapeInv'
  <2> DEFINE u == val[f]
             w == IF open[u] = Nil THEN u ELSE open[u]
  <2>1. /\ kind[u] = "upval" /\ u \in Addr /\ val' = [val EXCEPT ![w] = v]
        /\ UNCHANGED <<kind, key, open>>
    BY <1>5, Captured DEF SetUpval
  <2>2. kind[w] \in {"upval", "thread"}
    BY <1>0, <2>1 DEF ShapeInv
  <2> HIDE DEF u, w
  <2> QED
    BY <1>0, <2>1, <2>2 DEF ShapeInv, TypeInv, Table, Weak
<1>6. ASSUME NEW t \in Addr, NEW k \in Addr \cup {Num}, NEW v \in Addr \cup {Nil, Num},
             SetTable(t, k, v)
      PROVE  ShapeInv'
  <2>1. /\ kind[t] \in Table /\ val' = [val EXCEPT ![t] = v]
        /\ key' = [key EXCEPT ![t] = IF v = Nil THEN Num ELSE k] /\ UNCHANGED <<kind, open>>
    BY <1>6 DEF SetTable
  <2> QED
    BY <1>0, <2>1 DEF ShapeInv, TypeInv, Table, Weak
<1>7. ASSUME NEW c \in Addr, NEW v \in Addr \cup {Nil}, SetSlot(c, v) PROVE ShapeInv'
  <2>1. /\ kind[c] = "thread" /\ val' = [val EXCEPT ![c] = v] /\ UNCHANGED <<kind, key, open>>
    BY <1>7 DEF SetSlot
  <2> QED
    BY <1>0, <2>1 DEF ShapeInv, TypeInv, Table, Weak
<1>8. ASSUME NEW f \in Addr, NEW u \in Addr, NEW c \in Addr, Closure(f, u, c)
      PROVE  ShapeInv'
  <2>1. /\ kind[f] = "free" /\ f # u /\ u # c /\ kind[c] = "thread" /\ f # c
        /\ kind[u] \in {"free", "upval"}
        /\ kind' = [kind EXCEPT ![f] = "function", ![u] = "upval"]
        /\ open' = [open EXCEPT ![u] = c] /\ val' = [val EXCEPT ![f] = u] /\ key' = key
    BY <1>8 DEF Closure
  <2>2. ASSUME NEW x \in Addr, open'[x] # Nil
        PROVE  kind'[x] = "upval" /\ kind'[open'[x]] = "thread"
    <3>1. CASE x = u
      BY <1>0, <2>1, <3>1 DEF TypeInv
    <3>2. CASE x # u
      <4>1. open'[x] = open[x] /\ kind[x] = "upval" /\ kind[open[x]] = "thread"
            /\ open[x] \in Addr
        BY <1>0, <2>1, <2>2, <3>2 DEF TypeInv, ShapeInv
      <4>2. x # f /\ open[x] # f /\ open[x] # u
        BY <2>1, <4>1
      <4> QED
        BY <1>0, <2>1, <3>2, <4>1, <4>2 DEF TypeInv
    <3> QED
      BY <3>1, <3>2
  <2>3. \A a \in Addr : kind'[a] = "free" => key'[a] = Num /\ val'[a] = Nil /\ open'[a] = Nil
    BY <1>0, <2>1 DEF TypeInv, ShapeInv
  <2>4. \A t \in Addr : kind'[t] \in Table /\ val'[t] = Nil => key'[t] = Num
    BY <1>0, <2>1 DEF TypeInv, ShapeInv, Table, Weak
  <2> QED
    BY <2>2, <2>3, <2>4 DEF ShapeInv, Table, Weak
<1>9. ASSUME atomic PROVE ShapeInv'
  <2>1. \A h \in GoneNow : kind[h] \in Weak \/ h = Main
    BY <1>9, AtomicMarks DEF GoneNow, MarksGood, KindOf
  <2> QED
    BY <1>0, <1>9, <2>1, AtomicIs DEF ShapeInv, Table, Weak
<1>10. ASSUME sweep PROVE ShapeInv'
  <2>1. ASSUME NEW o \in Pending, SweepObject(o) PROVE ShapeInv'
    <3>1. o \in tosweep /\ gcstate \in {"sweepstring", "sweep"}
      BY <1>10, <2>1 DEF Pending, sweep
    <3>2. Ended(Freed(o), Orphans(o), {})
      BY <2>1, <3>1, SweepObjectIs
    <3>3. Freed(o) \subseteq Addr /\ \A u \in Orphans(o) : kind[u] = "upval"
      BY <2>1, <3>1, SweepObjectIs DEF Orphans
    <3>4. ASSUME NEW u \in Addr, open[u] \in Freed(o) PROVE u \in Freed(o) \cup Orphans(o)
      <4>1. kind[open[u]] = "thread"
        BY <1>0, <3>3, <3>4 DEF ShapeInv
      <4>2. open[u] = o
        BY <2>1, <3>1, <3>4, <4>1, SweepObjectIs
      <4>3. u \in SweptUpvals(o)
        BY <2>1, <3>1, <4>2, SweepObjectIs
      <4> QED
        BY <3>4, <4>2, <4>3 DEF Orphans
    <3> QED
      BY <1>0, <3>2, <3>3, <3>4, EndedShape
  <2> QED
    BY <1>1, <1>10, <2>1 DEF sweep, heap
<1>11. ASSUME luaC_freeall PROVE ShapeInv'
  <2>1. Ended(Live, {}, {})
    BY <1>11 DEF luaC_freeall
  <2>2. \A u \in Addr : open[u] \in Live => u \in Live
    BY <1>0 DEF ShapeInv, Live
  <2>3. Nil \notin Live
    BY <1>0 DEF Live
  <2> QED
    BY <1>0, <2>1, <2>2, <2>3, EndedShape
<1>12. ASSUME \/ \E a \in Addr : Drop(a) \/ Intern(a)
              \/ \E o, v \in Addr : Get(o, v) \/ GetUpval(o, v)
              \/ luaC_fullgc \/ lua_close
              \/ Start \/ propagatemark \/ Finalize \/ FinalizeEnd \/ FullMark \/ CloseFinalize
              \/ UNCHANGED vars
       PROVE  ShapeInv'
  <2>1. UNCHANGED <<kind, key, val, open>>
    BY <1>12 DEF Drop, Intern, Get, GetUpval, luaC_fullgc, lua_close, Start, propagatemark,
                 Finalize, FinalizeEnd, FullMark, CloseFinalize, GCTM, markroot, heap, vars
  <2> QED
    BY <1>1, <2>1
<1>13. ASSUME NEW a \in Addr, newlstr(a) \/ luaS_newudata(a) \/ luaC_link(a) PROVE ShapeInv'
  <2>1. \E k \in Kind : Made(a, k)
    BY <1>13 DEF newlstr, luaS_newudata, luaC_link, Kind
  <2> QED
    BY <1>2, <2>1
<1> QED
  BY <1>3, <1>4, <1>5, <1>6, <1>7, <1>8, <1>9, <1>10, <1>11, <1>12, <1>13
     DEF Next, Program, singlestep

-----------------------------------------------------------------------------
(* Every step keeps the colours.                                           *)

\* A barrier leaves no object black that has none.
LEMMA BarriersColor ==
    ASSUME GCInv, NEW o \in Addr, UNCHANGED <<kind, open>>
    PROVE  /\ \A v \in Addr : BarrierForward(o, v) /\ v \in Object => ColorInv'
           /\ \A vs : BarrierBack(o, vs) => ColorInv'
<1>1. ASSUME UNCHANGED color PROVE ColorInv'
  BY <1>1 DEF GCInv, ColorInv, KindOf, Weak, Node
<1>2. ASSUME NEW c, c # "black", color' = [color EXCEPT ![o] = c] PROVE ColorInv'
  BY <1>2, MarksTyped DEF GCInv, ColorInv, KindOf, Weak, Node
<1>3. ASSUME NEW v \in Addr, BarrierForward(o, v), v \in Object PROVE ColorInv'
  <2>1. CASE color[o] = "black" /\ White(v) /\ gcstate = "propagate"
    <3> DEFINE q == MarkObjects(Marks, {v})
    <3>1. SetMarks(q)
      BY <1>3, <2>1 DEF BarrierForward
    <3>2. /\ SoundHeap /\ OpenIsUpval
      BY <2>1, HeapIsSound
    <3>3. Marks \in MarkState /\ {v} \in SUBSET Node
      BY DEF GCInv, MarkTypes, Node
    <3>4. \A x \in Node : q.color[x] = IF x \notin New(Marks, {v}) THEN Marks.color[x]
                                       ELSE IF AtOnce(x) THEN "black" ELSE "gray"
      BY <3>3, MarkObjectsIs
    <3>5. \A x \in Node : AtOnce(x) =>
             KindOf(x) \notin Weak \cup {"thread"} /\ (x \in Addr => open[x] = Nil)
      BY <3>2 DEF AtOnce, Weak, OpenIsUpval, KindOf, Node
    <3>6. color' = q.color /\ Marks.color = color
      BY <3>1 DEF SetMarks, Marks
    <3> HIDE DEF q
    <3>7. \A x \in Node : color'[x] = "black" =>
             KindOf(x) \notin Weak \cup {"thread"} /\ (x \in Addr => open[x] = Nil)
      BY <3>4, <3>5, <3>6 DEF GCInv, ColorInv
    <3> QED
      BY <3>7 DEF ColorInv, KindOf, Weak, Node
  <2>2. CASE color[o] = "black" /\ White(v) /\ gcstate # "propagate"
    BY <1>2, <1>3, <2>2 DEF BarrierForward, GCInv, TypeInv
  <2>3. CASE ~ (color[o] = "black" /\ White(v))
    BY <1>1, <1>3, <2>3 DEF BarrierForward
  <2> QED
    BY <2>1, <2>2, <2>3
<1>4. ASSUME NEW vs, BarrierBack(o, vs) PROVE ColorInv'
  BY <1>1, <1>2, <1>4 DEF BarrierBack
<1> QED
  BY <1>3, <1>4

\* What CloseUpvals() marks, and the upvalues it closes.
StillAlive(c) == {u \in OpenIn(c) : ~isdead(u)}
Visited(c) == {u \in StillAlive(c) : color[u] = "gray"}
LinkedColor(c) == [o \in Node |-> IF o \notin Visited(c) THEN color[o]
                                  ELSE IF gcstate = "propagate" THEN "black" ELSE currentwhite]
Linked(c) == [color |-> LinkedColor(c), gray |-> gray, again |-> grayagain, weak |-> weak]

\* luaF_close() of a coroutine frees the dead upvalues and links the others.
LEMMA CloseUpvalsIs ==
    ASSUME GCInv, NEW c \in Addr, CloseUpvals(c)
    PROVE  /\ Ended(OpenIn(c) \ StillAlive(c), StillAlive(c), {c})
           /\ SetMarks(IF gcstate = "propagate" /\ Visited(c) # {}
                       THEN MarkObjects(Linked(c), {val[c]} \cap Addr) ELSE Linked(c))
           /\ Linked(c) \in MarkState
           /\ kind[c] = "thread" /\ c \in Alive /\ c \in held /\ gcstate # "closed"
           /\ \A u \in OpenIn(c) : u \in Addr /\ kind[u] = "upval" /\ open[u] = c
           /\ UNCHANGED <<gcstate, currentwhite, tmudata, tosweep, full>>
<1>1. DOMAIN color = Node /\ color \in [Node -> Color]
  BY MarksTyped DEF GCInv
<1> DEFINE d == [o \in DOMAIN color |-> IF o \notin Visited(c) THEN color[o]
                        ELSE IF gcstate = "propagate" THEN "black" ELSE currentwhite]
<1>2. d = LinkedColor(c)
  BY <1>1 DEF LinkedColor
<1>3. [Marks EXCEPT !.color = d] = Linked(c)
  <2> HIDE DEF d
  <2> QED
    BY <1>2 DEF Marks, Linked
<1>4. luaC_linkupval(StillAlive(c), val[c])
  BY DEF CloseUpvals, StillAlive
<1>5. SetMarks(IF gcstate = "propagate" /\ Visited(c) # {}
               THEN MarkObjects([Marks EXCEPT !.color = d], {val[c]} \cap Addr)
               ELSE [Marks EXCEPT !.color = d])
  BY <1>4 DEF luaC_linkupval, Visited, Marks
<1>6. LinkedColor(c) \in [Node -> Color]
  BY <1>1 DEF LinkedColor, GCInv, TypeInv, Color
<1>7. Linked(c) \in MarkState
  BY <1>6, MarksTyped DEF Linked, MarkState, GCInv
<1>8. /\ Ended(OpenIn(c) \ StillAlive(c), StillAlive(c), {c})
      /\ kind[c] = "thread" /\ c \in held /\ gcstate # "closed"
      /\ UNCHANGED <<gcstate, currentwhite, tmudata, tosweep, full>>
  BY DEF CloseUpvals, StillAlive, Running
<1>9. c \in Alive
  BY <1>8 DEF GCInv, AliveInv
<1>10. \A u \in OpenIn(c) : u \in Addr /\ kind[u] = "upval" /\ open[u] = c
  BY DEF OpenIn, OfKind
<1> QED
  BY <1>3, <1>5, <1>7, <1>8, <1>9, <1>10

\* No step makes an object black that has no barrier.
LEMMA ColorKept == GCInv /\ [Next]_vars => ColorInv'
<1> SUFFICES ASSUME GCInv, [Next]_vars PROVE ColorInv'
  OBVIOUS
<1>0. /\ ColorInv /\ TypeInv /\ ShapeInv /\ Nil \notin Addr /\ Main \notin Addr
      /\ color \in [Node -> Color]
  BY GCAssumption, MarksTyped DEF GCInv
<1>1. ASSUME UNCHANGED <<kind, open, color>> PROVE ColorInv'
  BY <1>0, <1>1 DEF ColorInv, KindOf, Weak, Node
<1>2. ASSUME NEW a \in Addr, NEW k \in Kind, Made(a, k) PROVE ColorInv'
  BY <1>0, <1>2 DEF Made, ColorInv, KindOf, Weak, Node, TypeInv
<1>3. ASSUME NEW a \in Addr, Intern(a) PROVE ColorInv'
  BY <1>0, <1>3 DEF Intern, ColorInv, KindOf, Weak, Node, TypeInv
<1>4. ASSUME NEW c \in Addr, CloseUpvals(c) PROVE ColorInv'
  <2> DEFINE S == {val[c]} \cap Addr
             W == New(Linked(c), S)
  <2>1. /\ kind' = [a \in Addr |-> IF a \in OpenIn(c) \ StillAlive(c) THEN "free" ELSE kind[a]]
        /\ open' = [a \in Addr |-> IF a \in (OpenIn(c) \ StillAlive(c)) \cup StillAlive(c)
                                   THEN Nil ELSE open[a]]
    BY <1>4, CloseUpvalsIs DEF Ended
  <2>2. S \in SUBSET Node /\ Linked(c) \in MarkState
    BY <1>4, CloseUpvalsIs DEF Node
  <2>3. \A o \in Node : color'[o] = "black" => o \in Visited(c) \/ color[o] = "black" \/ AtOnce(o)
    <3>1. \A o \in Node : MarkObjects(Linked(c), S).color[o] =
             IF o \notin W THEN Linked(c).color[o] ELSE IF AtOnce(o) THEN "black" ELSE "gray"
      BY <2>2, MarkObjectsIs
    <3>2. \A o \in Node : Linked(c).color[o] = "black" => o \in Visited(c) \/ color[o] = "black"
      BY <1>0 DEF Linked, LinkedColor, TypeInv
    <3>3. color' = Linked(c).color \/ color' = MarkObjects(Linked(c), S).color
      BY <1>4, CloseUpvalsIs DEF SetMarks
    <3> HIDE DEF S, W
    <3> QED
      BY <3>1, <3>2, <3>3
  <2>4. ASSUME NEW o \in Node, color'[o] = "black"
        PROVE  /\ IF o = Main THEN FALSE ELSE kind'[o] \notin Weak \cup {"thread"}
               /\ o \in Addr => open'[o] = Nil
    <3>1. CASE o \in Visited(c)
      <4>1. o \in StillAlive(c) /\ o \in OpenIn(c) /\ o \in Addr /\ kind[o] = "upval"
        BY <1>4, <3>1, CloseUpvalsIs DEF Visited, StillAlive
      <4> QED
        BY <1>0, <2>1, <4>1 DEF Weak
    <3>2. CASE color[o] = "black" \/ AtOnce(o)
      <4>1. KindOf(o) \notin Weak \cup {"thread"} /\ (o \in Addr => open[o] = Nil)
        BY <1>0, <3>2 DEF ColorInv, AtOnce, Weak, ShapeInv, KindOf
      <4>2. o # Main /\ o \in Addr /\ KindOf(o) = kind[o]
        BY <4>1 DEF KindOf, Node
      <4> QED
        BY <2>1, <4>1, <4>2 DEF Weak
    <3> QED
      BY <2>3, <2>4, <3>1, <3>2
  <2> QED
    BY <2>4 DEF ColorInv, KindOf, Weak, Node
<1>5. ASSUME NEW o \in Addr, NEW v \in Addr, SetField(o, v) PROVE ColorInv'
  <2>1. v \in Object
    BY <1>5 DEF SetField, GCInv, AliveInv, Alive, Object, Running
  <2> QED
    BY <1>5, <2>1, BarriersColor DEF SetField
<1>6. ASSUME NEW f \in Addr, NEW v \in Addr, SetUpval(f, v) PROVE ColorInv'
  <2>1. v \in Object
    BY <1>6 DEF SetUpval, GCInv, AliveInv, Alive, Object, Running
  <2> QED
    BY <1>6, <2>1, BarriersColor DEF SetUpval
<1>7. ASSUME NEW t \in Addr, NEW k \in Addr \cup {Num}, NEW v \in Addr \cup {Nil, Num},
             SetTable(t, k, v)
      PROVE  ColorInv'
  <2>1. BarrierBack(t, IF val[t] = Nil THEN {k, v} ELSE {v}) /\ UNCHANGED <<kind, open>>
    BY <1>7 DEF SetTable
  <2> QED
    BY <2>1, BarriersColor
<1>8. ASSUME NEW f \in Addr, NEW u \in Addr, NEW c \in Addr, Closure(f, u, c)
      PROVE  ColorInv'
  <2>1. /\ kind[f] = "free" /\ f # u
        /\ kind[u] = "free" \/ open[u] = c
        /\ kind' = [kind EXCEPT ![f] = "function", ![u] = "upval"]
        /\ open' = [open EXCEPT ![u] = c]
        /\ color' = [color EXCEPT ![f] = currentwhite,
                        ![u] = IF kind[u] = "free" \/ isdead(u) THEN currentwhite ELSE @]
    BY <1>8 DEF Closure
  <2>2. color'[f] = currentwhite /\ color'[u] \in {currentwhite, color[u]}
        /\ (kind[u] = "free" => color'[u] = currentwhite)
        /\ \A o \in Node : o # f /\ o # u => color'[o] = color[o]
    BY <1>0, <2>1 DEF Node
  <2>3. \A o \in Addr : o # f /\ o # u => kind'[o] = kind[o] /\ open'[o] = open[o]
    BY <1>0, <2>1 DEF TypeInv
  <2>4. color'[u] # "black" /\ color'[f] # "black"
    <3>1. open[u] = c => color[u] # "black"
      BY <1>0 DEF ColorInv, Node
    <3> QED
      BY <1>0, <2>1, <2>2, <3>1 DEF TypeInv
  <2> QED
    BY <1>0, <2>2, <2>3, <2>4 DEF ColorInv, KindOf, Weak, Node
<1>9. ASSUME Start \/ FullMark PROVE ColorInv'
  <2>1. markroot /\ gcstate \in {"pause", "finalize"} /\ UNCHANGED <<kind, open>>
    BY <1>9 DEF Start, FullMark, markroot, heap
  <2>2. color' = Begun.color
    BY <2>1 DEF markroot, Begun, Fresh, SetMarks
  <2> QED
    BY <1>0, <2>1, <2>2, MarkrootBegins DEF ColorInv, KindOf, Weak, Node
<1>10. ASSUME propagatemark PROVE ColorInv'
  <2>1. PICK o \in gray : SetMarks(Propagate(Marks, {o}))
    BY <1>10 DEF propagatemark
  <2>2. gcstate = "propagate" /\ SoundHeap /\ OpenIsUpval /\ UNCHANGED <<kind, open>>
    BY <1>10, HeapIsSound DEF propagatemark, heap
  <2>3. {o} \subseteq Marks.gray
    BY DEF Marks
  <2>4. MarksGood(Propagate(Marks, {o}), Late(Marks), Object \ garbage)
    BY <2>2, <2>3, PropagateGood DEF GCInv, MarkInv
  <2>5. color' = Propagate(Marks, {o}).color
    BY <2>1 DEF SetMarks
  <2>6. \A x \in Node : color'[x] = "black" =>
             KindOf(x) \notin Weak \cup {"thread"} /\ (x \in Addr => open[x] = Nil)
    BY <2>4, <2>5 DEF MarksGood
  <2> QED
    BY <2>2, <2>6 DEF ColorInv, KindOf, Weak, Node
<1>11. ASSUME atomic PROVE ColorInv'
  <2>1. color' = FinalColor /\ UNCHANGED <<kind, open>>
    BY <1>11, AtomicIs
  <2>2. \A x \in Node : FinalColor[x] = "black" => MarkedNow.color[x] = "black"
    BY DEF FinalColor
  <2>3. \A x \in Node : MarkedNow.color[x] = "black" =>
             KindOf(x) \notin Weak \cup {"thread"} /\ (x \in Addr => open[x] = Nil)
    BY <1>11, AtomicMarks DEF MarksGood
  <2> QED
    BY <2>1, <2>2, <2>3 DEF ColorInv, KindOf, Weak, Node
<1>12. ASSUME sweep PROVE ColorInv'
  <2>1. ASSUME NEW o \in Pending, SweepObject(o) PROVE ColorInv'
    <3>1. o \in tosweep /\ gcstate \in {"sweepstring", "sweep"}
      BY <1>12, <2>1 DEF Pending, sweep
    <3>2. /\ Ended(Freed(o), Orphans(o), {}) /\ Orphans(o) \subseteq Kept(o)
          /\ color' = [x \in Node |-> IF x \in Kept(o) THEN currentwhite
                                      ELSE IF x \in Freed(o) THEN "white0" ELSE color[x]]
      BY <2>1, <3>1, SweepObjectIs
    <3>3. ASSUME NEW x \in Node, color'[x] = "black"
          PROVE  /\ color[x] = "black"
                 /\ x \in Addr => kind'[x] = kind[x] /\ open'[x] = open[x]
      BY <1>0, <3>2, <3>3 DEF Ended, TypeInv
    <3> QED
      BY <1>0, <3>3 DEF ColorInv, KindOf, Weak, Node
  <2> QED
    BY <1>1, <1>12, <2>1 DEF sweep, heap
<1>13. ASSUME Finalize \/ CloseFinalize PROVE ColorInv'
  <2>1. color' = [color EXCEPT ![Head(tmudata)] = currentwhite] /\ UNCHANGED <<kind, open>>
    BY <1>13 DEF Finalize, CloseFinalize, GCTM
  <2> QED
    BY <1>0, <2>1 DEF ColorInv, KindOf, Weak, Node, TypeInv
<1>14. ASSUME luaC_freeall PROVE ColorInv'
  <2>1. Ended(Live, {}, {}) /\ UNCHANGED color
    BY <1>14 DEF luaC_freeall
  <2>2. \A a \in Addr : kind'[a] = "free" /\ open'[a] = Nil
    BY <1>0, <2>1 DEF Ended, Live, ShapeInv
  <2> QED
    BY <1>0, <2>1, <2>2 DEF ColorInv, KindOf, Weak, Node
<1>15. ASSUME \/ \E a \in Addr : Drop(a)
              \/ \E o, v \in Addr : Get(o, v) \/ GetUpval(o, v)
              \/ \E c \in Addr, v \in Addr \cup {Nil} : SetSlot(c, v)
              \/ luaC_fullgc \/ lua_close \/ FinalizeEnd \/ UNCHANGED vars
       PROVE  ColorInv'
  <2>1. UNCHANGED <<kind, open, color>>
    BY <1>15 DEF Drop, Get, GetUpval, SetSlot, luaC_fullgc, lua_close, FinalizeEnd, heap, vars,
                 gcvars
  <2> QED
    BY <1>1, <2>1
<1>16. ASSUME NEW a \in Addr, newlstr(a) \/ luaS_newudata(a) \/ luaC_link(a) PROVE ColorInv'
  <2>1. \E k \in Kind : Made(a, k)
    BY <1>16 DEF newlstr, luaS_newudata, luaC_link, Kind
  <2> QED
    BY <1>2, <2>1
<1> QED
  BY <1>3, <1>4, <1>5, <1>6, <1>7, <1>8, <1>9, <1>10, <1>11, <1>12, <1>13, <1>14, <1>15, <1>16
     DEF Next, Program, singlestep

-----------------------------------------------------------------------------
(* Every step keeps what is not dead.                                      *)

\* The references of an object, one by one.
LEMMA RefsAre ==
    \A a \in Addr : \A r :
        r \in Refs(a) <=>
          /\ r \in Addr
          /\ \/ kind[a] \in Table /\ r \in {key[a], val[a]}
             \/ kind[a] = "upval" /\ r = UpvalValue(a)
             \/ kind[a] \notin Table \cup {"upval", "string", "free"} /\ r = val[a]
BY GCAssumption DEF Refs, Strong, Table, Weak

\* The references of an object after a step, one by one.
LEMMA RefsPrimed ==
    \A a \in Addr : \A r :
        r \in Refs(a)' <=>
          /\ r \in Addr
          /\ \/ kind'[a] \in Table /\ r \in {key'[a], val'[a]}
             \/ kind'[a] = "upval" /\ r = (IF open'[a] = Nil THEN val'[a] ELSE val'[open'[a]])
             \/ kind'[a] \notin Table \cup {"upval", "string", "free"} /\ r = val'[a]
BY GCAssumption DEF Refs, Strong, UpvalValue, Table, Weak

\* What is not dead, before and after a step.
LEMMA AlivePrimed ==
    /\ \A a : a \in Alive <=> a \in Addr /\ kind[a] # "free" /\ color[a] # otherwhite
    /\ \A a : a \in Alive' <=> a \in Addr /\ kind'[a] # "free" /\ color'[a] # otherwhite'
    /\ \A a, k : a \in OfKind(k)' <=> a \in Addr /\ kind'[a] \in k
BY DEF Alive, Live, isdead, OfKind

\* A step after which all that was not dead is not dead, and refers to the same objects but
\* for those of X.
LEMMA AliveMoves ==
    ASSUME GCInv, gcstate # "closed", NEW X,
           \A r \in Alive : r \in Alive' /\ kind'[r] = kind[r],
           \A a \in Alive' : a \notin X =>
              /\ a \in Alive /\ key'[a] = key[a] /\ val'[a] = val[a] /\ open'[a] = open[a]
              /\ open[a] # Nil => val'[open[a]] = val[open[a]],
           \A a \in X : a \in Alive' => RefsGood(a)',
           held' \subseteq Alive', held' \cap OfKind({"upval"})' = {}, Waiting' \subseteq Alive'
    PROVE  AliveInv' /\ Alive \subseteq Alive'
<1>1. \A a \in Alive : RefsGood(a)
  BY DEF GCInv, AliveInv
<1>2. ASSUME NEW a \in Alive', a \notin X PROVE RefsGood(a)'
  <2>1. /\ a \in Alive /\ a \in Addr /\ RefsGood(a) /\ kind'[a] = kind[a]
        /\ key'[a] = key[a] /\ val'[a] = val[a] /\ open'[a] = open[a]
        /\ open[a] # Nil => val'[open[a]] = val[open[a]]
    BY <1>1, <1>2 DEF Alive, Live
  <2>2. Refs(a)' = Refs(a)
    <3>1. UpvalValue(a) = IF open'[a] = Nil THEN val'[a] ELSE val'[open'[a]]
      BY <2>1 DEF UpvalValue
    <3>2. ASSUME NEW r PROVE r \in Refs(a)' <=> r \in Refs(a)
      BY <2>1, <3>1, RefsAre, RefsPrimed
    <3> QED
      BY <3>2
  <2>3. \A r \in Refs(a) : r \in Alive /\ r \in Addr /\ r \in Alive' /\ kind'[r] = kind[r]
    BY <2>1 DEF RefsGood, Alive, Live
  <2>4. /\ kind[a] = "function" => \A r \in Refs(a) : kind[r] = "upval"
        /\ kind[a] # "function" => \A r \in Refs(a) : kind[r] # "upval"
        /\ kind[a] = "userdata" => \A r \in Refs(a) : kind[r] \in Table
    BY <2>1, <2>3 DEF RefsGood, OfKind
  <2>5. /\ Refs(a)' \subseteq Alive'
        /\ kind'[a] = "function" => Refs(a)' \subseteq OfKind({"upval"})'
        /\ kind'[a] # "function" => Refs(a)' \cap OfKind({"upval"})' = {}
        /\ kind'[a] = "userdata" => Refs(a)' \subseteq OfKind(Table)'
    BY <2>1, <2>2, <2>3, <2>4, AlivePrimed
  <2> QED
    BY <2>5 DEF RefsGood, OfKind, Alive, Live, isdead, Table, Weak
<1>3. \A a \in Alive' : RefsGood(a)'
  BY <1>2
<1> QED
  BY <1>3 DEF AliveInv

\* A step that changes no reference keeps what is not dead.
LEMMA SameHeapAlive ==
    ASSUME GCInv, gcstate # "closed", UNCHANGED <<kind, key, val, open>>, Alive' = Alive,
           held' \subseteq Alive, held' \cap OfKind({"upval"}) = {}, Waiting' \subseteq Alive
    PROVE  AliveInv' /\ Alive \subseteq Alive'
<1>1. \A r \in Alive : r \in Alive' /\ kind'[r] = kind[r]
  OBVIOUS
<1>2. \A a \in Alive' : a \notin {} =>
         /\ a \in Alive /\ key'[a] = key[a] /\ val'[a] = val[a] /\ open'[a] = open[a]
         /\ open[a] # Nil => val'[open[a]] = val[open[a]]
  OBVIOUS
<1>3. held' \cap OfKind({"upval"})' = {}
  BY AlivePrimed DEF OfKind
<1> QED
  BY <1>1, <1>2, <1>3, AliveMoves

\* A barrier leaves dead what is dead, and makes nothing else dead.
LEMMA BarriersAlive ==
    ASSUME GCInv, NEW o \in Alive, UNCHANGED <<kind, currentwhite>>
    PROVE  /\ \A v \in Addr : BarrierForward(o, v) => Alive' = Alive
           /\ \A vs : BarrierBack(o, vs) => Alive' = Alive
<1>0. /\ o \in Addr /\ color[o] # otherwhite /\ otherwhite' = otherwhite
      /\ color \in [Node -> Color] /\ Addr \subseteq Node
      /\ otherwhite # "gray" /\ otherwhite # "black" /\ otherwhite # currentwhite
  BY MarksTyped, AlivePrimed DEF GCInv, otherwhite, Node
<1>1. ASSUME NEW c, c # otherwhite, color' = [color EXCEPT ![o] = c] PROVE Alive' = Alive
  <2>1. \A a \in Addr : color'[a] = IF a = o THEN c ELSE color[a]
    BY <1>0, <1>1
  <2>2. \A a : a \in Alive' <=> a \in Alive
    BY <1>0, <1>1, <2>1, AlivePrimed
  <2> QED
    BY <2>2
<1>2. ASSUME UNCHANGED color PROVE Alive' = Alive
  <2>1. \A a : a \in Alive' <=> a \in Alive
    BY <1>0, <1>2, AlivePrimed
  <2> QED
    BY <2>1
<1>3. ASSUME NEW v \in Addr, BarrierForward(o, v) PROVE Alive' = Alive
  <2>1. CASE color[o] = "black" /\ White(v) /\ gcstate = "propagate"
    <3> DEFINE q == MarkObjects(Marks, {v})
    <3>1. color' = q.color /\ Marks.color = color /\ Marks \in MarkState
      BY <1>3, <2>1 DEF BarrierForward, SetMarks, Marks, GCInv, MarkTypes
    <3>2. {v} \in SUBSET Node
      BY DEF Node
    <3>3. \A x \in Node : q.color[x] = Marks.color[x] \/ q.color[x] \in {"black", "gray"}
      BY <3>1, <3>2, MarkObjectsIs
    <3>4. Live = Alive
      BY <2>1, NoneDead
    <3> HIDE DEF q
    <3>5. \A a \in Addr : kind[a] # "free" => a \in Alive
      BY <3>4 DEF Live
    <3>6. \A a : a \in Alive' <=> a \in Alive
      BY <1>0, <3>1, <3>3, <3>5, AlivePrimed
    <3> QED
      BY <3>6
  <2>2. CASE color[o] = "black" /\ White(v) /\ gcstate # "propagate"
    BY <1>0, <1>1, <1>3, <2>2 DEF BarrierForward
  <2>3. CASE ~ (color[o] = "black" /\ White(v))
    BY <1>2, <1>3, <2>3 DEF BarrierForward
  <2> QED
    BY <2>1, <2>2, <2>3
<1>4. ASSUME NEW vs, BarrierBack(o, vs) PROVE Alive' = Alive
  BY <1>0, <1>1, <1>2, <1>4 DEF BarrierBack
<1> QED
  BY <1>3, <1>4

\* A new object refers to nothing.
LEMMA MadeAlive ==
    ASSUME GCInv, NEW a \in Addr, NEW k \in Kind \ {"upval"}, Made(a, k)
    PROVE  AliveInv' /\ Alive \subseteq Alive'
<1> DEFINE X == {a}
<1>1. /\ kind' = [kind EXCEPT ![a] = k] /\ color' = [color EXCEPT ![a] = currentwhite]
      /\ kind[a] = "free" /\ gcstate # "closed" /\ held' = held \cup {a}
      /\ UNCHANGED <<key, val, open, currentwhite, tmudata>> /\ k # "free"
  BY DEF Made, Running, Hold, Kind, UNCHANGED_GC
<1>2. /\ TypeInv /\ color \in [Node -> Color] /\ Addr \subseteq Node
      /\ otherwhite' = otherwhite /\ otherwhite # currentwhite
  BY <1>1, MarksTyped DEF GCInv, otherwhite, Node
<1>3. \A r \in Addr : /\ kind'[r] = IF r = a THEN k ELSE kind[r]
                      /\ color'[r] = IF r = a THEN currentwhite ELSE color[r]
  BY <1>1, <1>2 DEF TypeInv
<1>4. key[a] = Num /\ val[a] = Nil /\ open[a] = Nil
  BY <1>1 DEF GCInv, ShapeInv
<1>5. Nil \notin Addr /\ Num \notin Addr
  BY GCAssumption
<1>6. \A r : r \in Alive' <=> r \in Alive \/ r = a
  BY <1>1, <1>2, <1>3, AlivePrimed
<1>7. a \notin Alive
  BY <1>1, AlivePrimed
<1>8. \A r \in Alive : r \in Alive' /\ kind'[r] = kind[r]
  BY <1>3, <1>6, <1>7, AlivePrimed
<1>9. \A b \in Alive' : b \notin X =>
         /\ b \in Alive /\ key'[b] = key[b] /\ val'[b] = val[b] /\ open'[b] = open[b]
         /\ open[b] # Nil => val'[open[b]] = val[open[b]]
  BY <1>1, <1>6
<1>10. \A b \in X : b \in Alive' => RefsGood(b)'
  <2>1. Refs(a)' = {}
    <3>1. \A r : r \notin Refs(a)'
      BY <1>1, <1>4, <1>5, RefsPrimed
    <3> QED
      BY <3>1
  <2> QED
    BY <2>1 DEF RefsGood
<1>11. held \subseteq Alive /\ Waiting \subseteq Alive /\ held \cap OfKind({"upval"}) = {}
  BY <1>1 DEF GCInv, AliveInv
<1>12. held' \subseteq Alive' /\ Waiting' \subseteq Alive'
  BY <1>1, <1>6, <1>11 DEF Waiting
<1>13. held' \cap OfKind({"upval"})' = {}
  BY <1>1, <1>3, <1>11, AlivePrimed DEF OfKind
<1> HIDE DEF X
<1> QED
  BY <1>1, <1>8, <1>9, <1>10, <1>12, <1>13, AliveMoves

\* A string is alive once it is found.
LEMMA InternAlive ==
    ASSUME GCInv, NEW s \in Addr, Intern(s)
    PROVE  AliveInv' /\ Alive \subseteq Alive'
<1> DEFINE X == {s}
<1>1. /\ kind[s] = "string" /\ gcstate # "closed" /\ held' = held \cup {s}
      /\ color' = IF isdead(s) THEN [color EXCEPT ![s] = currentwhite] ELSE color
      /\ UNCHANGED <<kind, key, val, open, currentwhite, tmudata>>
  BY DEF Intern, Running, Hold, UNCHANGED_GC
<1>2. /\ color \in [Node -> Color] /\ Addr \subseteq Node
      /\ otherwhite' = otherwhite /\ otherwhite # currentwhite
  BY <1>1, MarksTyped DEF GCInv, TypeInv, otherwhite, Node
<1>3. \A r \in Addr : color'[r] = color[r] \/ (r = s /\ color'[r] = currentwhite)
  BY <1>1, <1>2
<1>4. color'[s] # otherwhite
  BY <1>1, <1>2 DEF isdead
<1>5. \A r : r \in Alive' <=> r \in Alive \/ r = s
  BY <1>1, <1>2, <1>3, <1>4, AlivePrimed
<1>6. \A r \in Alive : r \in Alive' /\ kind'[r] = kind[r]
  BY <1>1, <1>5
<1>7. \A b \in Alive' : b \notin X =>
         /\ b \in Alive /\ key'[b] = key[b] /\ val'[b] = val[b] /\ open'[b] = open[b]
         /\ open[b] # Nil => val'[open[b]] = val[open[b]]
  BY <1>1, <1>5
<1>8. \A b \in X : b \in Alive' => RefsGood(b)'
  <2>1. Refs(s)' = {}
    <3>1. \A r : r \notin Refs(s)'
      BY <1>1, RefsPrimed DEF Table, Weak
    <3> QED
      BY <3>1
  <2> QED
    BY <2>1 DEF RefsGood
<1>9. held \subseteq Alive /\ Waiting \subseteq Alive /\ held \cap OfKind({"upval"}) = {}
  BY <1>1 DEF GCInv, AliveInv
<1>10. held' \subseteq Alive' /\ Waiting' \subseteq Alive'
  BY <1>1, <1>5, <1>9 DEF Waiting
<1>11. held' \cap OfKind({"upval"})' = {}
  BY <1>1, <1>9, AlivePrimed DEF OfKind
<1> HIDE DEF X
<1> QED
  BY <1>1, <1>6, <1>7, <1>8, <1>10, <1>11, AliveMoves

\* The lists of an upvalue's coroutine and of a table differ: what is open is in a thread.
LEMMA OpenInThread ==
    ASSUME GCInv, NEW a \in Addr, open[a] # Nil
    PROVE  kind[a] = "upval" /\ kind[open[a]] = "thread" /\ open[a] \in Addr
BY DEF GCInv, ShapeInv, TypeInv

\* What the program holds.
LEMMA HeldIs ==
    ASSUME GCInv, Running
    PROVE  /\ gcstate # "closed" /\ held \subseteq Alive /\ Waiting \subseteq Alive
           /\ \A a \in held : kind[a] # "upval" /\ a \in Addr /\ kind[a] # "free"
           /\ held \cap OfKind({"upval"}) = {}
BY AlivePrimed DEF GCInv, AliveInv, Running, OfKind

\* A step that leaves alone all but the references of objects of X, which then refer to
\* what the program holds.
LEMMA HeldStored ==
    ASSUME GCInv, Running, UNCHANGED <<kind, open, held, tmudata>>, Alive' = Alive, NEW X,
           \A a \in Addr : a \notin X => key'[a] = key[a] /\ val'[a] = val[a],
           \A a \in Addr : open[a] \in X => a \in X,
           \A a \in X : a \in Alive => /\ kind[a] # "function"
                                       /\ Refs(a)' \subseteq held
                                       /\ kind[a] = "userdata" => Refs(a)' \subseteq OfKind(Table)
    PROVE  AliveInv' /\ Alive \subseteq Alive'
<1>0. Nil \notin Addr
  BY GCAssumption
<1>1. \A r \in Alive : r \in Alive' /\ kind'[r] = kind[r]
  OBVIOUS
<1>2. ASSUME NEW a \in Alive', a \notin X
      PROVE  /\ a \in Alive /\ key'[a] = key[a] /\ val'[a] = val[a] /\ open'[a] = open[a]
             /\ open[a] # Nil => val'[open[a]] = val[open[a]]
  <2>1. a \in Addr /\ a \in Alive
    BY <1>2, AlivePrimed
  <2>2. open[a] # Nil => open[a] \in Addr /\ open[a] \notin X
    BY <1>2, <2>1, OpenInThread
  <2> QED
    BY <1>2, <2>1, <2>2
<1>3. ASSUME NEW a \in X, a \in Alive' PROVE RefsGood(a)'
  <2>1. a \in Alive /\ Refs(a)' \subseteq held /\ kind[a] # "function"
        /\ (kind[a] = "userdata" => Refs(a)' \subseteq OfKind(Table))
    BY <1>3
  <2>2. Refs(a)' \subseteq Alive'
    BY <2>1, HeldIs
  <2>3. /\ kind'[a] # "function" /\ Refs(a)' \cap OfKind({"upval"})' = {}
        /\ kind'[a] = "userdata" => Refs(a)' \subseteq OfKind(Table)'
    BY <2>1, HeldIs, AlivePrimed DEF OfKind
  <2> QED
    BY <2>2, <2>3 DEF RefsGood, OfKind, Alive, Live, isdead, Table, Weak
<1>4. held' \subseteq Alive' /\ Waiting' \subseteq Alive' /\ gcstate # "closed"
  BY HeldIs DEF Waiting
<1>5. held' \cap OfKind({"upval"})' = {}
  BY HeldIs, AlivePrimed DEF OfKind
<1> QED
  BY <1>1, <1>2, <1>3, <1>4, <1>5, AliveMoves

\* lua_settable() keeps what is not dead.
LEMMA SetTableAlive ==
    ASSUME GCInv, NEW t \in Addr, NEW k \in Addr \cup {Num}, NEW v \in Addr \cup {Nil, Num},
           SetTable(t, k, v)
    PROVE  AliveInv' /\ Alive \subseteq Alive'
<1> DEFINE X == {t}
<1>1. /\ Running /\ t \in held /\ kind[t] \in Table /\ k \in held \cup {Num}
      /\ v \in held \cup {Nil, Num}
      /\ val' = [val EXCEPT ![t] = v]
      /\ key' = [key EXCEPT ![t] = IF v = Nil THEN Num ELSE k]
      /\ UNCHANGED <<kind, open, held, tmudata, currentwhite>>
      /\ \E vs : BarrierBack(t, vs)
  BY DEF SetTable, UNCHANGED_GC
<1>2. t \in Alive /\ Alive' = Alive
  BY <1>1, HeldIs, BarriersAlive
<1>3. \A a \in Addr : a \notin X => key'[a] = key[a] /\ val'[a] = val[a]
  BY <1>1 DEF GCInv, TypeInv
<1>4. \A a \in Addr : open[a] \in X => a \in X
  BY <1>1, OpenInThread, GCAssumption DEF Table, Weak
<1>5. ASSUME NEW a \in X
      PROVE  /\ kind[a] # "function" /\ Refs(a)' \subseteq held
             /\ kind[a] = "userdata" => Refs(a)' \subseteq OfKind(Table)
  <2>1. a = t /\ val'[t] = v /\ key'[t] = (IF v = Nil THEN Num ELSE k)
    BY <1>1, <1>5 DEF GCInv, TypeInv
  <2>2. \A r : r \in Refs(t)' => r \in Addr /\ r \in {key'[t], val'[t]}
    BY <1>1, RefsPrimed DEF Table, Weak
  <2>3. Nil \notin Addr /\ Num \notin Addr
    BY GCAssumption
  <2>4. \A r : r \in Refs(t)' => r \in held
    BY <1>1, <2>1, <2>2, <2>3
  <2> QED
    BY <1>1, <2>1, <2>4 DEF Table, Weak
<1> HIDE DEF X
<1> QED
  BY <1>1, <1>2, <1>3, <1>4, <1>5, HeldStored

\* Storing into any other object keeps what is not dead.
LEMMA SetFieldAlive ==
    ASSUME GCInv, NEW o \in Addr, NEW v \in Addr, SetField(o, v)
    PROVE  AliveInv' /\ Alive \subseteq Alive'
<1> DEFINE X == {o}
<1>1. /\ Running /\ o \in held /\ v \in held
      /\ \/ kind[o] = "userdata" /\ kind[v] \in Table
         \/ kind[o] = "proto"
      /\ val' = [val EXCEPT ![o] = v] /\ BarrierForward(o, v)
      /\ UNCHANGED <<kind, key, open, held, tmudata, currentwhite>>
  BY DEF SetField, UNCHANGED_GC
<1>2. o \in Alive /\ Alive' = Alive
  BY <1>1, HeldIs, BarriersAlive
<1>3. \A a \in Addr : a \notin X => key'[a] = key[a] /\ val'[a] = val[a]
  BY <1>1 DEF GCInv, TypeInv
<1>4. \A a \in Addr : open[a] \in X => a \in X
  BY <1>1, OpenInThread, GCAssumption
<1>5. ASSUME NEW a \in X
      PROVE  /\ kind[a] # "function" /\ Refs(a)' \subseteq held
             /\ kind[a] = "userdata" => Refs(a)' \subseteq OfKind(Table)
  <2>1. a = o /\ val'[o] = v
    BY <1>1, <1>5 DEF GCInv, TypeInv
  <2>2. \A r : r \in Refs(o)' => r = v
    BY <1>1, <2>1, RefsPrimed DEF Table, Weak
  <2> QED
    BY <1>1, <2>1, <2>2 DEF OfKind
<1> HIDE DEF X
<1> QED
  BY <1>1, <1>2, <1>3, <1>4, <1>5, HeldStored

\* The slot of a coroutine, and the upvalues that are open in it.
LEMMA SlotStored ==
    ASSUME GCInv, Running, NEW c \in Addr, kind[c] = "thread", NEW v, v \in held \cup {Nil},
           val' = [val EXCEPT ![c] = v], UNCHANGED <<kind, key, open, held, tmudata>>,
           Alive' = Alive
    PROVE  AliveInv' /\ Alive \subseteq Alive'
<1> DEFINE X == {c} \cup OpenIn(c)
<1>0. Nil \notin Addr /\ Num \notin Addr
  BY GCAssumption
<1>1. \A a \in Addr : val'[a] = IF a = c THEN v ELSE val[a]
  BY DEF GCInv, TypeInv
<1>2. \A a \in Addr : a \notin X => key'[a] = key[a] /\ val'[a] = val[a]
  BY <1>1
<1>3. \A a \in OpenIn(c) : a \in Addr /\ kind[a] = "upval" /\ open[a] = c
  BY DEF OpenIn, OfKind
<1>4. ASSUME NEW a \in Addr, open[a] \in X PROVE a \in X
  <2>1. open[a] # Nil
    BY <1>0, <1>3, <1>4
  <2>2. kind[a] = "upval" /\ kind[open[a]] = "thread"
    BY <2>1, OpenInThread
  <2>3. open[a] = c
    BY <1>3, <1>4, <2>2
  <2> QED
    BY <2>2, <2>3 DEF OpenIn, OfKind
<1>5. ASSUME NEW a \in X
      PROVE  /\ kind[a] # "function" /\ Refs(a)' \subseteq held
             /\ kind[a] = "userdata" => Refs(a)' \subseteq OfKind(Table)
  <2>1. a \in Addr /\ ((kind[a] = "thread" /\ a = c) \/ (kind[a] = "upval" /\ open[a] = c))
    BY <1>3, <1>5
  <2>2. c # Nil
    BY <1>0
  <2>3. \A r : r \in Refs(a)' => r \in Addr /\ r = v
    BY <1>1, <2>1, <2>2, RefsPrimed DEF Table, Weak
  <2> QED
    BY <1>0, <2>1, <2>3
<1> HIDE DEF X
<1> QED
  BY <1>2, <1>4, <1>5, HeldStored

\* Storing into the stack of a coroutine keeps what is not dead.
LEMMA SetSlotAlive ==
    ASSUME GCInv, NEW c \in Addr, NEW v \in Addr \cup {Nil}, SetSlot(c, v)
    PROVE  AliveInv' /\ Alive \subseteq Alive'
<1>1. /\ Running /\ kind[c] = "thread" /\ v \in held \cup {Nil}
      /\ val' = [val EXCEPT ![c] = v]
      /\ UNCHANGED <<kind, key, open, held, tmudata, color, currentwhite>>
  BY DEF SetSlot, UNCHANGED_GC
<1>2. Alive' = Alive
  <2>1. \A a : a \in Alive' <=> a \in Alive
    BY <1>1, AlivePrimed DEF otherwhite
  <2> QED
    BY <2>1
<1> QED
  BY <1>1, <1>2, SlotStored

\* OP_SETUPVAL keeps what is not dead.
LEMMA SetUpvalAlive ==
    ASSUME GCInv, NEW f \in Addr, NEW v \in Addr, SetUpval(f, v)
    PROVE  AliveInv' /\ Alive \subseteq Alive'
<1>1. PICK u \in Addr :
      /\ Running /\ f \in held /\ kind[f] = "function" /\ v \in held /\ u = val[f]
      /\ val' = [val EXCEPT ![IF open[u] = Nil THEN u ELSE open[u]] = v]
      /\ BarrierForward(u, v)
      /\ UNCHANGED <<kind, key, open, held, tmudata, currentwhite>>
  BY DEF SetUpval, UNCHANGED_GC
<1>2. kind[u] = "upval" /\ u \in Alive
  BY <1>1, Captured
<1>3. Alive' = Alive
  BY <1>1, <1>2, BarriersAlive
<1>4. CASE open[u] # Nil
  <2>1. kind[open[u]] = "thread" /\ open[u] \in Addr /\ val' = [val EXCEPT ![open[u]] = v]
    BY <1>1, <1>4, OpenInThread
  <2> QED
    BY <1>1, <1>3, <2>1, SlotStored
<1>5. CASE open[u] = Nil
  <2> DEFINE X == {u}
  <2>1. \A a \in Addr : val'[a] = IF a = u THEN v ELSE val[a]
    BY <1>1, <1>5 DEF GCInv, TypeInv
  <2>2. \A a \in Addr : a \notin X => key'[a] = key[a] /\ val'[a] = val[a]
    BY <1>1, <2>1
  <2>3. \A a \in Addr : open[a] \in X => a \in X
    BY <1>1, <1>2, OpenInThread, GCAssumption
  <2>4. ASSUME NEW a \in X
        PROVE  /\ kind[a] # "function" /\ Refs(a)' \subseteq held
               /\ kind[a] = "userdata" => Refs(a)' \subseteq OfKind(Table)
    <3>1. a = u /\ open'[u] = Nil /\ val'[u] = v
      BY <1>1, <1>5, <2>1, <2>4
    <3>2. \A r : r \in Refs(u)' => r = v
      BY <1>1, <1>2, <3>1, RefsPrimed DEF Table, Weak
    <3> QED
      BY <1>1, <1>2, <3>1, <3>2
  <2> HIDE DEF X
  <2> QED
    BY <1>1, <1>3, <2>2, <2>3, <2>4, HeldStored
<1> QED
  BY <1>4, <1>5

\* A closure refers to its upvalue, which is found or made.
LEMMA ClosureAlive ==
    ASSUME GCInv, NEW f \in Addr, NEW u \in Addr, NEW c \in Addr, Closure(f, u, c)
    PROVE  AliveInv' /\ Alive \subseteq Alive'
<1> DEFINE X == {f, u}
<1>0. Nil \notin Addr /\ Num \notin Addr
  BY GCAssumption
<1>1. /\ Running /\ c \in held /\ kind[c] = "thread" /\ kind[f] = "free" /\ f # u /\ u # c
      /\ kind[u] = "free" \/ (open[u] = c /\ kind[u] = "upval")
      /\ kind' = [kind EXCEPT ![f] = "function", ![u] = "upval"]
      /\ color' = [color EXCEPT ![f] = currentwhite,
                      ![u] = IF kind[u] = "free" \/ isdead(u) THEN currentwhite ELSE @]
      /\ open' = [open EXCEPT ![u] = c] /\ val' = [val EXCEPT ![f] = u]
      /\ held' = held \cup {f}
      /\ UNCHANGED <<key, currentwhite, tmudata>>
  BY DEF Closure, Hold, UNCHANGED_GC
<1>2. /\ TypeInv /\ color \in [Node -> Color] /\ Addr \subseteq Node
      /\ otherwhite' = otherwhite /\ otherwhite # currentwhite
  BY <1>1, MarksTyped DEF GCInv, otherwhite, Node
<1>3. f # c
  BY <1>1
<1>4. /\ \A a \in Addr : kind'[a] = IF a = f THEN "function" ELSE IF a = u THEN "upval" ELSE kind[a]
      /\ \A a \in Addr : open'[a] = IF a = u THEN c ELSE open[a]
      /\ \A a \in Addr : val'[a] = IF a = f THEN u ELSE val[a]
      /\ \A a \in Addr : a # f /\ a # u => color'[a] = color[a]
      /\ color'[f] = currentwhite
      /\ color'[u] = IF kind[u] = "free" \/ color[u] = otherwhite THEN currentwhite ELSE color[u]
  BY <1>1, <1>2 DEF TypeInv, isdead
<1> HIDE <1>1
<1>5. /\ Running /\ c \in held /\ kind[c] = "thread" /\ kind[f] = "free"
      /\ held' = held \cup {f} /\ UNCHANGED <<key, currentwhite, tmudata>>
      /\ kind[u] = "free" \/ (open[u] = c /\ kind[u] = "upval")
      /\ f # u
  BY <1>1
<1>6. \A a : a \in Alive' <=> a \in Alive \/ a \in X
  BY <1>2, <1>4, <1>5, AlivePrimed
<1>7. \A r \in Alive : r \in Alive' /\ kind'[r] = kind[r]
  BY <1>4, <1>5, <1>6, AlivePrimed
<1>8. ASSUME NEW a \in Alive', a \notin X
      PROVE  /\ a \in Alive /\ key'[a] = key[a] /\ val'[a] = val[a] /\ open'[a] = open[a]
             /\ open[a] # Nil => val'[open[a]] = val[open[a]]
  <2>1. a \in Addr /\ a \in Alive /\ a # f /\ a # u
    BY <1>6, <1>8, AlivePrimed
  <2>2. open[a] # Nil => open[a] \in Addr /\ open[a] # f
    BY <1>5, <2>1, OpenInThread
  <2> QED
    BY <1>4, <1>5, <2>1, <2>2
<1>9. /\ held \subseteq Alive /\ Waiting \subseteq Alive /\ held \cap OfKind({"upval"}) = {}
      /\ gcstate # "closed"
  BY <1>5, HeldIs
<1>10. RefsGood(f)'
  <2>1. \A r : r \in Refs(f)' => r = u
    BY <1>4, <1>5, RefsPrimed DEF Table, Weak
  <2>2. u \in Alive' /\ u \in OfKind({"upval"})' /\ kind'[f] = "function"
    BY <1>4, <1>5, <1>6, AlivePrimed
  <2>3. /\ Refs(f)' \subseteq Alive'
        /\ kind'[f] = "function" => Refs(f)' \subseteq OfKind({"upval"})'
    BY <2>1, <2>2
  <2> QED
    BY <2>2, <2>3 DEF RefsGood
<1>11. RefsGood(u)'
  <2>1. \A r : r \in Refs(u)' => r \in Refs(c)
    <3>1. \A r : r \in Refs(u)' => r \in Addr /\ r = val[c]
      BY <1>0, <1>3, <1>4, <1>5, RefsPrimed DEF Table, Weak
    <3> QED
      BY <1>5, <3>1, RefsAre DEF Table, Weak
  <2>2. c \in Alive
    BY <1>5, <1>9
  <2>3. Refs(c) \subseteq Alive /\ Refs(c) \cap OfKind({"upval"}) = {}
    BY <1>5, <1>9, <2>2 DEF GCInv, AliveInv, RefsGood
  <2>4. \A r : r \in Refs(u)' => r \in Alive /\ r \in Addr /\ kind[r] # "upval"
    BY <2>1, <2>3 DEF OfKind, Alive, Live
  <2>5. Refs(u)' \subseteq Alive' /\ Refs(u)' \cap OfKind({"upval"})' = {}
    BY <1>7, <2>4, AlivePrimed
  <2>6. kind'[u] = "upval"
    BY <1>4, <1>5
  <2> QED
    BY <2>5, <2>6 DEF RefsGood
<1>12. held' \subseteq Alive' /\ Waiting' \subseteq Alive'
  BY <1>5, <1>6, <1>9 DEF Waiting
<1>13. held' \cap OfKind({"upval"})' = {}
  <2>1. \A a \in held : a \in Alive /\ kind[a] # "upval"
    BY <1>5, HeldIs
  <2>2. \A a \in held : kind'[a] # "upval"
    BY <1>7, <2>1
  <2>3. kind'[f] # "upval"
    BY <1>4
  <2> QED
    BY <1>5, <2>2, <2>3, AlivePrimed
<1>14. \A a \in X : a \in Alive' => RefsGood(a)'
  BY <1>10, <1>11
<1> HIDE DEF X
<1> QED
  BY <1>7, <1>8, <1>9, <1>12, <1>13, <1>14, AliveMoves

\* What a step frees is dead, and what it closes keeps its value.
LEMMA EndedAlive ==
    ASSUME GCInv, gcstate # "closed", NEW freed, NEW closed, NEW popped,
           Ended(freed, closed, popped), UNCHANGED tmudata, Alive' = Alive,
           \A a \in freed : a \notin Alive,
           \A u \in closed : u \in Addr /\ kind[u] = "upval" /\ u \notin popped,
           \A c \in popped : c \in Addr /\ kind[c] = "thread",
           \A u \in Addr : open[u] \in freed \cup popped => u \in freed \cup closed
    PROVE  AliveInv' /\ Alive \subseteq Alive'
<1> DEFINE X == closed \cup popped
<1>0. Nil \notin Addr /\ Num \notin Addr
  BY GCAssumption
<1>1. /\ \A a \in Addr : kind'[a] = IF a \in freed THEN "free" ELSE kind[a]
      /\ \A a \in Addr : key'[a] = IF a \in freed THEN Num ELSE key[a]
      /\ \A a \in Addr : val'[a] = IF a \in freed \cup popped THEN Nil
                                   ELSE IF a \in closed THEN UpvalValue(a) ELSE val[a]
      /\ \A a \in Addr : open'[a] = IF a \in freed \cup closed THEN Nil ELSE open[a]
      /\ UNCHANGED held
  BY DEF Ended
<1>2. \A r \in Alive : r \in Addr /\ r \in Alive' /\ kind'[r] = kind[r]
  BY <1>1, AlivePrimed
<1>3. ASSUME NEW a \in Alive', a \notin X
      PROVE  /\ a \in Alive /\ key'[a] = key[a] /\ val'[a] = val[a] /\ open'[a] = open[a]
             /\ open[a] # Nil => val'[open[a]] = val[open[a]]
  <2>1. a \in Addr /\ a \in Alive /\ a \notin freed /\ a \notin closed /\ a \notin popped
    BY <1>3, AlivePrimed
  <2>2. ASSUME open[a] # Nil PROVE val'[open[a]] = val[open[a]]
    <3>1. open[a] \in Addr /\ kind[open[a]] = "thread"
      BY <2>1, <2>2, OpenInThread
    <3>2. open[a] \notin freed \cup popped /\ open[a] \notin closed
      BY <2>1, <3>1
    <3> QED
      BY <1>1, <3>1, <3>2
  <2> QED
    BY <1>1, <2>1, <2>2
<1>4. ASSUME NEW a \in X, a \in Alive' PROVE RefsGood(a)'
  <2>1. a \in Addr /\ a \in Alive /\ a \notin freed /\ kind'[a] = kind[a]
        /\ kind[a] \in {"upval", "thread"}
    BY <1>2, <1>4, AlivePrimed
  <2>2. \A r : r \in Refs(a)' => r \in Refs(a)
    <3>1. CASE a \in popped
      <4>1. val'[a] = Nil /\ kind'[a] = "thread"
        BY <1>1, <2>1, <3>1
      <4> QED
        BY <1>0, <2>1, <4>1, RefsPrimed DEF Table, Weak
    <3>2. CASE a \notin popped
      <4>1. a \in closed /\ kind'[a] = "upval" /\ open'[a] = Nil /\ val'[a] = UpvalValue(a)
        BY <1>1, <1>4, <2>1, <3>2
      <4> QED
        BY <2>1, <4>1, RefsPrimed, RefsAre DEF Table, Weak
    <3> QED
      BY <3>1, <3>2
  <2>3. Refs(a) \subseteq Alive /\ Refs(a) \cap OfKind({"upval"}) = {}
    BY <2>1 DEF GCInv, AliveInv, RefsGood
  <2>4. \A r : r \in Refs(a)' => r \in Alive' /\ kind'[r] # "upval"
    BY <1>2, <2>2, <2>3 DEF OfKind
  <2>5. Refs(a)' \subseteq Alive' /\ Refs(a)' \cap OfKind({"upval"})' = {}
        /\ kind'[a] # "function" /\ kind'[a] # "userdata"
    BY <2>1, <2>4, AlivePrimed
  <2> QED
    BY <2>5 DEF RefsGood
<1>5. held \subseteq Alive /\ Waiting \subseteq Alive /\ held \cap OfKind({"upval"}) = {}
  BY DEF GCInv, AliveInv
<1>6. held' \subseteq Alive' /\ Waiting' \subseteq Alive'
  BY <1>1, <1>5 DEF Waiting
<1>7. held' \cap OfKind({"upval"})' = {}
  <2>1. \A a \in held : a \in Addr /\ kind'[a] # "upval"
    BY <1>2, <1>5 DEF OfKind
  <2> QED
    BY <1>1, <2>1, AlivePrimed
<1> HIDE DEF X
<1> QED
  BY <1>2, <1>3, <1>4, <1>6, <1>7, AliveMoves

\* luaF_close() keeps what is not dead.
LEMMA CloseUpvalsAlive ==
    ASSUME GCInv, NEW c \in Addr, CloseUpvals(c)
    PROVE  AliveInv' /\ Alive' = Alive
<1> DEFINE S == {val[c]} \cap Addr
           freed == OpenIn(c) \ StillAlive(c)
<1>1. /\ Ended(freed, StillAlive(c), {c}) /\ kind[c] = "thread" /\ gcstate # "closed"
      /\ \A u \in OpenIn(c) : u \in Addr /\ kind[u] = "upval" /\ open[u] = c
      /\ UNCHANGED <<currentwhite, tmudata>> /\ Linked(c) \in MarkState
  BY CloseUpvalsIs
<1>2. /\ color' = Linked(c).color \/ (gcstate = "propagate"
                                      /\ color' = MarkObjects(Linked(c), S).color)
  BY CloseUpvalsIs DEF SetMarks
<1>3. /\ TypeInv /\ color \in [Node -> Color] /\ Addr \subseteq Node
      /\ otherwhite' = otherwhite /\ otherwhite # currentwhite
      /\ otherwhite # "gray" /\ otherwhite # "black"
  BY <1>1, MarksTyped DEF GCInv, otherwhite, Node
<1>4. \A u : u \in StillAlive(c) <=> u \in OpenIn(c) /\ color[u] # otherwhite
  BY DEF StillAlive, isdead
<1>5. \A a \in Addr : Linked(c).color[a] = color[a]
                      \/ (a \in StillAlive(c) /\ Linked(c).color[a] \in {"black", currentwhite})
  BY <1>3 DEF Linked, LinkedColor, Visited
<1>6. \A a \in Addr : MarkObjects(Linked(c), S).color[a] \in {Linked(c).color[a], "black", "gray"}
  <2>1. S \in SUBSET Node
    BY <1>3
  <2>2. \A a \in Node : MarkObjects(Linked(c), S).color[a] =
             IF a \notin New(Linked(c), S) THEN Linked(c).color[a]
             ELSE IF AtOnce(a) THEN "black" ELSE "gray"
    BY <1>1, <2>1, MarkObjectsIs
  <2> HIDE DEF S
  <2> QED
    BY <1>3, <2>2
<1>7. gcstate = "propagate" => \A a \in Addr : kind[a] # "free" => a \in Alive
  BY NoneDead DEF Live
<1>8. \A a \in Addr : kind'[a] = IF a \in freed THEN "free" ELSE kind[a]
  BY <1>1 DEF Ended
<1> HIDE DEF S, freed
<1>9. \A a \in Addr : a \in freed <=> a \in OpenIn(c) /\ color[a] = otherwhite
  BY <1>4 DEF freed
<1>10. ASSUME NEW a \in Addr PROVE a \in Alive' <=> a \in Alive
  <2>1. CASE a \in freed
    <3>1. a \notin Alive /\ a \notin Alive'
      BY <1>8, <1>9, <2>1, AlivePrimed
    <3> QED
      BY <3>1
  <2>2. CASE a \notin freed /\ color[a] = otherwhite
    <3>1. a \notin StillAlive(c)
      BY <1>4, <2>2
    <3>2. Linked(c).color[a] = color[a]
      BY <1>5, <3>1
    <3> QED
      BY <1>2, <1>3, <1>7, <1>8, <2>2, <3>2, AlivePrimed
  <2>3. CASE color[a] # otherwhite
    <3>1. color'[a] # otherwhite
      BY <1>2, <1>3, <1>5, <1>6, <2>3
    <3>2. a \notin freed
      BY <1>9, <2>3
    <3> QED
      BY <1>3, <1>8, <2>3, <3>1, <3>2, AlivePrimed
  <2> QED
    BY <2>1, <2>2, <2>3
<1>11. Alive' = Alive
  <2>1. \A a : a \in Alive' <=> a \in Alive
    BY <1>10, AlivePrimed
  <2> QED
    BY <2>1
<1>12. \A a \in freed : a \notin Alive
  BY <1>1, <1>9, AlivePrimed DEF freed
<1>13. \A u \in StillAlive(c) : u \in Addr /\ kind[u] = "upval" /\ u \notin {c}
  BY <1>1, <1>4
<1>14. ASSUME NEW u \in Addr, open[u] \in freed \cup {c} PROVE u \in freed \cup StillAlive(c)
  <2>1. open[u] \in Addr
    BY <1>1, <1>14 DEF freed
  <2>2. kind[u] = "upval" /\ kind[open[u]] = "thread"
    BY <2>1, OpenInThread, GCAssumption
  <2>3. open[u] = c
    BY <1>1, <1>14, <2>2 DEF freed
  <2> QED
    BY <2>2, <2>3 DEF freed, OpenIn, OfKind
<1>15. \A d \in {c} : d \in Addr /\ kind[d] = "thread"
  BY <1>1
<1> QED
  BY <1>1, <1>11, <1>12, <1>13, <1>14, <1>15, EndedAlive

\* The sweep frees only what is dead, and no references to it are left.
LEMMA SweepAlive ==
    ASSUME GCInv, sweep
    PROVE  AliveInv' /\ Alive \subseteq Alive'
<1>1. /\ gcstate \in {"sweepstring", "sweep"} /\ gcstate # "closed"
      /\ UNCHANGED <<currentwhite, tmudata>>
  BY DEF sweep
<1>2. /\ TypeInv /\ color \in [Node -> Color] /\ Addr \subseteq Node
      /\ otherwhite' = otherwhite /\ otherwhite # currentwhite
  BY <1>1, MarksTyped DEF GCInv, otherwhite, Node
<1>3. held \subseteq Alive /\ Waiting \subseteq Alive /\ held \cap OfKind({"upval"}) = {}
  BY <1>1 DEF GCInv, AliveInv
<1>4. CASE UNCHANGED <<heap, color, tosweep, called, garbage>>
  <2>1. UNCHANGED <<kind, key, val, open, held, color>>
    BY <1>4 DEF heap
  <2>2. Alive' = Alive
    <3>1. \A a : a \in Alive' <=> a \in Alive
      BY <1>2, <2>1, AlivePrimed
    <3> QED
      BY <3>1
  <2>3. Waiting' = Waiting
    BY <1>1 DEF Waiting
  <2> QED
    BY <1>1, <1>3, <2>1, <2>2, <2>3, SameHeapAlive
<1>5. ASSUME NEW o \in Pending, SweepObject(o) PROVE AliveInv' /\ Alive \subseteq Alive'
  <2>1. /\ Ended(Freed(o), Orphans(o), {})
        /\ color' = [x \in Node |-> IF x \in Kept(o) THEN currentwhite
                                    ELSE IF x \in Freed(o) THEN "white0" ELSE color[x]]
        /\ Orphans(o) \subseteq Kept(o)
        /\ \A x \in Freed(o) : isdead(x) /\ kind[x] # "free"
        /\ \A x \in Kept(o) \ {Main} : kind[x] # "free" /\ ~isdead(x)
        /\ \A u \in SweptUpvals(o) : u \in Addr /\ kind[u] = "upval" /\ open[u] = o
        /\ \A u \in Addr : open[u] = o => u \in SweptUpvals(o)
        /\ Freed(o) \cup Kept(o) = {o} \cup SweptUpvals(o)
        /\ Freed(o) \subseteq Addr
    BY <1>1, <1>5, SweepObjectIs DEF Pending
  <2>2. \A a \in Addr : kind'[a] = IF a \in Freed(o) THEN "free" ELSE kind[a]
    BY <2>1 DEF Ended
  <2>3. Alive' = Alive
    <3>1. ASSUME NEW a \in Addr PROVE a \in Alive' <=> a \in Alive
      <4>0. a # Main
        BY GCAssumption
      <4>1. CASE a \in Freed(o)
        BY <2>1, <2>2, <4>1, AlivePrimed DEF isdead
      <4>2. CASE a \notin Freed(o)
        BY <1>2, <2>1, <2>2, <4>0, <4>2, AlivePrimed DEF isdead
      <4> QED
        BY <4>1, <4>2
    <3>2. \A a : a \in Alive' <=> a \in Alive
      BY <3>1, AlivePrimed
    <3> QED
      BY <3>2
  <2>4. \A a \in Freed(o) : a \notin Alive
    BY <2>1, AlivePrimed DEF isdead
  <2>5. \A u \in Orphans(o) : u \in Addr /\ kind[u] = "upval" /\ u \notin {}
    BY <2>1 DEF Orphans
  <2>6. ASSUME NEW u \in Addr, open[u] \in Freed(o) \cup {} PROVE u \in Freed(o) \cup Orphans(o)
    <3>1. open[u] \in Addr
      BY <2>1, <2>6
    <3>2. kind[open[u]] = "thread"
      BY <3>1, OpenInThread, GCAssumption
    <3>3. open[u] = o
      BY <2>1, <2>6, <3>2
    <3> QED
      BY <2>1, <2>6, <3>3 DEF Orphans
  <2>7. \A c \in {} : c \in Addr /\ kind[c] = "thread"
    OBVIOUS
  <2> QED
    BY <1>1, <2>1, <2>3, <2>4, <2>5, <2>6, <2>7, EndedAlive
<1> QED
  BY <1>4, <1>5 DEF sweep

\* What is not dead after the atomic step was marked, or is a string that a weak table
\* keeps.
LEMMA AtomicAlive ==
    ASSUME GCInv, atomic
    PROVE  /\ AliveInv'
           /\ \A a : a \in Alive' <=> a \in Live /\ (a \in Marked(MarkedNow) \/ a \in KeptNow)
<1> DEFINE M == Marked(MarkedNow)
<1>0. Nil \notin Addr /\ Num \notin Addr /\ Main \notin Addr
  BY GCAssumption
<1>1. /\ tmudata' = QueueNow /\ color' = FinalColor /\ currentwhite' = otherwhite
      /\ val' = [a \in Addr |-> IF a \in GoneNow THEN Nil ELSE val[a]]
      /\ key' = [a \in Addr |-> IF a \in GoneNow THEN Num ELSE key[a]]
      /\ UNCHANGED <<kind, open, held>>
  BY AtomicIs
<1>2. /\ gcstate = "propagate" /\ TypeInv /\ ShapeInv
  BY DEF atomic, GCInv
<1>3. Live = Alive /\ \A a : a \in Live <=> a \in Addr /\ kind[a] # "free"
  BY <1>2, NoneDead DEF Live
<1>4. /\ \A o \in M \cap Object : Strong(o) \subseteq M
      /\ \A o \in M \cap Object : KindOf(o) \in Weak => o \in MarkedNow.weak
      /\ \A o \in MarkedNow.weak : KindOf(o) \in Weak
      /\ \A o \in Live : MarkedNow.color[o] # otherwhite
      /\ MarkedNow \in MarkState /\ Main \in M /\ InList(QueueNow) \subseteq M
  BY AtomicMarks DEF MarksGood
<1>5. \A a \in Node : a \in M <=> MarkedNow.color[a] \notin {"white0", "white1"}
  BY DEF Marked, IsWhite
<1>6. otherwhite' = currentwhite /\ currentwhite \in {"white0", "white1"}
      /\ \A a \in Live : MarkedNow.color[a] \in {"white0", "white1"} =>
             MarkedNow.color[a] = currentwhite
  BY <1>1, <1>2, <1>4 DEF TypeInv, otherwhite
<1> HIDE DEF M
<1>7. \A a : a \in Alive' <=> a \in Live /\ (a \in M \/ a \in KeptNow)
  <2>1. ASSUME NEW a \in Live
        PROVE  color'[a] # otherwhite' <=> a \in M \/ a \in KeptNow
    <3>1. a \in Node
      BY <1>3, <2>1 DEF Node
    <3>2. color'[a] = IF a \in KeptNow /\ MarkedNow.color[a] \in {"white0", "white1"}
                      THEN "gray" ELSE MarkedNow.color[a]
      BY <1>1, <3>1 DEF FinalColor, IsWhite
    <3> QED
      BY <1>5, <1>6, <3>1, <3>2
  <2> QED
    BY <1>1, <1>3, <2>1, AlivePrimed
<1>8. \A h \in GoneNow : h \in MarkedNow.weak
  BY DEF GoneNow
<1>9. held' \subseteq Alive' /\ Waiting' \subseteq Alive'
  <2>1. Strong(Main) = held /\ Main \in Object
    BY DEF Strong, Object
  <2>2. held \subseteq M /\ held \subseteq Live
    BY <1>2, <1>3, <1>4, <2>1 DEF GCInv, AliveInv
  <2>3. InList(QueueNow) \subseteq OfKind({"userdata"})
    BY AtomicMarks DEF GCInv, UdInv
  <2>4. InList(QueueNow) \subseteq Live
    BY <1>3, <2>3 DEF OfKind
  <2>5. Waiting' = InList(QueueNow)
    BY <1>1 DEF Waiting, InList
  <2> QED
    BY <1>1, <1>4, <1>7, <2>2, <2>4, <2>5
<1>10. held' \cap OfKind({"upval"})' = {}
  BY <1>1, <1>2 DEF GCInv, AliveInv, OfKind
<1>11. ASSUME NEW a \in Alive' PROVE RefsGood(a)'
  <2>1. /\ a \in Live /\ a \in Addr /\ a \in Alive /\ a \in Object /\ a # Main
        /\ a \in M \/ a \in KeptNow
    BY <1>0, <1>3, <1>7, <1>11 DEF Object
  <2>2. RefsGood(a)
    BY <1>2, <2>1 DEF GCInv, AliveInv
  <2>3. KindOf(a) = kind[a]
    BY <2>1 DEF KindOf
  <2>4. \A r : r \in Refs(a)' => r \in Refs(a) /\ a \notin GoneNow
    <3>1. CASE a \in GoneNow
      <4>1. kind[a] \in Weak /\ val'[a] = Nil /\ key'[a] = Num
        BY <1>1, <1>4, <1>8, <2>1, <2>3, <3>1
      <4>2. \A r : r \notin Refs(a)'
        BY <1>0, <1>1, <2>1, <4>1, RefsPrimed DEF Table, Weak
      <4> QED
        BY <4>2
    <3>2. CASE a \notin GoneNow
      <4>1. val'[a] = val[a] /\ key'[a] = key[a]
        BY <1>1, <2>1, <3>2
      <4>2. ASSUME open[a] # Nil PROVE val'[open[a]] = val[open[a]]
        <5>1. open[a] \in Addr /\ kind[open[a]] = "thread"
          BY <2>1, <4>2, OpenInThread
        <5>2. open[a] \notin GoneNow
          BY <1>0, <1>4, <1>8, <5>1 DEF KindOf, Weak
        <5> QED
          BY <1>1, <5>1, <5>2
      <4>3. UpvalValue(a) = IF open'[a] = Nil THEN val'[a] ELSE val'[open'[a]]
        BY <1>1, <4>1, <4>2 DEF UpvalValue
      <4> QED
        BY <1>1, <2>1, <3>2, <4>1, <4>3, RefsPrimed, RefsAre
    <3> QED
      BY <3>1, <3>2
  <2>5. ASSUME NEW r, r \in Refs(a)' PROVE r \in Alive'
    <3>1. r \in Refs(a) /\ a \notin GoneNow /\ r \in Alive /\ r \in Live
      BY <1>3, <2>2, <2>4, <2>5 DEF RefsGood
    <3>2. CASE a \notin M
      <4>1. kind[a] = "string"
        BY <2>1, <3>2 DEF KeptNow, StringsKept, OfKind
      <4>2. r \notin Refs(a)
        BY <2>1, <4>1, RefsAre DEF Table, Weak
      <4> QED
        BY <3>1, <4>2
    <3>3. CASE a \in M /\ kind[a] \notin Weak
      <4>1. Refs(a) = Strong(a)
        BY <2>1, <3>3, StrongInRefs DEF Refs, Strong, Table, Weak
      <4> QED
        BY <1>4, <1>7, <2>1, <3>1, <3>3, <4>1
    <3>4. CASE a \in M /\ kind[a] \in Weak
      <4>1. a \in MarkedNow.weak /\ ~Cleared(MarkedNow.color, FinalizedNow, a)
        BY <1>4, <2>1, <2>3, <3>1, <3>4 DEF GoneNow
      <4>2. r \in Addr /\ r \in {key[a], val[a]} /\ kind[a] \in Table
        BY <2>1, <3>1, <3>4, RefsAre DEF Table, Weak
      <4>3. val[a] # Nil
        BY <1>0, <1>2, <2>1, <4>2 DEF ShapeInv
      <4>4. /\ ~iscleared(MarkedNow.color, FinalizedNow, key[a], TRUE)
            /\ ~iscleared(MarkedNow.color, FinalizedNow, val[a], FALSE)
        BY <4>1, <4>3 DEF Cleared
      <4>5. CASE kind[r] = "string"
        <5>1. r \in KeptNow
          BY <4>1, <4>2, <4>3, <4>4, <4>5 DEF KeptNow, StringsKept, OfKind
        <5> QED
          BY <1>7, <3>1, <5>1
      <4>6. CASE kind[r] # "string"
        <5>1. MarkedNow.color[r] \notin {"white0", "white1"}
          BY <4>2, <4>4, <4>6 DEF iscleared, IsWhite
        <5>2. r \in M
          BY <1>5, <4>2, <5>1 DEF Node
        <5> QED
          BY <1>7, <3>1, <5>2
      <4> QED
        BY <4>5, <4>6
    <3> QED
      BY <3>2, <3>3, <3>4
  <2>6. \A r : r \in Refs(a)' => r \in Refs(a)
    BY <2>4
  <2>7. /\ Refs(a)' \subseteq Alive'
        /\ kind'[a] = "function" => Refs(a)' \subseteq OfKind({"upval"})'
        /\ kind'[a] # "function" => Refs(a)' \cap OfKind({"upval"})' = {}
        /\ kind'[a] = "userdata" => Refs(a)' \subseteq OfKind(Table)'
    BY <1>1, <2>2, <2>5, <2>6 DEF RefsGood, OfKind
  <2> QED
    BY <2>7 DEF RefsGood, OfKind, Alive, Live, isdead, Table, Weak
<1>12. \A a \in Alive' : RefsGood(a)'
  BY <1>11
<1> QED
  BY <1>7, <1>9, <1>10, <1>12 DEF AliveInv, M

\* The collector marks or whitens what is not dead.
LEMMA MarkAlive ==
    ASSUME GCInv, Start \/ FullMark \/ propagatemark
    PROVE  AliveInv' /\ Alive \subseteq Alive'
<1>1. /\ gcstate \in {"pause", "finalize", "propagate"} /\ gcstate # "closed"
      /\ UNCHANGED <<kind, key, val, open, held, tmudata, currentwhite>>
  BY DEF Start, FullMark, propagatemark, markroot, heap
<1>2. Live = Alive /\ otherwhite' = otherwhite /\ otherwhite # "gray" /\ otherwhite # "black"
  BY <1>1, NoneDead DEF otherwhite
<1>3. ASSUME NEW a \in Live PROVE color'[a] # otherwhite
  <2>1. a \in Alive /\ a \in Addr /\ a \in Node /\ color[a] # otherwhite /\ a # Main
    BY <1>2, <1>3, AlivePrimed, GCAssumption DEF Node
  <2>2. CASE Start \/ FullMark
    <3>1. gcstate \in {"pause", "finalize"} /\ markroot
      BY <2>2 DEF Start, FullMark
    <3>2. color' = Begun.color
      BY <3>1 DEF markroot, Begun, Fresh, SetMarks
    <3> QED
      BY <2>1, <3>1, <3>2, MarkrootBegins
  <2>3. CASE propagatemark
    <3>1. PICK o \in gray : SetMarks(Propagate(Marks, {o}))
      BY <2>3 DEF propagatemark
    <3>2. gcstate = "propagate" /\ SoundHeap /\ OpenIsUpval
      BY <2>3, HeapIsSound DEF propagatemark
    <3>3. MarksGood(Propagate(Marks, {o}), Late(Marks), Object \ garbage)
      BY <3>2, PropagateGood DEF GCInv, MarkInv, Marks
    <3> QED
      BY <1>3, <3>1, <3>3 DEF MarksGood, SetMarks
  <2> QED
    BY <2>2, <2>3
<1>4. Alive' = Alive
  <2>1. \A a : a \in Alive' <=> a \in Live
    BY <1>1, <1>2, <1>3, AlivePrimed DEF Live
  <2> QED
    BY <1>2, <2>1
<1>5. held \subseteq Alive /\ Waiting \subseteq Alive /\ held \cap OfKind({"upval"}) = {}
  BY <1>1 DEF GCInv, AliveInv
<1> QED
  BY <1>1, <1>4, <1>5, SameHeapAlive DEF Waiting

\* A finalizer keeps its userdata alive.
LEMMA GCTMAlive ==
    ASSUME GCInv, GCTM, UNCHANGED gcstate, gcstate # "closed"
    PROVE  AliveInv' /\ Alive' = Alive
<1> DEFINE u == Head(tmudata)
<1>1. /\ tmudata # <<>> /\ tmudata' = Tail(tmudata) /\ color' = [color EXCEPT ![u] = currentwhite]
      /\ held' \in {held} \cup {h \in {held \cup {u}} : Cardinality(h) <= MaxHeld}
      /\ UNCHANGED <<kind, key, val, open, currentwhite>>
  BY DEF GCTM
<1>2. /\ u \in Waiting /\ u \in Addr /\ InList(Tail(tmudata)) \subseteq Waiting
  <2>1. tmudata \in Seq(Addr)
    BY DEF GCInv, TypeInv
  <2> QED
    BY <1>1, <2>1, Taken DEF Waiting
<1> HIDE DEF u
<1>3. held \subseteq Alive /\ Waiting \subseteq Alive /\ held \cap OfKind({"upval"}) = {}
  BY DEF GCInv, AliveInv
<1>4. /\ color \in [Node -> Color] /\ Addr \subseteq Node
      /\ otherwhite' = otherwhite /\ otherwhite # currentwhite
  BY <1>1, MarksTyped DEF GCInv, TypeInv, otherwhite, Node
<1>5. Alive' = Alive
  <2>1. \A a \in Addr : color'[a] = IF a = u THEN currentwhite ELSE color[a]
    BY <1>1, <1>2, <1>4
  <2>2. u \in Alive
    BY <1>2, <1>3
  <2>3. \A a : a \in Alive' <=> a \in Alive
    BY <1>1, <1>4, <2>1, <2>2, AlivePrimed
  <2> QED
    BY <2>3
<1>6. u \notin OfKind({"upval"})
  <2>1. u \in OfKind({"userdata"})
    BY <1>2 DEF GCInv, UdInv
  <2> QED
    BY <2>1 DEF OfKind
<1>7. held' \subseteq held \cup {u}
  BY <1>1
<1>8. held' \subseteq Alive /\ held' \cap OfKind({"upval"}) = {}
  BY <1>2, <1>3, <1>6, <1>7
<1>9. Waiting' \subseteq Alive
  BY <1>1, <1>2, <1>3 DEF Waiting
<1> QED
  BY <1>1, <1>5, <1>8, <1>9, SameHeapAlive

\* No step leaves a reference to a dead object in one that is not dead.
LEMMA AliveKept ==
    GCInv /\ [Next]_vars =>
       AliveInv' /\ (Alive \subseteq Alive' \/ atomic \/ gcstate' = "closed")
<1> DEFINE Stays == AliveInv' /\ (Alive \subseteq Alive' \/ atomic \/ gcstate' = "closed")
<1> SUFFICES ASSUME GCInv, [Next]_vars PROVE Stays
  OBVIOUS
<1>1. ASSUME gcstate # "closed", UNCHANGED <<kind, key, val, open, color, currentwhite, tmudata>>,
             held' \subseteq Alive, held' \cap OfKind({"upval"}) = {}
      PROVE  Stays
  <2>1. Alive' = Alive
    <3>1. \A a : a \in Alive' <=> a \in Alive
      BY <1>1, AlivePrimed DEF otherwhite
    <3> QED
      BY <3>1
  <2>2. Waiting' \subseteq Alive
    BY <1>1 DEF Waiting, GCInv, AliveInv
  <2> QED
    BY <1>1, <2>1, <2>2, SameHeapAlive
<1>2. ASSUME NEW a \in Addr, newlstr(a) \/ luaS_newudata(a) \/ luaC_link(a) PROVE Stays
  <2>1. PICK k \in Kind \ {"upval"} : Made(a, k)
    BY <1>2 DEF newlstr, luaS_newudata, luaC_link, Kind
  <2> QED
    BY <2>1, MadeAlive
<1>3. ASSUME NEW a \in Addr, Drop(a) PROVE Stays
  <2>1. Running /\ UNCHANGED <<kind, key, val, open, color, currentwhite, tmudata>>
        /\ held' \subseteq held
    BY <1>3 DEF Drop, UNCHANGED_GC
  <2> QED
    BY <1>1, <2>1, HeldIs
<1>4. ASSUME NEW o \in Addr, NEW v \in Addr, Get(o, v) \/ GetUpval(o, v) PROVE Stays
  <2>1. Running /\ UNCHANGED <<kind, key, val, open, color, currentwhite, tmudata>>
        /\ held' = held \cup {v} /\ o \in held
    BY <1>4 DEF Get, GetUpval, UNCHANGED_GC, Hold
  <2>2. v \in Alive /\ kind[v] # "upval"
    <3>1. CASE Get(o, v)
      <4>1. o \in Alive /\ v \in Refs(o) /\ kind[v] # "upval"
        BY <2>1, <3>1, HeldIs DEF Get
      <4> QED
        BY <2>1, <4>1 DEF GCInv, AliveInv, RefsGood, Running
    <3>2. CASE GetUpval(o, v)
      <4>1. kind[o] = "function" /\ val[o] \in Addr /\ v \in Strong(val[o])
        BY <3>2 DEF GetUpval
      <4>2. kind[val[o]] = "upval" /\ val[o] \in Alive
        BY <2>1, <4>1, Captured
      <4>3. v \in Refs(val[o]) /\ RefsGood(val[o])
        BY <2>1, <4>1, <4>2, StrongInRefs DEF GCInv, AliveInv, Running
      <4>4. v \in Alive /\ v \notin OfKind({"upval"}) /\ v \in Addr
        BY <4>2, <4>3 DEF RefsGood, Alive, Live
      <4> QED
        BY <4>4 DEF OfKind
    <3> QED
      BY <1>4, <3>1, <3>2
  <2>3. held' \subseteq Alive /\ held' \cap OfKind({"upval"}) = {}
    BY <2>1, <2>2, HeldIs DEF OfKind
  <2> QED
    BY <1>1, <2>1, <2>3 DEF Running
<1>5. ASSUME luaC_fullgc \/ lua_close PROVE Stays
  <2>1. Running /\ UNCHANGED <<kind, key, val, open, color, currentwhite>> /\ held' \subseteq held
    BY <1>5 DEF luaC_fullgc, lua_close, heap
  <2>2. Alive' = Alive
    <3>1. \A a : a \in Alive' <=> a \in Alive
      BY <2>1, AlivePrimed DEF otherwhite
    <3> QED
      BY <3>1
  <2>3. Waiting' \subseteq Alive
    <3>1. CASE luaC_fullgc
      BY <2>1, <3>1, HeldIs DEF luaC_fullgc, Waiting
    <3>2. CASE lua_close
      <4> DEFINE rest == Without(udlist, finalized)
      <4>1. tmudata' = tmudata \o rest
        BY <3>2 DEF lua_close
      <4>2. udlist \in Seq(Addr) /\ tmudata \in Seq(Addr)
        BY DEF GCInv, TypeInv
      <4>3. rest \in Seq(Addr) /\ InList(rest) = InList(udlist) \ finalized
        BY <4>2, WithoutSome
      <4> HIDE DEF rest
      <4>4. Waiting' = Waiting \cup InList(rest)
        BY <4>1, <4>2, <4>3, Joined DEF Waiting
      <4>5. \A u \in InList(rest) : u \in OfKind({"userdata"}) /\ ~isdead(u)
        BY <4>3 DEF GCInv, UdInv
      <4>6. InList(rest) \subseteq Alive
        BY <4>5 DEF OfKind, Alive, Live
      <4> QED
        BY <2>1, <4>4, <4>6, HeldIs
    <3> QED
      BY <1>5, <3>1, <3>2
  <2>4. held' \subseteq Alive /\ held' \cap OfKind({"upval"}) = {} /\ gcstate # "closed"
    BY <2>1, HeldIs
  <2> QED
    BY <2>1, <2>2, <2>3, <2>4, SameHeapAlive
<1>6. ASSUME Finalize \/ CloseFinalize PROVE Stays
  <2>1. GCTM /\ gcstate # "closed"
    BY <1>6 DEF Finalize, CloseFinalize
  <2>2. UNCHANGED gcstate
    BY <2>1 DEF GCTM
  <2> QED
    BY <2>1, <2>2, GCTMAlive
<1>7. ASSUME FinalizeEnd PROVE Stays
  <2>1. gcstate # "closed" /\ UNCHANGED <<kind, key, val, open, color, currentwhite, tmudata, held>>
    BY <1>7 DEF FinalizeEnd, heap
  <2>2. held' \subseteq Alive /\ held' \cap OfKind({"upval"}) = {}
    BY <2>1 DEF GCInv, AliveInv
  <2> QED
    BY <1>1, <2>1, <2>2
<1>8. ASSUME luaC_freeall PROVE Stays
  BY <1>8 DEF luaC_freeall, AliveInv
<1>9. ASSUME UNCHANGED vars PROVE Stays
  <2>1. UNCHANGED <<kind, key, val, open, color, currentwhite, tmudata, held, gcstate>>
    BY <1>9 DEF vars, heap, gcvars
  <2>2. CASE gcstate # "closed"
    BY <1>1, <2>1, <2>2 DEF GCInv, AliveInv
  <2>3. CASE gcstate = "closed"
    BY <2>1, <2>3 DEF AliveInv
  <2> QED
    BY <2>2, <2>3
<1> QED
  BY <1>2, <1>3, <1>4, <1>5, <1>6, <1>7, <1>8, <1>9, InternAlive, CloseUpvalsAlive,
     SetFieldAlive, SetUpvalAlive, SetTableAlive, SetSlotAlive, ClosureAlive, MarkAlive,
     AtomicAlive, SweepAlive
     DEF Next, Program, singlestep

-----------------------------------------------------------------------------
(* Every step keeps the userdata and their finalizers.                     *)

\* An object before all of a list.
LEMMA Pushed ==
    ASSUME NEW a \in Addr, NEW s \in Seq(Addr)
    PROVE  /\ InList(<<a>> \o s) = {a} \cup InList(s)
           /\ NoTwice(s) /\ a \notin InList(s) => NoTwice(<<a>> \o s)
<1>1. <<a>> \in Seq(Addr) /\ InList(<<a>>) = {a} /\ NoTwice(<<a>>)
  BY DEF InList, NoTwice
<1> QED
  BY <1>1, Joined

\* A step that queues nothing, and kills no userdata.
LEMMA UdSame ==
    ASSUME GCInv, UNCHANGED <<udlist, tmudata, finalized, called>>, Alive \subseteq Alive',
           \A a \in Addr : kind'[a] = "userdata" <=> kind[a] = "userdata"
    PROVE  UdInv'
<1>1. OfKind({"userdata"})' = OfKind({"userdata"})
  BY DEF OfKind
<1>2. Waiting' = Waiting /\ InList(udlist)' = InList(udlist)
  BY DEF Waiting, InList
<1>3. ASSUME NEW u \in OfKind({"userdata"}), isdead(u)' PROVE u \in finalized
  <2>1. u \notin Alive'
    BY <1>3 DEF Alive
  <2>2. isdead(u)
    BY <2>1 DEF Alive, Live, OfKind
  <2> QED
    BY <2>2 DEF GCInv, UdInv
<1> QED
  BY <1>1, <1>2, <1>3 DEF GCInv, UdInv, NoTwice

\* A userdata that is freed has had its turn.
LEMMA EndedUd ==
    ASSUME GCInv, NEW freed, NEW closed, NEW popped, Ended(freed, closed, popped),
           UNCHANGED tmudata, Waiting \cap freed = {},
           \A u \in OfKind({"userdata"}) \ freed : u \in Alive => u \in Alive'
    PROVE  UdInv'
<1>1. /\ \A a \in Addr : kind'[a] = IF a \in freed THEN "free" ELSE kind[a]
      /\ udlist' = Without(udlist, freed) /\ finalized' = finalized \ freed
      /\ called' = called \ freed
  BY DEF Ended
<1>2. /\ NoTwice(udlist) /\ NoTwice(tmudata) /\ InList(udlist) \cap Waiting = {}
      /\ OfKind({"userdata"}) = InList(udlist) \cup Waiting
      /\ Waiting \subseteq finalized /\ finalized \subseteq OfKind({"userdata"})
      /\ called = finalized \cap InList(udlist)
      /\ \A u \in OfKind({"userdata"}) : isdead(u) => u \in finalized
      /\ udlist \in Seq(Addr)
  BY DEF GCInv, UdInv, TypeInv
<1>3. InList(udlist') = InList(udlist) \ freed /\ NoTwice(udlist')
  BY <1>1, <1>2, WithoutSome
<1>4. \A a : a \in OfKind({"userdata"})' <=> a \in OfKind({"userdata"}) /\ a \notin freed
  BY <1>1, AlivePrimed DEF OfKind
<1>5. Waiting' = Waiting /\ NoTwice(tmudata')
  BY <1>2 DEF Waiting
<1>6. ASSUME NEW u, u \in OfKind({"userdata"})', isdead(u)' PROVE u \in finalized'
  <2>1. u \in OfKind({"userdata"}) /\ u \notin freed /\ u \notin Alive'
    BY <1>4, <1>6 DEF Alive
  <2>2. isdead(u)
    BY <2>1 DEF Alive, Live, OfKind
  <2> QED
    BY <1>1, <1>2, <2>1, <2>2
<1>7. /\ InList(udlist') \cap Waiting' = {}
      /\ OfKind({"userdata"})' = InList(udlist') \cup Waiting'
      /\ Waiting' \subseteq finalized' /\ finalized' \subseteq OfKind({"userdata"})'
      /\ called' = finalized' \cap InList(udlist')
  BY <1>1, <1>2, <1>3, <1>4, <1>5
<1> QED
  BY <1>3, <1>5, <1>6, <1>7 DEF UdInv, InList, NoTwice

\* The atomic step, finalizers and lua_close() keep the lists of userdata.
LEMMA UdOfCollector ==
    ASSUME GCInv, Alive \subseteq Alive' \/ atomic,
           atomic \/ Finalize \/ CloseFinalize \/ lua_close
    PROVE  UdInv'
<1>1. /\ NoTwice(udlist) /\ NoTwice(tmudata) /\ InList(udlist) \cap Waiting = {}
      /\ OfKind({"userdata"}) = InList(udlist) \cup Waiting
      /\ Waiting \subseteq finalized /\ finalized \subseteq OfKind({"userdata"})
      /\ called = finalized \cap InList(udlist)
      /\ \A u \in OfKind({"userdata"}) : isdead(u) => u \in finalized
      /\ udlist \in Seq(Addr) /\ tmudata \in Seq(Addr)
  BY DEF GCInv, UdInv, TypeInv
<1>2. UNCHANGED kind
  BY DEF atomic, Finalize, CloseFinalize, GCTM, lua_close
<1>3. OfKind({"userdata"})' = OfKind({"userdata"})
  BY <1>2 DEF OfKind
<1>4. ASSUME NEW u \in OfKind({"userdata"}), isdead(u)', Alive \subseteq Alive' PROVE u \in finalized
  <2>1. u \notin Alive'
    BY <1>4 DEF Alive
  <2>2. isdead(u)
    BY <1>4, <2>1 DEF Alive, Live, OfKind
  <2> QED
    BY <1>1, <2>2
<1>5. ASSUME /\ NoTwice(udlist') /\ NoTwice(tmudata') /\ InList(udlist') \cap InList(tmudata') = {}
             /\ OfKind({"userdata"}) = InList(udlist') \cup InList(tmudata')
             /\ InList(tmudata') \subseteq finalized' /\ finalized' \subseteq OfKind({"userdata"})
             /\ called' = finalized' \cap InList(udlist')
             /\ \A u \in OfKind({"userdata"}) : isdead(u)' => u \in finalized'
      PROVE  UdInv'
  BY <1>3, <1>5 DEF UdInv, Waiting, InList, NoTwice
<1>6. CASE atomic
  <2> DEFINE D == InList(DeadNow)
  <2>1. /\ tmudata' = QueueNow /\ udlist' = Without(udlist, D) /\ finalized' = finalized \cup D
        /\ UNCHANGED called
    BY <1>6, AtomicIs DEF FinalizedNow
  <2>2. /\ D = {u \in InList(udlist) : u \notin finalized /\ u \notin Marked(RemarkedNow)}
        /\ InList(QueueNow) = Waiting \cup D /\ NoTwice(QueueNow)
        /\ Marked(RemarkedNow) \subseteq Marked(MarkedNow)
        /\ InList(QueueNow) \subseteq Marked(MarkedNow)
    BY <1>6, AtomicMarks
  <2> HIDE DEF D
  <2>3. InList(udlist') = InList(udlist) \ D /\ NoTwice(udlist')
    BY <1>1, <2>1, WithoutSome
  <2>4. ASSUME NEW u \in OfKind({"userdata"}), isdead(u)' PROVE u \in finalized'
    <3>1. u \notin Alive' /\ u \in Live
      BY <2>4 DEF Alive, Live, OfKind
    <3>2. u \notin Marked(MarkedNow)
      BY <1>6, <3>1, AtomicAlive
    <3> QED
      BY <1>1, <2>1, <2>2, <3>2
  <2> QED
    BY <1>1, <1>5, <2>1, <2>2, <2>3, <2>4
<1>7. CASE Finalize \/ CloseFinalize
  <2> DEFINE u == Head(tmudata)
  <2>1. /\ tmudata # <<>> /\ tmudata' = Tail(tmudata) /\ udlist' = <<u>> \o udlist
        /\ called' = called \cup {u} /\ UNCHANGED <<finalized, gcstate>>
    BY <1>7 DEF Finalize, CloseFinalize, GCTM
  <2>2. /\ u \in Addr /\ Waiting = InList(tmudata') \cup {u}
        /\ NoTwice(tmudata') /\ u \notin InList(tmudata')
    BY <1>1, <2>1, Taken DEF Waiting
  <2> HIDE DEF u
  <2>3. InList(udlist') = {u} \cup InList(udlist) /\ NoTwice(udlist')
    BY <1>1, <2>1, <2>2, Pushed
  <2>4. Alive \subseteq Alive'
    BY <1>7, <2>1 DEF Finalize, CloseFinalize, atomic
  <2> QED
    BY <1>1, <1>4, <1>5, <2>1, <2>2, <2>3, <2>4
<1>8. CASE lua_close
  <2> DEFINE rest == Without(udlist, finalized)
  <2>1. /\ tmudata' = tmudata \o rest /\ udlist' = Without(udlist, InList(rest))
        /\ finalized' = finalized \cup InList(rest) /\ UNCHANGED called
    BY <1>8 DEF lua_close
  <2>2. rest \in Seq(Addr) /\ InList(rest) = InList(udlist) \ finalized /\ NoTwice(rest)
    BY <1>1, WithoutSome
  <2> HIDE DEF rest
  <2>3. InList(udlist') = InList(udlist) \ InList(rest) /\ NoTwice(udlist')
    BY <1>1, <2>1, WithoutSome
  <2>4. InList(tmudata') = Waiting \cup InList(rest) /\ NoTwice(tmudata')
    <3>1. InList(tmudata) \cap InList(rest) = {}
      BY <1>1, <2>2 DEF Waiting
    <3> QED
      BY <1>1, <2>1, <2>2, <3>1, Joined DEF Waiting
  <2>5. Alive \subseteq Alive'
    <3>1. UNCHANGED <<kind, color, currentwhite>>
      BY <1>8 DEF lua_close
    <3>2. \A a : a \in Alive => a \in Alive'
      BY <3>1, AlivePrimed DEF otherwhite
    <3> QED
      BY <3>2
  <2>6. \A u \in OfKind({"userdata"}) : isdead(u)' => u \in finalized'
    BY <1>4, <2>1, <2>5
  <2> QED
    BY <1>1, <1>5, <2>1, <2>2, <2>3, <2>4, <2>6
<1> QED
  BY <1>6, <1>7, <1>8

\* A userdata is made behind the main thread.
LEMMA NewudataUd ==
    ASSUME GCInv, NEW a \in Addr, luaS_newudata(a), Alive \subseteq Alive'
    PROVE  UdInv'
<1>1. /\ kind[a] = "free" /\ kind' = [kind EXCEPT ![a] = "userdata"]
      /\ color' = [color EXCEPT ![a] = currentwhite] /\ udlist' = <<a>> \o udlist
      /\ UNCHANGED <<finalized, called, tmudata, gcstate, currentwhite>>
  BY DEF luaS_newudata, Made, Running, UNCHANGED_GC
<1>2. /\ TypeInv /\ color \in [Node -> Color] /\ Addr \subseteq Node
      /\ otherwhite' = otherwhite /\ otherwhite # currentwhite
  BY <1>1, MarksTyped DEF GCInv, otherwhite, Node
<1>3. \A u : u \in OfKind({"userdata"})' <=> u \in OfKind({"userdata"}) \/ u = a
  BY <1>1, <1>2, AlivePrimed DEF TypeInv, OfKind
<1>4. /\ NoTwice(udlist) /\ NoTwice(tmudata) /\ InList(udlist) \cap Waiting = {}
      /\ OfKind({"userdata"}) = InList(udlist) \cup Waiting
      /\ Waiting \subseteq finalized /\ finalized \subseteq OfKind({"userdata"})
      /\ called = finalized \cap InList(udlist)
      /\ \A u \in OfKind({"userdata"}) : isdead(u) => u \in finalized
      /\ udlist \in Seq(Addr)
  BY DEF GCInv, UdInv, TypeInv
<1>5. a \notin OfKind({"userdata"})
  BY <1>1 DEF OfKind
<1>6. InList(udlist') = {a} \cup InList(udlist) /\ NoTwice(udlist')
  BY <1>1, <1>4, <1>5, Pushed
<1>7. Waiting' = Waiting /\ NoTwice(tmudata')
  BY <1>1, <1>4 DEF Waiting
<1>8. ASSUME NEW u, u \in OfKind({"userdata"})', isdead(u)' PROVE u \in finalized'
  <2>1. u # a
    BY <1>1, <1>2, <1>8 DEF isdead
  <2>2. u \in OfKind({"userdata"}) /\ u \notin Alive'
    BY <1>3, <1>8, <2>1 DEF Alive
  <2>3. isdead(u)
    BY <2>2 DEF Alive, Live, OfKind
  <2> QED
    BY <1>1, <1>4, <2>2, <2>3
<1>9. /\ InList(udlist') \cap Waiting' = {}
      /\ OfKind({"userdata"})' = InList(udlist') \cup Waiting'
      /\ Waiting' \subseteq finalized' /\ finalized' \subseteq OfKind({"userdata"})'
      /\ called' = finalized' \cap InList(udlist')
  BY <1>1, <1>3, <1>4, <1>5, <1>6, <1>7
<1> QED
  BY <1>6, <1>7, <1>8, <1>9 DEF UdInv, InList, NoTwice

\* Every userdata is in rootgc or waits for its finalizer, which is called once.
LEMMA UdKept == GCInv /\ [Next]_vars => UdInv'
<1> SUFFICES ASSUME GCInv, [Next]_vars PROVE UdInv'
  OBVIOUS
<1>1. CASE atomic
  BY <1>1, UdOfCollector
<1>2. CASE UNCHANGED vars
  <2>1. UdInv /\ UNCHANGED <<kind, color, currentwhite, udlist, tmudata, finalized, called, gcstate>>
    BY <1>2 DEF vars, heap, gcvars, GCInv
  <2> QED
    BY <2>1 DEF UdInv, NoTwice, InList, Waiting, OfKind, isdead, otherwhite
<1>3. CASE luaC_freeall
  <2>1. /\ Ended(Live, {}, {}) /\ UNCHANGED tmudata /\ tmudata = <<>>
    BY <1>3 DEF luaC_freeall
  <2>2. Waiting = {}
    BY <2>1 DEF Waiting, InList
  <2>3. OfKind({"userdata"}) \ Live = {}
    BY DEF OfKind, Live
  <2> QED
    BY <2>1, <2>2, <2>3, EndedUd
<1>4. ASSUME ~ atomic, gcstate' # "closed" PROVE Alive \subseteq Alive'
  BY <1>4, AliveKept
<1>5. ASSUME ~ atomic, gcstate' # "closed", UNCHANGED <<udlist, tmudata, finalized, called>>,
             UNCHANGED kind
      PROVE  UdInv'
  <2>1. \A a \in Addr : kind'[a] = "userdata" <=> kind[a] = "userdata"
    BY <1>5
  <2> QED
    BY <1>4, <1>5, <2>1, UdSame
<1>6. ASSUME NEW a \in Addr, newlstr(a) \/ luaC_link(a), ~ atomic PROVE UdInv'
  <2>1. PICK k \in Kind \ {"userdata"} : Made(a, k)
    BY <1>6 DEF newlstr, luaC_link, Kind
  <2>2. /\ UNCHANGED <<udlist, tmudata, finalized, called>> /\ gcstate' = gcstate
        /\ gcstate' # "closed" /\ kind[a] = "free" /\ kind' = [kind EXCEPT ![a] = k]
    BY <1>6, <2>1 DEF newlstr, luaC_link, Made, UNCHANGED_GC, Running
  <2>3. \A b \in Addr : kind'[b] = "userdata" <=> kind[b] = "userdata"
    BY <2>1, <2>2 DEF GCInv, TypeInv
  <2> QED
    BY <1>4, <1>6, <2>2, <2>3, UdSame
<1>7. ASSUME NEW a \in Addr, luaS_newudata(a), ~ atomic PROVE UdInv'
  <2>1. gcstate' # "closed"
    BY <1>7 DEF luaS_newudata, Made, Running, UNCHANGED_GC
  <2> QED
    BY <1>4, <1>7, <2>1, NewudataUd
<1>8. ASSUME NEW f \in Addr, NEW u \in Addr, NEW c \in Addr, Closure(f, u, c), ~ atomic
      PROVE  UdInv'
  <2>1. /\ UNCHANGED <<udlist, tmudata, finalized, called>> /\ gcstate' = gcstate
        /\ gcstate' # "closed" /\ kind[f] = "free" /\ kind[u] \in {"free", "upval"}
        /\ kind' = [kind EXCEPT ![f] = "function", ![u] = "upval"]
    BY <1>8 DEF Closure, UNCHANGED_GC, Running
  <2>2. \A b \in Addr : kind'[b] = "userdata" <=> kind[b] = "userdata"
    BY <2>1 DEF GCInv, TypeInv
  <2> QED
    BY <1>4, <1>8, <2>1, <2>2, UdSame
<1>9. ASSUME NEW c \in Addr, CloseUpvals(c), ~ atomic PROVE UdInv'
  <2> DEFINE freed == OpenIn(c) \ StillAlive(c)
  <2>1. /\ Ended(freed, StillAlive(c), {c}) /\ gcstate # "closed"
        /\ UNCHANGED <<gcstate, tmudata>>
    BY <1>9, CloseUpvalsIs
  <2>2. \A u \in freed : isdead(u)
    BY DEF StillAlive
  <2> HIDE DEF freed
  <2>3. Waiting \cap freed = {}
    BY <2>1, <2>2 DEF GCInv, AliveInv, Alive
  <2>4. Alive \subseteq Alive'
    BY <1>4, <1>9, <2>1
  <2> QED
    BY <2>1, <2>3, <2>4, EndedUd
<1>10. ASSUME sweep, ~ atomic PROVE UdInv'
  <2>1. /\ gcstate \in {"sweepstring", "sweep"} /\ UNCHANGED tmudata
        /\ gcstate' \notin {"closing", "closed"}
    BY <1>10 DEF sweep
  <2>2. Alive \subseteq Alive'
    BY <1>4, <1>10, <2>1
  <2>3. ASSUME NEW o \in Pending, SweepObject(o) PROVE UdInv'
    <3>1. Ended(Freed(o), Orphans(o), {}) /\ \A x \in Freed(o) : isdead(x)
      BY <2>1, <2>3, SweepObjectIs DEF Pending
    <3>2. Waiting \cap Freed(o) = {}
      BY <2>1, <3>1 DEF GCInv, AliveInv, Alive
    <3> QED
      BY <2>1, <2>2, <3>1, <3>2, EndedUd
  <2> QED
    BY <1>5, <1>10, <2>1, <2>3 DEF sweep, heap
<1>11. ASSUME Finalize \/ CloseFinalize \/ lua_close, ~ atomic PROVE UdInv'
  <2>1. gcstate' # "closed"
    BY <1>11 DEF Finalize, CloseFinalize, GCTM, lua_close
  <2> QED
    BY <1>4, <1>11, <2>1, UdOfCollector
<1>12. ASSUME \/ \E a \in Addr : Drop(a) \/ Intern(a)
              \/ \E o, v \in Addr : Get(o, v) \/ GetUpval(o, v) \/ SetField(o, v) \/ SetUpval(o, v)
              \/ \E t \in Addr, k \in Addr \cup {Num}, v \in Addr \cup {Nil, Num} : SetTable(t, k, v)
              \/ \E c \in Addr, v \in Addr \cup {Nil} : SetSlot(c, v)
              \/ luaC_fullgc,
              ~ atomic
       PROVE  UdInv'
  <2>1. /\ UNCHANGED <<udlist, tmudata, finalized, called>> /\ UNCHANGED kind
        /\ gcstate' = gcstate \/ gcstate' = "sweepstring"
        /\ gcstate # "closed"
    BY <1>12 DEF Drop, Intern, Get, GetUpval, SetField, SetUpval, SetTable, SetSlot, luaC_fullgc,
                 UNCHANGED_GC, Running, heap
  <2> QED
    BY <1>5, <1>12, <2>1
<1>13. ASSUME Start \/ FullMark \/ propagatemark \/ FinalizeEnd, ~ atomic PROVE UdInv'
  <2>1. /\ UNCHANGED <<udlist, tmudata, finalized, called>> /\ UNCHANGED kind
        /\ gcstate' \notin {"closing", "closed"}
    BY <1>13 DEF Start, FullMark, propagatemark, FinalizeEnd, markroot, heap
  <2> QED
    BY <1>5, <1>13, <2>1
<1> QED
  BY <1>1, <1>2, <1>3, <1>6, <1>7, <1>8, <1>9, <1>10, <1>11, <1>12, <1>13
     DEF Next, Program, singlestep

-----------------------------------------------------------------------------
(* Every step keeps the sweep.                                             *)

\* A step between two steps of the sweep: what is not white with the current white was so
\* before.
LEMMA SweepSame ==
    ASSUME GCInv, UNCHANGED <<gcstate, tosweep, tmudata, currentwhite>>,
           gcstate \in {"pause", "finalize", "sweepstring", "sweep"} =>
             \A o \in Object' :
                \/ color'[o] = currentwhite \/ o \in Waiting
                \/ o \in Object /\ color[o] # currentwhite /\ (o \in Addr => open'[o] = open[o]),
           gcstate \in {"sweepstring", "sweep"} =>
             \A o \in tosweep : o # Main => kind'[o] = kind[o] /\ open'[o] = open[o]
    PROVE  SweepInv'
<1>1. SweepInv /\ Waiting' = Waiting
  BY DEF GCInv, Waiting
<1>2. ASSUME gcstate \in {"sweepstring", "sweep"}, NEW o \in tosweep
      PROVE  o # Main => kind'[o] # "free" /\ open'[o] = Nil
  BY <1>1, <1>2 DEF SweepInv
<1>3. ASSUME gcstate = "sweep", NEW o \in tosweep PROVE KindOf(o)' # "string"
  BY <1>1, <1>3 DEF SweepInv, KindOf
<1>4. ASSUME gcstate \in {"sweepstring", "sweep"}, NEW o \in Object' \ Waiting
      PROVE  color'[o] = currentwhite \/ o \in tosweep \/ (o \in Addr /\ open'[o] \in tosweep)
  BY <1>1, <1>4 DEF SweepInv
<1>5. ASSUME gcstate \in {"pause", "finalize"}, NEW o \in Object' \ Waiting
      PROVE  color'[o] = currentwhite
  BY <1>1, <1>5 DEF SweepInv
<1> QED
  BY <1>1, <1>2, <1>3, <1>4, <1>5 DEF SweepInv

\* The sweep begins with all objects: an open upvalue is swept with its coroutine.
LEMMA RootSwept ==
    ASSUME GCInv, UNCHANGED <<kind, open>>, gcstate' = "sweepstring",
           tosweep' = RootList \ Waiting', Waiting' \subseteq OfKind({"userdata"})
    PROVE  SweepInv'
<1>1. ASSUME NEW o \in Object' \ Waiting'
      PROVE  o \in tosweep' \/ (o \in Addr /\ open'[o] \in tosweep')
  <2>1. o \in Object
    BY <1>1 DEF Object, Live
  <2>2. CASE o = Main \/ open[o] = Nil
    BY <1>1, <2>1, <2>2 DEF RootList, Object
  <2>3. CASE o # Main /\ open[o] # Nil
    <3>1. o \in Addr /\ open[o] \in Addr /\ kind[open[o]] = "thread"
      BY <2>1, <2>3, OpenInThread DEF Object, Live
    <3>2. open[open[o]] = Nil
      BY <3>1, OpenInThread
    <3>3. open[o] \in RootList
      BY <3>1, <3>2 DEF RootList, Live
    <3>4. open[o] \notin Waiting'
      BY <3>1 DEF OfKind
    <3> QED
      BY <3>1, <3>3, <3>4
  <2> QED
    BY <2>2, <2>3
<1>2. ASSUME NEW o \in tosweep', o # Main PROVE kind'[o] # "free" /\ open'[o] = Nil
  BY <1>2 DEF RootList, Live
<1> QED
  BY <1>1, <1>2 DEF SweepInv

\* One object is swept, or the sweep goes on with the objects that are no strings.
LEMMA SweepSwept ==
    ASSUME GCInv, sweep
    PROVE  SweepInv'
<1>0. /\ SweepInv /\ TypeInv /\ ShapeInv /\ Nil \notin Addr /\ Main \notin Addr /\ Nil # Main
  BY GCAssumption DEF GCInv
<1>1. /\ gcstate \in {"sweepstring", "sweep"} /\ UNCHANGED <<tmudata, currentwhite>>
      /\ gcstate' = IF Cardinality(Pending) > 1 THEN gcstate
                    ELSE IF gcstate = "sweepstring" THEN "sweep" ELSE "finalize"
  BY DEF sweep
<1>2. Waiting' = Waiting
  BY <1>1 DEF Waiting
<1>3. IsFiniteSet(Pending)
  <2>1. Pending \subseteq Addr \cup {Main}
    BY <1>0 DEF Pending, TypeInv, Node
  <2>2. IsFiniteSet(Addr \cup {Main})
    BY GCAssumption, FS_AddElement
  <2> QED
    BY <2>1, <2>2, FS_Subset
<1>4. CASE Pending = {} /\ UNCHANGED <<heap, color, tosweep, called, garbage>>
  <2>1. /\ UNCHANGED <<kind, open, color, tosweep>> /\ gcstate' # gcstate
        /\ gcstate' = IF gcstate = "sweepstring" THEN "sweep" ELSE "finalize"
    <3>1. Cardinality(Pending) = 0
      BY <1>4, FS_EmptySet
    <3> QED
      BY <1>1, <1>4, <3>1 DEF heap
  <2>2. Object' = Object /\ \A o : KindOf(o)' = KindOf(o)
    BY <2>1 DEF Object, Live, KindOf
  <2>3. gcstate = "sweepstring" => \A o \in tosweep : KindOf(o) # "string"
    BY <1>4 DEF Pending
  <2>4. gcstate = "sweep" => tosweep = {}
    BY <1>0, <1>4 DEF Pending, SweepInv
  <2> QED
    BY <1>0, <1>1, <1>2, <2>1, <2>2, <2>3, <2>4 DEF SweepInv
<1>5. ASSUME NEW o \in Pending, SweepObject(o) PROVE SweepInv'
  <2>1. /\ Ended(Freed(o), Orphans(o), {}) /\ tosweep' = tosweep \ {o}
        /\ color' = [x \in Node |-> IF x \in Kept(o) THEN currentwhite
                                    ELSE IF x \in Freed(o) THEN "white0" ELSE color[x]]
        /\ \A u \in SweptUpvals(o) : u \in Addr /\ kind[u] = "upval" /\ open[u] = o
        /\ \A u \in Addr : open[u] = o => u \in SweptUpvals(o)
        /\ Freed(o) \cup Kept(o) = {o} \cup SweptUpvals(o) /\ Orphans(o) \subseteq Kept(o)
        /\ Freed(o) \subseteq Addr /\ o \in tosweep
    BY <1>1, <1>5, SweepObjectIs DEF Pending
  <2>2. o # Nil
    BY <1>0, <2>1 DEF TypeInv, Node
  <2>3. /\ \A a \in Addr : kind'[a] = IF a \in Freed(o) THEN "free" ELSE kind[a]
        /\ \A a \in Addr : open'[a] = IF a \in Freed(o) \cup Orphans(o) THEN Nil ELSE open[a]
    BY <2>1 DEF Ended
  <2>4. ASSUME NEW x \in Object' \ Waiting
        PROVE  color'[x] = currentwhite \/ x \in tosweep' \/ (x \in Addr /\ open'[x] \in tosweep')
    <3>1. x \in Object /\ x \notin Freed(o) /\ x \in Node
      BY <1>0, <2>1, <2>3, <2>4 DEF Object, Live, Node
    <3>2. CASE x \in Kept(o)
      BY <2>1, <3>1, <3>2
    <3>3. CASE x \notin Kept(o)
      <4>1. x # o /\ x \notin SweptUpvals(o) /\ x \notin Orphans(o) /\ color'[x] = color[x]
        BY <2>1, <3>1, <3>3
      <4>2. x \in Addr => open'[x] = open[x] /\ open[x] # o
        BY <2>1, <2>3, <3>1, <4>1
      <4>3. color[x] = currentwhite \/ x \in tosweep \/ (x \in Addr /\ open[x] \in tosweep)
        BY <1>0, <1>1, <2>4, <3>1 DEF SweepInv
      <4> QED
        BY <2>1, <4>1, <4>2, <4>3
    <3> QED
      BY <3>2, <3>3
  <2>5. ASSUME NEW x \in tosweep'
        PROVE  KindOf(x)' = KindOf(x) /\ (x # Main => kind'[x] # "free" /\ open'[x] = Nil)
    <3>1. x \in tosweep /\ x # o
      BY <2>1, <2>5
    <3>2. CASE x = Main
      BY <3>2 DEF KindOf
    <3>3. CASE x # Main
      <4>1. x \in Addr /\ kind[x] # "free" /\ open[x] = Nil
        BY <1>0, <1>1, <3>1, <3>3 DEF SweepInv, TypeInv, Node
      <4>2. x \notin SweptUpvals(o)
        BY <2>1, <2>2, <4>1
      <4>3. x \notin Freed(o)
        BY <2>1, <3>1, <4>2
      <4> QED
        BY <2>3, <3>3, <4>1, <4>3 DEF KindOf
    <3> QED
      BY <3>2, <3>3
  <2>6. tosweep' \cap Waiting' = {}
    BY <1>0, <1>1, <1>2, <2>1 DEF SweepInv
  <2>7. ASSUME ~ (Cardinality(Pending) > 1) PROVE Pending = {o}
    <3>1. Cardinality({o}) = 1 /\ IsFiniteSet({o}) /\ {o} \subseteq Pending
      BY FS_Singleton
    <3>2. Cardinality(Pending) \in Nat
      BY <1>3, FS_CardinalityType
    <3>3. SUFFICES ASSUME {o} # Pending PROVE FALSE
      OBVIOUS
    <3>4. Cardinality({o}) < Cardinality(Pending)
      <4> DEFINE T == {o}
      <4>1. T \in SUBSET Pending /\ T # Pending
        BY <3>3
      <4> HIDE DEF T
      <4>2. Cardinality(T) < Cardinality(Pending)
        BY <1>3, <4>1, FS_Subset, FS_CardinalityType
      <4> QED
        BY <4>2 DEF T
    <3> QED
      BY <2>7, <3>1, <3>2, <3>4
  <2>8. gcstate' = "sweep" => \A x \in tosweep' : KindOf(x)' # "string"
    <3>1. ASSUME gcstate' = "sweep", NEW x \in tosweep' PROVE KindOf(x) # "string"
      <4>1. CASE gcstate = "sweep"
        BY <1>0, <2>1, <3>1, <4>1 DEF SweepInv
      <4>2. CASE gcstate = "sweepstring"
        <5>1. Pending = {o}
          BY <1>1, <2>7, <3>1, <4>2
        <5> QED
          BY <2>1, <3>1, <4>2, <5>1 DEF Pending
      <4> QED
        BY <1>1, <4>1, <4>2
    <3> QED
      BY <2>5, <3>1
  <2>9. gcstate' = "finalize" => tosweep' = {}
    <3>1. ASSUME gcstate' = "finalize" PROVE tosweep' = {}
      <4>1. gcstate = "sweep" /\ Pending = {o}
        BY <1>1, <2>7, <3>1
      <4> QED
        BY <1>0, <2>1, <4>1 DEF Pending, SweepInv
    <3> QED
      BY <3>1
  <2>10. gcstate' \in {"sweepstring", "sweep", "finalize"}
    BY <1>1
  <2> QED
    BY <1>1, <1>2, <2>4, <2>5, <2>6, <2>8, <2>9, <2>10 DEF SweepInv
<1> QED
  BY <1>4, <1>5 DEF sweep

\* What a barrier does to the colours while the collector does not mark.
LEMMA BarriersWhiten ==
    ASSUME GCInv, NEW o \in Addr, gcstate # "propagate"
    PROVE  /\ \A v \in Addr : BarrierForward(o, v) =>
                 \A x \in Node : color'[x] = color[x] \/ color'[x] = currentwhite
           /\ \A vs : BarrierBack(o, vs) =>
                 \A x \in Node : \/ color'[x] = color[x]
                                 \/ x = o /\ color[x] = "black" /\ color'[x] = "gray"
<1>1. color \in [Node -> Color] /\ o \in Node
  BY MarksTyped DEF GCInv, Node
<1> QED
  BY <1>1 DEF BarrierForward, BarrierBack

\* A step that changes only colours does not disturb the sweep when it makes nothing current
\* that was not, and turns nothing away from the current white.
LEMMA SweepOfHeap ==
    ASSUME GCInv, UNCHANGED <<gcstate, tosweep, tmudata, currentwhite, kind, open>>,
           gcstate # "propagate" =>
             \A o \in Node : \/ color'[o] = currentwhite \/ color'[o] = color[o]
                             \/ color[o] # currentwhite
    PROVE  SweepInv'
<1>1. Object' = Object /\ Object \subseteq Node
  BY DEF Object, Live, Node
<1>2. SweepInv
  BY DEF GCInv
<1>3. ASSUME gcstate \in {"pause", "finalize", "sweepstring", "sweep"}, NEW o \in Object'
      PROVE  \/ color'[o] = currentwhite \/ o \in Waiting
             \/ o \in Object /\ color[o] # currentwhite /\ (o \in Addr => open'[o] = open[o])
  BY <1>1, <1>3
<1>4. \A o \in tosweep : o # Main => kind'[o] = kind[o] /\ open'[o] = open[o]
  OBVIOUS
<1> QED
  BY <1>3, <1>4, SweepSame

\* Every step leaves what the sweep has passed in the current white.
LEMMA SweepKept == GCInv /\ [Next]_vars => SweepInv'
<1> SUFFICES ASSUME GCInv, [Next]_vars PROVE SweepInv'
  OBVIOUS
<1>0. /\ TypeInv /\ ShapeInv /\ SweepInv /\ Nil \notin Addr /\ Main \notin Addr
      /\ color \in [Node -> Color] /\ Addr \subseteq Node /\ Object \subseteq Node
      /\ \A x \in Object' : x \in Node
  BY GCAssumption, MarksTyped DEF GCInv, Node, Object, Live
<1>1. ASSUME gcstate' \notin {"pause", "finalize", "sweepstring", "sweep"} PROVE SweepInv'
  BY <1>1 DEF SweepInv
<1>2. ASSUME NEW a \in Addr, NEW k \in Kind, Made(a, k) PROVE SweepInv'
  <2>1. /\ kind[a] = "free" /\ kind' = [kind EXCEPT ![a] = k]
        /\ color' = [color EXCEPT ![a] = currentwhite]
        /\ UNCHANGED <<gcstate, tosweep, tmudata, currentwhite, open>>
    BY <1>2 DEF Made, UNCHANGED_GC
  <2>2. ASSUME NEW o \in Object'
        PROVE  \/ color'[o] = currentwhite
               \/ o \in Object /\ (color[o] # currentwhite \/ color'[o] = color[o])
                  /\ (o \in Addr => open'[o] = open[o])
    BY <1>0, <2>1 DEF Object, Live, TypeInv
  <2>3. \A o \in Object' :
           \/ color'[o] = currentwhite \/ o \in Waiting
           \/ o \in Object /\ color[o] # currentwhite /\ (o \in Addr => open'[o] = open[o])
    BY <2>2
  <2>4. gcstate \in {"sweepstring", "sweep"} =>
           \A o \in tosweep : o # Main => kind'[o] = kind[o] /\ open'[o] = open[o]
    BY <1>0, <2>1 DEF SweepInv, TypeInv, Node
  <2> QED
    BY <2>1, <2>3, <2>4, SweepSame
<1>3. ASSUME NEW f \in Addr, NEW u \in Addr, NEW c \in Addr, Closure(f, u, c)
      PROVE  SweepInv'
  <2>1. /\ kind[f] = "free" /\ f # u /\ u # c
        /\ kind[u] = "free" \/ (open[u] = c /\ kind[u] = "upval")
        /\ kind' = [kind EXCEPT ![f] = "function", ![u] = "upval"]
        /\ color' = [color EXCEPT ![f] = currentwhite,
                        ![u] = IF kind[u] = "free" \/ isdead(u) THEN currentwhite ELSE @]
        /\ open' = [open EXCEPT ![u] = c]
        /\ UNCHANGED <<gcstate, tosweep, tmudata, currentwhite>>
    BY <1>3 DEF Closure, UNCHANGED_GC
  <2>2. /\ \A o \in Addr : o # f /\ o # u => kind'[o] = kind[o]
        /\ \A o \in Addr : o # u => open'[o] = open[o]
        /\ open'[u] = c /\ color'[f] = currentwhite
        /\ \A o \in Node : o # f /\ o # u => color'[o] = color[o]
        /\ color'[u] = currentwhite \/ (kind[u] # "free" /\ color'[u] = color[u])
    BY <1>0, <2>1 DEF TypeInv
  <2>3. ASSUME NEW o \in Object', color'[o] # currentwhite
        PROVE  o \in Object /\ color'[o] = color[o] /\ (o \in Addr => open'[o] = open[o])
    <3>1. o \in Node /\ o # f
      BY <1>0, <2>2, <2>3
    <3>2. CASE o = u
      BY <2>1, <2>2, <2>3, <3>2 DEF Object, Live
    <3>3. CASE o # u
      BY <2>2, <2>3, <3>1, <3>3 DEF Object, Live
    <3> QED
      BY <3>2, <3>3
  <2>4. gcstate \in {"sweepstring", "sweep"} =>
           \A o \in tosweep : o # Main => kind'[o] = kind[o] /\ open'[o] = open[o]
    <3>1. ASSUME gcstate \in {"sweepstring", "sweep"}, NEW o \in tosweep, o # Main
          PROVE  o \in Addr /\ kind[o] # "free" /\ open[o] = Nil
      BY <1>0, <3>1 DEF SweepInv, TypeInv, Node
    <3>2. ASSUME NEW o \in Addr, kind[o] # "free", open[o] = Nil
          PROVE  kind'[o] = kind[o] /\ open'[o] = open[o]
      <4>1. o # f /\ o # u
        BY <1>0, <2>1, <3>2
      <4> QED
        BY <2>2, <4>1
    <3> QED
      BY <3>1, <3>2
  <2> QED
    BY <2>1, <2>3, <2>4, SweepSame
<1>4. ASSUME NEW s \in Addr, Intern(s) PROVE SweepInv'
  <2>1. /\ UNCHANGED <<gcstate, tosweep, tmudata, currentwhite, kind, open>>
        /\ color' = IF isdead(s) THEN [color EXCEPT ![s] = currentwhite] ELSE color
    BY <1>4 DEF Intern, UNCHANGED_GC
  <2>2. \A o \in Node : color'[o] = currentwhite \/ color'[o] = color[o]
    BY <1>0, <2>1
  <2> QED
    BY <2>1, <2>2, SweepOfHeap
<1>5. ASSUME \/ \E o, v \in Addr : SetField(o, v) \/ SetUpval(o, v)
             \/ \E t \in Addr, k \in Addr \cup {Num}, v \in Addr \cup {Nil, Num} : SetTable(t, k, v)
      PROVE  SweepInv'
  <2>1. UNCHANGED <<gcstate, tosweep, tmudata, currentwhite, kind, open>>
    BY <1>5 DEF SetField, SetUpval, SetTable, UNCHANGED_GC
  <2>2. \E o \in Addr : (\E v \in Addr : BarrierForward(o, v)) \/ (\E vs : BarrierBack(o, vs))
    BY <1>5 DEF SetField, SetUpval, SetTable
  <2>3. gcstate # "propagate" =>
           \A x \in Node : \/ color'[x] = currentwhite \/ color'[x] = color[x]
                           \/ color[x] # currentwhite
    <3>1. currentwhite # "black"
      BY <1>0 DEF TypeInv
    <3> QED
      BY <2>2, <3>1, BarriersWhiten
  <2> QED
    BY <2>1, <2>3, SweepOfHeap
<1>6. ASSUME NEW c \in Addr, CloseUpvals(c) PROVE SweepInv'
  <2>1. CASE gcstate = "propagate"
    BY <1>1, <1>6, <2>1, CloseUpvalsIs
  <2>2. CASE gcstate # "propagate"
    <3> DEFINE freed == OpenIn(c) \ StillAlive(c)
    <3>1. /\ Ended(freed, StillAlive(c), {c})
          /\ \A u \in OpenIn(c) : u \in Addr /\ kind[u] = "upval" /\ open[u] = c
          /\ UNCHANGED <<gcstate, currentwhite, tmudata, tosweep>>
      BY <1>6, CloseUpvalsIs
    <3>2. color' = LinkedColor(c)
      BY <1>6, <2>2, CloseUpvalsIs DEF SetMarks, Linked
    <3>3. /\ \A a \in Addr : kind'[a] = IF a \in freed THEN "free" ELSE kind[a]
          /\ \A a \in Addr : open'[a] = IF a \in freed \cup StillAlive(c) THEN Nil ELSE open[a]
      BY <3>1 DEF Ended
    <3>4. freed \cup StillAlive(c) = OpenIn(c)
      BY DEF StillAlive
    <3>5. \A u \in StillAlive(c) : LinkedColor(c)[u] = currentwhite
      <4>1. ASSUME NEW u \in StillAlive(c) PROVE LinkedColor(c)[u] = currentwhite
        <5>1. u \in OpenIn(c) /\ u \in Addr /\ u \in Node /\ open[u] # Nil
          BY <1>0, <3>1, <4>1 DEF StillAlive
        <5>2. color[u] # "black"
          BY <5>1 DEF GCInv, ColorInv
        <5>3. color[u] # otherwhite
          BY <4>1 DEF StillAlive, isdead
        <5>4. color[u] \in {currentwhite, "gray"}
          BY <1>0, <5>1, <5>2, <5>3 DEF TypeInv, otherwhite, Color
        <5> QED
          BY <2>2, <4>1, <5>1, <5>4 DEF LinkedColor, Visited
      <4> QED
        BY <4>1
    <3>6. \A o \in Node : LinkedColor(c)[o] \in {color[o], currentwhite}
      BY <2>2 DEF LinkedColor
    <3> HIDE DEF freed
    <3>7. ASSUME NEW o \in Object', color'[o] # currentwhite
          PROVE  o \in Object /\ color'[o] = color[o] /\ (o \in Addr => open'[o] = open[o])
      <4>1. o \in Node /\ color'[o] = color[o] /\ o \notin StillAlive(c)
        BY <1>0, <3>2, <3>5, <3>6, <3>7
      <4>2. CASE o = Main
        BY <1>0, <4>1, <4>2 DEF Object
      <4>3. CASE o # Main
        <5>1. o \in Addr /\ kind'[o] # "free"
          BY <3>7, <4>3 DEF Object, Live
        <5> QED
          BY <3>3, <4>1, <5>1 DEF Object, Live
      <4> QED
        BY <4>2, <4>3
    <3>8. gcstate \in {"sweepstring", "sweep"} =>
             \A o \in tosweep : o # Main => kind'[o] = kind[o] /\ open'[o] = open[o]
      <4>1. ASSUME gcstate \in {"sweepstring", "sweep"}, NEW o \in tosweep, o # Main
            PROVE  o \in Addr /\ open[o] = Nil
        BY <1>0, <4>1 DEF SweepInv, TypeInv, Node
      <4>2. c # Nil
        BY <1>0
      <4> QED
        BY <3>1, <3>3, <3>4, <4>1, <4>2
    <3> QED
      BY <3>1, <3>7, <3>8, SweepSame
  <2> QED
    BY <2>1, <2>2
<1>7. ASSUME luaC_fullgc PROVE SweepInv'
  <2>1. /\ UNCHANGED <<kind, open, tmudata, currentwhite, color>>
    BY <1>7 DEF luaC_fullgc, heap
  <2>2. CASE gcstate \in {"pause", "propagate"}
    <3>1. gcstate' = "sweepstring" /\ tosweep' = RootList \ Waiting /\ Waiting' = Waiting
      BY <1>7, <2>1, <2>2 DEF luaC_fullgc, Waiting
    <3>2. Waiting \subseteq OfKind({"userdata"})
      BY DEF GCInv, UdInv
    <3> QED
      BY <2>1, <3>1, <3>2, RootSwept
  <2>3. CASE gcstate \notin {"pause", "propagate"}
    <3>1. UNCHANGED <<gcstate, tosweep>>
      BY <1>7, <2>3 DEF luaC_fullgc
    <3> QED
      BY <2>1, <3>1, SweepOfHeap
  <2> QED
    BY <2>2, <2>3
<1>8. ASSUME atomic PROVE SweepInv'
  <2>1. /\ UNCHANGED <<kind, open>> /\ gcstate' = "sweepstring" /\ tmudata' = QueueNow
        /\ tosweep' = RootList \ InList(QueueNow)
    BY <1>8, AtomicIs
  <2>2. InList(QueueNow) \subseteq OfKind({"userdata"})
    BY <1>8, AtomicMarks DEF GCInv, UdInv
  <2>3. Waiting' = InList(QueueNow)
    BY <2>1 DEF Waiting, InList
  <2> QED
    BY <2>1, <2>2, <2>3, RootSwept
<1>9. ASSUME Finalize PROVE SweepInv'
  <2> DEFINE u == Head(tmudata)
  <2>1. /\ gcstate = "finalize" /\ tmudata # <<>> /\ tmudata' = Tail(tmudata)
        /\ color' = [color EXCEPT ![u] = currentwhite]
        /\ UNCHANGED <<gcstate, currentwhite, kind, open>>
    BY <1>9 DEF Finalize, GCTM
  <2>2. Waiting = InList(Tail(tmudata)) \cup {u} /\ u \in Addr
    BY <1>0, <2>1, Taken DEF Waiting, TypeInv
  <2> HIDE DEF u
  <2>3. Waiting' = InList(Tail(tmudata))
    BY <2>1 DEF Waiting, InList
  <2>4. \A o \in Node : color'[o] = IF o = u THEN currentwhite ELSE color[o]
    BY <1>0, <2>1, <2>2
  <2>5. Object' = Object
    BY <2>1 DEF Object, Live
  <2>6. \A o \in Object \ Waiting' : color'[o] = currentwhite
    BY <1>0, <2>1, <2>2, <2>3, <2>4 DEF SweepInv
  <2> QED
    BY <2>1, <2>5, <2>6 DEF SweepInv
<1>10. ASSUME FinalizeEnd PROVE SweepInv'
  <2>1. gcstate = "finalize" /\ gcstate' = "pause"
        /\ UNCHANGED <<kind, color, currentwhite, tmudata>>
    BY <1>10 DEF FinalizeEnd, heap
  <2>2. Object' = Object /\ Waiting' = Waiting
    BY <2>1 DEF Object, Live, Waiting
  <2> QED
    BY <1>0, <2>1, <2>2 DEF SweepInv
<1>11. ASSUME \/ \E a \in Addr : Drop(a)
              \/ \E o, v \in Addr : Get(o, v) \/ GetUpval(o, v)
              \/ \E c \in Addr, v \in Addr \cup {Nil} : SetSlot(c, v)
              \/ UNCHANGED vars
       PROVE  SweepInv'
  <2>1. UNCHANGED <<gcstate, tosweep, tmudata, currentwhite, kind, open, color>>
    BY <1>11 DEF Drop, Get, GetUpval, SetSlot, UNCHANGED_GC, vars, heap, gcvars
  <2> QED
    BY <2>1, SweepOfHeap
<1>12. ASSUME Start \/ FullMark \/ propagatemark \/ lua_close \/ CloseFinalize \/ luaC_freeall
       PROVE  SweepInv'
  <2>1. gcstate' \notin {"pause", "finalize", "sweepstring", "sweep"}
    BY <1>12 DEF Start, FullMark, propagatemark, lua_close, CloseFinalize, GCTM, luaC_freeall,
                 markroot
  <2> QED
    BY <1>1, <2>1
<1>13. ASSUME NEW a \in Addr, newlstr(a) \/ luaS_newudata(a) \/ luaC_link(a) PROVE SweepInv'
  <2>1. \E k \in Kind : Made(a, k)
    BY <1>13 DEF newlstr, luaS_newudata, luaC_link, Kind
  <2> QED
    BY <1>2, <2>1
<1> QED
  BY <1>3, <1>4, <1>5, <1>6, <1>7, <1>8, <1>9, <1>10, <1>11, <1>12, <1>13, SweepSwept
     DEF Next, Program, singlestep

-----------------------------------------------------------------------------
(* Every step keeps the marks.                                             *)

\* An object is queued once.
LEMMA ListedMark ==
    ASSUME NEW m \in MarkState, NEW S \in SUBSET Node, Listed(m)
    PROVE  Listed(MarkObjects(m, S))
<1> DEFINE q == MarkObjects(m, S)
           W == New(m, S)
<1>1. /\ q.again = m.again /\ q.weak = m.weak /\ q.gray = m.gray \cup Queued(m, S)
      /\ \A o \in Node : q.color[o] = IF o \notin W THEN m.color[o]
                                      ELSE IF AtOnce(o) THEN "black" ELSE "gray"
  BY MarkObjectsIs
<1>2. /\ Queued(m, S) = {o \in W : KindOf(o) \notin {"userdata", "upval", "string"}}
      /\ \A o \in W : m.color[o] \in {"white0", "white1"}
  BY DEF Queued, MarkedAtOnce, New, IsWhite
<1>3. W \subseteq Node /\ m.gray \subseteq Node /\ m.again \subseteq Node /\ m.weak \subseteq Node
      /\ Object \subseteq Node
  BY NewIsNode DEF MarkState, Object, Live, Node
<1>4. \A o \in Queued(m, S) : ~ AtOnce(o)
  BY <1>2 DEF AtOnce
<1> HIDE DEF q, W
<1>5. \A o \in m.gray \cup m.again \cup m.weak : m.color[o] = "gray" /\ o \notin W
  BY <1>2 DEF Listed
<1>6. q.gray \cap q.again = {} /\ q.gray \cap q.weak = {} /\ q.again \cap q.weak = {}
  BY <1>1, <1>2, <1>5 DEF Listed
<1>7. \A o \in q.gray \cup q.again \cup q.weak : q.color[o] = "gray"
  BY <1>1, <1>2, <1>3, <1>4, <1>5
<1>8. ASSUME NEW o \in Object, q.color[o] = "gray"
      PROVE  \/ o \in q.gray \cup q.again \cup q.weak
             \/ KindOf(o) = "string" \/ o \in Waiting
             \/ o \in Addr /\ open[o] # Nil
  <2>1. CASE o \in W
    <3>1. ~ AtOnce(o)
      BY <1>1, <1>3, <1>8, <2>1
    <3>2. KindOf(o) = "upval" => o \in Addr
      BY <1>8 DEF KindOf, Object, Live
    <3> QED
      BY <1>1, <1>2, <2>1, <3>1, <3>2 DEF AtOnce
  <2>2. CASE o \notin W
    BY <1>1, <1>3, <1>8, <2>2 DEF Listed
  <2> QED
    BY <2>1, <2>2
<1> QED
  BY <1>6, <1>7, <1>8 DEF Listed, q

\* propagatemark() leaves every gray object in one list.
LEMMA ListedPropagate ==
    ASSUME SoundHeap, NEW m \in MarkState, NEW S, S \subseteq m.gray, Listed(m)
    PROVE  Listed(Propagate(m, S))
<1> DEFINE t == Turned(m, S)
<1>1. S \in SUBSET Node /\ Object \subseteq Node
  BY DEF MarkState, Object, Live, Node
<1>2. /\ t \in MarkState /\ t.gray = m.gray \ S
      /\ t.weak = m.weak \cup {o \in S : KindOf(o) \in Weak}
      /\ t.again = m.again \cup {o \in S : KindOf(o) = "thread"}
      /\ \A o \in Node : t.color[o] = IF o \in S /\ KindOf(o) \notin Weak \cup {"thread"}
                                      THEN "black" ELSE m.color[o]
  BY <1>1, TurnedIs
<1> HIDE DEF t
<1>3. m.gray \subseteq Node /\ m.again \subseteq Node /\ m.weak \subseteq Node
  BY DEF MarkState
<1>4. t.gray \cap t.again = {} /\ t.gray \cap t.weak = {} /\ t.again \cap t.weak = {}
  BY <1>2 DEF Listed, Weak
<1>5. \A o \in t.gray \cup t.again \cup t.weak : t.color[o] = "gray"
  BY <1>2, <1>3 DEF Listed
<1>6. ASSUME NEW o \in Object, t.color[o] = "gray"
      PROVE  \/ o \in t.gray \cup t.again \cup t.weak
             \/ KindOf(o) = "string" \/ o \in Waiting
             \/ o \in Addr /\ open[o] # Nil
  BY <1>1, <1>2, <1>6 DEF Listed
<1>7. Listed(t)
  BY <1>4, <1>5, <1>6 DEF Listed
<1>8. Children(S) \in SUBSET Node
  <2>1. ASSUME NEW o \in Addr PROVE Strong(o) \subseteq Addr
    BY GCAssumption DEF Strong
  <2>2. Strong(Main) \subseteq Addr
    BY DEF SoundHeap, Object, Live
  <2> QED
    BY <1>1, <2>1, <2>2 DEF Children, Node
<1>9. Listed(MarkObjects(t, Children(S)))
  BY <1>2, <1>7, <1>8, ListedMark
<1> QED
  BY <1>9, PropagateIs DEF t

\* A mark phase does not lose what a program stores: q is what is marked in the heap as it
\* was, and B are upvalues that are closed.
LEMMA MarkMoves ==
    ASSUME GCInv, MarkTypes', ColorInv', NEW q, Listed(q),
           MarksGood(q, Late(q), Object \ garbage), NEW B, B \subseteq Object,
           SoundHeap, UNCHANGED <<tmudata, currentwhite>>,
           gray' = q.gray /\ grayagain' = q.again /\ weak' = q.weak,
           \A o \in Object : o \in Object' /\ KindOf(o)' = KindOf(o),
           \A o \in Object : color'[o] = IF o \in B THEN "black" ELSE q.color[o],
           \A o \in Object' : o \in Object \/ color'[o] = currentwhite,
           \A o \in B : q.color[o] = "gray" /\ KindOf(o) = "upval",
           \A u \in Addr : u \in Object /\ open[u] # Nil =>
               open'[u] # Nil \/ u \in B \/ u \notin Marked(q),
           \A o \in Object : q.color[o] = "black" =>
               Strong(o)' \subseteq Strong(o) \cup (Marked(q) \cap Object),
           \A o \in B : Strong(o)' \subseteq Marked(q) \cap Object,
           garbage' \subseteq garbage, Closed(Object \ garbage)'
    PROVE  MarkInv'
<1>0. /\ q \in MarkState /\ Main \in Marked(q) /\ Main \in Object /\ Main \notin Addr
      /\ Object \subseteq Node
      /\ currentwhite \in {"white0", "white1"} /\ otherwhite' = otherwhite
      /\ otherwhite # currentwhite
      /\ otherwhite \in {"white0", "white1"}
  BY GCAssumption DEF MarksGood, Object, Live, Node, GCInv, TypeInv, otherwhite
<1>1. Marks' = [color |-> color', gray |-> q.gray, again |-> q.again, weak |-> q.weak]
  BY DEF Marks
<1>2. Marks'.color = color' /\ Marks'.gray = q.gray /\ Marks'.again = q.again
      /\ Marks'.weak = q.weak
  BY <1>1
<1>3. \A o : o \in Object' => o \in Node
  BY DEF Object, Live, Node
<1>4. \A o \in Node : o \in Marked(Marks)' <=> color'[o] \notin {"white0", "white1"}
  BY <1>2 DEF Marked, IsWhite, Node
<1>5. \A o \in Node : o \in Marked(q) <=> q.color[o] \notin {"white0", "white1"}
  BY DEF Marked, IsWhite
<1>6. \A o : o \in Object' /\ o \in Marked(Marks)' <=> o \in Object /\ o \in Marked(q)
  BY <1>0, <1>3, <1>4, <1>5
<1>7. q.gray \cup q.again \cup q.weak \subseteq Marked(q) \cap Object
  BY DEF MarksGood
<1>8. \A o \in Object : o \in Late(q) => o \in Late(Marks)' \/ o \in B \/ o \notin Marked(q)
  <2>1. Waiting' = Waiting
    BY DEF Waiting
  <2> QED
    BY <1>2, <2>1 DEF Late
<1>9. \A o \in q.gray \cup q.again \cup q.weak : o \notin B /\ KindOf(o) # "upval"
  BY DEF MarksGood, Queueable, Weak
<1>10. ASSUME NEW o, o \in Object', o \in Marked(Marks)'
       PROVE  /\ o \in q.gray \/ o \in Late(Marks)' \/ Strong(o)' \subseteq Marked(Marks)'
              /\ KindOf(o)' \in Weak => o \in q.gray \cup q.weak
              /\ o \notin garbage
  <2>1. o \in Object /\ o \in Marked(q) /\ o \in Node /\ KindOf(o)' = KindOf(o)
    BY <1>0, <1>6, <1>10
  <2>2. o \in q.gray \cup Late(q) \/ Strong(o) \subseteq Marked(q)
    BY <2>1 DEF MarksGood
  <2>3. \A r : r \in Marked(q) /\ r \in Object => r \in Marked(Marks)'
    BY <1>6
  <2>4. o \in q.gray \/ o \in Late(Marks)' \/ Strong(o)' \subseteq Marked(Marks)'
    <3>1. CASE o \in B
      BY <2>3, <3>1
    <3>2. CASE o \notin B /\ q.color[o] = "black"
      <4>1. CASE o \in q.gray \cup Late(q)
        BY <1>8, <2>1, <3>2, <4>1
      <4>2. CASE Strong(o) \subseteq Marked(q)
        <5>1. Strong(o) \subseteq Object
          BY <2>1 DEF SoundHeap, Object
        <5> QED
          BY <2>1, <2>3, <3>2, <4>2, <5>1
      <4> QED
        BY <2>2, <4>1, <4>2
    <3>3. CASE o \notin B /\ q.color[o] # "black"
      <4>1. q.color[o] = "gray"
        BY <1>0, <1>5, <2>1, <3>3 DEF MarkState, Color
      <4>2. CASE KindOf(o) = "string"
        <5>1. o # Main /\ kind'[o] = "string"
          BY <2>1, <4>2 DEF KindOf
        <5>2. Strong(o)' = {}
          BY <5>1 DEF Strong
        <5> QED
          BY <5>2
      <4>3. CASE o \in q.gray \cup Late(q)
        BY <1>8, <2>1, <3>3, <4>3
      <4>4. o \in q.gray \cup Late(q) \/ KindOf(o) = "string"
        BY <2>1, <4>1 DEF Listed, Late
      <4> QED
        BY <4>2, <4>3, <4>4
    <3> QED
      BY <3>1, <3>2, <3>3
  <2>5. KindOf(o)' \in Weak => o \in q.gray \cup q.weak
    BY <2>1 DEF MarksGood
  <2>6. o \notin garbage
    BY <2>1 DEF MarksGood
  <2> QED
    BY <2>4, <2>5, <2>6
<1>11. MarksGood(Marks, Late(Marks), Object \ garbage)'
  <2>1. Marks' \in MarkState'
    BY DEF MarkTypes
  <2>2. Main \in Marked(Marks)' /\ Main \in Object'
    BY <1>0, <1>6
  <2>3. \A o \in q.gray \cup q.again \cup q.weak : o \in Marked(Marks)' /\ o \in Object'
    BY <1>6, <1>7
  <2>4. /\ \A o \in q.gray : KindOf(o)' \in Queueable
        /\ \A o \in q.again : KindOf(o)' \in {"table", "thread"}
        /\ \A o \in q.weak : KindOf(o)' \in Weak
    BY <1>7 DEF MarksGood
  <2>5. \A o \in Node : color'[o] = "black" =>
           KindOf(o)' \notin Weak \cup {"thread"} /\ (o \in Addr => open'[o] = Nil)
    BY DEF ColorInv, KindOf, Node, Weak
  <2>6. ASSUME NEW o, o \in Live' PROVE color'[o] # otherwhite'
    <3>1. o \in Object' /\ o # Main
      BY <1>0, <2>6 DEF Object, Live
    <3>2. CASE o \in Object
      <4>1. o \in Live
        BY <3>1, <3>2 DEF Object
      <4>2. q.color[o] # otherwhite
        BY <4>1 DEF MarksGood
      <4> QED
        BY <1>0, <3>2, <4>2
    <3> QED
      BY <1>0, <3>1, <3>2
  <2> QED
    BY <1>2, <1>10, <2>1, <2>2, <2>3, <2>4, <2>5, <2>6
       DEF MarksGood, Queueable, Weak, Node
<1>12. Listed(Marks)'
  <2>1. \A o \in q.gray \cup q.again \cup q.weak : color'[o] = "gray"
    BY <1>7, <1>9 DEF Listed
  <2>2. ASSUME NEW o, o \in Object', color'[o] = "gray"
        PROVE  \/ o \in q.gray \cup q.again \cup q.weak
               \/ KindOf(o)' = "string" \/ o \in Waiting'
               \/ o \in Addr /\ open'[o] # Nil
    <3>1. o \in Object /\ o \notin B /\ q.color[o] = "gray" /\ KindOf(o)' = KindOf(o)
      BY <1>0, <2>2
    <3>2. o \in Marked(q)
      BY <1>0, <1>5, <3>1
    <3>3. Waiting' = Waiting
      BY DEF Waiting
    <3> QED
      BY <3>1, <3>2, <3>3 DEF Listed
  <2> QED
    BY <1>2, <2>1, <2>2 DEF Listed
<1>13. \A a : a \in Live' => ~isdead(a)'
  BY <1>11 DEF MarksGood, isdead, Marks
<1> QED
  BY <1>11, <1>12, <1>13 DEF MarkInv

\* What the traversal of an object marks, one by one.
LEMMA StrongAre ==
    /\ Strong(Main) = held
    /\ \A a \in Addr : \A r :
        r \in Strong(a) <=>
          /\ r \in Addr
          /\ \/ kind[a] \in {"table", "weakv"} /\ r = key[a]
             \/ kind[a] = "upval" /\ r = UpvalValue(a)
             \/ kind[a] \notin {"weakv", "upval", "string", "free"} /\ r = val[a]
BY GCAssumption DEF Strong

\* What the traversal of an object marks after a step, one by one.
LEMMA StrongPrimed ==
    /\ Strong(Main)' = held'
    /\ \A a \in Addr : \A r :
        r \in Strong(a)' <=>
          /\ r \in Addr
          /\ \/ kind'[a] \in {"table", "weakv"} /\ r = key'[a]
             \/ kind'[a] = "upval" /\ r = (IF open'[a] = Nil THEN val'[a] ELSE val'[open'[a]])
             \/ kind'[a] \notin {"weakv", "upval", "string", "free"} /\ r = val'[a]
BY GCAssumption DEF Strong, UpvalValue

\* What holds while marking.
LEMMA MarkPhase ==
    ASSUME GCInv, gcstate = "propagate"
    PROVE  /\ SoundHeap /\ OpenIsUpval /\ Live = Alive /\ Object \subseteq Node
           /\ \A a \in Live : ~isdead(a)
           /\ MarksGood(Marks, Late(Marks), Object \ garbage) /\ Listed(Marks)
           /\ Closed(Object \ garbage) /\ held \subseteq Object \ garbage
           /\ Marks.color = color /\ Marks.gray = gray /\ Marks.again = grayagain
           /\ Marks.weak = weak
           /\ color[Main] # "black"
           /\ Main \in Object /\ Main \notin Addr /\ garbage \subseteq Live
<1>1. MarkInv
  BY DEF GCInv
<1>2. Main \in Object \ garbage /\ Object \subseteq Node /\ garbage \subseteq Live
  BY GCAssumption DEF Object, Node, Live, GCInv, GarbageInv
<1>3. held \subseteq Object \ garbage
  BY <1>1, <1>2, StrongAre DEF MarkInv, Closed
<1>4. color[Main] # "black"
  BY DEF GCInv, ColorInv, Node, KindOf
<1> QED
  BY <1>1, <1>2, <1>3, <1>4, HeapIsSound, NoneDead, GCAssumption DEF MarkInv, Marks

\* A step that leaves the colours and lists, and what black objects refer to, alone.
LEMMA MarkStays ==
    ASSUME GCInv, gcstate = "propagate", MarkTypes', ColorInv',
           UNCHANGED <<tmudata, currentwhite, lists>>,
           \A a \in Live : kind'[a] = kind[a] /\ color'[a] = color[a],
           color'[Main] = color[Main],
           \A a \in Live' : a \in Live \/ color'[a] = currentwhite,
           \A a \in Live : open[a] # Nil => open'[a] # Nil,
           \A a \in Live : color[a] = "black" =>
               Strong(a)' \subseteq Strong(a) \cup (Marked(Marks) \cap Object),
           garbage' \subseteq garbage,
           \A a \in Live' : a \notin garbage' => Strong(a)' \subseteq Live' \ garbage',
           held' \subseteq Live' \ garbage'
    PROVE  MarkInv'
<1>1. /\ SoundHeap /\ Listed(Marks) /\ MarksGood(Marks, Late(Marks), Object \ garbage)
      /\ Marks.color = color /\ Marks.gray = gray /\ Marks.again = grayagain
      /\ Marks.weak = weak /\ color[Main] # "black" /\ Main \notin Addr
  BY MarkPhase
<1>2. \A o : o \in Object <=> o = Main \/ o \in Live
  BY DEF Object
<1>3. \A o : o \in Object' <=> o = Main \/ o \in Live'
  BY DEF Object
<1>4. \A a \in Live : a \in Addr /\ kind[a] # "free" /\ kind'[a] # "free" /\ a \in Live'
  BY DEF Live
<1>5. \A o \in Object : o \in Object' /\ KindOf(o)' = KindOf(o)
  BY <1>2, <1>3, <1>4 DEF KindOf
<1>6. \A o \in Object : color'[o] = color[o]
  BY <1>2
<1>7. \A o \in Object' : o \in Object \/ color'[o] = currentwhite
  BY <1>2, <1>3
<1>8. \A u \in Addr : u \in Object /\ open[u] # Nil => open'[u] # Nil
  BY <1>1, <1>2
<1>9. \A o \in Object : color[o] = "black" =>
          Strong(o)' \subseteq Strong(o) \cup (Marked(Marks) \cap Object)
  BY <1>1, <1>2
<1>10. Closed(Object \ garbage)'
  <2>1. ASSUME NEW o, o \in Object', o \notin garbage' PROVE Strong(o)' \subseteq Live' \ garbage'
    BY <1>3, <2>1, StrongPrimed
  <2>2. \A o \in Object' \ garbage' : \A r \in Strong(o)' : r \in Object' \ garbage'
    BY <1>3, <2>1
  <2> QED
    BY <2>2 DEF Closed
<1> DEFINE B == {}
<1>11. /\ \A o \in Object : color'[o] = IF o \in B THEN "black" ELSE Marks.color[o]
       /\ \A o \in B : Marks.color[o] = "gray" /\ KindOf(o) = "upval"
       /\ \A o \in B : Strong(o)' \subseteq Marked(Marks) \cap Object
       /\ B \subseteq Object
  BY <1>1, <1>6
<1>12. PICK q : q = Marks
  OBVIOUS
<1>13. gray' = q.gray /\ grayagain' = q.again /\ weak' = q.weak
  BY <1>1, <1>12 DEF lists
<1> HIDE DEF B
<1> QED
  BY <1>1, <1>5, <1>7, <1>8, <1>9, <1>10, <1>11, <1>12, <1>13, MarkMoves

\* A step after which objects of X, and those open in them, refer to what the program holds.
LEMMA MarkStored ==
    ASSUME GCInv, gcstate = "propagate", MarkTypes', ColorInv',
           NEW q, Listed(q), MarksGood(q, Late(q), Object \ garbage),
           color' = q.color, gray' = q.gray, grayagain' = q.again, weak' = q.weak,
           UNCHANGED <<kind, open, held, tmudata, currentwhite, garbage>>, NEW X,
           \A a \in Addr : a \notin X => key'[a] = key[a] /\ val'[a] = val[a],
           \A a \in Addr : open[a] \in X => a \in X,
           \A a \in X : a \in Addr /\ Strong(a)' \subseteq Strong(a) \cup held,
           \A a \in X : q.color[a] = "black" =>
               Strong(a)' \subseteq Strong(a) \cup (Marked(q) \cap Object)
    PROVE  MarkInv'
<1>0. Main \notin Addr /\ Nil \notin Addr
  BY GCAssumption
<1>1. /\ SoundHeap /\ Closed(Object \ garbage) /\ held \subseteq Object \ garbage
      /\ Object \subseteq Node
  BY MarkPhase
<1>2. Object' = Object
  BY DEF Object, Live
<1>3. ASSUME NEW o \in Node, o \notin X PROVE Strong(o)' = Strong(o)
  <2>1. CASE o = Main
    BY <2>1, StrongAre, StrongPrimed
  <2>2. CASE o \in Addr
    <3>1. open[o] # Nil => open[o] \in Addr /\ open[o] \notin X
      BY <1>3, <2>2 DEF GCInv, TypeInv
    <3>2. UpvalValue(o) = IF open'[o] = Nil THEN val'[o] ELSE val'[open'[o]]
      BY <1>3, <2>2, <3>1 DEF UpvalValue
    <3>3. \A r : r \in Strong(o)' <=> r \in Strong(o)
      BY <1>3, <2>2, <3>2, StrongAre, StrongPrimed
    <3> QED
      BY <3>3
  <2> QED
    BY <2>1, <2>2 DEF Node
<1>4. \A o \in Object : o \in Object' /\ KindOf(o)' = KindOf(o)
  BY <1>2 DEF KindOf
<1>5. \A o \in Object : q.color[o] = "black" =>
          Strong(o)' \subseteq Strong(o) \cup (Marked(q) \cap Object)
  BY <1>1, <1>3
<1>6. Closed(Object \ garbage)'
  <2>1. ASSUME NEW o \in Object \ garbage PROVE Strong(o)' \subseteq Object \ garbage
    <3>1. Strong(o)' \subseteq Strong(o) \cup held
      BY <1>1, <1>3, <2>1
    <3> QED
      BY <1>1, <2>1, <3>1 DEF Closed
  <2> QED
    BY <1>2, <2>1 DEF Closed
<1> DEFINE B == {}
<1>7. /\ \A o \in Object : color'[o] = IF o \in B THEN "black" ELSE q.color[o]
      /\ \A o \in B : q.color[o] = "gray" /\ KindOf(o) = "upval"
      /\ \A o \in B : Strong(o)' \subseteq Marked(q) \cap Object
      /\ B \subseteq Object
      /\ \A o \in Object' : o \in Object \/ color'[o] = currentwhite
      /\ \A u \in Addr : u \in Object /\ open[u] # Nil =>
            open'[u] # Nil \/ u \in B \/ u \notin Marked(q)
  BY <1>2
<1> HIDE DEF B
<1> QED
  BY <1>1, <1>4, <1>5, <1>6, <1>7, MarkMoves

\* A step that changes no reference but those of the main thread, which reaches objects G
\* again.
LEMMA MarkHeld ==
    ASSUME GCInv, gcstate = "propagate", MarkTypes', ColorInv',
           UNCHANGED <<kind, key, val, open, color, tmudata, currentwhite, lists>>,
           NEW G, garbage' = garbage \ G, \A a \in G : a \in Live => Strong(a) \subseteq G,
           \A a \in held' : a \in held \/ (a \in Live /\ (a \in G \/ a \notin garbage))
    PROVE  MarkInv'
<1>1. /\ SoundHeap /\ Closed(Object \ garbage) /\ held \subseteq Object \ garbage
      /\ Main \notin Addr
  BY MarkPhase
<1>2. \A a : a \in Object <=> a = Main \/ a \in Live
  BY DEF Object
<1>3. Live' = Live
  BY DEF Live
<1>4. \A a \in Addr : Strong(a)' = Strong(a)
  <2>1. ASSUME NEW a \in Addr PROVE Strong(a)' = Strong(a)
    <3>1. UpvalValue(a) = IF open'[a] = Nil THEN val'[a] ELSE val'[open'[a]]
      BY DEF UpvalValue
    <3>2. \A r : r \in Strong(a)' <=> r \in Strong(a)
      BY <3>1, StrongAre, StrongPrimed
    <3> QED
      BY <3>2
  <2> QED
    BY <2>1
<1>5. \A a \in Live : a \in Addr /\ a \in Object
  BY <1>2 DEF Live
<1>6. ASSUME NEW a \in Live, a \notin garbage' PROVE Strong(a) \subseteq Live \ garbage'
  <2>1. Strong(a) \subseteq Live
    BY <1>1, <1>5 DEF SoundHeap
  <2>2. CASE a \notin garbage
    <3>1. Strong(a) \subseteq Object \ garbage
      BY <1>1, <1>5, <2>2 DEF Closed
    <3> QED
      BY <2>1, <3>1
  <2>3. CASE a \in G
    BY <2>1, <2>3
  <2> QED
    BY <1>6, <2>2, <2>3
<1>7. held \subseteq Live \ garbage
  <2>1. held \subseteq Addr
    BY DEF GCInv, TypeInv
  <2> QED
    BY <1>1, <1>2, <2>1
<1>8. held' \subseteq Live \ garbage'
  BY <1>7
<1>9. \A a \in Live : Strong(a)' = Strong(a)
  BY <1>4, <1>5
<1> QED
  BY <1>3, <1>6, <1>8, <1>9, MarkStays

\* Reading and dropping values does not disturb the marks.
LEMMA HeldMark ==
    ASSUME GCInv, gcstate = "propagate", MarkTypes', ColorInv'
    PROVE  /\ \A a \in Addr : Drop(a) \/ Intern(a) => MarkInv'
           /\ \A o, v \in Addr : Get(o, v) \/ GetUpval(o, v) => MarkInv'
<1>0. /\ Live = Alive /\ \A a \in Live : ~isdead(a)
      /\ Closed(Object \ garbage) /\ held \subseteq Object \ garbage
      /\ Main \notin Addr /\ Object = Live \cup {Main}
  BY MarkPhase DEF Object
<1>1. ASSUME NEW a \in Addr, Drop(a) PROVE MarkInv'
  <2> DEFINE G == {}
  <2>1. /\ UNCHANGED <<kind, key, val, open, color, tmudata, currentwhite, lists>>
        /\ garbage' = garbage \ G /\ held' \subseteq held
    BY <1>1 DEF Drop, UNCHANGED_GC
  <2>2. \A x \in G : x \in Live => Strong(x) \subseteq G
    OBVIOUS
  <2> HIDE DEF G
  <2> QED
    BY <2>1, <2>2, MarkHeld
<1>2. ASSUME NEW a \in Addr, Intern(a) PROVE MarkInv'
  <2> DEFINE G == {a}
  <2>1. a \in Live /\ kind[a] = "string"
    BY <1>2 DEF Intern, Live
  <2>2. /\ UNCHANGED <<kind, key, val, open, color, tmudata, currentwhite, lists>>
        /\ garbage' = garbage \ G /\ held' = held \cup {a}
    BY <1>0, <1>2, <2>1 DEF Intern, UNCHANGED_GC, Hold
  <2>3. \A x \in G : x \in Live => Strong(x) \subseteq G
    BY <2>1, StrongAre
  <2>4. \A x \in held' : x \in held \/ (x \in Live /\ (x \in G \/ x \notin garbage))
    BY <2>1, <2>2
  <2> HIDE DEF G
  <2> QED
    BY <2>2, <2>3, <2>4, MarkHeld
<1>3. ASSUME NEW o \in Addr, NEW v \in Addr, Get(o, v) PROVE MarkInv'
  <2> DEFINE G == Reach({v})
  <2>1. v \in Live
    BY <1>0, <1>3 DEF Get, GCInv, AliveInv, RefsGood
  <2>2. /\ UNCHANGED <<kind, key, val, open, color, tmudata, currentwhite, lists>>
        /\ garbage' = garbage \ G /\ held' = held \cup {v}
    BY <1>3 DEF Get, UNCHANGED_GC, Hold
  <2>3. v \in G /\ Closed(G)
    BY ReachIsLeast
  <2> HIDE DEF G
  <2>4. \A x \in G : x \in Live => Strong(x) \subseteq G
    BY <2>3 DEF Closed
  <2>5. \A x \in held' : x \in held \/ (x \in Live /\ (x \in G \/ x \notin garbage))
    BY <2>1, <2>2, <2>3
  <2> QED
    BY <2>2, <2>4, <2>5, MarkHeld
<1>4. ASSUME NEW f \in Addr, NEW v \in Addr, GetUpval(f, v) PROVE MarkInv'
  <2> DEFINE G == {}
  <2>1. /\ UNCHANGED <<kind, key, val, open, color, tmudata, currentwhite, lists>>
        /\ garbage' = garbage \ G /\ held' = held \cup {v}
    BY <1>4 DEF GetUpval, UNCHANGED_GC, Hold
  <2>2. PICK u \in Addr : u = val[f] /\ v \in Strong(u) /\ f \in held /\ kind[f] = "function"
    BY <1>4 DEF GetUpval
  <2>3. u \in Strong(f)
    BY <2>2, StrongAre
  <2>4. u \in Object \ garbage
    BY <1>0, <2>2, <2>3 DEF Closed
  <2>5. v \in Object \ garbage
    BY <1>0, <2>2, <2>4 DEF Closed
  <2>6. \A x \in held' : x \in held \/ (x \in Live /\ (x \in G \/ x \notin garbage))
    BY <1>0, <2>1, <2>5
  <2>7. \A x \in G : x \in Live => Strong(x) \subseteq G
    OBVIOUS
  <2> HIDE DEF G
  <2> QED
    BY <2>1, <2>6, <2>7, MarkHeld
<1> QED
  BY <1>1, <1>2, <1>3, <1>4

\* A new object is white and does not disturb the marks.
LEMMA MadeMark ==
    ASSUME GCInv, gcstate = "propagate", MarkTypes', ColorInv', NEW a \in Addr,
           NEW k \in Kind, Made(a, k), k # "upval"
    PROVE  MarkInv'
<1>0. /\ SoundHeap /\ Closed(Object \ garbage) /\ held \subseteq Object \ garbage
      /\ Main \notin Addr /\ Nil \notin Addr /\ Num \notin Addr /\ garbage \subseteq Live
  BY MarkPhase, GCAssumption
<1>1. /\ kind[a] = "free" /\ kind' = [kind EXCEPT ![a] = k]
      /\ color' = [color EXCEPT ![a] = currentwhite] /\ held' = held \cup {a}
      /\ UNCHANGED <<key, val, open, lists, garbage, tmudata, currentwhite>>
  BY DEF Made, UNCHANGED_GC, Hold
<1>2. /\ \A x \in Addr : kind'[x] = IF x = a THEN k ELSE kind[x]
      /\ \A x \in Node : color'[x] = IF x = a THEN currentwhite ELSE color[x]
      /\ k # "free"
  BY <1>1, MarksTyped DEF GCInv, TypeInv, Node, Kind
<1>3. \A x : x \in Live <=> x \in Addr /\ kind[x] # "free"
  BY DEF Live
<1>4. \A x : x \in Live' <=> x \in Live \/ x = a
  BY <1>1, <1>2, <1>3 DEF Live
<1>5. a \notin Live /\ key[a] = Num /\ val[a] = Nil
  BY <1>1, <1>3 DEF GCInv, ShapeInv
<1>6. ASSUME NEW x \in Live PROVE Strong(x)' = Strong(x)
  <2>1. x \in Addr /\ kind'[x] = kind[x]
    BY <1>2, <1>3, <1>5, <1>6
  <2>2. UpvalValue(x) = IF open'[x] = Nil THEN val'[x] ELSE val'[open'[x]]
    BY <1>1 DEF UpvalValue
  <2>3. \A r : r \in Strong(x)' <=> r \in Strong(x)
    BY <1>1, <2>1, <2>2, StrongAre, StrongPrimed
  <2> QED
    BY <2>3
<1>7. \A r : r \notin Strong(a)'
  BY <1>0, <1>1, <1>2, <1>5, StrongPrimed
<1>8. \A x \in Live : x \notin garbage => Strong(x) \subseteq Live \ garbage
  <2>1. ASSUME NEW x \in Live, x \notin garbage PROVE Strong(x) \subseteq Live \ garbage
    BY <1>0, <2>1 DEF Closed, Object, SoundHeap
  <2> QED
    BY <2>1
<1>9. held \subseteq Live \ garbage
  BY <1>0 DEF GCInv, TypeInv, Object
<1>10. \A x \in Live' : x \notin garbage' => Strong(x)' \subseteq Live' \ garbage'
  BY <1>1, <1>4, <1>6, <1>7, <1>8
<1>11. held' \subseteq Live' \ garbage'
  BY <1>0, <1>1, <1>4, <1>5, <1>9
<1>12. \A x \in Live : kind'[x] = kind[x] /\ color'[x] = color[x]
  BY <1>2, <1>3, <1>5 DEF Node
<1>13. color'[Main] = color[Main]
  BY <1>0, <1>2 DEF Node
<1>14. \A x \in Live' : x \in Live \/ color'[x] = currentwhite
  BY <1>2, <1>4 DEF Node
<1> QED
  BY <1>1, <1>6, <1>10, <1>11, <1>12, <1>13, <1>14, MarkStays

\* OP_CLOSURE makes the function, and makes or finds the upvalue.
LEMMA ClosureMark ==
    ASSUME GCInv, gcstate = "propagate", MarkTypes', ColorInv', NEW f \in Addr, NEW u \in Addr,
           NEW c \in Addr, Closure(f, u, c)
    PROVE  MarkInv'
<1>0. /\ SoundHeap /\ Closed(Object \ garbage) /\ held \subseteq Object \ garbage
      /\ Main \notin Addr /\ Nil \notin Addr /\ Num \notin Addr /\ garbage \subseteq Live
      /\ \A x \in Live : ~isdead(x)
  BY MarkPhase, GCAssumption
<1>1. /\ c \in held /\ kind[c] = "thread" /\ kind[f] = "free" /\ f # u /\ u # c
      /\ (open[u] = c /\ kind[u] = "upval") \/ kind[u] = "free"
      /\ kind' = [kind EXCEPT ![f] = "function", ![u] = "upval"]
      /\ color' = [color EXCEPT ![f] = currentwhite,
                       ![u] = IF kind[u] = "free" \/ isdead(u) THEN currentwhite ELSE @]
      /\ open' = [open EXCEPT ![u] = c] /\ val' = [val EXCEPT ![f] = u]
      /\ held' = held \cup {f} /\ garbage' = garbage \ {u}
      /\ UNCHANGED <<key, lists, tmudata, currentwhite>>
  BY DEF Closure, UNCHANGED_GC, Hold
<1>2. \A x : x \in Live <=> x \in Addr /\ kind[x] # "free"
  BY DEF Live
<1>3. /\ \A x \in Addr : kind'[x] = IF x = f THEN "function" ELSE IF x = u THEN "upval"
                                    ELSE kind[x]
      /\ \A x \in Addr : open'[x] = IF x = u THEN c ELSE open[x]
      /\ \A x \in Addr : val'[x] = IF x = f THEN u ELSE val[x]
      /\ key' = key /\ kind[f] = "free" /\ f # u
  BY <1>1 DEF GCInv, TypeInv
<1>4. \A x \in Node : color'[x] = IF x = f THEN currentwhite
                                  ELSE IF x = u /\ kind[u] = "free" THEN currentwhite
                                  ELSE color[x]
  <2>1. ~ (kind[u] # "free" /\ isdead(u))
    BY <1>0, <1>2
  <2> QED
    BY <1>1, <2>1, MarksTyped DEF GCInv, Node
<1>5. \A x : x \in Live' <=> x \in Live \/ x = f \/ x = u
  BY <1>2, <1>3 DEF Live
<1>6. f \notin Live /\ f # c
  BY <1>1, <1>2
<1>7. ASSUME NEW x \in Addr, open[x] # Nil
      PROVE  /\ kind[x] = "upval" /\ kind[open[x]] = "thread" /\ open[x] # f /\ open[x] \in Addr
  BY <1>1, <1>7, OpenInThread
<1>8. ASSUME NEW x \in Live PROVE Strong(x)' = Strong(x)
  <2>1. x \in Addr /\ x # f /\ kind'[x] = kind[x] /\ val'[x] = val[x] /\ open'[x] = open[x]
    BY <1>1, <1>2, <1>3, <1>6, <1>8
  <2>2. UpvalValue(x) = IF open'[x] = Nil THEN val'[x] ELSE val'[open'[x]]
    <3>1. open[x] # Nil => val'[open[x]] = val[open[x]]
      BY <1>3, <1>7, <2>1
    <3> QED
      BY <2>1, <3>1 DEF UpvalValue
  <2>3. \A r : r \in Strong(x)' <=> r \in Strong(x)
    BY <1>3, <2>1, <2>2, StrongAre, StrongPrimed
  <2> QED
    BY <2>3
<1>9. \A x \in Live : Strong(x) \subseteq Live
  BY <1>0 DEF SoundHeap, Object
<1>10. \A x \in Live : x \notin garbage => Strong(x) \subseteq Live \ garbage
  BY <1>0, <1>9 DEF Closed, Object
<1>11. held \subseteq Live \ garbage
  BY <1>0 DEF GCInv, TypeInv, Object
<1>12. \A r \in Strong(u)' : r \in Live \ garbage
  <2>1. \A r \in Strong(u)' : r = val[c] /\ r \in Addr
    BY <1>0, <1>3, <1>6, StrongPrimed
  <2>2. c \in Live \ garbage
    BY <1>1, <1>11
  <2>3. val[c] \in Addr => val[c] \in Strong(c)
    BY <1>1, StrongAre
  <2> QED
    BY <1>10, <2>1, <2>2, <2>3
<1>13. \A r \in Strong(f)' : r = u
  BY <1>3, StrongPrimed
<1>14. ASSUME NEW x \in Live', x \notin garbage' PROVE Strong(x)' \subseteq Live' \ garbage'
  <2>1. CASE x = f
    BY <1>1, <1>5, <1>13, <2>1
  <2>2. CASE x = u
    BY <1>1, <1>5, <1>12, <2>2
  <2>3. CASE x # f /\ x # u
    <3>1. x \in Live /\ x \notin garbage
      BY <1>1, <1>5, <1>14, <2>3
    <3> QED
      BY <1>1, <1>5, <1>8, <1>10, <3>1
  <2> QED
    BY <2>1, <2>2, <2>3
<1>15. held' \subseteq Live' \ garbage'
  BY <1>0, <1>1, <1>5, <1>6, <1>11
<1>16. \A x \in Live : kind'[x] = kind[x] /\ color'[x] = color[x]
  BY <1>1, <1>2, <1>3, <1>4, <1>6 DEF Node
<1>17. color'[Main] = color[Main]
  BY <1>0, <1>4 DEF Node
<1>18. \A x \in Live' : x \in Live \/ color'[x] = currentwhite
  BY <1>1, <1>2, <1>4, <1>5 DEF Node
<1>19. \A x \in Live : open[x] # Nil => open'[x] # Nil
  BY <1>0, <1>2, <1>3
<1> QED
  BY <1>1, <1>8, <1>14, <1>15, <1>16, <1>17, <1>18, <1>19, MarkStays

\* luaC_barrierf() while marking: a black object does not refer to what is not marked.
LEMMA ForwardGood ==
    ASSUME GCInv, gcstate = "propagate", NEW o \in Addr, NEW v \in held, BarrierForward(o, v)
    PROVE  \E q : /\ Listed(q) /\ MarksGood(q, Late(q), Object \ garbage)
                  /\ color' = q.color /\ gray' = q.gray /\ grayagain' = q.again
                  /\ weak' = q.weak
                  /\ q.color[o] = "black" => v \in Marked(q) /\ v \in Object
<1>1. /\ SoundHeap /\ OpenIsUpval /\ MarksGood(Marks, Late(Marks), Object \ garbage)
      /\ Listed(Marks) /\ Closed(Object \ garbage) /\ v \in Object /\ v \notin garbage
      /\ Marks.color = color /\ Marks.gray = gray /\ Marks.again = grayagain
      /\ Marks.weak = weak /\ Object \subseteq Node /\ Marks \in MarkState
  BY MarkPhase DEF GCInv, MarkTypes
<1>2. v \in Addr
  BY DEF GCInv, TypeInv
<1> DEFINE S == {v}
<1>3. S \subseteq Object /\ S \subseteq Object \ garbage /\ S \in SUBSET Node /\ v \in S
  BY <1>1
<1>4. PICK q : q = MarkObjects(Marks, S)
  OBVIOUS
<1>5. CASE color[o] = "black" /\ White(v)
  <2>1. color' = q.color /\ gray' = q.gray /\ grayagain' = q.again /\ weak' = q.weak
    BY <1>4, <1>5 DEF BarrierForward, SetMarks
  <2> HIDE DEF S
  <2>2. q.again = Marks.again /\ q.weak = Marks.weak
    BY <1>1, <1>3, <1>4, MarkObjectsIs
  <2>3. Late(q) = Late(Marks)
    BY <2>2 DEF Late
  <2>4. PICK X : X = Late(Marks)
    OBVIOUS
  <2>5. MarksGood(MarkObjects(Marks, S), X, Object \ garbage)
        /\ S \subseteq Marked(MarkObjects(Marks, S))
    BY <1>1, <1>3, <2>4, MarkObjectsGood
  <2>6. MarksGood(q, Late(q), Object \ garbage) /\ S \subseteq Marked(q)
    BY <1>4, <2>3, <2>4, <2>5
  <2>7. Listed(q)
    BY <1>1, <1>3, <1>4, ListedMark
  <2> QED
    BY <1>1, <1>3, <2>1, <2>6, <2>7
<1>6. CASE ~ (color[o] = "black" /\ White(v))
  <2>1. UNCHANGED <<color, lists>>
    BY <1>6 DEF BarrierForward
  <2>2. color[o] = "black" => v \in Marked(Marks)
    BY <1>1, <1>2, <1>6 DEF White, Marked, Node
  <2> QED
    BY <1>1, <2>1, <2>2 DEF lists
<1> QED
  BY <1>5, <1>6

\* luaC_barrierback(): the table is gray again, and queued for the atomic step.
LEMMA BackGood ==
    ASSUME GCInv, gcstate = "propagate", NEW t \in held, kind[t] \in Table, NEW vs,
           BarrierBack(t, vs)
    PROVE  \E q : /\ Listed(q) /\ MarksGood(q, Late(q), Object \ garbage)
                  /\ color' = q.color /\ gray' = q.gray /\ grayagain' = q.again
                  /\ weak' = q.weak
                  /\ q.color[t] = "black" => \A v \in vs \cap Addr : v \in Marked(q)
<1>1. /\ MarksGood(Marks, Late(Marks), Object \ garbage) /\ Listed(Marks)
      /\ Marks.color = color /\ Marks.gray = gray /\ Marks.again = grayagain
      /\ Marks.weak = weak /\ Object \subseteq Node /\ Marks \in MarkState
      /\ t \in Object /\ t \notin garbage
  BY MarkPhase DEF GCInv, MarkTypes
<1>2. t \in Addr /\ t # Main /\ KindOf(t) = kind[t]
  BY GCAssumption DEF GCInv, TypeInv, KindOf
<1>3. CASE color[t] = "black" /\ \E v \in vs : White(v)
  <2> DEFINE c == [color EXCEPT ![t] = "gray"]
  <2>1. PICK q : q = [color |-> c, gray |-> gray, again |-> grayagain \cup {t}, weak |-> weak]
    OBVIOUS
  <2>2. color' = q.color /\ gray' = q.gray /\ grayagain' = q.again /\ weak' = q.weak
    BY <1>3, <2>1 DEF BarrierBack
  <2>3. /\ color \in [Node -> Color] /\ c \in [Node -> Color] /\ gray \in SUBSET Node
        /\ grayagain \in SUBSET Node /\ weak \in SUBSET Node
        /\ \A o \in Node : c[o] = IF o = t THEN "gray" ELSE color[o]
    BY <1>1, <1>2, MarksTyped DEF Color, GCInv
  <2> HIDE DEF c
  <2>4. /\ q \in MarkState /\ q.color = c /\ q.gray = gray /\ q.again = grayagain \cup {t}
        /\ q.weak = weak /\ t \in Node
    BY <1>1, <2>1, <2>3 DEF MarkState
  <2>5. Marked(q) = Marked(Marks) /\ t \in Marked(q)
    BY <1>1, <1>3, <2>3, <2>4 DEF Marked, IsWhite
  <2>6. kind[t] = "table" /\ t \notin gray \cup weak
    BY <1>1, <1>2, <1>3, <2>4 DEF MarksGood, Listed, Table
  <2>7. \A o \in Late(Marks) : o \in Late(q)
    BY <1>1, <2>4 DEF Late
  <2>8. t \in Late(q)
    BY <2>4 DEF Late
  <2>9. /\ Main \in Marked(q)
        /\ q.gray \cup q.again \cup q.weak \subseteq Marked(q) \cap Object
        /\ \A o \in q.gray : KindOf(o) \in Queueable
        /\ \A o \in q.again : KindOf(o) \in {"table", "thread"}
        /\ \A o \in q.weak : KindOf(o) \in Weak
    BY <1>1, <1>2, <2>4, <2>5, <2>6 DEF MarksGood
  <2>10. /\ \A o \in Node : q.color[o] = "black" =>
               KindOf(o) \notin Weak \cup {"thread"} /\ (o \in Addr => open[o] = Nil)
         /\ \A o \in Live : q.color[o] # otherwhite
    BY <1>1, <2>3, <2>4 DEF MarksGood, otherwhite, Live, Node
  <2>11. /\ \A o \in Marked(q) \cap Object :
               o \in q.gray \cup Late(q) \/ Strong(o) \subseteq Marked(q)
         /\ \A o \in Marked(q) \cap Object : KindOf(o) \in Weak => o \in q.gray \cup q.weak
         /\ Marked(q) \cap Object \subseteq Object \ garbage
    BY <1>1, <2>4, <2>5, <2>7 DEF MarksGood
  <2>12. MarksGood(q, Late(q), Object \ garbage)
    BY <2>4, <2>9, <2>10, <2>11 DEF MarksGood
  <2>13. Listed(q)
    BY <1>1, <2>3, <2>4, <2>6 DEF Listed
  <2>14. q.color[t] # "black"
    BY <2>3, <2>4
  <2> QED
    BY <2>2, <2>12, <2>13, <2>14
<1>4. CASE ~ (color[t] = "black" /\ \E v \in vs : White(v))
  <2>1. UNCHANGED <<color, lists>>
    BY <1>4 DEF BarrierBack
  <2>2. color[t] = "black" => \A v \in vs \cap Addr : v \in Marked(Marks)
    BY <1>1, <1>4 DEF White, Marked, Node
  <2> QED
    BY <1>1, <2>1, <2>2 DEF lists
<1> QED
  BY <1>3, <1>4

\* luaC_barrierback() after a store into a table: the black table is gray again.
LEMMA SetTableMark ==
    ASSUME GCInv, gcstate = "propagate", MarkTypes', ColorInv', NEW t \in Addr,
           NEW k \in Addr \cup {Num}, NEW v \in Addr \cup {Nil, Num}, SetTable(t, k, v)
    PROVE  MarkInv'
<1>0. Nil \notin Addr /\ Num \notin Addr /\ Main \notin Addr
  BY GCAssumption
<1> DEFINE vs == IF val[t] = Nil THEN {k, v} ELSE {v}
<1>1. /\ t \in held /\ kind[t] \in Table /\ k \in held \cup {Num} /\ v \in held \cup {Nil, Num}
      /\ val[t] = Nil \/ key[t] = k
      /\ val' = [val EXCEPT ![t] = v] /\ key' = [key EXCEPT ![t] = IF v = Nil THEN Num ELSE k]
      /\ BarrierBack(t, vs)
      /\ UNCHANGED <<kind, open, held, tmudata, currentwhite, garbage>>
  BY DEF SetTable, UNCHANGED_GC
<1>2. PICK q : /\ Listed(q) /\ MarksGood(q, Late(q), Object \ garbage)
               /\ color' = q.color /\ gray' = q.gray /\ grayagain' = q.again
               /\ weak' = q.weak
               /\ q.color[t] = "black" => \A x \in vs \cap Addr : x \in Marked(q)
  BY <1>1, BackGood
<1>3. v \in vs /\ (val[t] = Nil => k \in vs)
  OBVIOUS
<1> HIDE DEF vs
<1>4. /\ \A a \in Addr : a # t => key'[a] = key[a] /\ val'[a] = val[a]
      /\ val'[t] = v /\ key'[t] \in {Num, k}
  BY <1>1 DEF GCInv, TypeInv
<1>5. held \subseteq Object /\ held \subseteq Addr
  BY MarkPhase DEF GCInv, TypeInv
<1>6. \A r : r \in Strong(t)' => r \in Addr /\ r \in {k, v}
  BY <1>0, <1>1, <1>4, StrongPrimed DEF Table, Weak
<1>7. Strong(t)' \subseteq held
  BY <1>0, <1>1, <1>6
<1>8. ASSUME q.color[t] = "black"
      PROVE  Strong(t)' \subseteq Strong(t) \cup (Marked(q) \cap Object)
  <2>1. kind[t] = "table"
    <3>1. KindOf(t) = kind[t] /\ t \in Node
      BY <1>0 DEF KindOf, Node
    <3> QED
      BY <1>1, <1>2, <1>8, <3>1 DEF MarksGood, Table
  <2>2. k \in Addr => k \in Strong(t) \/ k \in vs
    BY <1>1, <1>3, <2>1, StrongAre
  <2>3. ASSUME NEW r \in Strong(t)' PROVE r \in Strong(t) \cup (Marked(q) \cap Object)
    <3>1. r \in Addr /\ r \in {k, v} /\ r \in Object
      BY <1>5, <1>6, <1>7, <2>3
    <3> QED
      BY <1>2, <1>3, <1>8, <2>2, <3>1
  <2> QED
    BY <2>3
<1>9. \A a \in Addr : open[a] # t
  BY <1>1, OpenInThread, <1>0 DEF Table, Weak
<1> DEFINE X == {t}
<1>10. /\ \A a \in Addr : a \notin X => key'[a] = key[a] /\ val'[a] = val[a]
       /\ \A a \in Addr : open[a] \in X => a \in X
       /\ \A a \in X : a \in Addr /\ Strong(a)' \subseteq Strong(a) \cup held
       /\ \A a \in X : q.color[a] = "black" =>
               Strong(a)' \subseteq Strong(a) \cup (Marked(q) \cap Object)
  <2>1. ASSUME NEW a \in X
        PROVE  /\ a \in Addr /\ Strong(a)' \subseteq Strong(a) \cup held
               /\ q.color[a] = "black" =>
                     Strong(a)' \subseteq Strong(a) \cup (Marked(q) \cap Object)
    <3>1. a = t
      BY <2>1
    <3> QED
      BY <1>7, <1>8, <3>1
  <2> QED
    BY <1>4, <1>9, <2>1
<1> HIDE DEF X
<1> QED
  BY <1>1, <1>2, <1>10, MarkStored

\* luaC_barrierf() after a store into any other object: the value is marked.
LEMMA SetFieldMark ==
    ASSUME GCInv, gcstate = "propagate", MarkTypes', ColorInv', NEW o \in Addr, NEW v \in Addr,
           SetField(o, v)
    PROVE  MarkInv'
<1>1. /\ o \in held /\ v \in held /\ kind[o] \in {"userdata", "proto"}
      /\ val' = [val EXCEPT ![o] = v] /\ BarrierForward(o, v)
      /\ UNCHANGED <<kind, key, open, held, tmudata, currentwhite, garbage>>
  BY DEF SetField, UNCHANGED_GC
<1>2. PICK q : /\ Listed(q) /\ MarksGood(q, Late(q), Object \ garbage)
               /\ color' = q.color /\ gray' = q.gray /\ grayagain' = q.again
               /\ weak' = q.weak
               /\ q.color[o] = "black" => v \in Marked(q) /\ v \in Object
  BY <1>1, ForwardGood
<1>3. \A a \in Addr : val'[a] = IF a = o THEN v ELSE val[a]
  BY <1>1 DEF GCInv, TypeInv
<1>4. \A r \in Strong(o)' : r = v
  BY <1>1, <1>3, StrongPrimed
<1>5. \A a \in Addr : open[a] # o
  BY <1>1, OpenInThread, GCAssumption
<1> DEFINE X == {o}
<1>6. /\ \A a \in Addr : a \notin X => key'[a] = key[a] /\ val'[a] = val[a]
      /\ \A a \in Addr : open[a] \in X => a \in X
  BY <1>1, <1>3, <1>5
<1>7. ASSUME NEW a \in X
      PROVE  /\ a \in Addr /\ Strong(a)' \subseteq Strong(a) \cup held
             /\ q.color[a] = "black" =>
                   Strong(a)' \subseteq Strong(a) \cup (Marked(q) \cap Object)
  <2>1. a = o
    BY <1>7
  <2> QED
    BY <1>1, <1>2, <1>4, <2>1
<1> HIDE DEF X
<1> QED
  BY <1>1, <1>2, <1>6, <1>7, MarkStored

\* The slot of a coroutine, and the upvalues that are open in it.
LEMMA SlotMark ==
    ASSUME GCInv, gcstate = "propagate", MarkTypes', ColorInv', NEW q, Listed(q),
           MarksGood(q, Late(q), Object \ garbage),
           color' = q.color, gray' = q.gray, grayagain' = q.again, weak' = q.weak,
           NEW c \in Addr, kind[c] = "thread", NEW v, v \in held \cup {Nil},
           val' = [val EXCEPT ![c] = v],
           UNCHANGED <<kind, key, open, held, tmudata, currentwhite, garbage>>
    PROVE  MarkInv'
<1> DEFINE X == {c} \cup OpenIn(c)
<1>0. Nil \notin Addr /\ Num \notin Addr /\ Main \notin Addr
  BY GCAssumption
<1>1. \A a \in Addr : val'[a] = IF a = c THEN v ELSE val[a]
  BY DEF GCInv, TypeInv
<1>2. \A a \in Addr : a \notin X => key'[a] = key[a] /\ val'[a] = val[a]
  BY <1>1
<1>3. \A a \in OpenIn(c) : a \in Addr /\ kind[a] = "upval" /\ open[a] = c
  BY DEF OpenIn, OfKind
<1>4. ASSUME NEW a \in Addr, open[a] \in X PROVE a \in X
  <2>1. open[a] # Nil
    BY <1>0, <1>3, <1>4
  <2>2. kind[a] = "upval" /\ kind[open[a]] = "thread"
    BY <2>1, OpenInThread
  <2>3. open[a] = c
    BY <1>3, <1>4, <2>2
  <2> QED
    BY <2>2, <2>3 DEF OpenIn, OfKind
<1>5. ASSUME NEW a \in X
      PROVE  /\ a \in Addr /\ Strong(a)' \subseteq Strong(a) \cup held
             /\ q.color[a] # "black"
  <2>1. a \in Addr /\ ((kind[a] = "thread" /\ a = c) \/ (kind[a] = "upval" /\ open[a] = c))
    BY <1>3, <1>5
  <2>2. c # Nil
    BY <1>0
  <2>3. \A r : r \in Strong(a)' => r \in Addr /\ r = v
    BY <1>1, <2>1, <2>2, StrongPrimed
  <2>4. a \in Node /\ KindOf(a) = kind[a]
    BY <1>0, <2>1 DEF Node, KindOf
  <2>5. q.color[a] # "black"
    BY <2>1, <2>2, <2>4 DEF MarksGood
  <2> QED
    BY <1>0, <2>1, <2>3, <2>5
<1> HIDE DEF X
<1> QED
  BY <1>2, <1>4, <1>5, MarkStored

\* A store into the stack of a coroutine needs no barrier: a thread is never black.
LEMMA SetSlotMark ==
    ASSUME GCInv, gcstate = "propagate", MarkTypes', ColorInv', NEW c \in Addr,
           NEW v \in Addr \cup {Nil}, SetSlot(c, v)
    PROVE  MarkInv'
<1>1. /\ kind[c] = "thread" /\ v \in held \cup {Nil} /\ val' = [val EXCEPT ![c] = v]
      /\ UNCHANGED <<kind, key, open, held, tmudata, color, currentwhite, lists, garbage>>
  BY DEF SetSlot, UNCHANGED_GC
<1>2. PICK q : q = Marks
  OBVIOUS
<1>3. /\ Listed(q) /\ MarksGood(q, Late(q), Object \ garbage)
      /\ color' = q.color /\ gray' = q.gray /\ grayagain' = q.again /\ weak' = q.weak
  BY <1>1, <1>2, MarkPhase DEF lists
<1> QED
  BY <1>1, <1>3, SlotMark

\* OP_SETUPVAL marks the value of a black upvalue; an open one is marked again.
LEMMA SetUpvalMark ==
    ASSUME GCInv, gcstate = "propagate", MarkTypes', ColorInv', NEW f \in Addr, NEW v \in Addr,
           SetUpval(f, v)
    PROVE  MarkInv'
<1>1. PICK u \in Addr :
      /\ Running /\ f \in held /\ kind[f] = "function" /\ v \in held /\ u = val[f]
      /\ val' = [val EXCEPT ![IF open[u] = Nil THEN u ELSE open[u]] = v]
      /\ BarrierForward(u, v)
      /\ UNCHANGED <<kind, key, open, held, tmudata, currentwhite, garbage>>
  BY DEF SetUpval, UNCHANGED_GC
<1>2. kind[u] = "upval"
  BY <1>1, Captured
<1>3. PICK q : /\ Listed(q) /\ MarksGood(q, Late(q), Object \ garbage)
               /\ color' = q.color /\ gray' = q.gray /\ grayagain' = q.again
               /\ weak' = q.weak
               /\ q.color[u] = "black" => v \in Marked(q) /\ v \in Object
  BY <1>1, ForwardGood
<1>4. CASE open[u] # Nil
  <2>1. kind[open[u]] = "thread" /\ open[u] \in Addr /\ val' = [val EXCEPT ![open[u]] = v]
    BY <1>1, <1>4, OpenInThread
  <2> QED
    BY <1>1, <1>3, <2>1, SlotMark
<1>5. CASE open[u] = Nil
  <2>1. \A a \in Addr : val'[a] = IF a = u THEN v ELSE val[a]
    BY <1>1, <1>5 DEF GCInv, TypeInv
  <2>2. \A r \in Strong(u)' : r = v
    BY <1>1, <1>2, <1>5, <2>1, StrongPrimed
  <2>3. \A a \in Addr : open[a] # u
    BY <1>2, OpenInThread, GCAssumption
  <2> DEFINE X == {u}
  <2>4. /\ \A a \in Addr : a \notin X => key'[a] = key[a] /\ val'[a] = val[a]
        /\ \A a \in Addr : open[a] \in X => a \in X
    BY <1>1, <2>1, <2>3
  <2>5. ASSUME NEW a \in X
        PROVE  /\ a \in Addr /\ Strong(a)' \subseteq Strong(a) \cup held
               /\ q.color[a] = "black" =>
                     Strong(a)' \subseteq Strong(a) \cup (Marked(q) \cap Object)
    <3>1. a = u
      BY <2>5
    <3> QED
      BY <1>1, <1>3, <2>2, <3>1
  <2> HIDE DEF X
  <2> QED
    BY <1>1, <1>3, <2>4, <2>5, MarkStored
<1> QED
  BY <1>4, <1>5

\* What marking a value marks does not depend on what is gray or black, and has no upvalue
\* when the value is none.
LEMMA LinkedMarks ==
    ASSUME GCInv, gcstate = "propagate", NEW c \in Addr, CloseUpvals(c), NEW S, S \subseteq Object,
           S \cap OfKind({"upval"}) = {}
    PROVE  LET n == MarkObjects(Linked(c), S)
               q == MarkObjects(Marks, S)
           IN  /\ n.gray = q.gray /\ n.again = q.again /\ n.weak = q.weak
               /\ \A o \in Node : n.color[o] = IF o \in Visited(c) THEN "black" ELSE q.color[o]
               /\ \A o \in Node : color[o] \notin {"white0", "white1"} => q.color[o] = color[o]
               /\ \A o \in OpenIn(c) : q.color[o] = color[o]
<1> DEFINE n == MarkObjects(Linked(c), S)
           q == MarkObjects(Marks, S)
           m == Linked(c)
<1>0. /\ SoundHeap /\ Object \subseteq Node /\ Marks \in MarkState /\ m \in MarkState
      /\ S \in SUBSET Node /\ Marks.color = color /\ Main \notin Addr
      /\ \A u \in OpenIn(c) : u \in Addr /\ kind[u] = "upval"
  BY MarkPhase, CloseUpvalsIs DEF GCInv, MarkTypes
<1>1. /\ m.gray = Marks.gray /\ m.again = Marks.again /\ m.weak = Marks.weak
      /\ \A o \in Node : m.color[o] = IF o \in Visited(c) THEN "black" ELSE color[o]
  BY <1>0 DEF Linked, LinkedColor, Marks
<1>2. \A o \in Visited(c) : color[o] = "gray" /\ o \in Node
  BY <1>0 DEF Visited, StillAlive, Node
<1>3. \A o \in Node : IsWhite(m.color, o) <=> IsWhite(color, o)
  BY <1>1, <1>2 DEF IsWhite
<1> HIDE DEF m
<1>4. ASSUME NEW Q, Q \subseteq Object, Q \cap OfKind({"upval"}) = {}
      PROVE  /\ Through(m, Q) = Through(Marks, Q) /\ Through(m, Q) \subseteq Object
             /\ Through(m, Q) \cap OfKind({"upval"}) = {}
  <2>1. \A x \in Q : IsWhite(m.color, x) <=> IsWhite(Marks.color, x)
    BY <1>0, <1>3, <1>4
  <2>2. Through(m, Q) = Through(Marks, Q)
    BY <2>1 DEF Through
  <2>3. ASSUME NEW x \in Q, KindOf(x) \in MarkedAtOnce
        PROVE  Strong(x) \subseteq Object /\ Strong(x) \cap OfKind({"upval"}) = {}
    <3>1. x # Main /\ x \in Object
      BY <1>4, <2>3 DEF KindOf, MarkedAtOnce
    <3>2. KindOf(x) = "userdata" => Strong(x) \subseteq OfKind(Table)
      BY <1>0, <3>1 DEF SoundHeap
    <3>3. KindOf(x) = "upval" => Strong(x) \cap OfKind({"upval"}) = {}
      BY <1>0, <3>1 DEF SoundHeap
    <3>4. Strong(x) \subseteq Object
      BY <1>0, <3>1 DEF SoundHeap, Object
    <3> QED
      BY <2>3, <3>2, <3>3, <3>4 DEF MarkedAtOnce, OfKind, Table, Weak
  <2> QED
    BY <1>4, <2>2, <2>3 DEF Through
<1>5. PICK A : A = Through(m, S) /\ A = Through(Marks, S) /\ A \subseteq Object
               /\ A \cap OfKind({"upval"}) = {}
  BY <1>4
<1>6. PICK T : T = Through(m, A) /\ T = Through(Marks, A) /\ T \subseteq Object
               /\ T \cap OfKind({"upval"}) = {}
  BY <1>4, <1>5
<1>7. New(m, S) = {o \in T : IsWhite(m.color, o)}
      /\ New(Marks, S) = {o \in T : IsWhite(color, o)}
  BY <1>0, <1>5, <1>6 DEF New
<1>8. PICK W : W = New(m, S) /\ W = New(Marks, S) /\ W = {o \in T : IsWhite(color, o)}
  BY <1>0, <1>3, <1>6, <1>7
<1>9. Queued(m, S) = Queued(Marks, S)
  BY <1>8 DEF Queued
<1>10. /\ n.again = m.again /\ n.weak = m.weak /\ n.gray = m.gray \cup Queued(m, S)
       /\ \A o \in Node : n.color[o] = IF o \notin W THEN m.color[o]
                                       ELSE IF AtOnce(o) THEN "black" ELSE "gray"
  <2> DEFINE p == MarkObjects(m, S)
  <2>1. m \in MarkState /\ S \in SUBSET Node
    BY <1>0
  <2>2. /\ p.again = m.again /\ p.weak = m.weak /\ p.gray = m.gray \cup Queued(m, S)
        /\ \A o \in Node : p.color[o] = IF o \notin New(m, S) THEN m.color[o]
                                        ELSE IF AtOnce(o) THEN "black" ELSE "gray"
    BY <2>1, MarkObjectsIs
  <2>3. n = p
    BY DEF m
  <2> HIDE DEF p, n
  <2> QED
    BY <1>8, <2>2, <2>3
<1>11. /\ q.again = Marks.again /\ q.weak = Marks.weak
       /\ q.gray = Marks.gray \cup Queued(Marks, S)
       /\ \A o \in Node : q.color[o] = IF o \notin W THEN color[o]
                                       ELSE IF AtOnce(o) THEN "black" ELSE "gray"
  <2>1. /\ q.again = Marks.again /\ q.weak = Marks.weak
        /\ q.gray = Marks.gray \cup Queued(Marks, S)
        /\ \A o \in Node : q.color[o] = IF o \notin New(Marks, S) THEN Marks.color[o]
                                        ELSE IF AtOnce(o) THEN "black" ELSE "gray"
    BY <1>0, MarkObjectsIs
  <2> HIDE DEF q
  <2> QED
    BY <1>0, <1>8, <2>1
<1> HIDE DEF n, q
<1>12. \A o \in Visited(c) : o \notin W
  BY <1>2, <1>8 DEF IsWhite
<1>13. \A o \in OpenIn(c) : o \notin W /\ o \in Node
  BY <1>0, <1>6, <1>8 DEF OfKind, Node
<1>14. \A o \in Node : n.color[o] = IF o \in Visited(c) THEN "black" ELSE q.color[o]
  BY <1>1, <1>10, <1>11, <1>12
<1>15. \A o \in Node : color[o] \notin {"white0", "white1"} => q.color[o] = color[o]
  BY <1>8, <1>11 DEF IsWhite
<1>16. \A o \in OpenIn(c) : q.color[o] = color[o]
  BY <1>11, <1>13
<1> QED
  BY <1>1, <1>9, <1>10, <1>11, <1>14, <1>15, <1>16 DEF n, q, m

\* luaC_linkupval(): a gray upvalue that is closed becomes black and its value is marked.
LEMMA CloseUpvalsMark ==
    ASSUME GCInv, gcstate = "propagate", MarkTypes', ColorInv', NEW c \in Addr, CloseUpvals(c)
    PROVE  MarkInv'
<1> DEFINE S == {val[c]} \cap Addr
<1>0. /\ SoundHeap /\ OpenIsUpval /\ Object \subseteq Node /\ \A a \in Live : ~isdead(a)
      /\ MarksGood(Marks, Late(Marks), Object \ garbage) /\ Listed(Marks)
      /\ Closed(Object \ garbage) /\ held \subseteq Object \ garbage
      /\ Marks.color = color /\ Marks.gray = gray /\ Marks.again = grayagain
      /\ Marks.weak = weak /\ Main \notin Addr /\ Nil \notin Addr /\ Marks \in MarkState
  BY MarkPhase, GCAssumption DEF GCInv, MarkTypes
<1>1. /\ Ended(OpenIn(c) \ StillAlive(c), StillAlive(c), {c})
      /\ SetMarks(IF gcstate = "propagate" /\ Visited(c) # {}
                  THEN MarkObjects(Linked(c), S) ELSE Linked(c))
      /\ kind[c] = "thread" /\ c \in held
      /\ \A u \in OpenIn(c) : u \in Addr /\ kind[u] = "upval" /\ open[u] = c
      /\ UNCHANGED <<currentwhite, tmudata>>
  BY CloseUpvalsIs
<1>2. StillAlive(c) = OpenIn(c)
  <2>1. \A u \in OpenIn(c) : u \in Live
    BY <1>1 DEF Live
  <2> QED
    BY <1>0, <2>1 DEF StillAlive
<1>3. \A u : u \in OpenIn(c) <=> u \in Addr /\ open[u] = c
  <2>1. c # Nil
    BY <1>0
  <2>2. \A u \in Addr : open[u] = c => kind[u] = "upval"
    BY <2>1 DEF GCInv, ShapeInv
  <2> QED
    BY <2>2 DEF OpenIn, OfKind
<1>4. /\ \A a \in Addr : kind'[a] = kind[a] /\ key'[a] = key[a]
      /\ \A a \in Addr : val'[a] = IF a = c THEN Nil ELSE IF open[a] = c THEN val[c] ELSE val[a]
      /\ \A a \in Addr : open'[a] = IF open[a] = c THEN Nil ELSE open[a]
      /\ garbage' = garbage /\ held' = held
  <2>1. /\ kind' = [a \in Addr |-> IF a \in {} THEN "free" ELSE kind[a]]
        /\ key' = [a \in Addr |-> IF a \in {} THEN Num ELSE key[a]]
        /\ val' = [a \in Addr |-> IF a \in {} \cup {c} THEN Nil
                                  ELSE IF a \in OpenIn(c) THEN UpvalValue(a) ELSE val[a]]
        /\ open' = [a \in Addr |-> IF a \in {} \cup OpenIn(c) THEN Nil ELSE open[a]]
        /\ garbage' = garbage \ {} /\ held' = held
    BY <1>1, <1>2 DEF Ended
  <2>2. \A a \in Addr : open[a] = c => UpvalValue(a) = val[c]
    BY <1>0 DEF UpvalValue
  <2> QED
    BY <1>3, <2>1, <2>2
<1>5. ASSUME NEW o \in Node PROVE Strong(o)' \subseteq Strong(o)
  <2>1. CASE o = Main
    BY <1>4, <2>1, StrongAre, StrongPrimed
  <2>2. CASE o \in Addr
    <3>1. open[o] # Nil => open[o] \in Addr /\ kind[open[o]] = "thread"
      BY <2>2, OpenInThread
    <3>2. open[o] # Nil => open[open[o]] = Nil
      <4>1. open[o] # Nil /\ open[open[o]] # Nil => kind[open[o]] = "upval"
        BY <3>1, OpenInThread
      <4> QED
        BY <3>1, <4>1
    <3>3. ASSUME NEW r \in Strong(o)' PROVE r \in Strong(o)
      <4>1. UpvalValue(o) = IF open[o] = Nil THEN val[o] ELSE val[open[o]]
        BY DEF UpvalValue
      <4>2. kind[c] = "thread" /\ kind'[o] = kind[o] /\ key'[o] = key[o]
            /\ (open[o] = c => kind[o] = "upval")
        BY <1>1, <1>3, <1>4, <2>2
      <4>3. r \in Addr /\ r # Nil
        BY <1>0, <2>2, <3>3, StrongPrimed
      <4>4. CASE kind[o] = "upval"
        <5>1. r = IF open'[o] = Nil THEN val'[o] ELSE val'[open'[o]]
          BY <2>2, <3>3, <4>2, <4>4, StrongPrimed
        <5>2. o # c
          BY <1>1, <4>4
        <5>3. r = UpvalValue(o)
          BY <1>0, <1>4, <2>2, <3>1, <3>2, <4>1, <4>3, <5>1, <5>2
        <5> QED
          BY <2>2, <4>3, <4>4, <5>3, StrongAre
      <4>5. CASE kind[o] # "upval"
        <5>1. open[o] # c /\ (val'[o] = val[o] \/ val'[o] = Nil)
          BY <1>4, <2>2, <4>2, <4>5
        <5> QED
          BY <2>2, <3>3, <4>2, <4>3, <4>5, <5>1, StrongAre, StrongPrimed
      <4> QED
        BY <4>4, <4>5
    <3> QED
      BY <3>3
  <2> QED
    BY <2>1, <2>2 DEF Node
<1>6. Object' = Object
  <2>1. \A o : o \in Object' <=> o \in Object
    BY <1>4 DEF Object, Live
  <2> QED
    BY <2>1
<1>7. \A o \in Object : o \in Object' /\ KindOf(o)' = KindOf(o)
  BY <1>4, <1>6 DEF KindOf, Object, Live
<1>8. Closed(Object \ garbage)'
  <2>1. \A o \in Object \ garbage : Strong(o)' \subseteq Object \ garbage
    BY <1>0, <1>5 DEF Closed
  <2> QED
    BY <1>4, <1>6, <2>1 DEF Closed
<1>9. /\ S \subseteq Object \ garbage /\ S \subseteq Object /\ S \cap OfKind({"upval"}) = {}
  <2>1. \A r \in S : r \in Strong(c) /\ r \in Refs(c)
    BY <1>1, StrongAre, StrongInRefs
  <2>2. Strong(c) \subseteq Object \ garbage
    BY <1>0, <1>1 DEF Closed
  <2>3. Refs(c) \cap OfKind({"upval"}) = {}
    <3>1. c \in Alive
      BY CloseUpvalsIs
    <3> QED
      BY <1>1, <3>1 DEF GCInv, AliveInv, RefsGood
  <2> QED
    BY <2>1, <2>2, <2>3
<1>10. /\ \A u \in Visited(c) : u \in OpenIn(c) /\ color[u] = "gray"
       /\ \A u \in OpenIn(c) : u \in Visited(c) \/ color[u] \in {"white0", "white1"}
  <2>1. \A u \in OpenIn(c) : u \in Node /\ color[u] # "black"
    BY <1>0, <1>1 DEF MarksGood, Node
  <2> QED
    BY <1>0, <1>2, <2>1, MarksTyped DEF Visited, Color, GCInv
<1>11. \A u \in OpenIn(c) : u \in Object /\ u # Main /\ KindOf(u) = "upval"
  BY <1>0, <1>1 DEF Object, Live, KindOf
<1>12. ASSUME NEW q, Listed(q), MarksGood(q, Late(q), Object \ garbage),
              gray' = q.gray, grayagain' = q.again, weak' = q.weak, NEW B, B = Visited(c),
              \A o \in Node : color'[o] = IF o \in B THEN "black" ELSE q.color[o],
              \A u \in OpenIn(c) : q.color[u] = color[u],
              B # {} => S \subseteq Marked(q)
       PROVE  MarkInv'
  <2>1. B \subseteq Object /\ \A o \in B : q.color[o] = "gray" /\ KindOf(o) = "upval"
    BY <1>10, <1>11, <1>12
  <2>2. \A o \in Object : color'[o] = IF o \in B THEN "black" ELSE q.color[o]
    BY <1>0, <1>12
  <2>3. ASSUME NEW u \in Addr, u \in Object, open[u] # Nil
        PROVE  open'[u] # Nil \/ u \in B \/ u \notin Marked(q)
    <3>1. CASE open[u] = c
      BY <1>3, <1>10, <1>12, <3>1 DEF Marked, IsWhite
    <3>2. CASE open[u] # c
      BY <1>4, <2>3, <3>2
    <3> QED
      BY <3>1, <3>2
  <2>4. \A o \in B : Strong(o)' \subseteq Marked(q) \cap Object
    <3>1. ASSUME NEW o \in B, NEW r \in Strong(o)' PROVE r \in S
      <4>1. o \in Addr /\ kind[o] = "upval" /\ open[o] = c /\ o \in Node
        BY <1>1, <1>10, <1>12, <3>1 DEF Node
      <4>2. r \in Strong(o)
        BY <1>5, <3>1, <4>1
      <4>3. r = UpvalValue(o) /\ r \in Addr
        BY <4>1, <4>2, StrongAre
      <4> QED
        BY <1>0, <4>1, <4>3 DEF UpvalValue
    <3> QED
      BY <1>9, <1>12, <3>1
  <2>5. \A o \in Object : q.color[o] = "black" =>
            Strong(o)' \subseteq Strong(o) \cup (Marked(q) \cap Object)
    BY <1>0, <1>5
  <2>6. \A o \in Object' : o \in Object \/ color'[o] = currentwhite
    BY <1>6
  <2>7. SoundHeap /\ UNCHANGED <<tmudata, currentwhite>> /\ garbage' \subseteq garbage
    BY <1>0, <1>1, <1>4
  <2> QED
    BY <1>7, <1>8, <1>12, <2>1, <2>2, <2>3, <2>4, <2>5, <2>6, <2>7, MarkMoves
<1>13. PICK B : B = Visited(c)
  OBVIOUS
<1> HIDE DEF S
<1>14. CASE B # {}
  <2>1. PICK X : X = Late(Marks)
    OBVIOUS
  <2>2. MarksGood(MarkObjects(Marks, S), X, Object \ garbage)
        /\ S \subseteq Marked(MarkObjects(Marks, S))
    BY <1>0, <1>9, <2>1, MarkObjectsGood
  <2>3. S \in SUBSET Node
    BY <1>0, <1>9
  <2>4. PICK q : q = MarkObjects(Marks, S)
    OBVIOUS
  <2>5. q.again = Marks.again /\ q.weak = Marks.weak
    BY <1>0, <2>3, <2>4, MarkObjectsIs
  <2>6. Late(q) = Late(Marks)
    BY <2>5 DEF Late
  <2>7. MarksGood(q, Late(q), Object \ garbage) /\ S \subseteq Marked(q)
    BY <2>1, <2>2, <2>4, <2>6
  <2>8. Listed(q)
    BY <1>0, <2>3, <2>4, ListedMark
  <2>9. SetMarks(MarkObjects(Linked(c), S))
    BY <1>1, <1>13, <1>14
  <2>10. /\ gray' = q.gray /\ grayagain' = q.again /\ weak' = q.weak
         /\ \A o \in Node : color'[o] = IF o \in B THEN "black" ELSE q.color[o]
         /\ \A o \in OpenIn(c) : q.color[o] = color[o]
    BY <1>9, <1>13, <2>4, <2>9, LinkedMarks DEF SetMarks
  <2> QED
    BY <1>12, <1>13, <2>7, <2>8, <2>10
<1>15. CASE B = {}
  <2>1. SetMarks(Linked(c))
    BY <1>1, <1>13, <1>15
  <2>2. PICK q : q = Marks
    OBVIOUS
  <2>3. color' = LinkedColor(c) /\ gray' = q.gray /\ grayagain' = q.again /\ weak' = q.weak
    BY <2>1, <2>2 DEF SetMarks, Linked, Marks
  <2>4. \A o \in Node : color'[o] = IF o \in B THEN "black" ELSE q.color[o]
    BY <1>0, <1>13, <1>15, <2>2, <2>3 DEF LinkedColor
  <2>5. /\ Listed(q) /\ MarksGood(q, Late(q), Object \ garbage)
        /\ \A u \in OpenIn(c) : q.color[u] = color[u]
    BY <1>0, <2>2
  <2> QED
    BY <1>12, <1>13, <1>15, <2>3, <2>4, <2>5
<1> QED
  BY <1>14, <1>15

\* propagatemark() keeps the invariant of the mark phase.
LEMMA PropagateMark ==
    ASSUME GCInv, MarkTypes', ColorInv', propagatemark
    PROVE  MarkInv'
<1>1. PICK o \in gray : SetMarks(Propagate(Marks, {o}))
  BY DEF propagatemark
<1>2. /\ gcstate = "propagate" /\ UNCHANGED <<kind, key, val, open, held, tmudata, currentwhite>>
      /\ garbage' = garbage
  BY DEF propagatemark, heap
<1>3. /\ SoundHeap /\ OpenIsUpval /\ Listed(Marks) /\ Marks \in MarkState
      /\ MarksGood(Marks, Late(Marks), Object \ garbage) /\ Closed(Object \ garbage)
      /\ {o} \subseteq Marks.gray
  BY <1>1, <1>2, MarkPhase DEF GCInv, MarkTypes
<1>4. PICK X : X = Late(Marks)
  OBVIOUS
<1>5. PICK q : q = Propagate(Marks, {o})
  OBVIOUS
<1>6. MarksGood(q, X, Object \ garbage) /\ Grows(Marks, q)
  BY <1>3, <1>4, <1>5, PropagateGood
<1>7. Listed(q)
  BY <1>3, <1>5, ListedPropagate
<1>8. \A x \in X : x \in Late(q)
  BY <1>4, <1>6 DEF Late, Grows
<1>9. MarksGood(q, Late(q), Object \ garbage)
  BY <1>6, <1>8, Exempt
<1>10. color' = q.color /\ gray' = q.gray /\ grayagain' = q.again /\ weak' = q.weak
  BY <1>1, <1>5 DEF SetMarks
<1> DEFINE Y == {}
<1>11. /\ \A a \in Addr : a \notin Y => key'[a] = key[a] /\ val'[a] = val[a]
       /\ \A a \in Addr : open[a] \in Y => a \in Y
       /\ \A a \in Y : a \in Addr /\ Strong(a)' \subseteq Strong(a) \cup held
       /\ \A a \in Y : q.color[a] = "black" =>
               Strong(a)' \subseteq Strong(a) \cup (Marked(q) \cap Object)
  BY <1>2
<1> HIDE DEF Y
<1> QED
  BY <1>2, <1>7, <1>9, <1>10, <1>11, MarkStored

\* The mark phase begins: what is reached then is not garbage.
LEMMA RootMark ==
    ASSUME GCInv, MarkTypes', ColorInv', Start \/ FullMark
    PROVE  MarkInv'
<1>0. Main \notin Addr /\ Main \in Object /\ Object = Live \cup {Main} /\ Object \subseteq Node
      /\ Live \subseteq Addr
  BY GCAssumption DEF Object, Node, Live
<1>1. /\ gcstate \in {"pause", "finalize"} /\ markroot
      /\ full' \in {"no", "sweep", "cycle", "close"}
      /\ UNCHANGED <<kind, key, val, open, held, tmudata, currentwhite>>
      /\ garbage' = Live \ Reachable
  BY DEF Start, FullMark, markroot, heap, GCInv, TypeInv
<1>3. color' = Begun.color /\ gray' = Begun.gray /\ grayagain' = Begun.again /\ weak' = Begun.weak
  BY <1>1 DEF markroot, Begun, Fresh, SetMarks
<1>4. /\ gray' = {Main} /\ grayagain' = {} /\ weak' = {}
      /\ \A o \in Node : color'[o] = IF o = Main THEN "gray" ELSE color[o]
      /\ \A o \in Live : o \notin Waiting => color[o] = currentwhite
  BY <1>1, <1>3, MarkrootBegins
<1>5. Live = Alive /\ SoundHeap /\ OpenIsUpval
  BY <1>1, NoneDead, HeapIsSound
<1>6. \A a \in Node : Strong(a)' = Strong(a)
  <2>1. ASSUME NEW a \in Addr PROVE Strong(a)' = Strong(a)
    <3>1. UpvalValue(a) = IF open'[a] = Nil THEN val'[a] ELSE val'[open'[a]]
      BY <1>1 DEF UpvalValue
    <3>2. \A r : r \in Strong(a)' <=> r \in Strong(a)
      BY <1>1, <3>1, StrongAre, StrongPrimed
    <3> QED
      BY <3>2
  <2> QED
    BY <1>1, <2>1, StrongAre, StrongPrimed DEF Node
<1>7. /\ Waiting \subseteq Live /\ held \subseteq Live
      /\ \A u \in Waiting : kind[u] = "userdata"
  BY <1>1, <1>5 DEF GCInv, AliveInv, UdInv, OfKind
<1>8. /\ held \cup Waiting \subseteq Reachable /\ Reachable \subseteq Live /\ Closed(Reachable)
  <2>1. held \cup Waiting \in SUBSET Addr
    BY <1>0, <1>7
  <2>2. Closed(Live)
    BY <1>0, <1>5 DEF Closed, SoundHeap
  <2>3. Reachable = Reach(held \cup Waiting)
    BY DEF Reachable, Waiting
  <2> QED
    BY <1>7, <2>1, <2>2, <2>3, ReachIsLeast
<1>9. Object' = Object /\ Live' = Live /\ Waiting' = Waiting
  BY <1>1 DEF Object, Live, Waiting
<1>10. PICK C : C = {Main} \cup Reachable /\ (Object \ garbage)' = C
  BY <1>0, <1>1, <1>8, <1>9
<1>11. Closed(Object \ garbage)'
  <2>1. ASSUME NEW o \in C PROVE Strong(o)' \subseteq C
    <3>1. o \in Node /\ Strong(o)' = Strong(o)
      BY <1>0, <1>6, <1>8, <1>10, <2>1
    <3> QED
      BY <1>8, <1>10, <2>1, <3>1, StrongAre DEF Closed
  <2> QED
    BY <1>10, <2>1 DEF Closed
<1>12. \A o \in Live : o \notin Waiting => color'[o] \in {"white0", "white1"}
  BY <1>0, <1>4 DEF GCInv, TypeInv, Node
<1>13. \A a \in Live : color'[a] # otherwhite'
  <2>1. \A a \in Live : color'[a] = color[a]
    BY <1>0, <1>4 DEF Node
  <2>2. otherwhite' = otherwhite
    BY <1>1 DEF otherwhite
  <2> QED
    BY <1>5, <2>1, <2>2, AlivePrimed
<1>14. ASSUME NEW o, o \in Object', o \in Marked(Marks)' PROVE o = Main \/ o \in Waiting
  <2>1. color'[o] \notin {"white0", "white1"}
    BY <1>14 DEF Marked, Marks, IsWhite
  <2> QED
    BY <1>0, <1>9, <1>12, <1>14, <2>1
<1>15. MarksGood(Marks, Late(Marks), Object \ garbage)'
  <2>1. Marks' \in MarkState' /\ Marks.gray' = {Main} /\ Marks.again' = {} /\ Marks.weak' = {}
        /\ Marks.color' = color'
    BY <1>4 DEF MarkTypes, Marks
  <2>2. Main \in Marked(Marks)'
    BY <1>0, <1>4 DEF Marked, Marks, IsWhite, Node
  <2>3. \A o \in Node : color'[o] = "black" =>
           KindOf(o)' \notin Weak \cup {"thread"} /\ (o \in Addr => open'[o] = Nil)
    BY DEF ColorInv, KindOf, Node, Weak
  <2>4. KindOf(Main)' = "thread" /\ \A o \in Waiting : KindOf(o)' = "userdata"
    BY <1>0, <1>1, <1>7 DEF KindOf
  <2>5. ASSUME NEW o, o \in Object', o \in Marked(Marks)'
        PROVE  /\ o = Main \/ o \in Late(Marks)'
               /\ KindOf(o)' \notin Weak
               /\ o \in C
    BY <1>8, <1>9, <1>10, <1>14, <2>4, <2>5 DEF Late, Weak
  <2> QED
    BY <1>0, <1>9, <1>10, <1>13, <2>1, <2>2, <2>3, <2>4, <2>5 DEF MarksGood, Queueable, Weak, Node
<1>16. Listed(Marks)'
  <2>1. Marks.gray' = {Main} /\ Marks.again' = {} /\ Marks.weak' = {} /\ Marks.color' = color'
        /\ color'[Main] = "gray"
    BY <1>0, <1>4 DEF Marks, Node
  <2>2. \A o \in Object' : color'[o] = "gray" => o = Main \/ o \in Waiting'
    BY <1>0, <1>9, <1>12
  <2> QED
    BY <2>1, <2>2 DEF Listed
<1>17. \A a \in Live' : ~isdead(a)'
  BY <1>9, <1>13 DEF isdead
<1> QED
  BY <1>11, <1>15, <1>16, <1>17 DEF MarkInv

\* A step keeps what holds while marking.
LEMMA MarkKept == GCInv /\ [Next]_vars => MarkInv'
<1> SUFFICES ASSUME GCInv, [Next]_vars, gcstate' = "propagate" PROVE MarkInv'
  BY DEF MarkInv
<1>0. MarkTypes' /\ ColorInv'
  BY TypeKept, ColorKept
<1>1. ASSUME NEW a \in Addr, newlstr(a) \/ luaS_newudata(a) \/ luaC_link(a) PROVE MarkInv'
  <2>1. PICK k \in Kind : Made(a, k) /\ k # "upval"
    BY <1>1 DEF newlstr, luaS_newudata, luaC_link, Kind
  <2>2. gcstate = "propagate"
    BY <2>1 DEF Made, UNCHANGED_GC
  <2> QED
    BY <1>0, <2>1, <2>2, MadeMark
<1>2. ASSUME NEW a \in Addr, Drop(a) \/ Intern(a) PROVE MarkInv'
  <2>1. gcstate = "propagate"
    BY <1>2 DEF Drop, Intern, UNCHANGED_GC
  <2> QED
    BY <1>0, <1>2, <2>1, HeldMark
<1>3. ASSUME NEW c \in Addr, CloseUpvals(c) PROVE MarkInv'
  <2>1. gcstate = "propagate"
    BY <1>3 DEF CloseUpvals
  <2> QED
    BY <1>0, <1>3, <2>1, CloseUpvalsMark
<1>4. ASSUME NEW o \in Addr, NEW v \in Addr, Get(o, v) \/ GetUpval(o, v) PROVE MarkInv'
  <2>1. gcstate = "propagate"
    BY <1>4 DEF Get, GetUpval, UNCHANGED_GC
  <2> QED
    BY <1>0, <1>4, <2>1, HeldMark
<1>5. ASSUME NEW o \in Addr, NEW v \in Addr, SetField(o, v) PROVE MarkInv'
  <2>1. gcstate = "propagate"
    BY <1>5 DEF SetField, UNCHANGED_GC
  <2> QED
    BY <1>0, <1>5, <2>1, SetFieldMark
<1>6. ASSUME NEW o \in Addr, NEW v \in Addr, SetUpval(o, v) PROVE MarkInv'
  <2>1. gcstate = "propagate"
    BY <1>6 DEF SetUpval, UNCHANGED_GC
  <2> QED
    BY <1>0, <1>6, <2>1, SetUpvalMark
<1>7. ASSUME NEW t \in Addr, NEW k \in Addr \cup {Num}, NEW v \in Addr \cup {Nil, Num},
             SetTable(t, k, v)
      PROVE  MarkInv'
  <2>1. gcstate = "propagate"
    BY <1>7 DEF SetTable, UNCHANGED_GC
  <2> QED
    BY <1>0, <1>7, <2>1, SetTableMark
<1>8. ASSUME NEW c \in Addr, NEW v \in Addr \cup {Nil}, SetSlot(c, v) PROVE MarkInv'
  <2>1. gcstate = "propagate"
    BY <1>8 DEF SetSlot, UNCHANGED_GC
  <2> QED
    BY <1>0, <1>8, <2>1, SetSlotMark
<1>9. ASSUME NEW f \in Addr, NEW u \in Addr, NEW c \in Addr, Closure(f, u, c) PROVE MarkInv'
  <2>1. gcstate = "propagate"
    BY <1>9 DEF Closure, UNCHANGED_GC
  <2> QED
    BY <1>0, <1>9, <2>1, ClosureMark
<1>10. ASSUME Start \/ FullMark PROVE MarkInv'
  BY <1>0, <1>10, RootMark
<1>11. ASSUME propagatemark PROVE MarkInv'
  BY <1>0, <1>11, PropagateMark
<1>12. ASSUME UNCHANGED vars PROVE MarkInv'
  <2> DEFINE G == {}
  <2>1. /\ UNCHANGED <<kind, key, val, open, color, tmudata, currentwhite, lists, held, gcstate>>
        /\ garbage' = garbage \ G
    BY <1>12 DEF vars, heap, gcvars
  <2>2. \A a \in G : a \in Live => Strong(a) \subseteq G
    OBVIOUS
  <2>3. \A a \in held' : a \in held \/ (a \in Live /\ (a \in G \/ a \notin garbage))
    BY <2>1
  <2> HIDE DEF G
  <2> QED
    BY <1>0, <2>1, <2>2, <2>3, MarkHeld
<1>13. ~ (\/ luaC_fullgc \/ lua_close \/ atomic \/ sweep \/ Finalize \/ FinalizeEnd
          \/ CloseFinalize \/ luaC_freeall)
  BY DEF luaC_fullgc, lua_close, atomic, sweep, Finalize, FinalizeEnd, CloseFinalize,
         luaC_freeall, GCTM
<1> QED
  BY <1>1, <1>2, <1>3, <1>4, <1>5, <1>6, <1>7, <1>8, <1>9, <1>10, <1>11, <1>12, <1>13
     DEF Next, Program, singlestep

-----------------------------------------------------------------------------
(* Garbage.                                                                *)

\* A step that frees no garbage without taking it out of the history, and leaves dead what
\* is.
LEMMA GarbageSame ==
    ASSUME GCInv, garbage' \subseteq garbage, \A a \in garbage' : kind'[a] = kind[a],
           gcstate' \in {"pause", "sweepstring", "sweep", "finalize"} =>
               /\ gcstate \in {"pause", "sweepstring", "sweep", "finalize"}
               /\ \A a \in garbage' : a \notin Alive => a \notin Alive',
           full' = "sweep" => gcstate' # "propagate"
    PROVE  GarbageInv'
<1>1. \A a \in garbage : a \in Addr /\ kind[a] # "free"
  BY DEF GCInv, GarbageInv, Live
<1>2. \A a \in garbage' : a \in Live'
  BY <1>1 DEF Live
<1>3. gcstate' \in {"pause", "sweepstring", "sweep", "finalize"} =>
         \A a \in garbage' : isdead(a)'
  <2>1. ASSUME gcstate' \in {"pause", "sweepstring", "sweep", "finalize"}, NEW a \in garbage'
        PROVE  isdead(a)'
    <3>1. isdead(a)
      BY <2>1 DEF GCInv, GarbageInv
    <3>2. a \notin Alive'
      BY <2>1, <3>1 DEF Alive
    <3> QED
      BY <1>2, <2>1, <3>2 DEF Alive, isdead
  <2> QED
    BY <2>1
<1> QED
  BY <1>2, <1>3 DEF GarbageInv

\* A step of the program that finds garbage again takes it off the list, and kills none.
LEMMA GarbageProgram ==
    ASSUME GCInv, full = "no", UNCHANGED <<gcstate, full>>, garbage' \subseteq garbage,
           \A a \in garbage' : kind'[a] = kind[a],
           \A a \in garbage' : a \notin Alive => a \notin Alive'
    PROVE  GarbageInv'
BY GarbageSame

\* The sweep frees what is garbage and dead.
LEMMA SweepGarbage ==
    ASSUME GCInv, sweep
    PROVE  GarbageInv'
<1>1. /\ gcstate \in {"sweepstring", "sweep"} /\ gcstate' \in {"sweepstring", "sweep", "finalize"}
      /\ UNCHANGED <<currentwhite, full>>
  BY DEF sweep
<1>2. CASE UNCHANGED <<heap, color, tosweep, called, garbage>>
  <2>1. \A a : a \in Alive' => a \in Alive
    BY <1>1, <1>2, AlivePrimed DEF heap, otherwhite
  <2>2. garbage' \subseteq garbage /\ UNCHANGED kind
    BY <1>2 DEF heap
  <2>3. /\ gcstate' \in {"pause", "sweepstring", "sweep", "finalize"} =>
               /\ gcstate \in {"pause", "sweepstring", "sweep", "finalize"}
               /\ \A a \in garbage' : a \notin Alive => a \notin Alive'
        /\ full' = "sweep" => gcstate' # "propagate"
        /\ \A a \in garbage' : kind'[a] = kind[a]
    BY <1>1, <2>1, <2>2
  <2> QED
    BY <2>2, <2>3, GarbageSame
<1>3. ASSUME NEW o \in Pending, SweepObject(o) PROVE GarbageInv'
  <2>1. o \in tosweep
    BY DEF Pending
  <2>2. /\ Ended(Freed(o), Orphans(o), {})
        /\ color' = [x \in Node |-> IF x \in Kept(o) THEN currentwhite
                                    ELSE IF x \in Freed(o) THEN "white0" ELSE color[x]]
        /\ \A x \in Kept(o) \ {Main} : ~isdead(x)
    BY <1>1, <1>3, <2>1, SweepObjectIs
  <2>3. /\ kind' = [a \in Addr |-> IF a \in Freed(o) THEN "free" ELSE kind[a]]
        /\ garbage' = garbage \ Freed(o)
    BY <2>2 DEF Ended
  <2>4. \A a \in garbage : a \in Addr /\ a # Main
    BY GCAssumption DEF GCInv, GarbageInv, Live
  <2>5. garbage' \subseteq garbage /\ \A a \in garbage' : kind'[a] = kind[a]
    BY <2>3, <2>4
  <2>6. ASSUME NEW a \in garbage', a \notin Alive PROVE a \notin Alive'
    <3>1. a \in Addr /\ a # Main /\ a \notin Freed(o) /\ a \in Live
      BY <2>3, <2>4, <2>6 DEF GCInv, GarbageInv
    <3>2. isdead(a)
      BY <2>6, <3>1 DEF Alive
    <3>3. a \notin Kept(o)
      BY <2>2, <3>1, <3>2
    <3>4. color'[a] = color[a]
      BY <2>2, <3>1, <3>3 DEF Node
    <3> QED
      BY <1>1, <3>2, <3>4, AlivePrimed DEF isdead, otherwhite
  <2> QED
    BY <1>1, <2>5, <2>6, GarbageSame
<1> QED
  BY <1>2, <1>3 DEF sweep

\* What is garbage still when marking ends is not marked, and dead then.
LEMMA AtomicGarbage ==
    ASSUME GCInv, atomic
    PROVE  GarbageInv'
<1>1. /\ garbage' = garbage \ (Reach(InList(QueueNow)) \cup KeptNow)
      /\ gcstate' = "sweepstring" /\ UNCHANGED <<kind, full>>
  BY AtomicIs
<1>2. \A a : a \in Alive' <=> a \in Live /\ (a \in Marked(MarkedNow) \/ a \in KeptNow)
  BY AtomicAlive
<1>3. Marked(MarkedNow) \cap Object \subseteq (Object \ garbage) \cup Reach(InList(QueueNow))
  BY AtomicMarks DEF MarksGood
<1>4. \A a \in garbage' : a \in Live /\ a \in Addr /\ kind[a] # "free"
  BY <1>1 DEF GCInv, GarbageInv, Live
<1>5. ASSUME NEW a \in garbage' PROVE a \in Live' /\ isdead(a)'
  <2>1. a \in Live'
    BY <1>1, <1>4 DEF Live
  <2>2. a \notin Alive'
    BY <1>1, <1>2, <1>3, <1>4 DEF Object
  <2> QED
    BY <2>1, <2>2 DEF Alive, isdead
<1> QED
  BY <1>1, <1>5 DEF GarbageInv

\* What was garbage when the cycle began and is still there is dead once marking ended.
LEMMA GarbageKept == GCInv /\ [Next]_vars => GarbageInv'
<1> SUFFICES ASSUME GCInv, [Next]_vars PROVE GarbageInv'
  OBVIOUS
<1>0. /\ \A a \in garbage : a \in Addr /\ a \in Live /\ kind[a] # "free"
      /\ TypeInv /\ color \in [Node -> Color] /\ (full = "sweep" => gcstate # "propagate")
  BY MarksTyped DEF GCInv, GarbageInv, Live
<1>1. ASSUME NEW a \in Addr, newlstr(a) \/ luaS_newudata(a) \/ luaC_link(a) PROVE GarbageInv'
  <2>1. PICK k \in Kind : Made(a, k)
    BY <1>1 DEF newlstr, luaS_newudata, luaC_link, Kind
  <2>2. /\ kind[a] = "free" /\ kind' = [kind EXCEPT ![a] = k] /\ garbage' = garbage
        /\ color' = [color EXCEPT ![a] = currentwhite] /\ full = "no"
        /\ UNCHANGED <<gcstate, full, currentwhite>>
    BY <2>1 DEF Made, UNCHANGED_GC, Running
  <2>3. \A x \in garbage' : x # a /\ kind'[x] = kind[x] /\ color'[x] = color[x]
    BY <1>0, <2>2 DEF TypeInv, Node
  <2>4. \A x \in garbage' : x \notin Alive => x \notin Alive'
    BY <2>2, <2>3, AlivePrimed DEF otherwhite
  <2> QED
    BY <2>2, <2>3, <2>4, GarbageProgram
<1>2. ASSUME UNCHANGED <<kind, color, gcstate, full, currentwhite>>, garbage' \subseteq garbage,
             full = "no"
      PROVE  GarbageInv'
  <2>1. \A x \in garbage' : x \notin Alive => x \notin Alive'
    BY <1>2, AlivePrimed DEF otherwhite
  <2> QED
    BY <1>2, <2>1, GarbageProgram
<1>3. ASSUME \/ \E a \in Addr : Drop(a)
             \/ \E o, v \in Addr : Get(o, v) \/ GetUpval(o, v)
             \/ \E c \in Addr, v \in Addr \cup {Nil} : SetSlot(c, v)
      PROVE  GarbageInv'
  <2>1. /\ UNCHANGED <<kind, color, gcstate, full, currentwhite>> /\ garbage' \subseteq garbage
        /\ full = "no"
    BY <1>3 DEF Drop, Get, GetUpval, SetSlot, UNCHANGED_GC, Running
  <2> QED
    BY <1>2, <2>1
<1>4. ASSUME NEW s \in Addr, Intern(s) PROVE GarbageInv'
  <2>1. /\ color' = IF isdead(s) THEN [color EXCEPT ![s] = currentwhite] ELSE color
        /\ garbage' = garbage \ {s} /\ full = "no"
        /\ UNCHANGED <<kind, gcstate, full, currentwhite>>
    BY <1>4 DEF Intern, UNCHANGED_GC, Running
  <2>2. \A x \in garbage' : x # s /\ kind'[x] = kind[x] /\ color'[x] = color[x]
    BY <1>0, <2>1 DEF Node
  <2>3. \A x \in garbage' : x \notin Alive => x \notin Alive'
    BY <2>1, <2>2, AlivePrimed DEF otherwhite
  <2> QED
    BY <2>1, <2>2, <2>3, GarbageProgram
<1>5. ASSUME NEW f \in Addr, NEW u \in Addr, NEW c \in Addr, Closure(f, u, c) PROVE GarbageInv'
  <2>1. /\ kind[f] = "free" /\ garbage' = garbage \ {u} /\ full = "no"
        /\ kind' = [kind EXCEPT ![f] = "function", ![u] = "upval"]
        /\ color' = [color EXCEPT ![f] = currentwhite,
                         ![u] = IF kind[u] = "free" \/ isdead(u) THEN currentwhite ELSE @]
        /\ UNCHANGED <<gcstate, full, currentwhite>>
    BY <1>5 DEF Closure, UNCHANGED_GC, Running
  <2>2. \A x \in garbage' : x # f /\ x # u /\ x \in Addr
    BY <1>0, <2>1
  <2>3. \A x \in garbage' : kind'[x] = kind[x] /\ color'[x] = color[x]
    BY <1>0, <2>1, <2>2 DEF TypeInv, Node
  <2>4. otherwhite' = otherwhite
    BY <2>1 DEF otherwhite
  <2>5. \A x \in garbage' : x \notin Alive => x \notin Alive'
    BY <2>3, <2>4, AlivePrimed
  <2> QED
    BY <2>1, <2>3, <2>5, GarbageProgram
<1>6. ASSUME UNCHANGED <<kind, gcstate, full>>, garbage' \subseteq garbage, full = "no",
             Alive' = Alive
      PROVE  GarbageInv'
  BY <1>6, GarbageProgram
<1>7. ASSUME NEW t \in Addr, NEW k \in Addr \cup {Num}, NEW v \in Addr \cup {Nil, Num},
             SetTable(t, k, v)
      PROVE  GarbageInv'
  <2>1. /\ Running /\ t \in held /\ \E vs : BarrierBack(t, vs)
        /\ UNCHANGED <<kind, gcstate, full, garbage, currentwhite>> /\ full = "no"
    BY <1>7 DEF SetTable, UNCHANGED_GC, Running
  <2>2. Alive' = Alive
    BY <2>1, HeldIs, BarriersAlive
  <2> QED
    BY <1>6, <2>1, <2>2
<1>8. ASSUME NEW o \in Addr, NEW v \in Addr, SetField(o, v) PROVE GarbageInv'
  <2>1. /\ Running /\ o \in held /\ BarrierForward(o, v)
        /\ UNCHANGED <<kind, gcstate, full, garbage, currentwhite>> /\ full = "no"
    BY <1>8 DEF SetField, UNCHANGED_GC, Running
  <2>2. Alive' = Alive
    BY <2>1, HeldIs, BarriersAlive
  <2> QED
    BY <1>6, <2>1, <2>2
<1>9. ASSUME NEW f \in Addr, NEW v \in Addr, SetUpval(f, v) PROVE GarbageInv'
  <2>1. PICK u \in Addr :
        /\ Running /\ f \in held /\ kind[f] = "function" /\ u = val[f] /\ BarrierForward(u, v)
        /\ UNCHANGED <<kind, gcstate, full, garbage, currentwhite>> /\ full = "no"
    BY <1>9 DEF SetUpval, UNCHANGED_GC, Running
  <2>2. u \in Alive
    BY <2>1, Captured
  <2>3. Alive' = Alive
    BY <2>1, <2>2, BarriersAlive
  <2> QED
    BY <1>6, <2>1, <2>3
<1>10. ASSUME NEW c \in Addr, CloseUpvals(c) PROVE GarbageInv'
  <2>1. /\ Ended(OpenIn(c) \ StillAlive(c), StillAlive(c), {c}) /\ UNCHANGED <<gcstate, full>>
        /\ full = "no"
    BY <1>10, CloseUpvalsIs DEF CloseUpvals, Running
  <2>2. Alive' = Alive
    BY <1>10, CloseUpvalsAlive
  <2>3. garbage' \subseteq garbage /\ \A a \in garbage' : kind'[a] = kind[a]
    BY <1>0, <2>1 DEF Ended
  <2> QED
    BY <2>1, <2>2, <2>3, GarbageProgram
<1>11. ASSUME Start \/ FullMark PROVE GarbageInv'
  <2>1. gcstate' = "propagate" /\ garbage' \subseteq Live /\ UNCHANGED kind /\ full' # "sweep"
    BY <1>11 DEF Start, FullMark, markroot, heap
  <2> QED
    BY <2>1 DEF GarbageInv, Live
<1>12. ASSUME propagatemark PROVE GarbageInv'
  <2>1. gcstate' = "propagate" /\ gcstate = "propagate" /\ garbage' = garbage
        /\ UNCHANGED <<kind, full>>
    BY <1>12 DEF propagatemark, heap
  <2> QED
    BY <1>0, <2>1, GarbageSame
<1>13. ASSUME luaC_fullgc PROVE GarbageInv'
  <2>1. garbage' = {} /\ gcstate' # "propagate"
    BY <1>13 DEF luaC_fullgc
  <2> QED
    BY <2>1 DEF GarbageInv
<1>14. ASSUME lua_close \/ CloseFinalize \/ luaC_freeall PROVE GarbageInv'
  <2>1. gcstate' \in {"closing", "closed"} /\ garbage' \subseteq garbage
    BY <1>14 DEF lua_close, CloseFinalize, luaC_freeall, GCTM, Ended
  <2>2. lua_close \/ CloseFinalize => UNCHANGED kind
    BY DEF lua_close, CloseFinalize, GCTM
  <2>3. luaC_freeall => garbage' = {}
    BY <1>0 DEF luaC_freeall, Ended
  <2>4. \A a \in garbage' : kind'[a] = kind[a]
    BY <1>14, <2>2, <2>3
  <2> QED
    BY <2>1, <2>4, GarbageSame
<1>15. ASSUME Finalize PROVE GarbageInv'
  <2>1. GCTM /\ gcstate = "finalize" /\ UNCHANGED <<kind, gcstate, garbage>>
        /\ full' # "sweep"
    BY <1>15 DEF Finalize, GCTM
  <2>2. Alive' = Alive
    BY <2>1, GCTMAlive
  <2> QED
    BY <2>1, <2>2, GarbageSame
<1>16. ASSUME FinalizeEnd \/ UNCHANGED vars PROVE GarbageInv'
  <2>1. /\ UNCHANGED <<kind, color, currentwhite, garbage>>
        /\ \/ gcstate = "finalize" /\ gcstate' = "pause"
           \/ UNCHANGED <<gcstate, full>>
    BY <1>16 DEF FinalizeEnd, heap, vars, gcvars
  <2>2. \A x \in garbage' : x \notin Alive => x \notin Alive'
    BY <2>1, AlivePrimed DEF otherwhite
  <2> QED
    BY <1>0, <2>1, <2>2, GarbageSame
<1> QED
  BY <1>1, <1>3, <1>4, <1>5, <1>7, <1>8, <1>9, <1>10, <1>11, <1>12, <1>13, <1>14, <1>15, <1>16,
     AtomicGarbage, SweepGarbage
     DEF Next, Program, singlestep

-----------------------------------------------------------------------------
(* The userdata that lua_close() found.                                    *)

\* No step after lua_close() takes a userdata it found out of the queue without calling it.
LEMMA CloseKept == GCInv /\ [Next]_vars => CloseInv'
<1> SUFFICES ASSUME GCInv, [Next]_vars PROVE CloseInv'
  OBVIOUS
<1>0. /\ CloseInv /\ udlist \in Seq(Addr) /\ Waiting \subseteq finalized
      /\ OfKind({"userdata"}) = InList(udlist) \cup Waiting
      /\ finalized \subseteq OfKind({"userdata"})
  BY DEF GCInv, TypeInv, UdInv
<1>1. ASSUME UNCHANGED atclose, finalized \subseteq finalized',
             gcstate' = "closing" => gcstate = "closing"
      PROVE  CloseInv'
  BY <1>0, <1>1 DEF CloseInv
<1>2. CASE lua_close
  <2> DEFINE rest == Without(udlist, finalized)
  <2>1. finalized' = finalized \cup InList(rest) /\ atclose' = OfKind({"userdata"})
    BY <1>2 DEF lua_close
  <2>2. InList(rest) = InList(udlist) \ finalized
    BY <1>0, WithoutSome
  <2> HIDE DEF rest
  <2>3. OfKind({"userdata"}) \subseteq Addr
    BY DEF OfKind
  <2>4. OfKind({"userdata"}) \subseteq finalized'
    BY <1>0, <2>1, <2>2
  <2> QED
    BY <2>1, <2>3, <2>4 DEF CloseInv
<1>3. ASSUME NEW c \in Addr, CloseUpvals(c) PROVE CloseInv'
  <2> DEFINE freed == OpenIn(c) \ StillAlive(c)
  <2>1. Ended(freed, StillAlive(c), {c}) /\ UNCHANGED gcstate
    BY <1>3, CloseUpvalsIs
  <2>2. UNCHANGED atclose
    BY <1>3 DEF CloseUpvals
  <2>3. freed \cap OfKind({"userdata"}) = {}
    BY DEF OpenIn, OfKind
  <2> HIDE DEF freed
  <2>4. finalized' = finalized \ freed
    BY <2>1 DEF Ended
  <2>5. finalized \subseteq finalized'
    BY <1>0, <2>3, <2>4
  <2> QED
    BY <1>1, <2>1, <2>2, <2>5
<1>4. CASE sweep \/ luaC_freeall
  <2>1. UNCHANGED atclose /\ gcstate' # "closing"
    BY <1>4 DEF sweep, luaC_freeall
  <2> QED
    BY <1>0, <2>1 DEF CloseInv
<1>5. CASE atomic \/ Start \/ FullMark \/ propagatemark \/ Finalize \/ FinalizeEnd \/ luaC_fullgc
  <2>1. UNCHANGED atclose /\ gcstate' # "closing"
    BY <1>5 DEF atomic, Start, FullMark, propagatemark, Finalize, FinalizeEnd, luaC_fullgc,
                GCTM, markroot
  <2> QED
    BY <1>0, <2>1 DEF CloseInv
<1>6. CASE CloseFinalize \/ UNCHANGED vars
  <2>1. UNCHANGED <<atclose, finalized, gcstate>>
    BY <1>6 DEF CloseFinalize, GCTM, vars, heap, gcvars
  <2> QED
    BY <1>1, <2>1
<1>7. ASSUME NEW a \in Addr, newlstr(a) \/ luaS_newudata(a) \/ luaC_link(a) PROVE CloseInv'
  <2>1. UNCHANGED <<atclose, finalized, gcstate>>
    BY <1>7 DEF newlstr, luaS_newudata, luaC_link, Made, UNCHANGED_GC
  <2> QED
    BY <1>1, <2>1
<1>8. ASSUME NEW a \in Addr, Drop(a) \/ Intern(a) PROVE CloseInv'
  <2>1. UNCHANGED <<atclose, finalized, gcstate>>
    BY <1>8 DEF Drop, Intern, UNCHANGED_GC
  <2> QED
    BY <1>1, <2>1
<1>9. ASSUME NEW o \in Addr, NEW v \in Addr,
             Get(o, v) \/ GetUpval(o, v) \/ SetField(o, v) \/ SetUpval(o, v)
      PROVE  CloseInv'
  <2>1. UNCHANGED <<atclose, finalized, gcstate>>
    BY <1>9 DEF Get, GetUpval, SetField, SetUpval, UNCHANGED_GC
  <2> QED
    BY <1>1, <2>1
<1>10. ASSUME NEW t \in Addr, NEW k \in Addr \cup {Num}, NEW v \in Addr \cup {Nil, Num},
              SetTable(t, k, v)
       PROVE  CloseInv'
  <2>1. UNCHANGED <<atclose, finalized, gcstate>>
    BY <1>10 DEF SetTable, UNCHANGED_GC
  <2> QED
    BY <1>1, <2>1
<1>11. ASSUME NEW c \in Addr, NEW v \in Addr \cup {Nil}, SetSlot(c, v) PROVE CloseInv'
  <2>1. UNCHANGED <<atclose, finalized, gcstate>>
    BY <1>11 DEF SetSlot, UNCHANGED_GC
  <2> QED
    BY <1>1, <2>1
<1>12. ASSUME NEW f \in Addr, NEW u \in Addr, NEW c \in Addr, Closure(f, u, c) PROVE CloseInv'
  <2>1. UNCHANGED <<atclose, finalized, gcstate>>
    BY <1>12 DEF Closure, UNCHANGED_GC
  <2> QED
    BY <1>1, <2>1
<1> QED
  BY <1>2, <1>3, <1>4, <1>5, <1>6, <1>7, <1>8, <1>9, <1>10, <1>11, <1>12
     DEF Next, Program, singlestep

-----------------------------------------------------------------------------
(* The theorems.                                                           *)

\* A state that lua_newstate() has just made.
LEMMA InitInv == Init => GCInv
<1> SUFFICES ASSUME Init PROVE GCInv
  OBVIOUS
<1>0. /\ Main \notin Addr /\ Nil \notin Addr /\ Num \notin Addr
      /\ Programs \subseteq [Addr -> SUBSET Kind]
  BY GCAssumption
<1>1. InList(udlist) = {} /\ InList(tmudata) = {} /\ NoTwice(udlist) /\ NoTwice(tmudata)
  BY DEF Init, InList, NoTwice
<1>2. Live = {} /\ Alive = {} /\ \A k : "free" \notin k => OfKind(k) = {}
  BY DEF Init, Live, Alive, OfKind
<1>3. TypeInv
  BY <1>0 DEF Init, TypeInv, States
<1>4. MarkTypes
  BY MarksTyped DEF Init, Node, Color
<1>5. ShapeInv /\ ColorInv
  BY <1>0 DEF Init, ShapeInv, ColorInv, Node, Table, Weak
<1>6. AliveInv
  BY <1>1, <1>2 DEF Init, AliveInv, Waiting
<1>7. UdInv
  BY <1>1, <1>2 DEF Init, UdInv, Waiting
<1>8. SweepInv
  BY <1>2 DEF Init, SweepInv, Object
<1>9. MarkInv /\ GarbageInv /\ CloseInv
  BY DEF Init, MarkInv, GarbageInv, CloseInv
<1> QED
  BY <1>3, <1>4, <1>5, <1>6, <1>7, <1>8, <1>9 DEF GCInv

\* Every state of the collector satisfies the invariant: each of singlestep(), GCTM(), the
\* barriers, luaC_link(), luaC_linkupval(), luaF_findupval(), luaF_close(), luaS_newlstr(),
\* luaC_fullgc() and lua_close() keeps all of its parts.
THEOREM CollectorInvariant == Spec => []GCInv
<1>1. GCInv /\ [Next]_vars => GCInv'
  BY TypeKept, ShapeKept, AliveKept, UdKept, ColorKept, SweepKept, MarkKept, GarbageKept,
     CloseKept DEF GCInv
<1> QED
  BY <1>1, InitInv, PTL DEF Spec

\* Objects, colours and lists fit each other at every step: gclist is one field of an
\* object, which propagatemark(), the barriers and luaC_linkupval() link it by, and no
\* object is ever in two of the lists gray, grayagain and weak.
THEOREM ListsStayConsistent == Spec => []ListsConsistent
<1>1. GCInv => ListsConsistent
  <2> SUFFICES ASSUME GCInv PROVE ListsConsistent
    OBVIOUS
  <2>1. TypeOK
    <3>1. UNION {gray, grayagain, weak, tosweep} \subseteq Addr \cup {Main}
      BY MarksTyped DEF GCInv, TypeInv, Node
    <3>2. garbage \subseteq Addr /\ called \subseteq finalized /\ atclose \subseteq Addr
      BY DEF GCInv, GarbageInv, Live, UdInv, CloseInv
    <3> QED
      BY <3>1, <3>2, MarksTyped DEF TypeOK, GCInv, TypeInv, Node, Color, States
  <2>2. OneList
    <3>1. Marks.gray = gray /\ Marks.again = grayagain /\ Marks.weak = weak
          /\ Marks.color = color
      BY DEF Marks
    <3> QED
      BY <3>1 DEF OneList, GCInv, MarkInv, Listed
  <2> QED
    BY <2>1, <2>2 DEF ListsConsistent
<1> QED
  BY <1>1, CollectorInvariant, PTL

\* Nothing that a program can reach was freed, by strong references or by the entries of
\* weak tables: sweeplist() and luaF_close() free what is dead, a dead object is not
\* reached, and what singlestep(), the barriers and the revival of dead strings and open
\* upvalues do between two sweeps keeps it so.
THEOREM NothingDangles == Spec => []NoDangling
<1>1. GCInv => NoDangling
  <2> SUFFICES ASSUME GCInv, gcstate # "closed", NEW o \in Reachable
               PROVE  kind[o] # "free" /\ \A r \in Refs(o) : kind[r] # "free"
    BY DEF NoDangling
  <2>1. held \cup Waiting \subseteq Alive /\ \A a \in Alive : RefsGood(a)
    BY DEF GCInv, AliveInv
  <2>2. Alive \subseteq Addr /\ \A a \in Alive : kind[a] # "free"
    BY AlivePrimed
  <2>3. Closed(Alive)
    BY <2>1, <2>2, StrongInRefs DEF Closed, RefsGood
  <2>4. held \cup Waiting \in SUBSET Addr
    BY <2>1, <2>2
  <2>5. Reach(held \cup Waiting) \subseteq Alive
    BY <2>1, <2>3, <2>4, ReachIsLeast
  <2>6. o \in Alive
    BY <2>5 DEF Reachable, Waiting
  <2> QED
    BY <2>1, <2>2, <2>6 DEF RefsGood
<1> QED
  BY <1>1, CollectorInvariant, PTL

\* While marking no black object refers to a white one: the barriers of lgc.c repair every
\* store that lapi.c and lvm.c make into a black object, and stacks and open upvalues,
\* which have no barrier, are never black.
THEOREM BlackStaysClear == Spec => []NoBlackToWhite
<1>1. GCInv => NoBlackToWhite
  <2> SUFFICES ASSUME GCInv, gcstate = "propagate", NEW o \in Live \cup {Main},
                      color[o] = "black", o \notin InList(tmudata), NEW r \in Strong(o)
               PROVE  ~ IsWhite(color, r)
    BY DEF NoBlackToWhite
  <2>1. /\ MarksGood(Marks, Late(Marks), Object \ garbage) /\ Listed(Marks)
        /\ Marks.color = color /\ Object \subseteq Node
    BY MarkPhase
  <2>2. o \in Object /\ o \in Node /\ o \in Marked(Marks)
    BY <2>1 DEF Object, Marked, IsWhite
  <2>3. o \notin Marks.gray /\ o \notin Late(Marks)
    <3>1. o \notin Marks.gray \cup Marks.again \cup Marks.weak
      BY <2>1 DEF Listed
    <3>2. o \in Addr => open[o] = Nil
      BY <2>1, <2>2 DEF MarksGood
    <3> QED
      BY <3>1, <3>2 DEF Late, Waiting
  <2>4. Strong(o) \subseteq Marked(Marks)
    BY <2>1, <2>2, <2>3 DEF MarksGood
  <2> QED
    BY <2>1, <2>4 DEF Marked
<1> QED
  BY <1>1, CollectorInvariant, PTL

\* What was unreachable when markroot() began is freed when sweeplist() is at the end of
\* rootgc, unless the program found it again by luaS_newlstr() or luaF_findupval() or through
\* a weak table, or marktmu() kept it for a finalizer.
THEOREM GarbageIsCollected == Spec => []GarbageCollected
<1>1. GCInv => GarbageCollected
  <2> SUFFICES ASSUME GCInv, gcstate \in {"finalize", "pause"} PROVE garbage = {}
    BY DEF GarbageCollected
  <2>1. Live = Alive
    BY NoneDead
  <2>2. \A a \in garbage : a \in Live /\ isdead(a)
    BY DEF GCInv, GarbageInv
  <2> QED
    BY <2>1, <2>2 DEF Alive
<1> QED
  BY <1>1, CollectorInvariant, PTL

\* luaC_separateudata() queues a userdata once, GCTM() calls its finalizer once, and
\* lua_close() leaves none of those it found without its turn, whatever their finalizers
\* make, keep and store.
THEOREM FinalizersRunOnce == Spec => []FinalizedOnce
<1>1. GCInv => FinalizedOnce
  <2> SUFFICES ASSUME GCInv PROVE FinalizedOnce
    OBVIOUS
  <2>1. UdInv
    BY DEF GCInv
  <2>2. \A i, j \in DOMAIN tmudata : tmudata[i] = tmudata[j] => i = j
    BY <2>1 DEF UdInv, NoTwice
  <2>3. InList(tmudata) \cap called = {}
    BY <2>1 DEF UdInv, Waiting
  <2>4. ASSUME gcstate = "closing", tmudata = <<>> PROVE atclose \subseteq called
    <3>1. Waiting = {}
      BY <2>4 DEF InList, Waiting
    <3>2. finalized \subseteq InList(udlist) /\ called = finalized \cap InList(udlist)
      BY <2>1, <3>1 DEF UdInv
    <3>3. atclose \subseteq finalized
      BY <2>4 DEF GCInv, CloseInv
    <3> QED
      BY <3>2, <3>3
  <2> QED
    BY <2>2, <2>3, <2>4 DEF FinalizedOnce
<1> QED
  BY <1>1, CollectorInvariant, PTL
=============================================================================
