---------------------------- MODULE LeastNumber ----------------------------
(***************************************************************************)
(* Least and greatest elements of sets of numbers, the inductions that rest *)
(* on them, and loops: recursive functions on the numbers of their steps.   *)
(***************************************************************************)
EXTENDS Integers, WellFoundedInduction, TLAPS

\* A set of natural numbers that is not empty has a least element.
LEMMA LeastNatural ==
    ASSUME NEW T \in SUBSET Nat, T # {}
    PROVE  \E m \in T : \A k \in T : m <= k
<1> DEFINE R == OpToRel(<, Nat)
<1>1. IsWellFoundedOn(R, Nat)
  BY NatLessThanWellFounded
<1>2. \A x, y \in Nat : <<x, y>> \in R <=> x < y
  BY DEF OpToRel
<1> HIDE DEF R
<1>3. PICK x \in T : \A y \in T : ~ (<<y, x>> \in R)
  BY <1>1, WFMin
<1>4. \A y \in T : ~ (y < x)
  BY <1>2, <1>3
<1>5. \A y \in T : x <= y
  BY <1>4
<1> QED
  BY <1>5

\* A set of numbers of an interval has a greatest element.
LEMMA GreatestInRange ==
    ASSUME NEW N \in Nat, NEW T \in SUBSET (1..N), T # {}
    PROVE  \E m \in T : \A k \in T : m >= k
<1> DEFINE Miss == {n \in Nat : \E k \in T : n = N - k}
<1>1. Miss \in SUBSET Nat /\ Miss # {}
  <2>1. PICK k \in T : TRUE
    OBVIOUS
  <2>2. N - k \in Nat
    OBVIOUS
  <2> QED
    BY <2>2
<1>2. PICK m \in Miss : \A n \in Miss : m <= n
  BY <1>1, LeastNatural
<1>3. PICK k \in T : m = N - k
  BY <1>2
<1>4. ASSUME NEW h \in T PROVE k >= h
  <2>1. N - h \in Miss
    OBVIOUS
  <2> QED
    BY <1>2, <1>3, <2>1
<1> QED
  BY <1>3, <1>4

-----------------------------------------------------------------------------
\* Induction up to a bound, for a set of numbers instead of a predicate.
LEMMA BoundedInduction ==
    ASSUME NEW N \in Nat, NEW T,
           0 \in T,
           \A n \in 0..N - 1 : n \in T => n + 1 \in T
    PROVE  \A n \in 0..N : n \in T
<1> DEFINE Miss == {n \in 0..N : n \notin T}
<1>1. SUFFICES ASSUME Miss # {} PROVE FALSE
  OBVIOUS
<1>2. Miss \in SUBSET Nat
  OBVIOUS
<1>3. PICK m \in Miss : \A k \in Miss : m <= k
  BY <1>1, <1>2, LeastNatural
<1>4. m \in 1..N
  OBVIOUS
<1>5. m - 1 \in 0..N - 1 /\ m - 1 \notin Miss
  BY <1>3, <1>4
<1>6. m - 1 \in T
  BY <1>5
<1>7. m \in T
  BY <1>4, <1>5, <1>6
<1> QED
  BY <1>7

\* A loop of N steps: the step function takes a state and a step number.
Steps(S, N) == [S \X (1..N) -> S]

Runs(S, N, s0, step) ==
    {f \in [0..N -> S] :
        \A n \in 0..N : f[n] = IF n = 0 THEN s0 ELSE step[<<f[n - 1], n>>]}

\* Every loop has a run.
LEMMA LoopRuns ==
    ASSUME NEW N \in Nat, NEW S, NEW s0 \in S, NEW step \in Steps(S, N)
    PROVE  Runs(S, N, s0, step) # {}
<1> USE DEF Steps
<1> DEFINE Run(f, m) ==
             /\ f \in [0..m -> S]
             /\ \A n \in 0..m : f[n] = IF n = 0 THEN s0 ELSE step[<<f[n - 1], n>>]
           T == {m \in 0..N : \E f : Run(f, m)}
<1>1. 0 \in T
  <2> DEFINE f == [n \in 0..0 |-> s0]
  <2>1. Run(f, 0)
    OBVIOUS
  <2>2. \E h : Run(h, 0)
    BY <2>1
  <2> QED
    BY <2>2
<1>2. ASSUME NEW m \in 0..N - 1, m \in T
      PROVE  m + 1 \in T
  <2>1. PICK f : Run(f, m)
    BY <1>2
  <2> DEFINE g == [n \in 0..m + 1 |-> IF n <= m THEN f[n] ELSE step[<<f[m], m + 1>>]]
  <2>2. <<f[m], m + 1>> \in S \X (1..N)
    BY <2>1
  <2>3. g \in [0..m + 1 -> S]
    BY <2>1, <2>2
  <2>4. (\A k \in 0..m : g[k] = f[k]) /\ g[m + 1] = step[<<f[m], m + 1>>]
    OBVIOUS
  <2> HIDE DEF g
  <2>5. ASSUME NEW n \in 0..m + 1
        PROVE  g[n] = IF n = 0 THEN s0 ELSE step[<<g[n - 1], n>>]
    <3>1. CASE n = 0
      <4>1. 0 \in 0..m /\ g[0] = f[0]
        BY <2>4
      <4>2. f[0] = s0
        BY <2>1, <4>1
      <4> QED
        BY <3>1, <4>1, <4>2
    <3>2. CASE n \in 1..m
      <4>1. n \in 0..m /\ n - 1 \in 0..m /\ n # 0
        BY <3>2
      <4>2. g[n] = f[n] /\ g[n - 1] = f[n - 1]
        BY <2>4, <4>1
      <4>3. f[n] = step[<<f[n - 1], n>>]
        BY <2>1, <4>1
      <4> QED
        BY <4>1, <4>2, <4>3
    <3>3. CASE n = m + 1
      <4>1. n # 0 /\ n - 1 = m /\ m \in 0..m
        BY <3>3
      <4>2. g[n] = step[<<f[m], n>>] /\ g[n - 1] = f[m]
        BY <2>4, <3>3, <4>1
      <4> QED
        BY <4>1, <4>2
    <3> QED
      BY <3>1, <3>2, <3>3
  <2>6. Run(g, m + 1)
    BY <2>3, <2>5
  <2> QED
    BY <2>6
<1> HIDE DEF T
<1>3. N \in T
  BY <1>1, <1>2, BoundedInduction
<1> QED
  BY <1>3 DEF T, Runs

\* Induction for a set of natural numbers instead of a predicate.
LEMMA NatSetInduction ==
    ASSUME NEW T,
           0 \in T,
           \A n \in Nat : n \in T => n + 1 \in T
    PROVE  \A n \in Nat : n \in T
<1> SUFFICES ASSUME NEW n \in Nat PROVE n \in T
  OBVIOUS
<1>1. \A m \in 0..n - 1 : m \in T => m + 1 \in T
  OBVIOUS
<1>2. \A m \in 0..n : m \in T
  BY <1>1, BoundedInduction
<1> QED
  BY <1>2

\* A loop without end, whose steps are all alike.
EndlessRuns(S, s0, step) ==
    {f \in [Nat -> S] : \A n \in Nat : f[n] = IF n = 0 THEN s0 ELSE step[f[n - 1]]}

\* Every loop without end has a run.
LEMMA EndlessLoopRuns ==
    ASSUME NEW S, NEW s0 \in S, NEW step \in [S -> S]
    PROVE  EndlessRuns(S, s0, step) # {}
<1> DEFINE Counted(N) == [p \in S \X (1..N) |-> step[p[1]]]
           Begin(N) == {f \in [0..N -> S] :
                          \A n \in 0..N : f[n] = IF n = 0 THEN s0 ELSE step[f[n - 1]]}
<1>1. ASSUME NEW N \in Nat PROVE Begin(N) # {}
  <2>1. Counted(N) \in Steps(S, N)
    BY DEF Steps
  <2> HIDE DEF Counted
  <2>2. PICK f \in Runs(S, N, s0, Counted(N)) : TRUE
    BY <2>1, LoopRuns
  <2>3. f \in [0..N -> S]
    BY <2>2 DEF Runs
  <2>4. ASSUME NEW n \in 0..N
        PROVE  f[n] = IF n = 0 THEN s0 ELSE step[f[n - 1]]
    <3>1. CASE n = 0
      BY <2>2, <3>1 DEF Runs
    <3>2. CASE n # 0
      <4>1. n - 1 \in 0..N /\ n \in 1..N
        BY <3>2
      <4>2. f[n] = Counted(N)[<<f[n - 1], n>>]
        BY <2>2, <3>2 DEF Runs
      <4>3. <<f[n - 1], n>> \in S \X (1..N)
        BY <2>3, <4>1
      <4>4. Counted(N)[<<f[n - 1], n>>] = step[f[n - 1]]
        BY <4>3 DEF Counted
      <4> QED
        BY <3>2, <4>2, <4>4
    <3> QED
      BY <3>1, <3>2
  <2> QED
    BY <2>3, <2>4
<1>2. ASSUME NEW M \in Nat, NEW N \in Nat, M <= N, NEW f \in Begin(M), NEW g \in Begin(N)
      PROVE  \A n \in 0..M : f[n] = g[n]
  <2> DEFINE T == {n \in 0..M : f[n] = g[n]}
  <2>1. 0 \in T
    <3>1. 0 \in 0..M /\ 0 \in 0..N
      BY <1>2
    <3>2. f[0] = s0 /\ g[0] = s0
      BY <3>1
    <3> QED
      BY <3>1, <3>2
  <2>2. ASSUME NEW n \in 0..M - 1, n \in T PROVE n + 1 \in T
    <3>1. n + 1 \in 0..M /\ n + 1 \in 0..N /\ n + 1 # 0 /\ (n + 1) - 1 = n
      BY <1>2
    <3>2. f[n + 1] = step[f[n]] /\ g[n + 1] = step[g[n]]
      BY <3>1
    <3>3. f[n] = g[n]
      BY <2>2
    <3> QED
      BY <3>1, <3>2, <3>3
  <2> HIDE DEF T
  <2>3. \A n \in 0..M : n \in T
    BY <2>1, <2>2, BoundedInduction
  <2> QED
    BY <2>3 DEF T
<1> DEFINE run == [n \in Nat |-> (CHOOSE f \in Begin(n) : TRUE)[n]]
<1>3. ASSUME NEW n \in Nat
      PROVE  \E f \in Begin(n) : run[n] = f[n] /\ \A m \in 0..n : run[m] = f[m]
  <2>1. \A m \in Nat : (CHOOSE f \in Begin(m) : TRUE) \in Begin(m)
    BY <1>1
  <2> DEFINE C(m) == CHOOSE f \in Begin(m) : TRUE
  <2>2. \A m \in Nat : C(m) \in Begin(m) /\ run[m] = C(m)[m]
    BY <2>1
  <2> HIDE DEF C, run, Begin
  <2>3. ASSUME NEW m \in 0..n PROVE run[m] = C(n)[m]
    <3>1. m \in Nat /\ m <= n /\ m \in 0..m
      OBVIOUS
    <3>2. C(m)[m] = C(n)[m]
      BY <1>2, <2>2, <3>1
    <3> QED
      BY <2>2, <3>1, <3>2
  <2> QED
    BY <2>2, <2>3
<1>4. ASSUME NEW n \in Nat
      PROVE  run[n] \in S /\ run[n] = IF n = 0 THEN s0 ELSE step[run[n - 1]]
  <2> HIDE DEF run
  <2>1. PICK f \in Begin(n) : run[n] = f[n] /\ \A m \in 0..n : run[m] = f[m]
    BY <1>3
  <2>2. n \in 0..n
    OBVIOUS
  <2>3. f[n] \in S /\ f[n] = IF n = 0 THEN s0 ELSE step[f[n - 1]]
    BY <2>2
  <2>4. n # 0 => run[n - 1] = f[n - 1]
    BY <2>1
  <2> QED
    BY <2>1, <2>3, <2>4
<1>5. run \in [Nat -> S]
  BY <1>4
<1> HIDE DEF run
<1>6. run \in EndlessRuns(S, s0, step)
  BY <1>4, <1>5 DEF EndlessRuns
<1> QED
  BY <1>6
=============================================================================
