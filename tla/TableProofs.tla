---------------------------- MODULE TableProofs ----------------------------
(***************************************************************************)
(* Tables of Lua, for any keys and hashes, any sizes and any program: the   *)
(* nodes fit each other, the length is a boundary, sort() sorts and is      *)
(* shallow, and a table is a map.                                          *)
(***************************************************************************)
EXTENDS TableLibrary, LeastNumber, FiniteSetTheorems, SequenceTheorems, TLAPS

-----------------------------------------------------------------------------
(* Chains, as a function from nodes to the nodes behind them.              *)

IsLink(N, nx) == nx \in [N -> N \cup {NULL}] /\ NULL \notin N

Closed(nx, C) == \A x \in C : nx[x] # NULL => nx[x] \in C

\* b is a or comes behind it in the chain of a.
Reach(N, nx, a, b) == \A C \in SUBSET N : a \in C /\ Closed(nx, C) => b \in C

\* A node is in the chain it begins,
LEMMA ReachSelf ==
    ASSUME NEW N, NEW nx, NEW a \in N
    PROVE  Reach(N, nx, a, a)
BY DEF Reach

\* and so is the node behind any of them.
LEMMA ReachNext ==
    ASSUME NEW N, NEW nx, IsLink(N, nx), NEW a \in N, NEW b \in N, Reach(N, nx, a, b),
           nx[b] # NULL
    PROVE  Reach(N, nx, a, nx[b])
BY DEF Reach, Closed

\* What a does not reach itself it reaches through the node behind it.
LEMMA ReachFirst ==
    ASSUME NEW N, NEW nx, IsLink(N, nx), NEW a \in N, NEW b \in N, Reach(N, nx, a, b), a # b
    PROVE  nx[a] \in N /\ Reach(N, nx, nx[a], b)
<1>1. nx[a] \in N
  <2>1. SUFFICES ASSUME nx[a] = NULL PROVE FALSE
    BY DEF IsLink
  <2>2. Closed(nx, {a})
    BY <2>1 DEF Closed
  <2> QED
    BY <2>2 DEF Reach
<1>2. SUFFICES ASSUME NEW C \in SUBSET N, nx[a] \in C, Closed(nx, C)
               PROVE  b \in C
  BY <1>1 DEF Reach
<1>3. Closed(nx, C \cup {a})
  BY <1>2 DEF Closed
<1>4. b \in C \cup {a}
  BY <1>3 DEF Reach
<1> QED
  BY <1>4

\* Chains do not run in circles: nodes further on have greater ranks.
IsRank(N, nx, rank) ==
    rank \in [N -> Nat] /\ \A x \in N : nx[x] # NULL => rank[x] < rank[nx[x]]
Ranked(N, nx) == \E rank : IsRank(N, nx, rank)

\* What comes behind has the greater rank.
LEMMA ReachRank ==
    ASSUME NEW N, NEW nx, IsLink(N, nx), NEW rank, IsRank(N, nx, rank),
           NEW a \in N, NEW b \in N, Reach(N, nx, a, b)
    PROVE  a = b \/ rank[a] < rank[b]
<1> DEFINE C == {x \in N : a = x \/ rank[a] < rank[x]}
<1>1. a \in C
  OBVIOUS
<1>2. Closed(nx, C)
  BY DEF Closed, IsLink, IsRank
<1> QED
  BY <1>1, <1>2 DEF Reach

\* Two nodes that reach each other are one.
LEMMA ReachOneWay ==
    ASSUME NEW N, NEW nx, IsLink(N, nx), Ranked(N, nx),
           NEW a \in N, NEW b \in N, Reach(N, nx, a, b), Reach(N, nx, b, a)
    PROVE  a = b
<1>1. PICK rank : IsRank(N, nx, rank)
  BY DEF Ranked
<1>2. a = b \/ rank[a] < rank[b]
  BY <1>1, ReachRank
<1>3. b = a \/ rank[b] < rank[a]
  BY <1>1, ReachRank
<1> QED
  BY <1>1, <1>2, <1>3 DEF IsRank

-----------------------------------------------------------------------------
(* A node goes in behind another.                                          *)

Behind(nx, p, n) == [nx EXCEPT ![n] = nx[p], ![p] = n]

\* No node leads to n, and n leads nowhere.
IsLoose(N, nx, n) == nx[n] = NULL /\ \A m \in N : nx[m] # n

\* The links after that.
LEMMA BehindLink ==
    ASSUME NEW N, NEW nx, IsLink(N, nx), NEW p \in N, NEW n \in N, p # n
    PROVE  /\ IsLink(N, Behind(nx, p, n))
           /\ Behind(nx, p, n)[p] = n /\ Behind(nx, p, n)[n] = nx[p]
           /\ \A x \in N : x # p /\ x # n => Behind(nx, p, n)[x] = nx[x]
BY DEF IsLink, Behind

\* What was reached still is.
LEMMA BehindReach ==
    ASSUME NEW N, NEW nx, IsLink(N, nx), NEW p \in N, NEW n \in N, p # n,
           IsLoose(N, nx, n), NEW a \in N, NEW b \in N, Reach(N, nx, a, b)
    PROVE  Reach(N, Behind(nx, p, n), a, b)
<1> DEFINE ny == Behind(nx, p, n)
<1>1. /\ ny[p] = n /\ ny[n] = nx[p]
      /\ \A x \in N : x # p /\ x # n => ny[x] = nx[x]
  BY BehindLink
<1> HIDE DEF ny
<1>2. SUFFICES ASSUME NEW C \in SUBSET N, a \in C, Closed(ny, C) PROVE b \in C
  BY DEF Reach, ny
<1>3. CASE a = n
  <2>1. Closed(nx, {n})
    BY DEF IsLoose, Closed
  <2>2. b \in {n}
    BY <1>3, <2>1 DEF Reach
  <2> QED
    BY <1>2, <1>3, <2>2
<1>4. CASE a # n
  <2>1. Closed(nx, C \ {n})
    <3>1. SUFFICES ASSUME NEW x \in C, x # n, nx[x] # NULL PROVE nx[x] \in C /\ nx[x] # n
      BY DEF Closed
    <3>2. nx[x] # n
      BY DEF IsLoose
    <3>3. CASE x = p
      <4>1. n \in C
        BY <1>1, <1>2, <3>3 DEF Closed, IsLink
      <4>2. ny[n] \in C
        BY <1>1, <1>2, <3>1, <3>3, <4>1 DEF Closed
      <4> QED
        BY <1>1, <3>2, <3>3, <4>2
    <3>4. CASE x # p
      BY <1>1, <1>2, <3>1, <3>2, <3>4 DEF Closed
    <3> QED
      BY <3>3, <3>4
  <2> QED
    BY <1>2, <1>4, <2>1 DEF Reach
<1> QED
  BY <1>3, <1>4

\* Chains still do not run in circles.
LEMMA BehindRanked ==
    ASSUME NEW N, NEW nx, IsLink(N, nx), NEW p \in N, NEW n \in N, p # n,
           IsLoose(N, nx, n), Ranked(N, nx)
    PROVE  Ranked(N, Behind(nx, p, n))
<1> DEFINE ny == Behind(nx, p, n)
<1>1. /\ ny[p] = n /\ ny[n] = nx[p]
      /\ \A x \in N : x # p /\ x # n => ny[x] = nx[x]
  BY BehindLink
<1> HIDE DEF ny
<1>2. PICK rank : IsRank(N, nx, rank)
  BY DEF Ranked
<1> DEFINE r == [x \in N |-> IF x = n THEN 2 * rank[p] + 1 ELSE 2 * rank[x]]
<1>3. r \in [N -> Nat]
  BY <1>2 DEF IsRank
<1>4. ASSUME NEW x \in N, ny[x] # NULL PROVE r[x] < r[ny[x]]
  <2>1. CASE x = p
    BY <1>1, <1>2, <2>1 DEF IsRank
  <2>2. CASE x = n
    <3>1. nx[p] \in N /\ nx[p] # n /\ rank[p] < rank[nx[p]]
      BY <1>1, <1>2, <1>4, <2>2 DEF IsRank, IsLoose, IsLink
    <3> QED
      BY <1>1, <1>2, <2>2, <3>1 DEF IsRank
  <2>3. CASE x # p /\ x # n
    <3>1. nx[x] \in N /\ nx[x] # n /\ rank[x] < rank[nx[x]] /\ ny[x] = nx[x]
      BY <1>1, <1>2, <1>4, <2>3 DEF IsRank, IsLoose, IsLink
    <3> QED
      BY <1>2, <2>3, <3>1 DEF IsRank
  <2> QED
    BY <2>1, <2>2, <2>3
<1>5. IsRank(N, ny, r)
  BY <1>3, <1>4 DEF IsRank
<1> QED
  BY <1>5 DEF Ranked, ny

-----------------------------------------------------------------------------
(* A node moves: n takes the place of mp in the chain, behind q.           *)

Moved(nx, q, mp, n) == [nx EXCEPT ![n] = nx[mp], ![q] = n, ![mp] = NULL]

\* The links after that.
LEMMA MovedLink ==
    ASSUME NEW N, NEW nx, IsLink(N, nx), NEW q \in N, NEW mp \in N, NEW n \in N,
           q # mp, q # n, mp # n
    PROVE  /\ IsLink(N, Moved(nx, q, mp, n))
           /\ Moved(nx, q, mp, n)[n] = nx[mp] /\ Moved(nx, q, mp, n)[q] = n
           /\ Moved(nx, q, mp, n)[mp] = NULL
           /\ \A x \in N : x \notin {q, mp, n} => Moved(nx, q, mp, n)[x] = nx[x]
BY DEF IsLink, Moved

\* What was reached is still reached, by its new name; nothing begins at mp.
LEMMA MovedReach ==
    ASSUME NEW N, NEW nx, IsLink(N, nx), NEW q \in N, NEW mp \in N, NEW n \in N,
           q # mp, q # n, mp # n, nx[q] = mp, IsLoose(N, nx, n),
           \A x \in N : nx[x] = mp => x = q,
           NEW a \in N, NEW b \in N, Reach(N, nx, a, b)
    PROVE  Reach(N, Moved(nx, q, mp, n), IF a = mp THEN n ELSE a, IF b = mp THEN n ELSE b)
<1> DEFINE ny == Moved(nx, q, mp, n)
           To(x) == IF x = mp THEN n ELSE x
<1>1. /\ ny[n] = nx[mp] /\ ny[q] = n /\ ny[mp] = NULL
      /\ \A x \in N : x \notin {q, mp, n} => ny[x] = nx[x]
  BY MovedLink
<1> HIDE DEF ny
<1>2. SUFFICES ASSUME NEW C \in SUBSET N, To(a) \in C, Closed(ny, C) PROVE To(b) \in C
  BY DEF Reach, ny
<1>3. CASE a = n
  <2>1. Closed(nx, {n})
    BY DEF IsLoose, Closed
  <2>2. b \in {n}
    BY <1>3, <2>1 DEF Reach
  <2> QED
    BY <1>2, <1>3, <2>2
<1>4. CASE a # n
  <2> DEFINE D == {x \in N \ {n} : To(x) \in C}
  <2>1. a \in D
    BY <1>2, <1>4
  <2>2. Closed(nx, D)
    <3>1. SUFFICES ASSUME NEW x \in N, x # n, To(x) \in C, nx[x] # NULL
                   PROVE  nx[x] \in N /\ nx[x] # n /\ To(nx[x]) \in C
      BY DEF Closed
    <3>2. nx[x] \in N /\ nx[x] # n
      BY <3>1 DEF IsLink, IsLoose
    <3>3. CASE x = mp
      <4>1. nx[mp] # mp /\ ny[n] # NULL /\ n \in C
        BY <1>1, <3>1, <3>3
      <4>2. ny[n] \in C
        BY <1>2, <4>1 DEF Closed
      <4> QED
        BY <1>1, <3>2, <3>3, <4>1, <4>2
    <3>4. CASE x = q
      <4>1. q \in C /\ ny[q] # NULL
        BY <1>1, <3>1, <3>4 DEF IsLink
      <4>2. ny[q] \in C
        BY <1>2, <4>1 DEF Closed
      <4> QED
        BY <1>1, <3>2, <3>4, <4>2
    <3>5. CASE x # mp /\ x # q
      <4>1. nx[x] # mp /\ ny[x] = nx[x] /\ x \in C
        BY <1>1, <3>1, <3>5
      <4>2. ny[x] \in C
        BY <1>2, <3>1, <4>1 DEF Closed
      <4> QED
        BY <3>2, <4>1, <4>2
    <3> QED
      BY <3>3, <3>4, <3>5
  <2>3. b \in D
    BY <2>1, <2>2 DEF Reach
  <2> QED
    BY <2>3
<1> QED
  BY <1>3, <1>4

\* Chains still do not run in circles.
LEMMA MovedRanked ==
    ASSUME NEW N, NEW nx, IsLink(N, nx), NEW q \in N, NEW mp \in N, NEW n \in N,
           q # mp, q # n, mp # n, nx[q] = mp, IsLoose(N, nx, n),
           \A x \in N : nx[x] = mp => x = q, Ranked(N, nx)
    PROVE  Ranked(N, Moved(nx, q, mp, n))
<1> DEFINE ny == Moved(nx, q, mp, n)
<1>1. /\ ny[n] = nx[mp] /\ ny[q] = n /\ ny[mp] = NULL
      /\ \A x \in N : x \notin {q, mp, n} => ny[x] = nx[x]
  BY MovedLink
<1> HIDE DEF ny
<1>2. PICK rank : IsRank(N, nx, rank)
  BY DEF Ranked
<1> DEFINE r == [x \in N |-> IF x = n THEN rank[mp] ELSE rank[x]]
<1>3. r \in [N -> Nat]
  BY <1>2 DEF IsRank
<1>4. ASSUME NEW x \in N, ny[x] # NULL PROVE r[x] < r[ny[x]]
  <2>1. CASE x = q
    <3>1. rank[q] < rank[mp]
      BY <1>2 DEF IsRank, IsLink
    <3> QED
      BY <1>1, <2>1, <3>1
  <2>2. CASE x = n
    <3>1. nx[mp] \in N /\ nx[mp] # n /\ rank[mp] < rank[nx[mp]]
      BY <1>1, <1>2, <1>4, <2>2 DEF IsRank, IsLoose, IsLink
    <3> QED
      BY <1>1, <2>2, <3>1
  <2>3. CASE x \notin {q, mp, n}
    <3>1. nx[x] \in N /\ nx[x] # n /\ rank[x] < rank[nx[x]] /\ ny[x] = nx[x]
      BY <1>1, <1>2, <1>4, <2>3 DEF IsRank, IsLoose, IsLink
    <3> QED
      BY <2>3, <3>1
  <2> QED
    BY <1>1, <1>4, <2>1, <2>2, <2>3
<1>5. IsRank(N, ny, r)
  BY <1>3, <1>4 DEF IsRank
<1> QED
  BY <1>5 DEF Ranked, ny

-----------------------------------------------------------------------------
(* The shape of the hash part: N are its nodes, nx the links, kf the keys   *)
(* the nodes hold, hm the main position of each key.                        *)

NodeKeys == Key \cup {Nil} \cup {Dead(k) : k \in Key}

\* The key a node was taken for: a dead key remembers it.
Owner(key) == IF key \in Key THEN key ELSE key[2]

\* The main position of what a node holds, or held, is held by a key at home, and leads to it.
FromHome(N, nx, kf, hm, n) ==
    LET m == hm[Owner(kf[n])]
    IN  kf[m] # Nil /\ hm[Owner(kf[m])] = m /\ Reach(N, nx, m, n)

OneBefore(N, nx) == \A x, y \in N : nx[x] # NULL /\ nx[x] = nx[y] => x = y

Shape(N, nx, kf, hm) ==
    /\ IsLink(N, nx) /\ Ranked(N, nx) /\ OneBefore(N, nx)
    /\ kf \in [N -> NodeKeys] /\ hm \in [Key -> N]
    /\ \A n \in N : kf[n] = Nil => IsLoose(N, nx, n)
    /\ \A n \in N : kf[n] # Nil => FromHome(N, nx, kf, hm, n)
    /\ \A m, n \in N : kf[m] \in Key /\ kf[m] = kf[n] => m = n
    /\ \A m, n \in N : kf[m] \in Key /\ kf[n] = Dead(kf[m]) => Reach(N, nx, m, n)

\* A key and what is left of it when it has died.
LEMMA Owners ==
    /\ \A k \in Key : Owner(k) = k /\ Owner(Dead(k)) = k /\ k # Nil /\ Dead(k) # Nil
    /\ \A k \in Key : Dead(k) \notin Key
    /\ \A key \in NodeKeys : key # Nil => Owner(key) \in Key
    /\ \A key \in NodeKeys : key \notin Key \cup {Nil} => key = Dead(Owner(key))
<1>1. \A k \in Key : Owner(k) = k /\ Owner(Dead(k)) = k /\ k # Nil /\ Dead(k) # Nil
                     /\ Dead(k) \notin Key
  BY KeyAssumption DEF Owner, Dead
<1> QED
  BY <1>1 DEF NodeKeys

\* A key takes its main position.
LEMMA ShapeSetKey ==
    ASSUME NEW N, NEW nx, NEW kf, NEW hm, Shape(N, nx, kf, hm),
           NEW key \in Key, \A n \in N : kf[n] # key
    PROVE  Shape(N, nx, [kf EXCEPT ![hm[key]] = key], hm)
<1> DEFINE mp == hm[key]
           kg == [kf EXCEPT ![mp] = key]
<1>1. mp \in N /\ kg \in [N -> NodeKeys] /\ kg[mp] = key /\ \A n \in N : n # mp => kg[n] = kf[n]
  BY DEF Shape, NodeKeys
<1> HIDE DEF kg
<1>2. ASSUME NEW n \in N, kg[n] # Nil PROVE FromHome(N, nx, kg, hm, n)
  <2>1. CASE n = mp
    <3>1. Owner(kg[n]) = key /\ Reach(N, nx, mp, n)
      BY <1>1, <2>1, Owners, ReachSelf
    <3> QED
      BY <1>1, <2>1, <3>1, Owners DEF FromHome
  <2>2. CASE n # mp
    <3> DEFINE m == hm[Owner(kf[n])]
    <3>1. kf[m] # Nil /\ hm[Owner(kf[m])] = m /\ Reach(N, nx, m, n) /\ m \in N
      BY <1>1, <1>2, <2>2, Owners DEF Shape, FromHome
    <3>2. kg[m] # Nil /\ hm[Owner(kg[m])] = m
      BY <1>1, <3>1, Owners
    <3> QED
      BY <1>1, <2>2, <3>1, <3>2 DEF FromHome
  <2> QED
    BY <2>1, <2>2
<1>3. ASSUME NEW m \in N, NEW n \in N, kg[m] \in Key, kg[m] = kg[n] PROVE m = n
  BY <1>1, <1>3 DEF Shape
<1>4. ASSUME NEW m \in N, NEW n \in N, kg[m] \in Key, kg[n] = Dead(kg[m]) PROVE Reach(N, nx, m, n)
  <2>1. n # mp
    BY <1>1, <1>4, Owners
  <2>2. CASE m = mp
    <3>1. kf[n] = Dead(key)
      BY <1>1, <1>4, <2>1, <2>2
    <3>2. FromHome(N, nx, kf, hm, n) /\ Owner(kf[n]) = key
      BY <3>1, Owners DEF Shape
    <3> QED
      BY <2>2, <3>2 DEF FromHome
  <2>3. CASE m # mp
    BY <1>1, <1>4, <2>1, <2>3 DEF Shape
  <2> QED
    BY <2>2, <2>3
<1>5. \A n \in N : kg[n] = Nil => IsLoose(N, nx, n)
  BY <1>1, Owners DEF Shape
<1>6. Shape(N, nx, kg, hm)
  BY <1>1, <1>2, <1>3, <1>4, <1>5 DEF Shape
<1> QED
  BY <1>6 DEF kg

\* The node in the main position is at home: the new key goes behind it.
LEMMA ShapeChainNew ==
    ASSUME NEW N, NEW nx, NEW kf, NEW hm, Shape(N, nx, kf, hm),
           NEW key \in Key, \A n \in N : kf[n] # key,
           kf[hm[key]] \in Key, hm[kf[hm[key]]] = hm[key],
           NEW n \in N, kf[n] = Nil
    PROVE  Shape(N, Behind(nx, hm[key], n), [kf EXCEPT ![n] = key], hm)
<1> DEFINE mp == hm[key]
           kg == [kf EXCEPT ![n] = key]
           ny == Behind(nx, mp, n)
<1>1. mp \in N /\ kg \in [N -> NodeKeys] /\ kg[n] = key /\ \A x \in N : x # n => kg[x] = kf[x]
  BY DEF Shape, NodeKeys
<1>2. mp # n /\ IsLoose(N, nx, n) /\ IsLink(N, nx)
  BY Owners DEF Shape
<1>3. /\ IsLink(N, ny) /\ ny[mp] = n /\ ny[n] = nx[mp]
      /\ \A x \in N : x # mp /\ x # n => ny[x] = nx[x]
  BY <1>1, <1>2, BehindLink
<1>4. Ranked(N, ny)
  BY <1>1, <1>2, BehindRanked DEF Shape
<1>5. \A a, b \in N : Reach(N, nx, a, b) => Reach(N, ny, a, b)
  BY <1>1, <1>2, BehindReach
<1> HIDE DEF kg, ny
<1>6. Reach(N, ny, mp, n)
  <2>1. Reach(N, ny, mp, mp)
    BY <1>1, ReachSelf
  <2> QED
    BY <1>1, <1>3, <2>1, ReachNext DEF IsLink
<1>7. OneBefore(N, ny)
  <2>1. ASSUME NEW x \in N, NEW y \in N, ny[x] # NULL, ny[x] = ny[y] PROVE x = y
    BY <1>2, <1>3, <2>1 DEF Shape, OneBefore, IsLoose
  <2> QED
    BY <2>1 DEF OneBefore
<1>8. ASSUME NEW x \in N, kg[x] # Nil PROVE FromHome(N, ny, kg, hm, x)
  <2>1. CASE x = n
    <3>1. Owner(kg[n]) = key /\ kg[mp] = kf[mp] /\ kf[mp] # Nil /\ Owner(kf[mp]) = kf[mp]
      BY <1>1, <1>2, Owners
    <3> QED
      BY <1>6, <2>1, <3>1 DEF FromHome
  <2>2. CASE x # n
    <3> DEFINE m == hm[Owner(kf[x])]
    <3>1. kf[m] # Nil /\ hm[Owner(kf[m])] = m /\ Reach(N, nx, m, x) /\ m \in N
      BY <1>1, <1>8, <2>2, Owners DEF Shape, FromHome
    <3>2. kg[m] = kf[m] /\ Reach(N, ny, m, x)
      BY <1>1, <1>5, <3>1
    <3> QED
      BY <1>1, <2>2, <3>1, <3>2 DEF FromHome
  <2> QED
    BY <2>1, <2>2
<1>9. ASSUME NEW x \in N, NEW y \in N, kg[x] \in Key, kg[x] = kg[y] PROVE x = y
  BY <1>1, <1>9 DEF Shape
<1>10. ASSUME NEW x \in N, NEW y \in N, kg[x] \in Key, kg[y] = Dead(kg[x]) PROVE Reach(N, ny, x, y)
  <2>1. y # n
    BY <1>1, <1>10, Owners
  <2>2. CASE x = n
    <3>1. kf[y] = Dead(key) /\ kf[y] # Nil /\ Owner(kf[y]) = key /\ y # mp
      BY <1>1, <1>10, <2>1, <2>2, Owners
    <3>2. Reach(N, nx, mp, y)
      BY <3>1 DEF Shape, FromHome
    <3>3. Reach(N, ny, mp, y)
      BY <1>1, <1>5, <3>2
    <3>4. Reach(N, ny, ny[mp], y)
      BY <1>1, <1>3, <3>1, <3>3, ReachFirst
    <3> QED
      BY <1>3, <2>2, <3>4
  <2>3. CASE x # n
    BY <1>1, <1>5, <1>10, <2>1, <2>3 DEF Shape
  <2> QED
    BY <2>2, <2>3
<1>11. ASSUME NEW x \in N, kg[x] = Nil PROVE IsLoose(N, ny, x)
  <2>1. x # n /\ IsLoose(N, nx, x) /\ x # mp
    BY <1>1, <1>11, Owners DEF Shape
  <2>2. ny[x] = NULL
    BY <1>3, <2>1 DEF IsLoose
  <2>3. ASSUME NEW y \in N PROVE ny[y] # x
    BY <1>1, <1>3, <2>1 DEF IsLoose
  <2> QED
    BY <2>2, <2>3 DEF IsLoose
<1>12. Shape(N, ny, kg, hm)
  BY <1>1, <1>3, <1>4, <1>7, <1>8, <1>9, <1>10, <1>11 DEF Shape
<1> QED
  BY <1>12 DEF kg, ny

\* The node in the main position is not at home: it moves to n.
LEMMA ShapeMoved ==
    ASSUME NEW N, NEW nx, NEW kf, NEW hm, Shape(N, nx, kf, hm),
           NEW key \in Key, \A n \in N : kf[n] # key,
           kf[hm[key]] \in Key, hm[kf[hm[key]]] # hm[key],
           NEW n \in N, kf[n] = Nil, NEW q \in N, nx[q] = hm[key]
    PROVE  Shape(N, Moved(nx, q, hm[key], n),
                 [kf EXCEPT ![n] = kf[hm[key]], ![hm[key]] = key], hm)
<1> DEFINE mp == hm[key]
           kg == [kf EXCEPT ![n] = kf[mp], ![mp] = key]
           ny == Moved(nx, q, mp, n)
           To(x) == IF x = mp THEN n ELSE x
<1>1. mp \in N /\ IsLoose(N, nx, n) /\ IsLink(N, nx) /\ mp # n /\ kf[mp] # Nil
  BY Owners DEF Shape
<1>2. /\ kg \in [N -> NodeKeys] /\ kg[n] = kf[mp] /\ kg[mp] = key
      /\ \A x \in N : x # n /\ x # mp => kg[x] = kf[x]
  BY <1>1 DEF Shape, NodeKeys
<1>3. q # n /\ \A x \in N : nx[x] = mp => x = q
  BY <1>1 DEF Shape, OneBefore, IsLoose, IsLink
<1>4. q # mp
  BY <1>1 DEF Shape, Ranked, IsRank, IsLink
<1>5. /\ IsLink(N, ny) /\ ny[n] = nx[mp] /\ ny[q] = n /\ ny[mp] = NULL
      /\ \A x \in N : x \notin {q, mp, n} => ny[x] = nx[x]
  BY <1>1, <1>3, <1>4, MovedLink
<1>6. Ranked(N, ny)
  BY <1>1, <1>3, <1>4, MovedRanked DEF Shape
<1>7. \A a, b \in N : Reach(N, nx, a, b) => Reach(N, ny, To(a), To(b))
  BY <1>1, <1>3, <1>4, MovedReach
<1> HIDE DEF kg, ny
<1>8. OneBefore(N, ny)
  <2>1. ASSUME NEW x \in N, NEW y \in N, ny[x] # NULL, ny[x] = ny[y] PROVE x = y
    <3>1. \A z \in N : z \notin {q, mp, n} => ny[z] # n /\ ny[z] # mp
      BY <1>1, <1>3, <1>5 DEF IsLoose
    <3>2. nx[mp] # n
      BY <1>1 DEF IsLoose
    <3>3. nx[mp] # mp
      BY <1>3, <1>4, <1>1
    <3>4. \A z \in N : z \notin {q, mp, n} /\ ny[z] # NULL /\ ny[z] = nx[mp] => z = mp
      BY <1>1, <1>5 DEF Shape, OneBefore
    <3> QED
      BY <1>5, <2>1, <3>1, <3>2, <3>3, <3>4 DEF Shape, OneBefore
  <2> QED
    BY <2>1 DEF OneBefore
<1>9. ASSUME NEW x \in N, kf[x] # Nil
      PROVE  /\ hm[Owner(kf[x])] \in N \ {mp, n} /\ kf[hm[Owner(kf[x])]] # Nil
             /\ hm[Owner(kf[hm[Owner(kf[x])]])] = hm[Owner(kf[x])]
             /\ Reach(N, ny, hm[Owner(kf[x])], To(x))
  <2> DEFINE m == hm[Owner(kf[x])]
  <2>1. m \in N /\ kf[m] # Nil /\ hm[Owner(kf[m])] = m /\ Reach(N, nx, m, x)
    BY <1>9, Owners DEF Shape, FromHome
  <2>2. m # mp
    BY <2>1, Owners
  <2>3. Reach(N, ny, m, To(x))
    BY <1>7, <2>1, <2>2
  <2> QED
    BY <2>1, <2>2, <2>3
<1>10. ASSUME NEW x \in N, kg[x] # Nil PROVE FromHome(N, ny, kg, hm, x)
  <2>1. CASE x = mp
    <3>1. Owner(kg[mp]) = key /\ Reach(N, ny, mp, mp) /\ kg[mp] # Nil
      BY <1>1, <1>2, Owners, ReachSelf
    <3> QED
      BY <2>1, <3>1 DEF FromHome
  <2>2. CASE x = n
    <3>1. hm[Owner(kf[mp])] \in N \ {mp, n} /\ kf[hm[Owner(kf[mp])]] # Nil
          /\ hm[Owner(kf[hm[Owner(kf[mp])]])] = hm[Owner(kf[mp])]
          /\ Reach(N, ny, hm[Owner(kf[mp])], n)
      BY <1>1, <1>9
    <3> QED
      BY <1>2, <2>2, <3>1 DEF FromHome
  <2>3. CASE x # mp /\ x # n
    <3>1. kf[x] # Nil /\ kg[x] = kf[x]
      BY <1>2, <1>10, <2>3
    <3>2. hm[Owner(kf[x])] \in N \ {mp, n} /\ kf[hm[Owner(kf[x])]] # Nil
          /\ hm[Owner(kf[hm[Owner(kf[x])]])] = hm[Owner(kf[x])]
          /\ Reach(N, ny, hm[Owner(kf[x])], x)
      BY <1>9, <2>3, <3>1
    <3> QED
      BY <1>2, <3>1, <3>2 DEF FromHome
  <2> QED
    BY <2>1, <2>2, <2>3
<1>11. ASSUME NEW x \in N, NEW y \in N, kg[x] \in Key, kg[x] = kg[y] PROVE x = y
  BY <1>1, <1>2, <1>11 DEF Shape
<1>12. ASSUME NEW x \in N, NEW y \in N, kg[x] \in Key, kg[y] = Dead(kg[x]) PROVE Reach(N, ny, x, y)
  <2>1. y # mp /\ y # n /\ kf[y] = kg[y] /\ kf[y] # Nil
    BY <1>1, <1>2, <1>12, Owners
  <2>2. CASE x = mp
    <3>1. Owner(kf[y]) = key
      BY <1>2, <1>12, <2>1, <2>2, Owners
    <3> QED
      BY <1>9, <2>1, <3>1
  <2>3. CASE x = n
    <3>1. Reach(N, nx, mp, y)
      BY <1>1, <1>2, <1>12, <2>1, <2>3 DEF Shape
    <3> QED
      BY <1>1, <1>7, <2>1, <2>3, <3>1
  <2>4. CASE x # mp /\ x # n
    <3>1. Reach(N, nx, x, y)
      BY <1>2, <1>12, <2>1, <2>4 DEF Shape
    <3> QED
      BY <1>7, <2>1, <2>4, <3>1
  <2> QED
    BY <2>2, <2>3, <2>4
<1>13. ASSUME NEW x \in N, kg[x] = Nil PROVE IsLoose(N, ny, x)
  <2>1. x # n /\ x # mp /\ IsLoose(N, nx, x)
    BY <1>1, <1>2, <1>13, Owners DEF Shape
  <2>2. x # q
    BY <1>1, <2>1 DEF IsLoose, IsLink
  <2> QED
    BY <1>1, <1>5, <2>1, <2>2 DEF IsLoose
<1>14. hm \in [Key -> N]
  BY DEF Shape
<1>15. Shape(N, ny, kg, hm)
  BY <1>2, <1>5, <1>6, <1>8, <1>10, <1>11, <1>12, <1>13, <1>14 DEF Shape
<1> QED
  BY <1>15 DEF kg, ny

-----------------------------------------------------------------------------
(* Tables.                                                                 *)

AnyNode == [key : NodeKeys, val : Value \cup {Nil}, next : Int]
AnyTable ==
    [array : Seq(Value \cup {Nil}), node : Seq(AnyNode), dummy : BOOLEAN, lastfree : Int]

Links(h) == [n \in Nodes(h) |-> gnode(h, n).next]
Held(h) == [n \in Nodes(h) |-> gnode(h, n).key]
Homes(h) == [k \in Key |-> mainposition(h, k)]
HasShape(h) == Shape(Nodes(h), Links(h), Held(h), Homes(h))

Sized(h) == h \in AnyTable /\ sizenode(h) >= 1 /\ h.lastfree \in 0..sizenode(h)

\* What every table is between two operations, and inside of them.
Sound(h) ==
    /\ Sized(h) /\ HasShape(h)
    /\ h.dummy => h.node = Empty.node /\ h.lastfree = 0
    /\ ~h.dummy => \A n \in h.lastfree..(sizenode(h) - 1) : Held(h)[n] # Nil
    /\ \A n \in Nodes(h) : Held(h)[n] \notin Key => gnode(h, n).val = Nil
    /\ \A k \in Key, n \in Nodes(h) : Held(h)[n] = Dead(k) => iscollectable(k)
    /\ \A n \in Nodes(h) : Held(h)[n] \in Key => ~InArray(h, Held(h)[n])
    /\ \A i \in 1..sizearray(h) : h.array[i] # Nil => Number(i) \in Key

\* The numbers of nodes.
LEMMA NodesOf ==
    ASSUME NEW h \in AnyTable
    PROVE  /\ sizenode(h) \in Nat /\ sizearray(h) \in Nat /\ Size(h) = sizearray(h) + sizenode(h)
           /\ Nodes(h) \subseteq Nat /\ NULL \notin Nodes(h) /\ NULL = -1
           /\ \A n \in Nodes(h) : n + 1 \in DOMAIN h.node
           /\ \A n \in Nodes(h) : gnode(h, n) \in AnyNode /\ gnode(h, n) = h.node[n + 1]
           /\ \A i \in 1..sizearray(h) : h.array[i] \in Value \cup {Nil}
           /\ h.array \in Seq(Value \cup {Nil}) /\ h.node \in Seq(AnyNode)
BY DEF AnyTable, sizenode, sizearray, Nodes, NULL, gnode, Size

\* What a node holds.
LEMMA HeldType ==
    ASSUME NEW h \in AnyTable, NEW n \in Nodes(h)
    PROVE  /\ Held(h)[n] = gnode(h, n).key /\ Held(h)[n] \in NodeKeys
           /\ gnode(h, n).val \in Value \cup {Nil}
           /\ Links(h)[n] = gnode(h, n).next /\ Links(h)[n] = gnext(h, n)
<1>1. gnode(h, n) \in AnyNode
  BY NodesOf
<1> QED
  BY <1>1 DEF Held, Links, AnyNode, gnext

\* A main position is a node.
LEMMA MainPosition ==
    ASSUME NEW h, sizenode(h) \in Nat, sizenode(h) >= 1, NEW key \in Key
    PROVE  mainposition(h, key) \in Nodes(h)
<1>1. Hash[key] \in Nat
  BY KeyAssumption
<1>2. hashmod(h, Hash[key]) \in Nodes(h)
  <2>1. CASE sizenode(h) = 1
    BY <2>1 DEF hashmod, Nodes
  <2>2. CASE sizenode(h) # 1
    <3>1. sizenode(h) - 1 \in Nat /\ sizenode(h) - 1 > 0
      BY <2>2
    <3>2. Hash[key] % (sizenode(h) - 1) \in 0..(sizenode(h) - 1 - 1)
      BY <1>1, <3>1
    <3> QED
      BY <2>2, <3>1, <3>2 DEF hashmod, Nodes
  <2> QED
    BY <2>1, <2>2
<1>3. hashpow2(h, Hash[key]) \in Nodes(h)
  <2>1. Hash[key] % sizenode(h) \in 0..(sizenode(h) - 1)
    BY <1>1
  <2> QED
    BY <2>1 DEF hashpow2, Nodes
<1>4. 0 \in Nodes(h)
  BY DEF Nodes
<1> QED
  BY <1>2, <1>3, <1>4 DEF mainposition

\* The main position of a key depends on the number of nodes alone.
LEMMA SameHomes ==
    ASSUME NEW h, NEW g, sizenode(g) = sizenode(h)
    PROVE  Homes(g) = Homes(h) /\ Nodes(g) = Nodes(h)
BY DEF Homes, mainposition, hashmod, hashpow2, Nodes

\* A chain, node by node.
LEMMA ChainNodes ==
    ASSUME NEW h, IsLink(Nodes(h), Links(h)), NEW n \in Nodes(h)
    PROVE  /\ Chain(h, n) \in [Nat -> Nodes(h) \cup {NULL}]
           /\ Chain(h, n)[0] = n
           /\ \A d \in Nat : Chain(h, n)[d + 1] = gnext(h, Chain(h, n)[d])
<1> DEFINE S == Nodes(h) \cup {NULL}
           step == [x \in S |-> gnext(h, x)]
           IsChain(c) == c = [d \in Nat |-> IF d = 0 THEN n ELSE gnext(h, c[d - 1])]
           chain == CHOOSE c : IsChain(c)
<1>1. step \in [S -> S] /\ \A x \in S : step[x] = gnext(h, x)
  BY DEF IsLink, Links, gnext
<1> HIDE DEF step
<1>2. PICK f \in [Nat -> S] : \A d \in Nat : f[d] = IF d = 0 THEN n ELSE step[f[d - 1]]
  <2>1. EndlessRuns(S, n, step) # {}
    BY <1>1, EndlessLoopRuns
  <2> QED
    BY <2>1 DEF EndlessRuns
<1>3. \A d \in Nat : f[d] = IF d = 0 THEN n ELSE gnext(h, f[d - 1])
  BY <1>1, <1>2
<1>4. IsChain(f)
  BY <1>2, <1>3
<1>5. IsChain(chain)
  <2> HIDE DEF IsChain
  <2> QED
    BY <1>4
<1>6. Chain(h, n) = chain
  BY DEF Chain
<1> HIDE DEF chain
<1>7. chain[0] = n /\ \A d \in Nat : chain[d + 1] = gnext(h, chain[d])
  BY <1>5
<1>8. \A d \in Nat : chain[d] \in S
  <2> DEFINE T == {d \in Nat : chain[d] \in S}
  <2>1. 0 \in T
    BY <1>7
  <2>2. \A d \in Nat : d \in T => d + 1 \in T
    BY <1>1, <1>7
  <2> HIDE DEF T
  <2>3. \A d \in Nat : d \in T
    BY <2>1, <2>2, NatSetInduction
  <2> QED
    BY <2>3 DEF T
<1> QED
  BY <1>5, <1>6, <1>7, <1>8

\* A node of a chain comes behind those before it.
LEMMA ChainReach ==
    ASSUME NEW h, IsLink(Nodes(h), Links(h)), NEW n \in Nodes(h),
           NEW d \in Nat, NEW e \in Nat, d <= e, Chain(h, n)[e] # NULL
    PROVE  /\ Chain(h, n)[d] \in Nodes(h) /\ Chain(h, n)[e] \in Nodes(h)
           /\ Reach(Nodes(h), Links(h), Chain(h, n)[d], Chain(h, n)[e])
<1> DEFINE c == Chain(h, n)
           N == Nodes(h)
           nx == Links(h)
<1>1. /\ c \in [Nat -> N \cup {NULL}] /\ c[0] = n
      /\ \A x \in Nat : c[x + 1] = IF c[x] \in N THEN nx[c[x]] ELSE NULL
  BY ChainNodes DEF gnext, Links
<1> HIDE DEF c, N, nx
<1> DEFINE T == {x \in Nat : c[d + x] # NULL => /\ c[d] \in N /\ c[d + x] \in N
                                                /\ Reach(N, nx, c[d], c[d + x])}
<1>2. 0 \in T
  BY <1>1, ReachSelf
<1>3. ASSUME NEW x \in Nat, x \in T PROVE x + 1 \in T
  <2>1. SUFFICES ASSUME c[d + (x + 1)] # NULL
                 PROVE  /\ c[d] \in N /\ c[d + (x + 1)] \in N
                        /\ Reach(N, nx, c[d], c[d + (x + 1)])
    OBVIOUS
  <2>2. d + x \in Nat /\ d + (x + 1) = (d + x) + 1
    OBVIOUS
  <2>3. c[d + x] \in N /\ c[d + (x + 1)] = nx[c[d + x]] /\ c[d + (x + 1)] \in N
    BY <1>1, <2>1, <2>2
  <2>4. c[d] \in N /\ Reach(N, nx, c[d], c[d + x])
    BY <1>1, <1>3, <2>3 DEF IsLink, N, nx
  <2> QED
    BY <2>1, <2>3, <2>4, ReachNext DEF N, nx
<1> HIDE DEF T
<1>4. \A x \in Nat : x \in T
  BY <1>2, <1>3, NatSetInduction
<1>5. e - d \in Nat /\ d + (e - d) = e
  OBVIOUS
<1>6. e - d \in T
  BY <1>4, <1>5
<1> QED
  BY <1>5, <1>6 DEF T, c, N, nx

\* The least element of a set of numbers.
LEMMA MinOf ==
    ASSUME NEW T \in SUBSET Nat, T # {}
    PROVE  Min(T) \in T /\ \A k \in T : Min(T) <= k
<1>1. \E m \in T : \A k \in T : m <= k
  BY LeastNatural
<1> QED
  BY <1>1 DEF Min

\* A chain of nodes that do not run in circles is not longer than there are nodes.
LEMMA ChainHasEnd ==
    ASSUME NEW h, sizenode(h) \in Nat, IsLink(Nodes(h), Links(h)), Ranked(Nodes(h), Links(h)),
           NEW n \in Nodes(h)
    PROVE  Chain(h, n)[sizenode(h)] = NULL
<1> DEFINE c == Chain(h, n)
           N == Nodes(h)
           nx == Links(h)
           s == sizenode(h)
<1>1. SUFFICES ASSUME c[s] # NULL PROVE FALSE
  OBVIOUS
<1>2. \A d \in Nat : c[d + 1] = gnext(h, c[d])
  BY ChainNodes
<1>3. ASSUME NEW d \in 0..s PROVE c[d] \in N /\ Reach(N, nx, c[d], c[s])
  BY <1>1, ChainReach
<1>4. ASSUME NEW d \in 0..s, NEW e \in 0..s, d < e PROVE c[d] # c[e]
  <2>1. c[d] \in N /\ c[e] \in N /\ d + 1 \in 0..s /\ c[d + 1] \in N
    BY <1>3, <1>4
  <2>2. c[e] # NULL
    BY <2>1 DEF IsLink
  <2>3. Reach(N, nx, c[d + 1], c[e])
    <3>1. d + 1 \in Nat /\ e \in Nat /\ d + 1 <= e
      BY <1>4
    <3> QED
      BY <2>2, <3>1, ChainReach
  <2>4. nx[c[d]] = c[d + 1]
    BY <1>2, <2>1 DEF gnext, Links
  <2>5. PICK rank : IsRank(N, nx, rank)
    BY DEF Ranked
  <2>6. rank[c[d]] < rank[c[d + 1]]
    BY <2>1, <2>4, <2>5 DEF IsRank, IsLink
  <2>7. c[d + 1] = c[e] \/ rank[c[d + 1]] < rank[c[e]]
    BY <2>1, <2>3, <2>5, ReachRank
  <2>8. rank[c[d]] \in Nat /\ rank[c[d + 1]] \in Nat /\ rank[c[e]] \in Nat
    BY <2>1, <2>5 DEF IsRank
  <2> QED
    BY <2>6, <2>7, <2>8
<1>5. /\ IsFiniteSet(0..s) /\ Cardinality(0..s) = s + 1
      /\ IsFiniteSet(N) /\ Cardinality(N) = s
  <2> HIDE DEF s
  <2>1. s \in Nat /\ s - 1 \in Int /\ N = 0..(s - 1)
    BY DEF s, Nodes
  <2> HIDE DEF N
  <2>2. IsFiniteSet(0..s) /\ Cardinality(0..s) = s + 1
    BY <2>1, FS_Interval
  <2>3. IsFiniteSet(0..(s - 1)) /\ Cardinality(0..(s - 1)) = s
    BY <2>1, FS_Interval
  <2> QED
    BY <2>1, <2>2, <2>3
<1> DEFINE f == [d \in 0..s |-> c[d]]
<1>6. f \in [0..s -> N]
  BY <1>3
<1> HIDE DEF c, N, nx, s, f
<1>7. PICK x \in 0..s, y \in 0..s : x # y /\ f[x] = f[y]
  <2>1. Cardinality(N) < Cardinality(0..s)
    BY <1>5 DEF s
  <2> DEFINE D == 0..s
  <2>2. IsFiniteSet(D) /\ IsFiniteSet(N) /\ Cardinality(N) < Cardinality(D) /\ f \in [D -> N]
    BY <1>5, <1>6, <2>1
  <2> HIDE DEF D
  <2>3. \E x, y \in D : x # y /\ f[x] = f[y]
    BY <2>2, FS_PigeonHole
  <2> QED
    BY <2>3 DEF D
<1>8. x < y \/ y < x
  BY <1>7 DEF s
<1>9. c[x] = c[y]
  BY <1>7 DEF f
<1> QED
  BY <1>4, <1>8, <1>9

\* Its nodes are found in as many steps.
LEMMA ChainCovers ==
    ASSUME NEW h, sizenode(h) \in Nat, IsLink(Nodes(h), Links(h)), Ranked(Nodes(h), Links(h)),
           NEW n \in Nodes(h), NEW b, Reach(Nodes(h), Links(h), n, b)
    PROVE  \E d \in 0..sizenode(h) : d < sizenode(h) /\ Chain(h, n)[d] = b
<1> DEFINE c == Chain(h, n)
           N == Nodes(h)
           nx == Links(h)
           C == {x \in N : \E d \in 0..sizenode(h) : c[d] = x}
<1>1. c[0] = n /\ \A d \in Nat : c[d + 1] = gnext(h, c[d])
  BY ChainNodes
<1>2. c[sizenode(h)] = NULL
  BY ChainHasEnd
<1>3. n \in C
  BY <1>1
<1>4. Closed(nx, C)
  <2>1. SUFFICES ASSUME NEW x \in N, NEW d \in 0..sizenode(h), c[d] = x, nx[x] # NULL
                 PROVE  nx[x] \in C
    BY DEF Closed
  <2>2. d # sizenode(h)
    BY <1>2, <2>1 DEF IsLink
  <2>3. d + 1 \in 0..sizenode(h) /\ d \in Nat
    BY <2>2
  <2>4. c[d + 1] = nx[x]
    BY <1>1, <2>1, <2>3 DEF gnext, Links
  <2>5. nx[x] \in N
    BY <2>1 DEF IsLink
  <2> QED
    BY <2>3, <2>4, <2>5
<1>5. b \in C
  BY <1>3, <1>4 DEF Reach
<1>6. PICK d \in 0..sizenode(h) : c[d] = b
  BY <1>5
<1>7. d # sizenode(h)
  BY <1>2, <1>5, <1>6 DEF IsLink
<1> QED
  BY <1>6, <1>7

\* InChain() finds the first node of the chain that holds one of the keys.
FoundFirst(h, m, keys, n) ==
    /\ n \in Nodes(h) /\ Held(h)[n] \in keys /\ Reach(Nodes(h), Links(h), m, n)
    /\ \A x \in Nodes(h) : Held(h)[x] \in keys /\ Reach(Nodes(h), Links(h), m, x)
                              => Reach(Nodes(h), Links(h), n, x)

\* It finds none only when the chain has none.
LEMMA SearchChain ==
    ASSUME NEW h, Sized(h), HasShape(h), NEW key \in Key, NEW keys
    PROVE  \/ /\ InChain(h, key, keys) = NULL
              /\ \A x \in Nodes(h) : Held(h)[x] \in keys
                    => ~Reach(Nodes(h), Links(h), mainposition(h, key), x)
           \/ \E n : /\ FoundFirst(h, mainposition(h, key), keys, n)
                     /\ InChain(h, key, keys) = sizearray(h) + n
<1> DEFINE m == mainposition(h, key)
           c == Chain(h, m)
           N == Nodes(h)
           nx == Links(h)
           found == {d \in 0..sizenode(h) : c[d] \in N /\ gnode(h, c[d]).key \in keys}
<1>1. /\ h \in AnyTable /\ sizenode(h) \in Nat /\ IsLink(N, nx) /\ Ranked(N, nx)
      /\ \A n \in N : Held(h)[n] = gnode(h, n).key
  BY NodesOf, HeldType DEF Sized, HasShape, Shape
<1>2. m \in N
  BY <1>1, MainPosition DEF Sized
<1>3. c[0] = m
  BY <1>1, <1>2, ChainNodes
<1>4. InChain(h, key, keys) = IF found = {} THEN NULL ELSE sizearray(h) + c[Min(found)]
  BY DEF InChain
<1>5. ASSUME NEW x \in N, Reach(N, nx, m, x) PROVE \E d \in 0..sizenode(h) : c[d] = x
  BY <1>1, <1>2, <1>5, ChainCovers
<1> HIDE DEF c
<1>6. CASE found = {}
  <2>1. ASSUME NEW x \in N, Held(h)[x] \in keys PROVE ~Reach(N, nx, m, x)
    BY <1>1, <1>5, <1>6, <2>1
  <2> QED
    BY <1>4, <1>6, <2>1
<1>7. CASE found # {}
  <2> DEFINE d == Min(found)
  <2>1. d \in found /\ \A e \in found : d <= e
    <3>1. found \in SUBSET Nat
      BY <1>1
    <3> HIDE DEF found
    <3> QED
      BY <1>7, <3>1, MinOf
  <2> HIDE DEF d
  <2>2. d \in Nat /\ c[d] \in N /\ Held(h)[c[d]] \in keys /\ c[d] # NULL
    BY <1>1, <2>1 DEF IsLink
  <2>3. Reach(N, nx, m, c[d])
    <3>1. 0 \in Nat /\ 0 <= d
      BY <2>2
    <3>2. Reach(N, nx, Chain(h, m)[0], Chain(h, m)[d])
      BY <1>1, <1>2, <2>2, <3>1, ChainReach DEF c
    <3> QED
      BY <1>3, <3>2 DEF c
  <2>4. ASSUME NEW x \in N, Held(h)[x] \in keys, Reach(N, nx, m, x) PROVE Reach(N, nx, c[d], x)
    <3>1. PICK e \in 0..sizenode(h) : c[e] = x
      BY <1>5, <2>4
    <3>2. e \in found
      BY <1>1, <2>4, <3>1
    <3>3. d <= e /\ e \in Nat /\ x # NULL
      BY <1>1, <2>1, <3>2 DEF IsLink
    <3>4. Reach(N, nx, Chain(h, m)[d], Chain(h, m)[e])
      BY <1>1, <1>2, <2>2, <3>1, <3>3, ChainReach DEF c
    <3> QED
      BY <3>1, <3>4 DEF c
  <2>5. FoundFirst(h, m, keys, c[d])
    BY <2>2, <2>3, <2>4 DEF FoundFirst
  <2>6. InChain(h, key, keys) = sizearray(h) + c[d]
    BY <1>4, <1>7 DEF d
  <2> QED
    BY <2>5, <2>6
<1> QED
  BY <1>6, <1>7

-----------------------------------------------------------------------------
(* Entries, and where a key is found.                                      *)

Entries(h) == 0..(Size(h) - 1)

\* The parts of a sound table.
LEMMA SoundType ==
    ASSUME NEW h, Sound(h)
    PROVE  /\ h \in AnyTable /\ Sized(h) /\ HasShape(h)
           /\ sizenode(h) \in Nat /\ sizenode(h) >= 1 /\ sizearray(h) \in Nat
           /\ Size(h) = sizearray(h) + sizenode(h)
           /\ \A k \in Key : mainposition(h, k) \in Nodes(h)
BY NodesOf, MainPosition DEF Sound, Sized

\* An entry is one of the array part or one of the hash part.
LEMMA EntryKinds ==
    ASSUME NEW h \in AnyTable
    PROVE  /\ \A e \in Entries(h) : e < sizearray(h) =>
                 /\ e + 1 \in 1..sizearray(h)
                 /\ KeyAt(h, e) = Number(e + 1) /\ ValAt(h, e) = h.array[e + 1]
           /\ \A e \in Entries(h) : ~(e < sizearray(h)) =>
                 /\ e - sizearray(h) \in Nodes(h) /\ e = sizearray(h) + (e - sizearray(h))
                 /\ KeyAt(h, e) = Held(h)[e - sizearray(h)]
                 /\ ValAt(h, e) = gnode(h, e - sizearray(h)).val
           /\ \A n \in Nodes(h) :
                 /\ sizearray(h) + n \in Entries(h) /\ ~(sizearray(h) + n < sizearray(h))
                 /\ KeyAt(h, sizearray(h) + n) = Held(h)[n]
                 /\ ValAt(h, sizearray(h) + n) = gnode(h, n).val
           /\ \A i \in 1..sizearray(h) :
                 /\ i - 1 \in Entries(h) /\ i - 1 < sizearray(h)
                 /\ KeyAt(h, i - 1) = Number(i) /\ ValAt(h, i - 1) = h.array[i]
<1>1. /\ sizenode(h) \in Nat /\ sizearray(h) \in Nat /\ Size(h) = sizearray(h) + sizenode(h)
      /\ Nodes(h) = 0..(sizenode(h) - 1)
  BY NodesOf DEF Nodes
<1>2. ASSUME NEW e \in Entries(h), e < sizearray(h)
      PROVE  e + 1 \in 1..sizearray(h)
  BY <1>1, <1>2 DEF Entries
<1>3. ASSUME NEW e \in Entries(h), ~(e < sizearray(h))
      PROVE  e - sizearray(h) \in Nodes(h) /\ e = sizearray(h) + (e - sizearray(h))
  BY <1>1, <1>3 DEF Entries
<1>4. ASSUME NEW n \in Nodes(h)
      PROVE  /\ sizearray(h) + n \in Entries(h) /\ ~(sizearray(h) + n < sizearray(h))
             /\ (sizearray(h) + n) - sizearray(h) = n
  BY <1>1, <1>4 DEF Entries
<1>5. ASSUME NEW i \in 1..sizearray(h)
      PROVE  i - 1 \in Entries(h) /\ i - 1 < sizearray(h) /\ (i - 1) + 1 = i
  BY <1>1, <1>5 DEF Entries
<1> QED
  BY <1>2, <1>3, <1>4, <1>5 DEF KeyAt, ValAt, Held

\* A key is found where it is: in the array part,
LEMMA FindArray ==
    ASSUME NEW h, Sound(h), NEW e \in Entries(h), KeyAt(h, e) \in Key, e < sizearray(h)
    PROVE  Find(h, KeyAt(h, e)) = e
<1>1. KeyAt(h, e) = Number(e + 1) /\ e + 1 \in 1..sizearray(h) /\ e \in Int
  BY SoundType, EntryKinds DEF Entries
<1>2. InArray(h, Number(e + 1)) /\ Number(e + 1)[2] - 1 = e
  BY <1>1 DEF InArray, IsInteger, Number
<1> QED
  BY <1>1, <1>2 DEF Find

\* or in the hash part.
LEMMA FindNode ==
    ASSUME NEW h, Sound(h), NEW n \in Nodes(h), Held(h)[n] \in Key
    PROVE  Find(h, Held(h)[n]) = sizearray(h) + n
<1> DEFINE k == Held(h)[n]
           m == mainposition(h, k)
<1>1. ~InArray(h, k)
  BY DEF Sound
<1>2. Reach(Nodes(h), Links(h), m, n)
  <2>1. FromHome(Nodes(h), Links(h), Held(h), Homes(h), n) /\ Owner(k) = k
    BY Owners DEF Sound, HasShape, Shape
  <2> QED
    BY <2>1 DEF FromHome, Homes
<1>3. InChain(h, k, {k}) = sizearray(h) + n
  <2>1. PICK x : FoundFirst(h, m, {k}, x) /\ InChain(h, k, {k}) = sizearray(h) + x
    BY <1>2, SoundType, SearchChain
  <2>2. x = n
    BY <2>1 DEF FoundFirst, Sound, HasShape, Shape
  <2> QED
    BY <2>1, <2>2
<1> QED
  BY <1>1, <1>3 DEF Find

\* Every entry with a key is the one that is found.
LEMMA FindAt ==
    ASSUME NEW h, Sound(h), NEW e \in Entries(h), KeyAt(h, e) \in Key
    PROVE  Find(h, KeyAt(h, e)) = e
<1>1. CASE e < sizearray(h)
  BY <1>1, FindArray
<1>2. CASE ~(e < sizearray(h))
  <2>1. e - sizearray(h) \in Nodes(h) /\ e = sizearray(h) + (e - sizearray(h))
        /\ KeyAt(h, e) = Held(h)[e - sizearray(h)]
    BY <1>2, SoundType, EntryKinds
  <2> QED
    BY <2>1, FindNode
<1> QED
  BY <1>1, <1>2

\* What is found is an entry of the key.
LEMMA FindIs ==
    ASSUME NEW h, Sound(h), NEW k \in Key
    PROVE  Find(h, k) = NULL \/ (Find(h, k) \in Entries(h) /\ KeyAt(h, Find(h, k)) = k)
<1>1. CASE InArray(h, k)
  <2>1. k = Number(k[2]) /\ k[2] \in 1..sizearray(h) /\ Find(h, k) = k[2] - 1
    BY <1>1, KeyAssumption DEF InArray, IsInteger, Number, Find
  <2> QED
    BY <2>1, SoundType, EntryKinds
<1>2. CASE ~InArray(h, k)
  <2>1. Find(h, k) = InChain(h, k, {k})
    BY <1>2 DEF Find
  <2>2. CASE Find(h, k) # NULL
    <3>1. PICK n : /\ FoundFirst(h, mainposition(h, k), {k}, n)
                   /\ InChain(h, k, {k}) = sizearray(h) + n
      BY <2>1, <2>2, SoundType, SearchChain
    <3>2. n \in Nodes(h) /\ Held(h)[n] = k
      BY <3>1 DEF FoundFirst
    <3> QED
      BY <2>1, <3>1, <3>2, SoundType, EntryKinds
  <2> QED
    BY <2>2
<1> QED
  BY <1>1, <1>2

\* luaH_get() reads the entry that Find() finds.
LEMMA GetIs ==
    ASSUME NEW h, NEW k \in Key
    PROVE  luaH_get(h, k) = IF Find(h, k) = NULL THEN Nil ELSE ValAt(h, Find(h, k))
BY KeyAssumption DEF luaH_get

\* The value of an entry is the value of its key.
LEMMA GetAt ==
    ASSUME NEW h, Sound(h), NEW e \in Entries(h), KeyAt(h, e) \in Key
    PROVE  Find(h, KeyAt(h, e)) = e /\ e # NULL /\ luaH_get(h, KeyAt(h, e)) = ValAt(h, e)
<1>1. Find(h, KeyAt(h, e)) = e /\ e # NULL
  BY FindAt DEF Entries, NULL
<1> QED
  BY <1>1, GetIs

\* An entry has a value or nil,
LEMMA ValType ==
    ASSUME NEW h \in AnyTable, NEW e \in Entries(h)
    PROVE  ValAt(h, e) \in Value \cup {Nil}
<1>1. CASE e < sizearray(h)
  BY <1>1, EntryKinds, NodesOf
<1>2. CASE ~(e < sizearray(h))
  BY <1>2, EntryKinds, HeldType
<1> QED
  BY <1>1, <1>2

\* and so has a key.
LEMMA GetType ==
    ASSUME NEW h, Sound(h), NEW k \in Key
    PROVE  luaH_get(h, k) \in Value \cup {Nil}
BY FindIs, GetIs, ValType, SoundType

\* An entry with a value has a key.
LEMMA UsedKey ==
    ASSUME NEW h, Sound(h), NEW e \in Entries(h), ValAt(h, e) # Nil
    PROVE  KeyAt(h, e) \in Key
<1>1. CASE e < sizearray(h)
  BY <1>1, SoundType, EntryKinds DEF Sound
<1>2. CASE ~(e < sizearray(h))
  BY <1>2, SoundType, EntryKinds DEF Sound
<1> QED
  BY <1>1, <1>2

\* A number that is no key has no value.
LEMMA NoSuchNumber ==
    ASSUME NEW h, Sound(h), NEW i \in Int, Number(i) \notin Key
    PROVE  luaH_getnum(h, i) = Nil
<1>1. SUFFICES ASSUME Number(i) # Nil, Find(h, Number(i)) # NULL
               PROVE  ValAt(h, Find(h, Number(i))) = Nil
  BY DEF luaH_getnum, luaH_get
<1>2. CASE InArray(h, Number(i))
  <2>1. i \in 1..sizearray(h) /\ Find(h, Number(i)) = i - 1
    BY <1>2 DEF InArray, Number, Find
  <2>2. ValAt(h, i - 1) = h.array[i]
    BY <2>1, SoundType, EntryKinds
  <2> QED
    BY <2>1, <2>2 DEF Sound
<1>3. CASE ~InArray(h, Number(i))
  <2>1. \A n \in Nodes(h) : gnode(h, n).key # Number(i)
    <3>1. Number(i) \notin NodeKeys
      BY <1>1 DEF NodeKeys, Number, Dead
    <3> QED
      BY <3>1, SoundType, HeldType
  <2>2. InChain(h, Number(i), {Number(i)}) = NULL
    BY <2>1 DEF InChain
  <2> QED
    BY <1>1, <1>3, <2>2 DEF Find
<1> QED
  BY <1>2, <1>3

-----------------------------------------------------------------------------
(* A value is put into an entry.                                           *)

\* A value is stored: the result is a table,
LEMMA PutAtType ==
    ASSUME NEW h \in AnyTable, NEW e \in Entries(h), NEW v \in Value \cup {Nil}
    PROVE  /\ PutAt(h, e, v) \in AnyTable
           /\ sizearray(PutAt(h, e, v)) = sizearray(h) /\ sizenode(PutAt(h, e, v)) = sizenode(h)
           /\ PutAt(h, e, v).lastfree = h.lastfree /\ PutAt(h, e, v).dummy = h.dummy
           /\ \A i \in 1..sizearray(h) :
                 PutAt(h, e, v).array[i] = IF e = i - 1 THEN v ELSE h.array[i]
           /\ \A n \in Nodes(h) :
                 /\ gnode(PutAt(h, e, v), n).key = gnode(h, n).key
                 /\ gnode(PutAt(h, e, v), n).next = gnode(h, n).next
                 /\ gnode(PutAt(h, e, v), n).val =
                       IF e = sizearray(h) + n THEN v ELSE gnode(h, n).val
<1> DEFINE g == PutAt(h, e, v)
<1>1. /\ sizenode(h) \in Nat /\ sizearray(h) \in Nat /\ sizenode(h) = Len(h.node)
      /\ sizearray(h) = Len(h.array) /\ e \in Nat
      /\ h.array \in Seq(Value \cup {Nil}) /\ h.node \in Seq(AnyNode)
      /\ h.lastfree \in Int /\ h.dummy \in BOOLEAN
  BY NodesOf DEF sizenode, sizearray, Entries, AnyTable
<1>2. CASE e < sizearray(h)
  <2> DEFINE array == [h.array EXCEPT ![e + 1] = v]
  <2>1. g = [h EXCEPT !.array = array]
    BY <1>2 DEF PutAt
  <2>2. /\ array \in Seq(Value \cup {Nil}) /\ Len(array) = Len(h.array)
        /\ \A i \in 1..sizearray(h) : array[i] = IF e = i - 1 THEN v ELSE h.array[i]
    BY <1>1, <1>2
  <2> HIDE DEF array
  <2>3. g.array = array /\ g.node = h.node /\ g.lastfree = h.lastfree /\ g.dummy = h.dummy
    BY <2>1 DEF AnyTable
  <2>4. g \in AnyTable
    BY <1>1, <2>1, <2>2 DEF AnyTable
  <2>5. \A n \in Nodes(h) : e # sizearray(h) + n
    BY <1>1, <1>2 DEF Nodes
  <2> QED
    BY <1>1, <2>2, <2>3, <2>4, <2>5 DEF sizearray, sizenode, gnode
<1>3. CASE ~(e < sizearray(h))
  <2> DEFINE m == e - sizearray(h) + 1
             nodes == [h.node EXCEPT ![m].val = v]
  <2>1. g = [h EXCEPT !.node = nodes]
    BY <1>3 DEF PutAt
  <2>2. m \in 1..Len(h.node) /\ e = sizearray(h) + (m - 1)
    BY <1>1, <1>3, NodesOf DEF Entries
  <2>3. \A i \in 1..Len(h.node) : h.node[i] \in AnyNode
    BY <1>1
  <2> DEFINE x == [h.node[m] EXCEPT !.val = v]
  <2>4. /\ x \in AnyNode /\ x.key = h.node[m].key /\ x.next = h.node[m].next /\ x.val = v
    BY <2>2, <2>3 DEF AnyNode
  <2>5. nodes = [h.node EXCEPT ![m] = x]
    OBVIOUS
  <2> HIDE DEF x, nodes, m
  <2>6. /\ nodes \in Seq(AnyNode) /\ Len(nodes) = Len(h.node)
        /\ \A i \in 1..Len(h.node) : nodes[i] = IF i = m THEN x ELSE h.node[i]
    BY <1>1, <2>2, <2>4, <2>5, ExceptSeq
  <2>7. \A i \in 1..Len(h.node) : /\ nodes[i].key = h.node[i].key
                                  /\ nodes[i].next = h.node[i].next
                                  /\ nodes[i].val = IF i = m THEN v ELSE h.node[i].val
    BY <2>4, <2>6
  <2>8. g.array = h.array /\ g.node = nodes /\ g.lastfree = h.lastfree /\ g.dummy = h.dummy
    BY <1>1, <2>1 DEF AnyTable
  <2>9. g \in AnyTable
    BY <1>1, <2>1, <2>6 DEF AnyTable
  <2>10. \A i \in 1..sizearray(h) : e # i - 1
    BY <1>1, <1>3
  <2>11. ASSUME NEW n \in Nodes(h)
         PROVE  n + 1 \in 1..Len(h.node) /\ (n + 1 = m <=> e = sizearray(h) + n)
    BY <1>1, <2>2 DEF Nodes
  <2> QED
    BY <1>1, <2>6, <2>7, <2>8, <2>9, <2>10, <2>11 DEF sizearray, sizenode, gnode
<1> QED
  BY <1>2, <1>3

\* The parts of a table are the same but for the values.
SameNodes(g, h) ==
    /\ sizearray(g) = sizearray(h) /\ sizenode(g) = sizenode(h) /\ g.dummy = h.dummy
    /\ Nodes(g) = Nodes(h) /\ Entries(g) = Entries(h)
    /\ Links(g) = Links(h) /\ Held(g) = Held(h) /\ Homes(g) = Homes(h)

\* with the same nodes and the other values.
LEMMA PutAtSame ==
    ASSUME NEW h \in AnyTable, NEW e \in Entries(h), NEW v \in Value \cup {Nil}
    PROVE  /\ SameNodes(PutAt(h, e, v), h)
           /\ \A f \in Entries(h) :
                 /\ KeyAt(PutAt(h, e, v), f) = KeyAt(h, f)
                 /\ ValAt(PutAt(h, e, v), f) = IF f = e THEN v ELSE ValAt(h, f)
<1> DEFINE g == PutAt(h, e, v)
<1>1. /\ g \in AnyTable /\ sizearray(g) = sizearray(h) /\ sizenode(g) = sizenode(h)
      /\ g.dummy = h.dummy
      /\ \A i \in 1..sizearray(h) : g.array[i] = IF e = i - 1 THEN v ELSE h.array[i]
      /\ \A n \in Nodes(h) : /\ gnode(g, n).key = gnode(h, n).key
                             /\ gnode(g, n).next = gnode(h, n).next
                             /\ gnode(g, n).val = IF e = sizearray(h) + n THEN v
                                                  ELSE gnode(h, n).val
  BY PutAtType
<1> HIDE DEF g
<1>2. Nodes(g) = Nodes(h) /\ Homes(g) = Homes(h) /\ Entries(g) = Entries(h)
  BY <1>1, SameHomes DEF Entries, Size
<1>3. Links(g) = Links(h) /\ Held(g) = Held(h)
  BY <1>1, <1>2 DEF Links, Held
<1>4. ASSUME NEW f \in Entries(h)
      PROVE  KeyAt(g, f) = KeyAt(h, f) /\ ValAt(g, f) = IF f = e THEN v ELSE ValAt(h, f)
  <2>1. f \in Int /\ e \in Int
    BY NodesOf DEF Entries
  <2>2. CASE f < sizearray(h)
    <3>1. f + 1 \in 1..sizearray(h) /\ (e = (f + 1) - 1 <=> f = e)
      BY <2>1, <2>2, EntryKinds
    <3>2. KeyAt(g, f) = Number(f + 1) /\ ValAt(g, f) = g.array[f + 1]
      BY <1>1, <2>2 DEF KeyAt, ValAt
    <3> QED
      BY <1>1, <2>2, <3>1, <3>2, EntryKinds
  <2>3. CASE ~(f < sizearray(h))
    <3> DEFINE n == f - sizearray(h)
    <3>1. n \in Nodes(h) /\ f = sizearray(h) + n /\ sizearray(g) = sizearray(h)
      BY <1>1, <2>3, EntryKinds
    <3>2. KeyAt(g, f) = gnode(g, n).key /\ ValAt(g, f) = gnode(g, n).val
      BY <1>1, <2>3 DEF KeyAt, ValAt
    <3>3. KeyAt(h, f) = gnode(h, n).key /\ ValAt(h, f) = gnode(h, n).val
      BY <2>3 DEF KeyAt, ValAt
    <3> QED
      BY <1>1, <3>1, <3>2, <3>3
  <2> QED
    BY <2>2, <2>3
<1> QED
  BY <1>1, <1>2, <1>3, <1>4 DEF g, SameNodes

\* The entry of a key takes a value.
LEMMA PutAtSound ==
    ASSUME NEW h, Sound(h), NEW e \in Entries(h), KeyAt(h, e) \in Key, NEW v \in Value \cup {Nil}
    PROVE  /\ Sound(PutAt(h, e, v)) /\ SameNodes(PutAt(h, e, v), h)
           /\ \A k \in Key : /\ Find(PutAt(h, e, v), k) = Find(h, k)
                             /\ luaH_get(PutAt(h, e, v), k) = IF k = KeyAt(h, e) THEN v
                                                             ELSE luaH_get(h, k)
<1> DEFINE g == PutAt(h, e, v)
<1>1. /\ h \in AnyTable /\ sizenode(h) \in Nat /\ sizenode(h) >= 1
      /\ g \in AnyTable /\ g.lastfree = h.lastfree /\ g.dummy = h.dummy
      /\ \A i \in 1..sizearray(h) : g.array[i] = IF e = i - 1 THEN v ELSE h.array[i]
      /\ \A n \in Nodes(h) : gnode(g, n).val = IF e = sizearray(h) + n THEN v
                                               ELSE gnode(h, n).val
  BY SoundType, PutAtType
<1>2. /\ SameNodes(g, h)
      /\ \A f \in Entries(h) : /\ KeyAt(g, f) = KeyAt(h, f)
                               /\ ValAt(g, f) = IF f = e THEN v ELSE ValAt(h, f)
  BY <1>1, PutAtSame
<1>3. \A f \in Entries(h) : ~(f < sizearray(h)) => f - sizearray(h) \in Nodes(h)
  BY <1>1, EntryKinds
<1>4. g.dummy => g.node = Empty.node /\ g.lastfree = 0
  <2>1. SUFFICES ASSUME h.dummy PROVE g.node = h.node
    BY <1>1 DEF Sound
  <2>2. \A n \in Nodes(h) : Held(h)[n] = Nil
    <3>1. \A n \in Nodes(h) : n = 0 /\ gnode(h, n) = EmptyNode
      BY <2>1 DEF Sound, Empty, Nodes, gnode, sizenode
    <3> QED
      BY <3>1 DEF Held, EmptyNode
  <2>3. e < sizearray(h)
    <3>1. SUFFICES ASSUME ~(e < sizearray(h)) PROVE FALSE
      OBVIOUS
    <3>2. KeyAt(h, e) = Nil
      BY <1>1, <2>2, <3>1, EntryKinds
    <3> QED
      BY <3>2, KeyAssumption
  <2> QED
    BY <1>1, <2>3 DEF PutAt, AnyTable
<1> HIDE DEF g
<1>5. \A n \in Nodes(g) : Held(g)[n] \notin Key => gnode(g, n).val = Nil
  <2>1. SUFFICES ASSUME NEW n \in Nodes(h), Held(h)[n] \notin Key
                 PROVE  e # sizearray(h) + n /\ gnode(h, n).val = Nil
    BY <1>1, <1>2 DEF SameNodes
  <2>2. KeyAt(h, sizearray(h) + n) = Held(h)[n]
    BY <1>1, EntryKinds
  <2> QED
    BY <2>1, <2>2 DEF Sound
<1>6. \A i \in 1..sizearray(g) : g.array[i] # Nil => Number(i) \in Key
  <2>1. SUFFICES ASSUME NEW i \in 1..sizearray(h), g.array[i] # Nil PROVE Number(i) \in Key
    BY <1>2 DEF SameNodes
  <2>2. CASE e = i - 1
    <3>1. KeyAt(h, i - 1) = Number(i)
      BY <1>1, EntryKinds
    <3> QED
      BY <2>2, <3>1
  <2>3. CASE e # i - 1
    BY <1>1, <2>1, <2>3 DEF Sound
  <2> QED
    BY <2>2, <2>3
<1>7. Sized(g)
  BY <1>1, <1>2 DEF Sized, Sound, SameNodes
<1>8. HasShape(g)
  BY <1>2 DEF Sound, HasShape, SameNodes
<1>9. ~g.dummy => \A n \in g.lastfree..(sizenode(g) - 1) : Held(g)[n] # Nil
  BY <1>1, <1>2 DEF Sound, SameNodes
<1>10. \A k \in Key, n \in Nodes(g) : Held(g)[n] = Dead(k) => iscollectable(k)
  BY <1>2 DEF Sound, SameNodes
<1>11. \A n \in Nodes(g) : Held(g)[n] \in Key => ~InArray(g, Held(g)[n])
  BY <1>2 DEF Sound, SameNodes, InArray
<1>12. Sound(g)
  BY <1>4, <1>5, <1>6, <1>7, <1>8, <1>9, <1>10, <1>11 DEF Sound
<1>13. ASSUME NEW k \in Key
       PROVE  /\ Find(g, k) = Find(h, k)
              /\ luaH_get(g, k) = IF k = KeyAt(h, e) THEN v ELSE luaH_get(h, k)
  <2>1. CASE Find(h, k) # NULL
    <3>1. Find(h, k) \in Entries(h) /\ KeyAt(h, Find(h, k)) = k
      BY <2>1, FindIs
    <3>2. Find(h, k) \in Entries(g) /\ KeyAt(g, Find(h, k)) = k
      BY <1>2, <3>1 DEF SameNodes
    <3>3. Find(g, k) = Find(h, k)
      BY <1>12, <3>2, FindAt
    <3>4. (k = KeyAt(h, e)) <=> (Find(h, k) = e)
      BY <3>1, FindAt
    <3> QED
      BY <1>2, <2>1, <3>1, <3>3, <3>4, GetIs
  <2>2. CASE Find(h, k) = NULL
    <3>1. k # KeyAt(h, e)
      BY <2>2, GetAt
    <3>2. Find(g, k) = NULL
      <4>1. SUFFICES ASSUME Find(g, k) # NULL PROVE FALSE
        OBVIOUS
      <4>2. Find(g, k) \in Entries(g) /\ KeyAt(g, Find(g, k)) = k
        BY <1>12, <4>1, FindIs
      <4>3. Find(g, k) \in Entries(h) /\ KeyAt(h, Find(g, k)) = k
        BY <1>2, <4>2 DEF SameNodes
      <4>4. Find(h, k) = Find(g, k)
        BY <4>3, FindAt
      <4> QED
        BY <2>2, <4>1, <4>4
    <3> QED
      BY <2>2, <3>1, <3>2, GetIs
  <2> QED
    BY <2>1, <2>2
<1> QED
  BY <1>2, <1>12, <1>13 DEF g

-----------------------------------------------------------------------------
(* A key is inserted.                                                      *)

\* The greatest element of a set of numbers with a bound.
LEMMA MaxOf ==
    ASSUME NEW N \in Nat, NEW T \in SUBSET (0..N), T # {}
    PROVE  Max(T) \in T /\ \A k \in T : Max(T) >= k
<1> DEFINE T1 == {i \in 1..(N + 1) : i - 1 \in T}
<1>1. \A k \in T : k \in Int /\ k + 1 \in T1 /\ (k + 1) - 1 = k
  OBVIOUS
<1>2. T1 \in SUBSET (1..(N + 1)) /\ N + 1 \in Nat /\ T1 # {}
  <2>1. PICK k : k \in T
    OBVIOUS
  <2>2. k + 1 \in T1
    BY <1>1, <2>1
  <2> QED
    BY <2>2
<1>3. \A i \in T1 : i \in Int /\ i - 1 \in T
  OBVIOUS
<1> HIDE DEF T1
<1>4. PICK m \in T1 : \A i \in T1 : m >= i
  BY <1>2, GreatestInRange
<1>5. m - 1 \in T /\ \A k \in T : m - 1 >= k
  BY <1>1, <1>3, <1>4
<1> QED
  BY <1>5 DEF Max

\* A free position is the last that there is.
LEMMA FreePosition ==
    ASSUME NEW h, Sound(h), getfreepos(h) # NULL
    PROVE  /\ ~h.dummy
           /\ getfreepos(h) \in Nodes(h) /\ Held(h)[getfreepos(h)] = Nil
           /\ getfreepos(h) < h.lastfree
           /\ \A n \in getfreepos(h)..(sizenode(h) - 1) : n # getfreepos(h) => Held(h)[n] # Nil
<1> DEFINE free == {n \in 0..(h.lastfree - 1) : gnode(h, n).key = Nil}
<1>1. h.lastfree \in 0..sizenode(h) /\ sizenode(h) \in Nat /\ h \in AnyTable
  BY SoundType DEF Sized
<1>2. free # {} /\ getfreepos(h) = Max(free)
  BY DEF getfreepos
<1>3. free \in SUBSET (0..sizenode(h))
  BY <1>1
<1> HIDE DEF free
<1>4. Max(free) \in free /\ \A k \in free : Max(free) >= k
  BY <1>1, <1>2, <1>3, MaxOf
<1> USE DEF free
<1>5. ~h.dummy
  BY <1>1, <1>2 DEF Sound
<1>6. \A n \in Nodes(h) : Held(h)[n] = gnode(h, n).key
  BY <1>1, HeldType
<1>7. \A n \in h.lastfree..(sizenode(h) - 1) : Held(h)[n] # Nil
  BY <1>5 DEF Sound
<1>8. 0..(h.lastfree - 1) \subseteq Nodes(h) /\ Nodes(h) = 0..(sizenode(h) - 1)
  BY <1>1 DEF Nodes
<1>9. ASSUME NEW n \in getfreepos(h)..(sizenode(h) - 1), n # getfreepos(h)
      PROVE  Held(h)[n] # Nil
  <2>1. CASE n < h.lastfree
    <3>1. SUFFICES ASSUME Held(h)[n] = Nil PROVE FALSE
      OBVIOUS
    <3>2. n \in Int /\ n \in 0..(h.lastfree - 1)
      BY <1>1, <1>2, <1>4, <1>9, <2>1
    <3>3. n \in free
      BY <1>6, <1>8, <3>1, <3>2
    <3>4. getfreepos(h) \in Int /\ getfreepos(h) >= n
      BY <1>1, <1>2, <1>4, <3>3
    <3> QED
      BY <1>9, <3>2, <3>4
  <2>2. CASE ~(n < h.lastfree)
    BY <1>1, <1>2, <1>4, <1>7, <1>9, <2>2
  <2> QED
    BY <2>1, <2>2
<1> QED
  BY <1>1, <1>2, <1>4, <1>5, <1>6, <1>8, <1>9

\* When there is none, every node has held a key.
LEMMA NoFreePosition ==
    ASSUME NEW h, Sound(h), ~h.dummy, getfreepos(h) = NULL
    PROVE  \A n \in Nodes(h) : Held(h)[n] # Nil
<1> DEFINE free == {n \in 0..(h.lastfree - 1) : gnode(h, n).key = Nil}
<1>1. h.lastfree \in 0..sizenode(h) /\ sizenode(h) \in Nat /\ h \in AnyTable
  BY SoundType DEF Sized
<1>2. free = {}
  <2>1. SUFFICES ASSUME free # {} PROVE FALSE
    OBVIOUS
  <2>2. getfreepos(h) = Max(free)
    BY <2>1 DEF getfreepos
  <2>3. free \in SUBSET (0..sizenode(h))
    BY <1>1
  <2> HIDE DEF free
  <2>4. Max(free) \in free
    BY <1>1, <2>1, <2>3, MaxOf
  <2> QED
    BY <2>2, <2>3, <2>4 DEF NULL
<1>3. \A n \in Nodes(h) : Held(h)[n] = gnode(h, n).key
  BY <1>1, HeldType
<1>4. \A n \in h.lastfree..(sizenode(h) - 1) : Held(h)[n] # Nil
  BY DEF Sound
<1> QED
  BY <1>1, <1>2, <1>3, <1>4 DEF Nodes

-----------------------------------------------------------------------------
(* What newkey() writes.                                                   *)

Vals(h) == [n \in Nodes(h) |-> gnode(h, n).val]

\* g is h with other nodes.
Replaced(g, h, lastfree) ==
    /\ g \in AnyTable /\ g.array = h.array /\ sizenode(g) = sizenode(h)
    /\ g.dummy = h.dummy /\ g.lastfree = lastfree

\* The nodes of g.
NodesAre(g, h, nodes) ==
    /\ Nodes(g) = Nodes(h)
    /\ Links(g) = [n \in Nodes(h) |-> nodes[n + 1].next]
    /\ Held(g) = [n \in Nodes(h) |-> nodes[n + 1].key]
    /\ Vals(g) = [n \in Nodes(h) |-> nodes[n + 1].val]

\* The nodes of a sequence.
LEMMA SeqNodes ==
    ASSUME NEW h \in AnyTable, NEW nodes \in Seq(AnyNode), Len(nodes) = sizenode(h),
           NEW last \in Int, NEW g, g = [h EXCEPT !.node = nodes, !.lastfree = last]
    PROVE  Replaced(g, h, last) /\ NodesAre(g, h, nodes)
<1>1. g \in AnyTable /\ g.array = h.array /\ g.node = nodes /\ g.dummy = h.dummy
      /\ g.lastfree = last
  BY DEF AnyTable
<1>2. sizenode(g) = sizenode(h) /\ Nodes(g) = Nodes(h)
  BY <1>1 DEF sizenode, Nodes
<1> QED
  BY <1>1, <1>2 DEF Replaced, NodesAre, Links, Held, Vals, gnode

\* One node.
LEMMA NodeAt ==
    ASSUME NEW h \in AnyTable, NEW n \in Nodes(h)
    PROVE  /\ n + 1 \in 1..Len(h.node) /\ h.node[n + 1] \in AnyNode
           /\ h.node[n + 1].key = Held(h)[n] /\ h.node[n + 1].next = Links(h)[n]
           /\ h.node[n + 1].val = Vals(h)[n]
<1>1. n + 1 \in 1..Len(h.node)
  BY NodesOf DEF Nodes, sizenode
<1>2. h.node \in Seq(AnyNode)
  BY NodesOf
<1> QED
  BY <1>1, <1>2 DEF Held, Links, Vals, gnode

\* What newkey() writes when the main position is free,
LEMMA SetKeyWrites ==
    ASSUME NEW h \in AnyTable, NEW n \in Nodes(h), NEW key \in Key
    PROVE  /\ Replaced(SetKey(h, n, key), h, h.lastfree)
           /\ Nodes(SetKey(h, n, key)) = Nodes(h)
           /\ Links(SetKey(h, n, key)) = Links(h)
           /\ Held(SetKey(h, n, key)) = [Held(h) EXCEPT ![n] = key]
           /\ Vals(SetKey(h, n, key)) = Vals(h)
<1> DEFINE x == [h.node[n + 1] EXCEPT !.key = key]
           nodes == [h.node EXCEPT ![n + 1] = x]
           g == SetKey(h, n, key)
<1>1. /\ n + 1 \in 1..Len(h.node) /\ h.node[n + 1] \in AnyNode
      /\ h.node \in Seq(AnyNode) /\ sizenode(h) = Len(h.node) /\ h.lastfree \in Int
      /\ Nodes(h) \subseteq Int
  BY NodeAt, NodesOf DEF sizenode, AnyTable
<1>2. x \in AnyNode /\ x.key = key /\ x.next = Links(h)[n] /\ x.val = Vals(h)[n]
  <2>1. h.node[n + 1].next = Links(h)[n] /\ h.node[n + 1].val = Vals(h)[n]
    BY NodeAt
  <2> QED
    BY <1>1, <2>1 DEF AnyNode, NodeKeys
<1>3. g = [h EXCEPT !.node = nodes, !.lastfree = h.lastfree]
  BY DEF SetKey, AnyTable
<1> HIDE DEF x
<1>4. /\ nodes \in Seq(AnyNode) /\ Len(nodes) = sizenode(h)
      /\ \A i \in 1..Len(h.node) : nodes[i] = IF i = n + 1 THEN x ELSE h.node[i]
  BY <1>1, <1>2, ExceptSeq
<1> HIDE DEF nodes, g
<1>5. Replaced(g, h, h.lastfree) /\ NodesAre(g, h, nodes)
  BY ONLY h \in AnyTable, <1>1, <1>3, <1>4, SeqNodes
<1>6. ASSUME NEW m \in Nodes(h)
      PROVE  /\ nodes[m + 1].next = Links(h)[m]
             /\ nodes[m + 1].key = IF m = n THEN key ELSE Held(h)[m]
             /\ nodes[m + 1].val = Vals(h)[m]
  <2>1. m + 1 \in 1..Len(h.node) /\ (m + 1 = n + 1 <=> m = n)
        /\ h.node[m + 1].key = Held(h)[m] /\ h.node[m + 1].next = Links(h)[m]
        /\ h.node[m + 1].val = Vals(h)[m]
    BY <1>1, NodeAt
  <2> QED
    BY <1>2, <1>4, <2>1
<1> QED
  BY <1>5, <1>6 DEF g, NodesAre, Links, Held, Vals

\* when the node in it is at home,
LEMMA ChainNewWrites ==
    ASSUME NEW h \in AnyTable, NEW p \in Nodes(h), NEW n \in Nodes(h), p # n, NEW key \in Key,
           IsLink(Nodes(h), Links(h))
    PROVE  /\ Replaced(ChainNew(h, p, n, key), h, n)
           /\ Nodes(ChainNew(h, p, n, key)) = Nodes(h)
           /\ Links(ChainNew(h, p, n, key)) = Behind(Links(h), p, n)
           /\ Held(ChainNew(h, p, n, key)) = [Held(h) EXCEPT ![n] = key]
           /\ Vals(ChainNew(h, p, n, key)) = [Vals(h) EXCEPT ![n] = Nil]
<1> DEFINE x == [EmptyNode EXCEPT !.key = key, !.next = h.node[p + 1].next]
           nodes1 == [h.node EXCEPT ![n + 1] = x]
           y == [nodes1[p + 1] EXCEPT !.next = n]
           nodes == [nodes1 EXCEPT ![p + 1] = y]
           g == ChainNew(h, p, n, key)
<1>1. /\ n + 1 \in 1..Len(h.node) /\ p + 1 \in 1..Len(h.node) /\ n + 1 # p + 1
      /\ h.node[p + 1] \in AnyNode
      /\ h.node[p + 1].key = Held(h)[p] /\ h.node[p + 1].next = Links(h)[p]
      /\ h.node[p + 1].val = Vals(h)[p]
      /\ h.node \in Seq(AnyNode) /\ sizenode(h) = Len(h.node) /\ h.lastfree \in Int
      /\ Nodes(h) \subseteq Int /\ n \in Int /\ Len(h.node) \in Nat
  BY NodeAt, NodesOf DEF sizenode, AnyTable
<1>2. x \in AnyNode /\ x.key = key /\ x.next = Links(h)[p] /\ x.val = Nil
  BY <1>1 DEF AnyNode, NodeKeys, EmptyNode
<1>3. g = [h EXCEPT !.node = nodes, !.lastfree = n]
  BY DEF ChainNew, AnyTable, gnode
<1> HIDE DEF x
<1>4. /\ nodes1 \in Seq(AnyNode) /\ Len(nodes1) = Len(h.node)
      /\ \A i \in 1..Len(h.node) : nodes1[i] = IF i = n + 1 THEN x ELSE h.node[i]
  BY <1>1, <1>2, ExceptSeq
<1> HIDE DEF nodes1
<1>5. y \in AnyNode /\ y.key = Held(h)[p] /\ y.next = n /\ y.val = Vals(h)[p]
  BY <1>1, <1>4 DEF AnyNode
<1> HIDE DEF y
<1>6. /\ nodes \in Seq(AnyNode) /\ Len(nodes) = Len(nodes1)
      /\ \A i \in 1..Len(nodes1) : nodes[i] = IF i = p + 1 THEN y ELSE nodes1[i]
  <2>1. p + 1 \in 1..Len(nodes1)
    BY <1>1, <1>4
  <2> QED
    BY <1>4, <1>5, <2>1, ExceptSeq
<1> HIDE DEF nodes, g
<1>7. Replaced(g, h, n) /\ NodesAre(g, h, nodes)
  BY <1>1, <1>3, <1>4, <1>6, SeqNodes
<1>8. ASSUME NEW m \in Nodes(h)
      PROVE  /\ nodes[m + 1].next = IF m = p THEN n ELSE IF m = n THEN Links(h)[p] ELSE Links(h)[m]
             /\ nodes[m + 1].key = IF m = n THEN key ELSE Held(h)[m]
             /\ nodes[m + 1].val = IF m = n THEN Nil ELSE Vals(h)[m]
  <2>1. m + 1 \in 1..Len(h.node) /\ (m + 1 = n + 1 <=> m = n) /\ (m + 1 = p + 1 <=> m = p)
        /\ h.node[m + 1].key = Held(h)[m] /\ h.node[m + 1].next = Links(h)[m]
        /\ h.node[m + 1].val = Vals(h)[m]
    BY <1>1, NodeAt
  <2>2. nodes[m + 1] = IF m = p THEN y ELSE IF m = n THEN x ELSE h.node[m + 1]
    BY <1>4, <1>6, <2>1
  <2> QED
    BY <1>2, <1>5, <2>1, <2>2
<1>9. /\ IsLink(Nodes(h), Behind(Links(h), p, n))
      /\ Behind(Links(h), p, n)[p] = n /\ Behind(Links(h), p, n)[n] = Links(h)[p]
      /\ \A m \in Nodes(h) : m # p /\ m # n => Behind(Links(h), p, n)[m] = Links(h)[m]
  BY BehindLink
<1>10. Links(g) = Behind(Links(h), p, n)
  BY <1>7, <1>8, <1>9 DEF NodesAre, IsLink
<1>11. Held(g) = [Held(h) EXCEPT ![n] = key]
  BY <1>7, <1>8 DEF NodesAre, Held
<1>12. Vals(g) = [Vals(h) EXCEPT ![n] = Nil]
  BY <1>7, <1>8 DEF NodesAre, Vals
<1> QED
  BY <1>7, <1>10, <1>11, <1>12 DEF g, NodesAre

\* MoveColliding(), for any node before mp.
MoveBehind(h, q, mp, n, key) ==
    [h EXCEPT !.node[n + 1] = gnode(h, mp),
              !.node[q + 1].next = n,
              !.node[mp + 1] = [EmptyNode EXCEPT !.key = key],
              !.lastfree = n]

\* and when it is not.
LEMMA MoveWrites ==
    ASSUME NEW h \in AnyTable, NEW q \in Nodes(h), NEW p \in Nodes(h), NEW n \in Nodes(h),
           q # p, q # n, p # n, NEW key \in Key, IsLink(Nodes(h), Links(h))
    PROVE  /\ Replaced(MoveBehind(h, q, p, n, key), h, n)
           /\ Nodes(MoveBehind(h, q, p, n, key)) = Nodes(h)
           /\ Links(MoveBehind(h, q, p, n, key)) = Moved(Links(h), q, p, n)
           /\ Held(MoveBehind(h, q, p, n, key)) = [Held(h) EXCEPT ![n] = Held(h)[p], ![p] = key]
           /\ Vals(MoveBehind(h, q, p, n, key)) = [Vals(h) EXCEPT ![n] = Vals(h)[p], ![p] = Nil]
<1> DEFINE x == h.node[p + 1]
           nodes1 == [h.node EXCEPT ![n + 1] = x]
           y == [nodes1[q + 1] EXCEPT !.next = n]
           nodes2 == [nodes1 EXCEPT ![q + 1] = y]
           z == [EmptyNode EXCEPT !.key = key]
           nodes == [nodes2 EXCEPT ![p + 1] = z]
           g == MoveBehind(h, q, p, n, key)
<1>1. /\ n + 1 \in 1..Len(h.node) /\ p + 1 \in 1..Len(h.node) /\ q + 1 \in 1..Len(h.node)
      /\ n + 1 # p + 1 /\ n + 1 # q + 1 /\ p + 1 # q + 1
      /\ h.node[q + 1] \in AnyNode
      /\ h.node[q + 1].key = Held(h)[q] /\ h.node[q + 1].next = Links(h)[q]
      /\ h.node[q + 1].val = Vals(h)[q]
      /\ h.node \in Seq(AnyNode) /\ sizenode(h) = Len(h.node) /\ h.lastfree \in Int
      /\ Nodes(h) \subseteq Int /\ n \in Int /\ Len(h.node) \in Nat
  <2>1. /\ n + 1 \in 1..Len(h.node) /\ p + 1 \in 1..Len(h.node) /\ q + 1 \in 1..Len(h.node)
    BY NodeAt
  <2>2. /\ h.node[q + 1] \in AnyNode
        /\ h.node[q + 1].key = Held(h)[q] /\ h.node[q + 1].next = Links(h)[q]
        /\ h.node[q + 1].val = Vals(h)[q]
    BY NodeAt
  <2>3. /\ h.node \in Seq(AnyNode) /\ sizenode(h) = Len(h.node) /\ h.lastfree \in Int
        /\ Nodes(h) \subseteq Int /\ Len(h.node) \in Nat
    BY NodesOf DEF sizenode, AnyTable
  <2> QED
    BY <2>1, <2>2, <2>3
<1>2. x \in AnyNode /\ x.key = Held(h)[p] /\ x.next = Links(h)[p] /\ x.val = Vals(h)[p]
  BY NodeAt
<1>3. z \in AnyNode /\ z.key = key /\ z.next = NULL /\ z.val = Nil
  BY DEF AnyNode, NodeKeys, EmptyNode, NULL
<1>4. g = [h EXCEPT !.node = nodes, !.lastfree = n]
  <2> DEFINE h1 == [h EXCEPT !.node[n + 1] = x]
             h2 == [h1 EXCEPT !.node[q + 1].next = n]
             h3 == [h2 EXCEPT !.node[p + 1] = z]
  <2>1. g = [h3 EXCEPT !.lastfree = n]
    BY DEF MoveBehind, gnode
  <2>2. h1 = [h EXCEPT !.node = nodes1]
    BY DEF AnyTable
  <2>3. h2 = [h1 EXCEPT !.node = [h1.node EXCEPT ![q + 1].next = n]]
    BY DEF AnyTable
  <2>4. h1.node = nodes1
    BY DEF AnyTable
  <2> HIDE DEF x, z, nodes1, g, h1
  <2>5. [h1.node EXCEPT ![q + 1].next = n] = nodes2
    BY <2>4
  <2> HIDE DEF nodes2
  <2>6. h2 = [h EXCEPT !.node = nodes2]
    BY <2>2, <2>3, <2>5 DEF AnyTable
  <2> HIDE DEF h2
  <2>7. h3 = [h EXCEPT !.node = nodes]
    BY <2>6 DEF AnyTable
  <2> HIDE DEF nodes, h3
  <2> QED
    BY <2>1, <2>7 DEF AnyTable
<1> HIDE DEF x, z
<1>5. /\ nodes1 \in Seq(AnyNode) /\ Len(nodes1) = Len(h.node)
      /\ \A i \in 1..Len(h.node) : nodes1[i] = IF i = n + 1 THEN x ELSE h.node[i]
  BY <1>1, <1>2, ExceptSeq
<1> HIDE DEF nodes1
<1>6. y \in AnyNode /\ y.key = Held(h)[q] /\ y.next = n /\ y.val = Vals(h)[q]
  BY <1>1, <1>5 DEF AnyNode
<1> HIDE DEF y
<1>7. /\ nodes2 \in Seq(AnyNode) /\ Len(nodes2) = Len(h.node)
      /\ \A i \in 1..Len(h.node) : nodes2[i] = IF i = q + 1 THEN y ELSE nodes1[i]
  <2>1. q + 1 \in 1..Len(nodes1)
    BY <1>1, <1>5
  <2>2. /\ nodes2 \in Seq(AnyNode) /\ Len(nodes2) = Len(nodes1)
        /\ \A i \in 1..Len(nodes1) : nodes2[i] = IF i = q + 1 THEN y ELSE nodes1[i]
    BY <1>5, <1>6, <2>1, ExceptSeq
  <2> QED
    BY <1>5, <2>2
<1> HIDE DEF nodes2
<1>8. /\ nodes \in Seq(AnyNode) /\ Len(nodes) = Len(h.node)
      /\ \A i \in 1..Len(h.node) : nodes[i] = IF i = p + 1 THEN z ELSE nodes2[i]
  <2>1. p + 1 \in 1..Len(nodes2)
    BY <1>1, <1>7
  <2>2. /\ nodes \in Seq(AnyNode) /\ Len(nodes) = Len(nodes2)
        /\ \A i \in 1..Len(nodes2) : nodes[i] = IF i = p + 1 THEN z ELSE nodes2[i]
    BY <1>7, <1>3, <2>1, ExceptSeq
  <2> QED
    BY <1>7, <2>2
<1> HIDE DEF nodes, g
<1>9. Replaced(g, h, n) /\ NodesAre(g, h, nodes)
  BY <1>1, <1>4, <1>8, SeqNodes
<1>10. ASSUME NEW m \in Nodes(h)
       PROVE  /\ nodes[m + 1].next = IF m = p THEN NULL ELSE IF m = q THEN n
                                     ELSE IF m = n THEN Links(h)[p] ELSE Links(h)[m]
              /\ nodes[m + 1].key = IF m = p THEN key ELSE IF m = n THEN Held(h)[p] ELSE Held(h)[m]
              /\ nodes[m + 1].val = IF m = p THEN Nil ELSE IF m = n THEN Vals(h)[p] ELSE Vals(h)[m]
  <2>1. m + 1 \in 1..Len(h.node) /\ (m + 1 = n + 1 <=> m = n) /\ (m + 1 = p + 1 <=> m = p)
        /\ (m + 1 = q + 1 <=> m = q)
        /\ h.node[m + 1].key = Held(h)[m] /\ h.node[m + 1].next = Links(h)[m]
        /\ h.node[m + 1].val = Vals(h)[m]
    BY <1>1, NodeAt
  <2>2. nodes[m + 1] = IF m = p THEN z ELSE IF m = q THEN y
                       ELSE IF m = n THEN x ELSE h.node[m + 1]
    BY <1>5, <1>7, <1>8, <2>1
  <2> QED
    BY <1>2, <1>3, <1>6, <2>1, <2>2
<1>11. /\ IsLink(Nodes(h), Moved(Links(h), q, p, n))
       /\ Moved(Links(h), q, p, n)[n] = Links(h)[p] /\ Moved(Links(h), q, p, n)[q] = n
       /\ Moved(Links(h), q, p, n)[p] = NULL
       /\ \A m \in Nodes(h) : m \notin {q, p, n} => Moved(Links(h), q, p, n)[m] = Links(h)[m]
  BY MovedLink
<1>12. Links(g) = Moved(Links(h), q, p, n)
  BY <1>9, <1>10, <1>11 DEF NodesAre, IsLink
<1>13. Held(g) = [Held(h) EXCEPT ![n] = Held(h)[p], ![p] = key]
  BY <1>9, <1>10 DEF NodesAre, Held
<1>14. Vals(g) = [Vals(h) EXCEPT ![n] = Vals(h)[p], ![p] = Nil]
  BY <1>9, <1>10 DEF NodesAre, Vals
<1> QED
  BY <1>9, <1>12, <1>13, <1>14 DEF g, NodesAre

\* newkey() finds the node before the colliding one.
LEMMA PreviousNode ==
    ASSUME NEW h, Sound(h), NEW p \in Nodes(h), Held(h)[p] \in Key,
           mainposition(h, Held(h)[p]) # p, NEW n, NEW key
    PROVE  \E q \in Nodes(h) : /\ Links(h)[q] = p
                               /\ MoveColliding(h, p, n, key) = MoveBehind(h, q, p, n, key)
<1> DEFINE m == mainposition(h, Held(h)[p])
           chain == Chain(h, m)
           before == {d \in 0..sizenode(h) : chain[d + 1] = p}
<1>1. /\ m \in Nodes(h) /\ sizenode(h) \in Nat /\ h \in AnyTable
      /\ IsLink(Nodes(h), Links(h)) /\ Ranked(Nodes(h), Links(h))
      /\ NULL \notin Nodes(h)
  BY SoundType, NodesOf DEF HasShape, Shape
<1>2. Reach(Nodes(h), Links(h), m, p)
  <2>1. Held(h)[p] # Nil /\ Owner(Held(h)[p]) = Held(h)[p]
    BY Owners
  <2>2. FromHome(Nodes(h), Links(h), Held(h), Homes(h), p)
    BY <2>1 DEF Sound, HasShape, Shape
  <2> QED
    BY <2>1, <2>2 DEF FromHome, Homes
<1> HIDE DEF m
<1>3. PICK e \in 0..sizenode(h) : e < sizenode(h) /\ chain[e] = p
  BY <1>1, <1>2, ChainCovers
<1>4. /\ chain \in [Nat -> Nodes(h) \cup {NULL}] /\ chain[0] = m
      /\ \A d \in Nat : chain[d + 1] = gnext(h, chain[d])
  BY <1>1, ChainNodes
<1> HIDE DEF chain
<1>5. e # 0
  BY <1>3, <1>4 DEF m
<1>6. e - 1 \in before
  BY <1>1, <1>3, <1>5
<1>7. before \in SUBSET Nat /\ before # {}
  BY <1>1, <1>6
<1>8. Min(before) \in before
  BY <1>7, MinOf
<1> DEFINE q == chain[Min(before)]
<1>9. Min(before) \in Nat /\ chain[Min(before) + 1] = p
  BY <1>1, <1>8
<1>10. gnext(h, q) = p /\ q \in Nodes(h) \cup {NULL}
  BY <1>4, <1>9
<1>11. q \in Nodes(h)
  BY <1>1, <1>10 DEF gnext
<1>12. Links(h)[q] = p
  BY <1>1, <1>10, <1>11, HeldType
<1>13. gnode(h, p).key = Held(h)[p]
  BY <1>1, HeldType
<1>14. MoveColliding(h, p, n, key) = MoveBehind(h, q, p, n, key)
  BY <1>13 DEF MoveColliding, MoveBehind, m, chain
<1> QED
  BY <1>11, <1>12, <1>14

\* The value of a key in a node,
LEMMA NodeGet ==
    ASSUME NEW h, Sound(h), NEW n \in Nodes(h), Held(h)[n] \in Key
    PROVE  Find(h, Held(h)[n]) # NULL /\ luaH_get(h, Held(h)[n]) = Vals(h)[n]
<1>1. /\ sizearray(h) + n \in Entries(h) /\ KeyAt(h, sizearray(h) + n) = Held(h)[n]
      /\ ValAt(h, sizearray(h) + n) = Vals(h)[n]
  BY SoundType, EntryKinds DEF Vals
<1> QED
  BY <1>1, GetAt

\* in the array part,
LEMMA ArrayGet ==
    ASSUME NEW h, Sound(h), NEW i \in 1..sizearray(h), Number(i) \in Key
    PROVE  Find(h, Number(i)) = i - 1 /\ Find(h, Number(i)) # NULL
           /\ luaH_get(h, Number(i)) = h.array[i]
<1>1. /\ i - 1 \in Entries(h) /\ KeyAt(h, i - 1) = Number(i) /\ ValAt(h, i - 1) = h.array[i]
  BY SoundType, EntryKinds
<1> QED
  BY <1>1, GetAt

\* and there is no other.
LEMMA GetFrom ==
    ASSUME NEW h, Sound(h), NEW k \in Key, Find(h, k) # NULL
    PROVE  \/ \E n \in Nodes(h) : Held(h)[n] = k /\ Find(h, k) = sizearray(h) + n
           \/ \E i \in 1..sizearray(h) : Number(i) = k /\ Find(h, k) = i - 1
<1>1. Find(h, k) \in Entries(h) /\ KeyAt(h, Find(h, k)) = k
  BY FindIs
<1>2. Entries(h) \subseteq Int
  BY SoundType DEF Entries
<1>3. CASE Find(h, k) < sizearray(h)
  <2>1. Find(h, k) + 1 \in 1..sizearray(h) /\ k = Number(Find(h, k) + 1)
    BY <1>1, <1>3, SoundType, EntryKinds
  <2> QED
    BY <1>1, <1>2, <2>1
<1>4. CASE ~(Find(h, k) < sizearray(h))
  <2>1. /\ Find(h, k) - sizearray(h) \in Nodes(h) /\ k = Held(h)[Find(h, k) - sizearray(h)]
        /\ Find(h, k) = sizearray(h) + (Find(h, k) - sizearray(h))
    BY <1>1, <1>4, SoundType, EntryKinds
  <2> QED
    BY <2>1
<1> QED
  BY <1>3, <1>4

\* A key that is not found is nowhere.
LEMMA NotFound ==
    ASSUME NEW h, Sound(h), NEW k \in Key, Find(h, k) = NULL
    PROVE  ~InArray(h, k) /\ \A n \in Nodes(h) : Held(h)[n] # k
<1>1. ~InArray(h, k)
  <2>1. SUFFICES ASSUME InArray(h, k) PROVE FALSE
    OBVIOUS
  <2>2. Find(h, k) = k[2] - 1 /\ k[2] \in 1..sizearray(h)
    BY <2>1 DEF Find, InArray
  <2>3. k[2] >= 1
    BY <2>2, SoundType
  <2> QED
    BY <2>2, <2>3 DEF NULL
<1> QED
  BY <1>1, NodeGet

\* An integer of the array part.
LEMMA InArrayIs ==
    ASSUME NEW h, NEW k \in Key
    PROVE  InArray(h, k) <=> \E i \in 1..sizearray(h) : k = Number(i)
<1>1. k = <<k[1], k[2]>>
  BY KeyAssumption
<1>2. ASSUME NEW i, k = Number(i) PROVE k[1] = "number" /\ k[2] = i
  BY <1>2 DEF Number
<1> QED
  BY <1>1, <1>2 DEF InArray, IsInteger, Number

-----------------------------------------------------------------------------
\* A table with a place for a key, and nothing else.
Placed(h, g, key) ==
    /\ Sound(g) /\ ~g.dummy /\ g.array = h.array /\ sizenode(g) = sizenode(h)
    /\ Find(g, key) # NULL
    /\ \A k \in Key : luaH_get(g, k) = luaH_get(h, k)
    /\ \A k \in Key : Find(g, k) # NULL => k = key \/ Find(h, k) # NULL
    /\ \A n \in Nodes(g) : Held(g)[n] = key \/ \E m \in Nodes(h) : Held(g)[n] = Held(h)[m]

\* The nodes hold what they held, and the key; no value is lost.
Rearranges(g, h, key) ==
    /\ \A n \in Nodes(h) : \/ Held(g)[n] = key /\ Vals(g)[n] = Nil
                           \/ \E m \in Nodes(h) : /\ Held(g)[n] = Held(h)[m]
                                                  /\ Vals(g)[n] = Vals(h)[m]
    /\ \A m \in Nodes(h) : Vals(h)[m] # Nil =>
          \E n \in Nodes(h) : Held(g)[n] = Held(h)[m] /\ Vals(g)[n] = Vals(h)[m]
    /\ \E n \in Nodes(h) : Held(g)[n] = key

\* What newkey() may write keeps the table sound,
LEMMA PlacedSound ==
    ASSUME NEW h, Sound(h), ~h.dummy, NEW key \in Key, Find(h, key) = NULL,
           NEW last \in 0..sizenode(h), NEW g, Replaced(g, h, last),
           Shape(Nodes(h), Links(g), Held(g), Homes(h)), Rearranges(g, h, key),
           \A n \in last..(sizenode(h) - 1) : Held(g)[n] # Nil
    PROVE  Placed(h, g, key)
<1>1. /\ h \in AnyTable /\ sizenode(h) \in Nat /\ sizenode(h) >= 1 /\ sizearray(h) \in Nat
      /\ g \in AnyTable /\ sizenode(g) = sizenode(h) /\ sizearray(g) = sizearray(h)
      /\ g.array = h.array /\ ~g.dummy /\ g.lastfree = last
  BY SoundType DEF Replaced, sizearray
<1>2. Nodes(g) = Nodes(h) /\ Homes(g) = Homes(h)
  BY <1>1, SameHomes
<1>3. \A n \in Nodes(h) : Vals(g)[n] = gnode(g, n).val /\ Vals(h)[n] = gnode(h, n).val
  BY <1>2 DEF Vals
<1>4. ~InArray(h, key) /\ \A n \in Nodes(h) : Held(h)[n] # key
  BY NotFound
<1>5. Sound(g)
  <2>1. Sized(g) /\ HasShape(g)
    BY <1>1, <1>2 DEF Sized, HasShape
  <2>2. \A n \in Nodes(g) : Held(g)[n] \notin Key => gnode(g, n).val = Nil
    BY <1>2, <1>3 DEF Sound, Rearranges
  <2>3. \A k \in Key, n \in Nodes(g) : Held(g)[n] = Dead(k) => iscollectable(k)
    BY <1>2, KeyAssumption DEF Sound, Rearranges
  <2>4. \A k : InArray(g, k) <=> InArray(h, k)
    BY <1>1 DEF InArray
  <2>5. \A n \in Nodes(g) : Held(g)[n] \in Key => ~InArray(g, Held(g)[n])
    BY <1>2, <1>4, <2>4 DEF Sound, Rearranges
  <2>6. \A i \in 1..sizearray(g) : g.array[i] # Nil => Number(i) \in Key
    BY <1>1 DEF Sound
  <2> QED
    BY <1>1, <2>1, <2>2, <2>3, <2>5, <2>6 DEF Sound
<1>6. Find(g, key) # NULL
  BY <1>2, <1>5, NodeGet DEF Rearranges
<1>7. ASSUME NEW k \in Key PROVE luaH_get(g, k) = luaH_get(h, k)
  <2>1. CASE \E i \in 1..sizearray(h) : k = Number(i)
    BY <1>1, <1>5, <2>1, ArrayGet
  <2>2. CASE ~\E i \in 1..sizearray(h) : k = Number(i)
    <3>1. CASE luaH_get(h, k) # Nil
      <4>1. PICK m \in Nodes(h) : Held(h)[m] = k
        BY <2>2, <3>1, GetIs, GetFrom
      <4>2. Vals(h)[m] = luaH_get(h, k)
        BY <4>1, NodeGet
      <4>3. PICK n \in Nodes(h) : Held(g)[n] = Held(h)[m] /\ Vals(g)[n] = Vals(h)[m]
        BY <3>1, <4>2 DEF Rearranges
      <4> QED
        BY <1>2, <1>5, <4>1, <4>2, <4>3, NodeGet
    <3>2. CASE luaH_get(h, k) = Nil /\ luaH_get(g, k) # Nil
      <4>1. PICK n \in Nodes(g) : Held(g)[n] = k
        BY <1>1, <1>5, <2>2, <3>2, GetIs, GetFrom
      <4>2. Vals(g)[n] = luaH_get(g, k)
        BY <1>5, <4>1, NodeGet
      <4>3. PICK m \in Nodes(h) : Held(g)[n] = Held(h)[m] /\ Vals(g)[n] = Vals(h)[m]
        BY <1>2, <3>2, <4>2 DEF Rearranges
      <4>4. luaH_get(h, k) = Vals(h)[m]
        BY <4>1, <4>3, NodeGet
      <4> QED
        BY <3>2, <4>2, <4>3, <4>4
    <3> QED
      BY <3>1, <3>2
  <2> QED
    BY <2>1, <2>2
<1>8. ASSUME NEW k \in Key, Find(g, k) # NULL PROVE k = key \/ Find(h, k) # NULL
  <2>1. CASE \E i \in 1..sizearray(h) : k = Number(i)
    BY <2>1, ArrayGet
  <2>2. CASE ~\E i \in 1..sizearray(h) : k = Number(i)
    <3>1. PICK n \in Nodes(g) : Held(g)[n] = k
      BY <1>1, <1>5, <1>8, <2>2, GetFrom
    <3>2. k = key \/ \E m \in Nodes(h) : k = Held(h)[m]
      BY <1>2, <3>1 DEF Rearranges
    <3> QED
      BY <3>2, NodeGet
  <2> QED
    BY <2>1, <2>2
<1>9. \A n \in Nodes(g) : Held(g)[n] = key \/ \E m \in Nodes(h) : Held(g)[n] = Held(h)[m]
  BY <1>2 DEF Rearranges
<1> QED
  BY <1>1, <1>5, <1>6, <1>7, <1>8, <1>9 DEF Placed

\* and it does.
LEMMA PlaceSound ==
    ASSUME NEW h, Sound(h), NEW key \in Key, Find(h, key) = NULL, ~IsFull(h, key)
    PROVE  Placed(h, Place(h, mainposition(h, key), getfreepos(h), key), key)
<1> DEFINE p == mainposition(h, key)
           n == getfreepos(h)
           g == Place(h, p, n, key)
<1>1. /\ h \in AnyTable /\ sizenode(h) \in Nat /\ h.lastfree \in 0..sizenode(h) /\ p \in Nodes(h)
      /\ Shape(Nodes(h), Links(h), Held(h), Homes(h)) /\ Homes(h)[key] = p
      /\ IsLink(Nodes(h), Links(h)) /\ Nodes(h) = 0..(sizenode(h) - 1)
  BY SoundType DEF Sized, HasShape, Shape, Homes, Nodes
<1>2. \A m \in Nodes(h) : Held(h)[m] # key
  BY NotFound
<1>3. /\ \A m \in Nodes(h) : Held(h)[m] \notin Key => Vals(h)[m] = Nil
      /\ \A m \in Nodes(h) : Vals(h)[m] = gnode(h, m).val /\ Held(h)[m] = gnode(h, m).key
  BY DEF Sound, Vals, Held
<1>4. Nil \notin Key
  BY KeyAssumption
<1>5. CASE ~IsTaken(h, p)
  <2>1. ~h.dummy /\ Vals(h)[p] = Nil
    BY <1>1, <1>3, <1>5 DEF IsTaken
  <2>2. g = SetKey(h, p, key)
    BY <1>5 DEF Place
  <2> HIDE DEF p, g
  <2>3. /\ Replaced(g, h, h.lastfree) /\ Links(g) = Links(h)
        /\ Held(g) = [Held(h) EXCEPT ![p] = key] /\ Vals(g) = Vals(h)
    BY <1>1, <2>2, SetKeyWrites
  <2>4. \A m \in Nodes(h) : Held(g)[m] = IF m = p THEN key ELSE Held(h)[m]
    BY <2>3 DEF Held
  <2>5. Shape(Nodes(h), Links(g), Held(g), Homes(h))
    <3>1. Shape(Nodes(h), Links(h), [Held(h) EXCEPT ![Homes(h)[key]] = key], Homes(h))
      BY <1>1, <1>2, ShapeSetKey
    <3> QED
      BY <1>1, <2>3, <3>1
  <2>6. Rearranges(g, h, key)
    BY <1>1, <2>1, <2>3, <2>4 DEF Rearranges
  <2>7. \A m \in h.lastfree..(sizenode(h) - 1) : Held(g)[m] # Nil
    <3>1. \A m \in h.lastfree..(sizenode(h) - 1) : m \in Nodes(h) /\ Held(h)[m] # Nil
      BY <1>1, <2>1 DEF Sound
    <3> QED
      BY <1>4, <2>4, <3>1
  <2>8. Placed(h, g, key)
    BY <1>1, <2>1, <2>3, <2>5, <2>6, <2>7, PlacedSound
  <2> QED
    BY <2>8 DEF g, p
<1>6. CASE IsTaken(h, p)
  <2>1. /\ ~h.dummy /\ n \in Nodes(h) /\ Held(h)[n] = Nil
        /\ \A m \in n..(sizenode(h) - 1) : m # n => Held(h)[m] # Nil
    BY <1>6, FreePosition DEF IsFull
  <2>2. Vals(h)[p] # Nil /\ Held(h)[p] \in Key /\ p # n /\ Vals(h)[n] = Nil
    BY <1>1, <1>3, <1>4, <1>6, <2>1 DEF IsTaken
  <2>3. n \in 0..sizenode(h)
    BY <1>1, <2>1
  <2>4. Homes(h)[Held(h)[p]] = mainposition(h, Held(h)[p])
    BY <2>2 DEF Homes
  <2>5. CASE mainposition(h, Held(h)[p]) = p
    <3>1. g = ChainNew(h, p, n, key)
      BY <1>1, <1>3, <1>6, <2>5 DEF Place
    <3> HIDE DEF p, g, n
    <3>2. /\ Replaced(g, h, n) /\ Links(g) = Behind(Links(h), p, n)
          /\ Held(g) = [Held(h) EXCEPT ![n] = key] /\ Vals(g) = [Vals(h) EXCEPT ![n] = Nil]
      <4>1. h \in AnyTable /\ p \in Nodes(h) /\ n \in Nodes(h) /\ p # n /\ IsLink(Nodes(h), Links(h))
        BY <1>1, <2>1, <2>2
      <4>2. /\ Replaced(ChainNew(h, p, n, key), h, n)
            /\ Links(ChainNew(h, p, n, key)) = Behind(Links(h), p, n)
            /\ Held(ChainNew(h, p, n, key)) = [Held(h) EXCEPT ![n] = key]
            /\ Vals(ChainNew(h, p, n, key)) = [Vals(h) EXCEPT ![n] = Nil]
        BY <4>1, ChainNewWrites
      <4> QED
        BY <3>1, <4>2
    <3>3. \A m \in Nodes(h) : /\ Held(g)[m] = IF m = n THEN key ELSE Held(h)[m]
                       /\ Vals(g)[m] = Vals(h)[m]
      BY <2>2, <3>2 DEF Held, Vals
    <3>4. Shape(Nodes(h), Links(g), Held(g), Homes(h))
      <4> DEFINE a == Homes(h)[key]
      <4>1. a = p
        BY <1>1
      <4>2. /\ \A m \in Nodes(h) : Held(h)[m] # key
            /\ Held(h)[a] \in Key /\ Homes(h)[Held(h)[a]] = a
            /\ n \in Nodes(h) /\ Held(h)[n] = Nil
        BY <1>2, <2>1, <2>2, <2>4, <2>5, <4>1
      <4>3. Shape(Nodes(h), Behind(Links(h), a, n), [Held(h) EXCEPT ![n] = key], Homes(h))
        BY <1>1, <4>2, ShapeChainNew
      <4> QED
        BY <3>2, <4>1, <4>3
    <3>5. Rearranges(g, h, key)
      BY <2>1, <2>2, <3>3 DEF Rearranges
    <3>6. \A m \in n..(sizenode(h) - 1) : Held(g)[m] # Nil
      <4>1. \A m \in n..(sizenode(h) - 1) : m \in Nodes(h)
        BY <1>1, <2>1
      <4> QED
        BY <1>4, <2>1, <3>3, <4>1
    <3>7. Placed(h, g, key)
      BY <2>1, <2>3, <3>2, <3>4, <3>5, <3>6, PlacedSound
    <3> QED
      BY <3>7 DEF g, p, n
  <2>6. CASE mainposition(h, Held(h)[p]) # p
    <3>1. g = MoveColliding(h, p, n, key)
      BY <1>1, <1>3, <1>6, <2>6 DEF Place
    <3>2. PICK q \in Nodes(h) : Links(h)[q] = p /\ MoveColliding(h, p, n, key) = MoveBehind(h, q, p, n, key)
      BY <1>1, <2>2, <2>6, PreviousNode
    <3> HIDE DEF p, g, n
    <3>3. q # n
      BY <1>1, <2>1, <3>2 DEF Shape, IsLoose, IsLink
    <3>4. q # p
      BY <1>1, <3>2 DEF Shape, Ranked, IsRank, IsLink
    <3>5. /\ Replaced(g, h, n) /\ Links(g) = Moved(Links(h), q, p, n)
          /\ Held(g) = [Held(h) EXCEPT ![n] = Held(h)[p], ![p] = key]
          /\ Vals(g) = [Vals(h) EXCEPT ![n] = Vals(h)[p], ![p] = Nil]
      <4>1. /\ h \in AnyTable /\ p \in Nodes(h) /\ n \in Nodes(h) /\ p # n
            /\ q \in Nodes(h) /\ q # p /\ q # n /\ IsLink(Nodes(h), Links(h))
        BY <1>1, <2>1, <2>2, <3>3, <3>4
      <4>2. /\ Replaced(MoveBehind(h, q, p, n, key), h, n)
            /\ Links(MoveBehind(h, q, p, n, key)) = Moved(Links(h), q, p, n)
            /\ Held(MoveBehind(h, q, p, n, key)) =
                  [Held(h) EXCEPT ![n] = Held(h)[p], ![p] = key]
            /\ Vals(MoveBehind(h, q, p, n, key)) =
                  [Vals(h) EXCEPT ![n] = Vals(h)[p], ![p] = Nil]
        BY <4>1, MoveWrites
      <4> QED
        BY <3>1, <3>2, <4>2
    <3>6. \A m \in Nodes(h) : /\ Held(g)[m] = IF m = p THEN key ELSE IF m = n THEN Held(h)[p]
                                       ELSE Held(h)[m]
                       /\ Vals(g)[m] = IF m = p THEN Nil ELSE IF m = n THEN Vals(h)[p]
                                       ELSE Vals(h)[m]
      BY <2>2, <3>5 DEF Held, Vals
    <3>7. Shape(Nodes(h), Links(g), Held(g), Homes(h))
      <4> DEFINE a == Homes(h)[key]
      <4>1. a = p
        BY <1>1
      <4>2. /\ \A m \in Nodes(h) : Held(h)[m] # key
            /\ Held(h)[a] \in Key /\ Homes(h)[Held(h)[a]] # a
            /\ n \in Nodes(h) /\ Held(h)[n] = Nil /\ q \in Nodes(h) /\ Links(h)[q] = a
        BY <1>2, <2>1, <2>2, <2>4, <2>6, <3>2, <4>1
      <4>3. Shape(Nodes(h), Moved(Links(h), q, a, n),
                  [Held(h) EXCEPT ![n] = Held(h)[a], ![a] = key], Homes(h))
        BY <1>1, <4>2, ShapeMoved
      <4> QED
        BY <3>5, <4>1, <4>3
    <3>8. Rearranges(g, h, key)
      <4>1. p \in Nodes(h)
        BY <1>1
      <4>2. ASSUME NEW m \in Nodes(h)
            PROVE  \/ Held(g)[m] = key /\ Vals(g)[m] = Nil
                   \/ \E b \in Nodes(h) : Held(g)[m] = Held(h)[b] /\ Vals(g)[m] = Vals(h)[b]
        BY <2>2, <3>6, <4>1
      <4>3. ASSUME NEW m \in Nodes(h), Vals(h)[m] # Nil
            PROVE  \E b \in Nodes(h) : Held(g)[b] = Held(h)[m] /\ Vals(g)[b] = Vals(h)[m]
        BY <2>1, <2>2, <3>6, <4>1, <4>3
      <4> QED
        BY <2>1, <3>6, <4>1, <4>2, <4>3 DEF Rearranges
    <3>9. \A m \in n..(sizenode(h) - 1) : Held(g)[m] # Nil
      <4>1. \A m \in n..(sizenode(h) - 1) : m \in Nodes(h)
        BY <1>1, <2>1
      <4> QED
        BY <1>4, <2>1, <2>2, <3>6, <4>1
    <3>10. Placed(h, g, key)
      BY <2>1, <2>3, <3>5, <3>7, <3>8, <3>9, PlacedSound
    <3> QED
      BY <3>10 DEF g, p, n
  <2> QED
    BY <2>5, <2>6
<1> QED
  BY <1>5, <1>6

-----------------------------------------------------------------------------
(* Powers of two.                                                          *)

\* They are what they should be.
LEMMA TwotoIs ==
    /\ twoto \in [Nat -> Nat] /\ twoto[0] = 1
    /\ \A l \in Nat : twoto[l + 1] = 2 * twoto[l]
    /\ \A l \in Nat : l + 1 <= twoto[l]
<1> DEFINE step == [x \in Nat |-> 2 * x]
           IsTwoto(f) == f = [l \in Nat |-> IF l = 0 THEN 1 ELSE 2 * f[l - 1]]
           two == CHOOSE f : IsTwoto(f)
<1>1. step \in [Nat -> Nat] /\ \A x \in Nat : step[x] = 2 * x
  OBVIOUS
<1> HIDE DEF step
<1>2. PICK f \in [Nat -> Nat] : \A l \in Nat : f[l] = IF l = 0 THEN 1 ELSE step[f[l - 1]]
  <2>1. EndlessRuns(Nat, 1, step) # {}
    BY <1>1, EndlessLoopRuns
  <2> QED
    BY <2>1 DEF EndlessRuns
<1>3. \A l \in Nat : f[l] = IF l = 0 THEN 1 ELSE 2 * f[l - 1]
  BY <1>1, <1>2
<1>4. IsTwoto(f)
  BY <1>2, <1>3
<1>5. IsTwoto(two)
  <2> HIDE DEF IsTwoto
  <2> QED
    BY <1>4
<1>6. twoto = two
  BY DEF twoto
<1> HIDE DEF two
<1>7. two[0] = 1 /\ \A l \in Nat : two[l + 1] = 2 * two[l]
  BY <1>5
<1>8. \A l \in Nat : two[l] \in Nat /\ l + 1 <= two[l]
  <2> DEFINE T == {l \in Nat : two[l] \in Nat /\ l + 1 <= two[l]}
  <2>1. 0 \in T
    BY <1>7
  <2>2. ASSUME NEW l \in Nat, l \in T PROVE l + 1 \in T
    BY <1>7, <2>2
  <2> HIDE DEF T
  <2>3. \A l \in Nat : l \in T
    BY <2>1, <2>2, NatSetInduction
  <2> QED
    BY <2>3 DEF T
<1> QED
  BY <1>5, <1>6, <1>7, <1>8

\* luaO_log2() rounds up.
LEMMA CeilLog2 ==
    ASSUME NEW n \in Nat
    PROVE  ceillog2(n) \in Nat /\ n <= twoto[ceillog2(n)] /\ twoto[ceillog2(n)] \in Nat
<1> DEFINE T == {l \in 0..n : n <= twoto[l]}
<1>1. n \in T
  BY TwotoIs
<1>2. T \in SUBSET Nat /\ T # {} /\ ceillog2(n) = Min(T)
  BY <1>1 DEF ceillog2
<1> HIDE DEF T
<1>3. Min(T) \in T
  BY <1>2, MinOf
<1> QED
  BY <1>2, <1>3, TwotoIs DEF T

-----------------------------------------------------------------------------
(* Loops that keep a promise of each step.                                 *)

\* Each step keeps what L says of it.
IsLoop(N, S, L, s0, step) ==
    /\ N \in Nat /\ L \in [0..N -> SUBSET S] /\ s0 \in L[0]
    /\ \A i \in 1..N : \A s \in L[i - 1] : step[<<s, i>>] \in L[i]

\* There is a run, and it does what L says.
LEMMA LoopKeeps ==
    ASSUME NEW N, NEW S, NEW L, NEW s0, NEW step, IsLoop(N, S, L, s0, step)
    PROVE  \E f \in [0..N -> S] :
              \A i \in 0..N : /\ f[i] \in L[i]
                              /\ f[i] = IF i = 0 THEN s0 ELSE step[<<f[i - 1], i>>]
<1> USE DEF IsLoop
<1> DEFINE total == [p \in S \X (1..N) |-> IF p[1] \in L[p[2] - 1] THEN step[p] ELSE s0]
<1>1. s0 \in S
  OBVIOUS
<1>2. total \in Steps(S, N)
  <2>1. ASSUME NEW s \in S, NEW i \in 1..N, s \in L[i - 1] PROVE step[<<s, i>>] \in S
    <3>1. step[<<s, i>>] \in L[i] /\ i \in 0..N
      BY <2>1
    <3> QED
      BY <3>1
  <2>2. ASSUME NEW p \in S \X (1..N), p[1] \in L[p[2] - 1] PROVE step[p] \in S
    BY <2>1, <2>2
  <2> QED
    BY <1>1, <2>2 DEF Steps
<1>3. \A s \in S, i \in 1..N : s \in L[i - 1] => total[<<s, i>>] = step[<<s, i>>]
  OBVIOUS
<1> HIDE DEF total
<1>4. PICK f \in [0..N -> S] :
         \A n \in 0..N : f[n] = IF n = 0 THEN s0 ELSE total[<<f[n - 1], n>>]
  <2>1. Runs(S, N, s0, total) # {}
    BY <1>1, <1>2, LoopRuns
  <2> QED
    BY <2>1 DEF Runs
<1>5. \A n \in 0..N : f[n] \in L[n]
  <2> DEFINE T == {n \in 0..N : f[n] \in L[n]}
  <2>1. 0 \in T
    <3>1. 0 \in 0..N
      OBVIOUS
    <3>2. f[0] = s0
      BY <1>4, <3>1, Zenon
    <3> QED
      BY <3>1, <3>2
  <2>2. ASSUME NEW n \in 0..N - 1, n \in T PROVE n + 1 \in T
    <3>1. f[n + 1] = total[<<f[n], n + 1>>] /\ f[n] \in L[n] /\ n + 1 \in 1..N /\ f[n] \in S
      BY <1>4, <2>2
    <3>2. f[n + 1] = step[<<f[n], n + 1>>]
      BY <1>3, <3>1
    <3>3. f[n + 1] \in L[n + 1]
      BY <3>1, <3>2
    <3> QED
      BY <3>1, <3>3
  <2> HIDE DEF T
  <2>3. \A n \in 0..N : n \in T
    BY <2>1, <2>2, BoundedInduction
  <2> QED
    BY <2>3 DEF T
<1>6. ASSUME NEW n \in 0..N, n # 0 PROVE f[n] = step[<<f[n - 1], n>>]
  <2>1. n \in 1..N /\ n - 1 \in 0..N
    BY <1>6
  <2> QED
    BY <1>3, <1>4, <1>5, <1>6, <2>1
<1> QED
  BY <1>4, <1>5, <1>6

\* What a run does that is known only to take the steps.
LEMMA LoopIsKept ==
    ASSUME NEW N, NEW S, NEW L, NEW s0, NEW step, IsLoop(N, S, L, s0, step), NEW f, f[0] = s0,
           \A i \in 1..N : f[i - 1] \in L[i - 1] => f[i] = step[<<f[i - 1], i>>]
    PROVE  \A i \in 0..N : f[i] \in L[i]
<1> USE DEF IsLoop
<1> DEFINE T == {n \in 0..N : f[n] \in L[n]}
<1>1. 0 \in T
  OBVIOUS
<1>2. ASSUME NEW n \in 0..N - 1, n \in T PROVE n + 1 \in T
  <2>1. n + 1 \in 1..N /\ (n + 1) - 1 = n /\ f[n] \in L[n]
    BY <1>2
  <2>2. f[n + 1] \in L[n + 1]
    BY <2>1
  <2> QED
    BY <2>1, <2>2
<1> HIDE DEF T
<1>3. \A n \in 0..N : n \in T
  BY <1>1, <1>2, BoundedInduction
<1> QED
  BY <1>3 DEF T

-----------------------------------------------------------------------------
(* A table without nodes in use.                                           *)

\* Nodes that hold nothing have a shape.
LEMMA ShapeEmpty ==
    ASSUME NEW N, NULL \notin N, NEW nx, nx = [n \in N |-> NULL], NEW kf, kf = [n \in N |-> Nil],
           NEW hm \in [Key -> N]
    PROVE  Shape(N, nx, kf, hm)
<1>1. IsLink(N, nx)
  BY DEF IsLink
<1>2. Ranked(N, nx)
  <2>1. IsRank(N, nx, [n \in N |-> 0])
    BY DEF IsRank
  <2> QED
    BY <2>1 DEF Ranked
<1>3. OneBefore(N, nx)
  BY DEF OneBefore
<1>4. \A n \in N : IsLoose(N, nx, n)
  BY DEF IsLoose
<1>5. kf \in [N -> NodeKeys] /\ \A n \in N : kf[n] = Nil
  BY DEF NodeKeys
<1> QED
  BY <1>1, <1>2, <1>3, <1>4, <1>5, KeyAssumption DEF Shape

Fresh(g, array, size) ==
    /\ Sound(g) /\ g.array = array /\ sizenode(g) >= size /\ (g.dummy <=> size = 0)
    /\ \A n \in Nodes(g) : Held(g)[n] = Nil

\* setnodevector() makes such a table.
LEMMA FreshTable ==
    ASSUME NEW h \in AnyTable, NEW size \in Nat,
           \A i \in 1..sizearray(h) : h.array[i] # Nil => Number(i) \in Key
    PROVE  Fresh(setnodevector(h, size), h.array, size)
<1> DEFINE g == setnodevector(h, size)
           N == IF size = 0 THEN 1 ELSE twoto[ceillog2(size)]
<1>1. N \in Nat /\ N >= 1 /\ N >= size
  BY CeilLog2
<1>2. EmptyNode \in AnyNode /\ EmptyNode.key = Nil /\ EmptyNode.val = Nil /\ EmptyNode.next = NULL
  BY DEF EmptyNode, AnyNode, NodeKeys, NULL
<1>3. /\ g.array = h.array /\ Len(g.node) = N /\ (g.dummy <=> size = 0)
      /\ g.lastfree = IF size = 0 THEN 0 ELSE N
      /\ \A i \in 1..N : g.node[i] = EmptyNode
      /\ g.dummy => g.node = Empty.node
      /\ g \in AnyTable
  <2>1. CASE size = 0
    <3>1. g = [Empty EXCEPT !.array = h.array]
      BY <2>1 DEF setnodevector
    <3>2. /\ g.array = h.array /\ g.node = <<EmptyNode>> /\ g.dummy = TRUE /\ g.lastfree = 0
          /\ g = [array |-> g.array, node |-> g.node, dummy |-> g.dummy, lastfree |-> g.lastfree]
      BY <3>1 DEF Empty
    <3>3. h.array \in Seq(Value \cup {Nil}) /\ <<EmptyNode>> \in Seq(AnyNode)
      BY <1>2 DEF AnyTable
    <3>4. Len(<<EmptyNode>>) = 1 /\ \A i \in 1..1 : <<EmptyNode>>[i] = EmptyNode
      OBVIOUS
    <3>5. Empty.node = <<EmptyNode>>
      BY DEF Empty
    <3> HIDE DEF g
    <3>6. g \in AnyTable
      <4>1. 0 \in Int /\ TRUE \in BOOLEAN
        OBVIOUS
      <4>2. g = [array |-> h.array, node |-> <<EmptyNode>>, dummy |-> TRUE, lastfree |-> 0]
        BY <3>2, Zenon
      <4> QED
        BY <3>3, <4>1, <4>2 DEF AnyTable
    <3> QED
      BY <2>1, <3>2, <3>4, <3>5, <3>6
  <2>2. CASE size # 0
    <3> DEFINE nodes == [i \in 1..N |-> EmptyNode]
    <3>1. g = [h EXCEPT !.node = nodes, !.dummy = FALSE, !.lastfree = N]
      BY <2>2 DEF setnodevector
    <3>2. nodes \in Seq(AnyNode) /\ Len(nodes) = N /\ \A i \in 1..N : nodes[i] = EmptyNode
      <4> HIDE DEF N
      <4> QED
        BY <1>1, <1>2
    <3> HIDE DEF nodes, g, N
    <3>3. g = [array |-> h.array, node |-> nodes, dummy |-> FALSE, lastfree |-> N]
      BY <3>1 DEF AnyTable
    <3>4. g \in AnyTable
      <4>1. N \in Int /\ FALSE \in BOOLEAN /\ h.array \in Seq(Value \cup {Nil})
        BY <1>1 DEF AnyTable
      <4> QED
        BY <3>2, <3>3, <4>1 DEF AnyTable
    <3>5. g.array = h.array /\ g.node = nodes /\ g.dummy = FALSE /\ g.lastfree = N
      BY <3>3
    <3> QED
      BY <2>2, <3>2, <3>3, <3>4, <3>5
  <2> QED
    BY <2>1, <2>2
<1> HIDE DEF g, N
<1>4. sizenode(g) = N /\ sizearray(g) = sizearray(h) /\ Nodes(g) = 0..(N - 1)
  BY <1>3 DEF sizenode, sizearray, Nodes
<1>5. \A n \in Nodes(g) : gnode(g, n) = EmptyNode
  <2>1. \A n \in 0..(N - 1) : n + 1 \in 1..N
    BY <1>1
  <2> QED
    BY <1>3, <1>4, <2>1 DEF gnode
<1>6. Links(g) = [n \in Nodes(g) |-> NULL] /\ Held(g) = [n \in Nodes(g) |-> Nil]
  BY <1>2, <1>5 DEF Links, Held
<1>7. Homes(g) \in [Key -> Nodes(g)]
  BY <1>1, <1>4, MainPosition DEF Homes
<1>8. NULL \notin Nodes(g)
  BY <1>1, <1>4 DEF NULL
<1>9. HasShape(g)
  BY <1>6, <1>7, <1>8, ShapeEmpty DEF HasShape
<1>10. Sized(g)
  BY <1>1, <1>3, <1>4 DEF Sized
<1>11. \A n \in Nodes(g) : gnode(g, n).val = Nil /\ Held(g)[n] = Nil
  BY <1>2, <1>5, <1>6
<1>12. ~g.dummy => \A n \in g.lastfree..(sizenode(g) - 1) : Held(g)[n] # Nil
  BY <1>1, <1>3, <1>4
<1>13. g.dummy => g.lastfree = 0
  BY <1>3
<1>14. Sound(g)
  BY <1>3, <1>4, <1>9, <1>10, <1>11, <1>12, <1>13, KeyAssumption DEF Sound
<1> QED
  BY <1>1, <1>3, <1>4, <1>11, <1>14 DEF Fresh, g

-----------------------------------------------------------------------------
(* There is room for the keys of a set.                                    *)

HasRoom(g, K) ==
    /\ K \in SUBSET Key /\ IsFiniteSet(K) /\ Cardinality(K) <= sizenode(g)
    /\ g.dummy => K = {}
    /\ \A n \in Nodes(g) : Held(g)[n] \in K \cup {Nil}

\* A table that holds no others takes them all.
LEMMA RoomFor ==
    ASSUME NEW g, Sound(g), NEW K, HasRoom(g, K), NEW key \in K, Find(g, key) = NULL
    PROVE  ~IsFull(g, key)
<1>1. SUFFICES ASSUME IsFull(g, key) PROVE FALSE
  OBVIOUS
<1>2. ~g.dummy /\ key \in Key
  BY DEF HasRoom
<1>3. \A n \in Nodes(g) : Held(g)[n] # Nil
  BY <1>1, <1>2, NoFreePosition DEF IsFull
<1>4. \A n \in Nodes(g) : Held(g)[n] # key
  BY <1>2, NotFound
<1> DEFINE f == Held(g)
           N == Nodes(g)
           T == K \ {key}
<1>5. f \in [N -> T]
  BY <1>3, <1>4 DEF HasRoom, Held
<1>6. IsFiniteSet(N) /\ Cardinality(N) = sizenode(g)
  <2>1. sizenode(g) \in Nat /\ sizenode(g) >= 1
    BY SoundType
  <2> QED
    BY <2>1, FS_Interval DEF Nodes
<1>7. IsFiniteSet(T) /\ Cardinality(T) = Cardinality(K) - 1
  BY FS_RemoveElement DEF HasRoom
<1>8. Cardinality(K) \in Nat
  BY FS_CardinalityType DEF HasRoom
<1>9. Cardinality(T) < Cardinality(N)
  BY <1>6, <1>7, <1>8, SoundType DEF HasRoom
<1>10. \A m, n \in N : f[m] \in Key /\ f[m] = f[n] => m = n
  BY DEF Sound, HasShape, Shape
<1>11. \A n \in N : f[n] \in Key
  BY <1>3 DEF HasRoom
<1> HIDE DEF f, N, T
<1>12. \E x, y \in N : x # y /\ f[x] = f[y]
  BY <1>5, <1>6, <1>7, <1>9, FS_PigeonHole
<1> QED
  BY <1>10, <1>11, <1>12

\* The same table, with a place for the key.
WithPlace(h, g, key) ==
    /\ Sound(g) /\ sizearray(g) = sizearray(h) /\ g.dummy = h.dummy
    /\ Find(g, key) # NULL
    /\ \A k \in Key : luaH_get(g, k) = luaH_get(h, k)

\* luaH_set() inside of resize() finds room.
LEMMA SetRoom ==
    ASSUME NEW g, Sound(g), NEW K, HasRoom(g, K), NEW key \in Key, key \in K \/ InArray(g, key)
    PROVE  WithPlace(g, luaH_set_Room(g, key), key) /\ HasRoom(luaH_set_Room(g, key), K)
<1> DEFINE r == luaH_set_Room(g, key)
<1>1. CASE Find(g, key) # NULL
  BY <1>1 DEF luaH_set_Room, WithPlace
<1>2. CASE Find(g, key) = NULL
  <2>1. key \in K
    BY <1>2, NotFound
  <2>2. ~IsFull(g, key)
    BY <1>2, <2>1, RoomFor
  <2>3. r = Place(g, mainposition(g, key), getfreepos(g), key)
    BY <1>2, <2>2 DEF luaH_set_Room
  <2>4. Placed(g, r, key)
    BY <1>2, <2>2, <2>3, PlaceSound
  <2>5. ~g.dummy
    BY <2>1 DEF HasRoom
  <2>6. r.dummy \in BOOLEAN /\ g.dummy \in BOOLEAN
    BY <2>4, SoundType DEF Placed, AnyTable
  <2> HIDE DEF r
  <2>7. WithPlace(g, r, key)
    BY <2>4, <2>5, <2>6 DEF Placed, WithPlace, sizearray
  <2>8. Nodes(r) = Nodes(g)
    BY <2>4 DEF Placed, Nodes
  <2>9. HasRoom(r, K)
    BY <2>1, <2>4, <2>8 DEF Placed, HasRoom
  <2> QED
    BY <2>7, <2>9 DEF r
<1> QED
  BY <1>1, <1>2

\* The value of an entry of another table goes in.
LEMMA ReinsertSpec ==
    ASSUME NEW h, Sound(h), NEW e \in Entries(h), NEW g, Sound(g), NEW K, HasRoom(g, K),
           ValAt(h, e) # Nil => KeyAt(h, e) \in K \/ InArray(g, KeyAt(h, e))
    PROVE  /\ Sound(Reinsert(h, e, g)) /\ HasRoom(Reinsert(h, e, g), K)
           /\ sizearray(Reinsert(h, e, g)) = sizearray(g)
           /\ \A k \in Key : luaH_get(Reinsert(h, e, g), k) =
                 IF ValAt(h, e) # Nil /\ k = KeyAt(h, e) THEN ValAt(h, e) ELSE luaH_get(g, k)
<1>1. CASE ValAt(h, e) = Nil
  <2>1. Reinsert(h, e, g) = g
    BY <1>1 DEF Reinsert
  <2> QED
    BY <1>1, <2>1
<1>2. CASE ValAt(h, e) # Nil
  <2> DEFINE key == KeyAt(h, e)
             v == ValAt(h, e)
             g1 == luaH_set_Room(g, key)
             r == PutAt(g1, Find(g1, key), v)
  <2>1. Reinsert(h, e, g) = r
    BY <1>2 DEF Reinsert
  <2>2. key \in Key
    BY <1>2, UsedKey
  <2>3. v \in Value \cup {Nil}
    BY SoundType, ValType
  <2>4. WithPlace(g, g1, key) /\ HasRoom(g1, K)
    BY <1>2, <2>2, SetRoom
  <2> HIDE DEF key, v, g1
  <2>5. Sound(g1) /\ Find(g1, key) \in Entries(g1) /\ KeyAt(g1, Find(g1, key)) = key
    BY <2>2, <2>4, FindIs DEF WithPlace
  <2>6. /\ Sound(r) /\ SameNodes(r, g1)
        /\ \A k \in Key : luaH_get(r, k) = IF k = key THEN v ELSE luaH_get(g1, k)
    BY <2>2, <2>3, <2>5, PutAtSound
  <2> HIDE DEF r
  <2>7. HasRoom(r, K)
    BY <2>4, <2>6 DEF HasRoom, SameNodes
  <2>8. sizearray(r) = sizearray(g)
    BY <2>4, <2>6 DEF WithPlace, SameNodes
  <2>9. \A k \in Key : luaH_get(r, k) = IF k = key THEN v ELSE luaH_get(g, k)
    BY <2>4, <2>6 DEF WithPlace
  <2> QED
    BY <1>2, <2>1, <2>6, <2>7, <2>8, <2>9 DEF key, v
<1> QED
  BY <1>1, <1>2

-----------------------------------------------------------------------------
(* resize()                                                                *)

\* g has the fields of h that are in some of its entries.
HasFields(g, h, D) ==
    \A k \in Key : luaH_get(g, k) = IF Find(h, k) \in D THEN luaH_get(h, k) ELSE Nil

\* A field that is added to those g has.
LEMMA OneMoreField ==
    ASSUME NEW h, Sound(h), NEW e \in Entries(h), NEW g, NEW r, NEW D, HasFields(g, h, D),
           \A k \in Key : luaH_get(r, k) =
              IF ValAt(h, e) # Nil /\ k = KeyAt(h, e) THEN ValAt(h, e) ELSE luaH_get(g, k)
    PROVE  HasFields(r, h, D \cup {e})
<1>1. ASSUME NEW k \in Key
      PROVE  luaH_get(r, k) = IF Find(h, k) \in D \cup {e} THEN luaH_get(h, k) ELSE Nil
  <2>1. CASE Find(h, k) = e
    <3>1. e # NULL
      BY SoundType DEF Entries, NULL
    <3>2. KeyAt(h, e) = k /\ luaH_get(h, k) = ValAt(h, e)
      BY <2>1, <3>1, FindIs, GetIs
    <3>3. ValAt(h, e) = Nil => luaH_get(g, k) = Nil
      BY <3>2 DEF HasFields
    <3> QED
      BY <2>1, <3>2, <3>3
  <2>2. CASE Find(h, k) # e
    <3>1. k # KeyAt(h, e)
      BY <2>2, FindAt
    <3> QED
      BY <2>2, <3>1 DEF HasFields
  <2> QED
    BY <2>1, <2>2
<1> QED
  BY <1>1 DEF HasFields

\* A table made for the keys of K has the fields of h, and holds no other keys.
Resized(g, h, nasize, K) ==
    /\ Sound(g) /\ sizearray(g) = nasize /\ HasRoom(g, K)
    /\ \A k \in Key : luaH_get(g, k) = luaH_get(h, k)

\* The array that resize() begins with: a part of the old one, and nothing behind it.
LEMMA KeptArray ==
    ASSUME NEW V, NEW a \in Seq(V), NEW nil \in V, NEW kept \in 0..Len(a), NEW nasize \in Nat,
           kept <= nasize
    PROVE  LET b == SubSeq(a, 1, kept) \o [i \in 1..(nasize - Len(SubSeq(a, 1, kept))) |-> nil]
           IN  /\ b \in Seq(V) /\ Len(b) = nasize
               /\ \A i \in 1..nasize : b[i] = IF i <= kept THEN a[i] ELSE nil
<1> DEFINE s == SubSeq(a, 1, kept)
           n == nasize - kept
           c == [i \in 1..n |-> nil]
           b == s \o c
<1>1. Len(a) \in Nat /\ kept \in Nat /\ n \in Nat
  OBVIOUS
<1>2. s \in Seq(V) /\ Len(s) = kept /\ \A i \in 1..kept : s[i] = a[i]
  BY <1>1
<1>3. c \in Seq(V) /\ Len(c) = n /\ \A i \in 1..n : c[i] = nil
  BY <1>1
<1> HIDE DEF s, c, n
<1>4. b \in Seq(V) /\ Len(b) = kept + n
  BY <1>1, <1>2, <1>3
<1>5. ASSUME NEW i \in 1..nasize PROVE b[i] = IF i <= kept THEN a[i] ELSE nil
  <2>1. i \in 1..(kept + n)
    BY DEF n
  <2>2. b[i] = IF i <= kept THEN s[i] ELSE c[i - kept]
    BY <1>1, <1>2, <1>3, <2>1
  <2> QED
    BY <1>1, <1>2, <1>3, <2>1, <2>2
<1> QED
  BY <1>1, <1>2, <1>4, <1>5 DEF n, s, c

\* resize() keeps every field.
LEMMA ResizeSpec ==
    ASSUME NEW h, Sound(h), NEW nasize \in Nat, NEW nhsize \in Nat, NEW K \in SUBSET Key,
           IsFiniteSet(K), Cardinality(K) <= nhsize,
           \A e \in Entries(h) : ValAt(h, e) # Nil =>
              KeyAt(h, e) \in K \/ \E i \in 1..nasize : KeyAt(h, e) = Number(i)
    PROVE  Resized(resize(h, nasize, nhsize), h, nasize, K)
<1> DEFINE kept == Min({nasize, sizearray(h)})
           vanishing == sizearray(h) - kept
           Old(i) == IF i <= vanishing THEN kept + i - 1 ELSE Size(h) + vanishing - i
           base == [h EXCEPT !.array = Grown(SubSeq(@, 1, kept), nasize)]
           fresh == setnodevector(base, nhsize)
           M == vanishing + sizenode(h)
           IsTable(f) == f = [i \in 0..M |-> IF i = 0 THEN fresh ELSE Reinsert(h, Old(i), f[i - 1])]
           table == CHOOSE f : IsTable(f)
<1>1. /\ h \in AnyTable /\ sizearray(h) \in Nat /\ sizenode(h) \in Nat /\ sizenode(h) >= 1
      /\ Size(h) = sizearray(h) + sizenode(h)
      /\ sizearray(h) = Len(h.array) /\ h.array \in Seq(Value \cup {Nil})
  BY SoundType, NodesOf DEF sizearray
<1>2. kept \in {nasize, sizearray(h)} /\ kept <= nasize /\ kept <= sizearray(h) /\ kept \in Nat
  <2>1. {nasize, sizearray(h)} \in SUBSET Nat
    BY <1>1
  <2> QED
    BY <1>1, <2>1, MinOf
<1>3. resize(h, nasize, nhsize) = table[M]
  BY DEF resize
<1> HIDE DEF kept
<1>4. vanishing \in Nat /\ M \in Nat
  BY <1>1, <1>2
<1>4a. /\ sizearray(h) \in Nat /\ sizenode(h) \in Nat /\ sizenode(h) >= 1
       /\ Size(h) = sizearray(h) + sizenode(h) /\ kept \in Nat /\ kept <= sizearray(h)
       /\ vanishing = sizearray(h) - kept /\ M = vanishing + sizenode(h)
  BY <1>1, <1>2
<1>5. \A i \in 1..M : Old(i) \in Entries(h)
  <2>1. ASSUME NEW i \in 1..M PROVE Old(i) \in 0..(Size(h) - 1)
    <3>1. CASE i <= vanishing
      <4>1. kept + i - 1 \in 0..(Size(h) - 1)
        BY <1>4a, <3>1
      <4> QED
        BY <3>1, <4>1
    <3>2. CASE ~(i <= vanishing)
      <4>1. Size(h) + vanishing - i \in 0..(Size(h) - 1)
        BY <1>4a, <3>2
      <4> QED
        BY <3>2, <4>1
    <3> QED
      BY <3>1, <3>2
  <2> QED
    BY <2>1 DEF Entries
<1>6. \A e \in Entries(h) : e >= kept => \E i \in 1..M : Old(i) = e
  <2>1. ASSUME NEW e \in Entries(h), e >= kept PROVE \E i \in 1..M : Old(i) = e
    <3>1. CASE e < sizearray(h)
      <4>1. e - kept + 1 \in 1..vanishing /\ e - kept + 1 \in 1..M
        <5>1. e \in Int /\ e >= kept
          BY <1>4a, <2>1 DEF Entries
        <5> QED
          BY <1>4a, <3>1, <5>1
      <4>2. Old(e - kept + 1) = e
        <5>1. e \in Int /\ kept + (e - kept + 1) - 1 = e
          BY <1>4a, <2>1 DEF Entries
        <5> QED
          BY <1>4a, <4>1, <5>1
      <4> QED
        BY <4>1, <4>2
    <3>2. CASE ~(e < sizearray(h))
      <4>1. Size(h) + vanishing - e \in 1..M /\ ~(Size(h) + vanishing - e <= vanishing)
        <5>1. e \in Int /\ e >= kept /\ e <= Size(h) - 1
          BY <1>4a, <2>1 DEF Entries
        <5> HIDE DEF vanishing, M
        <5> QED
          BY <1>4a, <3>2, <5>1
      <4>2. Old(Size(h) + vanishing - e) = e
        <5>1. e \in Int /\ Size(h) + vanishing - (Size(h) + vanishing - e) = e
          BY <1>4a, <2>1 DEF Entries
        <5> QED
          BY <4>1, <5>1
      <4> QED
        BY <4>1, <4>2
    <3> QED
      BY <3>1, <3>2
  <2> QED
    BY <2>1
<1>7. /\ base \in AnyTable /\ sizearray(base) = nasize
      /\ \A i \in 1..nasize : base.array[i] = IF i <= kept THEN h.array[i] ELSE Nil
  <2> DEFINE a == Grown(SubSeq(h.array, 1, kept), nasize)
  <2>1. /\ a \in Seq(Value \cup {Nil}) /\ Len(a) = nasize
        /\ \A i \in 1..nasize : a[i] = IF i <= kept THEN h.array[i] ELSE Nil
    <3> DEFINE V == Value \cup {Nil}
               o == h.array
               b == SubSeq(o, 1, kept) \o [i \in 1..(nasize - Len(SubSeq(o, 1, kept))) |-> Nil]
    <3>1. kept \in 0..Len(o) /\ Nil \in V /\ o \in Seq(V) /\ kept <= nasize
      BY <1>1, <1>2
    <3>2. a = b
      BY DEF Grown
    <3> HIDE DEF V, o
    <3>3. b \in Seq(V) /\ Len(b) = nasize /\ \A i \in 1..nasize : b[i] = IF i <= kept THEN o[i] ELSE Nil
      BY <3>1, KeptArray
    <3> HIDE DEF b, a
    <3> QED
      BY <3>2, <3>3 DEF V, o
  <2>2. base = [h EXCEPT !.array = a]
    OBVIOUS
  <2> HIDE DEF a
  <2>3. base = [array |-> a, node |-> h.node, dummy |-> h.dummy, lastfree |-> h.lastfree]
        /\ base.array = a
    BY <1>1, <2>2 DEF AnyTable
  <2>4. base \in AnyTable
    BY <1>1, <2>1, <2>3 DEF AnyTable
  <2> QED
    BY <2>1, <2>3, <2>4 DEF sizearray
<1> HIDE DEF base
<1>8. Fresh(fresh, base.array, nhsize)
  <2>1. \A i \in 1..sizearray(base) : base.array[i] # Nil => Number(i) \in Key
    BY <1>1, <1>2, <1>7 DEF Sound
  <2> QED
    BY <1>7, <2>1, FreshTable
<1> HIDE DEF fresh
<1>9. Sound(fresh) /\ sizearray(fresh) = nasize /\ HasRoom(fresh, K)
  <2>1. sizearray(fresh) = nasize
    BY <1>7, <1>8 DEF Fresh, sizearray
  <2>2. Cardinality(K) \in Nat /\ (Cardinality(K) = 0 => K = {})
    BY FS_CardinalityType, FS_EmptySet
  <2>3. sizenode(fresh) \in Nat
    BY <1>8, SoundType DEF Fresh
  <2> QED
    BY <1>8, <2>1, <2>2, <2>3 DEF Fresh, HasRoom
<1>10. HasFields(fresh, h, 0..(kept - 1))
  <2>1. ASSUME NEW k \in Key
        PROVE  luaH_get(fresh, k) = IF Find(h, k) \in 0..(kept - 1) THEN luaH_get(h, k) ELSE Nil
    <3>1. CASE \E i \in 1..nasize : k = Number(i)
      <4>1. PICK i \in 1..nasize : k = Number(i)
        BY <3>1
      <4>2. luaH_get(fresh, k) = base.array[i]
        BY <1>8, <1>9, <4>1, ArrayGet DEF Fresh
      <4>3. CASE i <= kept
        <5>1. i \in 1..sizearray(h) /\ i - 1 \in 0..(kept - 1)
          BY <1>1, <1>2, <4>3
        <5>2. Find(h, k) = i - 1 /\ luaH_get(h, k) = h.array[i]
          BY <4>1, <5>1, ArrayGet
        <5> QED
          BY <1>7, <4>2, <4>3, <5>1, <5>2
      <4>4. CASE ~(i <= kept)
        <5>1. Find(h, k) \notin 0..(kept - 1)
          <6>1. SUFFICES ASSUME Find(h, k) \in 0..(kept - 1) PROVE FALSE
            OBVIOUS
          <6>2. Find(h, k) # NULL /\ Find(h, k) < sizearray(h) /\ Find(h, k) \in Entries(h)
            BY <1>1, <1>2, <6>1 DEF NULL, Entries
          <6>3. k = Number(Find(h, k) + 1)
            BY <1>1, <6>2, FindIs, EntryKinds
          <6>4. Find(h, k) + 1 = i
            BY <4>1, <6>3 DEF Number
          <6> QED
            BY <1>2, <4>4, <6>1, <6>4
        <5> QED
          BY <1>7, <4>2, <4>4, <5>1
      <4> QED
        BY <4>3, <4>4
    <3>2. CASE ~\E i \in 1..nasize : k = Number(i)
      <4>1. Find(fresh, k) = NULL
        <5>1. k # Nil
          BY KeyAssumption
        <5> QED
          BY <1>8, <1>9, <3>2, <5>1, GetFrom DEF Fresh
      <4>2. luaH_get(fresh, k) = Nil
        BY <4>1, GetIs
      <4>3. Find(h, k) \notin 0..(kept - 1)
        <5>1. SUFFICES ASSUME Find(h, k) \in 0..(kept - 1) PROVE FALSE
          OBVIOUS
        <5>2. Find(h, k) # NULL /\ Find(h, k) < sizearray(h) /\ Find(h, k) \in Entries(h)
          BY <1>1, <1>2, <5>1 DEF NULL, Entries
        <5>3. k = Number(Find(h, k) + 1)
          BY <1>1, <5>2, FindIs, EntryKinds
        <5>4. Find(h, k) + 1 \in 1..nasize
          BY <1>2, <5>1
        <5> QED
          BY <3>2, <5>3, <5>4
      <4> QED
        BY <4>2, <4>3
    <3> QED
      BY <3>1, <3>2
  <2> QED
    BY <2>1 DEF HasFields
<1> DEFINE Done(i) == 0..(kept - 1) \cup {Old(j) : j \in 1..i}
           S == {g \in AnyTable : Sound(g) /\ sizearray(g) = nasize /\ HasRoom(g, K)}
           L == [i \in 0..M |-> {g \in S : HasFields(g, h, Done(i))}]
           step == [p \in S \X (1..M) |-> Reinsert(h, Old(p[2]), p[1])]
<1> HIDE DEF M, vanishing
<1>11. L \in [0..M -> SUBSET S]
  OBVIOUS
<1>12. fresh \in L[0]
  <2>1. fresh \in S
    BY <1>9, SoundType
  <2>2. Done(0) = 0..(kept - 1)
    OBVIOUS
  <2>3. 0 \in 0..M
    BY <1>4
  <2> QED
    BY <1>10, <2>1, <2>2, <2>3
<1>13. ASSUME NEW i \in 1..M, NEW g \in L[i - 1]
       PROVE  step[<<g, i>>] = Reinsert(h, Old(i), g) /\ step[<<g, i>>] \in L[i]
  <2> DEFINE e == Old(i)
             r == Reinsert(h, e, g)
  <2>1. i - 1 \in 0..M /\ i \in 0..M
    BY <1>4
  <2>2. g \in S /\ HasFields(g, h, Done(i - 1))
    BY <2>1
  <2>3. step[<<g, i>>] = r
    BY <2>2
  <2>4. e \in Entries(h)
    BY <1>5
  <2>5. Done(i) = Done(i - 1) \cup {e}
    <3>1. 1..i = 1..(i - 1) \cup {i}
      BY <1>4
    <3> QED
      BY <3>1
  <2> HIDE DEF e, Done, Old, step
  <2>6. ValAt(h, e) # Nil => KeyAt(h, e) \in K \/ InArray(g, KeyAt(h, e))
    <3>1. SUFFICES ASSUME ValAt(h, e) # Nil, KeyAt(h, e) \notin K PROVE InArray(g, KeyAt(h, e))
      OBVIOUS
    <3>2. \E j \in 1..sizearray(g) : KeyAt(h, e) = Number(j)
      BY <2>2, <2>4, <3>1
    <3>3. KeyAt(h, e) \in Key
      BY <2>4, <3>1, UsedKey
    <3> QED
      BY <3>2, <3>3, InArrayIs
  <2>7. /\ Sound(r) /\ HasRoom(r, K) /\ sizearray(r) = nasize
        /\ \A k \in Key : luaH_get(r, k) =
              IF ValAt(h, e) # Nil /\ k = KeyAt(h, e) THEN ValAt(h, e) ELSE luaH_get(g, k)
    BY <2>2, <2>4, <2>6, ReinsertSpec
  <2> HIDE DEF r
  <2>8. HasFields(r, h, Done(i))
    BY <2>2, <2>4, <2>5, <2>7, OneMoreField
  <2>9. r \in S
    BY <2>7, SoundType
  <2>10. r \in L[i]
    BY <2>1, <2>8, <2>9
  <2> QED
    BY <2>3, <2>10 DEF e, r
<1> HIDE DEF step, L, S, Old, Done
<1>14. IsLoop(M, S, L, fresh, step)
  BY <1>4, <1>11, <1>12, <1>13 DEF IsLoop
<1>15. IsTable(table)
  <2>1. PICK f \in [0..M -> S] :
           \A i \in 0..M : f[i] \in L[i] /\ f[i] = IF i = 0 THEN fresh ELSE step[<<f[i - 1], i>>]
    BY <1>14, LoopKeeps
  <2>2. ASSUME NEW i \in 0..M PROVE f[i] = IF i = 0 THEN fresh ELSE Reinsert(h, Old(i), f[i - 1])
    <3>1. CASE i = 0
      BY <2>1, <3>1
    <3>2. CASE i # 0
      <4>1. i \in 1..M /\ i - 1 \in 0..M
        BY <1>4, <3>2
      <4> QED
        BY <1>13, <2>1, <3>2, <4>1
    <3> QED
      BY <3>1, <3>2
  <2>3. IsTable(f)
    BY <2>1, <2>2
  <2> HIDE DEF IsTable
  <2> QED
    BY <2>3
<1> HIDE DEF table
<1>16. \A i \in 0..M : table[i] \in L[i]
  <2>1. table[0] = fresh
    <3>1. 0 \in 0..M
      BY <1>4
    <3> QED
      BY <1>15, <3>1
  <2>2. ASSUME NEW i \in 1..M, table[i - 1] \in L[i - 1]
        PROVE  table[i] = step[<<table[i - 1], i>>]
    <3>1. i \in 0..M /\ i # 0
      BY <1>4
    <3>2. table[i] = Reinsert(h, Old(i), table[i - 1])
      BY <1>15, <3>1
    <3> QED
      BY <1>13, <2>2, <3>2
  <2> QED
    BY <1>14, <2>1, <2>2, LoopIsKept
<1>17. table[M] \in S /\ HasFields(table[M], h, Done(M))
  <2>1. M \in 0..M
    BY <1>4
  <2> QED
    BY <1>16, <2>1 DEF L
<1>18. Entries(h) \subseteq Done(M)
  <2>1. ASSUME NEW e \in Entries(h) PROVE e \in Done(M)
    <3>1. CASE e >= kept
      BY <1>6, <3>1 DEF Done, Old, M, vanishing
    <3>2. CASE ~(e >= kept)
      BY <1>2, <3>2 DEF Done, Entries
    <3> QED
      BY <3>1, <3>2
  <2> QED
    BY <2>1
<1>19. \A k \in Key : luaH_get(table[M], k) = luaH_get(h, k)
  BY <1>17, <1>18, FindIs, GetIs DEF HasFields
<1> QED
  BY <1>3, <1>17, <1>19 DEF S, Resized

-----------------------------------------------------------------------------
(* rehash()                                                                *)

Used(h) == UsedArray(h) \cup UsedHash(h)

\* The keys that have a value.
LEMMA UsedIs ==
    ASSUME NEW h, Sound(h)
    PROVE  /\ Used(h) \in SUBSET Key /\ IsFiniteSet(Used(h))
           /\ \A e \in Entries(h) : ValAt(h, e) # Nil => KeyAt(h, e) \in Used(h)
<1> DEFINE E == {e \in Entries(h) : ValAt(h, e) # Nil}
           f == [e \in E |-> KeyAt(h, e)]
<1>1. /\ sizearray(h) \in Nat /\ sizenode(h) \in Nat /\ sizenode(h) >= 1
      /\ Size(h) = sizearray(h) + sizenode(h)
  BY SoundType
<1>2. Entries(h) = 0..(sizearray(h) - 1) \cup sizearray(h)..(Size(h) - 1)
  BY <1>1 DEF Entries
<1>3. Used(h) = {KeyAt(h, e) : e \in E}
  BY <1>2 DEF Used, UsedArray, UsedHash
<1>4. IsFiniteSet(E)
  <2>1. IsFiniteSet(Entries(h))
    BY <1>1, FS_Interval DEF Entries
  <2> QED
    BY <2>1, FS_Subset
<1>5. f \in Surjection(E, Used(h))
  BY <1>3 DEF Surjection
<1> HIDE DEF E, f
<1>6. IsFiniteSet(Used(h))
  BY <1>4, <1>5, FS_Surjection
<1> QED
  BY <1>3, <1>6, UsedKey DEF E

\* What the array part is for.
LEMMA SizesAre ==
    ASSUME NEW U \in SUBSET Key
    PROVE  LET sizes == computesizes(Countable(U))
           IN  /\ sizes.size \in Nat
               /\ sizes.used = Cardinality({k \in Countable(U) : k <= sizes.size})
<1> DEFINE ints == Countable(U)
           Upto(n) == Cardinality({k \in ints : k <= n})
           fit == {i \in 0..MAXBITS :
                     /\ twoto[i] \div 2 < Cardinality(ints)
                     /\ \E k \in ints : ceillog2(k) = i
                     /\ Upto(twoto[i]) > twoto[i] \div 2}
<1>1. MAXBITS \in Nat /\ twoto[MAXBITS] \in Nat
  BY TableAssumption, TwotoIs
<1>2. \A k \in ints : k \in Int /\ k >= 1
  BY <1>1 DEF Countable
<1>3. CASE fit = {}
  <2>1. computesizes(ints) = [size |-> 0, used |-> 0]
    BY <1>3 DEF computesizes
  <2>2. {k \in ints : k <= 0} = {}
    BY <1>2
  <2> QED
    BY <2>1, <2>2, FS_EmptySet
<1>4. CASE fit # {}
  <2>1. computesizes(ints) = [size |-> twoto[Max(fit)], used |-> Upto(twoto[Max(fit)])]
    BY <1>4 DEF computesizes
  <2>2. fit \in SUBSET (0..MAXBITS)
    OBVIOUS
  <2> HIDE DEF fit
  <2>3. Max(fit) \in 0..MAXBITS
    BY <1>1, <1>4, <2>2, MaxOf
  <2>4. twoto[Max(fit)] \in Nat
    BY <1>1, <2>3, TwotoIs
  <2> QED
    BY <2>1, <2>4
<1> QED
  BY <1>3, <1>4

\* The integers among some keys, and the keys.
LEMMA AsManyIntegers ==
    ASSUME NEW U \in SUBSET Key, IsFiniteSet(U), NEW size \in Nat
    PROVE  LET A == {q \in U : IsInteger(q) /\ q[2] \in 1..twoto[MAXBITS] /\ q[2] <= size}
               C == {k \in Countable(U) : k <= size}
           IN  IsFiniteSet(A) /\ Cardinality(A) = Cardinality(C)
<1> DEFINE A == {q \in U : IsInteger(q) /\ q[2] \in 1..twoto[MAXBITS] /\ q[2] <= size}
           C == {k \in Countable(U) : k <= size}
           f == [q \in A |-> q[2]]
<1>1. IsFiniteSet(A)
  BY FS_Subset
<1>2. C = {q[2] : q \in A}
  BY DEF Countable
<1>3. \A p, q \in A : p[2] = q[2] => p = q
  BY KeyAssumption DEF IsInteger
<1>4. f \in Bijection(A, C)
  <2>1. f \in [A -> C] /\ \A q \in A : f[q] = q[2]
    BY <1>2
  <2>2. f \in Injection(A, C)
    BY <1>3, <2>1 DEF Injection, IsInjective
  <2>3. f \in Surjection(A, C)
    BY <1>2, <2>1 DEF Surjection
  <2> QED
    BY <2>2, <2>3 DEF Bijection
<1> HIDE DEF A, C, f
<1>5. ExistsBijection(A, C)
  BY <1>4 DEF ExistsBijection
<1>6. Cardinality(C) = Cardinality(A)
  BY <1>1, <1>5, FS_Bijection
<1> QED
  BY <1>1, <1>6 DEF A, C

\* rehash() makes room for the key.
LEMMA RehashSpec ==
    ASSUME NEW h, Sound(h), NEW ek \in Key
    PROVE  \E nasize \in Nat, K \in SUBSET Key :
              /\ Resized(rehash(h, ek), h, nasize, K)
              /\ ek \in K \/ \E i \in 1..nasize : ek = Number(i)
<1> DEFINE U == Used(h) \cup {ek}
           sizes == computesizes(Countable(U))
           size == sizes.size
           A == {q \in U : IsInteger(q) /\ q[2] \in 1..twoto[MAXBITS] /\ q[2] <= size}
           K == U \ A
           C == {k \in Countable(U) : k <= size}
<1>1. rehash(h, ek) = resize(h, sizes.size, Cardinality(U) - sizes.used)
  BY DEF rehash, Used
<1>2. /\ U \in SUBSET Key /\ IsFiniteSet(U)
      /\ \A e \in Entries(h) : ValAt(h, e) # Nil => KeyAt(h, e) \in U
  BY UsedIs, FS_AddElement
<1> HIDE DEF U
<1>3. size \in Nat /\ sizes.used = Cardinality(C)
  BY <1>2, SizesAre
<1> HIDE DEF sizes, size
<1>4. IsFiniteSet(A) /\ Cardinality(A) = Cardinality(C)
  BY <1>2, <1>3, AsManyIntegers
<1>5. A \subseteq U /\ \A q \in A : \E i \in 1..size : q = Number(i)
  <2>1. ASSUME NEW q \in A PROVE q[2] \in 1..size /\ q = Number(q[2])
    <3>1. twoto[MAXBITS] \in Int
      BY TableAssumption, TwotoIs
    <3> QED
      BY <1>2, <1>3, <3>1, KeyAssumption DEF IsInteger, Number
  <2> QED
    BY <2>1
<1> HIDE DEF A, C
<1>6. IsFiniteSet(K) /\ Cardinality(K) = Cardinality(U) - Cardinality(A)
  <2>1. U \cap A = A
    BY <1>5
  <2> QED
    BY <1>2, <2>1, FS_Difference
<1>7. Cardinality(K) = Cardinality(U) - sizes.used /\ Cardinality(K) \in Nat
  BY <1>3, <1>4, <1>6, FS_CardinalityType
<1>8. K \in SUBSET Key
  BY <1>2
<1>9. \A q \in U : q \in K \/ \E i \in 1..size : q = Number(i)
  BY <1>5
<1> HIDE DEF K
<1>10. Resized(resize(h, size, Cardinality(K)), h, size, K)
  BY <1>2, <1>3, <1>6, <1>7, <1>8, <1>9, ResizeSpec
<1>11. ek \in U
  BY DEF U
<1> QED
  BY <1>1, <1>3, <1>7, <1>8, <1>9, <1>10, <1>11 DEF size

-----------------------------------------------------------------------------
(* luaH_set()                                                              *)

\* A table with the fields of another, and a place for the key.
Ready(h, g, key) ==
    /\ Sound(g) /\ Find(g, key) # NULL
    /\ \A k \in Key : luaH_get(g, k) = luaH_get(h, k)

\* newkey() makes a place for the key, and changes no field.
LEMMA NewKeySpec ==
    ASSUME NEW h, Sound(h), NEW key \in Key, Find(h, key) = NULL
    PROVE  Ready(h, newkey(h, key), key)
<1>1. CASE IsFull(h, key)
  <2> DEFINE g == rehash(h, key)
             r == luaH_set_Room(g, key)
  <2>1. PICK nasize \in Nat, K \in SUBSET Key :
           Resized(g, h, nasize, K) /\ (key \in K \/ \E i \in 1..nasize : key = Number(i))
    BY RehashSpec
  <2> HIDE DEF g
  <2>2. Sound(g) /\ HasRoom(g, K) /\ (key \in K \/ InArray(g, key))
    BY <2>1, InArrayIs DEF Resized
  <2>3. WithPlace(g, r, key)
    BY <2>2, SetRoom
  <2>4. newkey(h, key) = r
    BY <1>1 DEF newkey, g
  <2> QED
    BY <2>1, <2>3, <2>4 DEF Ready, WithPlace, Resized
<1>2. CASE ~IsFull(h, key)
  <2>1. Placed(h, newkey(h, key), key)
    BY <1>2, PlaceSound DEF newkey
  <2> QED
    BY <2>1 DEF Placed, Ready
<1> QED
  BY <1>1, <1>2

\* An assignment changes one field, and no node when the field is there.
LEMMA AssignedSpec ==
    ASSUME NEW h, Sound(h), NEW key \in Key, NEW v \in Value \cup {Nil}
    PROVE  /\ Sound(Assigned(h, key, v))
           /\ \A k \in Key : luaH_get(Assigned(h, key, v), k) = IF k = key THEN v ELSE luaH_get(h, k)
           /\ Find(h, key) # NULL => SameNodes(Assigned(h, key, v), h)
<1> DEFINE g == luaH_set(h, key)
           r == PutAt(g, Find(g, key), v)
<1>1. Assigned(h, key, v) = r
  BY DEF Assigned
<1>2. Ready(h, g, key)
  BY NewKeySpec DEF luaH_set, Ready
<1>3. Find(h, key) # NULL => g = h
  BY DEF luaH_set
<1> HIDE DEF g
<1>4. Sound(g) /\ Find(g, key) \in Entries(g) /\ KeyAt(g, Find(g, key)) = key
  BY <1>2, FindIs DEF Ready
<1>5. /\ Sound(r) /\ SameNodes(r, g)
      /\ \A k \in Key : luaH_get(r, k) = IF k = key THEN v ELSE luaH_get(g, k)
  BY <1>4, PutAtSound
<1> QED
  BY <1>1, <1>2, <1>3, <1>5 DEF Ready

\* The array part of a constructor.
LEMMA ResizeArraySpec ==
    ASSUME NEW h, Sound(h), NEW n \in Nat, n >= sizearray(h)
    PROVE  /\ Sound(luaH_resizearray(h, n))
           /\ \A k \in Key : luaH_get(luaH_resizearray(h, n), k) = luaH_get(h, k)
<1> DEFINE K == UsedHash(h)
           nhsize == IF h.dummy THEN 0 ELSE sizenode(h)
           E == {e \in sizearray(h)..(Size(h) - 1) : ValAt(h, e) # Nil}
           I == sizearray(h)..(Size(h) - 1)
           f == [e \in E |-> KeyAt(h, e)]
<1>1. /\ h \in AnyTable /\ sizearray(h) \in Nat /\ sizenode(h) \in Nat /\ sizenode(h) >= 1
      /\ Size(h) = sizearray(h) + sizenode(h)
  BY SoundType
<1>2. K \in SUBSET Key
  BY UsedIs DEF Used
<1>3. IsFiniteSet(I) /\ Cardinality(I) = sizenode(h)
  <2> DEFINE a == sizearray(h)
             b == Size(h) - 1
  <2>1. a \in Int /\ b \in Int /\ ~(a > b) /\ b - a + 1 = sizenode(h)
    BY <1>1
  <2> HIDE DEF a, b
  <2>2. IsFiniteSet(a..b) /\ Cardinality(a..b) = IF a > b THEN 0 ELSE b - a + 1
    BY <2>1, FS_Interval
  <2> QED
    BY <2>1, <2>2 DEF a, b
<1>4. IsFiniteSet(E) /\ Cardinality(E) <= sizenode(h)
  <2>1. E \in SUBSET I
    OBVIOUS
  <2> HIDE DEF E, I
  <2> QED
    BY <1>3, <2>1, FS_Subset
<1>5. f \in Surjection(E, K)
  BY DEF Surjection, UsedHash
<1>6. h.dummy => K = {}
  <2>1. SUFFICES ASSUME h.dummy, NEW e \in I PROVE ValAt(h, e) = Nil
    BY DEF UsedHash
  <2>2. e - sizearray(h) \in Nodes(h) /\ ValAt(h, e) = gnode(h, e - sizearray(h)).val
    BY <1>1, EntryKinds DEF Entries
  <2>3. h.node = <<EmptyNode>>
    BY <2>1 DEF Sound, Empty
  <2>4. \A m \in Nodes(h) : gnode(h, m) = EmptyNode
    BY <2>3 DEF Nodes, gnode, sizenode
  <2> QED
    BY <2>2, <2>4 DEF EmptyNode
<1>7. ASSUME NEW e \in Entries(h), ValAt(h, e) # Nil
      PROVE  KeyAt(h, e) \in K \/ \E i \in 1..n : KeyAt(h, e) = Number(i)
  <2>1. CASE e < sizearray(h)
    <3>1. e + 1 \in 1..n /\ KeyAt(h, e) = Number(e + 1)
      BY <1>1, <2>1, EntryKinds DEF Entries
    <3> QED
      BY <3>1
  <2>2. CASE ~(e < sizearray(h))
    <3>1. e \in sizearray(h)..(Size(h) - 1)
      BY <1>1, <2>2 DEF Entries
    <3> QED
      BY <1>7, <3>1 DEF UsedHash
  <2> QED
    BY <2>1, <2>2
<1> HIDE DEF K, E, f
<1>8. IsFiniteSet(K) /\ Cardinality(K) <= Cardinality(E)
  BY <1>4, <1>5, FS_Surjection
<1>9. Cardinality(K) <= nhsize /\ nhsize \in Nat
  <2>1. Cardinality(E) \in Nat /\ Cardinality(K) \in Nat /\ Cardinality({}) = 0
    BY <1>4, <1>8, FS_CardinalityType, FS_EmptySet
  <2> QED
    BY <1>1, <1>4, <1>6, <1>8, <2>1
<1>10. luaH_resizearray(h, n) = resize(h, n, nhsize)
  BY DEF luaH_resizearray
<1> HIDE DEF nhsize
<1>11. Resized(resize(h, n, nhsize), h, n, K)
  BY <1>2, <1>7, <1>8, <1>9, ResizeSpec
<1> QED
  BY <1>10, <1>11 DEF Resized

-----------------------------------------------------------------------------
(* The collector.                                                          *)

\* Keys die where they are.
DeadNodes(g, h) ==
    /\ Entries(g) = Entries(h) /\ Nodes(g) = Nodes(h) /\ sizenode(g) = sizenode(h)
    /\ g.array = h.array /\ sizearray(g) = sizearray(h) /\ g.dummy = h.dummy
    /\ Links(g) = Links(h) /\ Vals(g) = Vals(h)
    /\ \A n \in Nodes(h) : Held(g)[n] = IF Dies(gnode(h, n)) THEN Dead(Held(h)[n]) ELSE Held(h)[n]

\* The collector makes some keys dead, and changes nothing else.
LEMMA CollectedNodes ==
    ASSUME NEW h, Sound(h)
    PROVE  Collected(h) \in AnyTable /\ DeadNodes(Collected(h), h) /\ Collected(h).lastfree = h.lastfree
<1> DEFINE new(node) == IF Dies(node) THEN [node EXCEPT !.key = Dead(@)] ELSE node
           nodes == [n \in DOMAIN h.node |-> new(h.node[n])]
           g == Collected(h)
<1>1. /\ h \in AnyTable /\ h.node \in Seq(AnyNode) /\ h.array \in Seq(Value \cup {Nil})
      /\ sizenode(h) \in Nat /\ sizenode(h) = Len(h.node) /\ h.lastfree \in Int
  BY SoundType, NodesOf DEF sizenode, AnyTable
<1>2. g = [h EXCEPT !.node = nodes]
  BY DEF Collected
<1>3. \A n \in Nodes(h) : Held(h)[n] = gnode(h, n).key /\ Held(h)[n] \in NodeKeys
                          /\ n + 1 \in 1..Len(h.node) /\ gnode(h, n) = h.node[n + 1]
  BY <1>1, HeldType, NodeAt DEF gnode
<1>4. ASSUME NEW node \in AnyNode, Dies(node) => node.key \in Key
      PROVE  /\ new(node) \in AnyNode /\ new(node).val = node.val /\ new(node).next = node.next
             /\ new(node).key = IF Dies(node) THEN Dead(node.key) ELSE node.key
  BY <1>4 DEF AnyNode, NodeKeys
<1>5. ASSUME NEW n \in DOMAIN h.node
      PROVE  h.node[n] \in AnyNode /\ (Dies(h.node[n]) => h.node[n].key \in Key)
  <2>1. n \in 1..Len(h.node) /\ h.node[n] \in AnyNode
    BY <1>1
  <2>2. \A k \in Key : Dead(k)[1] = "dead"
    BY DEF Dead
  <2> QED
    BY <2>1, <2>2 DEF AnyNode, NodeKeys, Dies, iscollectable
<1> HIDE DEF new
<1>6. /\ nodes \in Seq(AnyNode) /\ Len(nodes) = Len(h.node)
      /\ \A n \in 1..Len(h.node) : nodes[n] = new(h.node[n])
  <2>1. DOMAIN h.node = 1..Len(h.node) /\ Len(h.node) \in Nat
    BY <1>1
  <2>2. \A n \in 1..Len(h.node) : new(h.node[n]) \in AnyNode
    BY <1>4, <1>5, <2>1
  <2>3. nodes = [n \in 1..Len(h.node) |-> new(h.node[n])]
    BY <2>1
  <2> HIDE DEF nodes
  <2> QED
    BY <2>1, <2>2, <2>3
<1> HIDE DEF nodes, g
<1>7. g = [array |-> h.array, node |-> nodes, dummy |-> h.dummy, lastfree |-> h.lastfree]
  BY <1>1, <1>2 DEF AnyTable
<1>8. g \in AnyTable
  BY <1>1, <1>6, <1>7 DEF AnyTable
<1>9. g.array = h.array /\ g.node = nodes /\ g.dummy = h.dummy /\ g.lastfree = h.lastfree
  BY <1>7
<1>10. sizearray(g) = sizearray(h) /\ sizenode(g) = sizenode(h) /\ Nodes(g) = Nodes(h)
       /\ Entries(g) = Entries(h)
  BY <1>1, <1>6, <1>9 DEF sizearray, sizenode, Nodes, Entries, Size
<1>11. ASSUME NEW n \in Nodes(h)
       PROVE  /\ gnode(g, n).val = gnode(h, n).val /\ gnode(g, n).next = gnode(h, n).next
              /\ gnode(g, n).key = IF Dies(gnode(h, n)) THEN Dead(gnode(h, n).key)
                                   ELSE gnode(h, n).key
  <2>1. n + 1 \in 1..Len(h.node) /\ n + 1 \in DOMAIN h.node
    BY <1>1, <1>3
  <2>2. gnode(g, n) = new(h.node[n + 1]) /\ gnode(h, n) = h.node[n + 1]
    BY <1>6, <1>9, <2>1 DEF gnode
  <2> QED
    BY <1>4, <1>5, <2>1, <2>2
<1>12. Links(g) = Links(h) /\ Vals(g) = Vals(h)
       /\ \A n \in Nodes(h) : Held(g)[n] = gnode(g, n).key
  BY <1>10, <1>11 DEF Links, Vals, Held
<1> QED
  BY <1>3, <1>8, <1>9, <1>10, <1>11, <1>12 DEF g, DeadNodes

\* The collector changes no field.
LEMMA CollectedSound ==
    ASSUME NEW h, Sound(h)
    PROVE  /\ Sound(Collected(h)) /\ DeadNodes(Collected(h), h)
           /\ \A k \in Key : luaH_get(Collected(h), k) = luaH_get(h, k)
<1> DEFINE g == Collected(h)
           N == Nodes(h)
           nx == Links(h)
           kf == Held(h)
           kg == Held(g)
           hm == Homes(h)
           dies(n) == Dies(gnode(h, n))
<1>1. g \in AnyTable /\ DeadNodes(g, h) /\ g.lastfree = h.lastfree
  BY CollectedNodes
<1> HIDE DEF g
<1>2. /\ h \in AnyTable /\ Nodes(g) = N /\ Links(g) = nx /\ Homes(g) = hm
      /\ sizenode(g) = sizenode(h) /\ sizearray(g) = sizearray(h)
  BY <1>1, SoundType, SameHomes DEF DeadNodes
<1>3. \A n \in N : kg[n] = IF dies(n) THEN Dead(kf[n]) ELSE kf[n]
  BY <1>1 DEF DeadNodes
<1>4. \A n \in N : kf[n] = gnode(h, n).key /\ Vals(h)[n] = gnode(h, n).val
  BY <1>2, HeldType DEF Vals
<1>5. Shape(N, nx, kf, hm)
  BY SoundType DEF HasShape
<1>6. kf \in [N -> NodeKeys] /\ \A n \in N : dies(n) => kf[n] \in Key /\ Vals(h)[n] = Nil
                                             /\ iscollectable(kf[n])
  <2>1. \A k \in Key : Dead(k)[1] = "dead"
    BY DEF Dead
  <2>2. kf \in [N -> NodeKeys]
    BY <1>5 DEF Shape
  <2> QED
    BY <1>4, <2>1, <2>2 DEF NodeKeys, Dies, iscollectable
<1> HIDE DEF dies
<1>7. \A n \in N : (kg[n] = Nil <=> kf[n] = Nil) /\ Owner(kg[n]) = Owner(kf[n])
  BY <1>3, <1>6, Owners
<1>8. \A n \in N : kg[n] \in Key => kg[n] = kf[n] /\ ~dies(n)
  BY <1>3, <1>6, Owners
<1>9. kg \in [N -> NodeKeys]
  <2>1. kg = [n \in N |-> kg[n]]
    BY <1>2 DEF Held
  <2>2. \A n \in N : kg[n] \in NodeKeys
    BY <1>3, <1>6 DEF NodeKeys
  <2> QED
    BY <2>1, <2>2
<1>10. \A n \in N : kg[n] # Nil => FromHome(N, nx, kg, hm, n)
  <2>1. ASSUME NEW n \in N, kg[n] # Nil PROVE FromHome(N, nx, kg, hm, n)
    <3>1. kf[n] # Nil /\ Owner(kg[n]) = Owner(kf[n]) /\ Owner(kf[n]) \in Key
      BY <1>6, <1>7, <2>1, Owners
    <3>2. FromHome(N, nx, kf, hm, n) /\ hm \in [Key -> N]
      BY <1>5, <3>1 DEF Shape
    <3>3. hm[Owner(kf[n])] \in N
      BY <3>1, <3>2
    <3> QED
      BY <1>7, <3>1, <3>2, <3>3 DEF FromHome
  <2> QED
    BY <2>1
<1>11. \A m, n \in N : kg[m] \in Key /\ kg[m] = kg[n] => m = n
  BY <1>5, <1>8 DEF Shape
<1>12. \A m, n \in N : kg[m] \in Key /\ kg[n] = Dead(kg[m]) => Reach(N, nx, m, n)
  <2>1. ASSUME NEW m \in N, NEW n \in N, kg[m] \in Key, kg[n] = Dead(kg[m])
        PROVE  Reach(N, nx, m, n)
    <3>1. kf[m] = kg[m]
      BY <1>8, <2>1
    <3>2. kf[n] = Dead(kf[m])
      <4>1. SUFFICES ASSUME dies(n) PROVE FALSE
        BY <1>3, <2>1, <3>1
      <4>2. kf[n] \in Key /\ Dead(kf[n]) = Dead(kf[m])
        BY <1>3, <1>6, <2>1, <3>1, <4>1
      <4>3. kf[n] = kf[m]
        BY <2>1, <3>1, <4>2, Owners
      <4>4. m = n
        BY <1>5, <4>2, <4>3 DEF Shape
      <4> QED
        BY <1>8, <2>1, <4>1, <4>4
    <3> QED
      BY <1>5, <2>1, <3>1, <3>2 DEF Shape
  <2> QED
    BY <2>1
<1>13. Shape(N, nx, kg, hm)
  BY <1>5, <1>7, <1>9, <1>10, <1>11, <1>12 DEF Shape
<1>14. Sound(g)
  <2>1. HasShape(g)
    BY <1>2, <1>13 DEF HasShape
  <2>2. Sized(g)
    BY <1>1, <1>2, SoundType DEF Sized
  <2>3. g.dummy => g.node = Empty.node /\ g.lastfree = 0
    <3>1. SUFFICES ASSUME h.dummy PROVE g.node = Empty.node /\ g.lastfree = 0
      BY <1>1 DEF DeadNodes
    <3>2. h.node = <<EmptyNode>> /\ h.lastfree = 0 /\ Empty.node = <<EmptyNode>>
      BY <3>1 DEF Sound, Empty
    <3>3. sizenode(h) = 1 /\ N = {0} /\ gnode(h, 0) = EmptyNode
      BY <3>2 DEF sizenode, Nodes, gnode
    <3>4. kg[0] = Nil /\ Vals(g)[0] = Nil /\ Links(g)[0] = NULL
      <4>1. kf[0] = Nil /\ Vals(h)[0] = Nil /\ nx[0] = NULL
        BY <3>3 DEF Held, Vals, Links, EmptyNode
      <4> QED
        BY <1>1, <1>2, <1>7, <3>3, <4>1 DEF DeadNodes
    <3>5. g.node \in Seq(AnyNode) /\ Len(g.node) = 1
      BY <1>1, <1>2, <3>3, NodesOf DEF sizenode
    <3>6. g.node[1] \in AnyNode /\ g.node[1].key = Nil /\ g.node[1].val = Nil /\ g.node[1].next = NULL
      BY <1>2, <3>3, <3>4, <3>5 DEF Held, Vals, Links, gnode
    <3>7. g.node[1] = EmptyNode
      BY <3>6 DEF AnyNode, EmptyNode
    <3>8. g.node = <<g.node[1]>>
      BY <3>5
    <3> QED
      BY <1>1, <3>2, <3>7, <3>8
  <2>4. ~g.dummy => \A n \in g.lastfree..(sizenode(g) - 1) : kg[n] # Nil
    <3>1. SUFFICES ASSUME ~h.dummy, NEW n \in h.lastfree..(sizenode(h) - 1) PROVE kg[n] # Nil
      BY <1>1, <1>2 DEF DeadNodes
    <3>2. n \in N
      BY <3>1, SoundType DEF Sized, Nodes
    <3> QED
      BY <1>7, <3>1, <3>2 DEF Sound
  <2>5. \A n \in N : Vals(g)[n] = Vals(h)[n] /\ Vals(g)[n] = gnode(g, n).val
    BY <1>1, <1>2 DEF DeadNodes, Vals
  <2>6. \A n \in Nodes(g) : kg[n] \notin Key => gnode(g, n).val = Nil
    BY <1>2, <1>3, <1>4, <1>6, <2>5 DEF Sound
  <2>7. \A k \in Key, n \in Nodes(g) : kg[n] = Dead(k) => iscollectable(k)
    <3>1. ASSUME NEW k \in Key, NEW n \in N, kg[n] = Dead(k) PROVE iscollectable(k)
      <4>1. CASE dies(n)
        <5>1. kf[n] \in Key /\ iscollectable(kf[n]) /\ Dead(kf[n]) = Dead(k)
          BY <1>3, <1>6, <3>1, <4>1
        <5> QED
          BY <5>1, Owners
      <4>2. CASE ~dies(n)
        BY <1>3, <3>1, <4>2 DEF Sound
      <4> QED
        BY <4>1, <4>2
    <3> QED
      BY <1>2, <3>1
  <2>8. \A n \in Nodes(g) : kg[n] \in Key => ~InArray(g, kg[n])
    BY <1>2, <1>8 DEF Sound, InArray
  <2>9. \A i \in 1..sizearray(g) : g.array[i] # Nil => Number(i) \in Key
    BY <1>1, <1>2 DEF Sound, DeadNodes
  <2> QED
    BY <2>1, <2>2, <2>3, <2>4, <2>6, <2>7, <2>8, <2>9 DEF Sound
<1>15. ASSUME NEW k \in Key PROVE luaH_get(g, k) = luaH_get(h, k)
  <2>1. CASE \E i \in 1..sizearray(h) : k = Number(i)
    BY <1>1, <1>2, <1>14, <2>1, ArrayGet DEF DeadNodes
  <2>2. CASE ~\E i \in 1..sizearray(h) : k = Number(i)
    <3>1. Vals(g) = Vals(h)
      BY <1>1 DEF DeadNodes
    <3>2. CASE luaH_get(h, k) # Nil
      <4>1. PICK m \in N : kf[m] = k
        BY <2>2, <3>2, GetIs, GetFrom
      <4>2. Vals(h)[m] = luaH_get(h, k)
        BY <4>1, NodeGet
      <4>3. kg[m] = k
        BY <1>3, <1>6, <3>2, <4>1, <4>2
      <4> QED
        BY <1>2, <1>14, <3>1, <4>2, <4>3, NodeGet
    <3>3. CASE luaH_get(h, k) = Nil /\ luaH_get(g, k) # Nil
      <4>1. PICK n \in N : kg[n] = k
        BY <1>2, <1>14, <2>2, <3>3, GetIs, GetFrom
      <4>2. Vals(g)[n] = luaH_get(g, k) /\ kf[n] = k
        BY <1>2, <1>8, <1>14, <4>1, NodeGet
      <4>3. luaH_get(h, k) = Vals(h)[n]
        BY <4>2, NodeGet
      <4> QED
        BY <3>1, <3>3, <4>2, <4>3
    <3> QED
      BY <3>2, <3>3
  <2> QED
    BY <2>1, <2>2
<1> QED
  BY <1>1, <1>14, <1>15 DEF g

-----------------------------------------------------------------------------
(* The length.                                                             *)

\* An integer that has a value, or 0.
HasValue(h, n) == n = 0 \/ luaH_getnum(h, n) # Nil
Boundary(h, n) == n \in Nat /\ HasValue(h, n) /\ luaH_getnum(h, n + 1) = Nil

\* The binary search ends between an integer that has a value and the next, that has none.
LEMMA BisectSpec ==
    ASSUME NEW h, NEW i \in Nat, NEW j \in Nat, i < j, HasValue(h, i), luaH_getnum(h, j) = Nil
    PROVE  Boundary(h, Bisect(h, i, j))
<1> DEFINE M == j - i
           S == [i : Nat, j : Nat]
           Good(p) == p.i < p.j /\ HasValue(h, p.i) /\ luaH_getnum(h, p.j) = Nil
           L == [n \in 0..M |-> {p \in S : Good(p) /\ (p.j - p.i <= 1 \/ p.j - p.i <= M - n)}]
           s0 == [i |-> i, j |-> j]
           step == [q \in S \X (1..M) |-> Half(h, q[1])]
           IsPart(f) == f = [n \in 0..M |-> IF n = 0 THEN s0 ELSE Half(h, f[n - 1])]
           part == CHOOSE f : IsPart(f)
<1>1. M \in Nat /\ M >= 1
  OBVIOUS
<1>2. Bisect(h, i, j) = part[M].i
  BY DEF Bisect
<1>3. L \in [0..M -> SUBSET S]
  OBVIOUS
<1>4. s0 \in L[0]
  BY <1>1
<1>5. ASSUME NEW n \in 1..M, NEW p \in L[n - 1]
      PROVE  step[<<p, n>>] = Half(h, p) /\ step[<<p, n>>] \in L[n]
  <2> DEFINE m == (p.i + p.j) \div 2
             r == Half(h, p)
  <2>1. n - 1 \in 0..M /\ n \in 0..M /\ n \in Nat
    BY <1>1
  <2>2. p \in S /\ Good(p) /\ (p.j - p.i <= 1 \/ p.j - p.i <= M - n + 1)
    BY <1>1, <2>1
  <2>3. step[<<p, n>>] = r
    BY <2>2
  <2>4. p.i \in Nat /\ p.j \in Nat
    BY <2>2
  <2> HIDE DEF step
  <2>5. CASE p.j - p.i <= 1
    <3>1. r = p
      BY <2>5 DEF Half
    <3> QED
      BY <2>1, <2>2, <2>3, <2>5, <3>1
  <2>6. CASE ~(p.j - p.i <= 1)
    <3>1. p.j - p.i <= M - n + 1
      BY <2>2, <2>6
    <3>2. m \in Nat /\ p.i < m /\ m < p.j
      BY <2>4, <2>6
    <3>3. m # 0
      BY <2>4, <3>2
    <3>4. CASE luaH_getnum(h, m) = Nil
      <4>1. r = [p EXCEPT !.j = m]
        BY <2>6, <3>4 DEF Half
      <4> HIDE DEF r, m, Good
      <4>2. r \in S /\ r.i = p.i /\ r.j = m
        BY <2>2, <3>2, <4>1
      <4>3. Good(r)
        BY <2>2, <3>2, <3>4, <4>2 DEF Good
      <4>4. r.j - r.i <= M - n
        BY <1>1, <2>1, <2>4, <3>1, <3>2, <4>2
      <4> HIDE DEF S, M
      <4>5. r \in L[n]
        BY <2>1, <4>2, <4>3, <4>4
      <4> QED
        BY <2>3, <4>5 DEF r
    <3>5. CASE luaH_getnum(h, m) # Nil
      <4>1. r = [p EXCEPT !.i = m]
        BY <2>6, <3>5 DEF Half
      <4> HIDE DEF r, m, Good
      <4>2. r \in S /\ r.i = m /\ r.j = p.j
        BY <2>2, <3>2, <4>1
      <4>3. Good(r)
        BY <2>2, <3>2, <3>5, <4>2 DEF Good, HasValue
      <4>4. r.j - r.i <= M - n
        BY <1>1, <2>1, <2>4, <3>1, <3>2, <4>2
      <4> HIDE DEF S, M
      <4>5. r \in L[n]
        BY <2>1, <4>2, <4>3, <4>4
      <4> QED
        BY <2>3, <4>5 DEF r
    <3> QED
      BY <3>4, <3>5
  <2> QED
    BY <2>5, <2>6, <2>3
<1> HIDE DEF step, L, S, M, s0
<1>6. IsLoop(M, S, L, s0, step)
  BY <1>1, <1>3, <1>4, <1>5 DEF IsLoop
<1>7. IsPart(part)
  <2>1. PICK f \in [0..M -> S] :
           \A n \in 0..M : f[n] \in L[n] /\ f[n] = IF n = 0 THEN s0 ELSE step[<<f[n - 1], n>>]
    BY <1>6, LoopKeeps
  <2>2. ASSUME NEW n \in 0..M PROVE f[n] = IF n = 0 THEN s0 ELSE Half(h, f[n - 1])
    <3>1. CASE n = 0
      BY <2>1, <3>1
    <3>2. CASE n # 0
      <4>1. n \in 1..M /\ n - 1 \in 0..M
        BY <1>1, <3>2
      <4> QED
        BY <1>5, <2>1, <3>2, <4>1
    <3> QED
      BY <3>1, <3>2
  <2>3. IsPart(f)
    BY <2>1, <2>2
  <2> HIDE DEF IsPart
  <2> QED
    BY <2>3
<1> HIDE DEF part
<1>8. \A n \in 0..M : part[n] \in L[n]
  <2>1. part[0] = s0
    <3>1. 0 \in 0..M
      BY <1>1
    <3> QED
      BY <1>7, <3>1
  <2>2. ASSUME NEW n \in 1..M, part[n - 1] \in L[n - 1] PROVE part[n] = step[<<part[n - 1], n>>]
    <3>1. n \in 0..M /\ n # 0
      BY <1>1
    <3>2. part[n] = Half(h, part[n - 1])
      BY <1>7, <3>1
    <3> QED
      BY <1>5, <2>2, <3>2
  <2> QED
    BY <1>6, <2>1, <2>2, LoopIsKept
<1>9. M \in 0..M
  BY <1>1
<1>10. part[M] \in S /\ Good(part[M]) /\ (part[M].j - part[M].i <= 1 \/ part[M].j - part[M].i <= 0)
  BY <1>1, <1>8, <1>9 DEF L
<1>11. part[M].i \in Nat /\ part[M].j = part[M].i + 1
  BY <1>10 DEF S
<1> QED
  BY <1>2, <1>10, <1>11 DEF Boundary

\* A table has no more integers than entries.
LEMMA SomeIntegerUnset ==
    ASSUME NEW h, Sound(h)
    PROVE  \E n \in 1..(Size(h) + 1) : luaH_getnum(h, n) = Nil
<1> DEFINE N == 1..(Size(h) + 1)
           T == Entries(h)
           f == [n \in N |-> Find(h, Number(n))]
<1>1. SUFFICES ASSUME \A n \in N : luaH_getnum(h, n) # Nil PROVE FALSE
  OBVIOUS
<1>2. Size(h) \in Nat
  BY SoundType
<1>3. ASSUME NEW n \in N
      PROVE  f[n] \in T /\ KeyAt(h, f[n]) = Number(n)
  <2>1. Number(n) \in Key
    BY <1>1, <1>2, NoSuchNumber
  <2>2. Find(h, Number(n)) # NULL
    BY <1>1, <2>1, GetIs DEF luaH_getnum
  <2> QED
    BY <2>1, <2>2, FindIs
<1>4. f \in [N -> T]
  BY <1>3
<1>5. IsFiniteSet(N) /\ Cardinality(N) = Size(h) + 1
  BY <1>2, FS_Interval
<1>6. IsFiniteSet(T) /\ Cardinality(T) = Size(h)
  BY <1>2, FS_Interval DEF Entries
<1>7. Cardinality(T) < Cardinality(N)
  BY <1>2, <1>5, <1>6
<1> HIDE DEF f, N, T
<1>8. \E m, n \in N : m # n /\ f[m] = f[n]
  BY <1>4, <1>5, <1>6, <1>7, FS_PigeonHole
<1> QED
  BY <1>3, <1>8 DEF Number

\* The search one by one ends,
LEMMA LinearSearchSpec ==
    ASSUME NEW h, Sound(h)
    PROVE  Boundary(h, LinearSearch(h))
<1> DEFINE T == {n \in 1..(Size(h) + 1) : luaH_getnum(h, n) = Nil}
<1>1. Size(h) \in Nat
  BY SoundType
<1>2. T \in SUBSET Nat /\ T # {}
  BY <1>1, SomeIntegerUnset
<1>3. LinearSearch(h) = Min(T) - 1
  BY DEF LinearSearch
<1> HIDE DEF T
<1>4. Min(T) \in T /\ \A k \in T : Min(T) <= k
  BY <1>2, MinOf
<1> DEFINE n == Min(T) - 1
<1>5. n \in Nat /\ n + 1 \in T /\ n \notin T /\ n <= Size(h)
  BY <1>1, <1>4 DEF T
<1> HIDE DEF n
<1>6. n = 0 \/ n \in 1..(Size(h) + 1)
  BY <1>1, <1>5
<1> QED
  BY <1>3, <1>5, <1>6 DEF n, T, Boundary, HasValue

\* and so does the one that doubles j.
LEMMA UnboundSearchSpec ==
    ASSUME NEW h, Sound(h), NEW j \in Nat, HasValue(h, j)
    PROVE  Boundary(h, unbound_search(h, j))
<1> DEFINE Probe(k) == (j + 1) * twoto[k]
           unset == {k \in 0..MAX_INT : /\ k = 0 \/ Probe(k) <= MAX_INT
                                        /\ luaH_getnum(h, Probe(k)) = Nil}
<1>1. CASE unset = {}
  BY <1>1, LinearSearchSpec DEF unbound_search
<1>2. CASE unset # {}
  <2>1. MAX_INT \in Nat
    BY TableAssumption
  <2>2. unset \in SUBSET Nat
    BY <2>1
  <2> DEFINE m == Min(unset)
  <2>3. m \in unset /\ \A k \in unset : m <= k
    BY <1>2, <2>2, MinOf
  <2>4. unbound_search(h, j) = IF m = 0 THEN j ELSE Bisect(h, Probe(m - 1), Probe(m))
    BY <1>2 DEF unbound_search
  <2> HIDE DEF m
  <2>5. m \in 0..MAX_INT /\ luaH_getnum(h, Probe(m)) = Nil /\ (m = 0 \/ Probe(m) <= MAX_INT)
    BY <2>3
  <2>6. CASE m = 0
    <3>1. Probe(m) = j + 1
      BY <2>6, TwotoIs
    <3> QED
      BY <2>4, <2>5, <2>6, <3>1 DEF Boundary
  <2>7. CASE m # 0
    <3>1. m - 1 \in Nat /\ m \in Nat /\ m - 1 \in 0..MAX_INT
      BY <2>1, <2>5, <2>7
    <3>2. twoto[m] = 2 * twoto[m - 1] /\ twoto[m - 1] \in Nat /\ twoto[m - 1] >= 1
      BY <3>1, TwotoIs
    <3> DEFINE a == Probe(m - 1)
               b == Probe(m)
    <3>3. b = 2 * a /\ a \in Nat /\ a >= 1
      <4> DEFINE x == twoto[m - 1]
      <4>1. x \in Nat /\ x >= 1 /\ twoto[m] = 2 * x
        BY <3>2
      <4> HIDE DEF x
      <4>2. (j + 1) * x \in Nat /\ (j + 1) * x >= 1 /\ (j + 1) * (2 * x) = 2 * ((j + 1) * x)
        BY <4>1
      <4> QED
        BY <4>1, <4>2 DEF x
    <3>4. luaH_getnum(h, a) # Nil
      <4>1. SUFFICES ASSUME luaH_getnum(h, a) = Nil PROVE FALSE
        OBVIOUS
      <4>2. a <= MAX_INT
        BY <2>1, <2>5, <2>7, <3>3
      <4>3. m - 1 \in unset
        BY <3>1, <4>1, <4>2
      <4> QED
        BY <2>3, <2>5, <3>1, <4>3
    <3> HIDE DEF Probe
    <3>5. Boundary(h, Bisect(h, a, b))
      <4>1. HasValue(h, a) /\ luaH_getnum(h, b) = Nil /\ b \in Nat /\ a < b /\ a \in Nat
        BY <2>5, <3>3, <3>4 DEF HasValue
      <4> HIDE DEF a, b
      <4> QED
        BY <4>1, BisectSpec
    <3> QED
      BY <2>4, <2>7, <3>5
  <2> QED
    BY <2>6, <2>7
<1> QED
  BY <1>1, <1>2

\* luaH_getn() finds a boundary.
LEMMA GetnSpec ==
    ASSUME NEW h, Sound(h)
    PROVE  Boundary(h, luaH_getn(h))
<1> DEFINE j == sizearray(h)
<1>1. j \in Nat
  BY SoundType
<1>2. \A i \in 1..j : luaH_getnum(h, i) = h.array[i]
  <2>1. ASSUME NEW i \in 1..j, Number(i) \in Key PROVE luaH_getnum(h, i) = h.array[i]
    BY <2>1, ArrayGet DEF luaH_getnum
  <2>2. ASSUME NEW i \in 1..j, Number(i) \notin Key PROVE luaH_getnum(h, i) = h.array[i]
    <3>1. luaH_getnum(h, i) = Nil
      BY <1>1, <2>2, NoSuchNumber
    <3>2. h.array[i] = Nil
      BY <2>2 DEF Sound
    <3> QED
      BY <3>1, <3>2
  <2> QED
    BY <2>1, <2>2
<1>3. CASE j > 0 /\ h.array[j] = Nil
  <2>1. luaH_getn(h) = Bisect(h, 0, j)
    BY <1>3 DEF luaH_getn
  <2>2. j \in 1..j
    BY <1>1, <1>3
  <2>3. luaH_getnum(h, j) = Nil
    BY <1>2, <1>3, <2>2
  <2> HIDE DEF j
  <2> QED
    BY <1>1, <1>3, <2>1, <2>3, BisectSpec DEF HasValue
<1>4. CASE ~(j > 0 /\ h.array[j] = Nil)
  <2>1. HasValue(h, j)
    <3>1. j = 0 \/ j \in 1..j
      BY <1>1
    <3> QED
      BY <1>1, <1>2, <1>4, <3>1 DEF HasValue
  <2>2. CASE h.dummy
    <3>1. luaH_getn(h) = j
      BY <1>4, <2>2 DEF luaH_getn
    <3>2. luaH_getnum(h, j + 1) = Nil
      <4>1. CASE Number(j + 1) \notin Key
        BY <1>1, <4>1, NoSuchNumber
      <4>2. CASE Number(j + 1) \in Key
        <5>1. \A n \in Nodes(h) : Held(h)[n] = Nil
          BY <2>2 DEF Sound, Empty, Nodes, gnode, sizenode, Held, EmptyNode
        <5>2. Find(h, Number(j + 1)) = NULL
          <6>1. SUFFICES ASSUME Find(h, Number(j + 1)) # NULL PROVE FALSE
            OBVIOUS
          <6>2. Number(j + 1) # Nil
            BY <4>2, KeyAssumption
          <6>3. \E i \in 1..j : Number(i) = Number(j + 1)
            BY <4>2, <5>1, <6>1, <6>2, GetFrom
          <6> QED
            BY <1>1, <6>3 DEF Number
        <5> QED
          BY <4>2, <5>2, GetIs DEF luaH_getnum
      <4> QED
        BY <4>1, <4>2
    <3> QED
      BY <1>1, <2>1, <3>1, <3>2 DEF Boundary
  <2>3. CASE ~h.dummy
    <3>1. luaH_getn(h) = unbound_search(h, j)
      BY <1>4, <2>3 DEF luaH_getn
    <3> QED
      BY <1>1, <2>1, <3>1, UnboundSearchSpec
  <2> QED
    BY <2>2, <2>3
<1> QED
  BY <1>3, <1>4

-----------------------------------------------------------------------------
(* Traversals.                                                             *)

\* The key, or what is left of it when it has died.
Wanted(k) == {k} \cup (IF iscollectable(k) THEN {Dead(k)} ELSE {})

\* findindex() finds the first node that holds the key or its dead form.
LEMMA FindIndexIs ==
    ASSUME NEW h, Sound(h), NEW k \in Key
    PROVE  /\ InArray(h, k) => findindex(h, k) = k[2] - 1
           /\ ~InArray(h, k) =>
                \/ /\ findindex(h, k) = NULL
                   /\ \A x \in Nodes(h) : Held(h)[x] \in Wanted(k)
                         => ~Reach(Nodes(h), Links(h), mainposition(h, k), x)
                \/ \E n : /\ FoundFirst(h, mainposition(h, k), Wanted(k), n)
                          /\ findindex(h, k) = sizearray(h) + n
<1>1. k # Nil
  BY KeyAssumption
<1>2. ~InArray(h, k) => findindex(h, k) = InChain(h, k, Wanted(k))
  BY <1>1 DEF findindex, Wanted
<1>3. InArray(h, k) => findindex(h, k) = k[2] - 1
  BY <1>1 DEF findindex
<1> QED
  BY <1>2, <1>3, SoundType, SearchChain

\* There is one first node.
LEMMA FirstIsOne ==
    ASSUME NEW h, Sound(h), NEW m, NEW keys, NEW x, NEW y,
           FoundFirst(h, m, keys, x), FoundFirst(h, m, keys, y)
    PROVE  x = y
<1>1. x \in Nodes(h) /\ y \in Nodes(h)
      /\ Reach(Nodes(h), Links(h), x, y) /\ Reach(Nodes(h), Links(h), y, x)
  BY DEF FoundFirst
<1>2. IsLink(Nodes(h), Links(h)) /\ Ranked(Nodes(h), Links(h))
  BY DEF Sound, HasShape, Shape
<1> QED
  BY <1>1, <1>2, ReachOneWay

\* The traversal is at the entry of a key that is alive.
LEMMA FindIndexLive ==
    ASSUME NEW h, Sound(h), NEW e \in Entries(h), KeyAt(h, e) \in Key
    PROVE  findindex(h, KeyAt(h, e)) = e
<1> DEFINE k == KeyAt(h, e)
<1>1. e \in Int
  BY SoundType DEF Entries
<1>2. CASE e < sizearray(h)
  <2>1. k = Number(e + 1) /\ e + 1 \in 1..sizearray(h)
    BY <1>2, SoundType, EntryKinds
  <2>2. InArray(h, k)
    BY <2>1, InArrayIs
  <2>3. findindex(h, k) = k[2] - 1 /\ k[2] = e + 1
    BY <2>1, <2>2, FindIndexIs DEF Number
  <2> QED
    BY <1>1, <2>3
<1>3. CASE ~(e < sizearray(h))
  <2> DEFINE n == e - sizearray(h)
             m == mainposition(h, k)
  <2>1. n \in Nodes(h) /\ Held(h)[n] = k /\ e = sizearray(h) + n
    BY <1>3, SoundType, EntryKinds
  <2>2. ~InArray(h, k)
    BY <2>1 DEF Sound
  <2> HIDE DEF n
  <2>3. Shape(Nodes(h), Links(h), Held(h), Homes(h))
    BY DEF Sound, HasShape
  <2>4. Reach(Nodes(h), Links(h), m, n)
    <3>1. Held(h)[n] # Nil /\ Owner(Held(h)[n]) = k
      BY <2>1, Owners
    <3>2. FromHome(Nodes(h), Links(h), Held(h), Homes(h), n)
      BY <2>1, <2>3, <3>1 DEF Shape
    <3> QED
      BY <3>1, <3>2 DEF FromHome, Homes
  <2>5. FoundFirst(h, m, Wanted(k), n)
    <3>1. ASSUME NEW x \in Nodes(h), Held(h)[x] \in Wanted(k) PROVE Reach(Nodes(h), Links(h), n, x)
      <4>1. CASE Held(h)[x] = k
        <5>1. x = n
          BY <2>1, <2>3, <4>1 DEF Shape
        <5> QED
          BY <2>1, <5>1, ReachSelf
      <4>2. CASE Held(h)[x] = Dead(k)
        BY <2>1, <2>3, <4>2 DEF Shape
      <4> QED
        BY <3>1, <4>1, <4>2 DEF Wanted
    <3> QED
      BY <2>1, <2>4, <3>1 DEF FoundFirst, Wanted
  <2>6. PICK x : FoundFirst(h, m, Wanted(k), x) /\ findindex(h, k) = sizearray(h) + x
    <3>1. Held(h)[n] \in Wanted(k)
      BY <2>1 DEF Wanted
    <3> QED
      BY <2>1, <2>2, <2>4, <3>1, FindIndexIs
  <2>7. x = n
    BY <2>5, <2>6, FirstIsOne
  <2> QED
    BY <2>1, <2>6, <2>7
<1> QED
  BY <1>2, <1>3

\* A traversal of g is where one of h is, and nothing is added behind it.
SameOrder(g, h) ==
    /\ Entries(g) = Entries(h)
    /\ \A k \in Key : findindex(g, k) = findindex(h, k)
    /\ \A e \in Entries(h) : ValAt(g, e) # Nil => KeyAt(g, e) = KeyAt(h, e) /\ ValAt(h, e) # Nil

\* A traversal is at the same node when the nodes hold the same keys, dead or alive.
LEMMA SameFirst ==
    ASSUME NEW g, Sound(g), NEW h, Sound(h), NEW k \in Key,
           Nodes(g) = Nodes(h), Links(g) = Links(h), Homes(g) = Homes(h),
           sizearray(g) = sizearray(h),
           \A n \in Nodes(h) : Held(g)[n] \in Wanted(k) <=> Held(h)[n] \in Wanted(k)
    PROVE  findindex(g, k) = findindex(h, k)
<1>1. InArray(g, k) <=> InArray(h, k)
  BY DEF InArray
<1>2. mainposition(g, k) = mainposition(h, k)
  BY DEF Homes
<1>3. CASE InArray(h, k)
  BY <1>1, <1>3, FindIndexIs
<1>4. CASE ~InArray(h, k)
  <2> DEFINE m == mainposition(h, k)
  <2>1. \A n : FoundFirst(g, m, Wanted(k), n) <=> FoundFirst(h, m, Wanted(k), n)
    BY DEF FoundFirst
  <2>2. CASE findindex(h, k) = NULL /\ \A x \in Nodes(h) : Held(h)[x] \in Wanted(k)
                                         => ~Reach(Nodes(h), Links(h), m, x)
    <3>1. ~\E n : FoundFirst(h, m, Wanted(k), n)
      BY <2>2 DEF FoundFirst
    <3> QED
      BY <1>1, <1>2, <1>4, <2>1, <2>2, <3>1, FindIndexIs
  <2>3. CASE \E n : FoundFirst(h, m, Wanted(k), n) /\ findindex(h, k) = sizearray(h) + n
    <3>1. PICK n : FoundFirst(h, m, Wanted(k), n) /\ findindex(h, k) = sizearray(h) + n
      BY <2>3
    <3>2. PICK x : FoundFirst(g, m, Wanted(k), x) /\ findindex(g, k) = sizearray(g) + x
      <4>1. n \in Nodes(h) /\ Held(h)[n] \in Wanted(k) /\ Reach(Nodes(h), Links(h), m, n)
        BY <3>1 DEF FoundFirst
      <4> QED
        BY <1>1, <1>2, <1>4, <4>1, FindIndexIs
    <3>3. x = n
      BY <2>1, <3>1, <3>2, FirstIsOne
    <3> QED
      BY <3>1, <3>2, <3>3
  <2> QED
    BY <1>4, <2>2, <2>3, FindIndexIs
<1> QED
  BY <1>3, <1>4

\* The collector does not disturb a traversal,
LEMMA CollectedOrder ==
    ASSUME NEW h, Sound(h)
    PROVE  SameOrder(Collected(h), h)
<1> DEFINE g == Collected(h)
<1>1. Sound(g) /\ DeadNodes(g, h)
  BY CollectedSound
<1> HIDE DEF g
<1>2. /\ h \in AnyTable /\ g \in AnyTable
      /\ Entries(g) = Entries(h) /\ Nodes(g) = Nodes(h) /\ sizearray(g) = sizearray(h)
      /\ g.array = h.array /\ Links(g) = Links(h) /\ Vals(g) = Vals(h) /\ Homes(g) = Homes(h)
      /\ \A n \in Nodes(h) : Held(g)[n] = IF Dies(gnode(h, n)) THEN Dead(Held(h)[n]) ELSE Held(h)[n]
      /\ \A n \in Nodes(h) : Held(h)[n] = gnode(h, n).key /\ Vals(h)[n] = gnode(h, n).val
                             /\ Held(h)[n] \in NodeKeys
  BY <1>1, SoundType, SameHomes, HeldType DEF DeadNodes, Vals
<1>3. \A k \in Key : Dead(k)[1] = "dead" /\ (iscollectable(k) => ~iscollectable(Dead(k)))
  BY DEF Dead, iscollectable
<1>4. ASSUME NEW k \in Key PROVE findindex(g, k) = findindex(h, k)
  <2>1. ASSUME NEW n \in Nodes(h) PROVE Held(g)[n] \in Wanted(k) <=> Held(h)[n] \in Wanted(k)
    <3>1. CASE ~Dies(gnode(h, n))
      BY <1>2, <3>1
    <3>2. CASE Dies(gnode(h, n))
      <4>1. Held(h)[n] \in Key /\ iscollectable(Held(h)[n]) /\ Held(g)[n] = Dead(Held(h)[n])
        <5>1. \A q \in Key : ~iscollectable(Dead(q))
          BY DEF Dead, iscollectable
        <5> QED
          BY <1>2, <3>2, <5>1 DEF Dies, NodeKeys
      <4>2. Held(h)[n] \in Wanted(k) <=> Held(h)[n] = k
        BY <4>1, Owners DEF Wanted
      <4>3. Held(g)[n] \in Wanted(k) <=> Held(h)[n] = k
        BY <4>1, Owners DEF Wanted
      <4> QED
        BY <4>2, <4>3
    <3> QED
      BY <3>1, <3>2
  <2> QED
    BY <1>1, <1>2, <2>1, SameFirst
<1>5. ASSUME NEW e \in Entries(h), ValAt(g, e) # Nil
      PROVE  KeyAt(g, e) = KeyAt(h, e) /\ ValAt(h, e) # Nil
  <2>1. CASE e < sizearray(h)
    BY <1>2, <1>5, <2>1, EntryKinds
  <2>2. CASE ~(e < sizearray(h))
    <3> DEFINE n == e - sizearray(h)
    <3>1. /\ n \in Nodes(h) /\ KeyAt(h, e) = Held(h)[n] /\ KeyAt(g, e) = Held(g)[n]
          /\ ValAt(h, e) = Vals(h)[n] /\ ValAt(g, e) = Vals(g)[n]
      BY <1>2, <2>2, EntryKinds DEF Vals
    <3> QED
      BY <1>2, <1>5, <3>1 DEF Dies
  <2> QED
    BY <2>1, <2>2
<1> QED
  BY <1>2, <1>4, <1>5 DEF SameOrder, g

\* nor do assignments to fields that are there.
LEMMA AssignedOrder ==
    ASSUME NEW g, Sound(g), NEW h, Sound(h), SameNodes(g, h),
           \A k \in Key : luaH_get(g, k) # Nil => luaH_get(h, k) # Nil
    PROVE  SameOrder(g, h)
<1>1. \A k \in Key : findindex(g, k) = findindex(h, k)
  BY SameFirst DEF SameNodes
<1>2. ASSUME NEW e \in Entries(h), ValAt(g, e) # Nil
      PROVE  KeyAt(g, e) = KeyAt(h, e) /\ ValAt(h, e) # Nil
  <2>1. KeyAt(g, e) = KeyAt(h, e)
    <3>1. CASE e < sizearray(h)
      BY <3>1, SoundType, EntryKinds DEF SameNodes
    <3>2. CASE ~(e < sizearray(h))
      BY <3>2, SoundType, EntryKinds DEF SameNodes
    <3> QED
      BY <3>1, <3>2
  <2>2. e \in Entries(g) /\ KeyAt(g, e) \in Key
    BY <1>2, UsedKey DEF SameNodes
  <2>3. luaH_get(g, KeyAt(g, e)) = ValAt(g, e)
    BY <2>2, GetAt
  <2>4. luaH_get(h, KeyAt(h, e)) = ValAt(h, e)
    BY <2>1, <2>2, GetAt
  <2> QED
    BY <1>2, <2>1, <2>2, <2>3, <2>4
<1> QED
  BY <1>1, <1>2 DEF SameOrder, SameNodes

\* What a traversal has met is what comes up to where it is.
Walked(h, k, met) ==
    /\ met \subseteq Key
    /\ k = Nil \/ (k \in Key /\ findindex(h, k) \in Entries(h))
    /\ \A e \in Entries(h) : ValAt(h, e) # Nil => (KeyAt(h, e) \in met <=> e <= findindex(h, k))

\* A traversal begins,
LEMMA WalkedBegins ==
    ASSUME NEW h, Sound(h)
    PROVE  Walked(h, Nil, {})
<1>1. findindex(h, Nil) = -1
  BY DEF findindex
<1>2. \A e \in Entries(h) : ~(e <= -1)
  BY SoundType DEF Entries
<1> QED
  BY <1>1, <1>2 DEF Walked

\* and goes on in a table of the same order.
LEMMA WalkedSame ==
    ASSUME NEW g, NEW h, SameOrder(g, h), NEW k, NEW met, Walked(h, k, met)
    PROVE  Walked(g, k, met)
<1>1. findindex(g, k) = findindex(h, k)
  <2>1. k = Nil => findindex(g, k) = -1 /\ findindex(h, k) = -1
    BY DEF findindex
  <2> QED
    BY <2>1 DEF Walked, SameOrder
<1> QED
  BY <1>1 DEF Walked, SameOrder

\* A traversal goes on to a field it has not met, or has met them all.
LEMMA NextSpec ==
    ASSUME NEW h, Sound(h), NEW k, NEW met, Walked(h, k, met)
    PROVE  /\ ~InvalidKey(h, k)
           /\ \/ /\ luaH_next(h, k) = Nil
                 /\ \A q \in Key : luaH_get(h, q) # Nil => q \in met
              \/ /\ luaH_next(h, k) \in Key \ met /\ luaH_get(h, luaH_next(h, k)) # Nil
                 /\ Walked(h, luaH_next(h, k), met \cup {luaH_next(h, k)})
<1> DEFINE i == findindex(h, k)
           later == {e \in i + 1 .. Size(h) - 1 : ValAt(h, e) # Nil}
<1>1. Size(h) \in Nat /\ i \in -1..(Size(h) - 1) /\ Entries(h) = 0..(Size(h) - 1)
  BY SoundType DEF Walked, findindex, Entries
<1>2. ~InvalidKey(h, k)
  BY <1>1 DEF Walked, InvalidKey, Entries, NULL
<1>3. later \in SUBSET Nat /\ later \subseteq Entries(h)
  BY <1>1
<1>4. luaH_next(h, k) = IF later = {} THEN Nil ELSE KeyAt(h, Min(later))
  BY DEF luaH_next
<1>5. CASE later = {}
  <2>1. ASSUME NEW q \in Key, luaH_get(h, q) # Nil PROVE q \in met
    <3> DEFINE e == Find(h, q)
    <3>1. e \in Entries(h) /\ KeyAt(h, e) = q /\ ValAt(h, e) # Nil
      BY <2>1, GetIs, FindIs
    <3>2. e <= i
      BY <1>1, <1>5, <3>1
    <3> QED
      BY <3>1, <3>2 DEF Walked
  <2> QED
    BY <1>2, <1>4, <1>5, <2>1
<1>6. CASE later # {}
  <2> DEFINE m == Min(later)
             q == KeyAt(h, m)
  <2>1. m \in later /\ \A e \in later : m <= e
    BY <1>3, <1>6, MinOf
  <2> HIDE DEF m
  <2>2. m \in Entries(h) /\ ValAt(h, m) # Nil /\ i < m
    BY <1>1, <1>3, <2>1
  <2>3. q \in Key
    BY <2>2, UsedKey
  <2>4. luaH_get(h, q) # Nil /\ findindex(h, q) = m
    BY <2>2, <2>3, GetAt, FindIndexLive
  <2>5. q \notin met
    BY <1>1, <2>2 DEF Walked
  <2>6. ASSUME NEW e \in Entries(h), ValAt(h, e) # Nil
        PROVE  KeyAt(h, e) \in met \cup {q} <=> e <= m
    <3>1. KeyAt(h, e) = q <=> e = m
      BY <2>2, <2>3, <2>6, FindAt
    <3>2. KeyAt(h, e) \in met <=> e <= i
      BY <2>6 DEF Walked
    <3>3. e <= i => e <= m
      BY <1>1, <2>2
    <3>4. e <= m /\ e # m => e <= i
      <4>1. SUFFICES ASSUME e <= m, e # m, ~(e <= i) PROVE FALSE
        OBVIOUS
      <4>2. e \in later
        BY <1>1, <2>6, <4>1
      <4> QED
        BY <1>1, <2>1, <2>2, <4>1, <4>2
    <3>5. e = m => e <= m
      BY <1>1
    <3> QED
      BY <3>1, <3>2, <3>3, <3>4, <3>5
  <2>7. Walked(h, q, met \cup {q})
    BY <2>2, <2>3, <2>4, <2>6 DEF Walked
  <2> QED
    BY <1>2, <1>4, <1>6, <2>3, <2>4, <2>5, <2>7 DEF m
<1> QED
  BY <1>5, <1>6

-----------------------------------------------------------------------------
(* Loops of assignments to integers.                                       *)

\* val[i] goes to field to[i], for i = 1..N.
IsFill(h, to, val, N) ==
    /\ Sound(h) /\ N \in Nat
    /\ to \in [1..N -> Int] /\ \A i \in 1..N : Number(to[i]) \in Key
    /\ \A i, j \in 1..N : to[i] = to[j] => i = j
    /\ val \in [1..N -> Value \cup {Nil}]

\* After i assignments; no node has changed when the fields are there.
Filled(g, h, to, val, N, i) ==
    /\ Sound(g)
    /\ \A j \in 1..i : luaH_getnum(g, to[j]) = val[j]
    /\ \A k \in Key : (\A j \in 1..i : k # Number(to[j])) => luaH_get(g, k) = luaH_get(h, k)
    /\ (\A j \in 1..N : luaH_getnum(h, to[j]) # Nil) => SameNodes(g, h)

\* One more assignment.
LEMMA FilledMore ==
    ASSUME NEW h, NEW to, NEW val, NEW N, IsFill(h, to, val, N), NEW i \in 1..N,
           NEW g, Filled(g, h, to, val, N, i - 1)
    PROVE  Filled(rawseti(g, to[i], val[i]), h, to, val, N, i)
<1> DEFINE key == Number(to[i])
           r == rawseti(g, to[i], val[i])
<1>1. N \in Nat /\ i \in Nat /\ 1..i = 1..(i - 1) \cup {i} /\ i \notin 1..(i - 1)
      /\ 1..i \subseteq 1..N /\ key \in Key /\ val[i] \in Value \cup {Nil}
  BY DEF IsFill
<1>2. \A j \in 1..(i - 1) : Number(to[j]) # key /\ Number(to[j]) \in Key
  BY <1>1 DEF IsFill, Number
<1> HIDE DEF key
<1>3. /\ Sound(r)
      /\ \A k \in Key : luaH_get(r, k) = IF k = key THEN val[i] ELSE luaH_get(g, k)
      /\ Find(g, key) # NULL => SameNodes(r, g)
  BY <1>1, AssignedSpec DEF Filled, rawseti, key
<1> HIDE DEF r
<1>4. \A j \in 1..i : luaH_getnum(r, to[j]) = val[j]
  BY <1>1, <1>2, <1>3 DEF Filled, luaH_getnum, key
<1>5. ASSUME NEW k \in Key, \A j \in 1..i : k # Number(to[j])
      PROVE  luaH_get(r, k) = luaH_get(h, k)
  BY <1>1, <1>3, <1>5 DEF Filled, key
<1>6. ASSUME \A j \in 1..N : luaH_getnum(h, to[j]) # Nil PROVE SameNodes(r, h)
  <2>1. luaH_get(g, key) = luaH_get(h, key)
    BY <1>1, <1>2 DEF Filled
  <2>2. luaH_get(h, key) # Nil
    BY <1>6 DEF luaH_getnum, key
  <2>3. Find(g, key) # NULL
    BY <1>1, <2>1, <2>2, GetIs
  <2>4. SameNodes(r, g) /\ SameNodes(g, h)
    BY <1>3, <1>6, <2>3 DEF Filled
  <2> QED
    BY <2>4 DEF SameNodes
<1> QED
  BY <1>3, <1>4, <1>5, <1>6 DEF Filled, r

FillPromise(h, to, val, N) == [i \in 0..N |-> {g \in AnyTable : Filled(g, h, to, val, N, i)}]
FillStep(to, val, N) == [p \in AnyTable \X (1..N) |-> rawseti(p[1], to[p[2]], val[p[2]])]

\* The loop keeps the promise,
LEMMA FillLoop ==
    ASSUME NEW h, NEW to, NEW val, NEW N, IsFill(h, to, val, N)
    PROVE  IsLoop(N, AnyTable, FillPromise(h, to, val, N), h, FillStep(to, val, N))
<1> DEFINE L == FillPromise(h, to, val, N)
           step == FillStep(to, val, N)
<1>1. N \in Nat /\ 0 \in 0..N
  BY DEF IsFill
<1>2. L \in [0..N -> SUBSET AnyTable]
  BY DEF FillPromise
<1>3. h \in L[0]
  <2>1. Sound(h) /\ h \in AnyTable
    BY SoundType DEF IsFill
  <2>2. 1..0 = {}
    OBVIOUS
  <2>3. Filled(h, h, to, val, N, 0)
    BY <2>1, <2>2 DEF Filled, SameNodes
  <2> QED
    BY <1>1, <2>1, <2>3 DEF FillPromise
<1>4. ASSUME NEW i \in 1..N, NEW g \in L[i - 1] PROVE step[<<g, i>>] \in L[i]
  <2>1. i - 1 \in 0..N /\ i \in 0..N
    BY <1>1
  <2>2. g \in AnyTable /\ Filled(g, h, to, val, N, i - 1)
    BY <2>1 DEF FillPromise
  <2>3. step[<<g, i>>] = rawseti(g, to[i], val[i])
    BY <2>2 DEF FillStep
  <2>4. Filled(rawseti(g, to[i], val[i]), h, to, val, N, i)
    BY <2>2, FilledMore
  <2>5. rawseti(g, to[i], val[i]) \in AnyTable
    BY <2>4, SoundType DEF Filled
  <2> QED
    BY <2>1, <2>3, <2>4, <2>5 DEF FillPromise
<1> HIDE DEF L, step
<1>5. IsLoop(N, AnyTable, L, h, step)
  BY <1>1, <1>2, <1>3, <1>4 DEF IsLoop
<1> QED
  BY <1>5 DEF L, step

\* it runs,
LEMMA FillRuns ==
    ASSUME NEW h, NEW to, NEW val, NEW N, IsFill(h, to, val, N)
    PROVE  \E f \in [0..N -> AnyTable] :
              /\ f[0] = h
              /\ \A i \in 1..N : f[i] = rawseti(f[i - 1], to[i], val[i])
              /\ \A i \in 0..N : Filled(f[i], h, to, val, N, i)
<1>1. N \in Nat /\ 0 \in 0..N
  BY DEF IsFill
<1>2. PICK f \in [0..N -> AnyTable] :
         \A i \in 0..N : /\ f[i] \in FillPromise(h, to, val, N)[i]
                         /\ f[i] = IF i = 0 THEN h ELSE FillStep(to, val, N)[<<f[i - 1], i>>]
  BY FillLoop, LoopKeeps
<1>3. \A i \in 0..N : Filled(f[i], h, to, val, N, i)
  BY <1>2 DEF FillPromise
<1>4. ASSUME NEW i \in 1..N PROVE f[i] = rawseti(f[i - 1], to[i], val[i])
  <2>1. i \in 0..N /\ i # 0 /\ i - 1 \in 0..N
    BY <1>1
  <2>2. f[i] = FillStep(to, val, N)[<<f[i - 1], i>>] /\ f[i - 1] \in AnyTable
    BY <1>2, <2>1
  <2> QED
    BY <2>2 DEF FillStep
<1>5. f[0] = h
  BY <1>1, <1>2
<1> QED
  BY <1>3, <1>4, <1>5

\* and every run of its steps ends as promised.
LEMMA FillIsKept ==
    ASSUME NEW h, NEW to, NEW val, NEW N, IsFill(h, to, val, N), NEW f, f[0] = h,
           \A i \in 1..N : Filled(f[i - 1], h, to, val, N, i - 1)
                              => f[i] = rawseti(f[i - 1], to[i], val[i])
    PROVE  Filled(f[N], h, to, val, N, N)
<1> DEFINE L == FillPromise(h, to, val, N)
<1>1. N \in Nat
  BY DEF IsFill
<1>2. ASSUME NEW i \in 1..N, f[i - 1] \in L[i - 1]
      PROVE  f[i] = FillStep(to, val, N)[<<f[i - 1], i>>]
  <2>1. i - 1 \in 0..N
    BY <1>1
  <2>2. f[i - 1] \in AnyTable /\ Filled(f[i - 1], h, to, val, N, i - 1)
    BY <1>2, <2>1 DEF FillPromise
  <2> QED
    BY <2>2 DEF FillStep
<1>3. \A i \in 0..N : f[i] \in L[i]
  <2> HIDE DEF L
  <2>1. IsLoop(N, AnyTable, L, h, FillStep(to, val, N))
    BY FillLoop DEF L
  <2> QED
    BY <1>2, <2>1, LoopIsKept
<1>4. N \in 0..N
  BY <1>1
<1> QED
  BY <1>3, <1>4 DEF FillPromise

\* g has new values for the integers of D, and the other fields of h.
HasNew(g, h, D, new) ==
    /\ Sound(g)
    /\ \A n \in D : luaH_getnum(g, n) = new[n]
    /\ \A k \in Key : (\A n \in D : k # Number(n)) => luaH_get(g, k) = luaH_get(h, k)

\* After the loop the integers have their new values.
LEMMA FilledIsNew ==
    ASSUME NEW h, NEW to, NEW val, NEW N, IsFill(h, to, val, N), NEW g,
           Filled(g, h, to, val, N, N), NEW new, \A i \in 1..N : new[to[i]] = val[i]
    PROVE  HasNew(g, h, {to[i] : i \in 1..N}, new)
<1> DEFINE D == {to[i] : i \in 1..N}
<1>1. \A n \in D : luaH_getnum(g, n) = new[n]
  BY DEF Filled
<1>2. ASSUME NEW k \in Key, \A n \in D : k # Number(n) PROVE luaH_get(g, k) = luaH_get(h, k)
  BY <1>2 DEF Filled
<1> QED
  BY <1>1, <1>2 DEF HasNew, Filled

\* OP_SETLIST puts the values of the list at 1, 2, 3 and so on.
LEMMA ListedSpec ==
    ASSUME NEW h, Sound(h), NEW list \in Seq(Value \cup {Nil}), Len(list) <= MaxLength
    PROVE  HasNew(Listed(h, list), h, 1..Len(list), list)
<1> DEFINE N == Len(list)
           to == [i \in 1..N |-> N + 1 - i]
           val == [i \in 1..N |-> list[N + 1 - i]]
           IsTable(f) == f = [i \in 0..N |->
              IF i = 0 THEN h ELSE rawseti(f[i - 1], N + 1 - i, list[N + 1 - i])]
           table == CHOOSE f : IsTable(f)
<1>1. N \in Nat /\ 0 \in 0..N
  OBVIOUS
<1>2. Listed(h, list) = table[N]
  BY DEF Listed
<1>3. IsFill(h, to, val, N)
  <2>1. \A i \in 1..N : to[i] \in 0..(MaxLength + 1) /\ to[i] \in 1..N
    BY <1>1, KeyAssumption
  <2>2. \A i, j \in 1..N : to[i] = to[j] => i = j
    BY <1>1
  <2>3. val \in [1..N -> Value \cup {Nil}]
    BY <1>1
  <2>4. \A i \in 1..N : Number(to[i]) \in Key
    BY <2>1, KeyAssumption
  <2>5. to \in [1..N -> Int]
    BY <1>1
  <2> QED
    BY <1>1, <2>2, <2>3, <2>4, <2>5 DEF IsFill
<1>4. \A i \in 1..N : to[i] = N + 1 - i /\ val[i] = list[N + 1 - i]
  OBVIOUS
<1>5. {to[i] : i \in 1..N} = 1..N /\ \A i \in 1..N : list[to[i]] = val[i]
  <2>1. ASSUME NEW n \in 1..N PROVE n \in {to[i] : i \in 1..N}
    <3>1. N + 1 - n \in 1..N /\ to[N + 1 - n] = n
      BY <1>1
    <3> QED
      BY <3>1
  <2> QED
    BY <1>1, <2>1
<1> HIDE DEF to, val, N
<1>6. IsTable(table)
  <2>1. PICK f \in [0..N -> AnyTable] :
           /\ f[0] = h
           /\ \A i \in 1..N : f[i] = rawseti(f[i - 1], to[i], val[i])
    BY <1>3, FillRuns
  <2>2. ASSUME NEW i \in 0..N
        PROVE  f[i] = IF i = 0 THEN h ELSE rawseti(f[i - 1], N + 1 - i, list[N + 1 - i])
    <3>1. i = 0 \/ i \in 1..N
      BY <1>1
    <3> QED
      BY <1>1, <1>4, <2>1, <3>1
  <2>3. IsTable(f)
    BY <2>1, <2>2
  <2> HIDE DEF IsTable
  <2> QED
    BY <2>3
<1> HIDE DEF table
<1>7. Filled(table[N], h, to, val, N, N)
  <2>1. table[0] = h
    BY <1>1, <1>6
  <2>2. ASSUME NEW i \in 1..N PROVE table[i] = rawseti(table[i - 1], to[i], val[i])
    <3>1. i \in 0..N /\ i # 0
      BY <1>1
    <3> QED
      BY <1>4, <1>6, <3>1
  <2> QED
    BY <1>3, <2>1, <2>2, FillIsKept
<1>8. HasNew(table[N], h, 1..N, list)
  <2>1. \A i \in 1..N : list[to[i]] = val[i]
    BY <1>5
  <2>2. HasNew(table[N], h, {to[i] : i \in 1..N}, list)
    BY <1>3, <1>7, <2>1, FilledIsNew
  <2> QED
    BY <1>5, <2>2
<1> QED
  BY <1>2, <1>8 DEF N

\* A value moves to a field of another integer.
LEMMA CopiedIs ==
    ASSUME NEW h, NEW to, NEW val, NEW N, IsFill(h, to, val, N), NEW i \in 1..N,
           NEW g, Filled(g, h, to, val, N, i - 1), NEW from \in Int,
           \A j \in 1..(i - 1) : to[j] # from, val[i] = luaH_getnum(h, from)
    PROVE  Copied(g, from, to[i]) = rawseti(g, to[i], val[i])
<1>1. Number(from) \in Key => luaH_getnum(g, from) = luaH_getnum(h, from)
  BY DEF Filled, luaH_getnum, Number
<1>2. Number(from) \notin Key => luaH_getnum(g, from) = Nil /\ luaH_getnum(h, from) = Nil
  BY NoSuchNumber DEF Filled, IsFill
<1> QED
  BY <1>1, <1>2 DEF Copied, rawgeti

\* Any integer has a value or nil.
LEMMA NumberGet ==
    ASSUME NEW h, Sound(h), NEW n \in Int
    PROVE  luaH_getnum(h, n) \in Value \cup {Nil}
<1>1. CASE Number(n) \in Key
  BY <1>1, GetType DEF luaH_getnum
<1>2. CASE Number(n) \notin Key
  BY <1>2, NoSuchNumber
<1> QED
  BY <1>1, <1>2

\* insert() moves the values up,
LEMMA MovedUpSpec ==
    ASSUME NEW h, Sound(h), NEW pos \in Nat, NEW e \in Nat, pos <= e, e <= MaxLength + 1
    PROVE  HasNew(MovedUp(h, pos, e), h, (pos + 1)..e,
                  [n \in (pos + 1)..e |-> luaH_getnum(h, n - 1)])
<1> DEFINE N == e - pos
           to == [i \in 1..N |-> e - i + 1]
           val == [i \in 1..N |-> luaH_getnum(h, e - i)]
           new == [n \in (pos + 1)..e |-> luaH_getnum(h, n - 1)]
           IsTable(f) == f = [i \in 0..N |->
              IF i = 0 THEN h ELSE Copied(f[i - 1], e - i, e - i + 1)]
           table == CHOOSE f : IsTable(f)
<1>1. N \in Nat /\ 0 \in 0..N
  OBVIOUS
<1>2. MovedUp(h, pos, e) = table[N]
  BY DEF MovedUp
<1>3. IsFill(h, to, val, N)
  <2>1. \A i \in 1..N : to[i] \in 0..(MaxLength + 1)
    BY <1>1, KeyAssumption
  <2>2. \A i, j \in 1..N : to[i] = to[j] => i = j
    BY <1>1
  <2>3. val \in [1..N -> Value \cup {Nil}]
    <3>1. ASSUME NEW i \in 1..N PROVE luaH_getnum(h, e - i) \in Value \cup {Nil}
      <4>1. e - i \in Int
        BY <1>1
      <4> QED
        BY <4>1, NumberGet
    <3> QED
      BY <3>1
  <2>4. \A i \in 1..N : Number(to[i]) \in Key
    BY <2>1, KeyAssumption
  <2>5. to \in [1..N -> Int]
    BY <1>1
  <2> QED
    BY <1>1, <2>2, <2>3, <2>4, <2>5 DEF IsFill
<1>4. \A i \in 1..N : to[i] = e - i + 1 /\ val[i] = luaH_getnum(h, e - i)
  OBVIOUS
<1>5. (pos + 1)..e = {to[i] : i \in 1..N} /\ \A i \in 1..N : new[to[i]] = val[i]
  <2>1. ASSUME NEW n \in (pos + 1)..e PROVE n \in {to[i] : i \in 1..N}
    <3>1. e + 1 - n \in 1..N /\ to[e + 1 - n] = n
      BY <1>1
    <3> QED
      BY <3>1
  <2>2. ASSUME NEW i \in 1..N PROVE to[i] \in (pos + 1)..e /\ to[i] - 1 = e - i
    BY <1>1
  <2>3. ASSUME NEW i \in 1..N PROVE new[to[i]] = val[i]
    <3>1. new[to[i]] = luaH_getnum(h, to[i] - 1)
      BY <2>2
    <3> QED
      BY <1>4, <2>2, <3>1
  <2> HIDE DEF to
  <2> QED
    BY <2>1, <2>2, <2>3
<1> HIDE DEF val, N, new
<1>6. ASSUME NEW i \in 1..N, NEW g, Filled(g, h, to, val, N, i - 1)
      PROVE  Copied(g, e - i, e - i + 1) = rawseti(g, to[i], val[i])
  <2>1. e - i \in Int /\ \A j \in 1..(i - 1) : to[j] # e - i
    BY <1>1
  <2>2. Copied(g, e - i, to[i]) = rawseti(g, to[i], val[i])
    <3> HIDE DEF to
    <3> QED
      BY <1>3, <1>4, <1>6, <2>1, CopiedIs
  <2> QED
    BY <1>4, <2>2
<1> HIDE DEF to
<1>7. IsTable(table)
  <2>1. PICK f \in [0..N -> AnyTable] :
           /\ f[0] = h
           /\ \A i \in 1..N : f[i] = rawseti(f[i - 1], to[i], val[i])
           /\ \A i \in 0..N : Filled(f[i], h, to, val, N, i)
    BY <1>3, FillRuns
  <2>2. ASSUME NEW i \in 0..N
        PROVE  f[i] = IF i = 0 THEN h ELSE Copied(f[i - 1], e - i, e - i + 1)
    <3>1. i = 0 \/ (i \in 1..N /\ i - 1 \in 0..N /\ i # 0)
      BY <1>1
    <3> QED
      BY <1>6, <2>1, <3>1
  <2>3. IsTable(f)
    BY <2>1, <2>2
  <2> HIDE DEF IsTable
  <2> QED
    BY <2>3
<1> HIDE DEF table
<1>8. Filled(table[N], h, to, val, N, N)
  <2>1. table[0] = h
    BY <1>1, <1>7
  <2>2. ASSUME NEW i \in 1..N, Filled(table[i - 1], h, to, val, N, i - 1)
        PROVE  table[i] = rawseti(table[i - 1], to[i], val[i])
    <3>1. i \in 0..N /\ i # 0
      BY <1>1
    <3>2. table[i] = Copied(table[i - 1], e - i, e - i + 1)
      BY <1>7, <3>1
    <3> QED
      BY <1>6, <2>2, <3>2
  <2> QED
    BY <1>3, <2>1, <2>2, FillIsKept
<1>9. HasNew(table[N], h, (pos + 1)..e, new)
  <2>1. \A i \in 1..N : new[to[i]] = val[i]
    BY <1>5
  <2>2. HasNew(table[N], h, {to[i] : i \in 1..N}, new)
    BY <1>3, <1>8, <2>1, FilledIsNew
  <2> QED
    BY <1>5, <2>2
<1> QED
  BY <1>2, <1>9 DEF new

\* and remove() moves them down.
LEMMA MovedDownSpec ==
    ASSUME NEW h, Sound(h), NEW pos \in Nat, NEW e \in Nat, pos <= e, e <= MaxLength + 1
    PROVE  /\ HasNew(MovedDown(h, pos, e), h, pos..(e - 1),
                     [n \in pos..(e - 1) |-> luaH_getnum(h, n + 1)])
           /\ (\A n \in pos..(e - 1) : luaH_getnum(h, n) # Nil) => SameNodes(MovedDown(h, pos, e), h)
<1> DEFINE N == e - pos
           to == [i \in 1..N |-> pos + i - 1]
           val == [i \in 1..N |-> luaH_getnum(h, pos + i)]
           new == [n \in pos..(e - 1) |-> luaH_getnum(h, n + 1)]
           IsTable(f) == f = [i \in 0..N |->
              IF i = 0 THEN h ELSE Copied(f[i - 1], pos + i, pos + i - 1)]
           table == CHOOSE f : IsTable(f)
<1>1. N \in Nat /\ 0 \in 0..N
  OBVIOUS
<1>2. MovedDown(h, pos, e) = table[N]
  BY DEF MovedDown
<1>3. IsFill(h, to, val, N)
  <2>1. \A i \in 1..N : to[i] \in 0..(MaxLength + 1)
    BY <1>1, KeyAssumption
  <2>2. \A i, j \in 1..N : to[i] = to[j] => i = j
    BY <1>1
  <2>3. val \in [1..N -> Value \cup {Nil}]
    <3>1. ASSUME NEW i \in 1..N PROVE luaH_getnum(h, pos + i) \in Value \cup {Nil}
      <4>1. pos + i \in Int
        BY <1>1
      <4> QED
        BY <4>1, NumberGet
    <3> QED
      BY <3>1
  <2>4. \A i \in 1..N : Number(to[i]) \in Key
    BY <2>1, KeyAssumption
  <2>5. to \in [1..N -> Int]
    BY <1>1
  <2> QED
    BY <1>1, <2>2, <2>3, <2>4, <2>5 DEF IsFill
<1>4. \A i \in 1..N : to[i] = pos + i - 1 /\ val[i] = luaH_getnum(h, pos + i)
  OBVIOUS
<1>5. pos..(e - 1) = {to[i] : i \in 1..N} /\ \A i \in 1..N : new[to[i]] = val[i]
  <2>1. ASSUME NEW n \in pos..(e - 1) PROVE n \in {to[i] : i \in 1..N}
    <3>1. n + 1 - pos \in 1..N /\ to[n + 1 - pos] = n
      BY <1>1
    <3> QED
      BY <3>1
  <2>2. ASSUME NEW i \in 1..N PROVE to[i] \in pos..(e - 1) /\ to[i] + 1 = pos + i
    BY <1>1
  <2>3. ASSUME NEW i \in 1..N PROVE new[to[i]] = val[i]
    <3>1. new[to[i]] = luaH_getnum(h, to[i] + 1)
      BY <2>2
    <3> QED
      BY <1>4, <2>2, <3>1
  <2> HIDE DEF to
  <2> QED
    BY <2>1, <2>2, <2>3
<1> HIDE DEF val, N, new
<1>6. ASSUME NEW i \in 1..N, NEW g, Filled(g, h, to, val, N, i - 1)
      PROVE  Copied(g, pos + i, pos + i - 1) = rawseti(g, to[i], val[i])
  <2>1. pos + i \in Int /\ \A j \in 1..(i - 1) : to[j] # pos + i
    BY <1>1
  <2>2. Copied(g, pos + i, to[i]) = rawseti(g, to[i], val[i])
    <3> HIDE DEF to
    <3> QED
      BY <1>3, <1>4, <1>6, <2>1, CopiedIs
  <2> QED
    BY <1>4, <2>2
<1> HIDE DEF to
<1>7. IsTable(table)
  <2>1. PICK f \in [0..N -> AnyTable] :
           /\ f[0] = h
           /\ \A i \in 1..N : f[i] = rawseti(f[i - 1], to[i], val[i])
           /\ \A i \in 0..N : Filled(f[i], h, to, val, N, i)
    BY <1>3, FillRuns
  <2>2. ASSUME NEW i \in 0..N
        PROVE  f[i] = IF i = 0 THEN h ELSE Copied(f[i - 1], pos + i, pos + i - 1)
    <3>1. i = 0 \/ (i \in 1..N /\ i - 1 \in 0..N /\ i # 0)
      BY <1>1
    <3> QED
      BY <1>6, <2>1, <3>1
  <2>3. IsTable(f)
    BY <2>1, <2>2
  <2> HIDE DEF IsTable
  <2> QED
    BY <2>3
<1> HIDE DEF table
<1>8. Filled(table[N], h, to, val, N, N)
  <2>1. table[0] = h
    BY <1>1, <1>7
  <2>2. ASSUME NEW i \in 1..N, Filled(table[i - 1], h, to, val, N, i - 1)
        PROVE  table[i] = rawseti(table[i - 1], to[i], val[i])
    <3>1. i \in 0..N /\ i # 0
      BY <1>1
    <3>2. table[i] = Copied(table[i - 1], pos + i, pos + i - 1)
      BY <1>7, <3>1
    <3> QED
      BY <1>6, <2>2, <3>2
  <2> QED
    BY <1>3, <2>1, <2>2, FillIsKept
<1>9. HasNew(table[N], h, pos..(e - 1), new)
  <2>1. \A i \in 1..N : new[to[i]] = val[i]
    BY <1>5
  <2>2. HasNew(table[N], h, {to[i] : i \in 1..N}, new)
    BY <1>3, <1>8, <2>1, FilledIsNew
  <2> QED
    BY <1>5, <2>2
<1>10. (\A n \in pos..(e - 1) : luaH_getnum(h, n) # Nil) => SameNodes(table[N], h)
  BY <1>5, <1>8 DEF Filled
<1> QED
  BY <1>2, <1>9, <1>10 DEF new

-----------------------------------------------------------------------------
(* The states of sort().                                                   *)

AnyValue == Value \cup {Nil}
\* The program points of auxsort() at which it has an interval to sort.
Busy == {"while", "first", "middle", "last", "pivot", "up", "down", "split"}

SortCalls ==
    [pc : Busy \cup {"end", "returned", "error"}, n : 0..MaxLength, l : Int, u : Int,
     i : Int, j : Int, P : AnyValue, x : AnyValue, y : AnyValue, ai : AnyValue, stack : Seq(Int \X Int),
     asked : Nat, holes : SUBSET Int]

\* Where the indices of auxsort() are, whatever the comparison function answers.
SortPlaces(c) ==
    /\ 1 <= c.l /\ c.u <= c.n
    /\ c.pc = "first" => c.l < c.u
    /\ c.pc \in {"middle", "last"} => c.l + 2 <= c.u /\ c.l < c.i /\ c.i < c.u
    /\ c.pc = "pivot" => c.l + 3 <= c.u /\ c.l < c.i /\ c.i < c.u
    /\ c.pc \in {"up", "down", "split"} => c.l + 3 <= c.u /\ c.l < c.i /\ c.i <= c.u + 1
    /\ c.pc = "up" => c.l < c.j /\ c.j < c.u
    /\ c.pc = "down" => c.l - 1 <= c.j /\ c.j < c.u - 1

\* What it has on the stack of Lua.
SortValues(h, c) ==
    /\ c.pc = "first" => c.x = luaH_getnum(h, c.u) /\ c.y = luaH_getnum(h, c.l)
    /\ c.pc = "middle" => c.x = luaH_getnum(h, c.i) /\ c.y = luaH_getnum(h, c.l)
    /\ c.pc = "last" => c.x = luaH_getnum(h, c.u) /\ c.y = luaH_getnum(h, c.i)
    /\ c.pc = "up" => c.x = luaH_getnum(h, c.i) /\ c.y = c.P
    /\ c.pc = "down" => /\ c.x = c.P /\ c.y = luaH_getnum(h, c.j)
                        /\ c.ai = luaH_getnum(h, c.i)

\* An interval that is d calls deep has at most n / 2^d values.
Fits(c, d, l, u) == 1 <= l /\ u <= c.n /\ twoto[d] * (u - l + 1) <= c.n
SortDepth(c) ==
    /\ Fits(c, Len(c.stack), c.l, c.u)
    /\ \A k \in 1..Len(c.stack) : Fits(c, Len(c.stack) - k, c.stack[k][1], c.stack[k][2])

SortState(h, c) == c \in SortCalls /\ SortPlaces(c) /\ SortValues(h, c) /\ SortDepth(c)

-----------------------------------------------------------------------------
(* A sort with "<" of integers A[1], ..., A[n].                            *)

Waits(c, p, q) == \E k \in 1..Len(c.stack) : c.stack[k][1] <= p /\ q <= c.stack[k][2]
InHand(c, p, q) == c.pc \in Busy /\ c.l <= p /\ q <= c.u

\* Two values are in order, or in an interval that is still to be sorted.
InOrder(A, c) ==
    \A p, q \in 1..c.n : p < q => A[p] <= A[q] \/ InHand(c, p, q) \/ Waits(c, p, q)

\* These intervals have no value in common.
Apart(l, u, m, v) == u < m \/ v < l
AllApart(c) ==
    \A k \in 1..Len(c.stack) :
        /\ c.pc \in Busy => Apart(c.l, c.u, c.stack[k][1], c.stack[k][2])
        /\ \A m \in 1..Len(c.stack) :
              m # k => Apart(c.stack[k][1], c.stack[k][2], c.stack[m][1], c.stack[m][2])

\* What auxsort() knows of the values of its interval.
Below(A, P, a, b) == \A k \in a..b : A[k] <= P
Above(A, P, a, b) == \A k \in a..b : P <= A[k]
Known(A, c) ==
    /\ c.pc \in {"middle", "last"} => A[c.l] <= A[c.u]
    /\ c.pc = "last" => A[c.l] <= A[c.i]
    /\ c.pc = "pivot" => A[c.l] <= A[c.i] /\ A[c.i] <= A[c.u]
    /\ c.pc \in {"up", "down", "split"} =>
          /\ c.i < c.u /\ A[c.u - 1] = c.P /\ Below(A, c.P, c.l, c.i - 1)
          /\ c.i <= c.j + 2
    /\ c.pc = "up" => Above(A, c.P, c.j, c.u) /\ c.i <= c.j + 1
    /\ c.pc \in {"down", "split"} => Above(A, c.P, c.j + 1, c.u) /\ c.P <= A[c.i]
    /\ c.pc = "down" => c.l <= c.j
    /\ c.pc = "split" => c.j < c.i

\* The comparisons that the interval in hand may still need.
Left(c) ==
    LET s == c.u - c.l + 1
    IN  CASE c.pc = "while" -> s * s
          [] c.pc = "first" -> s * s - 1
          [] c.pc = "middle" -> s * s - 2
          [] c.pc \in {"last", "pivot"} -> s * s - 3
          [] c.pc \in {"up", "down", "split"} -> s * s - 3 - (c.i - c.l) - (c.u - 1 - c.j)
          [] OTHER -> 0
\* W[k] is enough for the intervals behind k on the stack.
IsEnough(c, W) ==
    /\ W \in [0..Len(c.stack) -> Nat]
    /\ \A k \in 1..Len(c.stack) :
          LET s == c.stack[k][2] - c.stack[k][1] + 1 IN W[k - 1] >= W[k] + s * s
IsCheap(c) ==
    \E W : IsEnough(c, W) /\ c.asked + Left(c) + W[0] <= c.n * c.n

Sorting(A, c) ==
    /\ c.pc # "error" /\ (c.pc = "returned" => c.stack = << >>)
    /\ InOrder(A, c) /\ AllApart(c) /\ Known(A, c) /\ IsCheap(c)

Numbers(h, n) == [k \in 1..n |-> luaH_getnum(h, k)]
SortsNumbers(h, c) ==
    /\ Numbers(h, c.n) \in [1..c.n -> Value]
    /\ Sorting(Numbers(h, c.n), c)

-----------------------------------------------------------------------------
(* The inductive invariant.                                                *)

Walking ==
    /\ walk \in {"constructor", "none", "on"}
    /\ walk # "on" => at = Nil /\ seen = {}
    /\ walk = "on" => Walked(t, at, seen)
Calling ==
    call = NoCall
    \/ /\ walk = "none" /\ SortState(t, call)
       /\ program.order = "<" /\ call.holes = {} => SortsNumbers(t, call)
IInv == program \in Programs /\ Sound(t) /\ map = Content(t) /\ Walking /\ Calling

-----------------------------------------------------------------------------
(* Steps of auxsort() with "<".                                            *)

\* B is A after an exchange.
Exchanged(B, A, n, i, j) ==
    /\ B \in [1..n -> Int] /\ i \in 1..n /\ j \in 1..n /\ B[i] = A[j] /\ B[j] = A[i]
    /\ \A k \in 1..n : k # i /\ k # j => B[k] = A[k]

SameCall(d, c) == d.n = c.n /\ d.stack = c.stack
SameInterval(d, c) == d.l = c.l /\ d.u = c.u /\ SameCall(d, c)

\* The interval in hand is inside of the sequence.
LEMMA IntervalIn ==
    ASSUME NEW c \in SortCalls, SortPlaces(c)
    PROVE  /\ c.n \in Nat /\ c.l \in Int /\ c.u \in Int /\ c.l..c.u \subseteq 1..c.n
           /\ c.i \in Int /\ c.j \in Int /\ c.asked \in Nat
           /\ Len(c.stack) \in Nat
           /\ \A k \in 1..Len(c.stack) : c.stack[k][1] \in Int /\ c.stack[k][2] \in Int
BY DEF SortCalls, SortPlaces

\* An exchange inside of the interval in hand keeps the order outside of it.
LEMMA SwapOrder ==
    ASSUME NEW c \in SortCalls, SortPlaces(c), c.pc \in Busy,
           NEW A \in [1..c.n -> Int], InOrder(A, c), AllApart(c),
           NEW i \in c.l..c.u, NEW j \in c.l..c.u, NEW B, Exchanged(B, A, c.n, i, j)
    PROVE  InOrder(B, c)
<1> USE IntervalIn
<1>1. ASSUME NEW p \in 1..c.n, NEW q \in 1..c.n, p < q, p \in c.l..c.u, q \notin c.l..c.u
      PROVE  A[p] <= A[q] \/ Waits(c, p, q)
  BY <1>1 DEF InOrder, InHand
<1>2. ASSUME NEW p \in 1..c.n, NEW q \in 1..c.n, p < q, q \in c.l..c.u, p \notin c.l..c.u
      PROVE  A[p] <= A[q] \/ Waits(c, p, q)
  BY <1>2 DEF InOrder, InHand
<1>3. ASSUME NEW p \in 1..c.n, NEW q \in 1..c.n, p < q, Waits(c, p, q)
      PROVE  p \notin c.l..c.u /\ q \notin c.l..c.u
  <2>1. PICK k \in 1..Len(c.stack) : c.stack[k][1] <= p /\ q <= c.stack[k][2]
    BY <1>3 DEF Waits
  <2>2. c.u < c.stack[k][1] \/ c.stack[k][2] < c.l
    BY DEF AllApart, Apart
  <2> QED
    BY <1>3, <2>1, <2>2
<1>4. ASSUME NEW p \in 1..c.n, NEW q \in 1..c.n, p < q, ~InHand(c, p, q), ~Waits(c, p, q)
      PROVE  B[p] <= B[q]
  <2>1. p \notin c.l..c.u \/ q \notin c.l..c.u
    BY <1>4 DEF InHand
  <2>2. CASE p \in c.l..c.u
    <3>1. \E r \in c.l..c.u : B[p] = A[r]
      BY <2>2 DEF Exchanged
    <3>2. B[q] = A[q]
      BY <2>1, <2>2 DEF Exchanged
    <3>3. \A r \in c.l..c.u : r \in 1..c.n /\ r < q
      BY <1>4, <2>1, <2>2
    <3> QED
      BY <1>1, <1>3, <2>1, <2>2, <3>1, <3>2, <3>3
  <2>3. CASE q \in c.l..c.u
    <3>1. \E r \in c.l..c.u : B[q] = A[r]
      BY <2>3 DEF Exchanged
    <3>2. B[p] = A[p]
      BY <2>1, <2>3 DEF Exchanged
    <3>3. \A r \in c.l..c.u : r \in 1..c.n /\ p < r
      BY <1>4, <2>1, <2>3
    <3> QED
      BY <1>2, <1>3, <2>1, <2>3, <3>1, <3>2, <3>3
  <2>4. CASE p \notin c.l..c.u /\ q \notin c.l..c.u
    <3>1. B[p] = A[p] /\ B[q] = A[q]
      BY <2>4 DEF Exchanged
    <3> QED
      BY <1>4, <3>1 DEF InOrder
  <2> QED
    BY <2>2, <2>3, <2>4
<1> QED
  BY <1>4 DEF InOrder

\* The order outside of the interval stays when auxsort() goes on with it,
LEMMA OrderInHand ==
    ASSUME NEW c, NEW d, c.pc \in Busy, d.pc \in Busy, SameInterval(d, c), NEW A, InOrder(A, c),
           AllApart(c)
    PROVE  InOrder(A, d) /\ AllApart(d)
<1>1. \A p, q : InHand(d, p, q) = InHand(c, p, q)
  BY DEF InHand, SameInterval
<1>2. \A p, q : Waits(d, p, q) = Waits(c, p, q)
  BY DEF Waits, SameInterval, SameCall
<1>3. d.n = c.n /\ d.stack = c.stack /\ d.l = c.l /\ d.u = c.u
  BY DEF SameInterval, SameCall
<1>4. InOrder(A, d)
  BY <1>1, <1>2, <1>3 DEF InOrder
<1>5. AllApart(d)
  BY <1>3 DEF AllApart
<1> QED
  BY <1>4, <1>5

\* and when it is sorted.
LEMMA OrderAtEnd ==
    ASSUME NEW c \in SortCalls, SortPlaces(c), c.pc \in Busy, NEW d, d.pc = "end", SameCall(d, c),
           NEW A, InOrder(A, c), AllApart(c), \A p, q \in c.l..c.u : p < q => A[p] <= A[q]
    PROVE  InOrder(A, d) /\ AllApart(d)
<1> USE IntervalIn
<1>1. \A p, q : Waits(d, p, q) = Waits(c, p, q)
  BY DEF Waits, SameCall
<1>2. d.n = c.n /\ d.stack = c.stack /\ d.pc \notin Busy
  BY DEF SameCall, Busy
<1>3. \A p, q \in 1..c.n : p < q /\ InHand(c, p, q) => A[p] <= A[q]
  BY DEF InHand
<1>4. InOrder(A, d)
  BY <1>1, <1>2, <1>3 DEF InOrder
<1>5. AllApart(d)
  BY <1>2 DEF AllApart
<1> QED
  BY <1>4, <1>5

\* The comparisons that may be needed cover the next.
LEMMA CheapStep ==
    ASSUME NEW c, NEW d, SameCall(d, c), IsCheap(c),
           c.asked \in Int, d.asked \in Int, c.n \in Int, Left(c) \in Int, Left(d) \in Int,
           d.asked + Left(d) <= c.asked + Left(c)
    PROVE  IsCheap(d)
<1>1. PICK W : IsEnough(c, W) /\ c.asked + Left(c) + W[0] <= c.n * c.n
  BY DEF IsCheap
<1>2. IsEnough(d, W)
  BY <1>1 DEF IsEnough, SameCall
<1>3. W[0] \in Int /\ c.n * c.n \in Int /\ d.n = c.n
  <2>1. W \in [0..Len(c.stack) -> Nat] 
    BY <1>1 DEF IsEnough
  <2>2. Len(c.stack) \in Nat
    BY <1>1 DEF IsEnough
  <2> QED
    BY <2>1, <2>2 DEF SameCall
<1>4. d.asked + Left(d) + W[0] <= d.n * d.n
  <2> DEFINE nn == c.n * c.n
  <2>1. nn \in Int /\ d.n * d.n = nn /\ c.asked + Left(c) + W[0] <= nn
    BY <1>1, <1>3
  <2> HIDE DEF nn
  <2> QED
    BY <1>3, <2>1
<1> QED
  BY <1>2, <1>4 DEF IsCheap

\* A sequence that is being sorted.
Sortable(A, c) ==
    /\ c \in SortCalls /\ SortPlaces(c) /\ A \in [1..c.n -> Int] /\ Sorting(A, c)

\* It is a number.
LEMMA LeftType ==
    ASSUME NEW c \in SortCalls
    PROVE  Left(c) \in Int
<1> DEFINE s == c.u - c.l + 1
<1>1. c.l \in Int /\ c.u \in Int /\ c.i \in Int /\ c.j \in Int
  BY DEF SortCalls
<1>2. s \in Int /\ s * s \in Int
  BY <1>1
<1>3. Left(c) = CASE c.pc = "while" -> s * s
          [] c.pc = "first" -> s * s - 1
          [] c.pc = "middle" -> s * s - 2
          [] c.pc \in {"last", "pivot"} -> s * s - 3
          [] c.pc \in {"up", "down", "split"} -> s * s - 3 - (c.i - c.l) - (c.u - 1 - c.j)
          [] OTHER -> 0
  BY DEF Left
<1> DEFINE ss == s * s
<1> HIDE DEF ss
<1>4. ss \in Int /\ Left(c) = CASE c.pc = "while" -> ss
          [] c.pc = "first" -> ss - 1
          [] c.pc = "middle" -> ss - 2
          [] c.pc \in {"last", "pivot"} -> ss - 3
          [] c.pc \in {"up", "down", "split"} -> ss - 3 - (c.i - c.l) - (c.u - 1 - c.j)
          [] OTHER -> 0
  BY <1>2, <1>3 DEF ss
<1> QED
  BY <1>1, <1>4

\* What is left, by the place in auxsort().
LEMMA LeftIs ==
    ASSUME NEW c \in SortCalls
    PROVE  LET s == c.u - c.l + 1
           IN  /\ c.pc = "while" => Left(c) = s * s
               /\ c.pc = "first" => Left(c) = s * s - 1
               /\ c.pc = "middle" => Left(c) = s * s - 2
               /\ c.pc \in {"last", "pivot"} => Left(c) = s * s - 3
               /\ c.pc \in {"up", "down", "split"}
                     => Left(c) = s * s - 3 - (c.i - c.l) - (c.u - 1 - c.j)
               /\ c.pc \notin Busy => Left(c) = 0
BY DEF Left, Busy

\* It is never less than nothing.
LEMMA LeftNat ==
    ASSUME NEW c \in SortCalls, SortPlaces(c),
           c.pc \in {"up", "down", "split"} => c.i <= c.j + 2
    PROVE  Left(c) >= 0
<1> DEFINE s == c.u - c.l + 1
           ss == s * s
<1>1. c.l \in Int /\ c.u \in Int /\ c.i \in Int /\ c.j \in Int /\ s \in Int
  BY DEF SortCalls
<1>2. ss \in Int /\ ss >= 0 /\ (s >= 2 => ss >= 2 * s) /\ (s >= 4 => ss >= 4 * s)
  <2> HIDE DEF s
  <2>1. s * s >= 0 /\ s * s \in Int
    BY <1>1
  <2>2. s >= 2 => s * s >= 2 * s
    BY <1>1
  <2>3. s >= 4 => s * s >= 4 * s
    BY <1>1
  <2> QED
    BY <2>1, <2>2, <2>3
<1>3. LET q == c.u - c.l + 1
      IN  /\ c.pc = "while" => Left(c) = ss
          /\ c.pc = "first" => Left(c) = ss - 1
          /\ c.pc = "middle" => Left(c) = ss - 2
          /\ c.pc \in {"last", "pivot"} => Left(c) = ss - 3
          /\ c.pc \in {"up", "down", "split"}
                => Left(c) = ss - 3 - (c.i - c.l) - (c.u - 1 - c.j)
          /\ c.pc \notin Busy => Left(c) = 0
  BY LeftIs
<1> HIDE DEF ss
<1>4. CASE c.pc = "while" \/ c.pc \notin Busy
  BY <1>2, <1>3, <1>4
<1>5. CASE c.pc \in {"first", "middle", "last", "pivot"}
  <2>1. s >= 2
    BY <1>1, <1>5 DEF SortPlaces
  <2>2. c.pc \in {"middle", "last", "pivot"} => s >= 3
    BY <1>1, <1>5 DEF SortPlaces
  <2> QED
    BY <1>1, <1>2, <1>3, <1>5, <2>1, <2>2
<1>6. CASE c.pc \in {"up", "down", "split"}
  <2>1. s >= 4
    BY <1>1, <1>6 DEF SortPlaces
  <2>2. (c.i - c.l) + (c.u - 1 - c.j) <= s
    BY <1>1, <1>6
  <2> HIDE DEF s
  <2> QED
    BY <1>1, <1>2, <1>3, <1>6, <2>1, <2>2
<1> QED
  BY <1>4, <1>5, <1>6 DEF Busy

\* A step inside of the interval, or its end.
IsStep(A, c, B, d) ==
    /\ Sortable(A, c) /\ c.pc \in Busy /\ d \in SortCalls /\ SameInterval(d, c)
    /\ \E i, j \in c.l..c.u : Exchanged(B, A, c.n, i, j)
    /\ d.asked + Left(d) <= c.asked + Left(c)
    /\ \/ d.pc \in Busy /\ Known(B, d)
       \/ d.pc = "end" /\ \A p, q \in c.l..c.u : p < q => B[p] <= B[q]

\* Such a step keeps what is known of the sort.
LEMMA SortingStep ==
    ASSUME NEW A, NEW c, NEW B, NEW d, IsStep(A, c, B, d)
    PROVE  Sorting(B, d)
<1>1. c \in SortCalls /\ SortPlaces(c) /\ A \in [1..c.n -> Int] /\ Sorting(A, c) /\ c.pc \in Busy
      /\ d \in SortCalls
  BY DEF IsStep, Sortable
<1>2. InOrder(A, c) /\ AllApart(c) /\ IsCheap(c)
  BY <1>1 DEF Sorting
<1>3. PICK i \in c.l..c.u, j \in c.l..c.u : Exchanged(B, A, c.n, i, j)
  BY DEF IsStep
<1>4. InOrder(B, c)
  BY <1>1, <1>2, <1>3, SwapOrder
<1>5. IsCheap(d)
  <2>1. SameCall(d, c) /\ d.asked + Left(d) <= c.asked + Left(c)
    BY DEF IsStep, SameInterval
  <2>2. c.asked \in Int /\ d.asked \in Int /\ c.n \in Int
    BY <1>1 DEF SortCalls
  <2>3. Left(c) \in Int /\ Left(d) \in Int
    BY <1>1, LeftType
  <2> QED
    BY <1>2, <2>1, <2>2, <2>3, CheapStep
<1>6. CASE d.pc \in Busy
  <2>1. Known(B, d) /\ SameInterval(d, c)
    BY <1>6 DEF IsStep, Busy
  <2>2. InOrder(B, d) /\ AllApart(d)
    BY <1>1, <1>2, <1>4, <1>6, <2>1, OrderInHand
  <2> QED
    BY <1>5, <1>6, <2>1, <2>2 DEF Sorting, Busy
<1>7. CASE d.pc = "end"
  <2>1. \A p, q \in c.l..c.u : p < q => B[p] <= B[q]
    BY <1>7 DEF IsStep, Busy
  <2>2. SameCall(d, c)
    BY DEF IsStep, SameInterval
  <2>3. InOrder(B, d) /\ AllApart(d)
    BY <1>1, <1>2, <1>4, <1>7, <2>1, <2>2, OrderAtEnd
  <2>4. Known(B, d)
    BY <1>7 DEF Known
  <2> QED
    BY <1>5, <1>7, <2>3, <2>4 DEF Sorting
<1> QED
  BY <1>6, <1>7 DEF IsStep

\* Nothing need be exchanged.
LEMMA NoExchange ==
    ASSUME NEW A, NEW c, Sortable(A, c), c.l <= c.u
    PROVE  \E i, j \in c.l..c.u : Exchanged(A, A, c.n, i, j)
<1>1. c.l \in c.l..c.u /\ c.l \in 1..c.n
  BY IntervalIn DEF Sortable
<1>2. Exchanged(A, A, c.n, c.l, c.l)
  BY <1>1 DEF Exchanged, Sortable
<1> QED
  BY <1>1, <1>2

\* The types of a sequence that is being sorted.
LEMMA SortableType ==
    ASSUME NEW A, NEW c, Sortable(A, c)
    PROVE  /\ c \in SortCalls /\ c.n \in Nat /\ c.l \in Int /\ c.u \in Int /\ c.i \in Int /\ c.j \in Int
           /\ c.asked \in Nat /\ c.l >= 1 /\ c.u <= c.n /\ c.l..c.u \subseteq 1..c.n
           /\ \A k \in 1..c.n : A[k] \in Int
           /\ Left(c) \in Int
BY LeftType DEF Sortable, SortCalls, SortPlaces

\* A step that asks, or not, and takes no more than what is left.
LEMMA LeftAfter ==
    ASSUME NEW c \in SortCalls, NEW d \in SortCalls, SameInterval(d, c)
    PROVE  /\ c.pc = "while" /\ d.pc = "first" => Left(d) = Left(c) - 1
           /\ c.pc = "first" /\ d.pc = "middle" => Left(d) = Left(c) - 1
           /\ c.pc = "middle" /\ d.pc = "last" => Left(d) = Left(c) - 1
           /\ c.pc = "middle" /\ d.pc = "pivot" => Left(d) = Left(c) - 1
           /\ c.pc = "last" /\ d.pc = "pivot" => Left(d) = Left(c)
           /\ c.pc = "pivot" /\ d.pc = "up" /\ d.i = c.l + 1 /\ d.j = c.u - 1
                => Left(d) = Left(c) - 1
           /\ c.pc \in {"up", "down"} /\ d.pc \in {"up", "down", "split"} /\ d.i - d.j = c.i - c.j + 1
                => Left(d) = Left(c) - 1
           /\ c.pc = "down" /\ d.pc = "split" /\ d.i = c.i /\ d.j = c.j => Left(d) = Left(c)
<1> DEFINE s == c.u - c.l + 1
           ss == s * s
           IsLeft(e) ==
               /\ e.pc = "while" => Left(e) = ss
               /\ e.pc = "first" => Left(e) = ss - 1
               /\ e.pc = "middle" => Left(e) = ss - 2
               /\ e.pc \in {"last", "pivot"} => Left(e) = ss - 3
               /\ e.pc \in {"up", "down", "split"} => Left(e) = ss - 3 - (e.i - c.l) - (c.u - 1 - e.j)
<1>1. c.l \in Int /\ c.u \in Int /\ c.i \in Int /\ c.j \in Int /\ d.i \in Int /\ d.j \in Int
  BY DEF SortCalls
<1>2. IsLeft(c)
  BY LeftIs
<1>3. d.u = c.u /\ d.l = c.l
  BY DEF SameInterval
<1>4. IsLeft(d)
  BY <1>3, LeftIs
<1>5. ss \in Int
  BY <1>1
<1> HIDE DEF ss, s
<1> QED
  BY <1>1, <1>2, <1>4, <1>5

\* while l < u
LEMMA SortWhile ==
    ASSUME NEW A, NEW c, Sortable(A, c), c.pc = "while", NEW d \in SortCalls, SameInterval(d, c),
           \/ c.l < c.u /\ d.pc = "first" /\ d.asked = c.asked + 1
           \/ ~(c.l < c.u) /\ d.pc = "end" /\ d.asked = c.asked
    PROVE  Sorting(A, d)
<1> USE SortableType
<1>1. CASE c.l < c.u
  <2>1. d.asked + Left(d) <= c.asked + Left(c)
    BY <1>1, LeftAfter
  <2>2. \E i, j \in c.l..c.u : Exchanged(A, A, c.n, i, j)
    BY <1>1, NoExchange
  <2>3. Known(A, d)
    BY <1>1 DEF Known
  <2> QED
    BY <1>1, <2>1, <2>2, <2>3, SortingStep DEF IsStep, Busy
<1>2. CASE ~(c.l < c.u)
  <2>1. d.pc = "end" /\ d.asked = c.asked
    BY <1>2
  <2>2. Sorting(A, c) /\ SortPlaces(c) /\ SameCall(d, c) /\ c.pc \in Busy /\ d.pc \notin Busy
    BY <2>1 DEF Sortable, SameInterval, Busy
  <2>3. \A p, q \in c.l..c.u : p < q => A[p] <= A[q]
    BY <1>2
  <2>4. InOrder(A, d) /\ AllApart(d)
    BY <2>1, <2>2, <2>3, OrderAtEnd DEF Sorting
  <2>5. IsCheap(d)
    <3>1. Left(d) = 0 /\ Left(c) >= 0
      BY <2>1, <2>2, LeftIs, LeftNat
    <3> QED
      BY <2>1, <2>2, <3>1, CheapStep DEF Sorting
  <2>6. Known(A, d)
    BY <2>1 DEF Known
  <2> QED
    BY <2>1, <2>4, <2>5, <2>6 DEF Sorting
<1> QED
  BY <1>1, <1>2

\* The first comparison, and the exchange it calls for.
LEMMA SortFirst ==
    ASSUME NEW A, NEW c, Sortable(A, c), c.pc = "first", NEW d \in SortCalls, SameInterval(d, c),
           NEW B,
           \/ A[c.u] < A[c.l] /\ Exchanged(B, A, c.n, c.l, c.u)
           \/ ~(A[c.u] < A[c.l]) /\ B = A,
           IF c.u - c.l = 1 THEN d.pc = "end" /\ d.asked = c.asked
           ELSE d.pc = "middle" /\ d.asked = c.asked + 1
    PROVE  Sorting(B, d)
<1> USE SortableType
<1>1. c.l < c.u
  BY DEF Sortable, SortPlaces
<1>2. c.l \in c.l..c.u /\ c.u \in c.l..c.u
  BY <1>1
<1>3. \E i, j \in c.l..c.u : Exchanged(B, A, c.n, i, j)
  BY <1>1, <1>2, NoExchange
<1>4. B[c.l] <= B[c.u]
  BY <1>1, <1>2 DEF Exchanged
<1>5. CASE c.u - c.l = 1
  <2>1. \A p, q \in c.l..c.u : p < q => B[p] <= B[q]
    BY <1>4, <1>5
  <2>2. Left(d) = 0 /\ Left(c) >= 0
    BY <1>5, LeftIs, LeftNat DEF Sortable, Busy
  <2> QED
    BY <1>3, <1>5, <2>1, <2>2, SortingStep DEF IsStep, Busy
<1>6. CASE c.u - c.l # 1
  <2>1. Known(B, d)
    BY <1>4, <1>6 DEF Known, SameInterval
  <2>2. Left(d) = Left(c) - 1
    BY <1>6, LeftAfter
  <2> QED
    BY <1>3, <1>6, <2>1, <2>2, SortingStep DEF IsStep, Busy
<1> QED
  BY <1>5, <1>6

\* The middle value against the first,
LEMMA SortMiddle ==
    ASSUME NEW A, NEW c, Sortable(A, c), c.pc = "middle", NEW d \in SortCalls, SameInterval(d, c),
           d.i = c.i, NEW B,
           \/ /\ A[c.i] < A[c.l] /\ Exchanged(B, A, c.n, c.i, c.l) /\ d.asked = c.asked
              /\ d.pc = IF c.u - c.l = 2 THEN "end" ELSE "pivot"
           \/ ~(A[c.i] < A[c.l]) /\ B = A /\ d.pc = "last" /\ d.asked = c.asked + 1
    PROVE  Sorting(B, d)
<1> USE SortableType
<1>1. c.l < c.i /\ c.i < c.u /\ A[c.l] <= A[c.u]
  BY DEF Sortable, SortPlaces, Sorting, Known
<1>2. c.l \in c.l..c.u /\ c.u \in c.l..c.u /\ c.i \in c.l..c.u
  BY <1>1
<1>3. \E i, j \in c.l..c.u : Exchanged(B, A, c.n, i, j)
  BY <1>1, <1>2, NoExchange
<1>4. CASE A[c.i] < A[c.l]
  <2>1. B[c.l] <= B[c.i] /\ B[c.i] <= B[c.u]
    <3>1. Exchanged(B, A, c.n, c.i, c.l)
      BY <1>4
    <3>2. B[c.i] = A[c.l] /\ B[c.l] = A[c.i]
      BY <3>1 DEF Exchanged
    <3>3. B[c.u] = A[c.u]
      <4>1. c.u # c.i /\ c.u # c.l /\ c.u \in 1..c.n
        BY <1>1, <1>2
      <4> QED
        BY <3>1, <4>1 DEF Exchanged
    <3> QED
      BY <1>1, <1>2, <1>4, <3>2, <3>3
  <2>2. CASE c.u - c.l = 2
    <3>1. \A p, q \in c.l..c.u : p < q => B[p] <= B[q]
      <4>1. c.l..c.u = {c.l, c.i, c.u}
        BY <1>1, <2>2
      <4>2. B \in [1..c.n -> Int]
        BY <1>3 DEF Exchanged
      <4>3. B[c.l] \in Int /\ B[c.i] \in Int /\ B[c.u] \in Int
        BY <1>2, <4>2
      <4> QED
        BY <1>1, <2>1, <4>1, <4>3
    <3>2. Left(d) = 0 /\ Left(c) >= 0
      BY <1>4, <2>2, LeftIs, LeftNat DEF Sortable, Busy
    <3> QED
      BY <1>3, <1>4, <2>2, <3>1, <3>2, SortingStep DEF IsStep, Busy
  <2>3. CASE c.u - c.l # 2
    <3>1. Known(B, d)
      BY <1>4, <2>1, <2>3 DEF Known, SameInterval
    <3>2. Left(d) = Left(c) - 1
      BY <1>4, <2>3, LeftAfter
    <3> QED
      BY <1>3, <1>4, <2>3, <3>1, <3>2, SortingStep DEF IsStep, Busy
  <2> QED
    BY <2>2, <2>3
<1>5. CASE ~(A[c.i] < A[c.l])
  <2>1. Known(B, d)
    BY <1>1, <1>2, <1>5 DEF Known, SameInterval
  <2>2. Left(d) = Left(c) - 1
    BY <1>5, LeftAfter
  <2> QED
    BY <1>3, <1>5, <2>1, <2>2, SortingStep DEF IsStep, Busy
<1> QED
  BY <1>4, <1>5

\* and against the last.
LEMMA SortLast ==
    ASSUME NEW A, NEW c, Sortable(A, c), c.pc = "last", NEW d \in SortCalls, SameInterval(d, c),
           d.i = c.i, d.asked = c.asked, NEW B,
           \/ A[c.u] < A[c.i] /\ Exchanged(B, A, c.n, c.i, c.u)
           \/ ~(A[c.u] < A[c.i]) /\ B = A,
           d.pc = IF c.u - c.l = 2 THEN "end" ELSE "pivot"
    PROVE  Sorting(B, d)
<1> USE SortableType
<1>1. c.l < c.i /\ c.i < c.u /\ A[c.l] <= A[c.u] /\ A[c.l] <= A[c.i]
  BY DEF Sortable, SortPlaces, Sorting, Known
<1>2. c.l \in c.l..c.u /\ c.u \in c.l..c.u /\ c.i \in c.l..c.u
  BY <1>1
<1>3. \E i, j \in c.l..c.u : Exchanged(B, A, c.n, i, j)
  BY <1>1, <1>2, NoExchange
<1>4. B[c.l] <= B[c.i] /\ B[c.i] <= B[c.u]
  <2>1. CASE A[c.u] < A[c.i] /\ Exchanged(B, A, c.n, c.i, c.u)
    <3>1. B[c.i] = A[c.u] /\ B[c.u] = A[c.i]
      BY <2>1 DEF Exchanged
    <3>2. B[c.l] = A[c.l]
      <4>1. c.l # c.i /\ c.l # c.u /\ c.l \in 1..c.n
        BY <1>1, <1>2
      <4> QED
        BY <2>1, <4>1 DEF Exchanged
    <3> QED
      BY <1>1, <1>2, <2>1, <3>1, <3>2
  <2>2. CASE ~(A[c.u] < A[c.i]) /\ B = A
    BY <1>1, <1>2, <2>2
  <2> QED
    BY <2>1, <2>2
<1>5. CASE c.u - c.l = 2
  <2>1. \A p, q \in c.l..c.u : p < q => B[p] <= B[q]
    <3>1. c.l..c.u = {c.l, c.i, c.u}
      BY <1>1, <1>5
    <3>2. B \in [1..c.n -> Int]
      BY <1>3 DEF Exchanged
    <3>3. B[c.l] \in Int /\ B[c.i] \in Int /\ B[c.u] \in Int
      BY <1>2, <3>2
    <3> QED
      BY <1>1, <1>4, <3>1, <3>3
  <2>2. Left(d) = 0 /\ Left(c) >= 0
    BY <1>5, LeftIs, LeftNat DEF Sortable, Busy
  <2> QED
    BY <1>3, <1>5, <2>1, <2>2, SortingStep DEF IsStep, Busy
<1>6. CASE c.u - c.l # 2
  <2>1. Known(B, d)
    BY <1>4, <1>6 DEF Known, SameInterval
  <2>2. Left(d) = Left(c)
    BY <1>6, LeftAfter
  <2> QED
    BY <1>3, <1>6, <2>1, <2>2, SortingStep DEF IsStep, Busy
<1> QED
  BY <1>5, <1>6

\* The pivot is put aside.
LEMMA SortPivot ==
    ASSUME NEW A, NEW c, Sortable(A, c), c.pc = "pivot", NEW d \in SortCalls, SameInterval(d, c),
           NEW B, Exchanged(B, A, c.n, c.i, c.u - 1), d.pc = "up", d.asked = c.asked + 1,
           d.i = c.l + 1, d.j = c.u - 1, d.P = A[c.i]
    PROVE  Sorting(B, d)
<1> USE SortableType
<1>1. c.l < c.i /\ c.i < c.u /\ c.l + 3 <= c.u /\ A[c.l] <= A[c.i] /\ A[c.i] <= A[c.u]
  BY DEF Sortable, SortPlaces, Sorting, Known
<1>2. c.l \in c.l..c.u /\ c.u \in c.l..c.u /\ c.i \in c.l..c.u /\ c.u - 1 \in c.l..c.u
  BY <1>1
<1>3. \E i, j \in c.l..c.u : Exchanged(B, A, c.n, i, j)
  BY <1>2
<1>4. B[c.l] <= d.P /\ B[c.u - 1] = d.P /\ d.P <= B[c.u] /\ d.P \in Int
  <2>1. B[c.u - 1] = A[c.i]
    BY DEF Exchanged
  <2>2. B[c.l] = A[c.l] /\ B[c.u] = A[c.u]
    <3>1. c.l # c.i /\ c.l # c.u - 1 /\ c.u # c.i /\ c.u # c.u - 1
      BY <1>1
    <3>2. c.l \in 1..c.n /\ c.u \in 1..c.n
      BY <1>2
    <3> QED
      BY <3>1, <3>2 DEF Exchanged
  <2> QED
    BY <1>1, <1>2, <2>1, <2>2
<1>5. Known(B, d)
  <2>1. c.l..(c.l + 1 - 1) = {c.l} /\ (c.u - 1)..c.u = {c.u - 1, c.u}
    OBVIOUS
  <2>2. d.l = c.l /\ d.u = c.u
    BY DEF SameInterval
  <2>3. Below(B, d.P, d.l, d.i - 1) /\ Above(B, d.P, d.j, d.u)
    BY <1>4, <2>1, <2>2 DEF Below, Above
  <2> QED
    BY <1>1, <1>4, <2>2, <2>3 DEF Known
<1>6. Left(d) = Left(c) - 1
  BY LeftAfter
<1> QED
  BY <1>3, <1>5, <1>6, SortingStep DEF IsStep, Busy

\* While the values are parted.
LEMMA PartingIs ==
    ASSUME NEW A, NEW c, Sortable(A, c), c.pc \in {"up", "down", "split"}
    PROVE  /\ c.l + 3 <= c.u /\ c.l < c.i /\ c.i < c.u /\ c.i <= c.j + 2
           /\ A[c.u - 1] = c.P /\ Below(A, c.P, c.l, c.i - 1) /\ c.P \in Int
           /\ c.l \in c.l..c.u /\ c.i \in c.l..c.u /\ c.u - 1 \in c.l..c.u
           /\ \E i, j \in c.l..c.u : Exchanged(A, A, c.n, i, j)
           /\ c.pc = "up" => c.l < c.j /\ c.j < c.u /\ c.i <= c.j + 1 /\ Above(A, c.P, c.j, c.u)
           /\ c.pc \in {"down", "split"} => Above(A, c.P, c.j + 1, c.u) /\ c.P <= A[c.i]
           /\ c.pc = "down" => c.l <= c.j /\ c.j < c.u - 1
           /\ c.pc = "split" => c.j < c.i
<1> USE SortableType
<1>1. Known(A, c) /\ SortPlaces(c)
  BY DEF Sortable, Sorting
<1>2. c.l + 3 <= c.u /\ c.l < c.i /\ c.i < c.u
  BY <1>1 DEF Known, SortPlaces
<1>3. A[c.u - 1] = c.P /\ c.u - 1 \in c.l..c.u
  BY <1>1, <1>2 DEF Known
<1>4. c.P \in Int
  BY <1>3
<1>5. \E i, j \in c.l..c.u : Exchanged(A, A, c.n, i, j)
  BY <1>2, NoExchange
<1> QED
  BY <1>1, <1>2, <1>3, <1>4, <1>5 DEF Known, SortPlaces

\* a[i] < P?
LEMMA SortUp ==
    ASSUME NEW A, NEW c, Sortable(A, c), c.pc = "up", NEW d \in SortCalls, SameInterval(d, c),
           d.P = c.P, d.asked = c.asked + 1,
           \/ A[c.i] < c.P /\ d.pc = "up" /\ d.i = c.i + 1 /\ d.j = c.j
           \/ ~(A[c.i] < c.P) /\ d.pc = "down" /\ d.i = c.i /\ d.j = c.j - 1
    PROVE  Sorting(A, d)
<1> USE SortableType
<1>1. /\ c.l + 3 <= c.u /\ c.l < c.i /\ c.i < c.u /\ c.i <= c.j + 1 /\ c.l < c.j /\ c.j < c.u
      /\ A[c.u - 1] = c.P /\ Below(A, c.P, c.l, c.i - 1) /\ Above(A, c.P, c.j, c.u)
      /\ c.P \in Int /\ c.i \in c.l..c.u
  BY PartingIs
<1>2. \E i, j \in c.l..c.u : Exchanged(A, A, c.n, i, j)
  BY PartingIs
<1>3. d.l = c.l /\ d.u = c.u
  BY DEF SameInterval
<1>4. Left(d) = Left(c) - 1
  <2>1. d.i - d.j = c.i - c.j + 1
    OBVIOUS
  <2> QED
    BY <2>1, LeftAfter
<1>5. Known(A, d)
  <2>1. CASE A[c.i] < c.P
    <3>1. c.i < c.j /\ c.i # c.u - 1
      <4>1. ~(c.i \in c.j..c.u)
        BY <1>1, <2>1 DEF Above
      <4> QED
        BY <1>1, <4>1
    <3>2. Below(A, c.P, c.l, c.i + 1 - 1)
      <4>1. \A k \in c.l..(c.i + 1 - 1) : k \in c.l..(c.i - 1) \/ k = c.i
        BY <1>1
      <4> QED
        BY <1>1, <2>1, <4>1 DEF Below
    <3> QED
      BY <1>1, <1>3, <2>1, <3>1, <3>2 DEF Known
  <2>2. CASE ~(A[c.i] < c.P)
    <3>1. Above(A, c.P, c.j - 1 + 1, c.u) /\ c.P <= A[c.i]
      BY <1>1, <2>2
    <3> QED
      BY <1>1, <1>3, <2>2, <3>1 DEF Known
  <2> QED
    BY <2>1, <2>2
<1> QED
  BY <1>2, <1>4, <1>5, SortingStep DEF IsStep, Busy

\* P < a[j]?
LEMMA SortDown ==
    ASSUME NEW A, NEW c, Sortable(A, c), c.pc = "down", NEW d \in SortCalls, SameInterval(d, c),
           d.P = c.P, NEW B,
           \/ /\ c.P < A[c.j] /\ B = A /\ d.pc = "down" /\ d.i = c.i /\ d.j = c.j - 1
              /\ d.asked = c.asked + 1
           \/ /\ ~(c.P < A[c.j]) /\ c.j < c.i /\ B = A /\ d.pc = "split" /\ d.i = c.i /\ d.j = c.j
              /\ d.asked = c.asked
           \/ /\ ~(c.P < A[c.j]) /\ ~(c.j < c.i) /\ Exchanged(B, A, c.n, c.i, c.j)
              /\ d.pc = "up" /\ d.i = c.i + 1 /\ d.j = c.j /\ d.asked = c.asked + 1
    PROVE  Sorting(B, d)
<1> USE SortableType
<1>1. /\ c.l + 3 <= c.u /\ c.l < c.i /\ c.i < c.u /\ c.i <= c.j + 2 /\ c.l <= c.j /\ c.j < c.u - 1
      /\ A[c.u - 1] = c.P /\ Below(A, c.P, c.l, c.i - 1) /\ Above(A, c.P, c.j + 1, c.u)
      /\ c.P <= A[c.i] /\ c.P \in Int /\ c.i \in c.l..c.u /\ c.u - 1 \in c.l..c.u
  BY PartingIs
<1>2. \E i, j \in c.l..c.u : Exchanged(A, A, c.n, i, j)
  BY PartingIs
<1>3. d.l = c.l /\ d.u = c.u
  BY DEF SameInterval
<1>4. c.j \in c.l..c.u /\ A[c.j] \in Int
  BY <1>1
<1>5. CASE /\ c.P < A[c.j] /\ B = A /\ d.pc = "down" /\ d.i = c.i /\ d.j = c.j - 1
           /\ d.asked = c.asked + 1
  <2>1. ~(c.j \in c.l..(c.i - 1))
    BY <1>1, <1>4, <1>5 DEF Below
  <2>2. c.i <= c.j
    BY <1>1, <2>1
  <2>3. Above(A, c.P, c.j - 1 + 1, c.u)
    <3>1. \A k \in (c.j - 1 + 1)..c.u : k \in (c.j + 1)..c.u \/ k = c.j
      BY <1>1
    <3> QED
      BY <1>1, <1>4, <1>5, <3>1 DEF Above
  <2>4. Known(A, d)
    BY <1>1, <1>3, <1>5, <2>2, <2>3 DEF Known
  <2>5. Left(d) = Left(c) - 1
    <3>1. d.i - d.j = c.i - c.j + 1
      BY <1>5
    <3> QED
      BY <1>5, <3>1, LeftAfter
  <2> QED
    BY <1>2, <1>5, <2>4, <2>5, SortingStep DEF IsStep, Busy
<1>6. CASE /\ c.j < c.i /\ B = A /\ d.pc = "split" /\ d.i = c.i /\ d.j = c.j
           /\ d.asked = c.asked
  <2>1. Known(A, d)
    BY <1>1, <1>3, <1>6 DEF Known
  <2>2. Left(d) = Left(c)
    BY <1>6, LeftAfter
  <2> QED
    BY <1>2, <1>6, <2>1, <2>2, SortingStep DEF IsStep, Busy
<1>7. CASE /\ ~(c.P < A[c.j]) /\ ~(c.j < c.i) /\ Exchanged(B, A, c.n, c.i, c.j)
           /\ d.pc = "up" /\ d.i = c.i + 1 /\ d.j = c.j /\ d.asked = c.asked + 1
  <2>1. B[c.i] = A[c.j] /\ B[c.j] = A[c.i]
    BY <1>7 DEF Exchanged
  <2>2. \A k \in c.l..c.u : k # c.i /\ k # c.j => B[k] = A[k]
    BY <1>7 DEF Exchanged
  <2>3. Below(B, c.P, c.l, c.i + 1 - 1)
    <3>1. SUFFICES ASSUME NEW k \in c.l..(c.i + 1 - 1) PROVE B[k] <= c.P
      BY DEF Below
    <3>2. CASE k = c.i
      BY <1>1, <1>4, <1>7, <2>1, <3>2
    <3>3. CASE k # c.i
      <4>1. k \in c.l..(c.i - 1) /\ k # c.j /\ k \in c.l..c.u
        BY <1>1, <1>7, <3>3
      <4> QED
        BY <1>1, <2>2, <3>3, <4>1 DEF Below
    <3> QED
      BY <3>2, <3>3
  <2>4. Above(B, c.P, c.j, c.u)
    <3>1. SUFFICES ASSUME NEW k \in c.j..c.u PROVE c.P <= B[k]
      BY DEF Above
    <3>2. CASE k = c.j
      BY <1>1, <2>1, <3>2
    <3>3. CASE k # c.j
      <4>1. k \in (c.j + 1)..c.u /\ k # c.i /\ k \in c.l..c.u
        BY <1>1, <1>7, <3>3
      <4> QED
        BY <1>1, <2>2, <3>3, <4>1 DEF Above
    <3> QED
      BY <3>2, <3>3
  <2>5. B[c.u - 1] = c.P
    <3>1. c.u - 1 # c.i /\ c.u - 1 # c.j
      BY <1>1, <1>7
    <3> QED
      BY <1>1, <2>2, <3>1
  <2>6. Known(B, d)
    BY <1>1, <1>3, <1>7, <2>3, <2>4, <2>5 DEF Known
  <2>7. Left(d) = Left(c) - 1
    <3>1. d.i - d.j = c.i - c.j + 1
      BY <1>7
    <3> QED
      BY <1>7, <3>1, LeftAfter
  <2>8. \E i, j \in c.l..c.u : Exchanged(B, A, c.n, i, j)
    BY <1>1, <1>4, <1>7
  <2> QED
    BY <1>7, <2>6, <2>7, <2>8, SortingStep DEF IsStep, Busy
<1> QED
  BY <1>5, <1>6, <1>7

\* The next interval comes from the stack.
LEMMA SortPop ==
    ASSUME NEW A, NEW c, Sortable(A, c), c.pc = "end", c.stack # << >>, NEW d \in SortCalls,
           d.pc = "while", d.n = c.n, d.asked = c.asked, d.l = Head(c.stack)[1],
           d.u = Head(c.stack)[2], d.stack = Tail(c.stack)
    PROVE  Sorting(A, d)
<1> USE SortableType
<1>1. /\ c.stack \in Seq(Int \X Int) /\ Len(c.stack) \in Nat /\ Len(c.stack) >= 1
      /\ Len(d.stack) = Len(c.stack) - 1 /\ d.l = c.stack[1][1] /\ d.u = c.stack[1][2]
      /\ \A k \in 1..Len(d.stack) : d.stack[k] = c.stack[k + 1]
      /\ \A k \in 1..Len(c.stack) : c.stack[k][1] \in Int /\ c.stack[k][2] \in Int
  <2>1. c.stack \in Seq(Int \X Int)
    BY DEF SortCalls
  <2> DEFINE st == c.stack
  <2>2. st \in Seq(Int \X Int) /\ st # << >>
    BY <2>1
  <2>3. d.l = Head(st)[1] /\ d.u = Head(st)[2] /\ d.stack = Tail(st)
    OBVIOUS
  <2> HIDE DEF st
  <2>4. Len(st) \in Nat /\ Len(st) >= 1 /\ Head(st) = st[1]
    BY <2>2
  <2>5. Len(Tail(st)) = Len(st) - 1 /\ \A k \in 1..Len(Tail(st)) : Tail(st)[k] = st[k + 1]
    BY <2>2, <2>4
  <2>6. \A k \in 1..Len(st) : st[k][1] \in Int /\ st[k][2] \in Int
    BY <2>2
  <2>7. /\ Len(st) \in Nat /\ Len(st) >= 1
        /\ Len(d.stack) = Len(st) - 1 /\ d.l = st[1][1] /\ d.u = st[1][2]
        /\ \A k \in 1..Len(d.stack) : d.stack[k] = st[k + 1]
        /\ \A k \in 1..Len(st) : st[k][1] \in Int /\ st[k][2] \in Int
    BY <2>3, <2>4, <2>5, <2>6
  <2> QED
    BY <2>1, <2>7 DEF st
<1>9. Len(c.stack) \in Nat /\ Len(c.stack) >= 1 /\ Len(d.stack) = Len(c.stack) - 1
  BY <1>1
<1>2. InOrder(A, c) /\ AllApart(c) /\ IsCheap(c) /\ c.pc \notin Busy
  BY DEF Sortable, Sorting, Busy
<1>3. \A p, q : InHand(c, p, q) = FALSE
  BY <1>2 DEF InHand
<1>4. ASSUME NEW p, NEW q, Waits(c, p, q) PROVE InHand(d, p, q) \/ Waits(d, p, q)
  <2>1. PICK k \in 1..Len(c.stack) : c.stack[k][1] <= p /\ q <= c.stack[k][2]
    BY <1>4 DEF Waits
  <2>2. CASE k = 1
    BY <1>1, <2>1, <2>2 DEF InHand, Busy
  <2>3. CASE k # 1
    <3>1. k - 1 \in 1..Len(d.stack) /\ d.stack[k - 1] = c.stack[k]
      BY <1>1, <2>3
    <3> QED
      BY <2>1, <3>1 DEF Waits
  <2> QED
    BY <2>2, <2>3
<1>5. InOrder(A, d)
  BY <1>2, <1>3, <1>4 DEF InOrder
<1>6. AllApart(d)
  <2>1. ASSUME NEW k \in 1..Len(d.stack)
        PROVE  /\ Apart(d.l, d.u, d.stack[k][1], d.stack[k][2])
               /\ \A m \in 1..Len(d.stack) :
                     m # k => Apart(d.stack[k][1], d.stack[k][2], d.stack[m][1], d.stack[m][2])
    <3>1. k + 1 \in 1..Len(c.stack) /\ 1 \in 1..Len(c.stack) /\ 1 # k + 1
      BY <1>9
    <3>2. Apart(d.l, d.u, d.stack[k][1], d.stack[k][2])
      BY <1>1, <1>2, <3>1 DEF AllApart
    <3>3. ASSUME NEW m \in 1..Len(d.stack), m # k
          PROVE  Apart(d.stack[k][1], d.stack[k][2], d.stack[m][1], d.stack[m][2])
      <4>1. m + 1 \in 1..Len(c.stack) /\ m + 1 # k + 1
        BY <1>1, <3>3
      <4> QED
        BY <1>1, <1>2, <3>1, <4>1 DEF AllApart
    <3> QED
      BY <3>2, <3>3
  <2> QED
    BY <2>1 DEF AllApart
<1>7. IsCheap(d)
  <2>1. PICK W : IsEnough(c, W) /\ c.asked + Left(c) + W[0] <= c.n * c.n
    BY <1>2 DEF IsCheap
  <2> DEFINE V == [k \in 0..Len(d.stack) |-> W[k + 1]]
             s == d.u - d.l + 1
             ss == s * s
             nn == c.n * c.n
  <2>2. W \in [0..Len(c.stack) -> Nat]
    BY <2>1 DEF IsEnough
  <2>3. V \in [0..Len(d.stack) -> Nat]
    BY <1>1, <2>2
  <2>4. ASSUME NEW k \in 1..Len(d.stack)
        PROVE  LET z == d.stack[k][2] - d.stack[k][1] + 1 IN V[k - 1] >= V[k] + z * z
    <3>1. k + 1 \in 1..Len(c.stack) /\ k - 1 \in 0..Len(d.stack) /\ k \in 0..Len(d.stack)
      BY <1>9
    <3>2. V[k - 1] = W[k] /\ V[k] = W[k + 1] /\ d.stack[k] = c.stack[k + 1]
      <4>1. k - 1 + 1 = k
        OBVIOUS
      <4>2. V[k - 1] = W[k - 1 + 1] /\ V[k] = W[k + 1]
        BY <3>1
      <4>3. d.stack[k] = c.stack[k + 1]
        BY <1>1
      <4> QED
        BY <4>1, <4>2, <4>3
    <3>3. LET z == c.stack[k + 1][2] - c.stack[k + 1][1] + 1 IN W[k + 1 - 1] >= W[k + 1] + z * z
      BY <2>1, <3>1 DEF IsEnough
    <3>4. k + 1 - 1 = k
      OBVIOUS
    <3> QED
      BY <3>2, <3>3, <3>4
  <2>5. IsEnough(d, V)
    BY <2>3, <2>4 DEF IsEnough
  <2>6. W[0] >= V[0] + ss
    <3>1. 1 \in 1..Len(c.stack) /\ 0 \in 0..Len(d.stack) /\ 1 - 1 = 0 /\ 0 + 1 = 1
      BY <1>1
    <3>2. V[0] = W[1]
      BY <3>1
    <3>3. LET z == c.stack[1][2] - c.stack[1][1] + 1 IN W[1 - 1] >= W[1] + z * z
      BY <2>1, <3>1 DEF IsEnough
    <3> QED
      BY <1>1, <3>1, <3>2, <3>3
  <2>7. Left(d) = ss /\ Left(c) = 0
    BY <1>2, LeftIs
  <2>8. ss \in Int /\ nn \in Int /\ V[0] \in Int /\ W[0] \in Int
    <3>1. 0 \in 0..Len(d.stack) /\ 0 \in 0..Len(c.stack)
      BY <1>1
    <3>2. s \in Int
      <4>1. d.l \in Int /\ d.u \in Int
        BY DEF SortCalls
      <4> QED
        BY <4>1
    <3> QED
      BY <2>2, <2>3, <3>1, <3>2
  <2>9. d.asked + Left(d) + V[0] <= nn
    <3>1. c.asked + Left(c) + W[0] <= nn
      BY <2>1
    <3> HIDE DEF V, ss, nn
    <3> QED
      BY <2>6, <2>7, <2>8, <3>1
  <2> QED
    BY <2>5, <2>9 DEF IsCheap
<1>8. Known(A, d)
  BY DEF Known
<1> QED
  BY <1>5, <1>6, <1>7, <1>8 DEF Sorting

\* Nothing is left.
LEMMA SortReturn ==
    ASSUME NEW A, NEW c, Sortable(A, c), c.pc = "end", c.stack = << >>, NEW d \in SortCalls,
           d.pc = "returned", d.asked = c.asked, SameCall(d, c)
    PROVE  Sorting(A, d)
<1>1. c.pc \notin Busy /\ d.pc \notin Busy /\ InOrder(A, c) /\ AllApart(c) /\ IsCheap(c)
  BY DEF Busy, Sortable, Sorting
<1>2. InOrder(A, d) /\ AllApart(d)
  <2>1. \A p, q : InHand(d, p, q) = InHand(c, p, q)
    BY <1>1 DEF InHand
  <2>2. \A p, q : Waits(d, p, q) = Waits(c, p, q)
    BY DEF Waits, SameCall
  <2>3. d.n = c.n /\ d.stack = c.stack
    BY DEF SameCall
  <2>4. InOrder(A, d)
    BY <1>1, <2>1, <2>2, <2>3 DEF InOrder
  <2> QED
    BY <1>1, <2>3, <2>4 DEF AllApart
<1>3. IsCheap(d)
  <2>1. Left(c) = 0 /\ Left(d) = 0
    BY <1>1, LeftIs, SortableType
  <2> QED
    BY <1>1, <2>1, CheapStep, SortableType
<1>4. Known(A, d) /\ d.stack = << >>
  BY DEF Known, SameCall
<1> QED
  BY <1>2, <1>3, <1>4 DEF Sorting

\* One more interval on the stack.
LEMMA Pushed ==
    ASSUME NEW S, NEW st \in Seq(S), NEW v \in S
    PROVE  LET new == <<v>> \o st
           IN  /\ new \in Seq(S) /\ Len(new) = Len(st) + 1 /\ Len(st) \in Nat /\ new[1] = v
               /\ \A k \in 1..Len(st) : new[k + 1] = st[k]
<1> DEFINE one == <<v>>
           new == one \o st
<1>1. one \in Seq(S) /\ Len(one) = 1 /\ one[1] = v
  OBVIOUS
<1>2. Len(st) \in Nat
  OBVIOUS
<1> HIDE DEF one
<1>3. /\ new \in Seq(S) /\ Len(new) = Len(one) + Len(st)
      /\ \A k \in 1..(Len(one) + Len(st)) :
            new[k] = IF k <= Len(one) THEN one[k] ELSE st[k - Len(one)]
  BY <1>1, ConcatProperties
<1> HIDE DEF new
<1>4. new[1] = v
  <2>1. 1 \in 1..(Len(one) + Len(st)) /\ 1 <= Len(one)
    BY <1>1, <1>2
  <2> QED
    BY <1>1, <1>3, <2>1
<1>5. ASSUME NEW k \in 1..Len(st) PROVE new[k + 1] = st[k]
  <2>1. k + 1 \in 1..(Len(one) + Len(st)) /\ ~(k + 1 <= Len(one)) /\ k + 1 - Len(one) = k
    BY <1>1, <1>2
  <2> QED
    BY <1>3, <2>1
<1>6. Len(new) = Len(st) + 1
  BY <1>1, <1>2, <1>3
<1> QED
  BY <1>2, <1>3, <1>4, <1>5, <1>6 DEF one, new

\* The squares of two parts are less than that of the whole.
LEMMA Squares ==
    ASSUME NEW a \in Nat, NEW b \in Nat, NEW s \in Nat, a + b = s - 1, s >= 4
    PROVE  a * a + b * b + s + 3 <= s * s
<1>1. (a + b) * (a + b) = a * a + b * b + 2 * (a * b) /\ a * b >= 0
  OBVIOUS
<1>2. (s - 1) * (s - 1) = s * s - 2 * s + 1
  OBVIOUS
<1> DEFINE aa == a * a  bb == b * b  ab == a * b  ss == s * s
<1>3. aa \in Int /\ bb \in Int /\ ab \in Int /\ ss \in Int
  OBVIOUS
<1>4. aa + bb + 2 * ab = ss - 2 * s + 1 /\ ab >= 0
  BY <1>1, <1>2
<1> HIDE DEF aa, bb, ab, ss
<1>5. aa + bb + s + 3 <= ss
  BY <1>3, <1>4
<1> QED
  BY <1>5 DEF aa, bb, ss

\* The two parts of the interval: in hand, and on the stack.
IsSplit(c, d) ==
    /\ d.pc = "while" /\ d.n = c.n /\ d.asked = c.asked
    /\ Len(d.stack) = Len(c.stack) + 1
    /\ \A k \in 1..Len(c.stack) : d.stack[k + 1] = c.stack[k]
    /\ \/ /\ d.l = c.l /\ d.u = c.i - 1
          /\ d.stack[1][1] = c.i + 1 /\ d.stack[1][2] = c.u
       \/ /\ d.l = c.i + 1 /\ d.u = c.u
          /\ d.stack[1][1] = c.l /\ d.stack[1][2] = c.i - 1

\* The pivot is in its place; what is below it and what is above it remain.
LEMMA SortSplit ==
    ASSUME NEW A, NEW c, Sortable(A, c), c.pc = "split", NEW B,
           Exchanged(B, A, c.n, c.u - 1, c.i),
           NEW d \in SortCalls, IsSplit(c, d)
    PROVE  Sorting(B, d)
<1>0. /\ c \in SortCalls /\ c.n \in Nat /\ c.l \in Int /\ c.u \in Int /\ c.i \in Int /\ c.j \in Int
      /\ c.asked \in Nat /\ c.l >= 1 /\ c.u <= c.n /\ c.l..c.u \subseteq 1..c.n
      /\ (\A k \in 1..c.n : A[k] \in Int) /\ Left(c) \in Int
  BY SortableType
<1>1. /\ c.l + 3 <= c.u /\ c.l < c.i /\ c.i < c.u /\ c.i <= c.j + 2 /\ c.j < c.i
      /\ A[c.u - 1] = c.P /\ Below(A, c.P, c.l, c.i - 1) /\ Above(A, c.P, c.j + 1, c.u)
      /\ c.P <= A[c.i] /\ c.P \in Int /\ c.i \in c.l..c.u /\ c.u - 1 \in c.l..c.u
  BY PartingIs
<1>2. /\ InOrder(A, c) /\ AllApart(c) /\ IsCheap(c) /\ c.pc \in Busy /\ SortPlaces(c)
      /\ c \in SortCalls /\ A \in [1..c.n -> Int]
  BY DEF Sortable, Sorting, Busy
<1> DEFINE nl == d.l  nu == d.u  ml == d.stack[1][1]  mu == d.stack[1][2]
<1>3. /\ nl \in Int /\ nu \in Int /\ ml \in Int /\ mu \in Int
      /\ \/ nl = c.l /\ nu = c.i - 1 /\ ml = c.i + 1 /\ mu = c.u
         \/ nl = c.i + 1 /\ nu = c.u /\ ml = c.l /\ mu = c.i - 1
  <2>1. \/ nl = c.l /\ nu = c.i - 1 /\ ml = c.i + 1 /\ mu = c.u
        \/ nl = c.i + 1 /\ nu = c.u /\ ml = c.l /\ mu = c.i - 1
    BY DEF IsSplit
  <2> HIDE DEF nl, nu, ml, mu
  <2> QED
    BY <1>0, <2>1
<1>4. /\ c.stack \in Seq(Int \X Int) /\ Len(c.stack) \in Nat
      /\ \A k \in 1..Len(c.stack) : c.stack[k][1] \in Int /\ c.stack[k][2] \in Int
  <2>1. c.stack \in Seq(Int \X Int)
    BY <1>2 DEF SortCalls
  <2> DEFINE st == c.stack
  <2>2. st \in Seq(Int \X Int)
    BY <2>1
  <2> HIDE DEF st
  <2>3. Len(st) \in Nat /\ \A k \in 1..Len(st) : st[k] \in Int \X Int
    BY <2>2
  <2>4. \A k \in 1..Len(st) : st[k][1] \in Int /\ st[k][2] \in Int
    BY <2>3
  <2> QED
    BY <2>1, <2>3, <2>4 DEF st
<1>14. d.pc = "while" /\ d.n = c.n /\ d.asked = c.asked
  BY DEF IsSplit
<1>5. /\ Len(d.stack) = Len(c.stack) + 1
      /\ \A k \in 1..Len(c.stack) : d.stack[k + 1] = c.stack[k]
      /\ \A k \in 1..Len(d.stack) : k = 1 \/ (k - 1 \in 1..Len(c.stack) /\ d.stack[k] = c.stack[k - 1])
  <2>1. /\ Len(d.stack) = Len(c.stack) + 1
        /\ \A k \in 1..Len(c.stack) : d.stack[k + 1] = c.stack[k]
    BY DEF IsSplit
  <2>2. ASSUME NEW k \in 1..Len(d.stack), k # 1
        PROVE  k - 1 \in 1..Len(c.stack) /\ d.stack[k] = c.stack[k - 1]
    <3>1. k - 1 \in 1..Len(c.stack) /\ k - 1 + 1 = k
      BY <1>4, <2>1, <2>2
    <3> QED
      BY <2>1, <3>1
  <2> QED
    BY <2>1, <2>2
<1> HIDE DEF nl, nu, ml, mu
<1>6. InOrder(B, c)
  BY <1>0, <1>1, <1>2, SwapOrder
<1>7. /\ B[c.i] = c.P /\ \A k \in c.l..(c.i - 1) : B[k] <= c.P
      /\ \A k \in (c.i + 1)..c.u : c.P <= B[k]
  <2>1. B[c.u - 1] = A[c.i] /\ B[c.i] = A[c.u - 1]
    BY DEF Exchanged
  <2>2. ASSUME NEW k \in c.l..(c.i - 1) PROVE B[k] <= c.P
    <3>1. k # c.i /\ k # c.u - 1 /\ k \in 1..c.n
      BY <1>0, <1>1
    <3>2. B[k] = A[k]
      BY <3>1 DEF Exchanged
    <3> QED
      BY <1>0, <1>1, <3>2 DEF Below
  <2>3. ASSUME NEW k \in (c.i + 1)..c.u PROVE c.P <= B[k]
    <3>1. CASE k = c.u - 1
      BY <1>0, <1>1, <2>1, <3>1
    <3>2. CASE k # c.u - 1
      <4>1. k # c.i /\ k \in 1..c.n /\ k \in (c.j + 1)..c.u
        <5>1. c.j \in Int
          BY <1>0
        <5> QED
          BY <1>0, <1>1, <5>1
      <4>2. B[k] = A[k]
        BY <3>2, <4>1 DEF Exchanged
      <4> QED
        BY <1>0, <1>1, <4>1, <4>2 DEF Above
    <3> QED
      BY <3>1, <3>2
  <2> QED
    BY <1>0, <1>1, <2>1, <2>2, <2>3
<1>8. ASSUME NEW p \in Int, NEW q \in Int, p < q, InHand(c, p, q)
      PROVE  B[p] <= B[q] \/ InHand(d, p, q) \/ Waits(d, p, q)
  <2>1. c.l <= p /\ q <= c.u
    BY <1>8 DEF InHand
  <2>2. q < c.i \/ c.i < p => InHand(d, p, q) \/ Waits(d, p, q)
    <3>1. 1 \in 1..Len(d.stack)
      BY <1>4, <1>5
    <3>2. (nl <= p /\ q <= nu) \/ (ml <= p /\ q <= mu) => InHand(d, p, q) \/ Waits(d, p, q)
      BY <1>14, <3>1 DEF InHand, Waits, Busy, nl, nu, ml, mu
    <3>3. q < c.i => c.l <= p /\ q <= c.i - 1
      BY <1>0, <2>1
    <3>4. c.i < p => c.i + 1 <= p /\ q <= c.u
      BY <1>0, <2>1
    <3> QED
      BY <1>3, <3>2, <3>3, <3>4
  <2>3. p <= c.i /\ c.i <= q => B[p] <= B[q]
    <3>1. SUFFICES ASSUME p <= c.i, c.i <= q PROVE B[p] <= B[q]
      OBVIOUS
    <3>2. B[p] <= c.P /\ B[p] \in Int
      <4>1. p \in 1..c.n /\ (p = c.i \/ p \in c.l..(c.i - 1))
        BY <1>0, <1>1, <2>1, <3>1
      <4>2. B \in [1..c.n -> Int]
        BY DEF Exchanged
      <4>3. B[p] \in Int
        BY <4>1, <4>2
      <4>4. B[p] <= c.P
        BY <1>1, <1>7, <4>1
      <4> QED
        BY <4>3, <4>4
    <3>3. c.P <= B[q] /\ B[q] \in Int
      <4>1. q \in 1..c.n /\ (q = c.i \/ q \in (c.i + 1)..c.u)
        BY <1>0, <1>1, <2>1, <3>1
      <4>2. B \in [1..c.n -> Int]
        BY DEF Exchanged
      <4>3. B[q] \in Int
        BY <4>1, <4>2
      <4>4. c.P <= B[q]
        BY <1>1, <1>7, <4>1
      <4> QED
        BY <4>3, <4>4
    <3> QED
      BY <1>0, <1>1, <3>2, <3>3
  <2> QED
    BY <1>0, <1>1, <1>8, <2>2, <2>3
<1>9. ASSUME NEW p, NEW q, Waits(c, p, q) PROVE Waits(d, p, q)
  <2>1. PICK k \in 1..Len(c.stack) : c.stack[k][1] <= p /\ q <= c.stack[k][2]
    BY <1>9 DEF Waits
  <2>2. k + 1 \in 1..Len(d.stack) /\ d.stack[k + 1] = c.stack[k]
    BY <1>4, <1>5
  <2> QED
    BY <2>1, <2>2 DEF Waits
<1>10. InOrder(B, d)
  BY <1>0, <1>6, <1>8, <1>9, <1>14 DEF InOrder
<1>11. AllApart(d)
  <2>1. ASSUME NEW k \in 1..Len(c.stack)
        PROVE  /\ Apart(c.l, c.i - 1, c.stack[k][1], c.stack[k][2])
               /\ Apart(c.i + 1, c.u, c.stack[k][1], c.stack[k][2])
    <3>1. Apart(c.l, c.u, c.stack[k][1], c.stack[k][2])
      BY <1>2 DEF AllApart
    <3>2. c.stack[k][1] \in Int /\ c.stack[k][2] \in Int
      BY <1>4
    <3>3. c.u < c.stack[k][1] \/ c.stack[k][2] < c.l
      BY <3>1 DEF Apart
    <3>4. c.l <= c.i + 1 /\ c.i - 1 <= c.u
      <4>1. c.l \in Int /\ c.i \in Int /\ c.u \in Int
        BY <1>0
      <4>2. c.l < c.i /\ c.i < c.u
        BY <1>1
      <4> QED
        BY <4>1, <4>2
    <3> DEFINE a == c.stack[k][1]
               b == c.stack[k][2]
               up == c.i + 1
               down == c.i - 1
    <3>7. /\ a \in Int /\ b \in Int /\ c.l \in Int /\ c.u \in Int /\ up \in Int /\ down \in Int
          /\ c.l <= up /\ down <= c.u
      <4>1. c.l \in Int /\ c.i \in Int /\ c.u \in Int
        BY <1>0
      <4>2. up \in Int /\ down \in Int
        BY <4>1
      <4> QED
        BY <3>2, <3>4, <4>1, <4>2
    <3>8. c.u < a \/ b < c.l
      BY <3>3
    <3> HIDE DEF a, b, up, down
    <3>9. down < a \/ b < c.l
      BY <3>7, <3>8
    <3>10. c.u < a \/ b < up
      BY <3>7, <3>8
    <3>5. c.i - 1 < c.stack[k][1] \/ c.stack[k][2] < c.l
      BY <3>9 DEF a, b, down
    <3>6. c.u < c.stack[k][1] \/ c.stack[k][2] < c.i + 1
      BY <3>10 DEF a, b, up
    <3> QED
      BY <3>5, <3>6 DEF Apart
  <2>2. \A a, b, l, m : Apart(a, b, l, m) => Apart(l, m, a, b)
    BY DEF Apart
  <2>3. Apart(nl, nu, ml, mu)
    BY <1>0, <1>3 DEF Apart
  <2>4. ASSUME NEW k \in 1..Len(d.stack)
        PROVE  /\ Apart(nl, nu, d.stack[k][1], d.stack[k][2])
               /\ k # 1 => Apart(ml, mu, d.stack[k][1], d.stack[k][2])
    <3>1. CASE k = 1
      BY <2>3, <3>1 DEF ml, mu
    <3>2. CASE k # 1
      <4>1. k - 1 \in 1..Len(c.stack) /\ d.stack[k] = c.stack[k - 1]
        BY <1>5, <3>2
      <4>2. /\ Apart(c.l, c.i - 1, d.stack[k][1], d.stack[k][2])
            /\ Apart(c.i + 1, c.u, d.stack[k][1], d.stack[k][2])
        BY <2>1, <4>1
      <4> QED
        BY <1>3, <4>2
    <3> QED
      BY <3>1, <3>2
  <2>5. ASSUME NEW k \in 1..Len(d.stack), NEW m \in 1..Len(d.stack), m # k
        PROVE  Apart(d.stack[k][1], d.stack[k][2], d.stack[m][1], d.stack[m][2])
    <3>1. CASE k = 1
      BY <2>4, <2>5, <3>1 DEF ml, mu
    <3>2. CASE m = 1
      BY <2>2, <2>4, <2>5, <3>2 DEF ml, mu
    <3>3. CASE k # 1 /\ m # 1
      <4>1. k - 1 \in 1..Len(c.stack) /\ d.stack[k] = c.stack[k - 1]
        BY <1>5, <3>3
      <4>2. m - 1 \in 1..Len(c.stack) /\ d.stack[m] = c.stack[m - 1]
        BY <1>5, <3>3
      <4>3. m - 1 # k - 1
        BY <2>5
      <4> QED
        BY <1>2, <4>1, <4>2, <4>3 DEF AllApart
    <3> QED
      BY <3>1, <3>2, <3>3
  <2> QED
    BY <2>4, <2>5 DEF AllApart, nl, nu
<1>12. IsCheap(d)
  <2>1. PICK W : IsEnough(c, W) /\ c.asked + Left(c) + W[0] <= c.n * c.n
    BY <1>2 DEF IsCheap
  <2> DEFINE z == mu - ml + 1
             y == nu - nl + 1
             s == c.u - c.l + 1
             V == [k \in 0..Len(d.stack) |-> IF k = 0 THEN W[0] + z * z ELSE W[k - 1]]
  <2>2. W \in [0..Len(c.stack) -> Nat]
    BY <2>1 DEF IsEnough
  <2>3. z \in Nat /\ y \in Nat /\ s \in Nat /\ y + z = s - 1 /\ s >= 4
    BY <1>0, <1>1, <1>3
  <2>4. z * z \in Nat
    <3> HIDE DEF z
    <3> QED
      BY <2>3
  <2> DEFINE zz == z * z
  <2>5. zz \in Nat /\ V = [k \in 0..Len(d.stack) |-> IF k = 0 THEN W[0] + zz ELSE W[k - 1]]
    BY <2>4
  <2> HIDE DEF zz, V
  <2>6. V \in [0..Len(d.stack) -> Nat]
    BY <1>4, <1>5, <2>2, <2>5
  <2>7. V[0] = W[0] + zz /\ V[1] = W[0] /\ \A k \in 1..Len(c.stack) : V[k + 1] = W[k] /\ V[k] = W[k - 1]
    BY <1>4, <1>5, <2>5
  <2>8. ASSUME NEW k \in 1..Len(d.stack)
        PROVE  LET x == d.stack[k][2] - d.stack[k][1] + 1 IN V[k - 1] >= V[k] + x * x
    <3>1. CASE k = 1
      <4>1. V[k - 1] = W[0] + zz /\ V[k] = W[0] /\ d.stack[k][1] = ml /\ d.stack[k][2] = mu
        BY <2>7, <3>1 DEF ml, mu
      <4>2. W[0] \in Nat
        BY <1>4, <2>2
      <4>3. V[k - 1] >= V[k] + zz
        BY <2>5, <4>1, <4>2
      <4> QED
        BY <4>1, <4>3 DEF zz
    <3>2. CASE k # 1
      <4>1. k - 1 \in 1..Len(c.stack) /\ d.stack[k] = c.stack[k - 1] /\ k - 1 + 1 = k
        BY <1>5, <3>2
      <4>2. V[k] = W[k - 1] /\ V[k - 1] = W[k - 1 - 1]
        BY <2>7, <4>1
      <4>3. LET x == c.stack[k - 1][2] - c.stack[k - 1][1] + 1 IN W[k - 1 - 1] >= W[k - 1] + x * x
        BY <2>1, <4>1 DEF IsEnough
      <4> QED
        BY <4>1, <4>2, <4>3
    <3> QED
      BY <3>1, <3>2
  <2>9. IsEnough(d, V)
    BY <2>6, <2>8 DEF IsEnough
  <2>10. y * y + zz + s + 3 <= s * s
    <3> HIDE DEF y, z, s
    <3>1. y * y + z * z + s + 3 <= s * s
      BY <2>3, Squares
    <3> QED
      BY <3>1 DEF zz
  <2>11. d.asked + Left(d) + V[0] <= d.n * d.n
    <3> DEFINE yy == y * y
               ss == s * s
               nn == c.n * c.n
    <3>1. yy \in Int /\ ss \in Int /\ nn \in Int
      <4> HIDE DEF y, s
      <4>1. y * y \in Int /\ s * s \in Int /\ c.n * c.n \in Int
        BY <1>0, <2>3
      <4> QED
        BY <4>1
    <3>2. yy + zz + s + 3 <= ss
      BY <2>10
    <3>3. Left(c) = ss - 3 - (c.i - c.l) - (c.u - 1 - c.j)
      BY <1>0, LeftIs
    <3>4. Left(d) = yy
      BY <1>14, LeftIs DEF nl, nu
    <3>5. (c.i - c.l) + (c.u - 1 - c.j) <= s
      BY <1>0, <1>1
    <3>6. c.asked + Left(c) + W[0] <= nn /\ d.n * d.n = nn /\ d.asked = c.asked
      BY <1>14, <2>1
    <3>7. W[0] \in Nat
      BY <1>4, <2>2
    <3> HIDE DEF yy, ss, nn, s
    <3>8. s \in Nat /\ c.i - c.l \in Int /\ c.u - 1 - c.j \in Int
      BY <1>0, <2>3
    <3>9. Left(d) + zz <= Left(c)
      BY <2>5, <3>1, <3>2, <3>3, <3>4, <3>5, <3>8
    <3> QED
      BY <1>0, <2>5, <2>7, <3>1, <3>4, <3>6, <3>7, <3>9
  <2> QED
    BY <2>9, <2>11 DEF IsCheap
<1>13. Known(B, d)
  BY <1>14 DEF Known
<1> QED
  BY <1>14, <1>10, <1>11, <1>12, <1>13 DEF Sorting

\* A sort begins with the whole sequence.
LEMMA SortBegins ==
    ASSUME NEW c \in SortCalls, c.pc = "while", c.l = 1, c.u = c.n, c.stack = << >>, c.asked = 0,
           NEW A
    PROVE  Sorting(A, c)
<1>1. c.n \in Nat /\ Len(c.stack) = 0 /\ c.n * c.n \in Int
  BY DEF SortCalls
<1>2. InOrder(A, c) /\ AllApart(c) /\ Known(A, c)
  BY <1>1 DEF InOrder, AllApart, Known, InHand, Busy
<1>3. IsCheap(c)
  <2> DEFINE W == [k \in 0..0 |-> 0]
             nn == c.n * c.n
  <2>1. IsEnough(c, W)
    BY <1>1 DEF IsEnough
  <2>2. Left(c) = nn
    BY <1>1, LeftIs
  <2>3. W[0] = 0 /\ nn \in Int
    BY <1>1
  <2> HIDE DEF W, nn
  <2>4. c.asked + Left(c) + W[0] <= nn
    BY <2>2, <2>3
  <2> QED
    BY <2>1, <2>4 DEF IsCheap, nn
<1> QED
  BY <1>2, <1>3 DEF Sorting

\* What a sort has done.
LEMMA SortingDone ==
    ASSUME NEW A, NEW c, Sortable(A, c)
    PROVE  /\ c.pc # "error" /\ c.asked <= c.n * c.n
           /\ c.pc = "returned" => \A p, q \in 1..c.n : p < q => A[p] <= A[q]
<1>1. Sorting(A, c) /\ c \in SortCalls /\ SortPlaces(c)
  BY DEF Sortable
<1>2. c.pc = "returned" => \A p, q \in 1..c.n : p < q => A[p] <= A[q]
  <2>1. SUFFICES ASSUME c.pc = "returned" PROVE \A p, q \in 1..c.n : p < q => A[p] <= A[q]
    OBVIOUS
  <2>2. \A p, q : ~InHand(c, p, q) /\ ~Waits(c, p, q)
    BY <1>1, <2>1 DEF InHand, Busy, Waits, Sorting
  <2> QED
    BY <1>1, <2>2 DEF Sorting, InOrder
<1>3. c.asked <= c.n * c.n
  <2>1. PICK W : IsEnough(c, W) /\ c.asked + Left(c) + W[0] <= c.n * c.n
    BY <1>1 DEF IsCheap, Sorting
  <2> DEFINE nn == c.n * c.n
  <2>2. nn \in Int /\ c.asked \in Nat /\ Len(c.stack) \in Nat
    BY <1>1 DEF SortCalls
  <2>3. W[0] \in Nat
    BY <2>1, <2>2 DEF IsEnough
  <2>4. Left(c) \in Int /\ Left(c) >= 0
    <3>1. c.pc \in {"up", "down", "split"} => c.i <= c.j + 2
      BY <1>1 DEF Sorting, Known
    <3> QED
      BY <1>1, <3>1, LeftType, LeftNat
  <2>5. c.asked + Left(c) + W[0] <= nn
    BY <2>1
  <2> HIDE DEF nn
  <2>6. c.asked <= nn
    BY <2>2, <2>3, <2>4, <2>5
  <2> QED
    BY <2>6 DEF nn
<1> QED
  BY <1>1, <1>2, <1>3 DEF Sorting

-----------------------------------------------------------------------------
(* The record of a call.                                                   *)

Points == Busy \cup {"end", "returned", "error"}

\* The rest of a call stays.
SameRest(d, c) == d.P = c.P /\ d.ai = c.ai /\ d.holes = c.holes

\* A comparison comes next,
LEMMA AskingIs ==
    ASSUME call \in SortCalls, NEW pc \in Points, NEW x \in AnyValue, NEW y \in AnyValue
    PROVE  LET d == Asking(pc, x, y)
           IN  /\ d \in SortCalls /\ d.pc = pc /\ d.x = x /\ d.y = y /\ d.asked = call.asked + 1
               /\ d.i = call.i /\ d.j = call.j /\ SameInterval(d, call) /\ SameRest(d, call)
<1> DEFINE m == call.asked + 1
           d == [call EXCEPT !.pc = pc, !.x = x, !.y = y, !.asked = m]
<1>1. Asking(pc, x, y) = d
  BY DEF Asking
<1>2. m \in Nat
  BY DEF SortCalls
<1> HIDE DEF m
<1>3. d \in SortCalls
  BY <1>2 DEF SortCalls, Points
<1>4. /\ d.pc = pc /\ d.x = x /\ d.y = y /\ d.asked = m /\ d.i = call.i /\ d.j = call.j
      /\ SameInterval(d, call) /\ SameRest(d, call)
  BY DEF SortCalls, SameInterval, SameCall, SameRest
<1> QED
  BY <1>1, <1>3, <1>4 DEF m

\* or none.
LEMMA GotoIs ==
    ASSUME NEW c \in SortCalls, NEW pc \in Points
    PROVE  LET d == [c EXCEPT !.pc = pc]
           IN  /\ d \in SortCalls /\ d.pc = pc /\ d.asked = c.asked
               /\ d.x = c.x /\ d.y = c.y /\ d.i = c.i /\ d.j = c.j
               /\ SameInterval(d, c) /\ SameRest(d, c)
BY DEF SortCalls, SameInterval, SameCall, SameRest, Points

\* An index changes,
LEMMA WithI ==
    ASSUME NEW c \in SortCalls, NEW i \in Int
    PROVE  LET d == [c EXCEPT !.i = i]
           IN  /\ d \in SortCalls /\ d.pc = c.pc /\ d.x = c.x /\ d.y = c.y /\ d.asked = c.asked
               /\ d.i = i /\ d.j = c.j /\ SameInterval(d, c) /\ SameRest(d, c)
BY DEF SortCalls, SameInterval, SameCall, SameRest

\* or the other,
LEMMA WithJ ==
    ASSUME NEW c \in SortCalls, NEW j \in Int
    PROVE  LET d == [c EXCEPT !.j = j]
           IN  /\ d \in SortCalls /\ d.pc = c.pc /\ d.x = c.x /\ d.y = c.y /\ d.asked = c.asked
               /\ d.i = c.i /\ d.j = j /\ SameInterval(d, c) /\ SameRest(d, c)
BY DEF SortCalls, SameInterval, SameCall, SameRest

\* or the value at i.
LEMMA WithAi ==
    ASSUME NEW c \in SortCalls, NEW ai \in AnyValue
    PROVE  LET d == [c EXCEPT !.ai = ai]
           IN  /\ d \in SortCalls /\ d.pc = c.pc /\ d.x = c.x /\ d.y = c.y /\ d.asked = c.asked
               /\ d.i = c.i /\ d.j = c.j /\ d.P = c.P /\ d.ai = ai /\ d.holes = c.holes
               /\ SameInterval(d, c)
BY DEF SortCalls, SameInterval, SameCall

-----------------------------------------------------------------------------
(* The steps of sort().                                                    *)

\* Two integers exchange their values.
Swapped(g, h, i, j) ==
    /\ Sound(g) /\ luaH_getnum(g, i) = luaH_getnum(h, j) /\ luaH_getnum(g, j) = luaH_getnum(h, i)
    /\ \A k \in Key : k # Number(i) /\ k # Number(j) => luaH_get(g, k) = luaH_get(h, k)

\* set2() with the values crossed does that.
LEMMA SwappedSpec ==
    ASSUME NEW h, Sound(h), NEW i \in 0..(MaxLength + 1), NEW j \in 0..(MaxLength + 1)
    PROVE  Swapped(rawseti(rawseti(h, i, luaH_getnum(h, j)), j, luaH_getnum(h, i)), h, i, j)
<1> DEFINE x == luaH_getnum(h, j)
           y == luaH_getnum(h, i)
           m == rawseti(h, i, x)
           g == rawseti(m, j, y)
<1>1. Number(i) \in Key /\ Number(j) \in Key
  BY KeyAssumption
<1>2. x \in AnyValue /\ y \in AnyValue
  <2>1. i \in Int /\ j \in Int
    BY KeyAssumption
  <2> QED
    BY <2>1, NumberGet DEF AnyValue
<1>3. x = luaH_get(h, Number(j)) /\ y = luaH_get(h, Number(i))
  BY DEF luaH_getnum
<1> HIDE DEF x, y
<1>4. Sound(m) /\ \A k \in Key : luaH_get(m, k) = IF k = Number(i) THEN x ELSE luaH_get(h, k)
  BY <1>1, <1>2, AssignedSpec DEF rawseti, AnyValue
<1> HIDE DEF m
<1>5. Sound(g) /\ \A k \in Key : luaH_get(g, k) = IF k = Number(j) THEN y ELSE luaH_get(m, k)
  BY <1>1, <1>2, <1>4, AssignedSpec DEF rawseti, AnyValue
<1> HIDE DEF g
<1>6. Swapped(g, h, i, j)
  BY <1>1, <1>3, <1>4, <1>5 DEF Swapped, luaH_getnum
<1> QED
  BY <1>6 DEF g, m, x, y

\* What is known of a call and its table.
LEMMA StateType ==
    ASSUME Sound(t), SortState(t, call)
    PROVE  /\ call \in SortCalls /\ SortPlaces(call) /\ SortValues(t, call) /\ SortDepth(call)
           /\ call.n \in Nat /\ call.n <= MaxLength /\ MaxLength \in Nat
           /\ call.l \in Int /\ call.u \in Int /\ call.i \in Int /\ call.j \in Int
           /\ 1 <= call.l /\ call.u <= call.n
           /\ call.x \in AnyValue /\ call.y \in AnyValue /\ call.P \in AnyValue /\ call.ai \in AnyValue
           /\ \A k \in Int : rawgeti(t, k) = luaH_getnum(t, k) /\ luaH_getnum(t, k) \in AnyValue
<1>1. MaxLength \in Nat
  BY KeyAssumption, TableAssumption
<1>2. \A k \in Int : luaH_getnum(t, k) \in AnyValue
  BY NumberGet DEF AnyValue
<1> QED
  BY <1>1, <1>2 DEF SortState, SortCalls, SortPlaces, rawgeti

\* Nothing changes but the place and what is compared.
LEMMA DepthSame ==
    ASSUME NEW c, NEW d, SortDepth(c), SameInterval(d, c)
    PROVE  SortDepth(d)
BY DEF SortDepth, Fits, SameInterval, SameCall

\* What the invariant says of the integers in the table.
LEMMA NumbersSortable ==
    ASSUME program \in Programs, program.order = "<", NEW h, NEW c, SortState(h, c), SortsNumbers(h, c)
    PROVE  /\ Sortable(Numbers(h, c.n), c) /\ Numbers(h, c.n) \in [1..c.n -> Value]
           /\ Value \subseteq Int /\ Nil \notin Value
           /\ \A k \in 1..c.n : Numbers(h, c.n)[k] = luaH_getnum(h, k) /\ luaH_getnum(h, k) \in Value
<1>1. Value \subseteq Int /\ Nil \notin Value
  BY ProgramAssumption, KeyAssumption
<1>2. Numbers(h, c.n) \in [1..c.n -> Value] /\ Sorting(Numbers(h, c.n), c)
  BY DEF SortsNumbers
<1>3. \A k \in 1..c.n : Numbers(h, c.n)[k] = luaH_getnum(h, k)
  BY DEF Numbers
<1>4. Numbers(h, c.n) \in [1..c.n -> Int]
  BY <1>1, <1>2
<1>5. c \in SortCalls /\ SortPlaces(c)
  BY DEF SortState
<1> QED
  BY <1>1, <1>2, <1>3, <1>4, <1>5 DEF Sortable

\* An exchange in the table is one of the integers.
LEMMA NumbersSwapped ==
    ASSUME NEW n \in Nat, NEW i \in 1..n, NEW j \in 1..n, n <= MaxLength, NEW g, NEW h,
           Swapped(g, h, i, j), Numbers(h, n) \in [1..n -> Value], Value \subseteq Int
    PROVE  Exchanged(Numbers(g, n), Numbers(h, n), n, i, j) /\ Numbers(g, n) \in [1..n -> Value]
<1>1. \A k \in 1..n : Numbers(h, n)[k] = luaH_getnum(h, k) /\ Numbers(g, n)[k] = luaH_getnum(g, k)
  BY DEF Numbers
<1>2. ASSUME NEW k \in 1..n, k # i, k # j PROVE luaH_getnum(g, k) = luaH_getnum(h, k)
  <2>1. Number(k) \in Key
    BY KeyAssumption
  <2>2. Number(k) # Number(i) /\ Number(k) # Number(j)
    BY <1>2 DEF Number
  <2> QED
    BY <2>1, <2>2 DEF Swapped, luaH_getnum
<1>3. \A k \in 1..n : luaH_getnum(h, k) \in Value
  BY <1>1
<1>4. \A k \in 1..n : luaH_getnum(g, k) \in Value
  BY <1>2, <1>3 DEF Swapped
<1>5. Numbers(g, n) \in [1..n -> Value]
  BY <1>4 DEF Numbers
<1>6. Numbers(g, n) \in [1..n -> Int]
  BY <1>5
<1> QED
  BY <1>1, <1>2, <1>5, <1>6 DEF Exchanged, Swapped

\* sort() goes on.
Swaps(g, h) == g = h \/ \E i, j \in 0..(MaxLength + 1) : Swapped(g, h, i, j)
GoesOn ==
    /\ Sound(t') /\ SortState(t', call') /\ call'.holes = call.holes /\ Swaps(t', t)
    /\ program.order = "<" /\ SortsNumbers(t, call) => SortsNumbers(t', call')

\* Of two values or more, the first and the last are compared.
LEMMA WhileGoesOn ==
    ASSUME program \in Programs, Sound(t), SortState(t, call), auxsort_While
    PROVE  GoesOn
<1> DEFINE x == rawgeti(t, call.u)
           y == rawgeti(t, call.l)
<1>1. call.pc = "while" /\ t' = t
  BY DEF auxsort_While
<1>2. CASE call.l < call.u
  <2>1. call' = Asking("first", x, y)
    BY <1>2 DEF auxsort_While
  <2>2. x \in AnyValue /\ y \in AnyValue /\ x = luaH_getnum(t, call.u) /\ y = luaH_getnum(t, call.l)
    BY StateType
  <2> HIDE DEF x, y
  <2>3. /\ call' \in SortCalls /\ call'.pc = "first" /\ call'.x = x /\ call'.y = y
        /\ call'.asked = call.asked + 1 /\ SameInterval(call', call) /\ call'.holes = call.holes
    <3>1. call \in SortCalls /\ "first" \in Points
      BY StateType DEF Points, Busy
    <3>2. LET d == Asking("first", x, y)
          IN  /\ d \in SortCalls /\ d.pc = "first" /\ d.x = x /\ d.y = y
              /\ d.asked = call.asked + 1 /\ SameInterval(d, call) /\ SameRest(d, call)
      BY <2>2, <3>1, AskingIs
    <3> QED
      BY <2>1, <3>2 DEF SameRest
  <2>4. SortState(t', call')
    BY <1>1, <1>2, <2>2, <2>3, StateType, DepthSame
       DEF SortState, SortPlaces, SortValues, SameInterval, SameCall
  <2>5. ASSUME program.order = "<", SortsNumbers(t, call) PROVE SortsNumbers(t', call')
    <3>1. Sortable(Numbers(t, call.n), call) /\ call'.n = call.n
      BY <2>3, <2>5, NumbersSortable DEF SameInterval, SameCall
    <3>2. Sorting(Numbers(t, call.n), call')
      BY <1>1, <1>2, <2>3, <3>1, SortWhile
    <3> QED
      BY <1>1, <2>5, <3>1, <3>2 DEF SortsNumbers
  <2> QED
    BY <1>1, <2>3, <2>4, <2>5 DEF GoesOn, Swaps
<1>3. CASE ~(call.l < call.u)
  <2>1. call' = [call EXCEPT !.pc = "end"]
    BY <1>3 DEF auxsort_While, Goto
  <2>2. /\ call' \in SortCalls /\ call'.pc = "end" /\ call'.asked = call.asked
        /\ SameInterval(call', call) /\ call'.holes = call.holes
    BY <2>1, GotoIs, StateType DEF Points, Busy, SameRest
  <2>3. SortState(t', call')
    BY <2>2, StateType, DepthSame DEF SortState, SortPlaces, SortValues, SameInterval, SameCall
  <2>4. ASSUME program.order = "<", SortsNumbers(t, call) PROVE SortsNumbers(t', call')
    <3>1. Sortable(Numbers(t, call.n), call) /\ call'.n = call.n
      BY <2>2, <2>4, NumbersSortable DEF SameInterval, SameCall
    <3>2. Sorting(Numbers(t, call.n), call')
      BY <1>1, <1>3, <2>2, <3>1, SortWhile
    <3> QED
      BY <1>1, <2>4, <3>1, <3>2 DEF SortsNumbers
  <2> QED
    BY <1>1, <2>2, <2>3, <2>4 DEF GoesOn, Swaps
<1> QED
  BY <1>2, <1>3

\* The next interval comes from the stack, if there is one.
LEMMA ReturnGoesOn ==
    ASSUME program \in Programs, Sound(t), SortState(t, call), auxsort_Return
    PROVE  GoesOn
<1>1. call.pc = "end" /\ t' = t
  BY DEF auxsort_Return
<1>2. CASE call.stack = << >>
  <2>1. call' = [call EXCEPT !.pc = "returned"]
    BY <1>2 DEF auxsort_Return, Goto
  <2>2. /\ call' \in SortCalls /\ call'.pc = "returned" /\ call'.asked = call.asked
        /\ SameInterval(call', call) /\ call'.holes = call.holes
    BY <2>1, GotoIs, StateType DEF Points, Busy, SameRest
  <2>3. SortState(t', call')
    BY <2>2, StateType, DepthSame DEF SortState, SortPlaces, SortValues, SameInterval, SameCall
  <2>4. ASSUME program.order = "<", SortsNumbers(t, call) PROVE SortsNumbers(t', call')
    <3>1. Sortable(Numbers(t, call.n), call) /\ call'.n = call.n /\ SameCall(call', call)
      BY <2>2, <2>4, NumbersSortable DEF SameInterval, SameCall
    <3>2. Sorting(Numbers(t, call.n), call')
      BY <1>1, <1>2, <2>2, <3>1, SortReturn
    <3> QED
      BY <1>1, <2>4, <3>1, <3>2 DEF SortsNumbers
  <2> QED
    BY <1>1, <2>2, <2>3, <2>4 DEF GoesOn, Swaps
<1>3. CASE call.stack # << >>
  <2> DEFINE st == call.stack
             l == Head(st)[1]
             u == Head(st)[2]
             rest == Tail(st)
  <2>1. call' = [call EXCEPT !.pc = "while", !.l = l, !.u = u, !.stack = rest]
    BY <1>3 DEF auxsort_Return
  <2>2. st \in Seq(Int \X Int) /\ st # << >>
    BY <1>3, StateType DEF SortCalls
  <2>3. Len(st) \in Nat /\ Len(st) >= 1 /\ rest \in Seq(Int \X Int)
        /\ Len(rest) = Len(st) - 1 /\ \A k \in 1..Len(rest) : rest[k] = st[k + 1]
    <3> HIDE DEF st
    <3>1. Len(st) \in Nat /\ Len(st) >= 1
      BY <2>2
    <3>2. rest \in Seq(Int \X Int) /\ Len(rest) = Len(st) - 1
      BY <2>2
    <3>3. \A k \in 1..Len(rest) : rest[k] = st[k + 1]
      BY <2>2, <3>1, <3>2
    <3> QED
      BY <3>1, <3>2, <3>3
  <2>4. l \in Int /\ u \in Int /\ l = st[1][1] /\ u = st[1][2]
    <3> HIDE DEF st
    <3>1. Head(st) \in Int \X Int /\ Head(st) = st[1]
      BY <2>2
    <3> QED
      BY <3>1
  <2> HIDE DEF rest, l, u
  <2>5. /\ call' \in SortCalls /\ call'.pc = "while" /\ call'.asked = call.asked
        /\ call'.n = call.n /\ call'.l = l /\ call'.u = u /\ call'.stack = rest
        /\ call'.holes = call.holes
    <3>1. call \in SortCalls
      BY StateType
    <3>2. LET d == [call EXCEPT !.pc = "while", !.l = l, !.u = u, !.stack = rest]
          IN  /\ d \in SortCalls /\ d.pc = "while" /\ d.asked = call.asked /\ d.n = call.n
              /\ d.l = l /\ d.u = u /\ d.stack = rest /\ d.holes = call.holes
      <4>1. rest \in Seq(Int \X Int)
        BY <2>3
      <4>2. l \in Int /\ u \in Int
        BY <2>4
      <4> QED
        BY <3>1, <4>1, <4>2 DEF SortCalls, Busy
    <3> QED
      BY <2>1, <3>2
  <2>6. SortDepth(call')
    <3>1. ASSUME NEW k \in 1..Len(st)
          PROVE  Fits(call', Len(st) - k, st[k][1], st[k][2])
      BY <2>5, StateType DEF SortDepth, Fits
    <3>2. Fits(call', Len(rest), l, u)
      <4>0. Len(st) \in Nat /\ Len(st) >= 1 /\ Len(rest) = Len(st) - 1
        BY <2>3
      <4>1. 1 \in 1..Len(st) /\ Len(st) - 1 = Len(rest)
        BY <4>0
      <4> QED
        BY <2>4, <3>1, <4>1
    <3>3. ASSUME NEW k \in 1..Len(rest)
          PROVE  Fits(call', Len(rest) - k, rest[k][1], rest[k][2])
      <4>0. Len(st) \in Nat /\ Len(rest) = Len(st) - 1
        BY <2>3
      <4>a. rest[k] = st[k + 1]
        BY <2>3
      <4>1. k + 1 \in 1..Len(st) /\ Len(st) - (k + 1) = Len(rest) - k /\ rest[k] = st[k + 1]
        BY <4>0, <4>a
      <4> QED
        BY <3>1, <4>1
    <3> QED
      BY <2>5, <3>2, <3>3 DEF SortDepth
  <2>7. SortState(t', call')
    <3>1. 1 <= l /\ u <= call.n
      BY <2>5, <2>6 DEF SortDepth, Fits
    <3> QED
      BY <2>5, <2>6, <3>1 DEF SortState, SortPlaces, SortValues
  <2>8. ASSUME program.order = "<", SortsNumbers(t, call) PROVE SortsNumbers(t', call')
    <3>1. Sortable(Numbers(t, call.n), call)
      BY <2>8, NumbersSortable
    <3>2. Sorting(Numbers(t, call.n), call')
      BY <1>1, <1>3, <2>5, <3>1, SortPop DEF l, u, rest
    <3> QED
      BY <1>1, <2>5, <2>8, <3>2 DEF SortsNumbers
  <2> QED
    BY <1>1, <2>5, <2>7, <2>8 DEF GoesOn, Swaps
<1> QED
  BY <1>2, <1>3

-----------------------------------------------------------------------------
(* The steps that ask.                                                     *)

\* ++i and --j.
LEMMA UpIs ==
    ASSUME call \in SortCalls, NEW i \in Int, NEW P \in AnyValue, rawgeti(t', i) \in AnyValue
    PROVE  LET d == Up(i, P)
           IN  /\ d \in SortCalls /\ d.pc = "up" /\ d.x = rawgeti(t', i) /\ d.y = P /\ d.P = P
               /\ d.asked = call.asked + 1 /\ d.i = i /\ d.j = call.j
               /\ SameInterval(d, call) /\ d.holes = call.holes
<1> DEFINE x == rawgeti(t', i)
<1>1. Up(i, P) = [Asking("up", x, P) EXCEPT !.i = i, !.P = P] /\ x \in AnyValue
  BY DEF Up
<1> HIDE DEF x
<1>2. LET d == [Asking("up", x, P) EXCEPT !.i = i, !.P = P]
      IN  /\ d \in SortCalls /\ d.pc = "up" /\ d.x = x /\ d.y = P /\ d.P = P
          /\ d.asked = call.asked + 1 /\ d.i = i /\ d.j = call.j
          /\ SameInterval(d, call) /\ d.holes = call.holes
  <2> DEFINE a == Asking("up", x, P)
  <2>1. "up" \in Points
    BY DEF Points, Busy
  <2>2. /\ a \in SortCalls /\ a.pc = "up" /\ a.x = x /\ a.y = P /\ a.asked = call.asked + 1
        /\ a.j = call.j /\ SameInterval(a, call) /\ a.holes = call.holes
    BY <1>1, <2>1, AskingIs DEF SameRest
  <2> HIDE DEF a
  <2>3. LET d == [a EXCEPT !.i = i, !.P = P]
        IN  /\ d \in SortCalls /\ d.pc = a.pc /\ d.x = a.x /\ d.y = a.y /\ d.P = P
            /\ d.asked = a.asked /\ d.i = i /\ d.j = a.j
            /\ d.l = a.l /\ d.u = a.u /\ d.n = a.n /\ d.stack = a.stack /\ d.holes = a.holes
    BY <2>2 DEF SortCalls
  <2> QED
    BY <2>2, <2>3 DEF a, SameInterval, SameCall
<1> QED
  BY <1>1, <1>2 DEF x

\* The same from above.
LEMMA DownIs ==
    ASSUME call \in SortCalls, NEW j \in Int, rawgeti(t, j) \in AnyValue
    PROVE  LET d == Down(j)
           IN  /\ d \in SortCalls /\ d.pc = "down" /\ d.x = call.P /\ d.y = rawgeti(t, j)
               /\ d.P = call.P /\ d.asked = call.asked + 1 /\ d.i = call.i /\ d.j = j
               /\ d.ai = call.ai /\ SameInterval(d, call) /\ d.holes = call.holes
<1> DEFINE y == rawgeti(t, j)
<1>1. Down(j) = [Asking("down", call.P, y) EXCEPT !.j = j] /\ y \in AnyValue
  BY DEF Down
<1> HIDE DEF y
<1>2. LET d == [Asking("down", call.P, y) EXCEPT !.j = j]
      IN  /\ d \in SortCalls /\ d.pc = "down" /\ d.x = call.P /\ d.y = y
          /\ d.P = call.P /\ d.asked = call.asked + 1 /\ d.i = call.i /\ d.j = j
          /\ d.ai = call.ai /\ SameInterval(d, call) /\ d.holes = call.holes
  <2> DEFINE a == Asking("down", call.P, y)
  <2>1. "down" \in Points /\ call.P \in AnyValue
    BY DEF Points, Busy, SortCalls
  <2>2. /\ a \in SortCalls /\ a.pc = "down" /\ a.x = call.P /\ a.y = y
        /\ a.asked = call.asked + 1 /\ a.i = call.i
        /\ SameInterval(a, call) /\ SameRest(a, call)
    BY <1>1, <2>1, AskingIs
  <2> HIDE DEF a
  <2>3. LET d == [a EXCEPT !.j = j]
        IN  /\ d \in SortCalls /\ d.pc = a.pc /\ d.x = a.x /\ d.y = a.y /\ d.P = a.P
            /\ d.asked = a.asked /\ d.i = a.i /\ d.j = j /\ d.ai = a.ai
            /\ d.l = a.l /\ d.u = a.u /\ d.n = a.n /\ d.stack = a.stack /\ d.holes = a.holes
    BY <2>2 DEF SortCalls
  <2> QED
    BY <2>2, <2>3 DEF a, SameInterval, SameCall, SameRest
<1> QED
  BY <1>1, <1>2 DEF y

\* Two values of the interval are exchanged.
LEMMA SetIs ==
    ASSUME Sound(t), NEW i \in 0..(MaxLength + 1), NEW j \in 0..(MaxLength + 1), NEW x, NEW y,
           x = luaH_getnum(t, j), y = luaH_getnum(t, i), set2(i, x, j, y)
    PROVE  Sound(t') /\ Swapped(t', t, i, j) /\ Swaps(t', t)
<1>1. t' = rawseti(rawseti(t, i, x), j, y)
  BY DEF set2
<1>2. Swapped(t', t, i, j)
  BY <1>1, SwappedSpec
<1> QED
  BY <1>2 DEF Swapped, Swaps

\* What there is in any table.
LEMMA SoundGets ==
    ASSUME NEW h, Sound(h), NEW n \in Int
    PROVE  rawgeti(h, n) = luaH_getnum(h, n) /\ rawgeti(h, n) \in AnyValue
BY NumberGet DEF rawgeti, AnyValue

\* The answer b of sort_comp().
Answer(b) == b \in BOOLEAN /\ (program.order = "<" => b = (call.x < call.y))

\* A step inside of the interval in hand.
IsTurn ==
    /\ Sound(t') /\ call' \in SortCalls /\ SameInterval(call', call) /\ call'.holes = call.holes
    /\ SortPlaces(call') /\ SortValues(t', call') /\ Swaps(t', t)
    /\ program.order = "<" /\ SortsNumbers(t, call) =>
          /\ Numbers(t', call.n) \in [1..call.n -> Value]
          /\ Sorting(Numbers(t', call.n), call')

\* It keeps what is known of the call.
LEMMA TurnGoesOn ==
    ASSUME SortState(t, call), IsTurn
    PROVE  GoesOn
<1>1. SortDepth(call')
  BY DepthSame DEF IsTurn, SortState
<1>2. call'.n = call.n
  BY DEF IsTurn, SameInterval, SameCall
<1> QED
  BY <1>1, <1>2 DEF IsTurn, GoesOn, SortState, SortsNumbers

\* The first and the last value.
LEMMA OutOfOrderGoesOn ==
    ASSUME program \in Programs, Sound(t), SortState(t, call), NEW b, Answer(b), OutOfOrder(b)
    PROVE  GoesOn
<1> DEFINE m == (call.l + call.u) \div 2
           x == rawgeti(t', m)
           y == rawgeti(t', call.l)
           A == Numbers(t, call.n)
           B == Numbers(t', call.n)
<1>0. /\ call.pc = "first" /\ call.l < call.u /\ call \in SortCalls
      /\ call.l \in Int /\ call.u \in Int /\ 1 <= call.l /\ call.u <= call.n /\ call.n \in Nat
      /\ call.n <= MaxLength /\ MaxLength \in Nat
      /\ call.x = luaH_getnum(t, call.u) /\ call.y = luaH_getnum(t, call.l)
  BY StateType DEF OutOfOrder, SortPlaces, SortValues
<1>1. call.l \in 0..(MaxLength + 1) /\ call.u \in 0..(MaxLength + 1)
      /\ call.l \in 1..call.n /\ call.u \in 1..call.n /\ m \in Int
  BY <1>0
<1>2. /\ b => Sound(t') /\ Swapped(t', t, call.l, call.u) /\ Swaps(t', t)
      /\ ~b => t' = t
  BY <1>0, <1>1, SetIs DEF OutOfOrder
<1>3. Sound(t') /\ Swaps(t', t)
  BY <1>2 DEF Answer, Swaps
<1>4. program.order = "<" /\ SortsNumbers(t, call) =>
         /\ Sortable(A, call) /\ B \in [1..call.n -> Value]
         /\ \/ A[call.u] < A[call.l] /\ Exchanged(B, A, call.n, call.l, call.u)
            \/ ~(A[call.u] < A[call.l]) /\ B = A
  <2> SUFFICES ASSUME program.order = "<", SortsNumbers(t, call)
               PROVE  /\ Sortable(A, call) /\ B \in [1..call.n -> Value]
                      /\ \/ A[call.u] < A[call.l] /\ Exchanged(B, A, call.n, call.l, call.u)
                         \/ ~(A[call.u] < A[call.l]) /\ B = A
    OBVIOUS
  <2>1. /\ Sortable(A, call) /\ A \in [1..call.n -> Value] /\ Value \subseteq Int
        /\ \A k \in 1..call.n : A[k] = luaH_getnum(t, k)
    BY NumbersSortable
  <2>2. A[call.u] = call.x /\ A[call.l] = call.y
    BY <1>0, <1>1, <2>1
  <2>3. b => Exchanged(B, A, call.n, call.l, call.u) /\ B \in [1..call.n -> Value]
    BY <1>0, <1>1, <1>2, <2>1, NumbersSwapped
  <2>4. ~b => B = A
    BY <1>2
  <2>5. b \in BOOLEAN /\ b = (call.x < call.y)
    BY DEF Answer
  <2> QED
    BY <2>1, <2>2, <2>3, <2>4, <2>5
<1> HIDE DEF A, B
<1>5. CASE call.u - call.l = 1
  <2>1. call' = [call EXCEPT !.pc = "end"]
    BY <1>5 DEF OutOfOrder, Goto
  <2>2. call' \in SortCalls /\ call'.pc = "end" /\ call'.asked = call.asked
        /\ SameInterval(call', call) /\ call'.holes = call.holes
    BY <1>0, <2>1, GotoIs DEF Points, Busy, SameRest
  <2>3. SortPlaces(call') /\ SortValues(t', call')
    BY <1>0, <2>2 DEF SortPlaces, SortValues, SameInterval, SameCall
  <2>4. program.order = "<" /\ SortsNumbers(t, call) => Sorting(B, call')
    BY <1>0, <1>4, <1>5, <2>2, SortFirst
  <2>5. IsTurn
    BY <1>3, <1>4, <2>2, <2>3, <2>4 DEF IsTurn, B
  <2> QED
    BY <2>5, TurnGoesOn
<1>6. CASE call.u - call.l # 1
  <2>1. call' = [Asking("middle", x, y) EXCEPT !.i = m]
    BY <1>6 DEF OutOfOrder
  <2>2. x \in AnyValue /\ y \in AnyValue /\ x = luaH_getnum(t', m) /\ y = luaH_getnum(t', call.l)
    BY <1>0, <1>1, <1>3, SoundGets
  <2>3. call.l < m /\ m < call.u /\ call.l + 2 <= call.u
    BY <1>0, <1>6
  <2> HIDE DEF m, x, y
  <2>4. /\ call' \in SortCalls /\ call'.pc = "middle" /\ call'.asked = call.asked + 1
        /\ call'.i = m /\ call'.x = x /\ call'.y = y
        /\ SameInterval(call', call) /\ call'.holes = call.holes
    <3> DEFINE a == Asking("middle", x, y)
    <3>1. "middle" \in Points
      BY DEF Points, Busy
    <3>2. /\ a \in SortCalls /\ a.pc = "middle" /\ a.x = x /\ a.y = y
          /\ a.asked = call.asked + 1 /\ SameInterval(a, call) /\ SameRest(a, call)
      BY <1>0, <2>2, <3>1, AskingIs
    <3> HIDE DEF a
    <3>3. LET d == [a EXCEPT !.i = m]
          IN  /\ d \in SortCalls /\ d.pc = a.pc /\ d.x = a.x /\ d.y = a.y /\ d.asked = a.asked
              /\ d.i = m /\ SameInterval(d, a) /\ SameRest(d, a)
      BY <1>1, <3>2, WithI
    <3>4. call' = [a EXCEPT !.i = m]
      BY <2>1 DEF a
    <3> QED
      BY <3>2, <3>3, <3>4 DEF SameInterval, SameCall, SameRest
  <2>5. SortPlaces(call') /\ SortValues(t', call')
    BY <1>0, <2>2, <2>3, <2>4 DEF SortPlaces, SortValues, SameInterval, SameCall
  <2>6. program.order = "<" /\ SortsNumbers(t, call) => Sorting(B, call')
    BY <1>0, <1>4, <1>6, <2>4, SortFirst
  <2>7. IsTurn
    BY <1>3, <1>4, <2>4, <2>5, <2>6 DEF IsTurn, B
  <2> QED
    BY <2>7, TurnGoesOn
<1> QED
  BY <1>5, <1>6

\* An exchange of two places of the interval.
LEMMA TurnSwaps ==
    ASSUME program \in Programs, Sound(t), SortState(t, call), NEW i, NEW j, NEW x, NEW y,
           i \in call.l..call.u, j \in call.l..call.u,
           x = luaH_getnum(t, j), y = luaH_getnum(t, i), set2(i, x, j, y)
    PROVE  /\ Sound(t') /\ Swapped(t', t, i, j) /\ Swaps(t', t)
           /\ program.order = "<" /\ SortsNumbers(t, call) =>
                 /\ Exchanged(Numbers(t', call.n), Numbers(t, call.n), call.n, i, j)
                 /\ Numbers(t', call.n) \in [1..call.n -> Value]
<1>0. /\ call.l \in Int /\ call.u \in Int /\ 1 <= call.l /\ call.u <= call.n /\ call.n \in Nat
      /\ call.n <= MaxLength /\ MaxLength \in Nat
  BY StateType
<1>1. i \in 0..(MaxLength + 1) /\ j \in 0..(MaxLength + 1) /\ i \in 1..call.n /\ j \in 1..call.n
  BY <1>0
<1>2. Sound(t') /\ Swapped(t', t, i, j) /\ Swaps(t', t)
  BY <1>1, SetIs
<1>3. ASSUME program.order = "<", SortsNumbers(t, call)
      PROVE  /\ Exchanged(Numbers(t', call.n), Numbers(t, call.n), call.n, i, j)
             /\ Numbers(t', call.n) \in [1..call.n -> Value]
  <2>1. Numbers(t, call.n) \in [1..call.n -> Value] /\ Value \subseteq Int
    BY <1>3, NumbersSortable
  <2> QED
    BY <1>0, <1>1, <1>2, <2>1, NumbersSwapped
<1> QED
  BY <1>2, <1>3

\* No exchange.
LEMMA TurnKeeps ==
    ASSUME program \in Programs, Sound(t), SortState(t, call), t' = t
    PROVE  /\ Sound(t') /\ Swaps(t', t)
           /\ program.order = "<" /\ SortsNumbers(t, call) =>
                 /\ Numbers(t', call.n) = Numbers(t, call.n)
                 /\ Numbers(t', call.n) \in [1..call.n -> Value]
BY NumbersSortable DEF Swaps

\* auxsort() moves to a place without a comparison.
LEMMA GoneTo ==
    ASSUME call \in SortCalls, NEW pc \in Points, Goto(pc)
    PROVE  /\ call' \in SortCalls /\ call'.pc = pc /\ call'.asked = call.asked
           /\ call'.i = call.i /\ call'.j = call.j /\ call'.P = call.P /\ call'.x = call.x
           /\ SameInterval(call', call) /\ call'.holes = call.holes
<1>1. call' = [call EXCEPT !.pc = pc]
  BY DEF Goto
<1>2. LET d == [call EXCEPT !.pc = pc]
      IN  /\ d \in SortCalls /\ d.pc = pc /\ d.asked = call.asked
          /\ d.x = call.x /\ d.y = call.y /\ d.i = call.i /\ d.j = call.j
          /\ SameInterval(d, call) /\ SameRest(d, call)
  BY GotoIs
<1> QED
  BY <1>1, <1>2 DEF SameRest

\* The places of the middle value.
LEMMA MiddlePlaces ==
    ASSUME Sound(t), SortState(t, call), call.pc \in {"middle", "last"}
    PROVE  /\ call \in SortCalls /\ call.l \in Int /\ call.u \in Int /\ call.i \in Int
           /\ 1 <= call.l /\ call.u <= call.n /\ call.n \in Nat
           /\ call.l + 2 <= call.u /\ call.l < call.i /\ call.i < call.u
           /\ call.l \in call.l..call.u /\ call.i \in call.l..call.u /\ call.u \in call.l..call.u
           /\ call.l..call.u \subseteq 1..call.n
<1>1. /\ call \in SortCalls /\ call.l \in Int /\ call.u \in Int /\ call.i \in Int
      /\ 1 <= call.l /\ call.u <= call.n /\ call.n \in Nat
  BY StateType
<1>2. call.l + 2 <= call.u /\ call.l < call.i /\ call.i < call.u
  BY StateType DEF SortPlaces
<1> QED
  BY <1>1, <1>2

\* Three values are sorted now; more need a pivot.
LEMMA AfterMedianIs ==
    ASSUME Sound(t), SortState(t, call), call.pc \in {"middle", "last"}, AfterMedian
    PROVE  /\ call' \in SortCalls /\ call'.asked = call.asked /\ call'.i = call.i
           /\ call'.pc = (IF call.u - call.l = 2 THEN "end" ELSE "pivot")
           /\ SameInterval(call', call) /\ call'.holes = call.holes
           /\ SortPlaces(call') /\ \A h : SortValues(h, call')
<1> DEFINE pc == IF call.u - call.l = 2 THEN "end" ELSE "pivot"
<1>1. pc \in Points
  BY DEF Points, Busy
<1>2. Goto(pc) /\ call \in SortCalls
  BY MiddlePlaces DEF AfterMedian
<1>3. /\ call' \in SortCalls /\ call'.pc = pc /\ call'.asked = call.asked /\ call'.i = call.i
      /\ SameInterval(call', call) /\ call'.holes = call.holes
  BY <1>1, <1>2, GoneTo
<1>4. SortPlaces(call')
  BY <1>3, MiddlePlaces DEF SortPlaces, SameInterval, SameCall
<1>5. \A h : SortValues(h, call')
  BY <1>3 DEF SortValues
<1> QED
  BY <1>3, <1>4, <1>5

\* The middle value against the first,
LEMMA BelowLowGoesOn ==
    ASSUME program \in Programs, Sound(t), SortState(t, call), NEW b, Answer(b), BelowLow(b)
    PROVE  GoesOn
<1> DEFINE A == Numbers(t, call.n)
           B == Numbers(t', call.n)
           x == rawgeti(t, call.u)
           y == call.x
<1>0. /\ call.pc = "middle" /\ call.x = luaH_getnum(t, call.i) /\ call.y = luaH_getnum(t, call.l)
  BY StateType DEF BelowLow, SortValues
<1>1. ASSUME program.order = "<", SortsNumbers(t, call)
      PROVE  /\ Sortable(A, call) /\ A[call.i] = call.x /\ A[call.l] = call.y
             /\ b = (call.x < call.y)
  <2>1. Sortable(A, call) /\ \A k \in 1..call.n : A[k] = luaH_getnum(t, k)
    BY <1>1, NumbersSortable
  <2>2. call.l \in 1..call.n /\ call.i \in 1..call.n
    BY <1>0, MiddlePlaces
  <2> QED
    BY <1>0, <1>1, <2>1, <2>2 DEF Answer
<1>2. CASE b
  <2>1. /\ Sound(t') /\ Swaps(t', t)
        /\ program.order = "<" /\ SortsNumbers(t, call) =>
              Exchanged(B, A, call.n, call.i, call.l) /\ B \in [1..call.n -> Value]
    BY <1>0, <1>2, MiddlePlaces, TurnSwaps DEF BelowLow
  <2>2. /\ call' \in SortCalls /\ call'.asked = call.asked /\ call'.i = call.i
        /\ call'.pc = (IF call.u - call.l = 2 THEN "end" ELSE "pivot")
        /\ SameInterval(call', call) /\ call'.holes = call.holes
        /\ SortPlaces(call') /\ SortValues(t', call')
    BY <1>0, <1>2, AfterMedianIs DEF BelowLow
  <2>3. program.order = "<" /\ SortsNumbers(t, call) => Sorting(B, call')
    <3> HIDE DEF A, B
    <3> QED
      BY <1>0, <1>1, <1>2, <2>1, <2>2, SortMiddle
  <2> QED
    BY <2>1, <2>2, <2>3, TurnGoesOn DEF IsTurn
<1>3. CASE ~b
  <2>1. t' = t /\ call' = Asking("last", x, y)
    BY <1>3 DEF BelowLow
  <2>2. /\ Sound(t') /\ Swaps(t', t)
        /\ program.order = "<" /\ SortsNumbers(t, call) => B = A /\ B \in [1..call.n -> Value]
    BY <2>1, TurnKeeps
  <2>3. x \in AnyValue /\ y \in AnyValue /\ x = luaH_getnum(t, call.u) /\ call \in SortCalls /\ "last" \in Points
    BY StateType DEF Points, Busy
  <2> HIDE DEF x, y
  <2>4. /\ call' \in SortCalls /\ call'.pc = "last" /\ call'.x = x /\ call'.y = y
        /\ call'.asked = call.asked + 1 /\ call'.i = call.i /\ call'.holes = call.holes
        /\ SameInterval(call', call)
    <3>1. LET d == Asking("last", x, y)
          IN  /\ d \in SortCalls /\ d.pc = "last" /\ d.x = x /\ d.y = y /\ d.asked = call.asked + 1
              /\ d.i = call.i /\ SameInterval(d, call) /\ SameRest(d, call)
      BY <2>3, AskingIs
    <3> QED
      BY <2>1, <3>1 DEF SameRest
  <2>5. SortPlaces(call') /\ SortValues(t', call')
    BY <1>0, <2>1, <2>3, <2>4, MiddlePlaces DEF SortPlaces, SortValues, SameInterval, SameCall, y
  <2>6. program.order = "<" /\ SortsNumbers(t, call) => Sorting(B, call')
    <3> HIDE DEF A, B
    <3> QED
      BY <1>0, <1>1, <1>3, <2>2, <2>4, SortMiddle
  <2> QED
    BY <2>2, <2>4, <2>5, <2>6, TurnGoesOn DEF IsTurn
<1> QED
  BY <1>2, <1>3 DEF Answer

\* and against the last.
LEMMA AboveHighGoesOn ==
    ASSUME program \in Programs, Sound(t), SortState(t, call), NEW b, Answer(b), AboveHigh(b)
    PROVE  GoesOn
<1> DEFINE A == Numbers(t, call.n)
           B == Numbers(t', call.n)
<1>0. /\ call.pc = "last" /\ call.x = luaH_getnum(t, call.u) /\ call.y = luaH_getnum(t, call.i)
  BY StateType DEF AboveHigh, SortValues
<1>1. ASSUME program.order = "<", SortsNumbers(t, call)
      PROVE  /\ Sortable(A, call) /\ A[call.u] = call.x /\ A[call.i] = call.y
             /\ b = (call.x < call.y)
  <2>1. Sortable(A, call) /\ \A k \in 1..call.n : A[k] = luaH_getnum(t, k)
    BY <1>1, NumbersSortable
  <2>2. call.u \in 1..call.n /\ call.i \in 1..call.n
    BY <1>0, MiddlePlaces
  <2> QED
    BY <1>0, <1>1, <2>1, <2>2 DEF Answer
<1>2. b => /\ Sound(t') /\ Swaps(t', t)
           /\ program.order = "<" /\ SortsNumbers(t, call) =>
                 Exchanged(B, A, call.n, call.i, call.u) /\ B \in [1..call.n -> Value]
  BY <1>0, MiddlePlaces, TurnSwaps DEF AboveHigh
<1>3. ~b => /\ Sound(t') /\ Swaps(t', t)
            /\ program.order = "<" /\ SortsNumbers(t, call) => B = A /\ B \in [1..call.n -> Value]
  BY TurnKeeps DEF AboveHigh
<1>4. /\ call' \in SortCalls /\ call'.asked = call.asked /\ call'.i = call.i
      /\ call'.pc = (IF call.u - call.l = 2 THEN "end" ELSE "pivot")
      /\ SameInterval(call', call) /\ call'.holes = call.holes
      /\ SortPlaces(call') /\ SortValues(t', call')
  BY <1>0, AfterMedianIs DEF AboveHigh
<1>5. program.order = "<" /\ SortsNumbers(t, call) => Sorting(B, call')
  <2> HIDE DEF A, B
  <2> QED
    BY <1>0, <1>1, <1>2, <1>3, <1>4, SortLast DEF Answer
<1> QED
  BY <1>2, <1>3, <1>4, <1>5, TurnGoesOn DEF IsTurn

\* The places of the values that are parted.
LEMMA PartPlaces ==
    ASSUME Sound(t), SortState(t, call), call.pc \in {"pivot", "up", "down", "split"}
    PROVE  /\ call \in SortCalls /\ call.l \in Int /\ call.u \in Int /\ call.i \in Int
           /\ call.j \in Int /\ 1 <= call.l /\ call.u <= call.n /\ call.n \in Nat
           /\ call.n <= MaxLength /\ MaxLength \in Nat
           /\ call.l + 3 <= call.u /\ call.l < call.i /\ call.i <= call.u + 1
           /\ call.P \in AnyValue /\ call.x \in AnyValue /\ call.ai \in AnyValue
           /\ call.pc = "pivot" => call.i < call.u
           /\ call.pc = "up" => /\ call.l < call.j /\ call.j < call.u /\ call.y = call.P
                                /\ call.x = luaH_getnum(t, call.i)
           /\ call.pc = "down" => /\ call.l - 1 <= call.j /\ call.j < call.u - 1
                                  /\ call.x = call.P /\ call.y = luaH_getnum(t, call.j)
                                  /\ call.ai = luaH_getnum(t, call.i)
<1>1. SortPlaces(call) /\ SortValues(t, call)
  BY StateType
<1>2. /\ call \in SortCalls /\ call.l \in Int /\ call.u \in Int /\ call.i \in Int
      /\ call.j \in Int /\ 1 <= call.l /\ call.u <= call.n /\ call.n \in Nat
      /\ call.n <= MaxLength /\ MaxLength \in Nat
      /\ call.P \in AnyValue /\ call.x \in AnyValue /\ call.ai \in AnyValue
  BY StateType
<1> QED
  BY <1>1, <1>2 DEF SortPlaces, SortValues

\* The pivot is put aside.
LEMMA PivotGoesOn ==
    ASSUME program \in Programs, Sound(t), SortState(t, call), Pivot
    PROVE  GoesOn
<1> DEFINE A == Numbers(t, call.n)
           B == Numbers(t', call.n)
           P == rawgeti(t, call.i)
           x == rawgeti(t', call.l + 1)
<1>0. call.pc = "pivot"
  BY DEF Pivot
<1>1. /\ call \in SortCalls /\ call.l \in Int /\ call.u \in Int /\ call.i \in Int
      /\ 1 <= call.l /\ call.u <= call.n /\ call.n \in Nat
      /\ call.l + 3 <= call.u /\ call.l < call.i /\ call.i < call.u
  BY <1>0, PartPlaces
<1>2. call.i \in call.l..call.u /\ call.u - 1 \in call.l..call.u /\ call.l + 1 \in Int
      /\ call.i \in 1..call.n /\ call.u - 1 \in Int
  BY <1>1
<1>3. P = luaH_getnum(t, call.i) /\ P \in AnyValue
      /\ rawgeti(t, call.u - 1) = luaH_getnum(t, call.u - 1)
  BY <1>1, <1>2, SoundGets
<1>4. /\ Sound(t') /\ Swaps(t', t)
      /\ program.order = "<" /\ SortsNumbers(t, call) =>
            Exchanged(B, A, call.n, call.i, call.u - 1) /\ B \in [1..call.n -> Value]
  BY <1>2, <1>3, TurnSwaps DEF Pivot
<1>5. x \in AnyValue /\ x = luaH_getnum(t', call.l + 1)
  BY <1>2, <1>4, SoundGets
<1>6. call' = [Up(call.l + 1, P) EXCEPT !.j = call.u - 1]
  BY DEF Pivot
<1>7. /\ call' \in SortCalls /\ call'.pc = "up" /\ call'.x = x /\ call'.y = P /\ call'.P = P
      /\ call'.asked = call.asked + 1 /\ call'.i = call.l + 1 /\ call'.j = call.u - 1
      /\ SameInterval(call', call) /\ call'.holes = call.holes
  <2> DEFINE a == Up(call.l + 1, P)
  <2>1. /\ a \in SortCalls /\ a.pc = "up" /\ a.x = x /\ a.y = P /\ a.P = P
        /\ a.asked = call.asked + 1 /\ a.i = call.l + 1
        /\ SameInterval(a, call) /\ a.holes = call.holes
    BY <1>1, <1>2, <1>3, <1>5, UpIs
  <2> HIDE DEF a
  <2>2. LET d == [a EXCEPT !.j = call.u - 1]
        IN  /\ d \in SortCalls /\ d.pc = a.pc /\ d.x = a.x /\ d.y = a.y /\ d.asked = a.asked
            /\ d.i = a.i /\ d.j = call.u - 1 /\ SameInterval(d, a) /\ SameRest(d, a)
    BY <1>2, <2>1, WithJ
  <2>3. call' = [a EXCEPT !.j = call.u - 1]
    BY <1>6 DEF a
  <2> QED
    BY <2>1, <2>2, <2>3 DEF SameInterval, SameCall, SameRest
<1> HIDE DEF P, x
<1>8. SortPlaces(call') /\ SortValues(t', call')
  BY <1>1, <1>5, <1>7 DEF SortPlaces, SortValues, SameInterval, SameCall
<1>9. ASSUME program.order = "<", SortsNumbers(t, call)
      PROVE  Sorting(B, call')
  <2>1. Sortable(A, call) /\ A[call.i] = P
    BY <1>2, <1>3, <1>9, NumbersSortable
  <2>2. Exchanged(B, A, call.n, call.i, call.u - 1)
    BY <1>4, <1>9
  <2> HIDE DEF A, B
  <2> QED
    BY <1>0, <1>7, <2>1, <2>2, SortPivot
<1> QED
  BY <1>4, <1>7, <1>8, <1>9, TurnGoesOn DEF IsTurn

\* --j: the next value from above.
LEMMA DownTurn ==
    ASSUME program \in Programs, Sound(t), SortState(t, call), call.pc \in {"up", "down"},
           t' = t, NEW ai, call' = [Down(call.j - 1) EXCEPT !.ai = ai],
           ai = luaH_getnum(t, call.i), call.l <= call.j
    PROVE  /\ call' \in SortCalls /\ call'.pc = "down" /\ call'.P = call.P
           /\ call'.asked = call.asked + 1 /\ call'.i = call.i /\ call'.j = call.j - 1
           /\ SameInterval(call', call) /\ call'.holes = call.holes
           /\ SortPlaces(call') /\ SortValues(t', call')
<1> DEFINE y == rawgeti(t, call.j - 1)
           a == Down(call.j - 1)
<1>1. /\ call \in SortCalls /\ call.j - 1 \in Int /\ call.j \in Int /\ call.i \in Int
      /\ call.l + 3 <= call.u /\ call.l < call.i /\ call.i <= call.u + 1 /\ call.j < call.u
      /\ call.l \in Int /\ call.u \in Int /\ 1 <= call.l /\ call.u <= call.n
  BY PartPlaces
<1>2. y = luaH_getnum(t, call.j - 1) /\ y \in AnyValue /\ ai \in AnyValue
  BY <1>1, SoundGets
<1>3. /\ a \in SortCalls /\ a.pc = "down" /\ a.x = call.P /\ a.y = y
      /\ a.P = call.P /\ a.asked = call.asked + 1 /\ a.i = call.i /\ a.j = call.j - 1
      /\ SameInterval(a, call) /\ a.holes = call.holes
  BY <1>1, <1>2, DownIs
<1> HIDE DEF a, y
<1>4. LET d == [a EXCEPT !.ai = ai]
      IN  /\ d \in SortCalls /\ d.pc = a.pc /\ d.x = a.x /\ d.y = a.y /\ d.asked = a.asked
          /\ d.i = a.i /\ d.j = a.j /\ d.P = a.P /\ d.ai = ai /\ d.holes = a.holes
          /\ SameInterval(d, a)
  BY <1>2, <1>3, WithAi
<1>5. call' = [a EXCEPT !.ai = ai]
  BY DEF a
<1>6. /\ call' \in SortCalls /\ call'.pc = "down" /\ call'.P = call.P /\ call'.x = call.P
      /\ call'.y = y /\ call'.ai = ai
      /\ call'.asked = call.asked + 1 /\ call'.i = call.i /\ call'.j = call.j - 1
      /\ SameInterval(call', call) /\ call'.holes = call.holes
  BY <1>3, <1>4, <1>5 DEF SameInterval, SameCall
<1>7. SortPlaces(call')
  BY <1>1, <1>6 DEF SortPlaces, SameInterval, SameCall
<1>8. SortValues(t', call')
  BY <1>2, <1>6 DEF SortValues
<1> QED
  BY <1>6, <1>7, <1>8

\* ++i: the next value from below.
LEMMA UpTurn ==
    ASSUME program \in Programs, Sound(t), SortState(t, call), call.pc \in {"up", "down"},
           Sound(t'), call' = Up(call.i + 1, call.P), call.i <= call.u,
           call.l < call.j, call.j < call.u
    PROVE  /\ call' \in SortCalls /\ call'.pc = "up" /\ call'.P = call.P
           /\ call'.asked = call.asked + 1 /\ call'.i = call.i + 1 /\ call'.j = call.j
           /\ SameInterval(call', call) /\ call'.holes = call.holes
           /\ SortPlaces(call') /\ SortValues(t', call')
<1>1. /\ call \in SortCalls /\ call.i + 1 \in Int /\ call.j \in Int /\ call.i \in Int
      /\ call.l + 3 <= call.u /\ call.l < call.i /\ call.P \in AnyValue
      /\ call.l \in Int /\ call.u \in Int /\ 1 <= call.l /\ call.u <= call.n
  BY PartPlaces
<1>2. rawgeti(t', call.i + 1) = luaH_getnum(t', call.i + 1) /\ rawgeti(t', call.i + 1) \in AnyValue
  BY <1>1, SoundGets
<1>3. LET d == Up(call.i + 1, call.P)
      IN  /\ d \in SortCalls /\ d.pc = "up" /\ d.x = rawgeti(t', call.i + 1) /\ d.y = call.P
          /\ d.P = call.P /\ d.asked = call.asked + 1 /\ d.i = call.i + 1 /\ d.j = call.j
          /\ SameInterval(d, call) /\ d.holes = call.holes
  BY <1>1, <1>2, UpIs
<1>4. /\ call' \in SortCalls /\ call'.pc = "up" /\ call'.x = rawgeti(t', call.i + 1)
      /\ call'.y = call.P /\ call'.P = call.P /\ call'.asked = call.asked + 1
      /\ call'.i = call.i + 1 /\ call'.j = call.j
      /\ SameInterval(call', call) /\ call'.holes = call.holes
  BY <1>3
<1>5. SortPlaces(call')
  BY <1>1, <1>4 DEF SortPlaces, SameInterval, SameCall
<1>6. SortValues(t', call')
  BY <1>2, <1>4 DEF SortValues
<1> QED
  BY <1>4, <1>5, <1>6

\* An error of the comparison function ends the sort.
LEMMA ErrorIs ==
    ASSUME Sound(t), SortState(t, call), Goto("error")
    PROVE  /\ call' \in SortCalls /\ SameInterval(call', call) /\ call'.holes = call.holes
           /\ call'.pc = "error" /\ SortPlaces(call') /\ SortValues(t', call')
<1>1. "error" \in Points /\ call \in SortCalls /\ SortPlaces(call)
  BY StateType DEF Points
<1>2. /\ call' \in SortCalls /\ call'.pc = "error"
      /\ SameInterval(call', call) /\ call'.holes = call.holes
  BY <1>1, GoneTo
<1> QED
  BY <1>1, <1>2 DEF SortPlaces, SortValues, SameInterval, SameCall

\* a[i] < P?
LEMMA GoUpGoesOn ==
    ASSUME program \in Programs, Sound(t), SortState(t, call), NEW b, Answer(b), GoUp(b)
    PROVE  GoesOn
<1> DEFINE A == Numbers(t, call.n)
           B == Numbers(t', call.n)
<1>0. call.pc = "up" /\ t' = t
  BY DEF GoUp
<1>1. /\ Sound(t') /\ Swaps(t', t)
      /\ program.order = "<" /\ SortsNumbers(t, call) => B = A /\ B \in [1..call.n -> Value]
  BY <1>0, TurnKeeps
<1>2. /\ call \in SortCalls /\ call.x = luaH_getnum(t, call.i) /\ call.y = call.P
      /\ call.l < call.j /\ call.j < call.u /\ call.l \in Int /\ call.j \in Int
      /\ call.l < call.i /\ call.u <= call.n /\ call.n \in Nat /\ call.i \in Int
      /\ 1 <= call.l /\ call.u \in Int
  BY <1>0, PartPlaces
<1>3. ASSUME program.order = "<", SortsNumbers(t, call)
      PROVE  /\ Sortable(A, call) /\ A[call.i] = call.x /\ b = (call.x < call.P)
             /\ call.i < call.u
  <2>1. Sortable(A, call) /\ \A k \in 1..call.n : A[k] = luaH_getnum(t, k)
    BY <1>3, NumbersSortable
  <2>2. call.i < call.u
    BY <1>0, <2>1, PartingIs
  <2>3. call.i \in 1..call.n
    BY <1>2, <2>2
  <2> QED
    BY <1>2, <1>3, <2>1, <2>2, <2>3 DEF Answer
<1> HIDE DEF A, B
<1>4. CASE ~b
  <2>1. call' = [Down(call.j - 1) EXCEPT !.ai = call.x]
    BY <1>4 DEF GoUp
  <2>2. call.l <= call.j
    BY <1>2
  <2>3. /\ call' \in SortCalls /\ call'.pc = "down" /\ call'.P = call.P
        /\ call'.asked = call.asked + 1 /\ call'.i = call.i /\ call'.j = call.j - 1
        /\ SameInterval(call', call) /\ call'.holes = call.holes
        /\ SortPlaces(call') /\ SortValues(t', call')
    BY <1>0, <1>2, <2>1, <2>2, DownTurn
  <2>4. program.order = "<" /\ SortsNumbers(t, call) => Sorting(B, call')
    BY <1>0, <1>1, <1>3, <1>4, <2>3, SortUp
  <2> QED
    BY <1>1, <2>3, <2>4, TurnGoesOn DEF IsTurn, B
<1>5. CASE b /\ call.i > call.u
  <2>1. Goto("error")
    BY <1>5 DEF GoUp
  <2>2. /\ call' \in SortCalls /\ SameInterval(call', call) /\ call'.holes = call.holes
        /\ SortPlaces(call') /\ SortValues(t', call')
    BY <2>1, ErrorIs
  <2>3. ~(program.order = "<" /\ SortsNumbers(t, call))
    <3> SUFFICES ASSUME program.order = "<", SortsNumbers(t, call) PROVE FALSE
      OBVIOUS
    <3>1. call.i < call.u
      BY <1>3
    <3>2. call.i > call.u
      BY <1>5
    <3> QED
      BY <1>2, <3>1, <3>2
  <2> QED
    BY <1>1, <2>2, <2>3, TurnGoesOn DEF IsTurn
<1>6. CASE b /\ ~(call.i > call.u)
  <2>1. call' = Up(call.i + 1, call.P)
    BY <1>6 DEF GoUp
  <2>2. call.i <= call.u
    BY <1>2, <1>6
  <2>3. /\ call' \in SortCalls /\ call'.pc = "up" /\ call'.P = call.P
        /\ call'.asked = call.asked + 1 /\ call'.i = call.i + 1 /\ call'.j = call.j
        /\ SameInterval(call', call) /\ call'.holes = call.holes
        /\ SortPlaces(call') /\ SortValues(t', call')
    BY <1>0, <1>1, <1>2, <2>1, <2>2, UpTurn
  <2>4. program.order = "<" /\ SortsNumbers(t, call) => Sorting(B, call')
    BY <1>0, <1>1, <1>3, <1>6, <2>3, SortUp
  <2> QED
    BY <1>1, <2>3, <2>4, TurnGoesOn DEF IsTurn, B
<1> QED
  BY <1>4, <1>5, <1>6 DEF Answer

\* P < a[j]?
LEMMA GoDownGoesOn ==
    ASSUME program \in Programs, Sound(t), SortState(t, call), NEW b, Answer(b), GoDown(b)
    PROVE  GoesOn
<1> DEFINE A == Numbers(t, call.n)
           B == Numbers(t', call.n)
<1>0. call.pc = "down"
  BY DEF GoDown
<1>2. /\ call \in SortCalls /\ call.x = call.P /\ call.y = luaH_getnum(t, call.j)
      /\ call.ai = luaH_getnum(t, call.i)
      /\ call.l - 1 <= call.j /\ call.j < call.u - 1 /\ call.l \in Int /\ call.j \in Int
      /\ call.l < call.i /\ call.u <= call.n /\ call.n \in Nat /\ call.i \in Int
      /\ 1 <= call.l /\ call.u \in Int
  BY <1>0, PartPlaces
<1>3. ASSUME program.order = "<", SortsNumbers(t, call)
      PROVE  /\ Sortable(A, call) /\ A[call.j] = call.y /\ b = (call.P < call.y)
             /\ call.l <= call.j
  <2>1. Sortable(A, call) /\ \A k \in 1..call.n : A[k] = luaH_getnum(t, k)
    BY <1>3, NumbersSortable
  <2>2. call.l <= call.j
    BY <1>0, <2>1, PartingIs
  <2>3. call.j \in 1..call.n
    BY <1>2, <2>2
  <2> QED
    BY <1>2, <1>3, <2>1, <2>2, <2>3 DEF Answer
<1>4. t' = t => /\ Sound(t') /\ Swaps(t', t)
                /\ program.order = "<" /\ SortsNumbers(t, call) =>
                      B = A /\ B \in [1..call.n -> Value]
  BY TurnKeeps
<1>5. CASE b /\ call.j < call.l
  <2>1. Goto("error") /\ t' = t
    BY <1>5 DEF GoDown
  <2>2. /\ call' \in SortCalls /\ SameInterval(call', call) /\ call'.holes = call.holes
        /\ SortPlaces(call') /\ SortValues(t', call')
    BY <2>1, ErrorIs
  <2>3. ~(program.order = "<" /\ SortsNumbers(t, call))
    <3> SUFFICES ASSUME program.order = "<", SortsNumbers(t, call) PROVE FALSE
      OBVIOUS
    <3>1. call.l <= call.j
      BY <1>3
    <3>2. call.j < call.l
      BY <1>5
    <3> QED
      BY <1>2, <3>1, <3>2
  <2> QED
    BY <1>4, <2>1, <2>2, <2>3, TurnGoesOn DEF IsTurn
<1>6. CASE b /\ ~(call.j < call.l)
  <2>1. call' = Down(call.j - 1) /\ t' = t
    BY <1>6 DEF GoDown
  <2>2. call.l <= call.j /\ call.j - 1 \in Int
    BY <1>2, <1>6
  <2>3. call' = [Down(call.j - 1) EXCEPT !.ai = call.ai]
    <3>1. rawgeti(t, call.j - 1) \in AnyValue
      BY <2>2, SoundGets
    <3>2. call' \in SortCalls /\ call'.ai = call.ai
      BY <1>2, <2>1, <2>2, <3>1, DownIs
    <3>3. [call' EXCEPT !.ai = call.ai] = call'
      BY <3>2 DEF SortCalls
    <3> QED
      BY <2>1, <3>3
  <2>4. /\ call' \in SortCalls /\ call'.pc = "down" /\ call'.P = call.P
        /\ call'.asked = call.asked + 1 /\ call'.i = call.i /\ call'.j = call.j - 1
        /\ SameInterval(call', call) /\ call'.holes = call.holes
        /\ SortPlaces(call') /\ SortValues(t', call')
    BY <1>0, <1>2, <2>1, <2>2, <2>3, DownTurn
  <2>5. program.order = "<" /\ SortsNumbers(t, call) => Sorting(B, call')
    <3> HIDE DEF A, B
    <3> QED
      BY <1>0, <1>3, <1>4, <1>6, <2>1, <2>4, SortDown
  <2> QED
    BY <1>4, <2>1, <2>4, <2>5, TurnGoesOn DEF IsTurn
<1>7. CASE ~b /\ call.j < call.i
  <2>1. Goto("split") /\ t' = t
    BY <1>7 DEF GoDown
  <2>2. /\ call' \in SortCalls /\ call'.pc = "split" /\ call'.asked = call.asked
        /\ call'.i = call.i /\ call'.j = call.j /\ call'.P = call.P
        /\ SameInterval(call', call) /\ call'.holes = call.holes
    BY <1>2, <2>1, GoneTo DEF Points, Busy
  <2>3. SortPlaces(call') /\ SortValues(t', call')
    BY <1>0, <2>2, StateType DEF SortPlaces, SortValues, SameInterval, SameCall
  <2>4. program.order = "<" /\ SortsNumbers(t, call) => Sorting(B, call')
    <3> HIDE DEF A, B
    <3> QED
      BY <1>0, <1>3, <1>4, <1>7, <2>1, <2>2, SortDown
  <2> QED
    BY <1>4, <2>1, <2>2, <2>3, <2>4, TurnGoesOn DEF IsTurn
<1>8. CASE ~b /\ ~(call.j < call.i)
  <2>1. set2(call.i, call.y, call.j, call.ai) /\ call' = Up(call.i + 1, call.P)
    BY <1>8 DEF GoDown
  <2>2. call.i \in call.l..call.u /\ call.j \in call.l..call.u /\ call.i <= call.u
        /\ call.l < call.j /\ call.j < call.u
    BY <1>2, <1>8
  <2>3. /\ Sound(t') /\ Swaps(t', t)
        /\ program.order = "<" /\ SortsNumbers(t, call) =>
              Exchanged(B, A, call.n, call.i, call.j) /\ B \in [1..call.n -> Value]
    BY <1>2, <2>1, <2>2, TurnSwaps
  <2>4. /\ call' \in SortCalls /\ call'.pc = "up" /\ call'.P = call.P
        /\ call'.asked = call.asked + 1 /\ call'.i = call.i + 1 /\ call'.j = call.j
        /\ SameInterval(call', call) /\ call'.holes = call.holes
        /\ SortPlaces(call') /\ SortValues(t', call')
    BY <1>0, <2>1, <2>2, <2>3, UpTurn
  <2>5. program.order = "<" /\ SortsNumbers(t, call) => Sorting(B, call')
    <3> HIDE DEF A, B
    <3> QED
      BY <1>0, <1>3, <1>8, <2>3, <2>4, SortDown
  <2> QED
    BY <2>3, <2>4, <2>5, TurnGoesOn DEF IsTurn
<1> QED
  BY <1>5, <1>6, <1>7, <1>8 DEF Answer

\* Multiplication by a natural number keeps the order.
LEMMA Times ==
    ASSUME NEW m \in Nat, NEW a \in Int, NEW b \in Int, a <= b
    PROVE  m * a <= m * b
<1>1. b - a \in Nat
  OBVIOUS
<1>2. m * (b - a) \in Nat
  BY <1>1
<1>3. m * (b - a) = m * b - m * a
  OBVIOUS
<1> QED
  BY <1>2, <1>3

\* A part of the interval d calls deep, with a bound for twice its size.
LEMMA DeeperFits ==
    ASSUME NEW c, c.n \in Int, NEW d \in Nat, NEW l \in Int, NEW u \in Int, Fits(c, d, l, u),
           NEW m \in Int, NEW v \in Int, l <= m, v <= u
    PROVE  /\ Fits(c, d, m, v)
           /\ 2 * (v - m + 1) <= u - l + 1 => Fits(c, d + 1, m, v)
<1> DEFINE s == u - l + 1
           r == v - m + 1
           f == twoto[d]
<1>1. f \in Nat /\ twoto[d + 1] = 2 * f /\ s \in Int /\ r \in Int
  BY TwotoIs
<1>2. 1 <= l /\ u <= c.n /\ f * s <= c.n
  BY DEF Fits
<1>3. r <= s /\ 1 <= m /\ v <= c.n
  BY <1>2
<1> HIDE DEF s, r, f
<1>4. f * r <= f * s /\ f * r \in Int /\ f * s \in Int
  BY <1>1, <1>3, Times
<1>5. ASSUME 2 * r <= s PROVE (2 * f) * r <= c.n
  <2>1. f * (2 * r) <= f * s
    BY <1>1, <1>5, Times
  <2>2. f * (2 * r) = (2 * f) * r
    BY <1>1
  <2> DEFINE x == f * (2 * r)
             y == f * s
  <2>3. x \in Int /\ y \in Int /\ x <= y /\ y <= c.n
    BY <1>1, <1>2, <2>1
  <2> HIDE DEF x, y
  <2>4. x <= c.n
    BY <2>3
  <2> QED
    BY <2>2, <2>4 DEF x
<1>6. f * r <= c.n
  <2> DEFINE x == f * r
             y == f * s
  <2>1. x \in Int /\ y \in Int /\ x <= y /\ y <= c.n
    BY <1>2, <1>4
  <2> HIDE DEF x, y
  <2>2. x <= c.n
    BY <2>1
  <2> QED
    BY <2>2 DEF x
<1> QED
  BY <1>1, <1>3, <1>5, <1>6 DEF Fits, f, r, s

\* What fits depends on the length alone.
LEMMA FitsSame ==
    ASSUME NEW c, NEW e, c.n = e.n, NEW d, NEW l, NEW u, Fits(c, d, l, u)
    PROVE  Fits(e, d, l, u)
BY DEF Fits

\* The record of the call after a split.
LEMMA SplitIs ==
    ASSUME call \in SortCalls, NEW l \in Int, NEW u \in Int, NEW m \in Int, NEW v \in Int,
           call' = [call EXCEPT !.pc = "while", !.l = l, !.u = u,
                                !.stack = << <<m, v>> >> \o @]
    PROVE  /\ call' \in SortCalls /\ call'.pc = "while" /\ call'.n = call.n
           /\ call'.asked = call.asked /\ call'.l = l /\ call'.u = u
           /\ call'.holes = call.holes /\ Len(call.stack) \in Nat
           /\ Len(call'.stack) = Len(call.stack) + 1
           /\ call'.stack[1][1] = m /\ call'.stack[1][2] = v
           /\ \A k \in 1..Len(call.stack) : call'.stack[k + 1] = call.stack[k]
<1> DEFINE w == <<m, v>>
           st == call.stack
           new == <<w>> \o st
<1>1. w \in Int \X Int /\ w[1] = m /\ w[2] = v
  OBVIOUS
<1>2. st \in Seq(Int \X Int)
  BY DEF SortCalls
<1>3. call' = [call EXCEPT !.pc = "while", !.l = l, !.u = u, !.stack = new]
  OBVIOUS
<1> HIDE DEF w, st
<1>4. /\ new \in Seq(Int \X Int) /\ Len(new) = Len(st) + 1 /\ Len(st) \in Nat /\ new[1] = w
      /\ \A k \in 1..Len(st) : new[k + 1] = st[k]
  <2> DEFINE S == Int \X Int
  <2>1. w \in S /\ st \in Seq(S)
    BY <1>1, <1>2
  <2> HIDE DEF S
  <2>2. /\ new \in Seq(S) /\ Len(new) = Len(st) + 1 /\ Len(st) \in Nat /\ new[1] = w
        /\ \A k \in 1..Len(st) : new[k + 1] = st[k]
    BY <2>1, Pushed
  <2> QED
    BY <2>2 DEF S
<1> HIDE DEF new
<1>5. LET d == [call EXCEPT !.pc = "while", !.l = l, !.u = u, !.stack = new]
      IN  /\ d \in SortCalls /\ d.pc = "while" /\ d.asked = call.asked /\ d.n = call.n
          /\ d.l = l /\ d.u = u /\ d.stack = new /\ d.holes = call.holes
  <2>1. new \in Seq(Int \X Int)
    BY <1>4
  <2> QED
    BY <2>1 DEF SortCalls, Busy
<1>6. /\ call' \in SortCalls /\ call'.pc = "while" /\ call'.asked = call.asked
      /\ call'.n = call.n /\ call'.l = l /\ call'.u = u /\ call'.stack = new
      /\ call'.holes = call.holes
  BY <1>3, <1>5
<1>7. /\ Len(st) \in Nat /\ Len(call'.stack) = Len(st) + 1 /\ call'.stack[1] = w
      /\ \A k \in 1..Len(st) : call'.stack[k + 1] = st[k]
  BY <1>4, <1>6
<1> QED
  BY <1>1, <1>6, <1>7 DEF st

\* One of two parts is on the stack, and half as large.
LEMMA SplitDepth ==
    ASSUME NEW c \in SortCalls, SortDepth(c), NEW e, e.n = c.n,
           Len(e.stack) = Len(c.stack) + 1, Len(c.stack) \in Nat,
           \A k \in 1..Len(c.stack) : e.stack[k + 1] = c.stack[k],
           Fits(c, Len(c.stack) + 1, e.l, e.u),
           Fits(c, Len(c.stack), e.stack[1][1], e.stack[1][2])
    PROVE  SortDepth(e)
<1> DEFINE n == Len(c.stack)
<1>0. n \in Nat /\ Len(e.stack) = n + 1
  OBVIOUS
<1>1. ASSUME NEW k \in 1..(n + 1)
      PROVE  Fits(e, n + 1 - k, e.stack[k][1], e.stack[k][2])
  <2>1. CASE k = 1
    <3>1. n + 1 - k = n
      BY <1>0, <2>1
    <3> QED
      BY <2>1, <3>1, FitsSame
  <2>2. CASE k # 1
    <3>1. k - 1 \in 1..n /\ (k - 1) + 1 = k /\ n - (k - 1) = n + 1 - k
      BY <1>0, <2>2
    <3>2. e.stack[k] = c.stack[k - 1]
      BY <3>1
    <3>3. Fits(c, n - (k - 1), c.stack[k - 1][1], c.stack[k - 1][2])
      BY <3>1 DEF SortDepth
    <3> QED
      BY <3>1, <3>2, <3>3, FitsSame
  <2> QED
    BY <2>1, <2>2
<1>2. Fits(e, n + 1, e.l, e.u)
  BY FitsSame
<1> QED
  BY <1>0, <1>1, <1>2 DEF SortDepth

\* The smaller part comes first, the larger one waits on the stack.
LEMMA SplitGoesOn ==
    ASSUME program \in Programs, Sound(t), SortState(t, call), Split
    PROVE  GoesOn
<1> DEFINE A == Numbers(t, call.n)
           B == Numbers(t', call.n)
           i == call.i
           l == call.l
           u == call.u
<1>0. call.pc = "split" /\ SortDepth(call)
  BY StateType DEF Split
<1>1. /\ call \in SortCalls /\ l \in Int /\ u \in Int /\ i \in Int
      /\ 1 <= l /\ u <= call.n /\ call.n \in Nat /\ call.n <= MaxLength /\ MaxLength \in Nat
      /\ l + 3 <= u /\ l < i /\ i <= u + 1
  BY <1>0, PartPlaces
<1>2. i \in 0..(MaxLength + 1) /\ u - 1 \in 0..(MaxLength + 1) /\ i \in Int /\ u - 1 \in Int
      /\ i - 1 \in Int /\ i + 1 \in Int
  BY <1>1
<1>3. set2(u - 1, rawgeti(t, i), i, rawgeti(t, u - 1))
  BY DEF Split
<1>4. rawgeti(t, i) = luaH_getnum(t, i) /\ rawgeti(t, u - 1) = luaH_getnum(t, u - 1)
  BY <1>2, SoundGets
<1>5. Sound(t') /\ Swaps(t', t)
  BY <1>2, <1>3, <1>4, SetIs
<1>6. ASSUME i - l < u - i
      PROVE  call' = [call EXCEPT !.pc = "while", !.l = l, !.u = i - 1,
                                  !.stack = << <<i + 1, u>> >> \o @]
  BY <1>6 DEF Split
<1>7. ASSUME ~(i - l < u - i)
      PROVE  call' = [call EXCEPT !.pc = "while", !.l = i + 1, !.u = u,
                                  !.stack = << <<l, i - 1>> >> \o @]
  BY <1>7 DEF Split
<1>8. /\ call' \in SortCalls /\ IsSplit(call, call') /\ call'.holes = call.holes
      /\ Len(call.stack) \in Nat
      /\ \/ i - l < u - i /\ call'.l = l /\ call'.u = i - 1
            /\ call'.stack[1][1] = i + 1 /\ call'.stack[1][2] = u
         \/ ~(i - l < u - i) /\ call'.l = i + 1 /\ call'.u = u
            /\ call'.stack[1][1] = l /\ call'.stack[1][2] = i - 1
  <2>1. CASE i - l < u - i
    <3>1. /\ call' \in SortCalls /\ call'.pc = "while" /\ call'.n = call.n
          /\ call'.asked = call.asked /\ call'.l = l /\ call'.u = i - 1
          /\ call'.holes = call.holes /\ Len(call.stack) \in Nat
          /\ Len(call'.stack) = Len(call.stack) + 1
          /\ call'.stack[1][1] = i + 1 /\ call'.stack[1][2] = u
          /\ \A k \in 1..Len(call.stack) : call'.stack[k + 1] = call.stack[k]
      BY <1>1, <1>2, <1>6, <2>1, SplitIs
    <3> QED
      BY <2>1, <3>1 DEF IsSplit
  <2>2. CASE ~(i - l < u - i)
    <3>1. /\ call' \in SortCalls /\ call'.pc = "while" /\ call'.n = call.n
          /\ call'.asked = call.asked /\ call'.l = i + 1 /\ call'.u = u
          /\ call'.holes = call.holes /\ Len(call.stack) \in Nat
          /\ Len(call'.stack) = Len(call.stack) + 1
          /\ call'.stack[1][1] = l /\ call'.stack[1][2] = i - 1
          /\ \A k \in 1..Len(call.stack) : call'.stack[k + 1] = call.stack[k]
      BY <1>1, <1>2, <1>7, <2>2, SplitIs
    <3> QED
      BY <2>2, <3>1 DEF IsSplit
  <2> QED
    BY <2>1, <2>2
<1>9. SortDepth(call')
  <2> DEFINE n == Len(call.stack)
  <2>0. n \in Nat /\ Fits(call, n, l, u) /\ call.n \in Int
    BY <1>0, <1>1, <1>8 DEF SortDepth
  <2>1. /\ Fits(call, n, l, i - 1) \/ i = u + 1
        /\ Fits(call, n, i + 1, u)
        /\ 2 * (i - 1 - l + 1) <= u - l + 1 => Fits(call, n + 1, l, i - 1) \/ i = u + 1
        /\ 2 * (u - (i + 1) + 1) <= u - l + 1 => Fits(call, n + 1, i + 1, u)
    <3>1. l <= i + 1 /\ u <= u /\ l <= l /\ (i # u + 1 => i - 1 <= u)
      BY <1>1
    <3> QED
      BY <1>1, <1>2, <2>0, <3>1, DeeperFits
  <2>2. i = u + 1 => Fits(call, n, l, i - 1) /\ ~(i - l < u - i)
    <3>1. i = u + 1 => i - 1 = u /\ ~(i - l < u - i)
      BY <1>1
    <3> QED
      BY <2>0, <3>1
  <2>3. i - l < u - i => 2 * (i - 1 - l + 1) <= u - l + 1
    BY <1>1
  <2>4. ~(i - l < u - i) => 2 * (u - (i + 1) + 1) <= u - l + 1
    BY <1>1
  <2>5. /\ Fits(call, n + 1, call'.l, call'.u)
        /\ Fits(call, n, call'.stack[1][1], call'.stack[1][2])
    BY <1>8, <2>1, <2>2, <2>3, <2>4
  <2>6. /\ call'.n = call.n /\ Len(call'.stack) = n + 1
        /\ \A k \in 1..n : call'.stack[k + 1] = call.stack[k]
    BY <1>8 DEF IsSplit
  <2> QED
    BY <1>0, <1>1, <2>0, <2>5, <2>6, SplitDepth
<1>10. SortState(t', call')
  <2>1. call'.pc = "while" /\ call'.n = call.n
    BY <1>8 DEF IsSplit
  <2>2. 1 <= call'.l /\ call'.u <= call'.n
    BY <1>1, <1>8, <2>1
  <2> QED
    BY <1>8, <1>9, <2>1, <2>2 DEF SortState, SortPlaces, SortValues
<1>11. ASSUME program.order = "<", SortsNumbers(t, call)
       PROVE  SortsNumbers(t', call')
  <2>1. Sortable(A, call) /\ A \in [1..call.n -> Value] /\ Value \subseteq Int
    BY <1>11, NumbersSortable
  <2>2. i < u
    BY <1>0, <2>1, PartingIs
  <2>3. i \in l..u /\ u - 1 \in l..u
    BY <1>1, <2>2
  <2>4. Exchanged(B, A, call.n, u - 1, i) /\ B \in [1..call.n -> Value]
    BY <1>3, <1>4, <1>11, <2>3, TurnSwaps
  <2>5. call'.n = call.n
    BY <1>8 DEF IsSplit
  <2>6. Sorting(B, call')
    <3> HIDE DEF A, B
    <3> QED
      BY <1>0, <1>8, <2>1, <2>4, SortSplit
  <2> QED
    BY <2>4, <2>5, <2>6 DEF SortsNumbers
<1> QED
  BY <1>5, <1>8, <1>10, <1>11 DEF GoesOn

\* sort_comp() does not fail on numbers, and answers as it should.
LEMMA CompGoesOn ==
    ASSUME program \in Programs, Sound(t), SortState(t, call), sort_comp
    PROVE  GoesOn
<1>1. call.pc \in {"first", "middle", "last", "up", "down"}
  BY DEF sort_comp
<1>2. CASE program.order = "<" /\ Nil \in {call.x, call.y}
  <2>1. Goto("error") /\ t' = t
    BY <1>2 DEF sort_comp
  <2>2. /\ call' \in SortCalls /\ SameInterval(call', call) /\ call'.holes = call.holes
        /\ SortPlaces(call') /\ SortValues(t', call')
    BY <2>1, ErrorIs
  <2>3. Sound(t') /\ Swaps(t', t)
    BY <2>1, TurnKeeps
  <2>4. ASSUME SortsNumbers(t, call) PROVE FALSE
    <3>1. /\ Sortable(Numbers(t, call.n), call) /\ Value \subseteq Int /\ Nil \notin Value
          /\ \A k \in 1..call.n : luaH_getnum(t, k) \in Value
      BY <1>2, <2>4, NumbersSortable
    <3>2. /\ SortValues(t, call) /\ SortPlaces(call) /\ call.l \in Int /\ call.u \in Int
          /\ call.i \in Int /\ call.j \in Int /\ call.n \in Nat /\ 1 <= call.l /\ call.u <= call.n
      BY StateType
    <3>3. CASE call.pc \in {"first", "middle", "last"}
      <4>1. \A k \in call.l..call.u : luaH_getnum(t, k) \in Value
        BY <3>1, <3>2
      <4>2. call.l \in call.l..call.u /\ call.u \in call.l..call.u
            /\ (call.pc # "first" => call.i \in call.l..call.u)
        BY <3>2, <3>3 DEF SortPlaces
      <4>3. call.x \in Value /\ call.y \in Value
        BY <3>2, <3>3, <4>1, <4>2 DEF SortValues
      <4> QED
        BY <1>2, <3>1, <4>3
    <3>4. CASE call.pc \in {"up", "down"}
      <4>1. call.P \in Int /\ call.i \in call.l..call.u /\ (call.pc = "down" => call.l <= call.j)
        BY <3>1, <3>4, PartingIs
      <4>2. /\ Numbers(t, call.n)[call.u - 1] = call.P /\ call.u - 1 \in call.l..call.u
        BY <3>1, <3>4, PartingIs
      <4>3. call.P \in Value
        <5>1. Numbers(t, call.n) \in [1..call.n -> Value]
          BY <2>4 DEF SortsNumbers
        <5>2. call.u - 1 \in 1..call.n
          BY <3>2, <4>2
        <5> QED
          BY <4>2, <5>1, <5>2
      <4>4. call.i \in 1..call.n /\ (call.pc = "down" => call.j \in 1..call.n)
        BY <3>2, <3>4, <4>1 DEF SortPlaces
      <4>5. call.x \in Value /\ call.y \in Value
        BY <3>1, <3>2, <3>4, <4>3, <4>4 DEF SortValues
      <4> QED
        BY <1>2, <3>1, <4>5
    <3> QED
      BY <1>1, <3>3, <3>4
  <2> QED
    BY <2>2, <2>3, <2>4, TurnGoesOn DEF IsTurn
<1>3. CASE ~(program.order = "<" /\ Nil \in {call.x, call.y})
  <2>1. PICK b \in IF program.order = "<" THEN {call.x < call.y} ELSE BOOLEAN :
            OutOfOrder(b) \/ BelowLow(b) \/ AboveHigh(b) \/ GoUp(b) \/ GoDown(b)
    BY <1>3 DEF sort_comp
  <2>2. program.order = "<" => call.x \in Int /\ call.y \in Int
    <3>1. program.order = "<" => Value \subseteq Int
      BY ProgramAssumption
    <3>2. call.x \in AnyValue /\ call.y \in AnyValue
      BY StateType
    <3> QED
      BY <1>3, <3>1, <3>2 DEF AnyValue
  <2>3. Answer(b)
    <3>1. CASE program.order = "<"
      <4>1. b = (call.x < call.y)
        BY <2>1, <3>1
      <4>2. (call.x < call.y) \in BOOLEAN
        BY <2>2, <3>1
      <4> QED
        BY <4>1, <4>2 DEF Answer
    <3>2. CASE program.order # "<"
      BY <2>1, <3>2 DEF Answer
    <3> QED
      BY <3>1, <3>2
  <2> QED
    BY <2>1, <2>3, OutOfOrderGoesOn, BelowLowGoesOn, AboveHighGoesOn, GoUpGoesOn, GoDownGoesOn
<1> QED
  BY <1>2, <1>3

\* Every step of auxsort() goes on with the sort.
LEMMA AuxsortGoesOn ==
    ASSUME program \in Programs, Sound(t), SortState(t, call), auxsort
    PROVE  GoesOn
BY WhileGoesOn, ReturnGoesOn, PivotGoesOn, SplitGoesOn, CompGoesOn DEF auxsort

-----------------------------------------------------------------------------
(* The invariant is inductive.                                             *)

\* A table with no field, for narray and nhash of them.
LEMMA NewSpec ==
    ASSUME NEW narray \in Nat, NEW nhash \in Nat
    PROVE  /\ Sound(luaH_new(narray, nhash))
           /\ \A k \in Key : luaH_get(luaH_new(narray, nhash), k) = Nil
<1> DEFINE a == Grown(<< >>, narray)
           h == [Empty EXCEPT !.array = a]
           g == setnodevector(h, nhash)
<1>1. a \in Seq(Value \cup {Nil}) /\ Len(a) = narray /\ \A i \in 1..narray : a[i] = Nil
  <2> DEFINE none == << >>
             b == [i \in 1..narray |-> Nil]
  <2>1. none \in Seq(Value \cup {Nil}) /\ Len(none) = 0
    OBVIOUS
  <2>2. b \in Seq(Value \cup {Nil}) /\ Len(b) = narray
    OBVIOUS
  <2>3. a = none \o b
    BY DEF Grown
  <2>4. \A i \in 1..narray : b[i] = Nil
    OBVIOUS
  <2> HIDE DEF none, b
  <2>5. /\ none \o b \in Seq(Value \cup {Nil}) /\ Len(none \o b) = 0 + narray
        /\ \A i \in 1..narray : (none \o b)[i] = b[i - 0]
    BY <2>1, <2>2, ConcatProperties
  <2> HIDE DEF a
  <2> QED
    BY <2>3, <2>4, <2>5
<1> HIDE DEF a
<1>2. h \in AnyTable /\ h.array = a
  <2>1. EmptyNode \in AnyNode
    BY DEF EmptyNode, AnyNode, NodeKeys, NULL
  <2>2. <<EmptyNode>> \in Seq(AnyNode)
    BY <2>1
  <2> DEFINE nodes == <<EmptyNode>>
             none == << >>
  <2>3. nodes \in Seq(AnyNode) /\ none \in Seq(Value \cup {Nil})
    BY <2>2
  <2>4. Empty = [array |-> none, node |-> nodes, dummy |-> TRUE, lastfree |-> 0]
    BY DEF Empty
  <2> HIDE DEF nodes, none
  <2>5. Empty \in AnyTable
    BY <2>3, <2>4 DEF AnyTable
  <2> QED
    BY <1>1, <2>5 DEF AnyTable
<1> HIDE DEF h
<1>3. \A i \in 1..sizearray(h) : h.array[i] # Nil => Number(i) \in Key
  BY <1>1, <1>2 DEF sizearray
<1>4. Fresh(g, h.array, nhash)
  BY <1>2, <1>3, FreshTable
<1>5. g = luaH_new(narray, nhash)
  BY DEF luaH_new, h, a
<1> HIDE DEF g
<1>6. Sound(g) /\ g.array = a /\ \A n \in Nodes(g) : Held(g)[n] = Nil
  BY <1>2, <1>4 DEF Fresh
<1>7. ASSUME NEW k \in Key, luaH_get(g, k) # Nil PROVE FALSE
  <2> DEFINE e == Find(g, k)
  <2>1. e # NULL /\ ValAt(g, e) # Nil
    BY <1>7, GetIs
  <2>2. e \in Entries(g) /\ KeyAt(g, e) = k
    BY <1>6, <2>1, FindIs
  <2>3. g \in AnyTable /\ k # Nil
    BY <1>6, SoundType, KeyAssumption
  <2> HIDE DEF e
  <2>4. CASE e < sizearray(g)
    <3>1. e + 1 \in 1..sizearray(g) /\ ValAt(g, e) = g.array[e + 1] /\ sizearray(g) = narray
      BY <1>1, <1>6, <2>2, <2>3, <2>4, EntryKinds DEF sizearray
    <3> QED
      BY <1>1, <1>6, <2>1, <3>1
  <2>5. CASE ~(e < sizearray(g))
    <3>1. e - sizearray(g) \in Nodes(g) /\ KeyAt(g, e) = Held(g)[e - sizearray(g)]
      BY <2>2, <2>3, <2>5, EntryKinds
    <3> QED
      BY <1>6, <2>2, <2>3, <3>1
  <2> QED
    BY <2>4, <2>5
<1> QED
  BY <1>5, <1>6, <1>7

\* The invariant holds of a new table.
LEMMA InitInvariant == Init => IInv
<1> SUFFICES ASSUME Init PROVE IInv
  OBVIOUS
<1>1. program.narray \in Nat /\ program.nhash \in Nat /\ program \in Programs
  BY ProgramAssumption DEF Init
<1>2. Sound(t)
  BY <1>1, NewSpec DEF Init
<1> QED
  BY <1>1, <1>2 DEF Init, IInv, Walking, Calling

\* A traversal goes on in a table whose order is the same, or is given up.
Follows ==
    /\ Sound(t') /\ map' = Content(t') /\ program' = program
    /\ \/ walk' = walk /\ at' = at /\ seen' = seen /\ (walk = "on" => SameOrder(t', t))
       \/ walk' = "none" /\ at' = Nil /\ seen' = {}

\* Either way the invariant holds.
LEMMA FollowsInvariant ==
    ASSUME IInv, Follows, call' = NoCall
    PROVE  IInv'
<1>1. Walking'
  <2>1. CASE walk' = walk /\ at' = at /\ seen' = seen /\ (walk = "on" => SameOrder(t', t))
    <3>1. walk = "on" => Walked(t', at, seen)
      BY <2>1, WalkedSame DEF IInv, Walking
    <3> QED
      BY <2>1, <3>1 DEF IInv, Walking
  <2>2. CASE walk' = "none" /\ at' = Nil /\ seen' = {}
    BY <2>2 DEF Walking
  <2> QED
    BY <2>1, <2>2 DEF Follows
<1>2. Calling'
  BY DEF Calling
<1> QED
  BY <1>1, <1>2 DEF IInv, Follows

\* That is what Abandon() does.
LEMMA AbandonFollows ==
    ASSUME IInv, NEW added, Abandon(added), Sound(t'), Recorded, program' = program,
           walk = "on" /\ ~added => SameOrder(t', t)
    PROVE  Follows
<1>1. CASE added /\ walk # "constructor"
  BY <1>1 DEF Abandon, Follows, Recorded
<1>2. CASE ~(added /\ walk # "constructor")
  BY <1>2 DEF Abandon, Follows, Recorded, walking
<1> QED
  BY <1>1, <1>2

\* What an assignment does.
LEMMA RawsetIs ==
    ASSUME IInv, lua_rawset
    PROVE  /\ Follows /\ call' = NoCall
           /\ \E k \in Key, v \in Value \cup {Nil} :
                 /\ \A q \in Key : luaH_get(t', q) = IF q = k THEN v ELSE luaH_get(t, q)
                 /\ Abandon(luaH_get(t, k) = Nil)
<1>1. PICK k \in Key : \E v \in program.vals[k] :
         t' = Assigned(t, k, v) /\ Abandon(luaH_get(t, k) = Nil)
  BY DEF lua_rawset
<1>2. PICK v \in program.vals[k] : t' = Assigned(t, k, v) /\ Abandon(luaH_get(t, k) = Nil)
  BY <1>1
<1>3. v \in Value \cup {Nil} /\ Sound(t)
  BY ProgramAssumption DEF IInv
<1>4. /\ Sound(t')
      /\ \A q \in Key : luaH_get(t', q) = IF q = k THEN v ELSE luaH_get(t, q)
      /\ Find(t, k) # NULL => SameNodes(t', t)
  BY <1>2, <1>3, AssignedSpec
<1>5. luaH_get(t, k) # Nil => SameOrder(t', t)
  <2> SUFFICES ASSUME luaH_get(t, k) # Nil PROVE SameOrder(t', t)
    OBVIOUS
  <2>1. Find(t, k) # NULL
    BY GetIs
  <2>2. \A q \in Key : luaH_get(t', q) # Nil => luaH_get(t, q) # Nil
    BY <1>4
  <2> QED
    BY <1>3, <1>4, <2>1, <2>2, AssignedOrder
<1>6. Recorded /\ program' = program /\ call' = NoCall
  BY DEF lua_rawset
<1>7. Follows
  BY <1>2, <1>4, <1>5, <1>6, AbandonFollows
<1> QED
  BY <1>2, <1>3, <1>4, <1>6, <1>7

\* The constructor of the table ends.
LEMMA ListIs ==
    ASSUME IInv, SetList
    PROVE  /\ Follows /\ call' = NoCall
           /\ \E n \in 0..MaxLength : \A k \in Key :
                 (\A i \in 1..n : k # Number(i)) => luaH_get(t', k) = luaH_get(t, k)
<1>1. PICK list \in program.lists :
         t' = Listed(IF Len(list) > sizearray(t) THEN luaH_resizearray(t, Len(list)) ELSE t, list)
  BY DEF SetList
<1> DEFINE n == Len(list)
           h == IF n > sizearray(t) THEN luaH_resizearray(t, n) ELSE t
<1>2. list \in Seq(Value) /\ n <= MaxLength /\ n \in Nat
  BY ProgramAssumption DEF IInv
<1>3. list \in Seq(Value \cup {Nil})
  BY <1>2
<1>4. Sound(h) /\ \A k \in Key : luaH_get(h, k) = luaH_get(t, k)
  <2>1. Sound(t) /\ sizearray(t) \in Nat
    BY SoundType DEF IInv
  <2>2. CASE n > sizearray(t)
    BY <1>2, <2>1, <2>2, ResizeArraySpec
  <2> QED
    BY <2>1, <2>2
<1>5. t' = Listed(h, list)
  BY <1>1
<1> HIDE DEF h
<1>6. HasNew(t', h, 1..n, list)
  BY <1>2, <1>3, <1>4, <1>5, ListedSpec
<1>7. walk = "constructor" /\ at = Nil /\ seen = {}
  BY DEF SetList, IInv, Walking
<1>8. call' = NoCall
  BY <1>7 DEF SetList, IInv, Calling
<1>9. Follows
  BY <1>6, <1>7 DEF SetList, Follows, Recorded, HasNew
<1>10. MaxLength \in Nat
  BY KeyAssumption, TableAssumption
<1> QED
  BY <1>2, <1>4, <1>6, <1>8, <1>9, <1>10 DEF HasNew

\* The fields of some integers are new.
IsNew(D, new) ==
    /\ \A n \in D : luaH_getnum(t', n) = new[n]
    /\ \A k \in Key : (\A n \in D : k # Number(n)) => luaH_get(t', k) = luaH_get(t, k)

\* One assignment to an integer.
LEMMA SetOne ==
    ASSUME NEW g, Sound(g), NEW n \in 0..(MaxLength + 1), NEW v \in Value \cup {Nil}
    PROVE  LET r == rawseti(g, n, v)
           IN  /\ Sound(r) /\ luaH_getnum(r, n) = v
               /\ \A k \in Key : k # Number(n) => luaH_get(r, k) = luaH_get(g, k)
               /\ luaH_getnum(g, n) # Nil => SameNodes(r, g)
<1>1. Number(n) \in Key
  BY KeyAssumption
<1>2. luaH_getnum(g, n) # Nil => Find(g, Number(n)) # NULL
  BY <1>1, GetIs DEF luaH_getnum
<1> QED
  BY <1>1, <1>2, AssignedSpec DEF rawseti, luaH_getnum

\* The positions table.insert() and table.remove() have.
LEMMA LengthIs ==
    ASSUME IInv
    PROVE  /\ luaH_getn(t) \in Nat /\ Boundary(t, luaH_getn(t)) /\ Sound(t)
           /\ MaxLength \in Nat /\ \A n \in 0..(MaxLength + 1) : Number(n) \in Key
<1>1. Sound(t)
  BY DEF IInv
<1>2. Boundary(t, luaH_getn(t))
  BY <1>1, GetnSpec
<1> QED
  BY <1>1, <1>2, KeyAssumption, TableAssumption DEF Boundary

\* What table.insert() does.
Inserted(pos, n, v) ==
    /\ n \in 0..MaxLength /\ n + 1 <= MaxLength /\ Boundary(t, n)
    /\ pos \in 1..(n + 2) /\ v \in Value
    /\ IsNew(pos..(n + 1) \cup {pos},
             [i \in pos..(n + 1) \cup {pos} |-> IF i = pos THEN v ELSE luaH_getnum(t, i - 1)])

\* tinsert() does that,
LEMMA InsertIs ==
    ASSUME IInv, tinsert
    PROVE  /\ Follows /\ call' = NoCall /\ Abandon(TRUE)
           /\ \E pos, n, v : Inserted(pos, n, v)
<1> DEFINE n == luaH_getn(t)
           e == n + 1
<1>1. n \in Nat /\ Boundary(t, n) /\ Sound(t) /\ MaxLength \in Nat
      /\ \A i \in 0..(MaxLength + 1) : Number(i) \in Key
  BY LengthIs
<1>a. PICK pos \in Positions \cap (1..(e + 1)) : \E v \in program.vals[Number(pos)] \ {Nil} :
         e <= MaxLength /\ t' = rawseti(MovedUp(t, pos, Max({pos, e})), pos, v)
  BY DEF tinsert
<1>2. PICK v \in program.vals[Number(pos)] \ {Nil} :
         e <= MaxLength /\ t' = rawseti(MovedUp(t, pos, Max({pos, e})), pos, v)
  BY <1>a
<1> HIDE DEF n
<1>3. pos \in Nat /\ 1 <= pos /\ pos <= n + 2 /\ pos \in 0..(MaxLength + 1) /\ pos \in 1..(n + 2)
  BY <1>1, <1>2
<1>4. v \in Value
  <2>1. Number(pos) \in Key
    BY <1>1, <1>3
  <2> QED
    BY <1>2, <2>1, ProgramAssumption DEF IInv
<1> DEFINE m == Max({pos, e})
           g == MovedUp(t, pos, m)
           D == pos..e \cup {pos}
           new == [i \in D |-> IF i = pos THEN v ELSE luaH_getnum(t, i - 1)]
           up == [i \in (pos + 1)..m |-> luaH_getnum(t, i - 1)]
<1>5. m \in Nat /\ pos <= m /\ e <= m /\ (m = pos \/ m = e) /\ m <= MaxLength + 1
  <2> DEFINE T == {pos, e}
  <2>1. T \in SUBSET (0..(n + 2)) /\ T # {}
    BY <1>1, <1>3
  <2> HIDE DEF T
  <2>a. n + 2 \in Nat
    BY <1>1
  <2>2. Max(T) \in T /\ \A k \in T : Max(T) >= k
    BY <2>a, <2>1, MaxOf
  <2> QED
    BY <1>1, <1>2, <1>3, <2>2 DEF T
<1> HIDE DEF m
<1>6. HasNew(g, t, (pos + 1)..m, up)
  BY <1>1, <1>3, <1>5, MovedUpSpec
<1>7. t' = rawseti(g, pos, v)
  BY <1>2 DEF m
<1> HIDE DEF g
<1>8. /\ Sound(t') /\ luaH_getnum(t', pos) = v
      /\ \A k \in Key : k # Number(pos) => luaH_get(t', k) = luaH_get(g, k)
  BY <1>3, <1>4, <1>6, <1>7, SetOne DEF HasNew
<1>9. ASSUME NEW i \in D PROVE luaH_getnum(t', i) = new[i]
  <2>1. CASE i = pos
    BY <1>8, <2>1
  <2>2. CASE i # pos
    <3>1. i \in (pos + 1)..m /\ i \in 0..(MaxLength + 1)
      BY <1>1, <1>3, <1>5, <2>2
    <3>2. Number(i) \in Key /\ Number(i) # Number(pos)
      BY <1>1, <2>2, <3>1 DEF Number
    <3>3. luaH_getnum(g, i) = up[i]
      BY <1>6, <3>1 DEF HasNew
    <3>4. luaH_getnum(t', i) = luaH_getnum(g, i)
      BY <1>8, <3>2 DEF luaH_getnum
    <3> QED
      BY <2>2, <3>1, <3>3, <3>4
  <2> QED
    BY <2>1, <2>2
<1>10. ASSUME NEW k \in Key, \A i \in D : k # Number(i)
       PROVE  luaH_get(t', k) = luaH_get(t, k)
  <2>1. k # Number(pos)
    BY <1>10
  <2>2. \A i \in (pos + 1)..m : i \in D
    BY <1>1, <1>3, <1>5
  <2>3. \A i \in (pos + 1)..m : k # Number(i)
    BY <1>10, <2>2
  <2> QED
    BY <1>6, <1>8, <2>1, <2>3 DEF HasNew
<1>11. Abandon(TRUE) /\ Recorded /\ program' = program /\ call' = NoCall
  BY DEF tinsert
<1>12. Follows
  BY <1>8, <1>11, AbandonFollows
<1>13. IsNew(D, new)
  BY <1>9, <1>10 DEF IsNew
<1>14. n \in 0..MaxLength /\ n + 1 <= MaxLength
  BY <1>1, <1>2
<1>15. Inserted(pos, n, v)
  BY <1>1, <1>3, <1>4, <1>13, <1>14 DEF Inserted
<1> QED
  BY <1>11, <1>12, <1>15

\* What table.remove() does.
Removed(pos, n) ==
    /\ n \in 1..MaxLength /\ Boundary(t, n) /\ pos \in 1..n
    /\ IsNew(pos..n, [i \in pos..n |-> IF i = n THEN Nil ELSE luaH_getnum(t, i + 1)])
    /\ Abandon(\E i \in pos..n : luaH_getnum(t, i) = Nil)

\* tremove() does that.
LEMMA RemoveIs ==
    ASSUME IInv, tremove
    PROVE  /\ Follows /\ call' = NoCall
           /\ \E pos, n : Removed(pos, n)
<1> DEFINE e == luaH_getn(t)
<1>1. e \in Nat /\ Boundary(t, e) /\ Sound(t) /\ MaxLength \in Nat
      /\ \A i \in 0..(MaxLength + 1) : Number(i) \in Key
  BY LengthIs
<1>2. PICK pos \in 1..e :
         /\ e <= MaxLength /\ t' = rawseti(MovedDown(t, pos, e), e, Nil)
         /\ Abandon(\E i \in pos..e : rawgeti(t, i) = Nil)
  BY DEF tremove
<1> HIDE DEF e
<1>3. pos \in Nat /\ 1 <= pos /\ pos <= e /\ e \in 0..(MaxLength + 1) /\ e <= MaxLength + 1
      /\ e \in 1..MaxLength
  BY <1>1, <1>2
<1> DEFINE g == MovedDown(t, pos, e)
           down == [i \in pos..(e - 1) |-> luaH_getnum(t, i + 1)]
           new == [i \in pos..e |-> IF i = e THEN Nil ELSE luaH_getnum(t, i + 1)]
<1>4. /\ HasNew(g, t, pos..(e - 1), down)
      /\ (\A n \in pos..(e - 1) : luaH_getnum(t, n) # Nil) => SameNodes(g, t)
  BY <1>1, <1>3, MovedDownSpec
<1>5. t' = rawseti(g, e, Nil)
  BY <1>2
<1> HIDE DEF g
<1>6. /\ Sound(t') /\ luaH_getnum(t', e) = Nil
      /\ \A k \in Key : k # Number(e) => luaH_get(t', k) = luaH_get(g, k)
      /\ luaH_getnum(g, e) # Nil => SameNodes(t', g)
  BY <1>3, <1>4, <1>5, SetOne DEF HasNew
<1>7. Number(e) \in Key /\ \A i \in pos..(e - 1) : Number(i) # Number(e) /\ Number(i) \in Key
  BY <1>1, <1>3 DEF Number
<1>8. luaH_getnum(g, e) = luaH_getnum(t, e)
  BY <1>4, <1>7 DEF HasNew, luaH_getnum
<1>9. ASSUME NEW i \in pos..e PROVE luaH_getnum(t', i) = new[i]
  <2>1. CASE i = e
    BY <1>6, <2>1
  <2>2. CASE i # e
    <3>1. i \in pos..(e - 1)
      BY <1>1, <1>3, <2>2
    <3>2. luaH_getnum(g, i) = down[i]
      BY <1>4, <3>1 DEF HasNew
    <3>3. luaH_getnum(t', i) = luaH_getnum(g, i)
      BY <1>6, <1>7, <3>1 DEF luaH_getnum
    <3> QED
      BY <2>2, <3>1, <3>2, <3>3
  <2> QED
    BY <2>1, <2>2
<1>10. ASSUME NEW k \in Key, \A i \in pos..e : k # Number(i)
       PROVE  luaH_get(t', k) = luaH_get(t, k)
  <2>1. e \in pos..e /\ \A i \in pos..(e - 1) : i \in pos..e
    BY <1>1, <1>3
  <2> QED
    BY <1>4, <1>6, <1>10, <2>1 DEF HasNew
<1>11. IsNew(pos..e, new)
  BY <1>9, <1>10 DEF IsNew
<1>12. ASSUME \A i \in pos..e : luaH_getnum(t, i) # Nil
       PROVE  SameOrder(t', t)
  <2>1. e \in pos..e /\ \A i \in pos..(e - 1) : i \in pos..e
    BY <1>1, <1>3
  <2>2. SameNodes(g, t) /\ SameNodes(t', g)
    BY <1>4, <1>6, <1>8, <1>12, <2>1
  <2>3. SameNodes(t', t)
    BY <2>2 DEF SameNodes
  <2>4. ASSUME NEW k \in Key, luaH_get(t', k) # Nil PROVE luaH_get(t, k) # Nil
    <3>1. CASE \E i \in pos..e : k = Number(i)
      BY <1>12, <3>1 DEF luaH_getnum
    <3>2. CASE \A i \in pos..e : k # Number(i)
      BY <1>10, <2>4, <3>2
    <3> QED
      BY <3>1, <3>2
  <2> QED
    BY <1>1, <1>6, <2>3, <2>4, AssignedOrder
<1>13. Abandon(\E i \in pos..e : luaH_getnum(t, i) = Nil)
  BY <1>2 DEF rawgeti
<1>14. Recorded /\ program' = program /\ call' = NoCall
  BY DEF tremove
<1>15. Follows
  <2> DEFINE added == \E i \in pos..e : luaH_getnum(t, i) = Nil
  <2>1. Abandon(added) /\ (walk = "on" /\ ~added => SameOrder(t', t))
    BY <1>12, <1>13
  <2> HIDE DEF added
  <2> QED
    BY <1>6, <1>14, <2>1, AbandonFollows
<1>16. Removed(pos, e)
  BY <1>1, <1>3, <1>11, <1>13 DEF Removed
<1> QED
  BY <1>14, <1>15, <1>16

\* Tables with the same fields have the same values for a sort.
LEMMA SameSort ==
    ASSUME NEW g, Sound(g), NEW h, Sound(h), \A k \in Key : luaH_get(g, k) = luaH_get(h, k), NEW c,
           SortState(h, c)
    PROVE  SortState(g, c) /\ (SortsNumbers(h, c) => SortsNumbers(g, c))
<1>1. \A n \in Int : luaH_getnum(g, n) = luaH_getnum(h, n)
  <2> SUFFICES ASSUME NEW n \in Int PROVE luaH_getnum(g, n) = luaH_getnum(h, n)
    OBVIOUS
  <2>1. CASE Number(n) \in Key
    BY <2>1 DEF luaH_getnum
  <2>2. CASE Number(n) \notin Key
    BY <2>2, NoSuchNumber
  <2> QED
    BY <2>1, <2>2
<1>2. c \in SortCalls /\ c.l \in Int /\ c.u \in Int /\ c.i \in Int /\ c.j \in Int /\ c.n \in Nat
  BY KeyAssumption DEF SortState, SortCalls
<1>3. SortValues(g, c)
  BY <1>1, <1>2 DEF SortState, SortValues
<1>4. Numbers(g, c.n) = Numbers(h, c.n)
  BY <1>1, <1>2 DEF Numbers
<1> QED
  BY <1>2, <1>3, <1>4 DEF SortState, SortsNumbers

\* The collector changes no field.
LEMMA CollectIs ==
    ASSUME IInv, removeentry
    PROVE  /\ IInv' /\ \A k \in Key : luaH_get(t', k) = luaH_get(t, k)
<1>1. /\ Sound(t) /\ Sound(t') /\ \A k \in Key : luaH_get(t', k) = luaH_get(t, k)
      /\ SameOrder(t', t)
  BY CollectedSound, CollectedOrder DEF IInv, removeentry
<1>2. program' = program /\ walk' = walk /\ at' = at /\ seen' = seen /\ call' = call
      /\ map' = Content(t')
  BY DEF removeentry, walking, Recorded
<1>3. Walking'
  <2>1. walk = "on" => Walked(t', at, seen)
    BY <1>1, WalkedSame DEF IInv, Walking
  <2> QED
    BY <1>2, <2>1 DEF IInv, Walking
<1>4. Calling'
  <2>1. CASE call = NoCall
    BY <1>2, <2>1 DEF Calling
  <2>2. CASE call # NoCall
    <3>1. /\ walk = "none" /\ SortState(t, call)
          /\ program.order = "<" /\ call.holes = {} => SortsNumbers(t, call)
      BY <2>2 DEF IInv, Calling
    <3>2. SortState(t', call) /\ (SortsNumbers(t, call) => SortsNumbers(t', call))
      BY <1>1, <3>1, SameSort
    <3> QED
      BY <1>2, <3>1, <3>2 DEF Calling
  <2> QED
    BY <2>1, <2>2
<1> QED
  BY <1>1, <1>2, <1>3, <1>4 DEF IInv

\* A traversal begins.
LEMMA PairsInvariant ==
    ASSUME IInv, luaB_pairs
    PROVE  IInv'
<1>1. /\ program' = program /\ t' = t /\ map' = map /\ call' = NoCall
      /\ walk' = "on" /\ at' = Nil /\ seen' = {}
  BY DEF luaB_pairs
<1>2. Walked(t, Nil, {})
  BY WalkedBegins DEF IInv
<1>3. Walking' /\ Calling'
  BY <1>1, <1>2 DEF Walking, Calling
<1> QED
  BY <1>1, <1>3 DEF IInv

\* A step of a traversal needs no key that is gone.
LEMMA NextIs ==
    ASSUME IInv, lua_next
    PROVE  /\ IInv'
           /\ \/ /\ walk' = "none" /\ at' = Nil /\ seen' = {}
                 /\ \A q \in Key : luaH_get(t, q) # Nil => q \in seen
              \/ /\ walk' = "on" /\ \E k \in Key \ seen : /\ luaH_get(t, k) # Nil
                                                          /\ seen' = seen \cup {k}
<1> DEFINE k == luaH_next(t, at)
<1>1. Sound(t) /\ walk = "on" /\ Walked(t, at, seen)
  BY DEF IInv, Walking, lua_next
<1>2. /\ ~InvalidKey(t, at)
      /\ \/ k = Nil /\ \A q \in Key : luaH_get(t, q) # Nil => q \in seen
         \/ /\ k \in Key \ seen /\ luaH_get(t, k) # Nil
            /\ Walked(t, k, seen \cup {k})
  BY <1>1, NextSpec
<1>3. program' = program /\ t' = t /\ map' = map /\ call' = call
  BY DEF lua_next
<1>4. call = NoCall
  BY <1>1 DEF IInv, Calling
<1>5. Calling'
  BY <1>3, <1>4 DEF Calling
<1>6. CASE k = Nil
  <2>1. walk' = "none" /\ at' = Nil /\ seen' = {}
    BY <1>2, <1>6 DEF lua_next
  <2>2. \A q \in Key : luaH_get(t, q) # Nil => q \in seen
    BY <1>2, <1>6, KeyAssumption
  <2>3. Walking'
    BY <2>1 DEF Walking
  <2> QED
    BY <1>3, <1>5, <2>1, <2>2, <2>3 DEF IInv
<1>7. CASE k # Nil
  <2>1. walk' = "on" /\ at' = k /\ seen' = seen \cup {k}
    BY <1>1, <1>2, <1>7 DEF lua_next
  <2>2. k \in Key \ seen /\ luaH_get(t, k) # Nil /\ Walked(t, k, seen \cup {k})
    BY <1>2, <1>7
  <2> HIDE DEF k
  <2>3. Walking'
    BY <1>3, <2>1, <2>2 DEF Walking
  <2> QED
    BY <1>3, <1>5, <2>1, <2>2, <2>3 DEF IInv
<1> QED
  BY <1>6, <1>7

\* sort() begins with a sequence of integers when there are no holes.
LEMMA SortInvariant ==
    ASSUME IInv, sort
    PROVE  IInv'
<1> DEFINE n == luaH_getn(t)
           none == << >>
           holes == {k \in 1..n : rawgeti(t, k) = Nil}
<1>1. n \in Nat /\ Sound(t) /\ MaxLength \in Nat
  BY LengthIs
<1>2. /\ program' = program /\ t' = t /\ map' = map /\ walk = "none"
      /\ walk' = walk /\ at' = at /\ seen' = seen /\ n <= MaxLength
  BY DEF sort, walking
<1>3. call' = [pc |-> "while", n |-> n, l |-> 1, u |-> n, i |-> 0,
               j |-> 0, P |-> Nil, x |-> Nil, y |-> Nil, ai |-> Nil, stack |-> none, asked |-> 0,
               holes |-> holes]
  BY DEF sort
<1>4. none \in Seq(Int \X Int) /\ Len(none) = 0
  OBVIOUS
<1>5. holes \in SUBSET Int /\ Nil \in AnyValue
  BY DEF AnyValue
<1>6. none = << >>
  OBVIOUS
<1> HIDE DEF n, none, holes
<1>7. /\ call' \in SortCalls /\ call'.pc = "while" /\ call'.n = n /\ call'.l = 1 /\ call'.u = n
      /\ call'.stack = none /\ call'.asked = 0 /\ call'.holes = holes
  BY <1>1, <1>2, <1>3, <1>4, <1>5 DEF SortCalls, Busy
<1>8. SortDepth(call')
  <2>1. twoto[0] = 1 /\ 1 * (n - 1 + 1) = n
    BY <1>1, TwotoIs
  <2>2. Len(call'.stack) = 0
    BY <1>4, <1>7
  <2>3. Fits(call', 0, 1, n)
    BY <1>1, <1>7, <2>1 DEF Fits
  <2> QED
    BY <1>7, <2>2, <2>3 DEF SortDepth
<1>9. SortPlaces(call') /\ SortValues(t', call')
  BY <1>1, <1>7 DEF SortPlaces, SortValues
<1>10. ASSUME program.order = "<", holes = {}
       PROVE  SortsNumbers(t', call')
  <2>1. \A k \in 1..n : luaH_getnum(t, k) # Nil
    BY <1>10 DEF holes, rawgeti
  <2>2. \A k \in 1..n : luaH_getnum(t, k) \in Value
    BY <1>1, <2>1, NumberGet
  <2>3. Numbers(t, n) \in [1..n -> Value]
    BY <2>2 DEF Numbers
  <2>4. Sorting(Numbers(t, n), call')
    BY <1>6, <1>7, SortBegins
  <2> QED
    BY <1>2, <1>7, <2>3, <2>4 DEF SortsNumbers
<1>11. Calling'
  BY <1>2, <1>7, <1>8, <1>9, <1>10 DEF Calling, SortState
<1>12. Walking'
  BY <1>2 DEF IInv, Walking
<1> QED
  BY <1>2, <1>11, <1>12 DEF IInv

\* A step of a sort exchanges two values, or none.
LEMMA AuxsortIs ==
    ASSUME IInv, auxsort
    PROVE  IInv' /\ Swaps(t', t)
<1>1. /\ program \in Programs /\ Sound(t) /\ SortState(t, call) /\ walk = "none"
      /\ program.order = "<" /\ call.holes = {} => SortsNumbers(t, call)
  BY DEF IInv, Calling, auxsort
<1>2. GoesOn
  BY <1>1, AuxsortGoesOn
<1>3. program' = program /\ walk' = walk /\ at' = at /\ seen' = seen /\ map' = Content(t')
  BY DEF auxsort, walking, Recorded
<1>4. Calling'
  BY <1>1, <1>2, <1>3 DEF Calling, GoesOn
<1>5. Walking'
  BY <1>1, <1>3 DEF IInv, Walking
<1> QED
  BY <1>1, <1>2, <1>3, <1>4, <1>5 DEF IInv, GoesOn

\* A sort ends.
LEMMA EndSortInvariant ==
    ASSUME IInv, EndSort
    PROVE  IInv'
BY DEF EndSort, IInv, Walking, Calling, walking

\* Every step keeps the invariant.
LEMMA NextInvariant == IInv /\ [Next]_vars => IInv'
<1> SUFFICES ASSUME IInv, [Next]_vars PROVE IInv'
  OBVIOUS
<1>1. CASE lua_rawset
  BY <1>1, RawsetIs, FollowsInvariant
<1>2. CASE SetList
  BY <1>2, ListIs, FollowsInvariant
<1>3. CASE removeentry
  BY <1>3, CollectIs
<1>4. CASE luaB_pairs
  BY <1>4, PairsInvariant
<1>5. CASE lua_next
  BY <1>5, NextIs
<1>6. CASE tinsert
  BY <1>6, InsertIs, FollowsInvariant
<1>7. CASE tremove
  BY <1>7, RemoveIs, FollowsInvariant
<1>8. CASE sort
  BY <1>8, SortInvariant
<1>9. CASE auxsort
  BY <1>9, AuxsortIs
<1>10. CASE EndSort
  BY <1>10, EndSortInvariant
<1>11. CASE UNCHANGED vars
  BY <1>11 DEF vars, IInv, Walking, Calling
<1> QED
  BY <1>1, <1>2, <1>3, <1>4, <1>5, <1>6, <1>7, <1>8, <1>9, <1>10, <1>11 DEF Next

\* The invariant holds in every state: the table is sound, traversals and sorts are where
\* they should be.
THEOREM Invariant == Spec => []IInv
<1> QED
  BY InitInvariant, NextInvariant, PTL DEF Spec

-----------------------------------------------------------------------------
(* The properties.                                                         *)

\* It says what the types are,
LEMMA InvariantType == IInv => TypeOK
<1> SUFFICES ASSUME IInv PROVE TypeOK
  OBVIOUS
<1>1. Sound(t) /\ t \in AnyTable /\ Sized(t) /\ HasShape(t) /\ program \in Programs
  BY SoundType DEF IInv
<1>2. t.array \in Seq(Value \cup {Nil})
  BY <1>1, NodesOf
<1>3. ASSUME NEW n \in Nodes(t)
      PROVE  /\ gnode(t, n).key \in Key \cup {Nil} \cup {Dead(k) : k \in Key}
             /\ gnode(t, n).val \in Value \cup {Nil}
             /\ gnode(t, n).next \in {NULL} \cup Nodes(t)
  <2>1. /\ Held(t)[n] = gnode(t, n).key /\ Held(t)[n] \in NodeKeys
        /\ gnode(t, n).val \in Value \cup {Nil} /\ Links(t)[n] = gnode(t, n).next
    BY <1>1, HeldType
  <2>2. IsLink(Nodes(t), Links(t))
    BY <1>1 DEF HasShape, Shape
  <2> QED
    BY <2>1, <2>2 DEF NodeKeys, IsLink
<1>4. t.lastfree \in 0..sizenode(t) /\ (t.dummy => t.node = Empty.node)
  BY <1>1 DEF Sized, Sound
<1>5. walk \in {"constructor", "none", "on", "invalid key"}
  BY DEF IInv, Walking
<1>6. at \in Key \cup {Nil} /\ seen \subseteq Key
  <2>1. CASE walk = "on"
    BY <2>1 DEF IInv, Walking, Walked
  <2>2. CASE walk # "on"
    BY <2>2 DEF IInv, Walking
  <2> QED
    BY <2>1, <2>2
<1> QED
  BY <1>1, <1>2, <1>3, <1>4, <1>5, <1>6 DEF TypeOK

\* that every field is found,
LEMMA InvariantFound == IInv => EveryFieldFound
<1> SUFFICES ASSUME IInv, NEW n \in Nodes(t), gnode(t, n).val # Nil
             PROVE  LET key == gnode(t, n).key
                        mp == mainposition(t, key)
                    IN  /\ Find(t, key) = sizearray(t) + n
                        /\ gnode(t, mp).val = Nil \/ mainposition(t, gnode(t, mp).key) = mp
  BY DEF EveryFieldFound
<1> DEFINE key == Held(t)[n]
           mp == mainposition(t, key)
<1>1. Sound(t) /\ t \in AnyTable /\ HasShape(t)
  BY SoundType DEF IInv
<1>2. key = gnode(t, n).key /\ key \in Key
  BY <1>1, HeldType DEF Sound
<1>3. Find(t, key) = sizearray(t) + n
  BY <1>1, <1>2, FindNode
<1>4. mp \in Nodes(t) /\ Homes(t)[key] = mp /\ key # Nil /\ Owner(key) = key
  BY <1>1, <1>2, SoundType, Owners DEF Homes
<1> HIDE DEF mp
<1>5. Homes(t)[Owner(Held(t)[mp])] = mp
  <2>1. FromHome(Nodes(t), Links(t), Held(t), Homes(t), n)
    BY <1>1, <1>4 DEF HasShape, Shape
  <2> QED
    BY <1>4, <2>1 DEF FromHome
<1>6. ASSUME gnode(t, mp).val # Nil PROVE mainposition(t, gnode(t, mp).key) = mp
  <2>1. Held(t)[mp] = gnode(t, mp).key /\ Held(t)[mp] \in Key
    BY <1>1, <1>4, <1>6, HeldType DEF Sound
  <2> QED
    BY <1>5, <2>1, Owners DEF Homes
<1> QED
  BY <1>2, <1>3, <1>6 DEF mp

\* and that chains end.
LEMMA InvariantChains == IInv => ChainsEnd
<1> SUFFICES ASSUME IInv, NEW n \in Nodes(t) PROVE Chain(t, n)[sizenode(t)] = NULL
  BY DEF ChainsEnd
<1>1. sizenode(t) \in Nat /\ HasShape(t)
  BY SoundType DEF IInv
<1>2. IsLink(Nodes(t), Links(t)) /\ Ranked(Nodes(t), Links(t))
  BY <1>1 DEF HasShape, Shape
<1> QED
  BY <1>1, <1>2, ChainHasEnd

\* Nodes, chains and the free pointer fit each other, whatever the program does.
THEOREM TableConsistent == Spec => []NodesConsistent
<1>1. IInv => NodesConsistent
  BY InvariantType, InvariantFound, InvariantChains DEF NodesConsistent
<1> QED
  BY <1>1, Invariant, PTL

\* #t is a boundary of the table.
THEOREM Length == Spec => []LengthIsBoundary
<1>1. IInv => LengthIsBoundary
  <2> SUFFICES ASSUME IInv PROVE LengthIsBoundary
    OBVIOUS
  <2>1. Boundary(t, luaH_getn(t))
    BY GetnSpec DEF IInv
  <2> QED
    BY <2>1 DEF LengthIsBoundary, Boundary, HasValue, rawgeti
<1> QED
  BY <1>1, Invariant, PTL

\* A call of auxsort() has at most half of the interval of the one around it.
THEOREM Shallow == Spec => []SortIsShallow
<1>1. IInv => SortIsShallow
  <2> SUFFICES ASSUME IInv, call # NoCall
               PROVE  twoto[Len(call.stack)] * (call.u - call.l + 1) <= call.n
    BY DEF SortIsShallow
  <2>1. SortDepth(call)
    BY DEF IInv, Calling, SortState
  <2> QED
    BY <2>1 DEF SortDepth, Fits
<1> QED
  BY <1>1, Invariant, PTL

\* sort() puts a sequence of integers without holes in order, with at most n * n comparisons.
THEOREM Sorts == Spec => []SortSorts
<1>1. IInv => SortSorts
  <2> SUFFICES ASSUME IInv, call # NoCall, program.order = "<", call.holes = {}
               PROVE  /\ call.pc # "error" /\ call.asked <= call.n * call.n
                      /\ call.pc = "returned" =>
                            \A i \in 1..(call.n - 1) : rawgeti(t, i) <= rawgeti(t, i + 1)
    BY DEF SortSorts
  <2> DEFINE A == Numbers(t, call.n)
  <2>1. program \in Programs /\ SortState(t, call) /\ SortsNumbers(t, call)
    BY DEF IInv, Calling
  <2>2. Sortable(A, call) /\ \A k \in 1..call.n : A[k] = luaH_getnum(t, k)
    BY <2>1, NumbersSortable
  <2>3. /\ call.pc # "error" /\ call.asked <= call.n * call.n
        /\ call.pc = "returned" => \A p, q \in 1..call.n : p < q => A[p] <= A[q]
    BY <2>2, SortingDone
  <2>4. call.n \in Nat
    BY <2>2, SortableType
  <2>5. ASSUME call.pc = "returned", NEW i \in 1..(call.n - 1)
        PROVE  rawgeti(t, i) <= rawgeti(t, i + 1)
    <3>1. i \in 1..call.n /\ i + 1 \in 1..call.n /\ i < i + 1
      BY <2>4
    <3>2. A[i] <= A[i + 1]
      BY <2>3, <2>5, <3>1
    <3> QED
      BY <2>2, <3>1, <3>2 DEF rawgeti
  <2> QED
    BY <2>3, <2>5
<1> QED
  BY <1>1, Invariant, PTL

-----------------------------------------------------------------------------
(* A table is a map.                                                       *)

\* The walk of the map.
Bar(w) == IF w = "constructor" THEN "none" ELSE w

\* A new table is an empty map.
LEMMA MapInit == Init => Map!Init
<1> SUFFICES ASSUME Init PROVE Map!Init
  OBVIOUS
<1>1. program.narray \in Nat /\ program.nhash \in Nat
  BY ProgramAssumption DEF Init
<1>2. \A k \in Key : luaH_get(t, k) = Nil
  BY <1>1, NewSpec DEF Init
<1>3. map = [k \in Key |-> Nil]
  BY <1>2 DEF Init, Content
<1> QED
  BY <1>3 DEF Init, Map!Init

\* The map and its integers.
LEMMA MapIs ==
    ASSUME IInv
    PROVE  /\ map = [k \in Key |-> luaH_get(t, k)]
           /\ \A k \in Key : map[k] = luaH_get(t, k)
           /\ \A n \in 0..(MaxLength + 1) : n \in Map!Index /\ Map!At(n) = luaH_getnum(t, n)
           /\ Map!Fields = {k \in Key : luaH_get(t, k) # Nil}
<1>1. map = [k \in Key |-> luaH_get(t, k)]
  BY DEF IInv, Content
<1>2. ASSUME NEW n \in 0..(MaxLength + 1)
      PROVE  n \in Map!Index /\ Map!At(n) = luaH_getnum(t, n)
  <2>1. Number(n) \in Key
    BY KeyAssumption
  <2>2. Number(n)[1] = "number" /\ Number(n)[2] = n
    BY DEF Number
  <2>3. n \in Map!Index
    BY <2>1, <2>2 DEF Map!Index
  <2>4. Map!At(n) = map[Number(n)]
    BY DEF Map!At, Number
  <2> QED
    BY <1>1, <2>1, <2>3, <2>4 DEF luaH_getnum
<1>3. Map!Fields = {k \in Key : luaH_get(t, k) # Nil}
  BY <1>1 DEF Map!Fields
<1> QED
  BY <1>1, <1>2, <1>3

\* New values for some integers.
LEMMA RearrangedIs ==
    ASSUME IInv, map' = Content(t'), NEW D, D \subseteq 0..(MaxLength + 1), NEW new,
           DOMAIN new = D, IsNew(D, new)
    PROVE  map' = Map!Rearranged(new)
<1>1. ASSUME NEW k \in Key
      PROVE  luaH_get(t', k) = IF k[1] = "number" /\ k[2] \in DOMAIN new THEN new[k[2]] ELSE map[k]
  <2>1. CASE k[1] = "number" /\ k[2] \in D
    <3>1. k = Number(k[2])
      BY <2>1, KeyAssumption DEF Number
    <3>2. luaH_getnum(t', k[2]) = new[k[2]]
      BY <2>1 DEF IsNew
    <3> QED
      BY <2>1, <3>1, <3>2 DEF luaH_getnum
  <2>2. CASE ~(k[1] = "number" /\ k[2] \in D)
    <3>1. \A n \in D : k # Number(n)
      BY <2>2 DEF Number
    <3>2. luaH_get(t', k) = luaH_get(t, k)
      BY <3>1 DEF IsNew
    <3> QED
      BY <2>2, <3>2, MapIs
  <2> QED
    BY <2>1, <2>2
<1> QED
  BY <1>1 DEF Map!Rearranged, Content

\* The traversal is given up, or goes on.
LEMMA AbandonIs ==
    ASSUME IInv, NEW added, Abandon(added)
    PROVE  /\ added \/ walk = "constructor" => Bar(walk') = "none" /\ seen' = {}
           /\ ~added => walk' = walk /\ seen' = seen
<1>1. walk = "constructor" => seen = {}
  BY DEF IInv, Walking
<1> QED
  BY <1>1 DEF Abandon, walking, Bar

\* Each operation is one of the map: an assignment,
LEMMA MapAssign ==
    ASSUME IInv, lua_rawset
    PROVE  Map!Assign
<1>1. PICK k \in Key, v \in Value \cup {Nil} :
         /\ \A q \in Key : luaH_get(t', q) = IF q = k THEN v ELSE luaH_get(t, q)
         /\ Abandon(luaH_get(t, k) = Nil)
  BY RawsetIs
<1>2. map' = Content(t')
  BY DEF lua_rawset, Recorded
<1>3. map' = [map EXCEPT ![k] = v]
  BY <1>1, <1>2, MapIs DEF Content
<1>4. k \in Map!Fields <=> luaH_get(t, k) # Nil
  BY MapIs
<1>5. IF k \in Map!Fields THEN Map!Keep ELSE Map!Lose
  <2>1. CASE luaH_get(t, k) = Nil
    <3>1. Bar(walk') = "none" /\ seen' = {}
      BY <1>1, <2>1, AbandonIs
    <3> QED
      BY <1>4, <2>1, <3>1 DEF Map!Lose, Bar
  <2>2. CASE luaH_get(t, k) # Nil
    <3>1. walk' = walk /\ seen' = seen
      BY <1>1, <2>2, AbandonIs
    <3> QED
      BY <1>4, <2>2, <3>1 DEF Map!Keep
  <2> QED
    BY <2>1, <2>2
<1> QED
  BY <1>1, <1>3, <1>5 DEF Map!Assign

\* a constructor,
LEMMA MapList ==
    ASSUME IInv, SetList
    PROVE  Map!List
<1>1. PICK n \in 0..MaxLength : \A k \in Key :
         (\A i \in 1..n : k # Number(i)) => luaH_get(t', k) = luaH_get(t, k)
  BY ListIs
<1>2. map' = Content(t') /\ walk' = "none" /\ seen' = {}
  BY DEF SetList, Recorded, IInv, Walking
<1>3. MaxLength \in Nat
  BY KeyAssumption, TableAssumption
<1> DEFINE new == [i \in 1..n |-> map'[<<"number", i>>]]
<1>4. ASSUME NEW i \in 1..n PROVE luaH_getnum(t', i) = new[i]
  <2>1. Number(i) \in Key
    BY <1>3, KeyAssumption
  <2> QED
    BY <1>2, <2>1 DEF luaH_getnum, Content, Number
<1>5. IsNew(1..n, new)
  BY <1>1, <1>4 DEF IsNew
<1>6. 1..n \subseteq 0..(MaxLength + 1) /\ DOMAIN new = 1..n /\ n \in 0..(MaxLength + 1)
  BY <1>3
<1> HIDE DEF new
<1>7. map' = Map!Rearranged(new) /\ n \in Map!Index
  BY <1>2, <1>5, <1>6, RearrangedIs, MapIs
<1>8. Map!Lose
  BY <1>2 DEF Map!Lose
<1> QED
  BY <1>7, <1>8 DEF Map!List, new

\* The length is one the map allows.
LEMMA MapBoundary ==
    ASSUME IInv, NEW n \in 0..MaxLength, Boundary(t, n)
    PROVE  Map!IsBoundary(n) /\ n \in Map!Index /\ n + 1 \in Map!Index
<1>1. MaxLength \in Nat
  BY KeyAssumption, TableAssumption
<1>2. n \in 0..(MaxLength + 1) /\ n + 1 \in 0..(MaxLength + 1)
  BY <1>1
<1>3. /\ n \in Map!Index /\ Map!At(n) = luaH_getnum(t, n)
      /\ n + 1 \in Map!Index /\ Map!At(n + 1) = luaH_getnum(t, n + 1)
  BY <1>2, MapIs
<1> QED
  BY <1>3 DEF Map!IsBoundary, Boundary, HasValue

\* insert(),
LEMMA MapInsert ==
    ASSUME IInv, tinsert
    PROVE  Map!Insert
<1>1. PICK pos, n, v : Inserted(pos, n, v)
  BY InsertIs
<1>2. Abandon(TRUE) /\ map' = Content(t')
  BY InsertIs DEF Follows
<1>3. MaxLength \in Nat
  BY KeyAssumption, TableAssumption
<1> DEFINE D == pos..(n + 1) \cup {pos}
           new == [i \in D |-> IF i = pos THEN v ELSE luaH_getnum(t, i - 1)]
           moved == [i \in D |-> IF i = pos THEN v ELSE Map!At(i - 1)]
<1>4. /\ n \in 0..MaxLength /\ n + 1 <= MaxLength /\ Boundary(t, n)
      /\ pos \in 1..(n + 2) /\ v \in Value /\ IsNew(D, new)
  BY <1>1 DEF Inserted
<1>5. D \subseteq 0..(MaxLength + 1) /\ pos \in 0..(MaxLength + 1)
      /\ \A i \in D : i # pos => i - 1 \in 0..(MaxLength + 1)
  BY <1>3, <1>4
<1>6. new = moved
  <2>1. \A i \in D : i # pos => Map!At(i - 1) = luaH_getnum(t, i - 1)
    BY <1>5, MapIs
  <2> QED
    BY <2>1
<1>7. DOMAIN new = D
  OBVIOUS
<1> HIDE DEF new
<1>8. map' = Map!Rearranged(new)
  BY <1>2, <1>4, <1>5, <1>7, RearrangedIs
<1>9. pos \in Map!Index /\ n \in Map!Index /\ n + 1 \in Map!Index /\ Map!IsBoundary(n)
  BY <1>4, <1>5, MapIs, MapBoundary
<1>10. Map!Lose
  <2>1. Bar(walk') = "none" /\ seen' = {}
    BY <1>2, AbandonIs
  <2> QED
    BY <2>1 DEF Map!Lose, Bar
<1> QED
  BY <1>4, <1>6, <1>8, <1>9, <1>10 DEF Map!Insert

\* remove(),
LEMMA MapRemove ==
    ASSUME IInv, tremove
    PROVE  Map!Remove
<1>1. PICK pos, n : Removed(pos, n)
  BY RemoveIs
<1>2. map' = Content(t')
  BY RemoveIs DEF Follows
<1>3. MaxLength \in Nat
  BY KeyAssumption, TableAssumption
<1> DEFINE new == [i \in pos..n |-> IF i = n THEN Nil ELSE luaH_getnum(t, i + 1)]
           moved == [i \in pos..n |-> IF i = n THEN Nil ELSE Map!At(i + 1)]
           added == \E i \in pos..n : luaH_getnum(t, i) = Nil
<1>4. /\ n \in 1..MaxLength /\ Boundary(t, n) /\ pos \in 1..n /\ IsNew(pos..n, new)
      /\ Abandon(added)
  BY <1>1 DEF Removed
<1>5. pos..n \subseteq 0..(MaxLength + 1) /\ n \in 0..MaxLength
      /\ \A i \in pos..n : i # n => i + 1 \in 0..(MaxLength + 1)
  BY <1>3, <1>4
<1>6. new = moved
  <2>1. \A i \in pos..n : i # n => Map!At(i + 1) = luaH_getnum(t, i + 1)
    BY <1>5, MapIs
  <2> QED
    BY <2>1
<1>7. DOMAIN new = pos..n
  OBVIOUS
<1> HIDE DEF new
<1>8. map' = Map!Rearranged(new)
  BY <1>2, <1>4, <1>5, <1>7, RearrangedIs
<1>9. n \in Map!Index /\ n + 1 \in Map!Index /\ Map!IsBoundary(n)
  BY <1>4, <1>5, MapBoundary
<1>10. (\A i \in pos..n : Map!At(i) # Nil) <=> ~added
  BY <1>5, MapIs
<1> HIDE DEF added
<1>11. IF \A i \in pos..n : Map!At(i) # Nil THEN Map!Keep ELSE Map!Lose
  <2>1. CASE added
    <3>1. Bar(walk') = "none" /\ seen' = {}
      BY <1>4, <2>1, AbandonIs
    <3> QED
      BY <1>10, <2>1, <3>1 DEF Map!Lose, Bar
  <2>2. CASE ~added
    <3>1. walk' = walk /\ seen' = seen
      BY <1>4, <2>2, AbandonIs
    <3> QED
      BY <1>10, <2>2, <3>1 DEF Map!Keep
  <2> QED
    BY <2>1, <2>2
<1> QED
  BY <1>4, <1>6, <1>8, <1>9, <1>11 DEF Map!Remove

\* and an exchange of sort(), or nothing.
LEMMA MapExchange ==
    ASSUME IInv, auxsort
    PROVE  Map!Exchange \/ UNCHANGED Map!vars
<1>1. IInv' /\ Swaps(t', t)
  BY AuxsortIs
<1>2. map' = Content(t') /\ walk' = walk /\ seen' = seen
  BY DEF auxsort, Recorded, walking
<1>3. CASE t' = t
  <2>1. map' = map
    BY <1>2, <1>3 DEF IInv
  <2> QED
    BY <1>2, <2>1 DEF Map!vars
<1>4. CASE \E i, j \in 0..(MaxLength + 1) : Swapped(t', t, i, j)
  <2>1. PICK i \in 0..(MaxLength + 1), j \in 0..(MaxLength + 1) : Swapped(t', t, i, j)
    BY <1>4
  <2> DEFINE D == {i, j}
             new == [k \in D |-> IF k = i THEN Map!At(j) ELSE Map!At(i)]
  <2>2. /\ i \in Map!Index /\ Map!At(i) = luaH_getnum(t, i)
        /\ j \in Map!Index /\ Map!At(j) = luaH_getnum(t, j)
    BY MapIs
  <2>3. ASSUME NEW k \in D PROVE luaH_getnum(t', k) = new[k]
    BY <2>1, <2>2 DEF Swapped
  <2>4. ASSUME NEW k \in Key, \A n \in D : k # Number(n) PROVE luaH_get(t', k) = luaH_get(t, k)
    BY <2>1, <2>4 DEF Swapped
  <2>5. IsNew(D, new)
    BY <2>3, <2>4 DEF IsNew
  <2>6. D \subseteq 0..(MaxLength + 1) /\ DOMAIN new = D
    OBVIOUS
  <2> HIDE DEF new
  <2>7. map' = Map!Rearranged(new)
    BY <1>2, <2>5, <2>6, RearrangedIs
  <2>8. Map!Keep
    BY <1>2 DEF Map!Keep
  <2> QED
    BY <2>2, <2>7, <2>8 DEF Map!Exchange, new
<1> QED
  BY <1>1, <1>3, <1>4 DEF Swaps

\* A traversal begins,
LEMMA MapStart ==
    ASSUME IInv, luaB_pairs
    PROVE  Map!StartWalk
<1>1. map' = map /\ walk' = "on" /\ seen' = {} /\ walk \in {"constructor", "none"}
  BY DEF luaB_pairs
<1> QED
  BY <1>1 DEF Map!StartWalk

\* meets a field or has met them all.
LEMMA MapNext ==
    ASSUME IInv, lua_next
    PROVE  Map!Meet \/ Map!EndWalk
<1>1. map' = map /\ walk = "on"
  BY DEF lua_next
<1>2. CASE /\ walk' = "none" /\ at' = Nil /\ seen' = {}
           /\ \A q \in Key : luaH_get(t, q) # Nil => q \in seen
  <2>1. Map!Fields \subseteq seen
    BY <1>2, MapIs
  <2> QED
    BY <1>1, <1>2, <2>1 DEF Map!EndWalk, Map!Lose
<1>3. CASE /\ walk' = "on"
           /\ \E k \in Key \ seen : luaH_get(t, k) # Nil /\ seen' = seen \cup {k}
  <2>1. PICK k \in Key \ seen : luaH_get(t, k) # Nil /\ seen' = seen \cup {k}
    BY <1>3
  <2>2. k \in Map!Fields \ seen
    BY <2>1, MapIs
  <2> QED
    BY <1>1, <1>3, <2>1, <2>2 DEF Map!Meet
<1> QED
  BY <1>2, <1>3, NextIs

\* What changes no field changes nothing of the map.
LEMMA MapStutter ==
    ASSUME IInv, removeentry \/ sort \/ EndSort \/ UNCHANGED vars
    PROVE  UNCHANGED Map!vars
<1>1. CASE removeentry
  <2>1. \A k \in Key : luaH_get(t', k) = luaH_get(t, k)
    BY <1>1, CollectIs
  <2>2. map' = map
    BY <1>1, <2>1 DEF removeentry, Recorded, Content, IInv
  <2> QED
    BY <1>1, <2>2 DEF removeentry, walking, Map!vars
<1>2. CASE sort \/ EndSort
  BY <1>2 DEF sort, EndSort, walking, Map!vars
<1>3. CASE UNCHANGED vars
  BY <1>3 DEF vars, Map!vars
<1> QED
  BY <1>1, <1>2, <1>3

\* So is every step.
LEMMA MapStep == IInv /\ [Next]_vars => [Map!Next]_(Map!vars)
<1> SUFFICES ASSUME IInv, [Next]_vars PROVE Map!Next \/ UNCHANGED Map!vars
  OBVIOUS
<1>1. CASE lua_rawset
  BY <1>1, MapAssign DEF Map!Next
<1>2. CASE SetList
  BY <1>2, MapList DEF Map!Next
<1>3. CASE removeentry \/ sort \/ EndSort \/ UNCHANGED vars
  BY <1>3, MapStutter
<1>4. CASE luaB_pairs
  BY <1>4, MapStart DEF Map!Next
<1>5. CASE lua_next
  BY <1>5, MapNext DEF Map!Next
<1>6. CASE tinsert
  BY <1>6, MapInsert DEF Map!Next
<1>7. CASE tremove
  BY <1>7, MapRemove DEF Map!Next
<1>8. CASE auxsort
  BY <1>8, MapExchange DEF Map!Next
<1> QED
  BY <1>1, <1>2, <1>3, <1>4, <1>5, <1>6, <1>7, <1>8 DEF Next

\* A table is a map from keys to values, whatever its parts, its length and the collector do.
THEOREM TableIsMap == Spec => ImplementsMap
<1> QED
  BY MapInit, Invariant, MapStep, PTL DEF Spec, ImplementsMap, Map!Spec
=============================================================================
