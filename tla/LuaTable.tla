------------------------------ MODULE LuaTable ------------------------------
(***************************************************************************)
(* The tables of Lua (ltable.c): an array part for the keys 1..n and a hash *)
(* part, a chained scatter table with Brent's variation.  This module has   *)
(* the algorithms as operators on a table; TableLibrary has the programs    *)
(* that call them.                                                          *)
(*                                                                         *)
(* An entry is named by the number findindex() gives it: 0 to sizearray - 1 *)
(* in the array part, sizearray and up in the hash part.  A node holds its  *)
(* key, its value and the number of the next node of its chain.             *)
(***************************************************************************)
EXTENDS Integers, Sequences, FiniteSets, SequencesExt

CONSTANTS
    Nil,       \* the value nil
    Hash,      \* what the hash of a key is computed from: the hash of a string,
               \* the words of a number added up, the address of an object
    MAXBITS,   \* the array part has at most 2^MAXBITS entries
    MAX_INT    \* the largest int, less two

twoto[l \in Nat] == IF l = 0 THEN 1 ELSE 2 * twoto[l - 1]

ASSUME TableAssumption == MAXBITS \in Nat /\ MAX_INT \in Nat /\ twoto[MAXBITS] <= MAX_INT + 2

\* Keys: a number, which is an integer or lies between two, and the other types.
Number(n) == <<"number", n>>
IsInteger(key) == key[1] = "number"
iscollectable(key) == key[1] \in {"string", "object"}
\* A key whose value is nil, after the collector has passed (LUA_TDEADKEY).
Dead(key) == <<"dead", key>>

NULL == -1
EmptyNode == [key |-> Nil, val |-> Nil, next |-> NULL]
\* An empty hash part is the common dummynode.
Empty == [array |-> << >>, node |-> <<EmptyNode>>, dummy |-> TRUE, lastfree |-> 0]

sizearray(h) == Len(h.array)
sizenode(h) == Len(h.node)
Nodes(h) == 0..(sizenode(h) - 1)
gnode(h, n) == h.node[n + 1]
Size(h) == sizearray(h) + sizenode(h)

ValAt(h, e) == IF e < sizearray(h) THEN h.array[e + 1] ELSE gnode(h, e - sizearray(h)).val
KeyAt(h, e) == IF e < sizearray(h) THEN Number(e + 1) ELSE gnode(h, e - sizearray(h)).key
PutAt(h, e, v) ==
    IF e < sizearray(h) THEN [h EXCEPT !.array[e + 1] = v]
    ELSE [h EXCEPT !.node[e - sizearray(h) + 1].val = v]

-----------------------------------------------------------------------------
(* Looking a key up.                                                       *)

\* Numbers and addresses: the size is made odd, as they have many factors 2.
hashmod(h, n) == IF sizenode(h) = 1 THEN 0 ELSE n % (sizenode(h) - 1)
hashpow2(h, n) == n % sizenode(h)

mainposition(h, key) ==
    IF key = Number(0) THEN 0
    ELSE IF key[1] \in {"string", "boolean"} THEN hashpow2(h, Hash[key])
    ELSE hashmod(h, Hash[key])

gnext(h, n) == IF n \in Nodes(h) THEN gnode(h, n).next ELSE NULL

\* The chain that begins with a node: the node at each distance, NULL behind the last.
Chain(h, n) == LET chain[d \in Nat] == IF d = 0 THEN n ELSE gnext(h, chain[d - 1]) IN chain

\* The first node of the chain of a key that holds one of the keys, as an entry, or NULL.
InChain(h, key, keys) ==
    LET chain == Chain(h, mainposition(h, key))
        found == {d \in 0..sizenode(h) : chain[d] \in Nodes(h) /\ gnode(h, chain[d]).key \in keys}
    IN  IF found = {} THEN NULL ELSE sizearray(h) + chain[Min(found)]

InArray(h, key) == IsInteger(key) /\ key[2] \in 1..sizearray(h)

\* luaH_get(), luaH_getnum() and luaH_getstr(): where they find the key.
Find(h, key) == IF InArray(h, key) THEN key[2] - 1 ELSE InChain(h, key, {key})
luaH_get(h, key) ==
    IF key = Nil \/ Find(h, key) = NULL THEN Nil ELSE ValAt(h, Find(h, key))
luaH_getnum(h, n) == luaH_get(h, Number(n))

\* Mutant: a traversal does not find a key that died.
findindex_Live(h, key) ==
    IF key = Nil THEN -1
    ELSE IF InArray(h, key) THEN key[2] - 1
    ELSE InChain(h, key, {key})

\* Where a traversal is; a key that died since is still found.
findindex(h, key) ==
    IF key = Nil THEN -1
    ELSE IF InArray(h, key) THEN key[2] - 1
    ELSE InChain(h, key, {key} \cup (IF iscollectable(key) THEN {Dead(key)} ELSE {}))

InvalidKey(h, key) == key # Nil /\ findindex(h, key) = NULL

\* The key after this one, Nil at the end.
luaH_next(h, key) ==
    LET later == {e \in findindex(h, key) + 1 .. Size(h) - 1 : ValAt(h, e) # Nil}
    IN  IF later = {} THEN Nil ELSE KeyAt(h, Min(later))

-----------------------------------------------------------------------------
(* Sizes.                                                                  *)

ceillog2(n) == Min({l \in 0..n : n <= twoto[l]})

\* countint(): integers that could be in the array part.
Countable(keys) == {k[2] : k \in {q \in keys : IsInteger(q) /\ q[2] \in 1..twoto[MAXBITS]}}

\* numusearray() and numusehash(): the keys that have a value.
UsedArray(h) == {KeyAt(h, e) : e \in {e \in 0..(sizearray(h) - 1) : ValAt(h, e) # Nil}}
UsedHash(h) == {KeyAt(h, e) : e \in {e \in sizearray(h)..(Size(h) - 1) : ValAt(h, e) # Nil}}

\* The largest power of two of which more than half would be used by these integers.
computesizes(ints) ==
    LET Upto(n) == Cardinality({k \in ints : k <= n})
        fit == {i \in 0..MAXBITS :
                  /\ twoto[i] \div 2 < Cardinality(ints)
                  /\ \E k \in ints : ceillog2(k) = i
                  /\ Upto(twoto[i]) > twoto[i] \div 2}
    IN  IF fit = {} THEN [size |-> 0, used |-> 0]
        ELSE [size |-> twoto[Max(fit)], used |-> Upto(twoto[Max(fit)])]

Grown(array, n) == array \o [i \in 1..(n - Len(array)) |-> Nil]

setnodevector(h, size) ==
    IF size = 0 THEN [Empty EXCEPT !.array = h.array]
    ELSE [h EXCEPT !.node = [i \in 1..twoto[ceillog2(size)] |-> EmptyNode],
                   !.dummy = FALSE, !.lastfree = twoto[ceillog2(size)]]

luaH_new(narray, nhash) == setnodevector([Empty EXCEPT !.array = Grown(<< >>, narray)], nhash)

-----------------------------------------------------------------------------
(* Inserting.                                                              *)

\* The free position below lastfree, NULL when there is none.  A dead key is not free.
getfreepos(h) ==
    LET free == {n \in 0..(h.lastfree - 1) : gnode(h, n).key = Nil}
    IN  IF free = {} THEN NULL ELSE Max(free)

SetKey(h, n, key) == [h EXCEPT !.node[n + 1].key = key]

\* The colliding node is out of its main position: it moves to n, and mp is free.
MoveColliding(h, mp, n, key) ==
    LET chain == Chain(h, mainposition(h, gnode(h, mp).key))
        previous == chain[Min({d \in 0..sizenode(h) : chain[d + 1] = mp})]
    IN  [h EXCEPT !.node[n + 1] = gnode(h, mp),
                  !.node[previous + 1].next = n,
                  !.node[mp + 1] = [EmptyNode EXCEPT !.key = key],
                  !.lastfree = n]

\* The colliding node is at home: the new key goes to n, behind it in the chain.
ChainNew(h, mp, n, key) ==
    [h EXCEPT !.node[n + 1] = [EmptyNode EXCEPT !.key = key, !.next = gnode(h, mp).next],
              !.node[mp + 1].next = n,
              !.lastfree = n]

\* Mutant: the dummynode is written.
IsTaken_NoDummy(h, mp) == gnode(h, mp).val # Nil

IsTaken(h, mp) == gnode(h, mp).val # Nil \/ h.dummy

\* newkey() when the table need not grow.
Place(h, mp, n, key) ==
    IF ~IsTaken(h, mp) THEN SetKey(h, mp, key)
    ELSE IF mainposition(h, gnode(h, mp).key) # mp THEN MoveColliding(h, mp, n, key)
    ELSE ChainNew(h, mp, n, key)

IsFull(h, key) == IsTaken(h, mainposition(h, key)) /\ getfreepos(h) = NULL

\* luaH_set() for resize(), which makes room for what it puts back: newkey() would call
\* rehash() again from inside of rehash() if there were none.
NoRoom == [Empty EXCEPT !.lastfree = NULL]
luaH_set_Room(h, key) ==
    IF Find(h, key) # NULL THEN h
    ELSE IF IsFull(h, key) THEN NoRoom
    ELSE Place(h, mainposition(h, key), getfreepos(h), key)

\* An entry of h goes back into the table.
Reinsert(h, e, table) ==
    LET g == luaH_set_Room(table, KeyAt(h, e))
    IN  IF ValAt(h, e) = Nil THEN table ELSE PutAt(g, Find(g, KeyAt(h, e)), ValAt(h, e))

\* The entries of the part of the array that vanishes first, then those of the old nodes,
\* the last first.
resize(h, nasize, nhsize) ==
    LET kept == Min({nasize, sizearray(h)})
        vanishing == sizearray(h) - kept
        Old(i) == IF i <= vanishing THEN kept + i - 1 ELSE Size(h) + vanishing - i
        fresh == setnodevector([h EXCEPT !.array = Grown(SubSeq(@, 1, kept), nasize)], nhsize)
        table[i \in 0..(vanishing + sizenode(h))] ==
            IF i = 0 THEN fresh ELSE Reinsert(h, Old(i), table[i - 1])
    IN  table[vanishing + sizenode(h)]

\* Mutant: no place for the key that is to be inserted.
rehash_NoExtra(h, ek) ==
    LET used == UsedArray(h) \cup UsedHash(h)
        sizes == computesizes(Countable(used))
    IN  resize(h, sizes.size, Cardinality(used) - sizes.used)

rehash(h, ek) ==
    LET used == UsedArray(h) \cup UsedHash(h) \cup {ek}
        sizes == computesizes(Countable(used))
    IN  resize(h, sizes.size, Cardinality(used) - sizes.used)

newkey(h, key) ==
    IF IsFull(h, key) THEN luaH_set_Room(rehash(h, key), key)
    ELSE Place(h, mainposition(h, key), getfreepos(h), key)

\* The table with a place for the key.
luaH_set(h, key) == IF Find(h, key) # NULL THEN h ELSE newkey(h, key)

\* t[key] = v, as lua_rawset(), lua_rawseti() and the instructions do it.
Assigned(h, key, v) == LET g == luaH_set(h, key) IN PutAt(g, Find(g, key), v)
rawseti(h, n, v) == Assigned(h, Number(n), v)

luaH_resizearray(h, nasize) ==
    resize(h, nasize, IF h.dummy THEN 0 ELSE sizenode(h))

-----------------------------------------------------------------------------
(* The length.                                                             *)

\* Between i, which has a value or is 0, and j, which has none.
Half(h, p) ==
    LET m == (p.i + p.j) \div 2
    IN  IF p.j - p.i <= 1 THEN p
        ELSE IF luaH_getnum(h, m) = Nil THEN [p EXCEPT !.j = m] ELSE [p EXCEPT !.i = m]

Bisect(h, i, j) ==
    LET part[n \in 0..(j - i)] == IF n = 0 THEN [i |-> i, j |-> j] ELSE Half(h, part[n - 1])
    IN  part[j - i].i

\* The integers are searched one by one.
LinearSearch(h) ==
    Min({n \in 1..(Size(h) + 1) : luaH_getnum(h, n) = Nil}) - 1

\* j is doubled until it has no value or passes MAX_INT.
unbound_search(h, j) ==
    LET Probe(k) == (j + 1) * twoto[k]
        unset == {k \in 0..MAX_INT : /\ k = 0 \/ Probe(k) <= MAX_INT
                                     /\ luaH_getnum(h, Probe(k)) = Nil}
    IN  IF unset = {} THEN LinearSearch(h)
        ELSE IF Min(unset) = 0 THEN j
        ELSE Bisect(h, Probe(Min(unset) - 1), Probe(Min(unset)))

\* Mutant: the hash part is not searched.
luaH_getn_ArrayOnly(h) ==
    LET j == sizearray(h)
    IN  IF j > 0 /\ h.array[j] = Nil THEN Bisect(h, 0, j) ELSE j

luaH_getn(h) ==
    LET j == sizearray(h)
    IN  IF j > 0 /\ h.array[j] = Nil THEN Bisect(h, 0, j)
        ELSE IF h.dummy THEN j
        ELSE unbound_search(h, j)
=============================================================================
