------------------------------ MODULE LuaTable ------------------------------
(***************************************************************************)
(* ltable.c: the tables of Lua, as the binding's result tables are made of *)
(* them. A table has an array part, for the keys 1..Len(array), and a hash *)
(* part: a vector of nodes in which keys that collide are chained (Brent's *)
(* variation: a key is out of its main position only if the key there is   *)
(* in its own).                                                            *)
(*                                                                         *)
(* Keys are natural numbers and strings; Nil is no key, and the value of   *)
(* an absent one. The hash part that has no node of its own (dummynode)    *)
(* is the empty vector. A node's next is the index of a node.              *)
(***************************************************************************)
EXTENDS Integers, FiniteSets, SequencesExt

CONSTANTS
  Names,      \* the strings that are used as keys
  Nil

ASSUME KeysAssumption ==
  /\ IsFiniteSet(Names) /\ Nil \notin Names \cup Int
  /\ \A s \in Names : s \notin Int

VARIABLE hash \* the hash of each string, which depends on a random seed

Nowhere == -1
FreeNode == [key |-> Nil, dead |-> FALSE, val |-> Nil, next |-> Nowhere]

Live(n) == n.val # Nil
Size(t) == Cardinality(DOMAIN t.node)
InArray(t, k) == k \in DOMAIN t.array

mainposition(t, k) == (IF k \in Names THEN hash[k] ELSE k) % Size(t)

(* What each of n turns of a loop makes of x, if the loop's body is step.  *)
Turns(step, x, n) ==
  LET after[i \in 0..n] == IF i = 0 THEN x ELSE step[after[i - 1]] IN after

(* The nodes of the chain that goes through node i, from there on.         *)
Chain(t, i) ==
  Turns([j \in {Nowhere} \cup DOMAIN t.node |-> IF j = Nowhere THEN j ELSE t.node[j].next],
        i, Size(t))

(* The first node of k's chain that is among places.                       *)
Search(t, k, places) ==
  LET chain == Chain(t, mainposition(t, k))
      found == {n \in DOMAIN chain : chain[n] \in places}
  IN  IF t.node = <<>> \/ found = {} THEN Nowhere ELSE chain[Min(found)]

Places(t, k) == {i \in DOMAIN t.node : t.node[i].key = k}

Find(t, k) == Search(t, k, {i \in Places(t, k) : ~t.node[i].dead})

luaH_get(t, k) ==
  IF InArray(t, k) THEN t.array[k]
  ELSE LET i == Find(t, k) IN IF i = Nowhere THEN Nil ELSE t.node[i].val

(* The entries in the order of a traversal.                                *)
AllEntries(t) == 1..(Len(t.array) + Size(t))
Entry(t, i) ==
  IF InArray(t, i) THEN [key |-> i, val |-> t.array[i]]
  ELSE LET n == t.node[i - Len(t.array) - 1] IN [key |-> n.key, val |-> n.val]
LiveEntries(t) == {i \in AllEntries(t) : Live(Entry(t, i))}

-----------------------------------------------------------------------------
(* Insertion where there is room *)

(* Free positions are taken from the end, and never looked at twice.       *)
getfreepos(t) == Max({i \in 0..(t.lastfree - 1) : t.node[i].key = Nil} \cup {Nowhere})

NewNode(k, v) == [FreeNode EXCEPT !.key = k, !.val = v]

(* Mutant of MoveAway: the chain is not led to the new place.              *)
Mutant_MoveAway(t, mp, f, k, v) ==
  [t EXCEPT !.lastfree = f, !.node[f] = t.node[mp], !.node[mp] = NewNode(k, v)]

(* The key at mp is there only because mp was free: it moves to f.         *)
MoveAway(t, mp, f, k, v) ==
  LET home == mainposition(t, t.node[mp].key)
      previous == CHOOSE i \in DOMAIN t.node :
                    i \in Range(Chain(t, home)) /\ t.node[i].next = mp
  IN  [t EXCEPT !.lastfree = f, !.node[previous].next = f,
                !.node[f] = t.node[mp], !.node[mp] = NewNode(k, v)]

(* Mutant of ChainAfter: what was chained after mp is lost.                *)
Mutant_ChainAfter(t, mp, f, k, v) ==
  [t EXCEPT !.lastfree = f, !.node[f] = NewNode(k, v), !.node[mp].next = f]

(* The key at mp is in its main position: the new one goes to f.           *)
ChainAfter(t, mp, f, k, v) ==
  [t EXCEPT !.lastfree = f, !.node[mp].next = f,
            !.node[f] = [NewNode(k, v) EXCEPT !.next = t.node[mp].next]]

HasRoom(t, k) ==
  /\ t.node # <<>>
  /\ Live(t.node[mainposition(t, k)]) => getfreepos(t) # Nowhere

(* A node whose value is nil is taken over as it stands in its chain.      *)
Insert(t, k, v) ==
  LET mp == mainposition(t, k)
  IN  IF ~Live(t.node[mp])
      THEN [t EXCEPT !.node[mp] = [NewNode(k, v) EXCEPT !.next = t.node[mp].next]]
      ELSE IF mainposition(t, t.node[mp].key) # mp
      THEN MoveAway(t, mp, getfreepos(t), k, v)
      ELSE ChainAfter(t, mp, getfreepos(t), k, v)

Present(t, k) == InArray(t, k) \/ Find(t, k) # Nowhere

Overwrite(t, k, v) ==
  IF InArray(t, k) THEN [t EXCEPT !.array[k] = v] ELSE [t EXCEPT !.node[Find(t, k)].val = v]

(* luaH_set in a table that is large enough, as rehash leaves it.          *)
Put(t, k, v) == IF Present(t, k) THEN Overwrite(t, k, v) ELSE Insert(t, k, v)

-----------------------------------------------------------------------------
(* Sizes *)

MAXHBITS == 30
PowersOfTwo == {2^p : p \in 0..MAXHBITS}
CeilPow2(n) == Min({p \in PowersOfTwo : p >= n})

setnodevector(size) ==
  IF size = 0 THEN <<>> ELSE [i \in 0..(CeilPow2(size) - 1) |-> FreeNode]

luaH_new == [array |-> <<>>, node |-> <<>>, lastfree |-> 0]

(* The keys that could live in an array part, k among them.                *)
IndexKeys(t, k) == ({Entry(t, i).key : i \in LiveEntries(t)} \cup {k}) \ (Names \cup {0})
InRange(keys, n) == {i \in keys : i <= n}

(* The largest power of two such that more than half of the slots of an    *)
(* array of that size are in use.                                          *)
computesizes(keys) ==
  Max({p \in PowersOfTwo : 2 * Cardinality(InRange(keys, p)) > p} \cup {0})

Resized(t, nasize, nhsize) ==
  [array |-> [i \in 1..nasize |-> IF InArray(t, i) THEN t.array[i] ELSE Nil],
   node |-> setnodevector(nhsize),
   lastfree |-> Cardinality(DOMAIN setnodevector(nhsize))]

(* The entries are inserted again: those of the slice that leaves the      *)
(* array, then the nodes from the last one down.                           *)
OldEntry(t, n) == Entry(t, IF InArray(t, n) THEN n ELSE 2 * Len(t.array) + Size(t) + 1 - n)

luaH_resize(t, nasize, nhsize) ==
  LET moves(n) == Live(OldEntry(t, n)) /\ (InArray(t, n) => n > nasize)
      after[n \in {0} \cup AllEntries(t)] ==
        IF n = 0 THEN Resized(t, nasize, nhsize)
        ELSE LET u == after[n - 1]
             IN  IF moves(n) THEN Put(u, OldEntry(t, n).key, OldEntry(t, n).val) ELSE u
  IN  after[Len(t.array) + Size(t)]

(* Makes room for k.                                                       *)
rehash(t, k) ==
  LET keys == IndexKeys(t, k)
      nasize == computesizes(keys)
      used == Cardinality(LiveEntries(t)) + 1
  IN  luaH_resize(t, nasize, used - Cardinality(InRange(keys, nasize)))

luaH_newkey(t, k, v) ==
  IF HasRoom(t, k) THEN Insert(t, k, v) ELSE Put(rehash(t, k), k, v)

(* t[k] = v, as luaV_settable (without metatable) and luaH_setint do it: a *)
(* new key gets a node even if v is nil.                                   *)
luaH_set(t, k, v) == IF Present(t, k) THEN Overwrite(t, k, v) ELSE luaH_newkey(t, k, v)

-----------------------------------------------------------------------------
(* Traversal, and the collector *)

(* The collector removes keys that nothing else refers to from entries     *)
(* without a value. The key stays readable for a traversal that is at it.  *)
(* The mutant frees the node.                                              *)
Mutant_removeentry(n) == [n EXCEPT !.key = Nil]
removeentry(n) == [n EXCEPT !.dead = TRUE]

traversestrongtable(t, white) ==
  [t EXCEPT !.node = [i \in DOMAIN t.node |->
     IF ~Live(t.node[i]) /\ t.node[i].key \in white
     THEN removeentry(t.node[i]) ELSE t.node[i]]]

(* The place of key k among the entries, 0 if k is Nil, and Nowhere if k   *)
(* is not in the table ("invalid key to 'next'").                          *)
findindex(t, k) ==
  IF k = Nil THEN 0
  ELSE IF InArray(t, k) THEN k
  ELSE LET i == Search(t, k, Places(t, k))
       IN  IF i = Nowhere THEN Nowhere ELSE Len(t.array) + i + 1

(* The key after k, Nil at the end.                                        *)
luaH_next(t, k) ==
  LET after == {i \in LiveEntries(t) : i > findindex(t, k)}
  IN  IF after = {} THEN Nil ELSE Entry(t, Min(after)).key

-----------------------------------------------------------------------------
(* The length operator *)

(* Binary search between i (0, or a key present) and j (absent): the loop  *)
(* makes no more turns than there are numbers between them.                *)
Halve(t) ==
  [p \in Nat \X Nat |->
     LET m == (p[1] + p[2]) \div 2
     IN  IF p[2] - p[1] <= 1 THEN p
         ELSE IF luaH_get(t, m) = Nil THEN <<p[1], m>> ELSE <<m, p[2]>>]
BinarySearch(t, i, j) == Turns(Halve(t), <<i, j>>, j - i)[j - i][1]

(* A loop that finds another key of the hash part with each turn.          *)
Double(t) == [p \in Nat \X Nat |-> IF luaH_get(t, p[2]) = Nil THEN p ELSE <<p[2], 2 * p[2]>>]
unbound_search(t, j) ==
  LET p == Turns(Double(t), <<j, j + 1>>, Size(t))[Size(t)] IN BinarySearch(t, p[1], p[2])

(* Mutant of luaH_getn: the hash part is not asked.                        *)
Mutant_luaH_getn(t) ==
  LET n == Len(t.array)
  IN  IF n > 0 /\ t.array[n] = Nil THEN BinarySearch(t, 0, n) ELSE n

luaH_getn(t) ==
  LET n == Len(t.array)
  IN  IF n > 0 /\ t.array[n] = Nil THEN BinarySearch(t, 0, n)
      ELSE IF t.node = <<>> THEN n
      ELSE unbound_search(t, n)

-----------------------------------------------------------------------------

(* The shape of a table: every node with a value is in the chain of its    *)
(* key's main position, no two have the same key or one of the array, and  *)
(* there is a free node only below lastfree.                               *)
TableSound(t) ==
  /\ t.node # <<>> => DOMAIN t.node = 0..(CeilPow2(Size(t)) - 1)
  /\ t.lastfree \in 0..Size(t)
  /\ \A i \in DOMAIN t.node :
       /\ t.node[i].key = Nil => i < t.lastfree /\ t.node[i] = FreeNode
       /\ t.node[i].next \in {Nowhere} \cup DOMAIN t.node
       /\ Live(t.node[i]) =>
            /\ Find(t, t.node[i].key) = i
            /\ ~InArray(t, t.node[i].key)

=============================================================================
