---------------------------- MODULE TableProofs ----------------------------
(***************************************************************************)
(* Proofs about ltable.c and the tables of the binding that are made with  *)
(* it: a table stays sound through every insertion, rehash and collection, *)
(* and has what was assigned to it.                                        *)
(*                                                                         *)
(* The order: numbers and loops; chains and what they lead to; what a      *)
(* search finds; insertion in its three ways; the entries; sizes, resizing *)
(* and rehash; the collector and traversals; the tables of the binding;    *)
(* the steps; the length.                                                  *)
(***************************************************************************)
EXTENDS ResultTable, FiniteSetTheorems, WellFoundedInduction, TLAPS

-----------------------------------------------------------------------------
(* Numbers *)

\* A set of natural numbers has a smallest one.
LEMMA SmallestOf ==
  ASSUME NEW S, S \subseteq Nat, S # {}
  PROVE  \E x \in S : \A y \in S : x <= y
<1>1. \E x \in S : \A y \in S : ~(<<y, x>> \in OpToRel(<, Nat))
  BY WFMin, NatLessThanWellFounded
<1>2. \A x, y \in Nat : x < y => <<x, y>> \in OpToRel(<, Nat)
  BY DEF OpToRel
<1>3. PICK x \in S : \A y \in S : ~(<<y, x>> \in OpToRel(<, Nat))
  BY <1>1
<1>4. \A y \in S : ~(y < x)
  <2>. HIDE DEF OpToRel
  <2>. QED  BY <1>2, <1>3
<1>. QED  BY <1>4

\* Induction, for a set of natural numbers in place of a predicate.
LEMMA Induct ==
  ASSUME NEW A, 0 \in A, \A n \in Nat : n \in A => n + 1 \in A
  PROVE  Nat \subseteq A
<1>1. SUFFICES ASSUME Nat \ A # {} PROVE FALSE
  OBVIOUS
<1>2. PICK x \in Nat \ A : \A y \in Nat \ A : x <= y
  BY <1>1, SmallestOf
<1>3. x # 0 /\ x - 1 \in Nat
  BY <1>2
<1>. QED  BY <1>2, <1>3

\* The same up to a bound.
LEMMA InductTo ==
  ASSUME NEW m \in Nat, NEW A, 0 \in A, \A n \in 1..m : n - 1 \in A => n \in A
  PROVE  0..m \subseteq A
<1> DEFINE B == {n \in Nat : n \in A \/ n > m}
<1>1. 0 \in B
  OBVIOUS
<1>2. \A n \in Nat : n \in B => n + 1 \in B
  OBVIOUS
<1>3. Nat \subseteq B
  <2>. HIDE DEF B
  <2>. QED  BY <1>1, <1>2, Induct
<1>. QED  BY <1>3

\* Min is the smallest.
LEMMA MinIs ==
  ASSUME NEW S, S \subseteq Nat, S # {}
  PROVE  Min(S) \in S /\ \A y \in S : Min(S) <= y
BY SmallestOf DEF Min

\* Max is the largest, if there is a bound.
LEMMA MaxIs ==
  ASSUME NEW S, S \subseteq Int, S # {}, NEW b \in Int, \A x \in S : x <= b
  PROVE  Max(S) \in S /\ \A y \in S : y <= Max(S)
<1> DEFINE T == {b - x : x \in S}
<1>1. T \subseteq Nat /\ T # {}
  <2>1. \A x \in S : b - x \in Nat
    OBVIOUS
  <2>2. PICK x \in S : TRUE
    OBVIOUS
  <2>. QED  BY <2>1, <2>2
<1>2. PICK d \in T : \A y \in T : d <= y
  <2>. HIDE DEF T
  <2>. QED  BY <1>1, SmallestOf
<1>3. \E x \in S : \A y \in S : y <= x
  <2>1. PICK x \in S : d = b - x
    BY <1>2
  <2>2. \A y \in S : b - x <= b - y
    BY <1>2, <2>1
  <2>. QED  BY <2>2
<1>. QED  BY <1>3 DEF Max

\* What the loop has after each of its turns.
LEMMA TurnsAre ==
  ASSUME NEW step, NEW x, NEW n \in Nat
  PROVE  /\ DOMAIN Turns(step, x, n) = 0..n
         /\ Turns(step, x, n)[0] = x
         /\ \A i \in 1..n : Turns(step, x, n)[i] = step[Turns(step, x, n)[i - 1]]
<1> DEFINE Is(a, m) == a = [i \in 0..m |-> IF i = 0 THEN x ELSE step[a[i - 1]]]
           A == {m \in Nat : \E a : Is(a, m)}
<1>1. 0 \in A
  <2>1. Is([i \in 0..0 |-> x], 0)
    OBVIOUS
  <2>. QED  BY <2>1
<1>2. ASSUME NEW m \in Nat, m \in A
      PROVE  m + 1 \in A
  <2>1. PICK a : Is(a, m)
    BY <1>2
  <2> DEFINE b == [i \in 0..(m + 1) |-> IF i <= m THEN a[i] ELSE step[a[m]]]
  <2>2. \A i \in 0..m : a[i] = IF i = 0 THEN x ELSE step[a[i - 1]]
    BY <2>1
  <2>3. \A i \in 0..(m + 1) : b[i] = IF i = 0 THEN x ELSE step[b[i - 1]]
    BY <2>2
  <2>4. b = [i \in 0..(m + 1) |-> b[i]]
    OBVIOUS
  <2>5. Is(b, m + 1)
    <3>. HIDE DEF b
    <3>. QED  BY <2>3, <2>4
  <2>. HIDE DEF Is, b
  <2>. QED  BY <2>5
<1>3. \E a : Is(a, n)
  <2>1. Nat \subseteq A
    <3>. HIDE DEF A
    <3>. QED  BY <1>1, <1>2, Induct
  <2>. QED  BY <2>1
<1>4. Is(Turns(step, x, n), n)
  BY <1>3 DEF Turns
<1>. QED  BY <1>4

-----------------------------------------------------------------------------
(* Chains *)

\* What links says of each node is the node after it. The nodes that node p leads to
\* are in every set that p is in and that the links do not lead out of.
Reach(links, p) ==
  {i \in DOMAIN links : \A S \in SUBSET DOMAIN links :
     p \in S /\ (\A x \in S : links[x] # Nowhere => links[x] \in S) => i \in S}

Linking(D) == [D -> D \cup {Nowhere}]

\* A node leads to itself.
LEMMA ReachSelf ==
  ASSUME NEW D, NEW links \in Linking(D), NEW p \in D
  PROVE  p \in Reach(links, p)
BY DEF Reach, Linking

\* What a node leads to is in every such set.
LEMMA ReachLeast ==
  ASSUME NEW D, NEW links \in Linking(D), NEW p \in D, NEW S \in SUBSET D, p \in S,
         \A x \in S : links[x] # Nowhere => links[x] \in S
  PROVE  Reach(links, p) \subseteq S
BY DEF Reach, Linking

\* The next node of one that is led to is led to as well.
LEMMA ReachNext ==
  ASSUME NEW D, NEW links \in Linking(D), NEW p \in D, NEW i \in Reach(links, p),
         links[i] # Nowhere
  PROVE  i \in D /\ links[i] \in Reach(links, p)
<1>1. i \in D /\ links[i] \in D
  BY DEF Reach, Linking
<1>2. ASSUME NEW S \in SUBSET D, p \in S, \A x \in S : links[x] # Nowhere => links[x] \in S
      PROVE  links[i] \in S
  BY <1>2, ReachLeast
<1>. QED  BY <1>1, <1>2 DEF Reach, Linking

\* What is led to leads on.
LEMMA ReachTrans ==
  ASSUME NEW D, NEW links \in Linking(D), NEW p \in D, NEW i \in Reach(links, p),
         NEW j \in Reach(links, i)
  PROVE  j \in Reach(links, p)
<1>1. i \in D /\ Reach(links, p) \in SUBSET D
  BY DEF Reach, Linking
<1>2. \A x \in Reach(links, p) : links[x] # Nowhere => links[x] \in Reach(links, p)
  BY ReachNext
<1>3. Reach(links, i) \subseteq Reach(links, p)
  BY <1>1, <1>2, ReachLeast
<1>. QED  BY <1>3

\* What a node leads to is itself and what the next one leads to.
LEMMA ReachFrom ==
  ASSUME NEW D, NEW links \in Linking(D), NEW p \in D, NEW i \in Reach(links, p), i # p
  PROVE  links[p] # Nowhere /\ i \in Reach(links, links[p])
<1>1. CASE links[p] = Nowhere
  <2> DEFINE S == {p}
  <2>1. S \in SUBSET D /\ p \in S /\ \A x \in S : links[x] # Nowhere => links[x] \in S
    BY <1>1
  <2>. HIDE DEF S
  <2>2. Reach(links, p) \subseteq S
    BY <2>1, ReachLeast
  <2>. USE DEF S
  <2>. QED  BY <2>2
<1>2. CASE links[p] # Nowhere
  <2> DEFINE S == {p} \cup Reach(links, links[p])
  <2>1. links[p] \in D /\ S \in SUBSET D
    BY <1>2 DEF Linking, Reach
  <2>2. links[p] \in Reach(links, links[p])
    BY <2>1, ReachSelf
  <2>3. \A x \in Reach(links, links[p]) : links[x] # Nowhere => links[x] \in Reach(links, links[p])
    BY <2>1, ReachNext
  <2>4. Reach(links, p) \subseteq S
    <3>1. \A x \in S : links[x] # Nowhere => links[x] \in S
      BY <2>2, <2>3
    <3>. HIDE DEF S
    <3>2. p \in S
      BY DEF S
    <3>. QED  BY <3>1, <3>2, <2>1, ReachLeast
  <2>. QED  BY <1>2, <2>4
<1>. QED  BY <1>1, <1>2

\* Where ranks fall along the links they fall all along a chain.
LEMMA ReachFalls ==
  ASSUME NEW D, NEW links \in Linking(D), NEW rank \in [D -> Int],
         \A x \in D : links[x] # Nowhere => rank[links[x]] < rank[x],
         NEW p \in D, NEW i \in Reach(links, p)
  PROVE  i \in D /\ (i # p => rank[i] < rank[p])
<1> DEFINE S == {x \in D : x = p \/ rank[x] < rank[p]}
<1>1. \A x \in S : links[x] # Nowhere => links[x] \in S
  BY DEF Linking
<1>2. S \in SUBSET D /\ p \in S
  OBVIOUS
<1>3. Reach(links, p) \subseteq S
  <2>. HIDE DEF S
  <2>. QED  BY <1>1, <1>2, ReachLeast
<1>. QED  BY <1>3

\* The places a walk along the links comes to.
Walk(links, p, n) ==
  Turns([j \in {Nowhere} \cup DOMAIN links |-> IF j = Nowhere THEN j ELSE links[j]], p, n)

\* The walk goes from node to node, and stays at Nowhere.
LEMMA WalkIs ==
  ASSUME NEW D, Nowhere \notin D, NEW links \in Linking(D), NEW p \in D, NEW n \in Nat
  PROVE  /\ DOMAIN Walk(links, p, n) = 0..n /\ Walk(links, p, n)[0] = p
         /\ \A i \in 0..n : Walk(links, p, n)[i] \in D \cup {Nowhere}
         /\ \A i \in 1..n : Walk(links, p, n)[i] =
              IF Walk(links, p, n)[i - 1] = Nowhere THEN Nowhere
              ELSE links[Walk(links, p, n)[i - 1]]
<1> DEFINE step == [j \in {Nowhere} \cup DOMAIN links |-> IF j = Nowhere THEN j ELSE links[j]]
           w == Turns(step, p, n)
           A == {i \in 0..n : w[i] \in D \cup {Nowhere}}
<1>1. DOMAIN links = D /\ \A j \in D : links[j] \in D \cup {Nowhere}
  BY DEF Linking
<1>2. /\ \A j \in D : step[j] = links[j]
      /\ step[Nowhere] = Nowhere
  BY <1>1
<1>3. DOMAIN w = 0..n /\ w[0] = p /\ \A i \in 1..n : w[i] = step[w[i - 1]]
  <2>. HIDE DEF step
  <2>. QED  BY TurnsAre
<1>4. 0 \in A /\ \A i \in 1..n : i - 1 \in A => i \in A
  <2>. HIDE DEF step, w
  <2>. QED  BY <1>1, <1>2, <1>3
<1>5. 0..n \subseteq A
  <2>. HIDE DEF A
  <2>. QED  BY <1>4, InductTo
<1>6. Walk(links, p, n) = w
  BY DEF Walk
<1>. HIDE DEF step, w
<1>7. \A i \in 1..n : w[i] = IF w[i - 1] = Nowhere THEN Nowhere ELSE links[w[i - 1]]
  <2> TAKE i \in 1..n
  <2>1. i - 1 \in A
    BY <1>5
  <2>. QED  BY <2>1, <1>2, <1>3
<1>. QED  BY <1>3, <1>5, <1>6, <1>7

\* What it comes to later is on the chain of what it came to before.
LEMMA WalkLater ==
  ASSUME NEW D, Nowhere \notin D, NEW links \in Linking(D), NEW p \in D, NEW n \in Nat,
         NEW a \in 0..n, NEW b \in a..n, Walk(links, p, n)[b] # Nowhere
  PROVE  /\ Walk(links, p, n)[a] # Nowhere
         /\ Walk(links, p, n)[b] \in Reach(links, Walk(links, p, n)[a])
<1> DEFINE w == Walk(links, p, n)
           A == {i \in 0..(n - a) : w[a + i] # Nowhere =>
                                      w[a] # Nowhere /\ w[a + i] \in Reach(links, w[a])}
<1>1. /\ \A i \in 0..n : w[i] \in D \cup {Nowhere}
      /\ \A i \in 1..n : w[i] = IF w[i - 1] = Nowhere THEN Nowhere ELSE links[w[i - 1]]
  BY WalkIs
<1>. HIDE DEF w
<1>2. 0 \in A
  BY <1>1, ReachSelf
<1>3. ASSUME NEW i \in 1..(n - a), i - 1 \in A
      PROVE  i \in A
  <2>1. CASE w[a + i] = Nowhere
    BY <2>1
  <2>2. CASE w[a + i] # Nowhere
    <3>1. a + i \in 1..n /\ a + i - 1 = a + (i - 1)
      OBVIOUS
    <3>2. w[a + (i - 1)] # Nowhere /\ w[a + i] = links[w[a + (i - 1)]]
      BY <1>1, <2>2, <3>1
    <3>3. w[a] # Nowhere /\ w[a + (i - 1)] \in Reach(links, w[a]) /\ w[a] \in D
      BY <1>1, <1>3, <3>2
    <3>4. w[a + i] \in Reach(links, w[a])
      BY <2>2, <3>2, <3>3, ReachNext
    <3>. QED  BY <3>3, <3>4
  <2>. QED  BY <2>1, <2>2
<1>4. 0..(n - a) \subseteq A
  <2>. HIDE DEF A
  <2>1. n - a \in Nat
    OBVIOUS
  <2>. QED  BY <1>2, <1>3, <2>1, InductTo
<1>5. b - a \in A /\ a + (b - a) = b
  BY <1>4
<1>. QED  BY <1>5 DEF w

\* As many turns as there are nodes are enough to come to everything there is.
LEMMA WalkComes ==
  ASSUME NEW N \in Nat, NEW links \in Linking(0..(N - 1)), NEW p \in 0..(N - 1),
         NEW i \in Reach(links, p)
  PROVE  \E n \in 0..N : Walk(links, p, N)[n] = i
<1> DEFINE D == 0..(N - 1)
           w == Walk(links, p, N)
<1>0. Nowhere \notin D /\ links \in Linking(D) /\ p \in D /\ N \in 1..N
  BY DEF Nowhere
<1>1. /\ w[0] = p
      /\ \A n \in 0..N : w[n] \in D \cup {Nowhere}
      /\ \A n \in 1..N : w[n] = IF w[n - 1] = Nowhere THEN Nowhere ELSE links[w[n - 1]]
  <2>. HIDE DEF D
  <2>. QED  BY <1>0, WalkIs
<1>. HIDE DEF w
\* The places up to turn b are all, if the next turn leads to one of them or nowhere.
<1>2. ASSUME NEW b \in 1..N, w[b] # Nowhere => \E a \in 0..(b - 1) : w[a] = w[b]
      PROVE  \E n \in 0..N : w[n] = i
  <2> DEFINE S == {x \in D : \E n \in 0..(b - 1) : w[n] = x}
  <2>1. ASSUME NEW x \in S, links[x] # Nowhere
        PROVE  links[x] \in S
    <3>1. PICK n \in 0..(b - 1) : w[n] = x
      BY <2>1
    <3>2. n + 1 \in 1..N /\ (n + 1) - 1 = n /\ x # Nowhere
      BY <1>0
    <3>3. w[n + 1] = links[x]
      BY <1>1, <3>1, <3>2
    <3>4. \E m \in 0..(b - 1) : w[m] = links[x]
      <4>1. CASE n = b - 1
        BY <4>1, <3>3, <1>2, <2>1
      <4>2. CASE n # b - 1
        BY <4>2, <3>3
      <4>. QED  BY <4>1, <4>2
    <3>5. links[x] \in D
      BY <2>1, <1>0 DEF Linking
    <3>. QED  BY <3>4, <3>5
  <2>2. p \in S /\ S \in SUBSET D
    BY <1>0, <1>1
  <2>3. Reach(links, p) \subseteq S
    <3>. HIDE DEF S, D
    <3>. QED  BY <2>1, <2>2, <1>0, ReachLeast
  <2>4. i \in S
    BY <2>3
  <2>. QED  BY <2>4
<1>3. CASE w[N] = Nowhere
  BY <1>0, <1>3, <1>2 DEF w
<1>4. CASE w[N] # Nowhere
  <2>1. \A n \in 0..N : w[n] \in D
    <3> TAKE n \in 0..N
    <3>1. N \in n..N
      OBVIOUS
    <3>2. w[n] # Nowhere
      <4>. HIDE DEF D
      <4>. QED  BY <1>0, <1>4, <3>1, WalkLater DEF w
    <3>. QED  BY <3>2, <1>1
  <2> DEFINE f == [n \in 0..N |-> w[n]]
  <2>2. f \in [0..N -> D]
    BY <2>1
  <2>3. /\ IsFiniteSet(0..N) /\ Cardinality(0..N) = N + 1
        /\ IsFiniteSet(D) /\ Cardinality(D) = N
    <3>1. /\ IsFiniteSet(0..N) /\ Cardinality(0..N) = IF 0 > N THEN 0 ELSE N - 0 + 1
          /\ IsFiniteSet(0..(N - 1)) /\ Cardinality(0..(N - 1)) = IF 0 > N - 1 THEN 0 ELSE (N - 1) - 0 + 1
      BY FS_Interval
    <3>. QED  BY <3>1
  <2>4. \E x, y \in 0..N : x # y /\ f[x] = f[y]
    <3>. HIDE DEF f, D
    <3>. QED  BY <2>2, <2>3, FS_PigeonHole
  <2>5. PICK a \in 0..N, b \in 0..N : a < b /\ w[a] = w[b]
    BY <2>4
  <2>6. b \in 1..N /\ a \in 0..(b - 1)
    BY <2>5
  <2>. QED  BY <2>5, <2>6, <1>2 DEF w
<1>. QED  BY <1>3, <1>4 DEF w

-----------------------------------------------------------------------------
(* Tables *)

\* What can be a key, and a value.
KeySet == Names \cup (Nat \ {0})
Value == {pushvalue(col) : col \in Columns} \cup {Nil, NewValue}

\* A table with N nodes.
NodeSet(N) == [key: KeySet \cup {Nil}, dead: BOOLEAN, val: Value,
               next: {Nowhere} \cup 0..(N - 1)]
TableSet(N) == [array: Seq(Value), node: [0..(N - 1) -> NodeSet(N)], lastfree: 0..N]

Links(t) == [i \in DOMAIN t.node |-> t.node[i].next]
Used(t) == {i \in DOMAIN t.node : t.node[i].key # Nil}

\* Nil, Nowhere, the strings and the numbers are different from each other.
LEMMA KeysDiffer ==
  /\ Nil \notin KeySet /\ \A s \in Names : s \notin Nat
  /\ Nowhere \notin Nat /\ Nil # Nowhere /\ Nil \in Value
BY KeysAssumption DEF KeySet, Nowhere, Value

\* What a table of N nodes consists of.
LEMMA TableIs ==
  ASSUME NEW N \in Nat, NEW t \in TableSet(N)
  PROVE  /\ DOMAIN t.node = 0..(N - 1) /\ Size(t) = N /\ (t.node = <<>> <=> N = 0)
         /\ \A i \in 0..(N - 1) : t.node[i] \in NodeSet(N)
         /\ t.array \in Seq(Value) /\ Len(t.array) \in Nat /\ DOMAIN t.array = 1..Len(t.array)
         /\ \A i \in 1..Len(t.array) : t.array[i] \in Value
         /\ t.lastfree \in 0..N
         /\ Links(t) \in Linking(0..(N - 1))
         /\ \A i \in 0..(N - 1) : Links(t)[i] = t.node[i].next
<1>1. DOMAIN t.node = 0..(N - 1) /\ \A i \in 0..(N - 1) : t.node[i] \in NodeSet(N)
  BY DEF TableSet
<1>2. Cardinality(0..(N - 1)) = N
  BY FS_Interval
<1>3. t.node = <<>> <=> N = 0
  <2>1. t.node \in [0..(N - 1) -> NodeSet(N)] /\ DOMAIN <<>> = {}
    BY DEF TableSet
  <2>2. N = 0 => t.node = <<>>
    BY <2>1
  <2>. QED  BY <1>1, <2>1, <2>2
<1>4. /\ Links(t) \in Linking(0..(N - 1))
      /\ \A i \in 0..(N - 1) : Links(t)[i] = t.node[i].next
  BY <1>1 DEF Links, Linking, NodeSet
<1>. QED  BY <1>1, <1>2, <1>3, <1>4 DEF TableSet, Size

\* A key's main position is a node.
LEMMA MainIs ==
  ASSUME NEW N \in Nat \ {0}, NEW t \in TableSet(N), NEW k \in KeySet, hash \in [Names -> Nat]
  PROVE  mainposition(t, k) \in 0..(N - 1)
<1>1. Size(t) = N
  BY TableIs
<1>2. (IF k \in Names THEN hash[k] ELSE k) \in Nat
  BY DEF KeySet
<1>3. \A x \in Nat : x % N \in 0..(N - 1)
  OBVIOUS
<1>. QED  BY <1>1, <1>2, <1>3 DEF mainposition

\* The chain of the model is such a walk.
LEMMA ChainIs ==
  ASSUME NEW N \in Nat, NEW t \in TableSet(N), NEW h
  PROVE  Chain(t, h) = Walk(Links(t), h, N)
<1> DEFINE D == 0..(N - 1)
<1>1. /\ Size(t) = N /\ DOMAIN t.node = D /\ DOMAIN Links(t) = D
      /\ \A j \in D : Links(t)[j] = t.node[j].next
  BY TableIs DEF Links
<1>2. [j \in {Nowhere} \cup D |-> IF j = Nowhere THEN j ELSE t.node[j].next]
      = [j \in {Nowhere} \cup D |-> IF j = Nowhere THEN j ELSE Links(t)[j]]
  BY <1>1
<1>. HIDE DEF D
<1>. QED  BY <1>1, <1>2 DEF Chain, Walk

\* A search finds the first of the places on the chain: from there it leads to the others.
LEMMA SearchIs ==
  ASSUME NEW N \in Nat, NEW t \in TableSet(N), NEW k \in KeySet, hash \in [Names -> Nat],
         NEW places \in SUBSET (0..(N - 1))
  PROVE  LET h == mainposition(t, k)
             r == Search(t, k, places)
         IN  IF N = 0 \/ places \cap Reach(Links(t), h) = {} THEN r = Nowhere
             ELSE /\ r \in places \cap Reach(Links(t), h)
                  /\ \A j \in places \cap Reach(Links(t), h) : j \in Reach(Links(t), r)
<1> DEFINE D == 0..(N - 1)
           h == mainposition(t, k)
           r == Search(t, k, places)
           w == Walk(Links(t), h, N)
           found == {n \in 0..N : w[n] \in places}
<1>1. CASE N = 0
  BY <1>1, TableIs DEF Search
<1>2. CASE N # 0
  <2>1. h \in D
    BY <1>2, MainIs
  <2>2. /\ Links(t) \in Linking(D) /\ Nowhere \notin D /\ t.node # <<>> /\ Size(t) = N
        /\ DOMAIN t.node = D /\ \A j \in D : Links(t)[j] = t.node[j].next
    BY <1>2, TableIs DEF Nowhere
  <2>3. DOMAIN w = 0..N /\ w[0] = h
    <3>. HIDE DEF D, h
    <3>. QED  BY <2>1, <2>2, WalkIs
  <2>4. Chain(t, h) = w
    BY ChainIs
  <2>5. r = IF found = {} THEN Nowhere ELSE w[Min(found)]
    <3>. HIDE DEF w
    <3>. QED  BY <2>2, <2>3, <2>4 DEF Search
  <2>6. ASSUME NEW j \in places \cap Reach(Links(t), h)
        PROVE  \E n \in found : w[n] = j
    <3>1. j \in Reach(Links(t), h) /\ j \in places
      BY <2>6
    <3>2. \E n \in 0..N : Walk(Links(t), h, N)[n] = j
      <4>. HIDE DEF h, w, found
      <4>. QED  BY <2>1, <2>2, <3>1, WalkComes
    <3>. QED  BY <3>1, <3>2
  <2>7. ASSUME NEW n \in found
        PROVE  w[n] \in places \cap Reach(Links(t), h)
    <3>1. w[n] # Nowhere /\ n \in 0..n /\ 0 \in 0..N /\ n \in 0..N
      <4>1. n \in 0..N /\ w[n] \in places
        BY <2>7
      <4>2. Nowhere \notin places
        BY <2>2
      <4>. HIDE DEF w
      <4>. QED  BY <4>1, <4>2
    <3>2. w[n] \in Reach(Links(t), w[0])
      <4>. HIDE DEF D, h, found
      <4>. QED  BY <3>1, <2>1, <2>2, WalkLater
    <3>. QED  BY <3>2, <2>3
  <2>8. ASSUME found # {}
        PROVE  /\ r \in places \cap Reach(Links(t), h)
               /\ \A j \in places \cap Reach(Links(t), h) : j \in Reach(Links(t), r)
    <3>1. Min(found) \in found /\ \A n \in found : Min(found) <= n
      <4>1. found \subseteq Nat
        OBVIOUS
      <4>. HIDE DEF found
      <4>. QED  BY <4>1, <2>8, MinIs
    <3>2. r = w[Min(found)]
      BY <2>5, <2>8
    <3>3. ASSUME NEW j \in places \cap Reach(Links(t), h)
          PROVE  j \in Reach(Links(t), r)
      <4>1. PICK n \in found : w[n] = j
        BY <2>6
      <4>2. Min(found) \in 0..N /\ n \in Min(found)..N /\ w[n] # Nowhere
        BY <3>1, <4>1, <2>2
      <4>3. w[n] \in Reach(Links(t), w[Min(found)])
        <5>. HIDE DEF D, h, found
        <5>. QED  BY <4>2, <2>1, <2>2, WalkLater
      <4>. QED  BY <4>1, <4>3, <3>2
    <3>. HIDE DEF found, w, r
    <3>. QED  BY <2>7, <3>1, <3>2, <3>3
  <2>. HIDE DEF found, w, r, h
  <2>. QED  BY <1>2, <2>5, <2>6, <2>7, <2>8 DEF r, h
<1>. QED  BY <1>1, <1>2

-----------------------------------------------------------------------------
(* Changes of the chains *)

\* No node follows two, and none itself by whatever way.
Single(links) ==
  \A i, j \in DOMAIN links : links[i] = links[j] /\ links[i] # Nowhere => i = j
Acyclic(links) ==
  \E rank \in [DOMAIN links -> Int] :
    \A i \in DOMAIN links : links[i] # Nowhere => rank[links[i]] < rank[i]

LinkedAfter(links, mp, f) == [links EXCEPT ![mp] = f, ![f] = links[mp]]
LinkedFor(links, prev, mp, f) ==
  [links EXCEPT ![prev] = f, ![f] = links[mp], ![mp] = Nowhere]

\* A node that no other leads to is chained in after mp.
LEMMA LinkAfter ==
  ASSUME NEW D, Nowhere \notin D, NEW links \in Linking(D), Single(links), Acyclic(links),
         NEW mp \in D, NEW f \in D, f # mp, links[f] = Nowhere, \A i \in D : links[i] # f,
         NEW new, new = LinkedAfter(links, mp, f)
  PROVE  /\ new \in Linking(D) /\ Single(new) /\ Acyclic(new)
         /\ \A i, j \in D \ {f} : j \in Reach(links, i) => j \in Reach(new, i)
         /\ f \in Reach(new, mp)
         /\ \A j \in Reach(links, mp) : j # mp => j \in Reach(new, f)
<1>1. DOMAIN links = D /\ DOMAIN new = D /\ \A i \in D : links[i] \in D \cup {Nowhere}
  BY DEF Linking, LinkedAfter, LinkedFor
<1>2. /\ new[mp] = f /\ new[f] = links[mp] /\ links[mp] # f /\ links[mp] # mp
      /\ \A i \in D \ {mp, f} : new[i] = links[i]
  <2>1. links[mp] # mp
    BY <1>1 DEF Acyclic
  <2>. QED  BY <1>1, <2>1 DEF LinkedAfter
<1>3. new \in Linking(D)
  BY <1>1 DEF Linking, LinkedAfter
<1>4. Single(new)
  BY <1>1, <1>2 DEF Single
<1>5. Acyclic(new)
  <2>1. PICK rank \in [D -> Int] : \A i \in D : links[i] # Nowhere => rank[links[i]] < rank[i]
    BY <1>1 DEF Acyclic
  <2> DEFINE r == [x \in D |-> IF x = f THEN 2 * rank[mp] - 1 ELSE 2 * rank[x]]
  <2>2. r \in [D -> Int] /\ r[f] = 2 * rank[mp] - 1 /\ \A x \in D \ {f} : r[x] = 2 * rank[x]
    OBVIOUS
  <2>. HIDE DEF r
  <2>3. ASSUME NEW i \in D, new[i] # Nowhere
        PROVE  r[new[i]] < r[i]
    <3>1. CASE i = mp
      BY <3>1, <1>2, <2>2
    <3>2. CASE i = f
      BY <3>2, <1>1, <1>2, <2>1, <2>2, <2>3
    <3>3. CASE i \in D \ {mp, f}
      <4>1. new[i] = links[i] /\ links[i] \in D /\ links[i] # f
        BY <3>3, <1>1, <1>2, <2>3
      <4>. QED  BY <4>1, <3>3, <2>1, <2>2, <2>3
    <3>. QED  BY <3>1, <3>2, <3>3
  <2>. QED  BY <1>1, <2>2, <2>3 DEF Acyclic
\* A set that the new links do not lead out of, the old ones do not without f.
<1>6. ASSUME NEW S \in SUBSET D, \A x \in S : new[x] # Nowhere => new[x] \in S,
             NEW i \in D \ {f}, i \in S
      PROVE  Reach(links, i) \subseteq S \ {f}
  <2> DEFINE T == S \ {f}
  <2>1. \A x \in T : links[x] # Nowhere => links[x] \in T
    BY <1>1, <1>2, <1>6
  <2>2. T \in SUBSET D /\ i \in T
    BY <1>6
  <2>. HIDE DEF T
  <2>3. Reach(links, i) \subseteq T
    BY <2>1, <2>2, ReachLeast
  <2>. QED  BY <2>3 DEF T
<1>7. ASSUME NEW i \in D \ {f}, NEW j \in D \ {f}, j \in Reach(links, i)
      PROVE  j \in Reach(new, i)
  BY <1>1, <1>6, <1>7 DEF Reach
<1>8. f \in Reach(new, mp)
  <2>1. mp \in Reach(new, mp) /\ new[mp] = f /\ f # Nowhere
    BY <1>2, <1>3, ReachSelf
  <2>2. new[mp] \in Reach(new, mp)
    BY <1>3, <2>1, ReachNext
  <2>. QED  BY <2>1, <2>2
<1>9. ASSUME NEW j \in Reach(links, mp), j # mp
      PROVE  j \in Reach(new, f)
  <2>1. links[mp] # Nowhere /\ j \in Reach(links, links[mp])
    BY <1>9, ReachFrom
  <2>2. links[mp] \in D \ {f}
    BY <1>1, <1>2, <2>1
  <2>3. links[mp] \in Reach(new, f)
    <3>1. f \in Reach(new, f)
      BY <1>3, ReachSelf
    <3>2. new[f] = links[mp] /\ new[f] # Nowhere
      BY <1>2, <2>1
    <3>3. new[f] \in Reach(new, f)
      BY <1>3, <3>1, <3>2, ReachNext
    <3>. QED  BY <3>2, <3>3
  <2>4. j \in D \ {f}
    <3>1. j \in D
      BY <2>1, <1>1 DEF Reach
    <3>2. ASSUME j = f PROVE FALSE
      <4> DEFINE T == D \ {f}
      <4>1. T \in SUBSET D /\ links[mp] \in T /\ \A x \in T : links[x] # Nowhere => links[x] \in T
        BY <1>1, <2>2
      <4>. HIDE DEF T
      <4>2. Reach(links, links[mp]) \subseteq T
        BY <4>1, <2>2, ReachLeast
      <4>. QED  BY <4>2, <3>2, <2>1 DEF T
    <3>. QED  BY <3>1, <3>2
  <2>5. j \in Reach(new, links[mp])
    BY <1>7, <2>1, <2>2, <2>4
  <2>. QED  BY <1>3, <2>3, <2>5, ReachTrans
<1>. QED  BY <1>3, <1>4, <1>5, <1>7, <1>8, <1>9

\* The node mp is replaced in its chain by f, which no other leads to.
LEMMA LinkMove ==
  ASSUME NEW D, Nowhere \notin D, NEW links \in Linking(D), Single(links), Acyclic(links),
         NEW mp \in D, NEW f \in D, f # mp, links[f] = Nowhere, \A i \in D : links[i] # f,
         NEW prev \in D, links[prev] = mp,
         NEW new, new = LinkedFor(links, prev, mp, f)
  PROVE  /\ new \in Linking(D) /\ Single(new) /\ Acyclic(new)
         /\ \A i, j \in D \ {f} : j \in Reach(links, i) =>
              (IF j = mp THEN f ELSE j) \in Reach(new, IF i = mp THEN f ELSE i)
<1>1. DOMAIN links = D /\ DOMAIN new = D /\ \A i \in D : links[i] \in D \cup {Nowhere}
  BY DEF Linking, LinkedAfter, LinkedFor
<1>2. prev # mp /\ prev # f /\ links[mp] # f /\ links[mp] # mp
  <2>1. links[mp] # mp
    BY <1>1 DEF Acyclic
  <2>. QED  BY <1>1, <2>1
<1>3. /\ new[prev] = f /\ new[f] = links[mp] /\ new[mp] = Nowhere
      /\ \A i \in D \ {prev, f, mp} : new[i] = links[i] /\ links[i] # mp
  BY <1>1, <1>2 DEF Single, LinkedFor
<1>4. new \in Linking(D)
  BY <1>1 DEF Linking, LinkedFor
<1>5. Single(new)
  BY <1>1, <1>2, <1>3 DEF Single
<1>6. Acyclic(new)
  <2>1. PICK rank \in [D -> Int] : \A i \in D : links[i] # Nowhere => rank[links[i]] < rank[i]
    BY <1>1 DEF Acyclic
  <2> DEFINE r == [rank EXCEPT ![f] = rank[mp]]
  <2>2. r \in [D -> Int] /\ r[f] = rank[mp] /\ \A x \in D \ {f} : r[x] = rank[x]
    OBVIOUS
  <2>. HIDE DEF r
  <2>3. ASSUME NEW i \in D, new[i] # Nowhere
        PROVE  r[new[i]] < r[i]
    <3>1. CASE i = prev
      BY <3>1, <1>2, <1>3, <2>1, <2>2
    <3>2. CASE i = f
      BY <3>2, <1>1, <1>2, <1>3, <2>1, <2>2, <2>3
    <3>3. CASE i \in D \ {prev, f, mp}
      <4>1. new[i] = links[i] /\ links[i] \in D /\ links[i] # f
        BY <3>3, <1>1, <1>3, <2>3
      <4>. QED  BY <4>1, <3>3, <2>1, <2>2, <2>3
    <3>. QED  BY <3>1, <3>2, <3>3, <1>3, <2>3
  <2>. QED  BY <1>1, <2>2, <2>3 DEF Acyclic
<1>7. ASSUME NEW i \in D \ {f}, NEW j \in D \ {f}, j \in Reach(links, i),
             NEW S \in SUBSET D, \A x \in S : new[x] # Nowhere => new[x] \in S,
             (IF i = mp THEN f ELSE i) \in S
      PROVE  (IF j = mp THEN f ELSE j) \in S
  <2> DEFINE T == {x \in D : IF x = mp THEN f \in S ELSE x \in S /\ x # f}
  <2>1. ASSUME NEW x \in T, links[x] # Nowhere
        PROVE  links[x] \in T
    <3>1. links[x] \in D /\ links[x] # f
      BY <1>1, <2>1
    <3>2. CASE x = mp
      BY <3>1, <3>2, <1>2, <1>3, <1>7, <2>1
    <3>3. CASE x = prev
      <4>1. prev \in S
        BY <3>3, <1>2, <2>1
      <4>2. f \in S
        BY <4>1, <1>3, <1>7, <1>1
      <4>. QED  BY <4>2, <3>3
    <3>4. CASE x \in D \ {prev, mp}
      <4>1. x \in S /\ x # f /\ new[x] = links[x] /\ links[x] # mp
        BY <3>4, <1>3, <2>1
      <4>. QED  BY <4>1, <3>1, <1>7, <2>1
    <3>. QED  BY <3>2, <3>3, <3>4
  <2>2. T \in SUBSET D /\ i \in T
    BY <1>7
  <2>3. Reach(links, i) \subseteq T
    <3>. HIDE DEF T
    <3>. QED  BY <2>1, <2>2, ReachLeast
  <2>. QED  BY <2>3, <1>7
<1>8. ASSUME NEW i \in D \ {f}, NEW j \in D \ {f}, j \in Reach(links, i)
      PROVE  (IF j = mp THEN f ELSE j) \in Reach(new, IF i = mp THEN f ELSE i)
  <2>1. (IF j = mp THEN f ELSE j) \in D
    OBVIOUS
  <2>. QED  BY <2>1, <1>1, <1>7, <1>8 DEF Reach
<1>. QED  BY <1>4, <1>5, <1>6, <1>8

-----------------------------------------------------------------------------
(* Sound tables *)

Home(t, i) == mainposition(t, t.node[i].key)

\* Free nodes are below lastfree.
FreeRight(t) ==
  \A i \in DOMAIN t.node : t.node[i].key = Nil => i < t.lastfree /\ t.node[i] = FreeNode

LinksRight(t) ==
  /\ Single(Links(t)) /\ Acyclic(Links(t))
  /\ \A i \in DOMAIN t.node : Links(t)[i] # Nowhere => Links(t)[i] \in Used(t)

\* A key's main position is taken, by a key that is in its own, and leads to the key.
HomesRight(t) ==
  \A i \in Used(t) :
    /\ Home(t, i) \in Used(t) /\ Home(t, Home(t, i)) = Home(t, i)
    /\ i \in Reach(Links(t), Home(t, i))

\* A key is in one node, and in nodes behind it in which it is dead.
FirstsRight(t) ==
  \A i, j \in Used(t) :
    t.node[i].key = t.node[j].key /\ ~t.node[i].dead /\ i # j =>
      t.node[j].dead /\ j \in Reach(Links(t), i)

KeysRight(t) ==
  \A i \in Used(t) :
    (t.node[i].dead => t.node[i].val = Nil) /\ t.node[i].key \notin 1..Len(t.array)

Sound(t) ==
  /\ Size(t) \in {0} \cup PowersOfTwo /\ Size(t) \in Nat /\ t \in TableSet(Size(t))
  /\ FreeRight(t) /\ LinksRight(t) /\ HomesRight(t) /\ FirstsRight(t) /\ KeysRight(t)

\* A search finds the one node where the key is alive.
LEMMA FindIs ==
  ASSUME NEW t, Sound(t), hash \in [Names -> Nat], NEW k \in KeySet
  PROVE  /\ \A i \in DOMAIN t.node :
              t.node[i].key = k /\ ~t.node[i].dead => Find(t, k) = i
         /\ Find(t, k) # Nowhere =>
              /\ Find(t, k) \in DOMAIN t.node
              /\ t.node[Find(t, k)].key = k /\ ~t.node[Find(t, k)].dead
<1> DEFINE N == Size(t)
           S == {i \in Places(t, k) : ~t.node[i].dead}
           h == mainposition(t, k)
<1>1. N \in Nat /\ t \in TableSet(N) /\ DOMAIN t.node = 0..(N - 1) /\ k # Nil
  BY TableIs, KeysDiffer DEF Sound
<1>2. S \in SUBSET (0..(N - 1)) /\ Find(t, k) = Search(t, k, S)
  BY <1>1 DEF Find, Places
<1>3. IF N = 0 \/ S \cap Reach(Links(t), h) = {} THEN Find(t, k) = Nowhere
      ELSE Find(t, k) \in S
  <2>. HIDE DEF S, N, h
  <2>1. hash \in [Names -> Nat]
    OBVIOUS
  <2>2. LET r == Search(t, k, S)
        IN  IF N = 0 \/ S \cap Reach(Links(t), mainposition(t, k)) = {} THEN r = Nowhere
            ELSE r \in S \cap Reach(Links(t), mainposition(t, k))
    BY <1>1, <1>2, <2>1, SearchIs
  <2>. QED  BY <2>2, <1>2 DEF h
<1>4. \A i \in S : N # 0 /\ i \in Used(t) /\ i \in Reach(Links(t), h)
  BY <1>1 DEF Sound, HomesRight, Used, Home, Places
<1>5. \A i, j \in S : i = j
  BY <1>4 DEF Sound, FirstsRight, Places
<1>. QED
  <2>1. \A i \in S : Find(t, k) = i
    <3>. HIDE DEF S, N
    <3>. QED  BY <1>3, <1>4, <1>5
  <2>2. Find(t, k) # Nowhere => Find(t, k) \in S
    <3>. HIDE DEF S, N
    <3>. QED  BY <1>3
  <2>. QED  BY <2>1, <2>2 DEF Places

\* What a key has: what is in the live node with the key, if there is one.
LEMMA GetIs ==
  ASSUME NEW t, Sound(t), hash \in [Names -> Nat], NEW k \in KeySet
  PROVE  /\ InArray(t, k) => luaH_get(t, k) = t.array[k]
         /\ \A i \in DOMAIN t.node :
              t.node[i].key = k /\ Live(t.node[i]) => luaH_get(t, k) = t.node[i].val
         /\ ~InArray(t, k) /\ luaH_get(t, k) # Nil =>
              \E i \in DOMAIN t.node : t.node[i].key = k /\ Live(t.node[i])
<1>1. ASSUME NEW i \in DOMAIN t.node, t.node[i].key = k, Live(t.node[i])
      PROVE  luaH_get(t, k) = t.node[i].val
  <2>1. i \in Used(t) /\ ~t.node[i].dead /\ ~InArray(t, k)
    <3>1. i \in Used(t)
      BY <1>1, KeysDiffer DEF Used
    <3>2. Size(t) \in Nat /\ t \in TableSet(Size(t))
      BY DEF Sound
    <3>3. DOMAIN t.array = 1..Len(t.array)
      BY <3>2, TableIs
    <3>. QED  BY <1>1, <3>1, <3>3 DEF Sound, KeysRight, InArray, Live
  <2>2. Find(t, k) = i
    BY <1>1, <2>1, FindIs
  <2>3. i # Nowhere
    BY TableIs DEF Sound, Nowhere
  <2>. QED  BY <2>1, <2>2, <2>3 DEF luaH_get
<1>2. ASSUME ~InArray(t, k), luaH_get(t, k) # Nil
      PROVE  \E i \in DOMAIN t.node : t.node[i].key = k /\ Live(t.node[i])
  <2>1. Find(t, k) # Nowhere /\ luaH_get(t, k) = t.node[Find(t, k)].val
    BY <1>2 DEF luaH_get
  <2>. QED  BY <1>2, <2>1, FindIs DEF Live
<1>. QED  BY <1>1, <1>2 DEF luaH_get

-----------------------------------------------------------------------------
(* Insertion *)

\* The main position depends on nothing but the number of nodes.
LEMMA MainSame ==
  ASSUME NEW t, NEW u, DOMAIN u.node = DOMAIN t.node, NEW k
  PROVE  mainposition(u, k) = mainposition(t, k)
BY DEF mainposition, Size

\* The value of a key that is in live nodes before and after with that value is as before.
LEMMA GetSame ==
  ASSUME NEW t, NEW u, Sound(t), Sound(u), hash \in [Names -> Nat], NEW x \in KeySet,
         InArray(t, x) <=> InArray(u, x), InArray(t, x) => u.array[x] = t.array[x],
         \A i \in DOMAIN t.node : t.node[i].key = x /\ Live(t.node[i]) =>
            \E j \in DOMAIN u.node : u.node[j].key = x /\ u.node[j].val = t.node[i].val,
         \A j \in DOMAIN u.node : u.node[j].key = x /\ Live(u.node[j]) =>
            \E i \in DOMAIN t.node : t.node[i].key = x /\ Live(t.node[i])
  PROVE  luaH_get(u, x) = luaH_get(t, x)
<1>1. CASE InArray(t, x)
  BY <1>1, GetIs
<1>2. CASE ~InArray(t, x) /\ luaH_get(t, x) # Nil
  <2>1. PICK i \in DOMAIN t.node : t.node[i].key = x /\ Live(t.node[i])
    BY <1>2, GetIs
  <2>2. PICK j \in DOMAIN u.node : u.node[j].key = x /\ u.node[j].val = t.node[i].val
    BY <2>1
  <2>3. luaH_get(t, x) = t.node[i].val
    BY <2>1, GetIs
  <2>4. luaH_get(u, x) = u.node[j].val
    BY <2>1, <2>2, GetIs DEF Live
  <2>. QED  BY <2>2, <2>3, <2>4
<1>3. CASE ~InArray(t, x) /\ luaH_get(t, x) = Nil
  <2>1. ASSUME luaH_get(u, x) # Nil
        PROVE  FALSE
    <3>1. PICK j \in DOMAIN u.node : u.node[j].key = x /\ Live(u.node[j])
      BY <1>3, <2>1, GetIs
    <3>2. PICK i \in DOMAIN t.node : t.node[i].key = x /\ Live(t.node[i])
      BY <3>1
    <3>. QED  BY <1>3, <3>2, GetIs DEF Live
  <2>. QED  BY <1>3, <2>1
<1>. QED  BY <1>1, <1>2, <1>3

\* That u is t with the value v for k: in the same nodes, or in these and one more.
Assigned(t, u, k, v) ==
  /\ Sound(u) /\ Size(u) = Size(t) /\ Len(u.array) = Len(t.array)
  /\ \E p : Used(u) \subseteq Used(t) \cup {p}
  /\ \A x \in KeySet : luaH_get(u, x) = IF x = k THEN v ELSE luaH_get(t, x)

\* What getfreepos returns.
LEMMA FreeIs ==
  ASSUME NEW t, Sound(t)
  PROVE  LET f == getfreepos(t)
         IN  /\ f = Nowhere => Used(t) = DOMAIN t.node
             /\ f # Nowhere =>
                  /\ f \in DOMAIN t.node /\ f < t.lastfree /\ t.node[f] = FreeNode
                  /\ \A i \in DOMAIN t.node : t.node[i].key = Nil => i <= f
                  /\ \A i \in DOMAIN t.node : Links(t)[i] # f
                  /\ Links(t)[f] = Nowhere
<1> DEFINE N == Size(t)
           S == {i \in 0..(t.lastfree - 1) : t.node[i].key = Nil} \cup {Nowhere}
           f == getfreepos(t)
<1>1. /\ N \in Nat /\ DOMAIN t.node = 0..(N - 1) /\ t.lastfree \in 0..N
      /\ \A i \in 0..(N - 1) : Links(t)[i] = t.node[i].next
  BY TableIs DEF Sound
<1>2. f \in S /\ \A i \in S : i <= f
  <2>1. S \subseteq Int /\ S # {} /\ N \in Int /\ \A i \in S : i <= N
    BY <1>1 DEF Nowhere
  <2>2. f = Max(S)
    BY DEF getfreepos
  <2>. HIDE DEF S, N
  <2>. QED  BY <2>1, <2>2, MaxIs
<1>3. ASSUME NEW i \in DOMAIN t.node, t.node[i].key = Nil
      PROVE  i \in S /\ t.node[i] = FreeNode
  BY <1>1, <1>3 DEF Sound, FreeRight
<1>4. ASSUME f # Nowhere
      PROVE  f \in DOMAIN t.node /\ f < t.lastfree /\ t.node[f].key = Nil
  BY <1>1, <1>2, <1>4
<1>5. f = Nowhere => Used(t) = DOMAIN t.node
  <2>. HIDE DEF S
  <2>1. ASSUME f = Nowhere, NEW i \in DOMAIN t.node, t.node[i].key = Nil
        PROVE  FALSE
    <3>1. i <= Nowhere
      BY <1>2, <1>3, <2>1
    <3>. QED  BY <1>1, <3>1 DEF Nowhere
  <2>. QED  BY <2>1 DEF Used
<1>6. ASSUME f # Nowhere
      PROVE  /\ \A i \in DOMAIN t.node : t.node[i].key = Nil => i <= f
             /\ \A i \in DOMAIN t.node : Links(t)[i] # f
             /\ Links(t)[f] = Nowhere
  <2>1. \A i \in DOMAIN t.node : t.node[i].key = Nil => i <= f
    <3>. HIDE DEF S, f
    <3>. QED  BY <1>2, <1>3
  <2>2. \A i \in DOMAIN t.node : Links(t)[i] # f
    BY <1>4, <1>6 DEF Sound, LinksRight, Used
  <2>3. Links(t)[f] = Nowhere
    BY <1>1, <1>3, <1>4, <1>6 DEF FreeNode
  <2>. QED  BY <2>1, <2>2, <2>3
<1>. HIDE DEF f
<1>. QED  BY <1>3, <1>4, <1>5, <1>6 DEF f

\* When a node has k and v and the other keys are in live nodes with the values they had.
LEMMA AssignsTo ==
  ASSUME NEW t, NEW u, Sound(t), Sound(u), hash \in [Names -> Nat],
         NEW k \in KeySet, NEW v \in Value, ~InArray(t, k),
         Size(u) = Size(t), u.array = t.array,
         NEW p \in DOMAIN t.node, Used(u) \subseteq Used(t) \cup {p},
         NEW q \in DOMAIN u.node, u.node[q].key = k, ~u.node[q].dead, u.node[q].val = v,
         \A i \in DOMAIN t.node : t.node[i].key # k /\ Live(t.node[i]) =>
            \E j \in DOMAIN u.node :
              u.node[j].key = t.node[i].key /\ u.node[j].val = t.node[i].val,
         \A j \in DOMAIN u.node : u.node[j].key # k /\ Live(u.node[j]) =>
            \E i \in DOMAIN t.node : t.node[i].key = u.node[j].key /\ Live(t.node[i])
  PROVE  Assigned(t, u, k, v)
<1>1. ASSUME NEW x \in KeySet, x = k
      PROVE  luaH_get(u, x) = v
  <2>1. Find(u, k) = q
    BY FindIs
  <2>2. q # Nowhere
    BY TableIs DEF Sound, Nowhere
  <2>. QED  BY <1>1, <2>1, <2>2 DEF luaH_get, InArray
<1>2. ASSUME NEW x \in KeySet, x # k
      PROVE  luaH_get(u, x) = luaH_get(t, x)
  <2>1. \A i \in DOMAIN t.node : t.node[i].key = x /\ Live(t.node[i]) =>
          \E j \in DOMAIN u.node : u.node[j].key = x /\ u.node[j].val = t.node[i].val
    BY <1>2
  <2>2. \A j \in DOMAIN u.node : u.node[j].key = x /\ Live(u.node[j]) =>
          \E i \in DOMAIN t.node : t.node[i].key = x /\ Live(t.node[i])
    BY <1>2
  <2>3. /\ InArray(t, x) <=> InArray(u, x)
        /\ InArray(t, x) => u.array[x] = t.array[x]
    BY DEF InArray
  <2>. QED  BY <2>1, <2>2, <2>3, GetSame
<1>. QED  BY <1>1, <1>2 DEF Assigned

\* A key is put in its main position, in the chain in which the node is.
LEMMA InsertsInPlace ==
  ASSUME NEW t, Sound(t), hash \in [Names -> Nat], NEW k \in KeySet, NEW v \in Value,
         ~Present(t, k), Size(t) # 0, NEW mp, mp = mainposition(t, k), ~Live(t.node[mp]),
         NEW u, u = [t EXCEPT !.node[mp] = [NewNode(k, v) EXCEPT !.next = t.node[mp].next]]
  PROVE  Assigned(t, u, k, v)
<1> DEFINE N == Size(t)
           D == 0..(N - 1)
<1>1. /\ N \in Nat \ {0} /\ t \in TableSet(N) /\ DOMAIN t.node = D /\ mp \in D
      /\ \A i \in D : t.node[i] \in NodeSet(N)
      /\ \A i \in D : Links(t)[i] = t.node[i].next
      /\ DOMAIN t.array = 1..Len(t.array)
  BY TableIs, MainIs DEF Sound
<1>2. /\ u.array = t.array /\ u.lastfree = t.lastfree /\ DOMAIN u.node = D
      /\ u.node[mp] = [key |-> k, dead |-> FALSE, val |-> v, next |-> t.node[mp].next]
      /\ \A i \in D \ {mp} : u.node[i] = t.node[i]
  BY <1>1 DEF TableSet, NewNode, FreeNode
<1>3. u \in TableSet(N)
  <2>1. u.node[mp] \in NodeSet(N)
    <3>1. t.node[mp].next \in {Nowhere} \cup D
      BY <1>1 DEF NodeSet
    <3>2. \A n \in {Nowhere} \cup D : [key |-> k, dead |-> FALSE, val |-> v, next |-> n] \in NodeSet(N)
      BY DEF NodeSet
    <3>. HIDE DEF D, N
    <3>. QED  BY <1>2, <3>1, <3>2
  <2>2. \A i \in D : u.node[i] \in NodeSet(N)
    BY <1>1, <1>2, <2>1
  <2>3. u.node = [i \in D |-> u.node[i]]
    BY <1>1 DEF TableSet
  <2>4. u.node \in [D -> NodeSet(N)]
    BY <2>2, <2>3
  <2>5. u = [array |-> u.array, node |-> u.node, lastfree |-> u.lastfree]
    BY <1>1 DEF TableSet
  <2>. QED  BY <1>1, <1>2, <2>4, <2>5 DEF TableSet
<1>4. /\ Size(u) = N /\ Links(u) = Links(t) /\ \A x : mainposition(u, x) = mainposition(t, x)
      /\ Links(t) \in Linking(D)
  <2>1. Links(u) = Links(t)
    BY <1>1, <1>2 DEF Links
  <2>2. Size(u) = N
    <3>. HIDE DEF N
    <3>. QED  BY <1>1, <1>3, TableIs
  <2>3. \A x : mainposition(u, x) = mainposition(t, x)
    <3>1. DOMAIN u.node = DOMAIN t.node
      BY <1>1, <1>2
    <3>. QED  BY <3>1, MainSame
  <2>4. Links(t) \in Linking(D)
    BY <1>1, TableIs
  <2>. QED  BY <2>1, <2>2, <2>3, <2>4
<1>. HIDE DEF N, D
<1>5. k # Nil /\ Used(u) = Used(t) \cup {mp} /\ ~InArray(t, k)
  BY <1>1, <1>2, KeysDiffer DEF Used, Present
<1>6. \A i \in DOMAIN t.node : t.node[i].key = k => t.node[i].dead
  <2>1. \A i \in DOMAIN t.node : i # Nowhere
    BY <1>1 DEF D, Nowhere
  <2>. QED  BY <2>1, FindIs DEF Present
<1>7. FreeRight(u)
  BY <1>1, <1>2, <1>5 DEF Sound, FreeRight
<1>8. LinksRight(u)
  BY <1>1, <1>2, <1>4, <1>5 DEF Sound, LinksRight
<1>9. HomesRight(u)
  <2>1. Home(u, mp) = mp /\ mp \in Reach(Links(u), mp)
    BY <1>1, <1>2, <1>4, ReachSelf DEF Home
  <2>2. \A i \in DOMAIN t.node \ {mp} : Home(u, i) = Home(t, i)
    BY <1>1, <1>2, <1>4 DEF Home
  <2>3. Used(t) \subseteq DOMAIN t.node
    BY DEF Used
  <2>. QED  BY <2>1, <2>2, <2>3, <1>4, <1>5 DEF Sound, HomesRight
<1>10. FirstsRight(u)
  <2>1. ASSUME NEW j \in Used(t), j # mp, t.node[j].key = k
        PROVE  u.node[j].dead /\ j \in Reach(Links(u), mp)
    <3>1. Home(t, j) = mp /\ j \in DOMAIN t.node
      BY <2>1 DEF Home, Used
    <3>. QED  BY <2>1, <3>1, <1>1, <1>2, <1>4, <1>6 DEF Sound, HomesRight
  <2>2. Used(t) \subseteq D
    BY <1>1 DEF Used
  <2>. QED  BY <2>1, <2>2, <1>2, <1>4, <1>5, <1>6 DEF Sound, FirstsRight
<1>11. KeysRight(u)
  BY <1>1, <1>2, <1>5 DEF Sound, KeysRight, InArray, Used
<1>12. Sound(u)
  BY <1>1, <1>3, <1>4, <1>7, <1>8, <1>9, <1>10, <1>11 DEF Sound, N
<1>13. /\ \A i \in D : t.node[i].key # k /\ Live(t.node[i]) =>
            \E j \in D : u.node[j].key = t.node[i].key /\ u.node[j].val = t.node[i].val
       /\ \A j \in D : u.node[j].key # k /\ Live(u.node[j]) =>
            \E i \in D : t.node[i].key = u.node[j].key /\ Live(t.node[i])
  BY <1>2
<1>14. u.node[mp].key = k /\ ~u.node[mp].dead /\ u.node[mp].val = v
  BY <1>2
<1>15. Size(u) = Size(t) /\ u.array = t.array /\ Used(u) \subseteq Used(t) \cup {mp}
  BY <1>2, <1>4, <1>5 DEF N
<1>. QED
  <2>1. /\ DOMAIN t.node = D /\ DOMAIN u.node = D /\ mp \in D
    BY <1>1, <1>2
  <2>. QED  BY <2>1, <1>5, <1>12, <1>13, <1>14, <1>15, AssignsTo

\* A node with a key and a value is a node of the type.
LEMMA NodeIn ==
  ASSUME NEW N \in Nat, NEW k \in KeySet, NEW v \in Value, NEW n \in {Nowhere} \cup 0..(N - 1)
  PROVE  [key |-> k, dead |-> FALSE, val |-> v, next |-> n] \in NodeSet(N)
BY DEF NodeSet

\* A node of the type that is chained otherwise is one.
LEMMA NextIn ==
  ASSUME NEW N \in Nat, NEW d \in NodeSet(N), NEW n \in {Nowhere} \cup 0..(N - 1)
  PROVE  [d EXCEPT !.next = n] \in NodeSet(N)
BY DEF NodeSet

\* A table with other nodes of the type is one of the type.
LEMMA TableIn ==
  ASSUME NEW N \in Nat, NEW t \in TableSet(N), NEW f \in 0..N, NEW nodes,
         nodes \in [0..(N - 1) -> NodeSet(N)]
  PROVE  [t EXCEPT !.lastfree = f, !.node = nodes] \in TableSet(N)
BY DEF TableSet

\* An absent key may still be in nodes that are dead.
LEMMA AbsentIs ==
  ASSUME NEW t, Sound(t), hash \in [Names -> Nat], NEW k \in KeySet, ~Present(t, k)
  PROVE  ~InArray(t, k) /\ \A i \in DOMAIN t.node : t.node[i].key = k => t.node[i].dead
<1>1. \A i \in DOMAIN t.node : i # Nowhere
  BY TableIs DEF Sound, Nowhere
<1>. QED  BY <1>1, FindIs DEF Present

\* A key is chained in after its main position, where a key is that is in its own.
LEMMA InsertsAfter ==
  ASSUME NEW t, Sound(t), hash \in [Names -> Nat], NEW k \in KeySet, NEW v \in Value,
         ~Present(t, k), Size(t) # 0, NEW mp, mp = mainposition(t, k), Live(t.node[mp]),
         Home(t, mp) = mp, NEW f, f = getfreepos(t), f # Nowhere,
         NEW u, u = ChainAfter(t, mp, f, k, v)
  PROVE  Assigned(t, u, k, v)
<1> DEFINE N == Size(t)
           D == 0..(N - 1)
<1>1. /\ N \in Nat \ {0} /\ t \in TableSet(N) /\ DOMAIN t.node = D /\ mp \in D
      /\ \A i \in D : t.node[i] \in NodeSet(N)
      /\ \A i \in D : Links(t)[i] = t.node[i].next
      /\ DOMAIN t.array = 1..Len(t.array)
      /\ Links(t) \in Linking(D) /\ t.lastfree \in 0..N /\ Nowhere \notin D
  BY TableIs, MainIs DEF Sound, Nowhere
<1>2. /\ f \in D /\ f < t.lastfree /\ t.node[f] = FreeNode
      /\ \A i \in D : t.node[i].key = Nil => i <= f
      /\ \A i \in D : Links(t)[i] # f
      /\ Links(t)[f] = Nowhere
  BY <1>1, FreeIs
<1>3. mp # f /\ t.node[mp].key # Nil /\ mp \in Used(t)
  BY <1>1, <1>2 DEF Live, FreeNode, Sound, FreeRight, Used
<1>4. /\ u.array = t.array /\ u.lastfree = f /\ DOMAIN u.node = D
      /\ u.node[f] = [key |-> k, dead |-> FALSE, val |-> v, next |-> t.node[mp].next]
      /\ u.node[mp] = [t.node[mp] EXCEPT !.next = f]
      /\ \A i \in D \ {mp, f} : u.node[i] = t.node[i]
  BY <1>1, <1>2, <1>3 DEF TableSet, ChainAfter, NewNode, FreeNode
<1>0. u = [t EXCEPT !.lastfree = f, !.node = u.node] /\ u.node = [i \in D |-> u.node[i]]
  BY <1>1, <1>2, <1>3 DEF TableSet, ChainAfter, NewNode, FreeNode
<1>5. /\ u.node[f].key = k /\ ~u.node[f].dead /\ u.node[f].val = v
      /\ u.node[f].next = t.node[mp].next
      /\ u.node[mp].next = f /\ u.node[mp].key = t.node[mp].key
      /\ u.node[mp].dead = t.node[mp].dead /\ u.node[mp].val = t.node[mp].val
  BY <1>1, <1>4 DEF NodeSet
<1>6. u \in TableSet(N)
  <2>1. u.node[f] \in NodeSet(N)
    <3>1. t.node[mp].next \in {Nowhere} \cup D
      BY <1>1 DEF NodeSet
    <3>2. [key |-> k, dead |-> FALSE, val |-> v, next |-> t.node[mp].next] \in NodeSet(N)
      <4>. HIDE DEF N
      <4>. QED  BY <1>1, <3>1, NodeIn
    <3>. QED  BY <1>4, <3>2
  <2>2. u.node[mp] \in NodeSet(N)
    <3>1. [t.node[mp] EXCEPT !.next = f] \in NodeSet(N)
      <4>. HIDE DEF N
      <4>. QED  BY <1>1, <1>2, NextIn
    <3>. QED  BY <1>4, <3>1
  <2>3. \A i \in D : u.node[i] \in NodeSet(N)
    BY <1>1, <1>4, <2>1, <2>2
  <2>4. f \in 0..N
    BY <1>1, <1>2
  <2>5. u.node \in [D -> NodeSet(N)]
    BY <1>0, <2>3
  <2>6. [t EXCEPT !.lastfree = f, !.node = u.node] \in TableSet(N)
    <3>. HIDE DEF N
    <3>. QED  BY <1>1, <2>4, <2>5, TableIn
  <2>. QED  BY <1>0, <2>6
<1>7. Size(u) = N /\ \A x : mainposition(u, x) = mainposition(t, x)
  <2>1. Size(u) = N
    <3>. HIDE DEF N
    <3>. QED  BY <1>1, <1>6, TableIs
  <2>2. DOMAIN u.node = DOMAIN t.node
    BY <1>1, <1>4
  <2>. QED  BY <2>1, <2>2, MainSame
<1>8. Links(u) = LinkedAfter(Links(t), mp, f)
  BY <1>1, <1>2, <1>3, <1>4, <1>5 DEF Links, LinkedAfter
<1>. HIDE DEF N, D
<1>9. /\ Links(u) \in Linking(D) /\ Single(Links(u)) /\ Acyclic(Links(u))
      /\ \A i, j \in D \ {f} : j \in Reach(Links(t), i) => j \in Reach(Links(u), i)
      /\ f \in Reach(Links(u), mp)
      /\ \A j \in Reach(Links(t), mp) : j # mp => j \in Reach(Links(u), f)
  <2>1. Single(Links(t)) /\ Acyclic(Links(t))
    BY DEF Sound, LinksRight
  <2>2. Links(t) \in Linking(D) /\ Nowhere \notin D /\ mp \in D
    BY <1>1
  <2>3. f \in D /\ f # mp /\ Links(t)[f] = Nowhere /\ \A i \in D : Links(t)[i] # f
    BY <1>2, <1>3
  <2>. QED  BY <2>1, <2>2, <2>3, <1>8, LinkAfter
<1>10. /\ k # Nil /\ Used(u) = Used(t) \cup {f} /\ f \notin Used(t) /\ ~InArray(t, k)
       /\ \A i \in D : t.node[i].key = k => t.node[i].dead
  <2>1. k # Nil /\ ~InArray(t, k) /\ \A i \in D : t.node[i].key = k => t.node[i].dead
    BY <1>1, KeysDiffer, AbsentIs
  <2>2. f \notin Used(t)
    BY <1>2 DEF Used, FreeNode
  <2>3. Used(u) = Used(t) \cup {f}
    <3>1. \A i \in D \ {f} : u.node[i].key = t.node[i].key
      BY <1>4, <1>5
    <3>. QED  BY <3>1, <1>1, <1>2, <1>4, <1>5, <2>1 DEF Used
  <2>. QED  BY <2>1, <2>2, <2>3
<1>11. FreeRight(u)
  <2>1. ASSUME NEW i \in D, u.node[i].key = Nil
        PROVE  i < f /\ u.node[i] = FreeNode
    <3>1. i # f /\ i # mp
      BY <2>1, <1>3, <1>4, <1>5, <1>10
    <3>2. u.node[i] = t.node[i] /\ i <= f
      BY <2>1, <3>1, <1>2, <1>4
    <3>3. t.node[i].key = Nil
      BY <2>1, <3>2
    <3>4. t.node[i] = FreeNode
      BY <3>3, <1>1 DEF Sound, FreeRight
    <3>5. f \in D
      BY <1>2
    <3>6. i \in Int /\ f \in Int
      BY <3>5 DEF D
    <3>. QED  BY <3>1, <3>2, <3>4, <3>6
  <2>. QED  BY <2>1, <1>4 DEF FreeRight
<1>12. LinksRight(u)
  <2>1. ASSUME NEW i \in D, Links(u)[i] # Nowhere
        PROVE  Links(u)[i] \in Used(u)
    <3>1. Links(t)[i] # Nowhere => Links(t)[i] \in Used(t)
      BY <1>1 DEF Sound, LinksRight
    <3>2. Links(t)[mp] # Nowhere => Links(t)[mp] \in Used(t)
      BY <1>1 DEF Sound, LinksRight
    <3>3. DOMAIN Links(t) = D
      BY <1>1 DEF Linking
    <3>. QED  BY <2>1, <3>1, <3>2, <3>3, <1>2, <1>8, <1>10 DEF LinkedAfter
  <2>. QED  BY <2>1, <1>4, <1>9 DEF LinksRight
<1>13. Used(t) \subseteq D \ {f} /\ \A i \in Used(t) : u.node[i].key = t.node[i].key
  BY <1>1, <1>4, <1>5, <1>10 DEF Used
<1>14. \A i \in Used(t) : Home(u, i) = Home(t, i)
  BY <1>7, <1>13 DEF Home
<1>15. HomesRight(u)
  <2>1. Home(u, f) = mp
    BY <1>5, <1>7 DEF Home
  <2>2. \A i \in Used(t) : Home(t, i) \in Used(t) /\ Home(t, Home(t, i)) = Home(t, i)
                           /\ i \in Reach(Links(t), Home(t, i))
    BY DEF Sound, HomesRight
  <2>3. \A i \in Used(t) : i \in Reach(Links(u), Home(t, i))
    BY <2>2, <1>9, <1>13
  <2>. QED  BY <2>1, <2>2, <2>3, <1>3, <1>9, <1>10, <1>14 DEF HomesRight
<1>16. FirstsRight(u)
  <2>1. ASSUME NEW j \in Used(t), t.node[j].key = k
        PROVE  u.node[j].dead /\ j \in Reach(Links(u), f)
    <3>1. t.node[j].dead
      BY <1>10, <1>13, <2>1
    <3>2. j # mp
      BY <3>1, <1>3 DEF Sound, KeysRight, Live
    <3>3. j \in Reach(Links(t), mp)
      BY <2>1 DEF Sound, HomesRight, Home
    <3>. QED  BY <3>1, <3>2, <3>3, <1>4, <1>9, <1>13
  <2>2. \A i \in Used(t) : u.node[i].dead = t.node[i].dead
    BY <1>4, <1>5, <1>13
  <2>3. u.node[f].key = k
    BY <1>5
  <2>4. ASSUME NEW i \in Used(t), NEW j \in Used(t), i # j,
               u.node[i].key = u.node[j].key, ~u.node[i].dead
        PROVE  u.node[j].dead /\ j \in Reach(Links(u), i)
    BY <2>2, <2>4, <1>9, <1>13 DEF Sound, FirstsRight
  <2>. QED  BY <2>1, <2>2, <2>3, <2>4, <1>10, <1>13 DEF FirstsRight
<1>17. KeysRight(u)
  <2>1. \A i \in Used(t) : u.node[i].dead = t.node[i].dead /\ u.node[i].val = t.node[i].val
    BY <1>4, <1>5, <1>13
  <2>2. u.node[f].key = k /\ ~u.node[f].dead /\ k \notin 1..Len(u.array)
    BY <1>1, <1>4, <1>5, <1>10 DEF InArray
  <2>. QED  BY <2>1, <2>2, <1>4, <1>10, <1>13 DEF Sound, KeysRight
<1>18. Sound(u)
  BY <1>1, <1>6, <1>7, <1>9, <1>11, <1>12, <1>15, <1>16, <1>17 DEF Sound, N
<1>19. /\ \A i \in D : t.node[i].key # k /\ Live(t.node[i]) =>
            \E j \in D : u.node[j].key = t.node[i].key /\ u.node[j].val = t.node[i].val
       /\ \A j \in D : u.node[j].key # k /\ Live(u.node[j]) =>
            \E i \in D : t.node[i].key = u.node[j].key /\ Live(t.node[i])
  <2>1. ~Live(t.node[f])
    BY <1>2 DEF Live, FreeNode
  <2>2. u.node[f].key = k
    BY <1>5
  <2>3. \A i \in D \ {f} : u.node[i].key = t.node[i].key /\ u.node[i].val = t.node[i].val
    BY <1>4, <1>5
  <2>. QED  BY <2>1, <2>2, <2>3 DEF Live
<1>20. u.node[f].key = k /\ ~u.node[f].dead /\ u.node[f].val = v
  BY <1>5
<1>21. Size(u) = Size(t) /\ u.array = t.array /\ Used(u) \subseteq Used(t) \cup {f}
  BY <1>4, <1>7, <1>10 DEF N
<1>. QED
  <2>1. DOMAIN t.node = D /\ DOMAIN u.node = D /\ f \in D
    BY <1>1, <1>2, <1>4
  <2>. QED  BY <2>1, <1>10, <1>18, <1>19, <1>20, <1>21, AssignsTo

\* A new node: at the end of a chain.
LEMMA NewNodeIs ==
  ASSUME NEW k, NEW v
  PROVE  NewNode(k, v) = [key |-> k, dead |-> FALSE, val |-> v, next |-> Nowhere]
<1>1. FreeNode \in [key: {Nil}, dead: {FALSE}, val: {Nil}, next: {Nowhere}]
  BY DEF FreeNode
<1>2. NewNode(k, v) \in [key: {k}, dead: {FALSE}, val: {v}, next: {Nowhere}]
  BY <1>1 DEF NewNode
<1>. QED  BY <1>2

\* The node of which another, in the chain of its key, is the next.
LEMMA PreviousIs ==
  ASSUME NEW t, Sound(t), hash \in [Names -> Nat], NEW mp \in Used(t), Home(t, mp) # mp
  PROVE  \E i \in DOMAIN t.node : i \in Range(Chain(t, Home(t, mp))) /\ t.node[i].next = mp
<1> DEFINE N == Size(t)
           D == 0..(N - 1)
           h == Home(t, mp)
           w == Walk(Links(t), h, N)
<1>1. /\ N \in Nat /\ t \in TableSet(N) /\ DOMAIN t.node = D
      /\ \A i \in D : Links(t)[i] = t.node[i].next
      /\ Links(t) \in Linking(D) /\ Nowhere \notin D
  BY TableIs DEF Sound, Nowhere
<1>2. h \in D /\ mp \in D /\ mp \in Reach(Links(t), h)
  BY <1>1 DEF Sound, HomesRight, Used
<1>3. Chain(t, h) = w
  BY <1>1, ChainIs
<1>4. PICK n \in 0..N : w[n] = mp
  <2>. HIDE DEF h, w, N
  <2>1. \E n \in 0..N : Walk(Links(t), h, N)[n] = mp
    BY <1>1, <1>2, WalkComes
  <2>. QED  BY <2>1 DEF w
<1>5. /\ DOMAIN w = 0..N /\ w[0] = h
      /\ \A i \in 0..N : w[i] \in D \cup {Nowhere}
      /\ \A i \in 1..N : w[i] = IF w[i - 1] = Nowhere THEN Nowhere ELSE Links(t)[w[i - 1]]
  <2>1. Links(t) \in Linking(D) /\ Nowhere \notin D /\ h \in D /\ N \in Nat
    BY <1>1, <1>2
  <2>. HIDE DEF D, h, w, N
  <2>2. LET walk == Walk(Links(t), h, N)
        IN  /\ DOMAIN walk = 0..N /\ walk[0] = h
            /\ \A i \in 0..N : walk[i] \in D \cup {Nowhere}
            /\ \A i \in 1..N : walk[i] =
                 IF walk[i - 1] = Nowhere THEN Nowhere ELSE Links(t)[walk[i - 1]]
    BY <2>1, WalkIs
  <2>. QED  BY <2>2 DEF w
<1>. HIDE DEF w, h, D
<1>6. n \in 1..N /\ n - 1 \in 0..N
  BY <1>1, <1>4, <1>5 DEF h
<1>7. w[n - 1] \in D /\ t.node[w[n - 1]].next = mp
  BY <1>1, <1>2, <1>4, <1>5, <1>6
<1>8. w[n - 1] \in Range(Chain(t, h))
  BY <1>3, <1>5, <1>6 DEF Range
<1>. QED  BY <1>1, <1>7, <1>8 DEF h

\* The key in the main position is not in its own: it moves, and its chain is led to it.
LEMMA InsertsMoving ==
  ASSUME NEW t, Sound(t), hash \in [Names -> Nat], NEW k \in KeySet, NEW v \in Value,
         ~Present(t, k), Size(t) # 0, NEW mp, mp = mainposition(t, k), Live(t.node[mp]),
         Home(t, mp) # mp, NEW f, f = getfreepos(t), f # Nowhere,
         NEW u, u = MoveAway(t, mp, f, k, v)
  PROVE  Assigned(t, u, k, v)
<1> DEFINE N == Size(t)
           D == 0..(N - 1)
           h == Home(t, mp)
           prev == CHOOSE i \in DOMAIN t.node :
                     i \in Range(Chain(t, h)) /\ t.node[i].next = mp
<1>1. /\ N \in Nat \ {0} /\ t \in TableSet(N) /\ DOMAIN t.node = D /\ mp \in D
      /\ \A i \in D : t.node[i] \in NodeSet(N)
      /\ \A i \in D : Links(t)[i] = t.node[i].next
      /\ DOMAIN t.array = 1..Len(t.array)
      /\ Links(t) \in Linking(D) /\ t.lastfree \in 0..N /\ Nowhere \notin D
  BY TableIs, MainIs DEF Sound, Nowhere
<1>2. /\ f \in D /\ f < t.lastfree /\ t.node[f] = FreeNode
      /\ \A i \in D : t.node[i].key = Nil => i <= f
      /\ \A i \in D : Links(t)[i] # f
      /\ Links(t)[f] = Nowhere
  BY <1>1, FreeIs
<1>3. mp # f /\ t.node[mp].key # Nil /\ mp \in Used(t)
  BY <1>1, <1>2 DEF Live, FreeNode, Sound, FreeRight, Used
<1>4. /\ prev \in D /\ t.node[prev].next = mp /\ Links(t)[prev] = mp
      /\ h = mainposition(t, t.node[mp].key)
  <2>1. \E i \in DOMAIN t.node : i \in Range(Chain(t, h)) /\ t.node[i].next = mp
    BY <1>3, PreviousIs
  <2>. HIDE DEF h, D
  <2>2. prev \in DOMAIN t.node /\ t.node[prev].next = mp
    BY <2>1
  <2>. QED  BY <2>2, <1>1 DEF h, Home
<1>5. u = [t EXCEPT !.lastfree = f, !.node[prev].next = f,
                    !.node[f] = t.node[mp], !.node[mp] = NewNode(k, v)]
  BY DEF MoveAway, Home
<1>. HIDE DEF prev
<1>6. prev # mp /\ prev # f
  <2>1. Links(t)[mp] # mp
    <3>1. Acyclic(Links(t)) /\ DOMAIN Links(t) = D
      BY <1>1 DEF Sound, LinksRight, Linking
    <3>. QED  BY <3>1, <1>1 DEF Acyclic
  <2>. QED  BY <2>1, <1>1, <1>2, <1>4
<1>7. /\ u.array = t.array /\ u.lastfree = f /\ DOMAIN u.node = D
      /\ u.node[f] = t.node[mp]
      /\ u.node[mp] = [key |-> k, dead |-> FALSE, val |-> v, next |-> Nowhere]
      /\ u.node[prev] = [t.node[prev] EXCEPT !.next = f]
      /\ \A i \in D \ {mp, f, prev} : u.node[i] = t.node[i]
  <2>1. /\ u.array = t.array /\ u.lastfree = f
        /\ u.node = [t.node EXCEPT ![prev].next = f, ![f] = t.node[mp], ![mp] = NewNode(k, v)]
    BY <1>1, <1>5 DEF TableSet
  <2>2. NewNode(k, v) = [key |-> k, dead |-> FALSE, val |-> v, next |-> Nowhere]
    BY NewNodeIs
  <2>. HIDE DEF D
  <2>. QED  BY <2>1, <2>2, <1>1, <1>2, <1>3, <1>4, <1>6
<1>8. u = [t EXCEPT !.lastfree = f, !.node = u.node] /\ u.node = [i \in D |-> u.node[i]]
  BY <1>1, <1>2, <1>3, <1>4, <1>5, <1>6 DEF TableSet, NewNode, FreeNode
<1>9. /\ u.node[mp].key = k /\ ~u.node[mp].dead /\ u.node[mp].val = v
      /\ u.node[mp].next = Nowhere
      /\ u.node[prev].next = f /\ u.node[prev].key = t.node[prev].key
      /\ u.node[prev].dead = t.node[prev].dead /\ u.node[prev].val = t.node[prev].val
  BY <1>1, <1>4, <1>7 DEF NodeSet
<1>10. u \in TableSet(N)
  <2>1. u.node[mp] \in NodeSet(N)
    <3>1. [key |-> k, dead |-> FALSE, val |-> v, next |-> Nowhere] \in NodeSet(N)
      <4>. HIDE DEF N
      <4>. QED  BY <1>1, NodeIn
    <3>. QED  BY <1>7, <3>1
  <2>2. u.node[prev] \in NodeSet(N)
    <3>1. [t.node[prev] EXCEPT !.next = f] \in NodeSet(N)
      <4>. HIDE DEF N
      <4>. QED  BY <1>1, <1>2, <1>4, NextIn
    <3>. QED  BY <1>7, <3>1
  <2>3. \A i \in D : u.node[i] \in NodeSet(N)
    BY <1>1, <1>7, <2>1, <2>2
  <2>4. f \in 0..N
    BY <1>1, <1>2
  <2>5. u.node \in [D -> NodeSet(N)]
    BY <1>8, <2>3
  <2>6. [t EXCEPT !.lastfree = f, !.node = u.node] \in TableSet(N)
    <3>. HIDE DEF N
    <3>. QED  BY <1>1, <2>4, <2>5, TableIn
  <2>. QED  BY <1>8, <2>6
<1>11. Size(u) = N /\ \A x : mainposition(u, x) = mainposition(t, x)
  <2>1. Size(u) = N
    <3>. HIDE DEF N
    <3>. QED  BY <1>1, <1>10, TableIs
  <2>2. DOMAIN u.node = DOMAIN t.node
    BY <1>1, <1>7
  <2>. QED  BY <2>1, <2>2, MainSame
<1>12. Links(u) = LinkedFor(Links(t), prev, mp, f)
  BY <1>1, <1>2, <1>3, <1>4, <1>6, <1>7, <1>9 DEF Links, LinkedFor
<1>. HIDE DEF N, D, h
<1>. DEFINE To(i) == IF i = mp THEN f ELSE i
<1>13. /\ Links(u) \in Linking(D) /\ Single(Links(u)) /\ Acyclic(Links(u))
       /\ \A i, j \in D \ {f} : j \in Reach(Links(t), i) => To(j) \in Reach(Links(u), To(i))
  <2>1. Single(Links(t)) /\ Acyclic(Links(t))
    BY DEF Sound, LinksRight
  <2>2. Links(t) \in Linking(D) /\ Nowhere \notin D /\ mp \in D
    BY <1>1
  <2>3. f \in D /\ f # mp /\ Links(t)[f] = Nowhere /\ \A i \in D : Links(t)[i] # f
    BY <1>2, <1>3
  <2>4. prev \in D /\ Links(t)[prev] = mp
    BY <1>4
  <2>. QED  BY <2>1, <2>2, <2>3, <2>4, <1>12, LinkMove
<1>14. /\ k # Nil /\ f \notin Used(t) /\ ~InArray(t, k) /\ Used(t) \subseteq D \ {f}
       /\ \A i \in D : t.node[i].key = k => t.node[i].dead
  <2>1. k # Nil /\ ~InArray(t, k) /\ \A i \in D : t.node[i].key = k => t.node[i].dead
    BY <1>1, KeysDiffer, AbsentIs
  <2>2. f \notin Used(t) /\ Used(t) \subseteq D
    BY <1>1, <1>2 DEF Used, FreeNode
  <2>. QED  BY <2>1, <2>2
\* The nodes of the table before are those after, but for mp, which holds k.
<1>15. \A i \in D \ {f} : /\ u.node[To(i)].key = t.node[i].key
                          /\ u.node[To(i)].dead = t.node[i].dead
                          /\ u.node[To(i)].val = t.node[i].val
  BY <1>7, <1>9
<1>16. Used(u) = Used(t) \cup {f}
  <2>1. \A i \in D \ {f, mp} : u.node[i].key = t.node[i].key
    BY <1>15
  <2>2. u.node[f].key # Nil /\ u.node[mp].key # Nil
    BY <1>3, <1>7, <1>9, <1>14
  <2>. QED  BY <2>1, <2>2, <1>1, <1>2, <1>3, <1>7 DEF Used
<1>17. \A i \in Used(t) :
         /\ Home(t, i) \in Used(t) /\ Home(t, Home(t, i)) = Home(t, i)
         /\ i \in Reach(Links(t), Home(t, i)) /\ Home(t, i) # mp
  BY DEF Sound, HomesRight
<1>18. \A i \in Used(t) : Home(u, To(i)) = Home(t, i)
  BY <1>11, <1>14, <1>15 DEF Home
<1>19. FreeRight(u)
  <2>1. ASSUME NEW i \in D, u.node[i].key = Nil
        PROVE  i < f /\ u.node[i] = FreeNode
    <3>1. i # f /\ i # mp /\ i # prev
      <4>1. t.node[prev].key # Nil
        BY <1>1, <1>2, <1>4 DEF Sound, FreeRight, FreeNode, D
      <4>. QED  BY <4>1, <2>1, <1>3, <1>7, <1>9, <1>14
    <3>2. u.node[i] = t.node[i] /\ i <= f
      BY <2>1, <3>1, <1>2, <1>7
    <3>. QED  BY <2>1, <3>1, <3>2, <1>1, <1>2 DEF Sound, FreeRight, D
  <2>. QED  BY <2>1, <1>7 DEF FreeRight
<1>20. LinksRight(u)
  <2>1. ASSUME NEW i \in D, Links(u)[i] # Nowhere
        PROVE  Links(u)[i] \in Used(u)
    <3>1. /\ Links(t)[i] # Nowhere => Links(t)[i] \in Used(t)
          /\ Links(t)[mp] # Nowhere => Links(t)[mp] \in Used(t)
      BY <1>1 DEF Sound, LinksRight
    <3>2. DOMAIN Links(t) = D
      BY <1>1 DEF Linking
    <3>. QED  BY <2>1, <3>1, <3>2, <1>2, <1>4, <1>12, <1>16 DEF LinkedFor
  <2>. QED  BY <2>1, <1>7, <1>13 DEF LinksRight
<1>21. HomesRight(u)
  <2>1. Home(u, mp) = mp /\ mp \in Reach(Links(u), mp) /\ mp \in Used(u)
    BY <1>1, <1>3, <1>9, <1>11, <1>13, <1>16, ReachSelf DEF Home
  <2>2. ASSUME NEW i \in Used(t)
        PROVE  /\ Home(u, To(i)) \in Used(u) /\ Home(u, Home(u, To(i))) = Home(u, To(i))
               /\ To(i) \in Reach(Links(u), Home(u, To(i)))
    <3>1. To(Home(t, i)) = Home(t, i)
      BY <1>17
    <3>2. Home(u, Home(t, i)) = Home(t, i)
      BY <3>1, <1>17, <1>18
    <3>3. To(i) \in Reach(Links(u), Home(t, i))
      BY <3>1, <1>13, <1>14, <1>17
    <3>. HIDE DEF To
    <3>. QED  BY <3>2, <3>3, <1>16, <1>17, <1>18
  <2>3. \A j \in Used(u) : j = mp \/ \E i \in Used(t) : j = To(i)
    BY <1>3, <1>16
  <2>. HIDE DEF To
  <2>. QED  BY <2>1, <2>2, <2>3 DEF HomesRight
<1>22. FirstsRight(u)
  <2>1. \A i \in Used(t) : t.node[i].key # k
    BY <1>17 DEF Home
  <2>2. \A j \in Used(u) : j = mp \/ \E i \in Used(t) : j = To(i)
    BY <1>3, <1>16
  <2>3. ASSUME NEW i \in Used(t), NEW j \in Used(t), To(i) # To(j),
               u.node[To(i)].key = u.node[To(j)].key, ~u.node[To(i)].dead
        PROVE  u.node[To(j)].dead /\ To(j) \in Reach(Links(u), To(i))
    <3>1. t.node[i].key = t.node[j].key /\ ~t.node[i].dead /\ i # j
      BY <2>3, <1>14, <1>15
    <3>2. t.node[j].dead /\ j \in Reach(Links(t), i)
      BY <3>1 DEF Sound, FirstsRight
    <3>. QED  BY <3>2, <1>13, <1>14, <1>15
  <2>4. \A i \in Used(t) : u.node[To(i)].key # k
    BY <2>1, <1>14, <1>15
  <2>. HIDE DEF To
  <2>. QED  BY <2>2, <2>3, <2>4, <1>9 DEF FirstsRight
<1>23. KeysRight(u)
  <2>1. \A i \in Used(t) : /\ t.node[i].dead => t.node[i].val = Nil
                           /\ t.node[i].key \notin 1..Len(t.array)
    BY DEF Sound, KeysRight
  <2>2. u.node[mp].key = k /\ ~u.node[mp].dead /\ k \notin 1..Len(u.array)
    BY <1>1, <1>7, <1>9, <1>14 DEF InArray
  <2>3. \A j \in Used(u) : j = mp \/ \E i \in Used(t) : j = To(i)
    BY <1>3, <1>16
  <2>4. \A i \in Used(t) : /\ u.node[To(i)].dead => u.node[To(i)].val = Nil
                           /\ u.node[To(i)].key \notin 1..Len(u.array)
    BY <2>1, <1>7, <1>14, <1>15
  <2>. HIDE DEF To
  <2>. QED  BY <2>2, <2>3, <2>4 DEF KeysRight
<1>24. Sound(u)
  BY <1>1, <1>10, <1>11, <1>13, <1>19, <1>20, <1>21, <1>22, <1>23 DEF Sound, N
<1>25. /\ \A i \in D : t.node[i].key # k /\ Live(t.node[i]) =>
            \E j \in D : u.node[j].key = t.node[i].key /\ u.node[j].val = t.node[i].val
       /\ \A j \in D : u.node[j].key # k /\ Live(u.node[j]) =>
            \E i \in D : t.node[i].key = u.node[j].key /\ Live(t.node[i])
  <2>1. ~Live(t.node[f])
    BY <1>2 DEF Live, FreeNode
  <2>2. \A i \in D \ {f} : To(i) \in D
    BY <1>2
  <2>3. \A j \in D \ {mp} : \E i \in D \ {f} : j = To(i)
    BY <1>1, <1>3
  <2>. HIDE DEF To
  <2>. QED  BY <2>1, <2>2, <2>3, <1>9, <1>15 DEF Live
<1>26. Size(u) = Size(t) /\ u.array = t.array /\ Used(u) \subseteq Used(t) \cup {f}
  BY <1>7, <1>11, <1>16 DEF N
<1>. QED
  <2>1. DOMAIN t.node = D /\ DOMAIN u.node = D /\ f \in D /\ mp \in D
    BY <1>1, <1>2, <1>7
  <2>. QED  BY <2>1, <1>9, <1>14, <1>24, <1>25, <1>26, AssignsTo

\* There is room as long as a node is free.
LEMMA RoomIs ==
  ASSUME NEW t, Sound(t), NEW k, Used(t) # DOMAIN t.node
  PROVE  HasRoom(t, k)
<1>1. t.node # <<>>
  BY DEF Used
<1>. QED  BY <1>1, FreeIs DEF HasRoom

\* A new key is put in the table where there is room.
LEMMA InsertAssigns ==
  ASSUME NEW t, Sound(t), hash \in [Names -> Nat], NEW k \in KeySet, NEW v \in Value,
         ~Present(t, k), HasRoom(t, k)
  PROVE  Assigned(t, Insert(t, k, v), k, v)
<1> DEFINE mp == mainposition(t, k)
           f == getfreepos(t)
<1>1. Size(t) # 0
  BY TableIs DEF HasRoom, Sound
<1>2. CASE ~Live(t.node[mp])
  <2>1. Insert(t, k, v) = [t EXCEPT !.node[mp] = [NewNode(k, v) EXCEPT !.next = t.node[mp].next]]
    BY <1>2 DEF Insert
  <2>. HIDE DEF mp
  <2>. QED  BY <2>1, <1>1, <1>2, InsertsInPlace DEF mp
<1>3. CASE Live(t.node[mp]) /\ Home(t, mp) # mp
  <2>1. Insert(t, k, v) = MoveAway(t, mp, f, k, v) /\ f # Nowhere
    BY <1>3 DEF Insert, HasRoom, Home
  <2>. HIDE DEF mp, f
  <2>. QED  BY <2>1, <1>1, <1>3, InsertsMoving DEF mp, f
<1>4. CASE Live(t.node[mp]) /\ Home(t, mp) = mp
  <2>1. Insert(t, k, v) = ChainAfter(t, mp, f, k, v) /\ f # Nowhere
    BY <1>4 DEF Insert, HasRoom, Home
  <2>. HIDE DEF mp, f
  <2>. QED  BY <2>1, <1>1, <1>4, InsertsAfter DEF mp, f
<1>. QED  BY <1>2, <1>3, <1>4

\* Two tables with the same keys at the same places, if not alive in the same ones.
SameKeys(t, u) ==
  /\ u.lastfree = t.lastfree /\ Len(u.array) = Len(t.array) /\ DOMAIN u.node = DOMAIN t.node
  /\ \A i \in DOMAIN t.node : /\ u.node[i].key = t.node[i].key
                              /\ u.node[i].next = t.node[i].next
                              /\ t.node[i].dead => u.node[i].dead

\* That is enough for all that is said of keys, links and free nodes.
LEMMA SameKeysSound ==
  ASSUME NEW t, NEW u, Sound(t), SameKeys(t, u), u \in TableSet(Size(t)),
         \A i \in DOMAIN t.node : t.node[i] = FreeNode => u.node[i] = FreeNode,
         \A i \in DOMAIN t.node : u.node[i].dead => u.node[i].val = Nil
  PROVE  Sound(u)
<1>1. /\ Size(t) \in Nat /\ t \in TableSet(Size(t)) /\ Size(u) = Size(t)
      /\ DOMAIN t.array = 1..Len(t.array) /\ DOMAIN u.array = 1..Len(u.array)
  BY TableIs DEF Sound
<1>2. Links(u) = Links(t) /\ Used(u) = Used(t)
  BY DEF SameKeys, Links, Used
<1>3. \A x : mainposition(u, x) = mainposition(t, x)
  BY MainSame DEF SameKeys
<1>4. /\ \A i \in Used(t) : Home(t, i) \in Used(t)
      /\ Used(t) \subseteq DOMAIN t.node
      /\ \A i \in DOMAIN t.node : Home(u, i) = Home(t, i)
  BY <1>3 DEF Sound, HomesRight, SameKeys, Home, Used
<1>5. FreeRight(u)
  BY DEF Sound, FreeRight, SameKeys
<1>6. LinksRight(u)
  BY <1>2 DEF Sound, LinksRight, SameKeys
<1>7. HomesRight(u)
  BY <1>2, <1>4 DEF Sound, HomesRight
<1>8. FirstsRight(u)
  BY <1>2, <1>4 DEF Sound, FirstsRight, SameKeys
<1>9. KeysRight(u)
  BY <1>1, <1>2, <1>4 DEF Sound, KeysRight, SameKeys
<1>. QED  BY <1>1, <1>5, <1>6, <1>7, <1>8, <1>9 DEF Sound

\* To overwrite a value leaves the keys at their places.
LEMMA OverwriteSame ==
  ASSUME NEW t, Sound(t), hash \in [Names -> Nat], NEW k \in KeySet, NEW v \in Value,
         Present(t, k)
  PROVE  SameKeys(t, Overwrite(t, k, v)) /\ Overwrite(t, k, v) \in TableSet(Size(t))
<1> DEFINE N == Size(t)
           u == Overwrite(t, k, v)
           p == Find(t, k)
<1>1. /\ N \in Nat /\ t \in TableSet(N) /\ DOMAIN t.node = 0..(N - 1)
      /\ \A i \in 0..(N - 1) : t.node[i] \in NodeSet(N)
      /\ t.array \in Seq(Value) /\ DOMAIN t.array = 1..Len(t.array)
  BY TableIs DEF Sound
<1>2. CASE InArray(t, k)
  <2>1. u = [t EXCEPT !.array[k] = v]
    BY <1>2 DEF Overwrite
  <2>2. u.node = t.node /\ u.lastfree = t.lastfree /\ u.array = [t.array EXCEPT ![k] = v]
    BY <1>1, <2>1 DEF TableSet
  <2>3. u.array \in Seq(Value) /\ Len(u.array) = Len(t.array)
    BY <1>1, <1>2, <2>2 DEF InArray
  <2>. QED  BY <1>1, <2>1, <2>2, <2>3 DEF TableSet, SameKeys
<1>3. CASE ~InArray(t, k)
  <2>0. p \in DOMAIN t.node /\ t.node[p].key = k
    BY <1>3, FindIs DEF Present
  <2>1. u = [t EXCEPT !.node[p].val = v]
    BY <1>3 DEF Overwrite
  <2>. HIDE DEF p, u
  <2>2. /\ u.array = t.array /\ u.lastfree = t.lastfree
        /\ u.node = [t.node EXCEPT ![p].val = v]
    BY <1>1, <2>1 DEF TableSet
  <2>3. \A i \in 0..(N - 1) :
          /\ u.node[i] = IF i = p THEN [t.node[p] EXCEPT !.val = v] ELSE t.node[i]
          /\ u.node[i] \in NodeSet(N)
    <3>1. \A i \in 0..(N - 1) :
            u.node[i] = IF i = p THEN [t.node[p] EXCEPT !.val = v] ELSE t.node[i]
      BY <1>1, <2>0, <2>2
    <3>2. [t.node[p] EXCEPT !.val = v] \in NodeSet(N)
      BY <1>1, <2>0 DEF NodeSet
    <3>. QED  BY <1>1, <3>1, <3>2
  <2>4. u.node \in [0..(N - 1) -> NodeSet(N)]
    BY <1>1, <2>2, <2>3
  <2>5. u \in TableSet(N)
    <3>1. u = [t EXCEPT !.node = u.node]
      BY <1>1, <2>1, <2>2 DEF TableSet
    <3>2. \A m \in [0..(N - 1) -> NodeSet(N)] : [t EXCEPT !.node = m] \in TableSet(N)
      BY <1>1 DEF TableSet
    <3>. HIDE DEF N
    <3>. QED  BY <2>4, <3>1, <3>2
  <2>6. ASSUME NEW i \in 0..(N - 1)
        PROVE  /\ u.node[i].key = t.node[i].key
               /\ u.node[i].next = t.node[i].next /\ u.node[i].dead = t.node[i].dead
    BY <1>1, <2>0, <2>3 DEF NodeSet
  <2>. QED  BY <1>1, <2>2, <2>5, <2>6 DEF SameKeys, u
<1>. QED  BY <1>2, <1>3

\* What has a key with an entry of its own gets the value there.
LEMMA OverwriteAssigns ==
  ASSUME NEW t, Sound(t), hash \in [Names -> Nat], NEW k \in KeySet, NEW v \in Value,
         Present(t, k)
  PROVE  Assigned(t, Overwrite(t, k, v), k, v)
<1> DEFINE N == Size(t)
           D == 0..(N - 1)
           u == Overwrite(t, k, v)
           p == Find(t, k)
<1>1. /\ N \in Nat /\ t \in TableSet(N) /\ DOMAIN t.node = D /\ Nowhere \notin D
      /\ \A i \in D : t.node[i] \in NodeSet(N)
      /\ t.array \in Seq(Value) /\ DOMAIN t.array = 1..Len(t.array) /\ k # Nil
  BY TableIs, KeysDiffer DEF Sound, Nowhere
<1>2. SameKeys(t, u) /\ u \in TableSet(N)
  BY OverwriteSame
<1>3. ~InArray(t, k) => p \in D /\ t.node[p].key = k /\ ~t.node[p].dead
  BY <1>1, FindIs DEF Present
<1>4. /\ InArray(t, k) => u.node = t.node /\ u.array = [t.array EXCEPT ![k] = v]
      /\ ~InArray(t, k) => u.node = [t.node EXCEPT ![p].val = v] /\ u.array = t.array
  BY <1>1 DEF Overwrite, TableSet
<1>. HIDE DEF u, p, D
<1>5. \A i \in D : /\ u.node[i].key = t.node[i].key
                   /\ i # p \/ InArray(t, k) => u.node[i] = t.node[i]
                   /\ u.node[i].dead = t.node[i].dead
                   /\ i = p /\ ~InArray(t, k) => u.node[i].val = v
  BY <1>1, <1>3, <1>4 DEF NodeSet
<1>6. Sound(u)
  <2>1. ASSUME NEW i \in D, t.node[i] = FreeNode
        PROVE  u.node[i] = FreeNode
    BY <2>1, <1>1, <1>3, <1>5 DEF FreeNode
  <2>2. ASSUME NEW i \in D, u.node[i].dead
        PROVE  u.node[i].val = Nil
    <3>1. t.node[i].dead /\ (i # p \/ InArray(t, k))
      BY <2>2, <1>3, <1>5
    <3>2. t.node[i].key # Nil
      BY <3>1, <1>1 DEF Sound, FreeRight, FreeNode
    <3>3. t.node[i].val = Nil
      BY <3>1, <3>2, <1>1 DEF Sound, KeysRight, Used
    <3>. QED  BY <3>1, <3>3, <1>5
  <2>. QED  BY <2>1, <2>2, <1>1, <1>2, SameKeysSound
<1>7. Size(u) = N /\ Len(u.array) = Len(t.array) /\ Used(u) = Used(t)
  BY <1>2, <1>1, TableIs DEF SameKeys, Used
<1>8. \A x : InArray(u, x) <=> InArray(t, x)
  <2>1. DOMAIN u.array = 1..Len(u.array)
    BY <1>1, <1>2, TableIs
  <2>. QED  BY <2>1, <1>1, <1>7 DEF InArray
<1>9. luaH_get(u, k) = v
  <2>1. CASE InArray(t, k)
    <3>1. u.array[k] = v
      BY <2>1, <1>4 DEF InArray
    <3>. QED  BY <2>1, <3>1, <1>8 DEF luaH_get
  <2>2. CASE ~InArray(t, k)
    <3>1. p \in DOMAIN u.node /\ u.node[p].key = k /\ ~u.node[p].dead /\ u.node[p].val = v
      BY <2>2, <1>1, <1>2, <1>3, <1>5 DEF SameKeys
    <3>2. Find(u, k) = p /\ p # Nowhere
      BY <3>1, <2>2, <1>1, <1>3, <1>6, FindIs
    <3>. QED  BY <2>2, <3>1, <3>2, <1>8 DEF luaH_get
  <2>. QED  BY <2>1, <2>2
<1>10. ASSUME NEW x \in KeySet, x # k
       PROVE  luaH_get(u, x) = luaH_get(t, x)
  <2>1. \A i \in D : t.node[i].key = x => u.node[i] = t.node[i]
    BY <1>3, <1>5, <1>10
  <2>2. InArray(t, x) => u.array[x] = t.array[x]
    BY <1>4, <1>10 DEF InArray
  <2>3. /\ \A i \in DOMAIN t.node : t.node[i].key = x /\ Live(t.node[i]) =>
             \E j \in DOMAIN u.node : u.node[j].key = x /\ u.node[j].val = t.node[i].val
        /\ \A j \in DOMAIN u.node : u.node[j].key = x /\ Live(u.node[j]) =>
             \E i \in DOMAIN t.node : t.node[i].key = x /\ Live(t.node[i])
    BY <2>1, <1>1, <1>2, <1>5 DEF SameKeys
  <2>. QED  BY <2>2, <2>3, <1>6, <1>8, GetSame
<1>. QED  BY <1>6, <1>7, <1>9, <1>10 DEF Assigned, u

\* Put assigns, if there is room for a key that is not there.
LEMMA PutAssigns ==
  ASSUME NEW t, Sound(t), hash \in [Names -> Nat], NEW k \in KeySet, NEW v \in Value,
         Present(t, k) \/ HasRoom(t, k)
  PROVE  Assigned(t, Put(t, k, v), k, v)
BY InsertAssigns, OverwriteAssigns DEF Put

-----------------------------------------------------------------------------
(* Entries *)

LiveKeys(t) == {Entry(t, i).key : i \in LiveEntries(t)}

\* An entry with a value is that of its key, and a key with a value has one entry.
LEMMA EntriesAre ==
  ASSUME NEW t, Sound(t), hash \in [Names -> Nat]
  PROVE  /\ Len(t.array) \in Nat /\ Size(t) \in Nat /\ AllEntries(t) = 1..(Len(t.array) + Size(t))
         /\ \A i \in LiveEntries(t) :
              /\ i \in AllEntries(t) /\ Entry(t, i).key \in KeySet /\ Entry(t, i).val \in Value
              /\ Entry(t, i).val # Nil /\ luaH_get(t, Entry(t, i).key) = Entry(t, i).val
              /\ InArray(t, i) => Entry(t, i).key = i
              /\ ~InArray(t, i) => ~InArray(t, Entry(t, i).key)
         /\ \A i, j \in LiveEntries(t) : Entry(t, i).key = Entry(t, j).key => i = j
         /\ \A x \in KeySet : luaH_get(t, x) # Nil => \E i \in LiveEntries(t) : Entry(t, i).key = x
<1> DEFINE N == Size(t)
           L == Len(t.array)
           place(i) == i - L - 1
<1>1. /\ N \in Nat /\ t \in TableSet(N) /\ DOMAIN t.node = 0..(N - 1)
      /\ \A i \in 0..(N - 1) : t.node[i] \in NodeSet(N)
      /\ L \in Nat /\ DOMAIN t.array = 1..L /\ \A i \in 1..L : t.array[i] \in Value
  BY TableIs DEF Sound
<1>2. ASSUME NEW i \in 1..L
      PROVE  /\ InArray(t, i) /\ i \in KeySet /\ luaH_get(t, i) = t.array[i]
             /\ Entry(t, i).key = i /\ Entry(t, i).val = t.array[i]
  BY <1>1 DEF InArray, KeySet, luaH_get, Entry
<1>3. ASSUME NEW i \in (L + 1)..(L + N)
      PROVE  /\ ~InArray(t, i) /\ place(i) \in 0..(N - 1)
             /\ Entry(t, i).key = t.node[place(i)].key /\ Entry(t, i).val = t.node[place(i)].val
  BY <1>1 DEF InArray, Entry
<1>4. ASSUME NEW n \in 0..(N - 1), Live(t.node[n])
      PROVE  /\ t.node[n].key \in KeySet /\ luaH_get(t, t.node[n].key) = t.node[n].val
             /\ ~InArray(t, t.node[n].key) /\ t.node[n].val \in Value /\ n \in Used(t)
             /\ ~t.node[n].dead
  <2>1. t.node[n].key # Nil
    BY <1>1, <1>4 DEF Sound, FreeRight, FreeNode, Live
  <2>2. t.node[n].key \in KeySet /\ t.node[n].val \in Value
    BY <1>1, <2>1 DEF NodeSet
  <2>3. n \in Used(t)
    BY <1>1, <2>1 DEF Used
  <2>4. ~t.node[n].dead /\ ~InArray(t, t.node[n].key)
    BY <1>1, <1>4, <2>3 DEF Sound, KeysRight, Live, InArray
  <2>5. luaH_get(t, t.node[n].key) = t.node[n].val
    BY <1>1, <1>4, <2>2, GetIs
  <2>. QED  BY <2>2, <2>3, <2>4, <2>5
<1>5. AllEntries(t) = (1..L) \cup ((L + 1)..(L + N)) /\ AllEntries(t) = 1..(L + N)
  BY <1>1 DEF AllEntries
<1>6. \A i \in LiveEntries(t) :
        \/ i \in 1..L
        \/ i \in (L + 1)..(L + N) /\ Live(t.node[place(i)])
  BY <1>3, <1>5 DEF LiveEntries, Live
<1>7. ASSUME NEW i \in LiveEntries(t)
      PROVE  /\ i \in AllEntries(t) /\ Entry(t, i).key \in KeySet /\ Entry(t, i).val \in Value
             /\ Entry(t, i).val # Nil /\ luaH_get(t, Entry(t, i).key) = Entry(t, i).val
             /\ InArray(t, i) => Entry(t, i).key = i
             /\ ~InArray(t, i) => ~InArray(t, Entry(t, i).key)
  <2>1. i \in AllEntries(t) /\ Entry(t, i).val # Nil
    BY DEF LiveEntries, Live
  <2>2. CASE i \in 1..L
    BY <2>1, <2>2, <1>1, <1>2
  <2>3. CASE i \in (L + 1)..(L + N)
    <3>1. place(i) \in 0..(N - 1) /\ Live(t.node[place(i)])
      BY <2>1, <2>3, <1>3 DEF Live
    <3>. HIDE DEF place
    <3>. QED  BY <3>1, <2>1, <2>3, <1>3, <1>4
  <2>. QED  BY <2>2, <2>3, <1>6
<1>8. ASSUME NEW i \in LiveEntries(t), NEW j \in LiveEntries(t),
             Entry(t, i).key = Entry(t, j).key
      PROVE  i = j
  <2>1. CASE InArray(t, i) \/ InArray(t, j)
    BY <2>1, <1>7, <1>8
  <2>2. CASE ~InArray(t, i) /\ ~InArray(t, j)
    <3>1. i \in (L + 1)..(L + N) /\ j \in (L + 1)..(L + N)
      BY <2>2, <1>2, <1>6
    <3>2. /\ place(i) \in 0..(N - 1) /\ Live(t.node[place(i)])
          /\ place(j) \in 0..(N - 1) /\ Live(t.node[place(j)])
      BY <3>1, <1>3, <1>6, <1>2, <2>2
    <3>3. t.node[place(i)].key = t.node[place(j)].key
      BY <3>1, <1>3, <1>8
    <3>4. place(i) = place(j)
      <4>. HIDE DEF place
      <4>. QED  BY <3>2, <3>3, <1>4 DEF Sound, FirstsRight
    <3>. QED  BY <3>1, <3>4, <1>1
  <2>. QED  BY <2>1, <2>2
<1>9. ASSUME NEW x \in KeySet, luaH_get(t, x) # Nil
      PROVE  \E i \in LiveEntries(t) : Entry(t, i).key = x
  <2>1. CASE InArray(t, x)
    <3>1. x \in 1..L /\ x \in AllEntries(t)
      BY <2>1, <1>1, <1>5 DEF InArray
    <3>2. x \in LiveEntries(t) /\ Entry(t, x).key = x
      BY <3>1, <1>2, <1>9 DEF LiveEntries, Live
    <3>. QED  BY <3>2
  <2>2. CASE ~InArray(t, x)
    <3>1. PICK n \in 0..(N - 1) : t.node[n].key = x /\ Live(t.node[n])
      BY <2>2, <1>1, <1>9, GetIs
    <3>2. n + L + 1 \in (L + 1)..(L + N) /\ place(n + L + 1) = n
      <4>. HIDE DEF L, N
      <4>1. L \in Nat /\ N \in Nat /\ n \in 0..(N - 1)
        BY <1>1
      <4>. QED  BY <4>1
    <3>3. n + L + 1 \in LiveEntries(t) /\ Entry(t, n + L + 1).key = x
      BY <3>1, <3>2, <1>3, <1>5 DEF LiveEntries, Live
    <3>. QED  BY <3>3
  <2>. QED  BY <2>1, <2>2
<1>. QED  BY <1>1, <1>5, <1>7, <1>8, <1>9

\* There are as many keys with a value as entries.
LEMMA LiveKeysAre ==
  ASSUME NEW t, Sound(t), hash \in [Names -> Nat]
  PROVE  /\ LiveKeys(t) = {x \in KeySet : luaH_get(t, x) # Nil}
         /\ IsFiniteSet(LiveKeys(t)) /\ Cardinality(LiveKeys(t)) \in Nat
         /\ IsFiniteSet(LiveEntries(t))
         /\ Cardinality(LiveEntries(t)) = Cardinality(LiveKeys(t))
<1>1. LiveKeys(t) = {x \in KeySet : luaH_get(t, x) # Nil}
  BY EntriesAre DEF LiveKeys
<1>2. IsFiniteSet(LiveEntries(t))
  <2>1. Len(t.array) + Size(t) \in Int /\ LiveEntries(t) \in SUBSET (1..(Len(t.array) + Size(t)))
    BY EntriesAre
  <2>2. IsFiniteSet(1..(Len(t.array) + Size(t)))
    BY <2>1, FS_Interval
  <2>. QED  BY <2>1, <2>2, FS_Subset
<1>3. ExistsBijection(LiveEntries(t), LiveKeys(t))
  <2> DEFINE f == [i \in LiveEntries(t) |-> Entry(t, i).key]
  <2>1. f \in Bijection(LiveEntries(t), LiveKeys(t))
    BY EntriesAre DEF Bijection, Injection, Surjection, IsInjective, LiveKeys
  <2>. QED  BY <2>1 DEF ExistsBijection
<1>. QED  BY <1>1, <1>2, <1>3, FS_Bijection, FS_CardinalityType

-----------------------------------------------------------------------------
(* Sizes *)

\* The powers of two up to the limit: natural numbers, 1 among them, none above it.
LEMMA PowersAre ==
  PowersOfTwo \subseteq Nat \ {0} /\ 2^MAXHBITS \in PowersOfTwo
  /\ \A p \in PowersOfTwo : p <= 2^MAXHBITS
<1> DEFINE Right(n) == n \in Nat \ {0} /\ n <= 2^30
<1>1. ASSUME NEW p \in 0..30
      PROVE  Right(2^p)
  <2>1. \/ p = 0 \/ p = 1 \/ p = 2 \/ p = 3 \/ p = 4 \/ p = 5 \/ p = 6 \/ p = 7
        \/ p = 8 \/ p = 9 \/ p = 10 \/ p = 11 \/ p = 12 \/ p = 13 \/ p = 14 \/ p = 15
        \/ p = 16 \/ p = 17 \/ p = 18 \/ p = 19 \/ p = 20 \/ p = 21 \/ p = 22 \/ p = 23
        \/ p = 24 \/ p = 25 \/ p = 26 \/ p = 27 \/ p = 28 \/ p = 29 \/ p = 30
    BY SMT
  <2>2. /\ Right(2^0) /\ Right(2^1) /\ Right(2^2) /\ Right(2^3)
        /\ Right(2^4) /\ Right(2^5) /\ Right(2^6) /\ Right(2^7)
        /\ Right(2^8) /\ Right(2^9) /\ Right(2^10) /\ Right(2^11)
        /\ Right(2^12) /\ Right(2^13) /\ Right(2^14) /\ Right(2^15)
        /\ Right(2^16) /\ Right(2^17) /\ Right(2^18) /\ Right(2^19)
        /\ Right(2^20) /\ Right(2^21) /\ Right(2^22) /\ Right(2^23)
        /\ Right(2^24) /\ Right(2^25) /\ Right(2^26) /\ Right(2^27)
        /\ Right(2^28) /\ Right(2^29) /\ Right(2^30)
    BY SMT
  <2>. HIDE DEF Right
  <2>. QED  BY <2>1, <2>2, Zenon
<1>2. \A n \in PowersOfTwo : \E p \in 0..30 : n = 2^p
  BY DEF PowersOfTwo, MAXHBITS
<1>3. 2^30 \in PowersOfTwo
  BY DEF PowersOfTwo, MAXHBITS
<1>4. \A n \in PowersOfTwo : Right(n)
  <2>. HIDE DEF Right
  <2>. QED  BY <1>1, <1>2
<1>. QED  BY <1>3, <1>4 DEF MAXHBITS

\* The next power of two is large enough.
LEMMA CeilIs ==
  ASSUME NEW n \in 1..2^MAXHBITS
  PROVE  CeilPow2(n) \in PowersOfTwo /\ n <= CeilPow2(n)
<1> DEFINE S == {p \in PowersOfTwo : p >= n}
<1>1. 2^MAXHBITS \in S /\ S \subseteq Nat
  <2> DEFINE m == 2^MAXHBITS
  <2>1. PowersOfTwo \subseteq Nat /\ m \in PowersOfTwo
    BY PowersAre
  <2>. HIDE DEF m
  <2>2. n \in 1..m
    BY DEF m
  <2>3. m >= n
    BY <2>1, <2>2
  <2>. QED  BY <2>1, <2>3 DEF m
<1>2. Min(S) \in S
  <2>. HIDE DEF S
  <2>. QED  BY <1>1, MinIs
<1>. QED  BY <1>2 DEF CeilPow2

\* A power of two is its own ceiling.
LEMMA CeilSame ==
  ASSUME NEW p \in PowersOfTwo
  PROVE  CeilPow2(p) = p
<1> DEFINE S == {q \in PowersOfTwo : q >= p}
<1>1. p \in S /\ S \subseteq Nat /\ \A q \in S : p <= q
  <2>1. PowersOfTwo \subseteq Nat
    BY PowersAre
  <2>2. p \in Nat /\ \A q \in S : q \in Nat /\ q >= p
    BY <2>1
  <2>3. p \in S
    BY <2>2
  <2>. HIDE DEF S
  <2>. QED  BY <2>2, <2>3
<1>2. Min(S) \in S /\ \A q \in S : Min(S) <= q
  <2>. HIDE DEF S
  <2>. QED  BY <1>1, MinIs
<1>3. Min(S) = p
  <2> DEFINE m == Min(S)
  <2>1. m \in Nat /\ p \in Nat /\ p <= m /\ m <= p
    BY <1>1, <1>2
  <2>. HIDE DEF S, m
  <2>2. m = p
    BY <2>1
  <2>. QED  BY <2>2 DEF m
<1>. QED  BY <1>3 DEF CeilPow2

\* An array part of the size that computesizes chooses: none, or a power of two.
LEMMA SizeIs ==
  ASSUME NEW keys
  PROVE  computesizes(keys) \in {0} \cup PowersOfTwo
<1> DEFINE S == {p \in PowersOfTwo : 2 * Cardinality(InRange(keys, p)) > p} \cup {0}
<1>1. S \subseteq Int /\ S # {} /\ 2^MAXHBITS \in Int /\ \A x \in S : x <= 2^MAXHBITS
  <2> DEFINE m == 2^MAXHBITS
  <2>1. PowersOfTwo \subseteq Nat /\ m \in PowersOfTwo /\ \A p \in PowersOfTwo : p <= m
    BY PowersAre
  <2>. HIDE DEF m
  <2>2. S \subseteq PowersOfTwo \cup {0} /\ 0 \in S
    OBVIOUS
  <2>. HIDE DEF S
  <2>3. S \subseteq Int /\ S # {} /\ m \in Int /\ \A x \in S : x <= m
    BY <2>1, <2>2
  <2>. QED  BY <2>3 DEF m
<1>2. Max(S) \in S
  <2>. HIDE DEF S
  <2>. QED  BY <1>1, MaxIs
<1>. QED  BY <1>2 DEF computesizes

NodesFor(nh) == IF nh = 0 THEN 0 ELSE CeilPow2(nh)

\* The hash part made for nh keys has room for them, and is free.
LEMMA NodesForIs ==
  ASSUME NEW nh \in 0..2^MAXHBITS
  PROVE  /\ NodesFor(nh) \in Nat /\ NodesFor(nh) \in {0} \cup PowersOfTwo /\ nh <= NodesFor(nh)
         /\ setnodevector(nh) = [i \in 0..(NodesFor(nh) - 1) |-> FreeNode]
<1>1. CASE nh = 0
  <2>1. DOMAIN <<>> = {}
    OBVIOUS
  <2>2. 0..(0 - 1) = {}
    OBVIOUS
  <2>3. <<>> = [i \in {} |-> FreeNode]
    BY <2>1
  <2>. QED  BY <1>1, <2>2, <2>3 DEF NodesFor, setnodevector
<1>2. CASE nh # 0
  <2>1. nh \in 1..2^MAXHBITS
    BY <1>2, PowersAre
  <2>. QED  BY <1>2, <2>1, CeilIs, PowersAre DEF NodesFor, setnodevector
<1>. QED  BY <1>1, <1>2

\* A table without nodes in use.
LEMMA EmptySound ==
  ASSUME NEW N \in Nat, N \in {0} \cup PowersOfTwo, NEW a \in Seq(Value), NEW t,
         t = [array |-> a, node |-> [i \in 0..(N - 1) |-> FreeNode], lastfree |-> N]
  PROVE  Sound(t) /\ Size(t) = N /\ Used(t) = {}
<1> DEFINE D == 0..(N - 1)
<1>1. t.array = a /\ t.lastfree = N /\ DOMAIN t.node = D /\ \A i \in D : t.node[i] = FreeNode
  OBVIOUS
<1>2. FreeNode \in NodeSet(N) /\ FreeNode.key = Nil /\ FreeNode.next = Nowhere
  BY DEF FreeNode, NodeSet, Value
<1>3. t \in TableSet(N)
  BY <1>2 DEF TableSet
<1>4. Size(t) = N /\ Links(t) = [i \in D |-> Nowhere]
  BY <1>1, <1>2, <1>3, TableIs DEF Links
<1>5. Used(t) = {}
  BY <1>1, <1>2 DEF Used
<1>6. FreeRight(t)
  BY <1>1 DEF FreeRight
<1>7. LinksRight(t)
  <2>1. Single(Links(t))
    BY <1>4 DEF Single
  <2>2. Acyclic(Links(t))
    <3>1. [i \in D |-> 0] \in [DOMAIN Links(t) -> Int]
      BY <1>4
    <3>. QED  BY <3>1, <1>4 DEF Acyclic
  <2>. QED  BY <2>1, <2>2, <1>1, <1>4 DEF LinksRight
<1>8. HomesRight(t) /\ FirstsRight(t) /\ KeysRight(t)
  BY <1>5 DEF HomesRight, FirstsRight, KeysRight
<1>. QED  BY <1>3, <1>4, <1>5, <1>6, <1>7, <1>8 DEF Sound

\* What is left of the table when its entries are still to be inserted again.
LEMMA ResizedIs ==
  ASSUME NEW t, t.array \in Seq(Value), hash \in [Names -> Nat],
         NEW na \in Nat, NEW nh \in 0..2^MAXHBITS
  PROVE  LET u == Resized(t, na, nh)
         IN  /\ Sound(u) /\ Size(u) = NodesFor(nh) /\ Used(u) = {} /\ Len(u.array) = na
             /\ \A x \in KeySet : luaH_get(u, x) =
                  IF x \in 1..na /\ InArray(t, x) THEN t.array[x] ELSE Nil
<1> DEFINE N == NodesFor(nh)
           a == [i \in 1..na |-> IF InArray(t, i) THEN t.array[i] ELSE Nil]
           u == Resized(t, na, nh)
<1>1. N \in Nat /\ N \in {0} \cup PowersOfTwo
  BY NodesForIs
<1>2. a \in Seq(Value) /\ Len(a) = na /\ DOMAIN a = 1..na
  <2>1. \A i \in 1..na : a[i] \in Value
    BY DEF InArray, Value
  <2>2. a \in [1..na -> Value]
    <3>. HIDE DEF a
    <3>1. a = [i \in 1..na |-> a[i]]
      BY DEF a
    <3>. QED  BY <2>1, <3>1
  <2>3. a \in Seq(Value)
    <3>. HIDE DEF a
    <3>. QED  BY <2>2
  <2>. QED  BY <2>3
<1>3. u = [array |-> a, node |-> [i \in 0..(N - 1) |-> FreeNode], lastfree |-> N]
  <2>1. setnodevector(nh) = [i \in 0..(N - 1) |-> FreeNode]
    BY NodesForIs
  <2>2. Cardinality(0..(N - 1)) = N
    <3>. HIDE DEF N
    <3>1. Cardinality(0..(N - 1)) = IF 0 > N - 1 THEN 0 ELSE (N - 1) - 0 + 1
      BY <1>1, FS_Interval
    <3>. QED  BY <1>1, <3>1
  <2>. HIDE DEF N
  <2>. QED  BY <2>1, <2>2 DEF Resized
<1>. HIDE DEF N, a, u
<1>4. Sound(u) /\ Size(u) = N /\ Used(u) = {} /\ u.array = a
  BY <1>1, <1>2, <1>3, EmptySound
<1>5. ASSUME NEW x \in KeySet
      PROVE  luaH_get(u, x) = IF x \in 1..na /\ InArray(t, x) THEN t.array[x] ELSE Nil
  <2>1. CASE x \in 1..na
    BY <2>1, <1>2, <1>4 DEF luaH_get, InArray, a
  <2>2. CASE x \notin 1..na
    <3>1. ~InArray(u, x)
      BY <2>2, <1>2, <1>4 DEF InArray
    <3>2. \A i \in DOMAIN u.node : u.node[i] = FreeNode
      BY <1>3
    <3>3. luaH_get(u, x) = Nil
      BY <3>1, <3>2, <1>4, GetIs DEF Live, FreeNode
    <3>. QED  BY <2>2, <3>3
  <2>. QED  BY <2>1, <2>2
<1>. QED  BY <1>2, <1>4, <1>5 DEF u, N

-----------------------------------------------------------------------------
(* Resizing *)

\* What luaH_resize does with the n-th entry.
Moves(t, na, n) == Live(OldEntry(t, n)) /\ (InArray(t, n) => n > na)
Moved(t, na, u, n) ==
  IF Moves(t, na, n) THEN Put(u, OldEntry(t, n).key, OldEntry(t, n).val) ELSE u

ResizesBy(t, na, nh, a, T) ==
  /\ a[0] = Resized(t, na, nh)
  /\ \A n \in 1..T : a[n] = Moved(t, na, a[n - 1], n)
  /\ luaH_resize(t, na, nh) = a[T]

\* luaH_resize goes through the entries one after the other.
LEMMA ResizeIs ==
  ASSUME NEW t, NEW na, NEW nh, NEW T \in Nat, AllEntries(t) = 1..T, T = Len(t.array) + Size(t)
  PROVE  \E a : ResizesBy(t, na, nh, a, T)
<1> DEFINE r == Resized(t, na, nh)
           Is(a, m) == a = [n \in 0..m |-> IF n = 0 THEN r ELSE Moved(t, na, a[n - 1], n)]
           A == {m \in Nat : \E a : Is(a, m)}
<1>. HIDE DEF r
<1>1. 0 \in A
  <2>1. Is([n \in 0..0 |-> r], 0)
    OBVIOUS
  <2>. QED  BY <2>1
<1>2. ASSUME NEW m \in Nat, m \in A
      PROVE  m + 1 \in A
  <2>1. PICK a : Is(a, m)
    BY <1>2
  <2> DEFINE b == [n \in 0..(m + 1) |-> IF n <= m THEN a[n] ELSE Moved(t, na, a[m], m + 1)]
  <2>2. \A n \in 0..m : a[n] = IF n = 0 THEN r ELSE Moved(t, na, a[n - 1], n)
    BY <2>1
  <2>3. ASSUME NEW n \in 0..(m + 1)
        PROVE  b[n] = IF n = 0 THEN r ELSE Moved(t, na, b[n - 1], n)
    <3>1. CASE n = 0
      BY <3>1, <2>2
    <3>2. CASE n \in 1..m
      <4>1. b[n] = a[n] /\ b[n - 1] = a[n - 1]
        BY <3>2
      <4>2. a[n] = Moved(t, na, a[n - 1], n)
        BY <3>2, <2>2
      <4>. HIDE DEF b
      <4>. QED  BY <3>2, <4>1, <4>2
    <3>3. CASE n = m + 1
      <4>1. b[n] = Moved(t, na, a[m], m + 1) /\ n - 1 = m /\ b[m] = a[m] /\ n # 0
        BY <3>3
      <4>. HIDE DEF b
      <4>. QED  BY <3>3, <4>1
    <3>. QED  BY <3>1, <3>2, <3>3
  <2>4. b = [n \in 0..(m + 1) |-> b[n]]
    OBVIOUS
  <2>5. Is(b, m + 1)
    <3>. HIDE DEF b
    <3>1. b = [n \in 0..(m + 1) |-> IF n = 0 THEN r ELSE Moved(t, na, b[n - 1], n)]
      BY <2>3, <2>4
    <3>. QED  BY <3>1
  <2>. HIDE DEF Is, b
  <2>. QED  BY <2>5
<1>3. \E a : Is(a, T)
  <2>1. Nat \subseteq A
    <3>. HIDE DEF A
    <3>. QED  BY <1>1, <1>2, Induct
  <2>. QED  BY <2>1
<1>4. {0} \cup AllEntries(t) = 0..T
  BY SMT
<1>5. luaH_resize(t, na, nh) = (CHOOSE a : Is(a, T))[T]
  BY <1>4 DEF luaH_resize, Moved, Moves, r
<1>6. PICK a : Is(a, T) /\ luaH_resize(t, na, nh) = a[T]
  <2>. HIDE DEF Is
  <2>. QED  BY <1>3, <1>5
<1>7. a[0] = r /\ \A n \in 1..T : a[n] = Moved(t, na, a[n - 1], n)
  BY <1>6
<1>. QED  BY <1>6, <1>7 DEF r, ResizesBy

\* The entries in the order in which they are inserted again.
LEMMA OldEntriesAre ==
  ASSUME NEW t, Sound(t), hash \in [Names -> Nat], NEW na \in Nat
  PROVE  /\ \A n \in AllEntries(t) : Live(OldEntry(t, n)) =>
              /\ OldEntry(t, n).key \in KeySet /\ OldEntry(t, n).val \in Value
              /\ OldEntry(t, n).val # Nil
              /\ luaH_get(t, OldEntry(t, n).key) = OldEntry(t, n).val
         /\ \A n, m \in AllEntries(t) :
              Live(OldEntry(t, n)) /\ Live(OldEntry(t, m))
              /\ OldEntry(t, n).key = OldEntry(t, m).key => n = m
         /\ \A x \in KeySet :
              luaH_get(t, x) # Nil /\ (InArray(t, x) => x \notin 1..na) =>
                \E n \in AllEntries(t) : Moves(t, na, n) /\ OldEntry(t, n).key = x
<1> DEFINE L == Len(t.array)
           N == Size(t)
           At(n) == IF InArray(t, n) THEN n ELSE 2 * L + N + 1 - n
<1>1. L \in Nat /\ N \in Nat /\ AllEntries(t) = 1..(L + N) /\ DOMAIN t.array = 1..L
  BY EntriesAre, TableIs DEF Sound
<1>2. \A n \in AllEntries(t) : OldEntry(t, n) = Entry(t, At(n))
  BY DEF OldEntry
<1>. HIDE DEF L, N
<1>3. ASSUME NEW n \in AllEntries(t)
      PROVE  At(n) \in AllEntries(t) /\ At(At(n)) = n /\ (InArray(t, At(n)) <=> InArray(t, n))
  BY <1>1 DEF InArray
<1>. HIDE DEF At
<1>4. \A n \in AllEntries(t) : Live(OldEntry(t, n)) => At(n) \in LiveEntries(t)
  BY <1>2, <1>3 DEF LiveEntries
<1>5. \A n \in AllEntries(t) : Live(OldEntry(t, n)) =>
        /\ OldEntry(t, n).key \in KeySet /\ OldEntry(t, n).val \in Value
        /\ OldEntry(t, n).val # Nil
        /\ luaH_get(t, OldEntry(t, n).key) = OldEntry(t, n).val
  BY <1>2, <1>4, EntriesAre
<1>6. \A n, m \in AllEntries(t) :
        Live(OldEntry(t, n)) /\ Live(OldEntry(t, m))
        /\ OldEntry(t, n).key = OldEntry(t, m).key => n = m
  <2> TAKE n \in AllEntries(t), m \in AllEntries(t)
  <2> HAVE Live(OldEntry(t, n)) /\ Live(OldEntry(t, m))
           /\ OldEntry(t, n).key = OldEntry(t, m).key
  <2>1. At(n) = At(m)
    BY <1>2, <1>4, EntriesAre
  <2>. QED  BY <2>1, <1>3
<1>7. ASSUME NEW x \in KeySet, luaH_get(t, x) # Nil, InArray(t, x) => x \notin 1..na
      PROVE  \E n \in AllEntries(t) : Moves(t, na, n) /\ OldEntry(t, n).key = x
  <2>1. PICK i \in LiveEntries(t) : Entry(t, i).key = x
    BY <1>7, EntriesAre
  <2>2. i \in AllEntries(t) /\ Live(Entry(t, i)) /\ (InArray(t, i) => x = i)
    BY <2>1, EntriesAre DEF LiveEntries
  <2>3. OldEntry(t, At(i)) = Entry(t, i) /\ At(i) \in AllEntries(t)
    BY <2>2, <1>2, <1>3
  <2>4. InArray(t, At(i)) => At(i) > na
    <3>1. ASSUME InArray(t, At(i))
          PROVE  At(i) > na
      <4>1. InArray(t, i) /\ x = i /\ At(i) = i
        BY <3>1, <2>2, <1>3 DEF At
      <4>2. x \notin 1..na /\ x \in 1..(L + N)
        BY <4>1, <2>2, <1>1, <1>7
      <4>. QED  BY <4>1, <4>2, <1>1
    <3>. QED  BY <3>1
  <2>. QED  BY <2>1, <2>2, <2>3, <2>4 DEF Moves
<1>. QED  BY <1>5, <1>6, <1>7

\* What has been moved after the first n entries, and what must get a node for it.
HasMoved(t, na, n, x) == \E m \in 1..n : Moves(t, na, m) /\ OldEntry(t, m).key = x
MovedKeys(t, na, n) == {x \in LiveKeys(t) \ (1..na) : HasMoved(t, na, n, x)}

\* The new table after the first n entries.
Resizes(t, na, N, u, n) ==
  /\ Sound(u) /\ Len(u.array) = na /\ Size(u) = N
  /\ Cardinality(Used(u)) <= Cardinality(MovedKeys(t, na, n))
  /\ \A x \in KeySet :
       luaH_get(u, x) = IF HasMoved(t, na, n, x) THEN luaH_get(t, x)
                        ELSE IF x \in 1..na /\ InArray(t, x) THEN t.array[x] ELSE Nil

\* If fewer nodes are used than there are, one is free.
LEMMA UsedIs ==
  ASSUME NEW t, Sound(t)
  PROVE  /\ IsFiniteSet(Used(t)) /\ Cardinality(Used(t)) \in Nat
         /\ Cardinality(Used(t)) < Size(t) => Used(t) # DOMAIN t.node
<1>1. /\ Size(t) \in Nat /\ DOMAIN t.node = 0..(Size(t) - 1) /\ Used(t) \in SUBSET DOMAIN t.node
  BY TableIs DEF Sound, Used
<1>2. IsFiniteSet(0..(Size(t) - 1)) /\ Size(t) = Cardinality(DOMAIN t.node)
  <2>. HIDE DEF Size
  <2>1. IsFiniteSet(0..(Size(t) - 1))
    BY <1>1, FS_Interval
  <2>. QED  BY <2>1 DEF Size
<1>3. IsFiniteSet(Used(t)) /\ Cardinality(Used(t)) \in Nat
  BY <1>1, <1>2, FS_Subset, FS_CardinalityType
<1>. QED  BY <1>1, <1>2, <1>3

\* One more entry of the old table is moved into the new one.
LEMMA ResizeStep ==
  ASSUME NEW t, Sound(t), hash \in [Names -> Nat], NEW na \in Nat, NEW N \in Nat,
         Cardinality(LiveKeys(t) \ (1..na)) <= N,
         NEW T \in Nat, AllEntries(t) = 1..T, NEW n \in 1..T,
         NEW u, Resizes(t, na, N, u, n - 1)
  PROVE  Resizes(t, na, N, Moved(t, na, u, n), n)
<1> DEFINE x == OldEntry(t, n).key
           v == OldEntry(t, n).val
           K == MovedKeys(t, na, n - 1)
           J == MovedKeys(t, na, n)
           w == Moved(t, na, u, n)
<1>1. /\ Sound(u) /\ Len(u.array) = na /\ Size(u) = N /\ Cardinality(Used(u)) <= Cardinality(K)
      /\ \A y \in KeySet :
           luaH_get(u, y) = IF HasMoved(t, na, n - 1, y) THEN luaH_get(t, y)
                            ELSE IF y \in 1..na /\ InArray(t, y) THEN t.array[y] ELSE Nil
  BY DEF Resizes
<1>2. \A y : HasMoved(t, na, n, y) <=>
               HasMoved(t, na, n - 1, y) \/ (Moves(t, na, n) /\ y = x)
  <2>1. 1..n = 1..(n - 1) \cup {n}
    OBVIOUS
  <2>. QED  BY <2>1 DEF HasMoved
<1>3. CASE ~Moves(t, na, n)
  <2>1. w = u /\ J = K
    BY <1>2, <1>3 DEF Moved, MovedKeys
  <2>. QED  BY <2>1, <1>1, <1>2, <1>3 DEF Resizes
<1>4. CASE Moves(t, na, n)
  <2>1. n \in AllEntries(t) /\ x \in KeySet /\ v \in Value /\ v # Nil /\ luaH_get(t, x) = v
    BY <1>4, OldEntriesAre DEF Moves
  <2>2. x \in LiveKeys(t)
    BY <2>1, LiveKeysAre
  <2>3. x \notin K
    <3>1. ~HasMoved(t, na, n - 1, x)
      <4>1. ASSUME NEW m \in 1..(n - 1), Moves(t, na, m), OldEntry(t, m).key = x
            PROVE  FALSE
        <5>1. m \in AllEntries(t) /\ m # n
          OBVIOUS
        <5>2. Live(OldEntry(t, m)) /\ Live(OldEntry(t, n))
          BY <1>4, <4>1 DEF Moves
        <5>. QED  BY <5>1, <5>2, <2>1, <4>1, OldEntriesAre
      <4>. QED  BY <4>1 DEF HasMoved
    <3>. QED  BY <3>1 DEF MovedKeys
  <2>4. w = Put(u, x, v)
    BY <1>4 DEF Moved
  <2>5. IsFiniteSet(LiveKeys(t) \ (1..na)) /\ IsFiniteSet(K) /\ Cardinality(K) \in Nat
    <3>1. IsFiniteSet(LiveKeys(t))
      BY LiveKeysAre
    <3>2. LiveKeys(t) \ (1..na) \in SUBSET LiveKeys(t) /\ K \in SUBSET LiveKeys(t)
      BY DEF MovedKeys
    <3>. QED  BY <3>1, <3>2, FS_Subset, FS_CardinalityType
  <2>6. DOMAIN u.array = 1..na
    BY <1>1, TableIs DEF Sound
  <2>7. IsFiniteSet(Used(u)) /\ Cardinality(Used(u)) \in Nat
    BY <1>1, UsedIs
  <2>. HIDE DEF x, v, w
  <2>8. CASE x \in 1..na
    <3>1. Present(u, x) /\ w = Overwrite(u, x, v)
      BY <2>4, <2>6, <2>8 DEF Present, InArray, Put
    <3>2. Used(w) = Used(u)
      BY <3>1, <1>1, <2>1, OverwriteSame DEF SameKeys, Used
    <3>3. J = K
      BY <2>8, <1>2 DEF MovedKeys
    <3>4. Assigned(u, w, x, v)
      BY <3>1, <1>1, <2>1, OverwriteAssigns
    <3>5. \A y \in KeySet : luaH_get(w, y) =
             IF HasMoved(t, na, n, y) THEN luaH_get(t, y)
             ELSE IF y \in 1..na /\ InArray(t, y) THEN t.array[y] ELSE Nil
      BY <3>4, <1>1, <1>2, <1>4, <2>1 DEF Assigned
    <3>. QED  BY <3>2, <3>3, <3>4, <3>5, <1>1 DEF Assigned, Resizes, w
  <2>9. CASE x \notin 1..na
    <3>1. J = K \cup {x}
      BY <2>2, <2>9, <1>2, <1>4 DEF MovedKeys
    <3>2. Cardinality(J) = Cardinality(K) + 1
      BY <3>1, <2>3, <2>5, FS_AddElement
    <3>3. Cardinality(J) <= N
      <4>1. J \in SUBSET (LiveKeys(t) \ (1..na))
        BY DEF MovedKeys
      <4> DEFINE C == Cardinality(LiveKeys(t) \ (1..na))
      <4>2. Cardinality(J) <= C /\ C \in Nat
        BY <4>1, <2>5, FS_Subset, FS_CardinalityType
      <4>3. C <= N
        OBVIOUS
      <4>. HIDE DEF C
      <4>. QED  BY <4>2, <4>3, <3>2, <2>5
    <3>4. HasRoom(u, x)
      <4>1. Cardinality(Used(u)) < Size(u)
        BY <3>2, <3>3, <1>1, <2>5, <2>7
      <4>. QED  BY <4>1, <1>1, UsedIs, RoomIs
    <3>5. Assigned(u, w, x, v)
      BY <3>4, <1>1, <2>1, <2>4, PutAssigns
    <3>6. Cardinality(Used(w)) <= Cardinality(J)
      <4>1. PICK p : Used(w) \subseteq Used(u) \cup {p}
        BY <3>5 DEF Assigned
      <4>2. /\ IsFiniteSet(Used(u) \cup {p})
            /\ Cardinality(Used(u) \cup {p}) =
                 IF p \in Used(u) THEN Cardinality(Used(u)) ELSE Cardinality(Used(u)) + 1
        BY <2>7, FS_AddElement
      <4>3. Cardinality(Used(w)) <= Cardinality(Used(u) \cup {p})
        BY <4>1, <4>2, FS_Subset
      <4>4. Cardinality(Used(w)) \in Nat
        BY <3>5, UsedIs DEF Assigned
      <4>. QED  BY <4>2, <4>3, <4>4, <3>2, <1>1, <2>5, <2>7
    <3>7. \A y \in KeySet : luaH_get(w, y) =
             IF HasMoved(t, na, n, y) THEN luaH_get(t, y)
             ELSE IF y \in 1..na /\ InArray(t, y) THEN t.array[y] ELSE Nil
      BY <3>5, <1>1, <1>2, <1>4, <2>1 DEF Assigned
    <3>. QED  BY <3>5, <3>6, <3>7, <1>1 DEF Assigned, Resizes, w
  <2>. QED  BY <2>8, <2>9
<1>. QED  BY <1>3, <1>4

\* Resizing keeps all there is, if there are nodes for the keys that are not in the array.
LEMMA ResizeKeeps ==
  ASSUME NEW t, Sound(t), hash \in [Names -> Nat], NEW na \in Nat, NEW nh \in 0..2^MAXHBITS,
         Cardinality(LiveKeys(t) \ (1..na)) <= nh
  PROVE  LET u == luaH_resize(t, na, nh)
         IN  /\ Sound(u) /\ Len(u.array) = na /\ Size(u) = NodesFor(nh)
             /\ Cardinality(Used(u)) <= Cardinality(LiveKeys(t) \ (1..na))
             /\ \A x \in KeySet : luaH_get(u, x) = luaH_get(t, x)
<1> DEFINE T == Len(t.array) + Size(t)
           N == NodesFor(nh)
           K == LiveKeys(t) \ (1..na)
<1>1. /\ T \in Nat /\ AllEntries(t) = 1..T /\ t.array \in Seq(Value)
      /\ DOMAIN t.array = 1..Len(t.array)
  BY EntriesAre, TableIs DEF Sound
<1>2. IsFiniteSet(K) /\ Cardinality(K) \in Nat
  <2>1. IsFiniteSet(LiveKeys(t)) /\ K \in SUBSET LiveKeys(t)
    BY LiveKeysAre
  <2>. QED  BY <2>1, FS_Subset, FS_CardinalityType
<1>3. nh \in Nat /\ N \in Nat /\ nh <= N
  <2>1. N \in Nat /\ nh <= N
    BY NodesForIs
  <2>. QED  BY <2>1
<1>4. Cardinality(K) <= N
  <2>1. Cardinality(K) <= nh
    OBVIOUS
  <2>. HIDE DEF K, N
  <2>. QED  BY <2>1, <1>2, <1>3
<1>5. Resizes(t, na, N, Resized(t, na, nh), 0)
  <2>1. \A x : ~HasMoved(t, na, 0, x)
    BY DEF HasMoved
  <2>2. MovedKeys(t, na, 0) = {} /\ Cardinality({}) = 0
    BY <2>1, FS_EmptySet DEF MovedKeys
  <2> DEFINE r == Resized(t, na, nh)
  <2>3. /\ Sound(r) /\ Size(r) = N /\ Used(r) = {} /\ Len(r.array) = na
        /\ \A x \in KeySet : luaH_get(r, x) =
             IF x \in 1..na /\ InArray(t, x) THEN t.array[x] ELSE Nil
    BY <1>1, ResizedIs
  <2>4. Cardinality(Used(r)) <= Cardinality(MovedKeys(t, na, 0))
    <3>1. Used(r) = MovedKeys(t, na, 0) /\ Cardinality(MovedKeys(t, na, 0)) = 0
      BY <2>2, <2>3
    <3>. QED  BY <3>1
  <2>. HIDE DEF N, r
  <2>5. Resizes(t, na, N, r, 0)
    BY <2>1, <2>3, <2>4 DEF Resizes
  <2>. QED  BY <2>5 DEF r
<1>. HIDE DEF K, N, T
<1>6. \E a : ResizesBy(t, na, nh, a, T)
  <2>1. T \in Nat /\ AllEntries(t) = 1..T /\ T = Len(t.array) + Size(t)
    BY <1>1 DEF T
  <2>. QED  BY <2>1, ResizeIs
<1>60. PICK a : /\ a[0] = Resized(t, na, nh)
                /\ \A n \in 1..T : a[n] = Moved(t, na, a[n - 1], n)
                /\ luaH_resize(t, na, nh) = a[T]
  BY <1>6 DEF ResizesBy
<1> DEFINE A == {n \in 0..T : Resizes(t, na, N, a[n], n)}
<1>7. 0 \in A
  BY <1>1, <1>5, <1>60
<1>8. ASSUME NEW n \in 1..T, n - 1 \in A
      PROVE  n \in A
  <2>1. Resizes(t, na, N, a[n - 1], n - 1)
    BY <1>8
  <2>2. Resizes(t, na, N, Moved(t, na, a[n - 1], n), n)
    BY <2>1, <1>1, <1>3, <1>4, ResizeStep DEF K
  <2>. QED  BY <2>2, <1>1, <1>60
<1>9. Resizes(t, na, N, a[T], T)
  <2>1. 0..T \subseteq A
    <3>. HIDE DEF A
    <3>. QED  BY <1>1, <1>7, <1>8, InductTo
  <2>. QED  BY <2>1, <1>1
<1> DEFINE u == luaH_resize(t, na, nh)
<1>10. Resizes(t, na, N, u, T)
  BY <1>60, <1>9
<1>. HIDE DEF u
<1>11. Cardinality(Used(u)) <= Cardinality(K)
  <2> DEFINE J == MovedKeys(t, na, T)
  <2>1. J \in SUBSET K
    BY DEF MovedKeys, K
  <2>2. Cardinality(J) <= Cardinality(K) /\ Cardinality(J) \in Nat
    BY <2>1, <1>2, FS_Subset, FS_CardinalityType
  <2>3. Cardinality(Used(u)) <= Cardinality(J) /\ Sound(u)
    BY <1>10 DEF Resizes
  <2>. HIDE DEF J
  <2>. QED  BY <2>2, <2>3, <1>2, UsedIs
<1>12. ASSUME NEW x \in KeySet
       PROVE  luaH_get(u, x) = luaH_get(t, x)
  <2>1. luaH_get(u, x) = IF HasMoved(t, na, T, x) THEN luaH_get(t, x)
                         ELSE IF x \in 1..na /\ InArray(t, x) THEN t.array[x] ELSE Nil
    BY <1>10 DEF Resizes
  <2>2. CASE x \in 1..na /\ InArray(t, x)
    <3>1. luaH_get(t, x) = t.array[x]
      BY <2>2 DEF luaH_get
    <3>. QED  BY <2>1, <2>2, <3>1
  <2>3. CASE ~(x \in 1..na /\ InArray(t, x))
    <3>1. luaH_get(t, x) # Nil => HasMoved(t, na, T, x)
      BY <2>3, <1>1, OldEntriesAre DEF HasMoved
    <3>. QED  BY <2>1, <2>3, <3>1
  <2>. QED  BY <2>2, <2>3
<1>. QED  BY <1>10, <1>11, <1>12 DEF Resizes, K, N, u

\* After rehash the table has what it had, and there is a place for the new key.
LEMMA RehashKeeps ==
  ASSUME NEW t, Sound(t), hash \in [Names -> Nat], NEW k \in KeySet, luaH_get(t, k) = Nil,
         Cardinality(LiveKeys(t) \cup {k}) <= 2^MAXHBITS
  PROVE  LET u == rehash(t, k)
         IN  /\ Sound(u) /\ (Present(u, k) \/ HasRoom(u, k))
             /\ \A x \in KeySet : luaH_get(u, x) = luaH_get(t, x)
<1> DEFINE E == LiveKeys(t) \cup {k}
           keys == IndexKeys(t, k)
           na == computesizes(keys)
           nh == (Cardinality(LiveEntries(t)) + 1) - Cardinality(InRange(keys, na))
           u == rehash(t, k)
           most == 2^MAXHBITS
<1>9. u = luaH_resize(t, na, nh)
  BY DEF rehash
<1>1. na \in Nat
  <2>. HIDE DEF keys
  <2>1. na \in {0} \cup PowersOfTwo
    BY SizeIs
  <2>. HIDE DEF na
  <2>. QED  BY <2>1, PowersAre
<1>2. /\ LiveKeys(t) \subseteq KeySet /\ k \notin LiveKeys(t)
      /\ IsFiniteSet(LiveKeys(t)) /\ Cardinality(LiveKeys(t)) \in Nat
      /\ Cardinality(LiveEntries(t)) = Cardinality(LiveKeys(t))
  BY LiveKeysAre
<1>3. keys = {x \in E : x \in Nat \ {0}}
  <2>1. keys = E \ (Names \cup {0})
    BY DEF LiveKeys, IndexKeys
  <2>2. E \subseteq KeySet
    BY <1>2
  <2>. HIDE DEF E, keys
  <2>. QED  BY <2>1, <2>2, KeysDiffer DEF KeySet
<1>. HIDE DEF keys, na
<1>4. InRange(keys, na) = E \cap (1..na)
  <2>. HIDE DEF E
  <2>. QED  BY <1>1, <1>3 DEF InRange
<1>5. IsFiniteSet(E) /\ Cardinality(E) = Cardinality(LiveKeys(t)) + 1
  BY <1>2, FS_AddElement
<1>6. /\ IsFiniteSet(E \ (1..na)) /\ Cardinality(E \ (1..na)) \in Nat
      /\ Cardinality(E \ (1..na)) = Cardinality(E) - Cardinality(E \cap (1..na))
      /\ Cardinality(E \ (1..na)) <= Cardinality(E)
  <2>. HIDE DEF E
  <2>1. /\ IsFiniteSet(E \ (1..na))
        /\ Cardinality(E \ (1..na)) = Cardinality(E) - Cardinality(E \cap (1..na))
    BY <1>5, FS_Difference
  <2>2. E \ (1..na) \in SUBSET E
    OBVIOUS
  <2>. QED  BY <2>1, <2>2, <1>5, FS_Subset, FS_CardinalityType
<1>7. nh = Cardinality(E \ (1..na))
  <2>1. nh = (Cardinality(LiveKeys(t)) + 1) - Cardinality(E \cap (1..na))
    BY <1>2, <1>4
  <2>2. Cardinality(E \cap (1..na)) \in Nat
    <3>. HIDE DEF E
    <3>. QED  BY <1>5, FS_Intersection, FS_CardinalityType
  <2>. HIDE DEF nh, E
  <2>. QED  BY <2>1, <2>2, <1>2, <1>5, <1>6
<1>8. most \in Nat /\ nh \in 0..most
  <2>1. most \in Nat
    BY PowersAre
  <2>2. Cardinality(E) <= most
    OBVIOUS
  <2>3. Cardinality(E) \in Nat
    BY <1>5, FS_CardinalityType
  <2>. HIDE DEF nh, E, most
  <2>. QED  BY <2>1, <2>2, <2>3, <1>6, <1>7
<1>. HIDE DEF u, nh, E
<1>10. /\ IsFiniteSet(LiveKeys(t) \ (1..na)) /\ Cardinality(LiveKeys(t) \ (1..na)) \in Nat
       /\ Cardinality(E \ (1..na)) =
            IF k \in 1..na THEN Cardinality(LiveKeys(t) \ (1..na))
            ELSE Cardinality(LiveKeys(t) \ (1..na)) + 1
  <2>1. LiveKeys(t) \ (1..na) \in SUBSET LiveKeys(t)
    OBVIOUS
  <2>2. IsFiniteSet(LiveKeys(t) \ (1..na)) /\ Cardinality(LiveKeys(t) \ (1..na)) \in Nat
    BY <2>1, <1>2, FS_Subset, FS_CardinalityType
  <2>3. E \ (1..na) = IF k \in 1..na THEN LiveKeys(t) \ (1..na)
                      ELSE (LiveKeys(t) \ (1..na)) \cup {k}
    BY DEF E
  <2>4. Cardinality((LiveKeys(t) \ (1..na)) \cup {k}) = Cardinality(LiveKeys(t) \ (1..na)) + 1
    BY <2>2, <1>2, FS_AddElement
  <2>. QED  BY <2>2, <2>3, <2>4
<1>11. Cardinality(LiveKeys(t) \ (1..na)) <= nh
  BY <1>7, <1>10
<1>12. /\ Sound(u) /\ Len(u.array) = na /\ Size(u) = NodesFor(nh)
       /\ Cardinality(Used(u)) <= Cardinality(LiveKeys(t) \ (1..na))
       /\ \A x \in KeySet : luaH_get(u, x) = luaH_get(t, x)
  <2>1. nh \in 0..2^MAXHBITS
    BY <1>8
  <2>. HIDE DEF most
  <2>. QED  BY <2>1, <1>1, <1>9, <1>11, ResizeKeeps
<1>13. CASE k \in 1..na
  <2>1. DOMAIN u.array = 1..na
    BY <1>12, TableIs DEF Sound
  <2>2. Present(u, k)
    BY <2>1, <1>13 DEF Present, InArray
  <2>. QED  BY <2>2, <1>12 DEF u
<1>14. CASE k \notin 1..na
  <2>1. nh <= NodesFor(nh) /\ NodesFor(nh) \in Nat
    <3>1. nh \in 0..2^MAXHBITS
      BY <1>8
    <3>. HIDE DEF most
    <3>. QED  BY <3>1, NodesForIs
  <2>2. Cardinality(Used(u)) < Size(u)
    <3>1. Cardinality(Used(u)) \in Nat
      BY <1>12, UsedIs
    <3>. QED  BY <2>1, <3>1, <1>7, <1>10, <1>12, <1>14
  <2>3. HasRoom(u, k)
    BY <2>2, <1>12, UsedIs, RoomIs
  <2>. QED  BY <2>3, <1>12 DEF u
<1>. QED  BY <1>13, <1>14

\* An assignment keeps the table sound, and changes what its key has, and nothing else.
LEMMA SetIs ==
  ASSUME NEW t, Sound(t), hash \in [Names -> Nat], NEW k \in KeySet, NEW v \in Value,
         Cardinality(LiveKeys(t) \cup {k}) <= 2^MAXHBITS
  PROVE  LET u == luaH_set(t, k, v)
         IN  /\ Sound(u)
             /\ \A x \in KeySet : luaH_get(u, x) = IF x = k THEN v ELSE luaH_get(t, x)
             /\ Present(t, k) \/ HasRoom(t, k) => Assigned(t, u, k, v)
<1>1. CASE Present(t, k) \/ HasRoom(t, k)
  <2>1. luaH_set(t, k, v) = Put(t, k, v)
    BY <1>1 DEF luaH_set, luaH_newkey, Put
  <2>2. Assigned(t, Put(t, k, v), k, v)
    BY <1>1, PutAssigns
  <2>. QED  BY <2>1, <2>2 DEF Assigned
<1>2. CASE ~Present(t, k) /\ ~HasRoom(t, k)
  <2> DEFINE r == rehash(t, k)
  <2>1. luaH_set(t, k, v) = Put(r, k, v)
    BY <1>2 DEF luaH_set, luaH_newkey
  <2>2. luaH_get(t, k) = Nil
    BY <1>2 DEF Present, luaH_get
  <2>3. /\ Sound(r) /\ (Present(r, k) \/ HasRoom(r, k))
        /\ \A x \in KeySet : luaH_get(r, x) = luaH_get(t, x)
    <3>1. Cardinality(LiveKeys(t) \cup {k}) <= 2^MAXHBITS
      OBVIOUS
    <3>. QED  BY <2>2, <3>1, RehashKeeps
  <2>. HIDE DEF r
  <2>4. Assigned(r, Put(r, k, v), k, v)
    BY <2>3, PutAssigns
  <2>. QED  BY <1>2, <2>1, <2>3, <2>4 DEF Assigned
<1>. QED  BY <1>1, <1>2

-----------------------------------------------------------------------------
(* The collector, and traversal *)

\* The collector leaves the keys where they are and the values as they are.
LEMMA CollectKeeps ==
  ASSUME NEW t, Sound(t), hash \in [Names -> Nat], NEW white \in SUBSET Names
  PROVE  LET u == traversestrongtable(t, white)
         IN  /\ Sound(u) /\ SameKeys(t, u)
             /\ \A x \in KeySet : luaH_get(u, x) = luaH_get(t, x)
<1> DEFINE N == Size(t)
           D == 0..(N - 1)
           u == traversestrongtable(t, white)
<1>1. /\ N \in Nat /\ t \in TableSet(N) /\ DOMAIN t.node = D
      /\ \A i \in D : t.node[i] \in NodeSet(N)
      /\ t.array \in Seq(Value) /\ DOMAIN t.array = 1..Len(t.array)
  BY TableIs DEF Sound
<1>2. /\ u.array = t.array /\ u.lastfree = t.lastfree
      /\ u.node = [i \in D |-> IF ~Live(t.node[i]) /\ t.node[i].key \in white
                               THEN removeentry(t.node[i]) ELSE t.node[i]]
      /\ u = [t EXCEPT !.node = u.node]
  BY <1>1 DEF traversestrongtable, TableSet
<1>. HIDE DEF u
<1>3. ASSUME NEW i \in D
      PROVE  /\ u.node[i] \in NodeSet(N) /\ u.node[i].key = t.node[i].key
             /\ u.node[i].next = t.node[i].next /\ u.node[i].val = t.node[i].val
             /\ t.node[i].dead => u.node[i].dead
             /\ u.node[i].dead => t.node[i].dead \/ ~Live(t.node[i])
             /\ t.node[i].key \notin white => u.node[i] = t.node[i]
  <2> DEFINE e == t.node[i]
             r == [e EXCEPT !.dead = TRUE]
  <2>1. u.node[i] = IF ~Live(e) /\ e.key \in white THEN r ELSE e
    BY <1>2 DEF removeentry
  <2>2. e \in NodeSet(N)
    BY <1>1
  <2>3. /\ r \in NodeSet(N) /\ r.key = e.key /\ r.next = e.next /\ r.val = e.val /\ r.dead
    <3>. HIDE DEF e
    <3>. QED  BY <2>2 DEF NodeSet
  <2>. HIDE DEF r
  <2>4. CASE ~Live(e) /\ e.key \in white
    BY <2>1, <2>3, <2>4
  <2>5. CASE ~(~Live(e) /\ e.key \in white)
    BY <2>1, <2>2, <2>5
  <2>. QED  BY <2>4, <2>5
<1>4. u \in TableSet(N)
  <2>1. DOMAIN u.node = D
    BY <1>2
  <2>2. u.node \in [D -> NodeSet(N)]
    <3>1. u.node = [i \in D |-> u.node[i]]
      BY <1>2
    <3>. QED  BY <3>1, <1>3
  <2>3. \A m \in [D -> NodeSet(N)] : [t EXCEPT !.node = m] \in TableSet(N)
    BY <1>1 DEF TableSet
  <2>. HIDE DEF D, N
  <2>. QED  BY <2>2, <2>3, <1>2
<1>5. SameKeys(t, u)
  BY <1>1, <1>2, <1>3 DEF SameKeys
<1>6. Sound(u)
  <2>1. ASSUME NEW i \in D, t.node[i] = FreeNode
        PROVE  u.node[i] = FreeNode
    BY <2>1, <1>3, KeysAssumption DEF FreeNode
  <2>2. ASSUME NEW i \in D, u.node[i].dead
        PROVE  u.node[i].val = Nil
    <3>1. CASE ~Live(t.node[i])
      BY <3>1, <1>3 DEF Live
    <3>2. CASE t.node[i].dead
      <4>1. t.node[i].key # Nil
        BY <3>2, <1>1 DEF Sound, FreeRight, FreeNode
      <4>2. i \in Used(t)
        BY <4>1, <1>1 DEF Used
      <4>. QED  BY <3>2, <4>2, <1>3 DEF Sound, KeysRight
    <3>. QED  BY <2>2, <3>1, <3>2, <1>3
  <2>. HIDE DEF D
  <2>. QED  BY <2>1, <2>2, <1>1, <1>4, <1>5, SameKeysSound
<1>7. ASSUME NEW x \in KeySet
      PROVE  luaH_get(u, x) = luaH_get(t, x)
  <2>1. InArray(t, x) <=> InArray(u, x)
    BY <1>2 DEF InArray
  <2>2. /\ \A i \in DOMAIN t.node : t.node[i].key = x /\ Live(t.node[i]) =>
             \E j \in DOMAIN u.node : u.node[j].key = x /\ u.node[j].val = t.node[i].val
        /\ \A j \in DOMAIN u.node : u.node[j].key = x /\ Live(u.node[j]) =>
             \E i \in DOMAIN t.node : t.node[i].key = x /\ Live(t.node[i])
    BY <1>1, <1>2, <1>3 DEF Live
  <2>3. InArray(t, x) => u.array[x] = t.array[x]
    BY <1>2
  <2>. QED  BY <2>1, <2>2, <2>3, <1>6, GetSame
<1>. QED  BY <1>5, <1>6, <1>7 DEF u

\* A search for the place of a key goes along the keys.
LEMMA PlaceSame ==
  ASSUME NEW t, NEW u, Sound(t), Sound(u), SameKeys(t, u), NEW k
  PROVE  findindex(u, k) = findindex(t, k)
<1> DEFINE N == Size(t)
<1>1. /\ N \in Nat /\ t \in TableSet(N) /\ u \in TableSet(N)
      /\ DOMAIN t.node = DOMAIN u.node
      /\ DOMAIN t.array = 1..Len(t.array) /\ DOMAIN u.array = DOMAIN t.array
      /\ (t.node = <<>> <=> u.node = <<>>)
  <2>1. Size(u) = Size(t)
    BY DEF SameKeys, Size
  <2>2. /\ DOMAIN t.array = 1..Len(t.array) /\ DOMAIN u.array = 1..Len(u.array)
        /\ (t.node = <<>> <=> Size(t) = 0) /\ (u.node = <<>> <=> Size(u) = 0)
    BY TableIs DEF Sound
  <2>. QED  BY <2>1, <2>2 DEF Sound, SameKeys
<1>2. Places(u, k) = Places(t, k) /\ Links(u) = Links(t)
  BY DEF SameKeys, Places, Links
<1>3. mainposition(u, k) = mainposition(t, k)
  BY <1>1, MainSame
<1>4. \A h : Chain(u, h) = Chain(t, h)
  BY <1>1, <1>2, ChainIs
<1>5. Search(u, k, Places(u, k)) = Search(t, k, Places(t, k))
  BY <1>1, <1>2, <1>3, <1>4 DEF Search
<1>. QED  BY <1>1, <1>5 DEF findindex, InArray, SameKeys

\* The place found for the key of an entry that is not dead is the entry's own.
LEMMA PlaceIs ==
  ASSUME NEW t, Sound(t), hash \in [Names -> Nat], NEW i \in LiveEntries(t)
  PROVE  i \in Nat \ {0} /\ findindex(t, Entry(t, i).key) = i
<1> DEFINE N == Size(t)
           L == Len(t.array)
           k == Entry(t, i).key
           n == i - L - 1
           P == Places(t, k)
           r == Search(t, k, P)
<1>1. /\ N \in Nat /\ t \in TableSet(N) /\ DOMAIN t.node = 0..(N - 1) /\ L \in Nat
      /\ DOMAIN t.array = 1..L /\ Links(t) \in Linking(0..(N - 1)) /\ Nowhere \notin 0..(N - 1)
  BY TableIs DEF Sound, Nowhere
<1>2. /\ i \in 1..(L + N) /\ k \in KeySet /\ k # Nil /\ (InArray(t, i) => k = i)
      /\ (~InArray(t, i) => ~InArray(t, k))
  BY EntriesAre, KeysDiffer
<1>3. CASE InArray(t, i)
  BY <1>2, <1>3 DEF findindex
<1>4. CASE ~InArray(t, i)
  <2>1. n \in 0..(N - 1) /\ k = t.node[n].key /\ Live(t.node[n])
    <3>1. i \notin 1..L
      BY <1>1, <1>4 DEF InArray
    <3>2. n \in 0..(N - 1)
      BY <3>1, <1>1, <1>2
    <3>3. k = t.node[n].key /\ Entry(t, i).val = t.node[n].val
      BY <1>4 DEF Entry
    <3>4. Entry(t, i).val # Nil
      BY EntriesAre
    <3>. QED  BY <3>2, <3>3, <3>4 DEF Live
  <2>. HIDE DEF n, k, N, L
  <2>2. n \in Used(t) /\ ~t.node[n].dead
    BY <2>1, <1>1, <1>2 DEF Sound, KeysRight, Used, Live
  <2>3. P \in SUBSET (0..(N - 1)) /\ n \in P /\ P \subseteq Used(t)
    BY <2>1, <1>1, <1>2 DEF Places, Used
  <2>4. n \in Reach(Links(t), mainposition(t, k))
    BY <2>1, <2>2 DEF Sound, HomesRight, Home
  <2>5. r \in P /\ n \in Reach(Links(t), r)
    <3>1. N # 0
      BY <2>1, <1>1
    <3>2. hash \in [Names -> Nat]
      OBVIOUS
    <3>. HIDE DEF P
    <3>. QED  BY <3>1, <3>2, <2>3, <2>4, <1>1, <1>2, SearchIs DEF r
  <2>. HIDE DEF r
  <2>6. r = n
    <3>1. ASSUME r # n
          PROVE  FALSE
      <4>1. r \in Reach(Links(t), n)
        BY <2>1, <2>2, <2>3, <2>5, <3>1 DEF Sound, FirstsRight, Places
      <4>2. PICK rank \in [0..(N - 1) -> Int] :
               \A x \in 0..(N - 1) : Links(t)[x] # Nowhere => rank[Links(t)[x]] < rank[x]
        <5>1. DOMAIN Links(t) = 0..(N - 1)
          BY <1>1 DEF Linking
        <5>. QED  BY <5>1 DEF Sound, LinksRight, Acyclic
      <4>3. r \in 0..(N - 1)
        BY <2>3, <2>5
      <4>4. rank[n] < rank[r]
        BY <2>5, <3>1, <4>2, <4>3, <1>1, ReachFalls
      <4>5. rank[r] < rank[n]
        BY <2>1, <3>1, <4>1, <4>2, <1>1, ReachFalls
      <4>. QED  BY <4>2, <4>3, <4>4, <4>5, <2>1
    <3>. QED  BY <3>1
  <2>7. r # Nowhere
    BY <2>1, <2>6, <1>1
  <2>8. findindex(t, k) = L + n + 1
    BY <2>6, <2>7, <1>2, <1>4 DEF findindex, r, P, L
  <2>9. L + n + 1 = i
    BY <1>1, <1>2 DEF n
  <2>. QED  BY <2>8, <2>9, <1>1, <1>2 DEF k
<1>. QED  BY <1>3, <1>4

\* A key with a value has a place.
LEMMA PlacesAre ==
  ASSUME NEW t, Sound(t), hash \in [Names -> Nat], NEW x \in KeySet, luaH_get(t, x) # Nil
  PROVE  /\ findindex(t, x) \in LiveEntries(t) /\ findindex(t, x) \in Nat \ {0}
         /\ Entry(t, findindex(t, x)).key = x
BY EntriesAre, PlaceIs

\* What next returns: the key with the first place after, or Nil if there is none.
LEMMA NextIs ==
  ASSUME NEW t, Sound(t), hash \in [Names -> Nat], NEW k, findindex(t, k) \in Int
  PROVE  LET x == luaH_next(t, k)
             rest == {y \in KeySet : luaH_get(t, y) # Nil /\ findindex(t, y) > findindex(t, k)}
         IN  IF rest = {} THEN x = Nil
             ELSE x \in rest /\ \A y \in rest \ {x} : findindex(t, y) > findindex(t, x)
<1> DEFINE x == luaH_next(t, k)
           after == {i \in LiveEntries(t) : i > findindex(t, k)}
           rest == {y \in KeySet : luaH_get(t, y) # Nil /\ findindex(t, y) > findindex(t, k)}
<1>1. \A i \in after : i \in Nat /\ Entry(t, i).key \in rest /\ findindex(t, Entry(t, i).key) = i
  BY PlaceIs, EntriesAre
<1>2. \A y \in rest : findindex(t, y) \in after /\ Entry(t, findindex(t, y)).key = y
  BY PlacesAre
<1>3. x = IF after = {} THEN Nil ELSE Entry(t, Min(after)).key
  BY DEF luaH_next
<1>. HIDE DEF x, after, rest
<1>4. CASE after = {}
  BY <1>2, <1>3, <1>4 DEF x, rest
<1>5. CASE after # {}
  <2>1. Min(after) \in after /\ \A i \in after : Min(after) <= i
    BY <1>1, <1>5, MinIs
  <2>2. x \in rest /\ findindex(t, x) = Min(after)
    BY <2>1, <1>1, <1>3, <1>5
  <2>3. ASSUME NEW y \in rest \ {x}
        PROVE  findindex(t, y) > findindex(t, x)
    <3>1. findindex(t, y) \in after /\ findindex(t, y) # findindex(t, x)
      BY <2>2, <1>2
    <3>. QED  BY <3>1, <2>1, <2>2, <1>1
  <2>. QED  BY <2>2, <2>3 DEF x, rest
<1>. QED  BY <1>4, <1>5

-----------------------------------------------------------------------------
(* The tables of the binding *)

Wholes == {"a", "n", "rows"}
MaxSize == IF made = "rows" THEN MaxRows ELSE MaxCols

\* What a table has is what it should have.
TypesRight ==
  /\ hash \in [Names -> Hashes] /\ made \in Wholes /\ phase \in {"filling", "script"}
  /\ size \in 0..MaxSize /\ assigns \in Nat
  /\ cols \in Seq(IF made = "rows" THEN {NewValue} ELSE Columns) /\ Len(cols) <= size
  /\ content \in [Keys -> Value]
  /\ iter \in [on: BOOLEAN, key: Keys \cup {Nil}, owes: SUBSET Keys]

ValuesRight ==
  /\ Sound(tbl)
  /\ \A x \in KeySet : luaH_get(tbl, x) = IF x \in Keys THEN content[x] ELSE Nil

\* There is not more in a new table than was put into it.
FilledRight ==
  phase = "filling" =>
    /\ ~iter.on /\ assigns = 0
    /\ made = "n" => \A i \in DOMAIN cols : content[i] = pushvalue(cols[i])
    /\ made = "a" =>
         \A i \in DOMAIN cols :
           (\A j \in (i + 1)..Len(cols) : cols[j].name # cols[i].name) =>
             content[cols[i].name] = pushvalue(cols[i])
    /\ made = "rows" =>
         \A i \in 1..MaxRows : content[i] = IF i <= Len(cols) THEN NewValue ELSE Nil

\* A new table has the size it was made with, and there is a node for each column to come.
RoomRight ==
  made # "rows" /\ assigns = 0 =>
    /\ Len(tbl.array) = Len(Created(made, size).array)
    /\ Size(tbl) = Size(Created(made, size))
    /\ phase = "filling" => Cardinality(Used(tbl)) <= Len(cols)

\* A traversal is at a place and owes the keys that have their places behind it.
IterRight ==
  iter.on =>
    /\ findindex(tbl, iter.key) \in Nat
    /\ iter.owes = {k \in Keys : content[k] # Nil /\ findindex(tbl, k) > findindex(tbl, iter.key)}

TableInv == TypesRight /\ ValuesRight /\ FilledRight /\ RoomRight /\ IterRight

\* The keys of the binding's tables are keys, and no more than a table may have.
LEMMA KeysAre ==
  ASSUME made \in Wholes
  PROVE  /\ Keys \subseteq KeySet /\ Nil \notin Keys
         /\ \A S \in SUBSET Keys : Cardinality(S) <= 2^MAXHBITS
<1> DEFINE most == 2^MAXHBITS
           C == Cardinality(Names)
<1>1. /\ MaxCols \in Nat /\ MaxRows \in Nat /\ C \in Nat /\ IsFiniteSet(Names)
      /\ most \in Nat
  BY SizesAssumption, KeysAssumption, FS_CardinalityType, PowersAre
<1>2. C + MaxCols + MaxRows <= most
  BY SizesAssumption
<1>. HIDE DEF most, C
<1>3. Keys \subseteq KeySet
  BY <1>1 DEF Keys, KeySet
<1>4. IsFiniteSet(Keys) /\ Cardinality(Keys) \in Nat /\ Cardinality(Keys) <= most
  <2>1. /\ IsFiniteSet(1..MaxRows) /\ Cardinality(1..MaxRows) = MaxRows
        /\ IsFiniteSet(1..MaxCols) /\ Cardinality(1..MaxCols) = MaxCols
    <3>1. /\ IsFiniteSet(1..MaxRows)
          /\ Cardinality(1..MaxRows) = IF 1 > MaxRows THEN 0 ELSE MaxRows - 1 + 1
          /\ IsFiniteSet(1..MaxCols)
          /\ Cardinality(1..MaxCols) = IF 1 > MaxCols THEN 0 ELSE MaxCols - 1 + 1
      BY <1>1, FS_Interval
    <3>. QED  BY <3>1, <1>1
  <2>2. CASE made = "rows"
    BY <2>1, <2>2, <1>1, <1>2 DEF Keys
  <2>3. CASE made # "rows"
    <3>1. /\ IsFiniteSet(Names \cup 1..MaxCols)
          /\ Cardinality(Names \cup 1..MaxCols) =
               C + MaxCols - Cardinality(Names \cap 1..MaxCols)
      BY <2>1, <1>1, FS_Union DEF C
    <3>2. Cardinality(Names \cap 1..MaxCols) \in Nat
      BY <1>1, FS_Intersection, FS_CardinalityType
    <3>3. Cardinality(Names \cup 1..MaxCols) \in Nat
      BY <3>1, FS_CardinalityType
    <3>4. Keys = Names \cup 1..MaxCols
      BY <2>3 DEF Keys
    <3>. QED  BY <3>1, <3>2, <3>3, <3>4, <1>1, <1>2
  <2>. QED  BY <2>2, <2>3
<1>5. ASSUME NEW S \in SUBSET Keys
      PROVE  Cardinality(S) <= most
  <2>1. IsFiniteSet(S) /\ Cardinality(S) <= Cardinality(Keys)
    BY <1>4, FS_Subset
  <2>2. Cardinality(S) \in Nat
    BY <2>1, FS_CardinalityType
  <2>. QED  BY <2>1, <2>2, <1>1, <1>4
<1>. QED  BY <1>3, <1>5, KeysDiffer DEF most

\* A new table: nothing in it, and of the size asked for.
LEMMA CreateIs ==
  ASSUME hash \in [Names -> Nat], NEW a \in Int, NEW b \in 0..2^MAXHBITS, b > 0 => a >= 0
  PROVE  LET u == lua_createtable(a, b)
         IN  /\ Sound(u) /\ Len(u.array) = (IF a > 0 THEN a ELSE 0) /\ Size(u) = NodesFor(b)
             /\ Cardinality(Used(u)) <= 0
             /\ \A x \in KeySet : luaH_get(u, x) = Nil
<1> DEFINE u == lua_createtable(a, b)
           n == luaH_new
<1>1. Sound(n) /\ Size(n) = 0 /\ Used(n) = {} /\ n.array = <<>> /\ n.node = <<>>
  <2>1. n = [array |-> <<>>, node |-> [i \in 0..(0 - 1) |-> FreeNode], lastfree |-> 0]
    <3>1. DOMAIN <<>> = {} /\ 0..(0 - 1) = {}
      OBVIOUS
    <3>2. <<>> = [i \in {} |-> FreeNode]
      BY <3>1
    <3>. QED  BY <3>1, <3>2 DEF luaH_new
  <2>2. <<>> \in Seq(Value)
    OBVIOUS
  <2>3. n.array = <<>> /\ n.node = <<>>
    BY DEF luaH_new
  <2>. HIDE DEF n
  <2>4. Sound(n) /\ Size(n) = 0 /\ Used(n) = {}
    BY <2>1, <2>2, EmptySound
  <2>. QED  BY <2>3, <2>4
<1>2. \A x \in KeySet : luaH_get(n, x) = Nil
  BY <1>1 DEF luaH_get, InArray, Find, Search
<1>3. b \in Nat
  BY PowersAre
<1>4. CASE a > 0 \/ b > 0
  <2>1. u = luaH_resize(n, a, b) /\ a \in Nat
    BY <1>3, <1>4 DEF lua_createtable
  <2>2. LiveKeys(n) = {}
    BY <1>1, <1>2, LiveKeysAre
  <2>3. LiveKeys(n) \ (1..a) = {} /\ Cardinality({}) = 0
    BY <2>2, FS_EmptySet
  <2>. HIDE DEF n, u
  <2>4. Cardinality(LiveKeys(n) \ (1..a)) <= b
    BY <2>3, <1>3
  <2>5. /\ Sound(u) /\ Len(u.array) = a /\ Size(u) = NodesFor(b)
        /\ Cardinality(Used(u)) <= Cardinality(LiveKeys(n) \ (1..a))
        /\ \A x \in KeySet : luaH_get(u, x) = luaH_get(n, x)
    BY <2>1, <2>4, <1>1, ResizeKeeps
  <2>6. Cardinality(Used(u)) <= 0 /\ Len(u.array) = (IF a > 0 THEN a ELSE 0)
    <3>1. Cardinality(LiveKeys(n) \ (1..a)) = 0
      BY <2>3
    <3>2. Cardinality(Used(u)) <= 0
      BY <2>5, <3>1
    <3>. QED  BY <2>1, <2>5, <3>2
  <2>7. \A x \in KeySet : luaH_get(u, x) = Nil
    BY <2>5, <1>2 DEF n
  <2>. QED  BY <2>5, <2>6, <2>7 DEF u
<1>5. CASE ~(a > 0 \/ b > 0)
  <2>1. u = n /\ b = 0
    BY <1>3, <1>5 DEF lua_createtable
  <2>2. Cardinality({}) = 0
    BY FS_EmptySet
  <2>. HIDE DEF n, u
  <2>. QED  BY <2>1, <2>2, <1>1, <1>2, <1>5 DEF NodesFor, u
<1>. QED  BY <1>4, <1>5

\* (int) of a number is an integer.
LEMMA IntIs ==
  ASSUME NEW n \in Nat
  PROVE  ToInt(n) \in Int
<1> DEFINE d == 2 * INT_MAX + 2
<1>1. INT_MAX \in Nat /\ d \in Nat \ {0}
  BY NumbersAssumption
<1>2. n + INT_MAX + 1 \in Nat
  BY <1>1
<1>. HIDE DEF d
<1>3. \A m \in Nat : m % d \in 0..(d - 1)
  BY <1>1
<1>4. (n + INT_MAX + 1) % d \in Int
  BY <1>2, <1>3
<1>. QED  BY <1>1, <1>4 DEF ToInt, d

\* The table before the first column or row: empty, with a place for each column.
LEMMA CreatedIs ==
  ASSUME hash \in [Names -> Nat], made \in Wholes, NEW n \in 0..MaxSize
  PROVE  LET u == Created(made, n)
         IN  /\ Sound(u) /\ \A x \in KeySet : luaH_get(u, x) = Nil
             /\ Cardinality(Used(u)) <= 0
             /\ made = "n" => Len(u.array) = n
             /\ made = "a" => n <= Size(u)
<1> DEFINE most == 2^MAXHBITS
           u == Created(made, n)
<1>1. most \in Nat /\ n \in Nat /\ (made # "rows" => n \in 0..most) /\ 0 \in 0..most
  <2>1. MaxCols \in Nat /\ MaxRows \in Nat /\ most \in Nat /\ Cardinality(Names) \in Nat
    BY SizesAssumption, PowersAre, KeysAssumption, FS_CardinalityType
  <2>2. Cardinality(Names) + MaxCols + MaxRows <= most
    BY SizesAssumption
  <2>. HIDE DEF most
  <2>. QED  BY <2>1, <2>2 DEF MaxSize
<1>. HIDE DEF most
<1>2. CASE made = "a"
  <2>1. u = lua_createtable(0, n) /\ n \in 0..2^MAXHBITS
    BY <1>1, <1>2 DEF Created, most
  <2>2. n <= NodesFor(n)
    BY <2>1, NodesForIs
  <2>. HIDE DEF u
  <2>3. /\ Sound(u) /\ Size(u) = NodesFor(n)
        /\ Cardinality(Used(u)) <= 0
        /\ \A x \in KeySet : luaH_get(u, x) = Nil
    BY <2>1, CreateIs
  <2>. QED  BY <2>2, <2>3, <1>2 DEF u
<1>3. CASE made = "n"
  <2>1. u = lua_createtable(n, 0) /\ 0 \in 0..2^MAXHBITS
    BY <1>1, <1>3 DEF Created, most
  <2>. HIDE DEF u
  <2>2. n \in Int
    BY <1>1
  <2>3. /\ Sound(u) /\ Len(u.array) = (IF n > 0 THEN n ELSE 0)
        /\ Cardinality(Used(u)) <= 0
        /\ \A x \in KeySet : luaH_get(u, x) = Nil
    BY <2>1, <2>2, CreateIs
  <2>4. Len(u.array) = n
    BY <2>3, <1>1
  <2>. QED  BY <2>3, <2>4, <1>3 DEF u
<1>4. CASE made = "rows"
  <2>1. u = lua_createtable(ToInt(n), 0) /\ 0 \in 0..2^MAXHBITS
    BY <1>1, <1>4 DEF Created, most
  <2>. HIDE DEF u
  <2>2. ToInt(n) \in Int
    BY <1>1, IntIs
  <2>3. /\ Sound(u) /\ Cardinality(Used(u)) <= 0
        /\ \A x \in KeySet : luaH_get(u, x) = Nil
    BY <2>1, <2>2, CreateIs
  <2>. QED  BY <2>3, <1>4 DEF u
<1>. QED  BY <1>2, <1>3, <1>4 DEF Wholes

\* Hashes are natural numbers.
LEMMA HashIs ==
  ASSUME hash \in [Names -> Hashes]
  PROVE  hash \in [Names -> Nat]
BY NumbersAssumption

\* A new table satisfies the invariant.
LEMMA InitRight == Init => TableInv
<1>. SUFFICES ASSUME Init PROVE TableInv
  OBVIOUS
<1>1. /\ made \in Wholes /\ size \in 0..MaxSize /\ hash \in [Names -> Hashes]
      /\ tbl = Created(made, size) /\ phase = "filling" /\ cols = <<>> /\ assigns = 0
      /\ content = [k \in Keys |-> Nil] /\ iter = NoTraversal
  BY DEF Init, Wholes, MaxSize
<1>2. hash \in [Names -> Nat]
  BY <1>1, HashIs
<1>3. /\ Sound(tbl) /\ \A x \in KeySet : luaH_get(tbl, x) = Nil
      /\ Cardinality(Used(tbl)) <= 0
  BY <1>1, <1>2, CreatedIs
<1>4. Len(cols) = 0 /\ DOMAIN cols = {} /\ cols \in Seq(IF made = "rows" THEN {NewValue} ELSE Columns)
  BY <1>1
<1>5. MaxSize \in Nat
  BY SizesAssumption DEF MaxSize
<1>6. TypesRight
  <2>1. iter \in [on: BOOLEAN, key: Keys \cup {Nil}, owes: SUBSET Keys]
    BY <1>1 DEF NoTraversal
  <2>2. content \in [Keys -> Value] /\ Len(cols) <= size
    BY <1>1, <1>4, <1>5 DEF Value
  <2>. QED  BY <2>1, <2>2, <1>1, <1>4 DEF TypesRight
<1>7. ValuesRight
  BY <1>1, <1>3 DEF ValuesRight
<1>8. FilledRight
  <2>1. made = "rows" => \A i \in 1..MaxRows : content[i] = Nil /\ ~(i <= Len(cols))
    BY <1>1, <1>4, SizesAssumption DEF Keys
  <2>. QED  BY <2>1, <1>1, <1>4 DEF FilledRight, NoTraversal
<1>9. RoomRight
  BY <1>1, <1>3, <1>4 DEF RoomRight
<1>10. IterRight
  BY <1>1 DEF IterRight, NoTraversal
<1>. QED  BY <1>6, <1>7, <1>8, <1>9, <1>10 DEF TableInv

-----------------------------------------------------------------------------
(* Steps *)

\* The hash of a string stays: what is true of a table before is true after.
LEMMA Carried ==
  ASSUME hash' = hash, NEW u, tbl' = u
  PROVE  /\ Sound(tbl)' <=> Sound(u)
         /\ \A x : luaH_get(tbl, x)' = luaH_get(u, x)
<1>1. Sound(tbl)' <=> Sound(u)
  BY DEF Sound, HomesRight, Home, mainposition
<1>2. \A x : luaH_get(tbl, x)' = luaH_get(u, x)
  BY DEF luaH_get, Find, Search, mainposition
<1>. QED  BY <1>1, <1>2

\* The same of places.
LEMMA PlacesCarried ==
  ASSUME hash' = hash, NEW u, tbl' = u
  PROVE  \A x : findindex(tbl, x)' = findindex(u, x)
BY DEF findindex, Search, mainposition

\* The same of the size a table was made with.
LEMMA CreatedCarried ==
  ASSUME hash' = hash, made' = made, size' = size
  PROVE  /\ Len(Created(made, size).array)' = Len(Created(made, size).array)
         /\ Size(Created(made, size))' = Size(Created(made, size))
BY DEF Created, lua_createtable, luaH_resize, Put, Present, Find, Search, mainposition,
   Insert, Overwrite, MoveAway, HasRoom

\* An assignment takes one node at most.
LEMMA AssignedUses ==
  ASSUME NEW t, Sound(t), NEW u, NEW k, NEW v, Assigned(t, u, k, v)
  PROVE  Cardinality(Used(u)) <= Cardinality(Used(t)) + 1
<1>1. PICK p : Used(u) \subseteq Used(t) \cup {p}
  BY DEF Assigned
<1>2. IsFiniteSet(Used(t)) /\ Cardinality(Used(t)) \in Nat /\ Cardinality(Used(u)) \in Nat
  BY UsedIs DEF Assigned
<1>3. /\ IsFiniteSet(Used(t) \cup {p})
      /\ Cardinality(Used(t) \cup {p}) =
           IF p \in Used(t) THEN Cardinality(Used(t)) ELSE Cardinality(Used(t)) + 1
  BY <1>2, FS_AddElement
<1>4. Cardinality(Used(u)) <= Cardinality(Used(t) \cup {p})
  BY <1>1, <1>3, FS_Subset
<1>. QED  BY <1>2, <1>3, <1>4

\* An assignment to a key keeps the table and what it should have in step.
LEMMA AssignKeeps ==
  ASSUME TypesRight, ValuesRight, NEW k \in Keys, NEW v \in Value, UNCHANGED <<hash, made>>,
         tbl' = luaH_set(tbl, k, v), content' = [content EXCEPT ![k] = v]
  PROVE  /\ ValuesRight' /\ content' \in [Keys -> Value] /\ Keys' = Keys
         /\ Present(tbl, k) \/ HasRoom(tbl, k) => Assigned(tbl, luaH_set(tbl, k, v), k, v)
<1> DEFINE u == luaH_set(tbl, k, v)
<1>1. hash \in [Names -> Nat] /\ Keys \subseteq KeySet
  BY HashIs, KeysAre DEF TypesRight
<1>2. Cardinality(LiveKeys(tbl) \cup {k}) <= 2^MAXHBITS
  <2>1. LiveKeys(tbl) \cup {k} \in SUBSET Keys
    BY <1>1, LiveKeysAre DEF ValuesRight
  <2>. QED  BY <2>1, KeysAre DEF TypesRight
<1>3. /\ Sound(u)
      /\ \A x \in KeySet : luaH_get(u, x) = IF x = k THEN v ELSE luaH_get(tbl, x)
      /\ Present(tbl, k) \/ HasRoom(tbl, k) => Assigned(tbl, u, k, v)
  BY <1>1, <1>2, SetIs DEF ValuesRight
<1>4. Keys' = Keys
  BY DEF Keys
<1>5. content' \in [Keys -> Value]
  BY DEF TypesRight
<1>6. \A x \in Keys : content'[x] = IF x = k THEN v ELSE content[x]
  BY DEF TypesRight
<1>7. tbl' = u
  OBVIOUS
<1>. HIDE DEF u
<1>8. Sound(tbl)' /\ \A x : luaH_get(tbl, x)' = luaH_get(u, x)
  BY <1>3, <1>7, Carried
<1>9. \A x \in KeySet : luaH_get(tbl, x)' = IF x \in Keys THEN content'[x] ELSE Nil
  BY <1>3, <1>6, <1>8 DEF ValuesRight
<1>10. ValuesRight'
  BY <1>4, <1>8, <1>9 DEF ValuesRight
<1>. QED  BY <1>3, <1>4, <1>5, <1>10 DEF u

\* result_to_table, one column: it fits without a rehash.
LEMMA ColumnStep ==
  ASSUME TableInv, result_to_table
  PROVE  TableInv'
<1> USE DEF TableInv
<1>1. PICK col \in Columns :
        /\ tbl' = luaH_set(tbl, KeyOf(col), pushvalue(col))
        /\ content' = [content EXCEPT ![KeyOf(col)] = pushvalue(col)]
        /\ cols' = Append(cols, col)
  BY DEF result_to_table
<1>2. /\ made \in {"a", "n"} /\ phase = "filling" /\ Len(cols) < size
      /\ UNCHANGED <<hash, made, size, phase, iter, assigns>>
  BY DEF result_to_table, Filling
<1> DEFINE k == KeyOf(col)
           v == pushvalue(col)
           L == Len(cols)
<1>3. /\ cols \in Seq(Columns) /\ L \in Nat /\ DOMAIN cols = 1..L /\ size \in 0..MaxCols
      /\ MaxCols \in Nat
  BY <1>2, SizesAssumption DEF TypesRight, MaxSize
<1>4. cols' \in Seq(Columns) /\ Len(cols') = L + 1 /\ DOMAIN cols' = 1..(L + 1)
      /\ cols'[L + 1] = col /\ \A i \in 1..L : cols'[i] = cols[i]
  BY <1>1, <1>3
<1>5. v \in Value
  BY DEF Value
<1>6. k \in Keys /\ k = IF made = "a" THEN col.name ELSE L + 1
  <2>1. col.name \in Names
    BY ColumnsAssumption
  <2>. QED  BY <2>1, <1>2, <1>3 DEF KeyOf, Keys
<1>. HIDE DEF k, v
<1>7. tbl' = luaH_set(tbl, k, v) /\ content' = [content EXCEPT ![k] = v]
  BY <1>1 DEF k, v
<1>8. /\ ValuesRight' /\ content' \in [Keys -> Value] /\ Keys' = Keys
      /\ Present(tbl, k) \/ HasRoom(tbl, k) => Assigned(tbl, luaH_set(tbl, k, v), k, v)
  BY <1>2, <1>5, <1>6, <1>7, AssignKeeps
<1>9. ~iter.on /\ assigns = 0
  BY <1>2 DEF FilledRight
<1>10. TypesRight'
  <2>1. MaxSize' = MaxSize
    BY <1>2 DEF MaxSize
  <2>2. Len(cols') <= size
    BY <1>2, <1>3, <1>4
  <2>. QED  BY <2>1, <2>2, <1>2, <1>4, <1>8 DEF TypesRight
<1>11. \A x \in Keys : content'[x] = IF x = k THEN v ELSE content[x]
  BY <1>7 DEF TypesRight
<1>12. FilledRight'
  <2>1. ASSUME made = "n", NEW i \in 1..(L + 1)
        PROVE  content'[i] = pushvalue(cols'[i])
    <3>1. i \in Keys /\ k = L + 1
      BY <2>1, <1>2, <1>3, <1>6 DEF Keys
    <3>2. CASE i = L + 1
      BY <3>1, <3>2, <1>4, <1>11 DEF v
    <3>3. CASE i \in 1..L
      BY <2>1, <3>1, <3>3, <1>2, <1>3, <1>4, <1>11 DEF FilledRight
    <3>. QED  BY <3>2, <3>3, <1>3
  <2>2. ASSUME made = "a", NEW i \in 1..(L + 1),
               \A j \in (i + 1)..(L + 1) : cols'[j].name # cols'[i].name
        PROVE  content'[cols'[i].name] = pushvalue(cols'[i])
    <3>1. k = col.name
      BY <2>2, <1>6
    <3>2. CASE i = L + 1
      BY <3>1, <3>2, <1>4, <1>6, <1>11 DEF v
    <3>3. CASE i \in 1..L
      <4>1. cols[i] \in Columns /\ cols'[i] = cols[i] /\ cols[i].name \in Keys
        <5>1. cols[i] \in Columns
          BY <3>3, <1>3
        <5>2. cols[i].name \in Names
          BY <5>1, ColumnsAssumption
        <5>. QED  BY <5>1, <5>2, <3>3, <2>2, <1>4 DEF Keys
      <4>2. L + 1 \in (i + 1)..(L + 1)
        BY <3>3, <1>3
      <4>3. cols[i].name # k
        BY <2>2, <3>1, <4>1, <4>2, <1>4
      <4>4. \A j \in (i + 1)..L : cols[j].name # cols[i].name
        <5>1. \A j \in (i + 1)..L : j \in (i + 1)..(L + 1) /\ j \in 1..L
          BY <3>3, <1>3
        <5>. QED  BY <5>1, <2>2, <4>1, <1>4
      <4>5. content[cols[i].name] = pushvalue(cols[i])
        BY <2>2, <3>3, <4>4, <1>2, <1>3 DEF FilledRight
      <4>. QED  BY <4>1, <4>3, <4>5, <1>11
    <3>. QED  BY <3>2, <3>3, <1>3
  <2>3. /\ made' = "n" => \A i \in DOMAIN cols' : content'[i] = pushvalue(cols'[i])
        /\ made' = "a" => \A i \in DOMAIN cols' :
             (\A j \in (i + 1)..Len(cols') : cols'[j].name # cols'[i].name) =>
               content'[cols'[i].name] = pushvalue(cols'[i])
    BY <2>1, <2>2, <1>2, <1>4
  <2>. HIDE DEF L
  <2>. QED  BY <2>3, <1>2, <1>9 DEF FilledRight
<1>13. RoomRight'
  <2>1. /\ Len(tbl.array) = Len(Created(made, size).array)
        /\ Size(tbl) = Size(Created(made, size))
        /\ Cardinality(Used(tbl)) <= L
    BY <1>2, <1>9 DEF RoomRight
  <2>2. Sound(tbl) /\ hash \in [Names -> Nat] /\ made \in Wholes /\ size \in 0..MaxSize
    BY HashIs DEF ValuesRight, TypesRight
  <2>3. /\ made = "n" => Len(Created(made, size).array) = size
        /\ made = "a" => size <= Size(Created(made, size))
    BY <2>2, CreatedIs
  <2>4. Present(tbl, k) \/ HasRoom(tbl, k)
    <3>1. CASE made = "n"
      <4>1. k \in 1..Len(tbl.array) /\ DOMAIN tbl.array = 1..Len(tbl.array)
        BY <2>1, <2>2, <2>3, <3>1, <1>2, <1>3, <1>6, TableIs DEF Sound
      <4>. QED  BY <4>1 DEF Present, InArray
    <3>2. CASE made = "a"
      <4>1. Size(tbl) \in Nat /\ Cardinality(Used(tbl)) \in Nat
        BY <2>2, UsedIs DEF Sound
      <4>2. Cardinality(Used(tbl)) < Size(tbl)
        BY <2>1, <2>3, <3>2, <4>1, <1>2, <1>3
      <4>. QED  BY <2>2, <4>2, UsedIs, RoomIs
    <3>. QED  BY <3>1, <3>2, <1>2
  <2>5. Assigned(tbl, tbl', k, v)
    BY <2>4, <1>7, <1>8
  <2>6. Len(tbl'.array) = Len(tbl.array) /\ Size(tbl') = Size(tbl)
    BY <2>5 DEF Assigned
  <2>7. Cardinality(Used(tbl')) <= L + 1
    <3> DEFINE w == luaH_set(tbl, k, v)
    <3>1. Assigned(tbl, w, k, v) /\ tbl' = w
      BY <2>4, <1>7, <1>8
    <3>. HIDE DEF w
    <3>2. Cardinality(Used(w)) <= Cardinality(Used(tbl)) + 1
      BY <2>2, <3>1, AssignedUses
    <3>3. Cardinality(Used(tbl)) \in Nat /\ Cardinality(Used(w)) \in Nat
      BY <2>2, <3>1, UsedIs DEF Assigned
    <3>4. Cardinality(Used(w)) <= L + 1
      BY <2>1, <3>2, <3>3, <1>3
    <3>. QED  BY <3>1, <3>4
  <2>8. /\ Len(Created(made, size).array)' = Len(Created(made, size).array)
        /\ Size(Created(made, size))' = Size(Created(made, size))
    BY <1>2, CreatedCarried
  <2>. QED  BY <2>1, <2>6, <2>7, <2>8, <1>4 DEF RoomRight
<1>14. IterRight'
  BY <1>2, <1>9 DEF IterRight
<1>. QED  BY <1>8, <1>10, <1>12, <1>13, <1>14

\* cursor_fetch_all, one row: the table may grow.
LEMMA RowStep ==
  ASSUME TableInv, fetch_all_row
  PROVE  TableInv'
<1> USE DEF TableInv
<1> DEFINE L == Len(cols)
           k == L + 1
<1>1. /\ made = "rows" /\ phase = "filling" /\ L < size
      /\ tbl' = luaH_set(tbl, k, NewValue) /\ content' = [content EXCEPT ![k] = NewValue]
      /\ cols' = Append(cols, NewValue)
      /\ UNCHANGED <<hash, made, size, phase, iter, assigns>>
  BY DEF fetch_all_row, Filling
<1>2. /\ cols \in Seq({NewValue}) /\ L \in Nat /\ size \in 0..MaxRows /\ MaxRows \in Nat
  BY <1>1, SizesAssumption DEF TypesRight, MaxSize
<1>3. cols' \in Seq({NewValue}) /\ Len(cols') = L + 1
  BY <1>1, <1>2
<1>4. k \in Keys /\ NewValue \in Value /\ Keys = 1..MaxRows
  BY <1>1, <1>2 DEF Keys, Value
<1>5. /\ ValuesRight' /\ content' \in [Keys -> Value] /\ Keys' = Keys
  <2>. HIDE DEF k
  <2>. QED  BY <1>1, <1>4, AssignKeeps
<1>6. ~iter.on /\ assigns = 0
  BY <1>1 DEF FilledRight
<1>7. TypesRight'
  <2>1. MaxSize' = MaxSize
    BY <1>1 DEF MaxSize
  <2>2. Len(cols') <= size
    BY <1>1, <1>2, <1>3
  <2>. QED  BY <2>1, <2>2, <1>1, <1>3, <1>5 DEF TypesRight
<1>8. FilledRight'
  <2>1. \A i \in 1..MaxRows : content'[i] = IF i = k THEN NewValue ELSE content[i]
    BY <1>1, <1>4 DEF TypesRight
  <2>2. \A i \in 1..MaxRows : content[i] = IF i <= L THEN NewValue ELSE Nil
    BY <1>1 DEF FilledRight
  <2>3. \A i \in 1..MaxRows : content'[i] = IF i <= Len(cols') THEN NewValue ELSE Nil
    <3> TAKE i \in 1..MaxRows
    <3>1. i <= L + 1 <=> i = k \/ i <= L
      BY <1>2
    <3>. HIDE DEF k
    <3>. QED  BY <2>1, <2>2, <3>1, <1>3
  <2>. HIDE DEF k, L
  <2>. QED  BY <2>3, <1>1, <1>6 DEF FilledRight
<1>9. RoomRight'
  BY <1>1 DEF RoomRight
<1>10. IterRight'
  BY <1>1, <1>6 DEF IterRight
<1>. QED  BY <1>5, <1>7, <1>8, <1>9, <1>10

\* Where only values change, and the keys keep their places.
LEMMA SameKeysUse ==
  ASSUME NEW t, NEW u, Sound(t), SameKeys(t, u)
  PROVE  Used(u) = Used(t) /\ Size(u) = Size(t) /\ Len(u.array) = Len(t.array)
BY DEF SameKeys, Used, Size

\* The collector: keys die at their places.
LEMMA CollectStep ==
  ASSUME TableInv, Collect
  PROVE  TableInv'
<1> USE DEF TableInv
<1>1. PICK white \in SUBSET Names : tbl' = traversestrongtable(tbl, white)
  BY DEF Collect
<1>2. UNCHANGED <<hash, made, size, phase, cols, content, iter, assigns>>
  BY DEF Collect
<1> DEFINE u == traversestrongtable(tbl, white)
<1>3. tbl' = u /\ hash \in [Names -> Nat] /\ Sound(tbl)
  BY <1>1, HashIs DEF TypesRight, ValuesRight
<1>4. /\ Sound(u) /\ SameKeys(tbl, u)
      /\ \A x \in KeySet : luaH_get(u, x) = luaH_get(tbl, x)
  BY <1>3, CollectKeeps
<1>. HIDE DEF u
<1>5. Sound(tbl)' /\ \A x : luaH_get(tbl, x)' = luaH_get(u, x)
  BY <1>2, <1>3, <1>4, Carried
<1>6. Keys' = Keys /\ MaxSize' = MaxSize
  BY <1>2 DEF Keys, MaxSize
<1>7. TypesRight'
  BY <1>2, <1>6 DEF TypesRight
<1>8. ValuesRight'
  <2>1. \A x \in KeySet : luaH_get(tbl, x)' = luaH_get(tbl, x)
    BY <1>4, <1>5
  <2>. QED  BY <2>1, <1>2, <1>5, <1>6 DEF ValuesRight
<1>9. FilledRight'
  BY <1>2 DEF FilledRight
<1>10. RoomRight'
  <2>1. Used(u) = Used(tbl) /\ Size(u) = Size(tbl) /\ Len(u.array) = Len(tbl.array)
    BY <1>3, <1>4, SameKeysUse
  <2>2. Used(tbl') = Used(tbl) /\ Size(tbl') = Size(tbl) /\ Len(tbl'.array) = Len(tbl.array)
    BY <2>1, <1>3
  <2>3. /\ Len(Created(made, size).array)' = Len(Created(made, size).array)
        /\ Size(Created(made, size))' = Size(Created(made, size))
    BY <1>2, CreatedCarried
  <2>. QED  BY <2>2, <2>3, <1>2 DEF RoomRight
<1>11. IterRight'
  <2>1. \A x : findindex(u, x) = findindex(tbl, x)
    BY <1>3, <1>4, PlaceSame
  <2>2. \A x : findindex(tbl, x)' = findindex(tbl, x)
    BY <2>1, <1>2, <1>3, PlacesCarried
  <2>. QED  BY <2>2, <1>2, <1>6 DEF IterRight
<1>. QED  BY <1>7, <1>8, <1>9, <1>10, <1>11

\* Nothing of the table changes.
LEMMA TableStays ==
  ASSUME TableInv, UNCHANGED <<hash, tbl, made, size, content>>
  PROVE  /\ ValuesRight' /\ Keys' = Keys /\ MaxSize' = MaxSize
         /\ \A x : findindex(tbl, x)' = findindex(tbl, x)
         /\ Len(Created(made, size).array)' = Len(Created(made, size).array)
         /\ Size(Created(made, size))' = Size(Created(made, size))
<1>1. Keys' = Keys /\ MaxSize' = MaxSize
  BY DEF Keys, MaxSize
<1>2. (Sound(tbl)' <=> Sound(tbl)) /\ \A x : luaH_get(tbl, x)' = luaH_get(tbl, x)
  BY Carried
<1>3. ValuesRight'
  BY <1>1, <1>2 DEF ValuesRight, TableInv
<1>4. \A x : findindex(tbl, x)' = findindex(tbl, x)
  BY PlacesCarried
<1>. QED  BY <1>1, <1>3, <1>4, CreatedCarried

\* The script gets the table.
LEMMA HandOverStep ==
  ASSUME TableInv, HandOver
  PROVE  TableInv'
<1> USE DEF TableInv
<1>1. /\ phase' = "script" /\ cols' = <<>>
      /\ UNCHANGED <<hash, tbl, made, size, content, iter, assigns>>
  BY DEF HandOver
<1>2. /\ ValuesRight' /\ Keys' = Keys /\ MaxSize' = MaxSize
      /\ \A x : findindex(tbl, x)' = findindex(tbl, x)
      /\ Len(Created(made, size).array)' = Len(Created(made, size).array)
      /\ Size(Created(made, size))' = Size(Created(made, size))
  BY <1>1, TableStays
<1>3. TypesRight'
  <2>1. Len(<<>>) = 0 /\ <<>> \in Seq(IF made = "rows" THEN {NewValue} ELSE Columns)
    OBVIOUS
  <2>2. 0 <= size
    BY SizesAssumption DEF TypesRight, MaxSize
  <2>3. cols' \in Seq(IF made' = "rows" THEN {NewValue} ELSE Columns) /\ Len(cols') <= size'
    BY <2>1, <2>2, <1>1
  <2>. QED  BY <2>3, <1>1, <1>2 DEF TypesRight
<1>4. FilledRight'
  BY <1>1 DEF FilledRight
<1>5. RoomRight'
  BY <1>1, <1>2 DEF RoomRight
<1>6. IterRight'
  BY <1>1, <1>2 DEF IterRight
<1>. QED  BY <1>2, <1>3, <1>4, <1>5, <1>6

\* Nothing happens.
LEMMA StutterStep ==
  ASSUME TableInv, UNCHANGED vars
  PROVE  TableInv'
<1> USE DEF TableInv
<1>1. UNCHANGED <<hash, tbl, made, size, phase, cols, content, iter, assigns>>
  BY DEF vars
<1>2. /\ ValuesRight' /\ Keys' = Keys /\ MaxSize' = MaxSize
      /\ \A x : findindex(tbl, x)' = findindex(tbl, x)
      /\ Len(Created(made, size).array)' = Len(Created(made, size).array)
      /\ Size(Created(made, size))' = Size(Created(made, size))
  BY <1>1, TableStays
<1>3. TypesRight'
  BY <1>1, <1>2 DEF TypesRight
<1>4. FilledRight'
  BY <1>1 DEF FilledRight
<1>5. RoomRight'
  BY <1>1, <1>2 DEF RoomRight
<1>6. IterRight'
  BY <1>1, <1>2 DEF IterRight
<1>. QED  BY <1>2, <1>3, <1>4, <1>5, <1>6

\* The script assigns: in a traversal only to a key that is there, so nothing moves.
LEMMA AssignStep ==
  ASSUME TableInv, Assign
  PROVE  TableInv'
<1> USE DEF TableInv
<1>1. PICK k \in Keys, v \in {Nil, NewValue} :
        /\ iter.on => content[k] # Nil
        /\ tbl' = luaH_set(tbl, k, v)
        /\ content' = [content EXCEPT ![k] = v]
        /\ iter' = IF v = Nil THEN [iter EXCEPT !.owes = @ \ {k}] ELSE iter
  BY DEF Assign
<1>2. /\ phase = "script" /\ assigns' = assigns + 1
      /\ UNCHANGED <<hash, made, size, phase, cols>>
  BY DEF Assign
<1>3. v \in Value /\ hash \in [Names -> Nat] /\ Sound(tbl) /\ k \in KeySet
  BY HashIs, KeysAre DEF Value, TypesRight, ValuesRight
<1>4. /\ ValuesRight' /\ content' \in [Keys -> Value] /\ Keys' = Keys
      /\ Present(tbl, k) \/ HasRoom(tbl, k) => Assigned(tbl, luaH_set(tbl, k, v), k, v)
  BY <1>1, <1>2, <1>3, AssignKeeps
<1>5. /\ iter'.on = iter.on /\ iter'.key = iter.key
      /\ iter'.owes = IF v = Nil THEN iter.owes \ {k} ELSE iter.owes
      /\ iter' \in [on: BOOLEAN, key: Keys \cup {Nil}, owes: SUBSET Keys]
  BY <1>1 DEF TypesRight
<1>6. TypesRight'
  <2>1. MaxSize' = MaxSize /\ assigns' \in Nat
    BY <1>2 DEF MaxSize, TypesRight
  <2>. QED  BY <2>1, <1>2, <1>4, <1>5 DEF TypesRight
<1>7. FilledRight'
  BY <1>2 DEF FilledRight
<1>8. RoomRight'
  <2>1. assigns' # 0
    BY <1>2 DEF TypesRight
  <2>. QED  BY <2>1 DEF RoomRight
<1>9. IterRight'
  <2>1. SUFFICES ASSUME iter.on
                 PROVE  /\ findindex(tbl, iter.key)' \in Nat
                        /\ iter'.owes = {x \in Keys' : content'[x] # Nil /\
                                findindex(tbl, x)' > findindex(tbl, iter.key)'}
    BY <1>5 DEF IterRight
  <2>2. Present(tbl, k)
    <3>1. luaH_get(tbl, k) # Nil
      BY <2>1, <1>1, <1>3 DEF ValuesRight
    <3>. QED  BY <3>1 DEF Present, luaH_get
  <2> DEFINE u == Overwrite(tbl, k, v)
  <2>3. tbl' = u
    BY <2>2, <1>1 DEF luaH_set
  <2>4. Sound(u) /\ SameKeys(tbl, u)
    BY <2>2, <1>3, OverwriteAssigns, OverwriteSame DEF Assigned
  <2>. HIDE DEF u
  <2>5. \A x : findindex(u, x) = findindex(tbl, x)
    BY <2>4, <1>3, PlaceSame
  <2>6. \A x : findindex(tbl, x)' = findindex(tbl, x)
    BY <2>3, <2>5, <1>2, PlacesCarried
  <2>7. \A x \in Keys : content'[x] = IF x = k THEN v ELSE content[x]
    BY <1>1 DEF TypesRight
  <2>8. findindex(tbl, iter.key)' = findindex(tbl, iter.key)
    BY <2>6, <1>5
  <2>9. content[k] # Nil
    BY <2>1, <1>1
  <2>. QED  BY <2>1, <2>6, <2>7, <2>8, <2>9, <1>4, <1>5 DEF IterRight
<1>. QED  BY <1>4, <1>6, <1>7, <1>8, <1>9

\* A traversal begins: it owes what there is.
LEMMA TraverseStep ==
  ASSUME TableInv, Traverse
  PROVE  TableInv'
<1> USE DEF TableInv
<1>1. /\ phase = "script"
      /\ iter' = [on |-> TRUE, key |-> Nil, owes |-> {k \in Keys : content[k] # Nil}]
      /\ UNCHANGED <<hash, tbl, made, size, phase, cols, content, assigns>>
  BY DEF Traverse
<1>2. /\ ValuesRight' /\ Keys' = Keys /\ MaxSize' = MaxSize
      /\ \A x : findindex(tbl, x)' = findindex(tbl, x)
      /\ Len(Created(made, size).array)' = Len(Created(made, size).array)
      /\ Size(Created(made, size))' = Size(Created(made, size))
  BY <1>1, TableStays
<1>3. TypesRight'
  <2>1. iter' \in [on: BOOLEAN, key: Keys \cup {Nil}, owes: SUBSET Keys]
    BY <1>1
  <2>. QED  BY <2>1, <1>1, <1>2 DEF TypesRight
<1>4. FilledRight'
  BY <1>1 DEF FilledRight
<1>5. RoomRight'
  BY <1>1, <1>2 DEF RoomRight
<1>6. IterRight'
  <2>1. /\ iter'.key = Nil /\ iter'.owes = {k \in Keys : content[k] # Nil}
    BY <1>1
  <2>2. findindex(tbl, Nil) = 0
    BY DEF findindex
  <2>3. findindex(tbl, iter.key)' = 0
    BY <2>1, <2>2, <1>2
  <2>4. Keys \subseteq KeySet /\ hash \in [Names -> Nat]
    BY KeysAre, HashIs DEF TypesRight
  <2>5. \A k \in Keys : content[k] # Nil => findindex(tbl, k) \in Nat \ {0}
    BY <2>4, PlacesAre DEF ValuesRight
  <2>6. \A k \in Keys : content[k] # Nil => findindex(tbl, k) > 0
    BY <2>5
  <2>. QED  BY <2>1, <2>3, <2>6, <1>1, <1>2 DEF IterRight
<1>. QED  BY <1>2, <1>3, <1>4, <1>5, <1>6

\* What the traversal comes to next is what it owes.
LEMMA OwesIs ==
  ASSUME TableInv, iter.on
  PROVE  LET k == luaH_next(tbl, iter.key)
         IN  IF iter.owes = {} THEN k = Nil
             ELSE /\ k \in iter.owes
                  /\ \A x \in iter.owes \ {k} : findindex(tbl, x) > findindex(tbl, k)
<1> DEFINE rest == {y \in KeySet : luaH_get(tbl, y) # Nil /\
                                  findindex(tbl, y) > findindex(tbl, iter.key)}
<1>1. Sound(tbl) /\ hash \in [Names -> Nat] /\ Keys \subseteq KeySet
  BY HashIs, KeysAre DEF TableInv, ValuesRight, TypesRight
<1>2. /\ findindex(tbl, iter.key) \in Int
      /\ iter.owes = {k \in Keys : content[k] # Nil /\
                                   findindex(tbl, k) > findindex(tbl, iter.key)}
  BY DEF TableInv, IterRight
<1>3. rest = iter.owes
  BY <1>1, <1>2 DEF TableInv, ValuesRight
<1>4. LET x == luaH_next(tbl, iter.key)
      IN  IF rest = {} THEN x = Nil
          ELSE x \in rest /\ \A y \in rest \ {x} : findindex(tbl, y) > findindex(tbl, x)
  BY <1>1, <1>2, NextIs
<1>. HIDE DEF rest
<1>. QED  BY <1>3, <1>4

\* lua_next: the next key is the first one still owed.
LEMMA NextStep ==
  ASSUME TableInv, lua_next
  PROVE  TableInv'
<1> USE DEF TableInv
<1> DEFINE k == luaH_next(tbl, iter.key)
<1>1. /\ iter.on
      /\ iter' = IF k = Nil THEN NoTraversal ELSE [iter EXCEPT !.key = k, !.owes = @ \ {k}]
      /\ UNCHANGED <<hash, tbl, made, size, phase, cols, content, assigns>>
  BY DEF lua_next
<1>2. /\ ValuesRight' /\ Keys' = Keys /\ MaxSize' = MaxSize
      /\ \A x : findindex(tbl, x)' = findindex(tbl, x)
      /\ Len(Created(made, size).array)' = Len(Created(made, size).array)
      /\ Size(Created(made, size))' = Size(Created(made, size))
  BY <1>1, TableStays
<1>3. Nil \notin Keys /\ Keys \subseteq KeySet /\ hash \in [Names -> Nat]
  BY KeysAre, HashIs DEF TypesRight
<1>4. IF iter.owes = {} THEN k = Nil
      ELSE /\ k \in iter.owes
           /\ \A x \in iter.owes \ {k} : findindex(tbl, x) > findindex(tbl, k)
  BY <1>1, OwesIs
<1>. HIDE DEF k
<1>5. iter.owes \subseteq Keys /\ iter \in [on: BOOLEAN, key: Keys \cup {Nil}, owes: SUBSET Keys]
  BY DEF TypesRight
<1>6. FilledRight'
  BY <1>1 DEF FilledRight
<1>7. RoomRight'
  BY <1>1, <1>2 DEF RoomRight
<1>8. CASE k = Nil
  <2>1. iter' = NoTraversal
    BY <1>1, <1>8
  <2>2. TypesRight'
    BY <2>1, <1>1, <1>2 DEF TypesRight, NoTraversal
  <2>3. IterRight'
    BY <2>1 DEF IterRight, NoTraversal
  <2>. QED  BY <2>2, <2>3, <1>2, <1>6, <1>7
<1>9. CASE k # Nil
  <2>1. k \in iter.owes /\ k \in Keys
    BY <1>4, <1>5, <1>9
  <2>2. /\ iter'.on /\ iter'.key = k /\ iter'.owes = iter.owes \ {k}
        /\ iter' \in [on: BOOLEAN, key: Keys \cup {Nil}, owes: SUBSET Keys]
    BY <2>1, <1>1, <1>5, <1>9
  <2>3. TypesRight'
    BY <2>2, <1>1, <1>2 DEF TypesRight
  <2>4. IterRight'
    <3>1. iter.owes = {x \in Keys : content[x] # Nil /\
                                    findindex(tbl, x) > findindex(tbl, iter.key)}
          /\ findindex(tbl, iter.key) \in Nat
      BY <1>1 DEF IterRight
    <3>2. \A x \in Keys : content[x] # Nil => findindex(tbl, x) \in Nat \ {0}
      BY <1>3, PlacesAre DEF ValuesRight
    <3>3. content[k] # Nil /\ findindex(tbl, k) \in Nat
          /\ findindex(tbl, k) > findindex(tbl, iter.key)
      BY <2>1, <3>1, <3>2
    <3>4. ASSUME NEW x \in Keys, content[x] # Nil
          PROVE  x \in iter.owes \ {k} <=> findindex(tbl, x) > findindex(tbl, k)
      <4>1. findindex(tbl, x) \in Nat
        BY <3>2, <3>4
      <4>2. ASSUME findindex(tbl, x) > findindex(tbl, k)
            PROVE  x \in iter.owes \ {k}
        <5>1. findindex(tbl, x) > findindex(tbl, iter.key) /\ x # k
          BY <3>1, <3>3, <4>1, <4>2
        <5>. QED  BY <5>1, <3>1, <3>4
      <4>3. ASSUME x \in iter.owes \ {k}
            PROVE  findindex(tbl, x) > findindex(tbl, k)
        BY <4>3, <2>1, <1>4
      <4>. QED  BY <4>2, <4>3
    <3>5. iter.owes \ {k} = {x \in Keys : content[x] # Nil /\ findindex(tbl, x) > findindex(tbl, k)}
      BY <3>1, <3>4
    <3>6. findindex(tbl, iter.key)' = findindex(tbl, k)
      BY <2>2, <1>2
    <3>. QED  BY <2>2, <3>3, <3>5, <3>6, <1>1, <1>2 DEF IterRight
  <2>. QED  BY <2>3, <2>4, <1>2, <1>6, <1>7
<1>. QED  BY <1>8, <1>9

\* Every step keeps the invariant.
LEMMA TableInvInductive == TableInv /\ [Next]_vars => TableInv'
<1>. SUFFICES ASSUME TableInv, [Next]_vars PROVE TableInv'
  OBVIOUS
<1>1. CASE result_to_table
  BY <1>1, ColumnStep
<1>2. CASE fetch_all_row
  BY <1>2, RowStep
<1>3. CASE Collect
  BY <1>3, CollectStep
<1>4. CASE HandOver
  BY <1>4, HandOverStep
<1>5. CASE Assign
  BY <1>5, AssignStep
<1>6. CASE Traverse
  BY <1>6, TraverseStep
<1>7. CASE lua_next
  BY <1>7, NextStep
<1>8. CASE UNCHANGED vars
  BY <1>8, StutterStep
<1>. QED  BY <1>1, <1>2, <1>3, <1>4, <1>5, <1>6, <1>7, <1>8 DEF Next

\* The inductive invariant: the table is sound, it has what it should have, a new one has
\* room for what is still to come, and a traversal owes the keys behind its place.
THEOREM TableInvAlways == Spec => []TableInv
BY InitRight, TableInvInductive, PTL DEF Spec

\* TypeOK: the shape of the table.
THEOREM TypeCorrect == Spec => []TypeOK
<1>1. TableInv => TypeOK
  <2>. SUFFICES ASSUME TableInv PROVE TableSound(tbl)
    BY DEF TypeOK
  <2> DEFINE N == Size(tbl)
  <2>1. Sound(tbl) /\ hash \in [Names -> Nat]
    BY HashIs DEF TableInv, ValuesRight, TypesRight
  <2>2. /\ N \in Nat /\ DOMAIN tbl.node = 0..(N - 1) /\ (tbl.node = <<>> <=> N = 0)
        /\ \A i \in 0..(N - 1) : tbl.node[i] \in NodeSet(N)
        /\ tbl.lastfree \in 0..N /\ N \in {0} \cup PowersOfTwo
        /\ DOMAIN tbl.array = 1..Len(tbl.array)
    BY <2>1, TableIs DEF Sound
  <2>. HIDE DEF N
  <2>3. tbl.node # <<>> => CeilPow2(N) = N
    BY <2>2, CeilSame
  <2>4. ASSUME NEW i \in DOMAIN tbl.node
        PROVE  /\ tbl.node[i].key = Nil => i < tbl.lastfree /\ tbl.node[i] = FreeNode
               /\ tbl.node[i].next \in {Nowhere} \cup DOMAIN tbl.node
               /\ Live(tbl.node[i]) =>
                    Find(tbl, tbl.node[i].key) = i /\ ~InArray(tbl, tbl.node[i].key)
    <3>1. tbl.node[i].key = Nil => i < tbl.lastfree /\ tbl.node[i] = FreeNode
      BY <2>1 DEF Sound, FreeRight
    <3>2. tbl.node[i].next \in {Nowhere} \cup DOMAIN tbl.node
      BY <2>2 DEF NodeSet
    <3>3. ASSUME Live(tbl.node[i])
          PROVE  Find(tbl, tbl.node[i].key) = i /\ ~InArray(tbl, tbl.node[i].key)
      <4>1. tbl.node[i].key # Nil /\ i \in Used(tbl)
        BY <3>1, <3>3 DEF Live, FreeNode, Used
      <4>2. tbl.node[i].key \in KeySet
        BY <4>1, <2>2 DEF NodeSet
      <4>3. ~tbl.node[i].dead /\ ~InArray(tbl, tbl.node[i].key)
        BY <4>1, <3>3, <2>1, <2>2 DEF Sound, KeysRight, Live, InArray
      <4>. QED  BY <4>2, <4>3, <2>1, FindIs
    <3>. QED  BY <3>1, <3>2, <3>3
  <2>. QED  BY <2>2, <2>3, <2>4 DEF TableSound, N
<1>. QED  BY <1>1, TableInvAlways, PTL

\* LookupRight: through collisions, rehashing and the collector a search finds the last value
\* assigned.
THEOREM LookupCorrect == Spec => []LookupRight
<1>1. TableInv => LookupRight
  BY KeysAre DEF TableInv, ValuesRight, TypesRight, LookupRight
<1>. QED  BY <1>1, TableInvAlways, PTL

\* PresizedEnough: what lua_createtable makes needs no rehash while a row is put into it.
THEOREM PresizingCorrect == Spec => []PresizedEnough
<1>1. TableInv => PresizedEnough
  BY DEF TableInv, RoomRight, PresizedEnough
<1>. QED  BY <1>1, TableInvAlways, PTL

\* TraversalRight: a traversal gives each key that is still there once, whatever is erased.
THEOREM TraversalCorrect == Spec => []TraversalRight
<1>1. TableInv => TraversalRight
  <2>. SUFFICES ASSUME TableInv, iter.on
                PROVE  /\ findindex(tbl, iter.key) # Nowhere
                       /\ LET k == luaH_next(tbl, iter.key)
                          IN  IF iter.owes = {} THEN k = Nil ELSE k \in iter.owes
    BY DEF TraversalRight
  <2>1. findindex(tbl, iter.key) # Nowhere
    BY KeysDiffer DEF TableInv, IterRight
  <2>. QED  BY <2>1, OwesIs
<1>. QED  BY <1>1, TableInvAlways, PTL

\* What is pushed for a column whose type can say what it holds is what the server sent.
LEMMA PushesExactly ==
  ASSUME NEW col \in Columns, Exact(col)
  PROVE  pushvalue(col) = Clamped(col)
<1>1. /\ col.type \in IntegerTypes => col.data \in Int \cup {Nil}
      /\ col.type = "NULL" => col.data = Nil
      /\ LLONG_MAX \in Nat
  BY ColumnsAssumption, NumbersAssumption
<1>2. CASE col.data = Nil \/ col.type = "NULL"
  BY <1>1, <1>2 DEF pushvalue, Clamped
<1>3. CASE col.data # Nil /\ col.type \in IntegerTypes
  <2>1. pushvalue(col) = atoll(col) /\ col.type # "BIT" /\ col.data \in Int
    BY <1>1, <1>3 DEF pushvalue, Exact, IntegerTypes
  <2>2. LLONG_MIN \in Int /\ LLONG_MIN < LLONG_MAX
    BY <1>1 DEF LLONG_MIN
  <2>. QED  BY <2>1, <2>2, <1>1, <1>3 DEF Clamped, atoll
<1>4. CASE col.data # Nil /\ col.type # "NULL" /\ col.type \notin IntegerTypes
  BY <1>4 DEF pushvalue, Clamped, Exact, atof
<1>. QED  BY <1>2, <1>3, <1>4

\* ColumnsKept: a row's table has each column's value as the server sent it.
THEOREM ColumnsCorrect == Spec => []ColumnsKept
<1>1. TableInv => ColumnsKept
  <2>. SUFFICES ASSUME TableInv, phase = "filling", NEW i \in DOMAIN cols
                PROVE  /\ made = "n" /\ Exact(cols[i]) => luaH_get(tbl, i) = Clamped(cols[i])
                       /\ made = "a" /\ Exact(cols[i])
                            /\ (\A j \in (i + 1)..Len(cols) : cols[j].name # cols[i].name)
                          => luaH_get(tbl, cols[i].name) = Clamped(cols[i])
    BY DEF ColumnsKept
  <2>1. ASSUME made # "rows"
        PROVE  /\ cols[i] \in Columns /\ i \in 1..MaxCols /\ cols[i].name \in Names
               /\ Keys = Names \cup 1..MaxCols /\ Keys \subseteq KeySet
    <3>1. cols \in Seq(Columns) /\ Len(cols) <= size /\ size \in 0..MaxCols /\ MaxCols \in Nat
      BY <2>1, SizesAssumption DEF TableInv, TypesRight, MaxSize
    <3>2. cols[i] \in Columns /\ i \in 1..MaxCols
      BY <3>1
    <3>. QED  BY <3>2, <2>1, ColumnsAssumption, KeysAre DEF Keys, TableInv, TypesRight
  <2>2. ASSUME made = "n", Exact(cols[i])
        PROVE  luaH_get(tbl, i) = Clamped(cols[i])
    <3>1. content[i] = pushvalue(cols[i])
      BY <2>2 DEF TableInv, FilledRight
    <3>. QED  BY <3>1, <2>1, <2>2, PushesExactly DEF TableInv, ValuesRight
  <2>3. ASSUME made = "a", Exact(cols[i]),
               \A j \in (i + 1)..Len(cols) : cols[j].name # cols[i].name
        PROVE  luaH_get(tbl, cols[i].name) = Clamped(cols[i])
    <3>1. content[cols[i].name] = pushvalue(cols[i])
      BY <2>3 DEF TableInv, FilledRight
    <3>. QED  BY <3>1, <2>1, <2>3, PushesExactly DEF TableInv, ValuesRight
  <2>. QED  BY <2>2, <2>3
<1>. QED  BY <1>1, TableInvAlways, PTL

-----------------------------------------------------------------------------
(* The length *)

\* A border between i and j: i has a value, unless it is 0, and j has none.
Between(t, p) ==
  /\ p \in Nat \X Nat /\ p[1] < p[2]
  /\ p[1] > 0 => luaH_get(t, p[1]) # Nil

\* The binary search ends at a border: each turn brings its two ends closer.
LEMMA BinarySearchIs ==
  ASSUME NEW t, NEW i \in Nat, NEW j \in Nat, Between(t, <<i, j>>), luaH_get(t, j) = Nil
  PROVE  LET n == BinarySearch(t, i, j)
         IN  /\ n \in Nat /\ luaH_get(t, n + 1) = Nil
             /\ n > 0 => luaH_get(t, n) # Nil
<1> DEFINE d == j - i
           v == Turns(Halve(t), <<i, j>>, d)
           Good(n) == /\ Between(t, v[n]) /\ luaH_get(t, v[n][2]) = Nil
                      /\ v[n][2] - v[n][1] = 1 \/ v[n][2] - v[n][1] <= d - n
           A == {n \in 0..d : Good(n)}
<1>1. d \in Nat \ {0}
  BY DEF Between
<1>2. v[0] = <<i, j>> /\ \A n \in 1..d : v[n] = Halve(t)[v[n - 1]]
  <2>. HIDE DEF d
  <2>. QED  BY <1>1, TurnsAre
<1>. HIDE DEF v
<1>3. 0 \in A
  BY <1>1, <1>2
<1>4. ASSUME NEW n \in 1..d, n - 1 \in A
      PROVE  n \in A
  <2> DEFINE p == v[n - 1]
             m == (p[1] + p[2]) \div 2
  <2>1. /\ p \in Nat \X Nat /\ p[1] \in Nat /\ p[2] \in Nat /\ p[1] < p[2]
        /\ p[1] > 0 => luaH_get(t, p[1]) # Nil
        /\ luaH_get(t, p[2]) = Nil
        /\ p[2] - p[1] = 1 \/ p[2] - p[1] <= d - (n - 1)
    BY <1>4 DEF Between
  <2>2. v[n] = IF p[2] - p[1] <= 1 THEN p
               ELSE IF luaH_get(t, m) = Nil THEN <<p[1], m>> ELSE <<m, p[2]>>
    BY <1>2, <2>1 DEF Halve
  <2>. HIDE DEF p
  <2>3. CASE p[2] - p[1] <= 1
    <3>1. v[n] = p /\ p[2] - p[1] = 1
      BY <2>1, <2>2, <2>3
    <3>. QED  BY <3>1, <2>1 DEF Between
  <2>4. CASE p[2] - p[1] > 1
    <3>1. m \in Nat /\ p[1] < m /\ m < p[2]
      BY <2>1, <2>4
    <3>. HIDE DEF m
    <3>2. CASE luaH_get(t, m) = Nil
      <4>1. v[n] = <<p[1], m>> /\ v[n][1] = p[1] /\ v[n][2] = m
        BY <2>1, <2>2, <2>4, <3>2
      <4>2. v[n][2] - v[n][1] <= d - n
        BY <4>1, <2>1, <2>4, <3>1, <1>1
      <4>. QED  BY <4>1, <4>2, <2>1, <3>1, <3>2 DEF Between
    <3>3. CASE luaH_get(t, m) # Nil
      <4>1. v[n] = <<m, p[2]>> /\ v[n][1] = m /\ v[n][2] = p[2]
        BY <2>1, <2>2, <2>4, <3>3
      <4>2. v[n][2] - v[n][1] <= d - n
        BY <4>1, <2>1, <2>4, <3>1, <1>1
      <4>. QED  BY <4>1, <4>2, <2>1, <3>1, <3>3 DEF Between
    <3>. QED  BY <3>2, <3>3
  <2>. QED  BY <2>1, <2>3, <2>4
<1>5. 0..d \subseteq A
  <2>. HIDE DEF A, d
  <2>. QED  BY <1>1, <1>3, <1>4, InductTo
<1>6. d \in A
  <2>. HIDE DEF A, d
  <2>. QED  BY <1>1, <1>5
<1>7. /\ v[d] \in Nat \X Nat /\ v[d][1] < v[d][2] /\ luaH_get(t, v[d][2]) = Nil
      /\ v[d][1] > 0 => luaH_get(t, v[d][1]) # Nil
      /\ v[d][2] - v[d][1] = 1 \/ v[d][2] - v[d][1] <= d - d
  BY <1>6 DEF Between
<1>. HIDE DEF d
<1>8. v[d][1] \in Nat /\ v[d][2] = v[d][1] + 1
  BY <1>1, <1>7
<1>. QED  BY <1>7, <1>8 DEF BinarySearch, v, d

\* The doubling comes to a key without a value: each turn before has found another node.
LEMMA DoubleEnds ==
  ASSUME NEW t, Sound(t), hash \in [Names -> Nat], NEW j \in Nat, j = Len(t.array),
         j > 0 => luaH_get(t, j) # Nil
  PROVE  LET p == Turns(Double(t), <<j, j + 1>>, Size(t))[Size(t)]
         IN  Between(t, p) /\ luaH_get(t, p[2]) = Nil
<1> DEFINE N == Size(t)
           w == Turns(Double(t), <<j, j + 1>>, N)
<1>1. /\ N \in Nat /\ t \in TableSet(N) /\ DOMAIN t.node = 0..(N - 1)
      /\ DOMAIN t.array = 1..j
  BY TableIs DEF Sound
<1>2. w[0] = <<j, j + 1>> /\ \A n \in 1..N : w[n] = Double(t)[w[n - 1]]
  <2>1. N \in Nat
    BY <1>1
  <2>. HIDE DEF N
  <2>. QED  BY <2>1, TurnsAre
<1>. HIDE DEF w
<1> DEFINE A == {n \in 0..N : Between(t, w[n]) /\ j < w[n][2]}
<1>3. 0 \in A
  <2>1. w[0] \in Nat \X Nat /\ w[0][1] = j /\ w[0][2] = j + 1
    BY <1>2
  <2>. QED  BY <2>1, <1>1 DEF Between
<1>4. ASSUME NEW n \in 1..N, Between(t, w[n - 1])
      PROVE  /\ luaH_get(t, w[n - 1][2]) = Nil => w[n] = w[n - 1]
             /\ luaH_get(t, w[n - 1][2]) # Nil =>
                  w[n][1] = w[n - 1][2] /\ w[n][2] = 2 * w[n - 1][2] /\ w[n] \in Nat \X Nat
  <2>1. w[n - 1] \in Nat \X Nat /\ w[n - 1][2] \in Nat
    BY <1>4 DEF Between
  <2>2. w[n] = IF luaH_get(t, w[n - 1][2]) = Nil THEN w[n - 1]
               ELSE <<w[n - 1][2], 2 * w[n - 1][2]>>
    BY <2>1, <1>2 DEF Double
  <2>. QED  BY <2>1, <2>2
<1>5. ASSUME NEW n \in 1..N, n - 1 \in A
      PROVE  n \in A
  <2>1. Between(t, w[n - 1]) /\ j < w[n - 1][2]
    BY <1>5
  <2>2. w[n - 1][1] \in Nat /\ w[n - 1][2] \in Nat /\ w[n - 1][1] < w[n - 1][2]
    BY <2>1 DEF Between
  <2>3. CASE luaH_get(t, w[n - 1][2]) = Nil
    BY <2>1, <2>3, <1>4
  <2>4. CASE luaH_get(t, w[n - 1][2]) # Nil
    <3>1. w[n][1] = w[n - 1][2] /\ w[n][2] = 2 * w[n - 1][2] /\ w[n] \in Nat \X Nat
      BY <2>1, <2>4, <1>4
    <3>. QED  BY <3>1, <2>1, <2>2, <2>4 DEF Between
  <2>. QED  BY <2>3, <2>4
<1>6. 0..N \subseteq A
  <2>. HIDE DEF A, N
  <2>. QED  BY <1>1, <1>3, <1>5, InductTo
<1>7. \A n \in 0..N : Between(t, w[n]) /\ j < w[n][2] /\ w[n][2] \in Nat
  BY <1>6 DEF Between
\* If every turn found a key with a value, there were more of them than nodes.
<1>8. luaH_get(t, w[N][2]) = Nil
  <2>. SUFFICES ASSUME luaH_get(t, w[N][2]) # Nil PROVE FALSE
    OBVIOUS
  <2>1. \A n \in 0..N : luaH_get(t, w[n][2]) # Nil
    <3> DEFINE B == {n \in 0..N : luaH_get(t, w[N - n][2]) # Nil}
    <3>1. 0 \in B
      BY <1>1
    <3>2. ASSUME NEW n \in 1..N, n - 1 \in B
          PROVE  n \in B
      <4>1. N - n + 1 \in 1..N /\ (N - n + 1) - 1 = N - n /\ N - (n - 1) = N - n + 1
            /\ N - n \in 0..N
        BY <1>1
      <4>2. luaH_get(t, w[N - n + 1][2]) # Nil
        BY <3>2, <4>1
      <4>. HIDE DEF N
      <4>3. luaH_get(t, w[N - n][2]) = Nil => w[N - n + 1] = w[N - n]
        BY <4>1, <1>4, <1>7
      <4>. QED  BY <4>1, <4>2, <4>3
    <3>3. 0..N \subseteq B
      <4>. HIDE DEF B, N
      <4>. QED  BY <1>1, <3>1, <3>2, InductTo
    <3>4. \A n \in 0..N : N - n \in 0..N /\ N - (N - n) = n
      BY <1>1
    <3>. QED  BY <3>3, <3>4
  <2> DEFINE C == {n \in 0..N : \A m \in 0..(n - 1) : w[m][2] < w[n][2]}
  <2>2. 0 \in C
    BY <1>1
  <2>3. ASSUME NEW n \in 1..N, n - 1 \in C
        PROVE  n \in C
    <3>1. n - 1 \in 0..N /\ n \in 0..N
      BY <1>1
    <3>2. w[n][2] = 2 * w[n - 1][2] /\ w[n - 1][2] \in Nat /\ 0 < w[n - 1][2]
      BY <3>1, <2>1, <1>4, <1>7
    <3>3. ASSUME NEW m \in 0..(n - 1)
          PROVE  w[m][2] < w[n][2]
      <4>1. m \in 0..N
        BY <1>1
      <4>2. m # n - 1 => w[m][2] < w[n - 1][2]
        BY <2>3
      <4>. QED  BY <4>1, <4>2, <3>2, <1>7
    <3>. QED  BY <3>1, <3>3
  <2>4. 0..N \subseteq C
    <3>. HIDE DEF C, N
    <3>. QED  BY <1>1, <2>2, <2>3, InductTo
  <2>5. ASSUME NEW x \in 0..N, NEW y \in 0..N, x # y
        PROVE  w[x][2] # w[y][2]
    <3>1. CASE x < y
      BY <3>1, <2>4, <1>7
    <3>2. CASE y < x
      BY <3>2, <2>4, <1>7
    <3>. QED  BY <3>1, <3>2, <2>5
  <2> DEFINE f == [n \in 0..N |-> Find(t, w[n][2])]
  <2>6. ASSUME NEW n \in 0..N
        PROVE  f[n] \in 0..(N - 1) /\ t.node[f[n]].key = w[n][2]
    <3>1. w[n][2] \in KeySet /\ w[n][2] \notin 1..j
      BY <1>7 DEF KeySet
    <3>2. ~InArray(t, w[n][2])
      BY <3>1, <1>1 DEF InArray
    <3>3. Find(t, w[n][2]) # Nowhere
      BY <3>2, <2>1 DEF luaH_get
    <3>. QED  BY <3>1, <3>3, <1>1, FindIs
  <2>7. /\ IsFiniteSet(0..N) /\ Cardinality(0..N) = N + 1
        /\ IsFiniteSet(0..(N - 1)) /\ Cardinality(0..(N - 1)) = N
    <3>1. /\ IsFiniteSet(0..N) /\ Cardinality(0..N) = IF 0 > N THEN 0 ELSE N - 0 + 1
          /\ IsFiniteSet(0..(N - 1))
          /\ Cardinality(0..(N - 1)) = IF 0 > N - 1 THEN 0 ELSE (N - 1) - 0 + 1
      <4>1. N \in Int /\ N - 1 \in Int /\ 0 \in Int
        BY <1>1
      <4>. HIDE DEF N
      <4>2. IsFiniteSet(0..N) /\ Cardinality(0..N) = IF 0 > N THEN 0 ELSE N - 0 + 1
        BY <4>1, FS_Interval
      <4>3. /\ IsFiniteSet(0..(N - 1))
            /\ Cardinality(0..(N - 1)) = IF 0 > N - 1 THEN 0 ELSE (N - 1) - 0 + 1
        BY <4>1, FS_Interval
      <4>. QED  BY <4>2, <4>3
    <3>. QED  BY <3>1, <1>1
  <2>8. f \in [0..N -> 0..(N - 1)]
    BY <2>6
  <2>9. PICK x, y \in 0..N : x # y /\ f[x] = f[y]
    <3>1. Cardinality(0..N) > Cardinality(0..(N - 1))
      BY <2>7, <1>1
    <3>. HIDE DEF f, N
    <3>. QED  BY <2>7, <2>8, <3>1, FS_PigeonHole
  <2>. HIDE DEF f
  <2>. QED  BY <2>5, <2>6, <2>9
<1>9. N \in 0..N
  BY <1>1
<1>. QED  BY <1>7, <1>8, <1>9 DEF w

\* What luaH_getn answers is a border.
LEMMA LengthIs ==
  ASSUME NEW t, Sound(t), hash \in [Names -> Nat]
  PROVE  LET n == luaH_getn(t)
         IN  /\ n \in Nat /\ luaH_get(t, n + 1) = Nil
             /\ n > 0 => luaH_get(t, n) # Nil
<1> DEFINE L == Len(t.array)
<1>1. L \in Nat /\ DOMAIN t.array = 1..L
  BY TableIs DEF Sound
<1>2. L > 0 => luaH_get(t, L) = t.array[L]
  BY <1>1 DEF luaH_get, InArray
<1>. HIDE DEF L
<1>3. CASE L > 0 /\ t.array[L] = Nil
  <2>1. Between(t, <<0, L>>) /\ luaH_get(t, L) = Nil
    BY <1>1, <1>2, <1>3 DEF Between
  <2>2. luaH_getn(t) = BinarySearch(t, 0, L)
    BY <1>3 DEF luaH_getn, L
  <2>. QED  BY <1>1, <2>1, <2>2, BinarySearchIs
<1>4. CASE ~(L > 0 /\ t.array[L] = Nil) /\ t.node = <<>>
  <2>1. luaH_getn(t) = L
    BY <1>4 DEF luaH_getn, L
  <2>2. ~InArray(t, L + 1)
    BY <1>1 DEF InArray
  <2>3. luaH_get(t, L + 1) = Nil
    BY <2>2, <1>4 DEF luaH_get, Find, Search
  <2>. QED  BY <2>1, <2>3, <1>1, <1>2, <1>4
<1>5. CASE ~(L > 0 /\ t.array[L] = Nil) /\ t.node # <<>>
  <2> DEFINE p == Turns(Double(t), <<L, L + 1>>, Size(t))[Size(t)]
  <2>1. Between(t, p) /\ luaH_get(t, p[2]) = Nil
    BY <1>1, <1>2, <1>5, DoubleEnds DEF L
  <2>2. luaH_getn(t) = BinarySearch(t, p[1], p[2])
    BY <1>5 DEF luaH_getn, unbound_search, L
  <2>. HIDE DEF p
  <2>3. p[1] \in Nat /\ p[2] \in Nat /\ p = <<p[1], p[2]>>
    BY <2>1 DEF Between
  <2>4. Between(t, <<p[1], p[2]>>)
    BY <2>1, <2>3
  <2>. QED  BY <2>1, <2>2, <2>3, <2>4, BinarySearchIs
<1>. QED  BY <1>3, <1>4, <1>5

\* LengthRight: #t is a border of the table, and the number of rows in that of fetch_all.
THEOREM LengthCorrect == Spec => []LengthRight
<1>1. TableInv => LengthRight
  <2> DEFINE n == luaH_getn(tbl)
  <2>. SUFFICES ASSUME TableInv
                PROVE  /\ n > 0 => content[n] # Nil
                       /\ n + 1 \in Keys => content[n + 1] = Nil
                       /\ made = "rows" /\ phase = "filling" => n = Len(cols)
    BY DEF LengthRight
  <2>1. /\ n \in Nat /\ luaH_get(tbl, n + 1) = Nil
        /\ n > 0 => luaH_get(tbl, n) # Nil
    <3>1. Sound(tbl) /\ hash \in [Names -> Nat]
      BY HashIs DEF TableInv, ValuesRight, TypesRight
    <3>. QED  BY <3>1, LengthIs
  <2>. HIDE DEF n
  <2>2. n > 0 => n \in Keys /\ content[n] # Nil
    BY <2>1 DEF TableInv, ValuesRight, KeySet
  <2>3. n + 1 \in Keys => content[n + 1] = Nil
    BY <2>1 DEF TableInv, ValuesRight, KeySet
  <2>4. ASSUME made = "rows", phase = "filling"
        PROVE  n = Len(cols)
    <3>1. /\ \A i \in 1..MaxRows : content[i] = IF i <= Len(cols) THEN NewValue ELSE Nil
          /\ Keys = 1..MaxRows /\ Len(cols) \in Nat /\ Len(cols) <= MaxRows /\ MaxRows \in Nat
          /\ NewValue # Nil
      BY <2>4, SizesAssumption, ColumnsAssumption
         DEF TableInv, FilledRight, TypesRight, MaxSize, Keys
    <3>2. n <= Len(cols)
      BY <3>1, <2>1, <2>2
    <3>3. ~(n + 1 <= Len(cols))
      BY <3>1, <2>1, <2>3
    <3>. QED  BY <3>1, <3>2, <3>3, <2>1
  <2>. QED  BY <2>2, <2>3, <2>4
<1>. QED  BY <1>1, TableInvAlways, PTL

=============================================================================
