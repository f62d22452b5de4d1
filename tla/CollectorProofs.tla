-------------------------- MODULE CollectorProofs --------------------------
(***************************************************************************)
(* The heap of LuaGC stays sound, and nothing that the program can come by *)
(* is freed, for any set of userdata and any GCSWEEPMAX.                   *)
(*                                                                         *)
(* What the collector believes between two of its steps is Heap: dead      *)
(* objects are only where the sweep has still to go (Unswept), and while   *)
(* it marks, what is gray is linked and the main thread will be visited    *)
(* again. Marking is the tri-color invariant, Lives what the program       *)
(* relies on: nothing that it holds is dead or free. The lemmas show what  *)
(* each function of lgc.c makes of these, and that it spares whatever was  *)
(* not dead before (Spares); only atomic lets objects die.                 *)
(***************************************************************************)
EXTENDS LuaGC, FiniteSetTheorems, TLAPS

-----------------------------------------------------------------------------
(* Sequences *)

\* The number of the members of I up to one of them: it counts them, in order.
LEMMA Ranks ==
  ASSUME NEW n \in Nat, NEW I \in SUBSET (1..n)
  PROVE  /\ Cardinality(I) \in Nat
         /\ \A k \in I : Cardinality(I \cap 1..k) \in 1..Cardinality(I)
         /\ \A k, l \in I : k < l => Cardinality(I \cap 1..k) < Cardinality(I \cap 1..l)
         /\ \A m \in 1..Cardinality(I) : \E k \in I : Cardinality(I \cap 1..k) = m
<1> DEFINE rank(k) == Cardinality(I \cap 1..k)
<1>1. IsFiniteSet(I)
  <2>1. 1 \in Int /\ n \in Int
    OBVIOUS
  <2>2. IsFiniteSet(1..n)
    BY <2>1, FS_Interval
  <2>. QED  BY <2>2, FS_Subset
<1>2. Cardinality(I) \in Nat
  BY <1>1, FS_CardinalityType
<1>3. ASSUME NEW k \in I
      PROVE  IsFiniteSet(I \cap 1..k) /\ rank(k) \in 1..Cardinality(I)
  <2>1. (I \cap 1..k) \in SUBSET I
    OBVIOUS
  <2>2. IsFiniteSet(I \cap 1..k) /\ rank(k) <= Cardinality(I)
    BY <2>1, <1>1, FS_Subset
  <2>3. rank(k) \in Nat
    BY <2>2, FS_CardinalityType
  <2>4. k \in I \cap 1..k
    OBVIOUS
  <2>5. rank(k) # 0
    BY <2>2, <2>4, FS_EmptySet
  <2>. QED  BY <2>2, <2>3, <2>5, <1>2
<1>4. ASSUME NEW k \in I, NEW l \in I, k < l
      PROVE  rank(k) < rank(l)
  <2>1. (I \cap 1..k) \in SUBSET (I \cap 1..l)
    BY <1>4
  <2>2. l \in I \cap 1..l /\ l \notin I \cap 1..k
    BY <1>4
  <2>3. rank(k) <= rank(l) /\ rank(k) # rank(l)
    BY <2>1, <2>2, <1>3, FS_Subset
  <2>. QED  BY <2>3, <1>3
<1>5. ASSUME NEW m \in 1..Cardinality(I)
      PROVE  \E k \in I : rank(k) = m
  <2> DEFINE f == [k \in I |-> rank(k)]
  <2>1. f \in [I -> 1..Cardinality(I)]
    BY <1>3
  <2>2. \A k, l \in I : f[k] = f[l] => k = l
    <3>1. ASSUME NEW k \in I, NEW l \in I, f[k] = f[l]
          PROVE  k = l
      <4>1. ~(k < l) /\ ~(l < k)
        BY <3>1, <1>4, <1>3
      <4>. QED  BY <4>1
    <3>. QED  BY <3>1
  <2>3. f \in Injection(I, 1..Cardinality(I))
    BY <2>1, <2>2 DEF Injection, IsInjective
  <2>4. IsFiniteSet(1..Cardinality(I)) /\ Cardinality(1..Cardinality(I)) = Cardinality(I)
    BY <1>2, FS_Interval
  <2>5. f \in Surjection(I, 1..Cardinality(I))
    <3>. HIDE DEF f
    <3>. QED  BY <2>3, <2>4, FS_Injection
  <2>6. \E k \in I : f[k] = m
    BY <2>5 DEF Surjection
  <2>. QED  BY <2>6
<1>. QED  BY <1>2, <1>3, <1>4, <1>5

\* Those that come after p in s.
After(s, p) == {s[j] : j \in {j \in DOMAIN s : \E i \in DOMAIN s : s[i] = p /\ i < j}}

\* Kept keeps the order, and repeats nothing that was not repeated.
LEMMA KeptSeq ==
  ASSUME NEW E, NEW s \in Seq(E), NEW S
  PROVE  /\ Kept(s, S) \in Seq(E \cap S)
         /\ ToSet(Kept(s, S)) = ToSet(s) \cap S
         /\ IsInjective(s) => IsInjective(Kept(s, S))
         /\ \A p, q \in S : q \in After(s, p) => q \in After(Kept(s, S), p)
<1> DEFINE I == {i \in DOMAIN s : s[i] \in S}
           rank(i) == Cardinality(I \cap 1..i)
           at(n) == CHOOSE i \in I : rank(i) = n
           c == Cardinality(I)
<1>1. I \in SUBSET (1..Len(s)) /\ Len(s) \in Nat /\ DOMAIN s = 1..Len(s)
  OBVIOUS
<1>2. /\ c \in Nat
      /\ \A k \in I : rank(k) \in 1..c
      /\ \A k, l \in I : k < l => rank(k) < rank(l)
      /\ \A m \in 1..c : \E k \in I : rank(k) = m
  <2>. HIDE DEF I
  <2>. QED  BY <1>1, Ranks
<1>3. Kept(s, S) = [n \in 1..c |-> s[at(n)]]
  BY DEF Kept
<1>. HIDE DEF I, rank
<1>4. \A n \in 1..c : at(n) \in I /\ rank(at(n)) = n
  BY <1>2
<1>. HIDE DEF at
<1>5. \A k \in I : k \in Nat /\ k \in DOMAIN s /\ s[k] \in E \cap S
  BY <1>1 DEF I
<1>6. \A k \in I : at(rank(k)) = k
  <2>1. ASSUME NEW k \in I
        PROVE  at(rank(k)) = k
    <3>1. at(rank(k)) \in I /\ rank(at(rank(k))) = rank(k)
      BY <1>2, <1>4
    <3>2. ~(at(rank(k)) < k) /\ ~(k < at(rank(k)))
      BY <3>1, <1>2
    <3>. QED  BY <3>1, <3>2, <1>5
  <2>. QED  BY <2>1
<1>. HIDE DEF c
<1> DEFINE t == Kept(s, S)
<1>7. DOMAIN t = 1..c /\ \A n \in 1..c : t[n] = s[at(n)]
  BY <1>3
<1>8. t \in Seq(E \cap S)
  <2>1. \A n \in 1..c : s[at(n)] \in E \cap S
    BY <1>4, <1>5
  <2>. QED  BY <1>3, <1>2, <2>1
<1>. HIDE DEF t
<1>9. ToSet(t) = ToSet(s) \cap S
  <2>1. \A x \in ToSet(t) : x \in ToSet(s) \cap S
    BY <1>7, <1>4, <1>5 DEF ToSet
  <2>2. ASSUME NEW x \in ToSet(s) \cap S
        PROVE  x \in ToSet(t)
    <3>1. PICK k \in DOMAIN s : s[k] = x
      BY DEF ToSet
    <3>2. k \in I
      BY <3>1 DEF I
    <3>3. rank(k) \in 1..c /\ t[rank(k)] = x
      BY <3>1, <3>2, <1>2, <1>6, <1>7
    <3>. QED  BY <3>3, <1>7 DEF ToSet
  <2>. QED  BY <2>1, <2>2
<1>10. ASSUME IsInjective(s)
       PROVE  IsInjective(t)
  <2>1. ASSUME NEW a \in 1..c, NEW b \in 1..c, t[a] = t[b]
        PROVE  a = b
    <3>1. at(a) = at(b)
      BY <2>1, <1>7, <1>4, <1>5, <1>10 DEF IsInjective
    <3>. QED  BY <3>1, <1>4
  <2>. QED  BY <2>1, <1>7 DEF IsInjective
<1>11. ASSUME NEW p \in S, NEW q \in S, q \in After(s, p)
       PROVE  q \in After(t, p)
  <2>1. PICK i \in DOMAIN s, j \in DOMAIN s : s[i] = p /\ s[j] = q /\ i < j
    BY <1>11 DEF After
  <2>2. i \in I /\ j \in I
    BY <2>1 DEF I
  <2>3. /\ rank(i) \in DOMAIN t /\ rank(j) \in DOMAIN t /\ rank(i) < rank(j)
        /\ t[rank(i)] = p /\ t[rank(j)] = q
    BY <2>1, <2>2, <1>2, <1>6, <1>7
  <2>. QED  BY <2>3 DEF After
<1>. QED  BY <1>8, <1>9, <1>10, <1>11 DEF t

\* A new member at the front.
LEMMA ConsSeq ==
  ASSUME NEW E, NEW o \in E, NEW s \in Seq(E)
  PROVE  /\ <<o>> \o s \in Seq(E)
         /\ ToSet(<<o>> \o s) = {o} \cup ToSet(s)
         /\ IsInjective(s) /\ o \notin ToSet(s) => IsInjective(<<o>> \o s)
         /\ \A p : After(s, p) \subseteq After(<<o>> \o s, p)
<1> DEFINE t == <<o>> \o s
<1>1. t \in Seq(E) /\ Len(t) = Len(s) + 1 /\ t[1] = o
  OBVIOUS
<1>2. \A i \in 1..Len(s) : i + 1 \in 1..Len(t) /\ t[i + 1] = s[i]
  OBVIOUS
<1>3. \A i \in 1..Len(t) : i = 1 \/ (i - 1 \in 1..Len(s) /\ t[i] = s[i - 1])
  OBVIOUS
<1>4. DOMAIN t = 1..Len(t) /\ DOMAIN s = 1..Len(s) /\ Len(s) \in Nat
  BY <1>1
<1>. HIDE DEF t
<1>5. ToSet(t) = {o} \cup ToSet(s)
  <2>1. 1 \in 1..Len(t)
    BY <1>1, <1>4
  <2>2. \A x \in ToSet(s) : x \in ToSet(t)
    BY <1>2, <1>4 DEF ToSet
  <2>3. o \in ToSet(t)
    BY <2>1, <1>1, <1>4 DEF ToSet
  <2>4. ASSUME NEW x \in ToSet(t)
        PROVE  x \in {o} \cup ToSet(s)
    <3>1. PICK i \in 1..Len(t) : t[i] = x
      BY <1>4 DEF ToSet
    <3>. QED  BY <3>1, <1>1, <1>3, <1>4 DEF ToSet
  <2>. QED  BY <2>2, <2>3, <2>4
<1>6. ASSUME IsInjective(s), o \notin ToSet(s)
      PROVE  IsInjective(t)
  <2>1. \A i \in 1..Len(s) : s[i] # o
    BY <1>6, <1>4 DEF ToSet
  <2>2. ASSUME NEW i \in 1..Len(t), NEW j \in 1..Len(t), t[i] = t[j]
        PROVE  i = j
    <3>1. CASE i = 1 \/ j = 1
      BY <3>1, <2>1, <2>2, <1>1, <1>3
    <3>2. CASE i # 1 /\ j # 1
      <4>1. i - 1 \in 1..Len(s) /\ j - 1 \in 1..Len(s) /\ s[i - 1] = s[j - 1]
        BY <3>2, <2>2, <1>3
      <4>2. i - 1 = j - 1
        BY <4>1, <1>6, <1>4 DEF IsInjective
      <4>. QED  BY <4>2, <1>4, <1>1
    <3>. QED  BY <3>1, <3>2
  <2>. QED  BY <2>2, <1>4 DEF IsInjective
<1>7. ASSUME NEW p, NEW q \in After(s, p)
      PROVE  q \in After(t, p)
  <2>1. PICK i \in 1..Len(s), j \in 1..Len(s) : s[i] = p /\ s[j] = q /\ i < j
    BY <1>4 DEF After
  <2>2. i + 1 \in DOMAIN t /\ j + 1 \in DOMAIN t /\ t[i + 1] = p /\ t[j + 1] = q /\ i + 1 < j + 1
    BY <2>1, <1>2, <1>4
  <2>. QED  BY <2>2 DEF After
<1>. QED  BY <1>1, <1>5, <1>6, <1>7 DEF t

\* Two sequences, one after the other.
LEMMA ConcatSeq ==
  ASSUME NEW E, NEW s \in Seq(E), NEW t \in Seq(E)
  PROVE  /\ s \o t \in Seq(E)
         /\ ToSet(s \o t) = ToSet(s) \cup ToSet(t)
         /\ IsInjective(s) /\ IsInjective(t) /\ ToSet(s) \cap ToSet(t) = {}
              <=> IsInjective(s \o t)
<1> DEFINE u == s \o t
           m == Len(s)
           n == Len(t)
<1>1. u \in Seq(E) /\ Len(u) = m + n /\ m \in Nat /\ n \in Nat
  OBVIOUS
<1>2. /\ \A i \in 1..m : i \in 1..m + n /\ u[i] = s[i]
      /\ \A i \in 1..n : m + i \in 1..m + n /\ u[m + i] = t[i]
      /\ \A i \in 1..m + n : i \in 1..m \/ (i - m \in 1..n /\ u[i] = t[i - m])
  OBVIOUS
<1>3. DOMAIN u = 1..m + n /\ DOMAIN s = 1..m /\ DOMAIN t = 1..n
  BY <1>1
<1>. HIDE DEF u, m, n
<1>4. ToSet(u) = ToSet(s) \cup ToSet(t)
  <2>1. \A x \in ToSet(s) : x \in ToSet(u)
    BY <1>2, <1>3 DEF ToSet
  <2>2. \A x \in ToSet(t) : x \in ToSet(u)
    BY <1>2, <1>3 DEF ToSet
  <2>3. ASSUME NEW x \in ToSet(u)
        PROVE  x \in ToSet(s) \cup ToSet(t)
    <3>1. PICK i \in 1..m + n : u[i] = x
      BY <1>3 DEF ToSet
    <3>. QED  BY <3>1, <1>2, <1>3 DEF ToSet
  <2>. QED  BY <2>1, <2>2, <2>3
<1>5. ASSUME IsInjective(s), IsInjective(t), ToSet(s) \cap ToSet(t) = {}
      PROVE  IsInjective(u)
  <2>1. \A i \in 1..m, j \in 1..n : s[i] # t[j]
    BY <1>5, <1>3 DEF ToSet
  <2>2. ASSUME NEW i \in 1..m + n, NEW j \in 1..m + n, u[i] = u[j]
        PROVE  i = j
    <3>1. CASE i \in 1..m /\ j \in 1..m
      BY <3>1, <2>2, <1>2, <1>3, <1>5 DEF IsInjective
    <3>2. CASE i \notin 1..m /\ j \notin 1..m
      <4>1. i - m \in 1..n /\ j - m \in 1..n /\ t[i - m] = t[j - m]
        BY <3>2, <2>2, <1>2
      <4>2. i - m = j - m
        BY <4>1, <1>3, <1>5 DEF IsInjective
      <4>. QED  BY <4>2, <1>1
    <3>3. CASE i \in 1..m /\ j \notin 1..m
      BY <3>3, <2>1, <2>2, <1>2
    <3>4. CASE i \notin 1..m /\ j \in 1..m
      BY <3>4, <2>1, <2>2, <1>2
    <3>. QED  BY <3>1, <3>2, <3>3, <3>4
  <2>. QED  BY <2>2, <1>3 DEF IsInjective
<1>6. ASSUME IsInjective(u)
      PROVE  IsInjective(s) /\ IsInjective(t) /\ ToSet(s) \cap ToSet(t) = {}
  <2>1. IsInjective(s)
    BY <1>6, <1>2, <1>3 DEF IsInjective
  <2>2. ASSUME NEW i \in 1..n, NEW j \in 1..n, t[i] = t[j]
        PROVE  i = j
    <3>1. m + i = m + j
      BY <2>2, <1>6, <1>2, <1>3 DEF IsInjective
    <3>. QED  BY <3>1, <1>1
  <2>3. ASSUME NEW x \in ToSet(s), x \in ToSet(t)
        PROVE  FALSE
    <3>1. PICK i \in 1..m : s[i] = x
      BY <1>3 DEF ToSet
    <3>2. PICK j \in 1..n : t[j] = x
      BY <1>3, <2>3 DEF ToSet
    <3>3. i = m + j
      BY <3>1, <3>2, <1>6, <1>2, <1>3 DEF IsInjective
    <3>. QED  BY <3>3, <1>1
  <2>4. IsInjective(t)
    BY <2>2, <1>3 DEF IsInjective
  <2>. QED  BY <2>1, <2>3, <2>4
<1>. QED  BY <1>1, <1>4, <1>5, <1>6 DEF u

\* Taking the first member.
LEMMA TailSeq ==
  ASSUME NEW E, NEW s \in Seq(E), s # <<>>, IsInjective(s)
  PROVE  /\ Head(s) \in E /\ Head(s) \in ToSet(s)
         /\ Tail(s) \in Seq(E) /\ IsInjective(Tail(s))
         /\ ToSet(Tail(s)) = ToSet(s) \ {Head(s)}
<1>1. Tail(s) \in Seq(E) /\ Head(s) \in E /\ <<Head(s)>> \in Seq(E)
  OBVIOUS
<1>2. s = <<Head(s)>> \o Tail(s)
  OBVIOUS
<1>3. ToSet(<<Head(s)>>) = {Head(s)}
  BY DEF ToSet
<1> DEFINE first == <<Head(s)>>
           rest == Tail(s)
<1>4. first \in Seq(E) /\ rest \in Seq(E) /\ s = first \o rest
  BY <1>1, <1>2
<1>5. /\ ToSet(s) = ToSet(first) \cup ToSet(rest)
      /\ IsInjective(rest) /\ ToSet(first) \cap ToSet(rest) = {}
  <2>. HIDE DEF first, rest
  <2>. QED  BY <1>4, ConcatSeq
<1>6. Head(s) \in ToSet(first) /\ ToSet(first) = {Head(s)}
  BY <1>3
<1>. HIDE DEF first
<1>. QED  BY <1>1, <1>5, <1>6

\* What a part of a sequence holds.
LEMMA SegmentSeq ==
  ASSUME NEW E, NEW s \in Seq(E), NEW m \in 1..Len(s) + 1, NEW n \in 0..Len(s)
  PROVE  /\ SubSeq(s, m, n) \in Seq(E)
         /\ ToSet(SubSeq(s, m, n)) = {s[i] : i \in m..n}
<1> DEFINE t == SubSeq(s, m, n)
           k == IF m <= n THEN n - m + 1 ELSE 0
<1>1. k \in Nat /\ t = [i \in 1..k |-> s[i + m - 1]]
  OBVIOUS
<1>2. t \in Seq(E)
  OBVIOUS
<1>3. \A i \in m..n : i - m + 1 \in 1..k /\ t[i - m + 1] = s[i]
  BY <1>1
<1>4. \A j \in 1..k : j + m - 1 \in m..n /\ t[j] = s[j + m - 1]
  BY <1>1
<1>. HIDE DEF t, k
<1>5. ToSet(t) = {s[i] : i \in m..n}
  BY <1>1, <1>3, <1>4 DEF ToSet
<1>. QED  BY <1>2, <1>5 DEF t

\* What a sequence holds after the place of one of its members.
LEMMA AfterSeq ==
  ASSUME NEW E, NEW s \in Seq(E), IsInjective(s), NEW i \in DOMAIN s
  PROVE  /\ SubSeq(s, i + 1, Len(s)) \in Seq(E)
         /\ IsInjective(SubSeq(s, i + 1, Len(s)))
         /\ ToSet(SubSeq(s, i + 1, Len(s))) = After(s, s[i])
         /\ After(s, s[i]) \subseteq ToSet(s) \ {s[i]}
<1> DEFINE t == SubSeq(s, i + 1, Len(s))
<1>1. i + 1 \in 1..Len(s) + 1 /\ Len(s) \in 0..Len(s) /\ DOMAIN s = 1..Len(s)
  OBVIOUS
<1>2. t \in Seq(E) /\ ToSet(t) = {s[j] : j \in i + 1..Len(s)}
  BY <1>1, SegmentSeq
<1>3. \A k \in DOMAIN s : s[k] = s[i] => k = i
  BY DEF IsInjective
<1>4. After(s, s[i]) = {s[j] : j \in {j \in DOMAIN s : i < j}}
  BY <1>3 DEF After
<1>5. {j \in DOMAIN s : i < j} = i + 1..Len(s)
  BY <1>1
<1>6. After(s, s[i]) \subseteq ToSet(s) \ {s[i]}
  BY <1>3, <1>4, <1>1 DEF ToSet
<1>7. /\ \A j \in DOMAIN t : i + j \in DOMAIN s /\ t[j] = s[i + j]
      /\ DOMAIN t \subseteq Nat
  OBVIOUS
<1>8. IsInjective(t)
  <2>1. ASSUME NEW a \in DOMAIN t, NEW b \in DOMAIN t, t[a] = t[b]
        PROVE  a = b
    <3>1. i + a = i + b
      BY <2>1, <1>7 DEF IsInjective
    <3>. QED  BY <3>1, <1>7, <1>1
  <2>. QED  BY <2>1 DEF IsInjective
<1>. HIDE DEF t
<1>9. ToSet(t) = After(s, s[i])
  BY <1>2, <1>4, <1>5
<1>. QED  BY <1>2, <1>6, <1>8, <1>9 DEF t

\* A prefix and what follows it.
LEMMA PrefixSeq ==
  ASSUME NEW E, NEW s \in Seq(E), NEW n \in 0..Len(s)
  PROVE  /\ SubSeq(s, 1, n) \in Seq(E)
         /\ ToSet(SubSeq(s, 1, n)) \subseteq ToSet(s)
         /\ n = Len(s) => ToSet(SubSeq(s, 1, n)) = ToSet(s)
         /\ \A k \in DOMAIN s : k <= n => s[k] \in ToSet(SubSeq(s, 1, n))
         /\ \A x \in ToSet(SubSeq(s, 1, n)), y \in ToSet(s) \ ToSet(SubSeq(s, 1, n)) :
              y \in After(s, x)
<1> DEFINE t == SubSeq(s, 1, n)
<1>1. 1 \in 1..Len(s) + 1 /\ DOMAIN s = 1..Len(s) /\ n \in Nat /\ Len(s) \in Nat
  OBVIOUS
<1>2. t \in Seq(E) /\ ToSet(t) = {s[j] : j \in 1..n}
  BY <1>1, SegmentSeq
<1>. HIDE DEF t
<1>3. ToSet(t) \subseteq ToSet(s) /\ (n = Len(s) => ToSet(t) = ToSet(s))
  <2>1. ToSet(s) = {s[j] : j \in 1..Len(s)}
    BY <1>1 DEF ToSet
  <2>2. \A j \in 1..n : j \in 1..Len(s)
    BY <1>1
  <2>3. ToSet(t) \subseteq ToSet(s)
    BY <2>1, <2>2, <1>2
  <2>4. n = Len(s) => ToSet(t) = ToSet(s)
    BY <2>1, <1>2
  <2>. QED  BY <2>3, <2>4
<1>4. ASSUME NEW x \in ToSet(t), NEW y \in ToSet(s) \ ToSet(t)
      PROVE  y \in After(s, x)
  <2>1. PICK i \in 1..n : x = s[i]
    BY <1>2
  <2>2. PICK j \in DOMAIN s : y = s[j]
    BY DEF ToSet
  <2>3. j \notin 1..n
    BY <2>2, <1>2
  <2>4. i \in DOMAIN s /\ i < j
    BY <2>3, <1>1
  <2>. QED  BY <2>1, <2>2, <2>4 DEF After
<1>5. \A k \in DOMAIN s : k <= n => s[k] \in ToSet(t)
  BY <1>1, <1>2
<1>. QED  BY <1>2, <1>3, <1>4, <1>5 DEF t

-----------------------------------------------------------------------------
(* The collector's state *)

Nodes == Tables \cup {MainThread}
Color == White \cup {"gray", "black", "free"}
GCState == {"pause", "propagate", "atomic", "swpallgc", "swpfinobj", "swptobefnz",
            "swpend", "callfin", "insideatomic"}
GlobalState ==
  [gcstate : GCState, currentwhite : White, color : [Objects -> Color],
   gray : SUBSET Nodes, grayagain : SUBSET Nodes,
   allgc : Seq(Objects), finobj : Seq(Udata), tobefnz : Seq(Udata),
   sweepgc : Objects \cup Lists \cup {"NULL"},
   full : {"no", "finish", "collect"}, emergency : BOOLEAN]

\* An object that is not free is in one list and in one place of it, but for the
\* main thread, which is in none.
Separated(h) ==
  /\ IsInjective(h.allgc) /\ IsInjective(h.finobj) /\ IsInjective(h.tobefnz)
  /\ ToSet(h.allgc) \cap ToSet(h.finobj) = {}
  /\ ToSet(h.allgc) \cap ToSet(h.tobefnz) = {}
  /\ ToSet(h.finobj) \cap ToSet(h.tobefnz) = {}
  /\ ToSet(h.allgc) \cup ToSet(h.finobj) \cup ToSet(h.tobefnz)
       = {o \in Objects \ {MainThread} : h.color[o] # "free"}

\* The objects and lists differ.
LEMMA Distinct ==
  /\ MainThread \notin Udata /\ Registry \notin Udata /\ Metatable \notin Udata
  /\ WeakTable \notin Udata
  /\ MainThread \notin Tables
  /\ Registry # Metatable /\ Registry # WeakTable /\ Metatable # WeakTable
  /\ Objects \cap (Lists \cup {"NULL"}) = {}
  /\ Objects = Udata \cup Nodes
<1>1. Cardinality({Registry, Metatable, WeakTable, MainThread}) = 4
  <2>1. Tables \cup {MainThread} = {Registry, Metatable, WeakTable, MainThread}
    BY DEF Tables
  <2>. QED  BY <2>1, ObjectsDiffer
<1>2. ASSUME NEW a, NEW b, NEW c
      PROVE  Cardinality({a, b, c}) # 4
  <2>1. IsFiniteSet({}) /\ Cardinality({}) = 0
    BY FS_EmptySet
  <2>2. IsFiniteSet({} \cup {a}) /\ Cardinality({} \cup {a}) = 1
    BY <2>1, FS_AddElement
  <2>3. IsFiniteSet(({} \cup {a}) \cup {b}) /\ Cardinality(({} \cup {a}) \cup {b}) \in {1, 2}
    BY <2>2, FS_AddElement
  <2>4. Cardinality((({} \cup {a}) \cup {b}) \cup {c}) \in {1, 2, 3}
    BY <2>3, FS_AddElement
  <2>5. (({} \cup {a}) \cup {b}) \cup {c} = {a, b, c}
    OBVIOUS
  <2>. QED  BY <2>4, <2>5
<1>3. ASSUME Registry = Metatable \/ Registry = WeakTable \/ Metatable = WeakTable
             \/ MainThread \in Tables
      PROVE  FALSE
  <2> DEFINE all == {Registry, Metatable, WeakTable, MainThread}
  <2>1. \/ all = {Registry, WeakTable, MainThread}
        \/ all = {Registry, Metatable, MainThread}
        \/ all = {Registry, Metatable, WeakTable}
    BY <1>3 DEF Tables
  <2>2. /\ Cardinality({Registry, WeakTable, MainThread}) # 4
        /\ Cardinality({Registry, Metatable, MainThread}) # 4
        /\ Cardinality({Registry, Metatable, WeakTable}) # 4
    BY <1>2
  <2>. QED  BY <2>1, <2>2, <1>1
<1>. QED  BY <1>3, ObjectsDiffer DEF Tables, Objects, Nodes

-----------------------------------------------------------------------------
(* Lists and pointers into them *)

\* What Separated says of one list.
LEMMA ListOf ==
  ASSUME NEW h \in GlobalState, Separated(h), NEW l \in Lists
  PROVE  /\ h[l] \in Seq(Objects) /\ IsInjective(h[l])
         /\ ToSet(h[l]) \subseteq {o \in Objects \ {MainThread} : h.color[o] # "free"}
         /\ \A k \in Lists : k # l => ToSet(h[k]) \cap ToSet(h[l]) = {}
<1>1. h["allgc"] = h.allgc /\ h["finobj"] = h.finobj /\ h["tobefnz"] = h.tobefnz
  OBVIOUS
<1>2. h.allgc \in Seq(Objects) /\ h.finobj \in Seq(Objects) /\ h.tobefnz \in Seq(Objects)
  BY DEF GlobalState, Objects
<1>3. CASE l = "allgc"
  BY <1>1, <1>2, <1>3 DEF Separated, Lists
<1>4. CASE l = "finobj"
  BY <1>1, <1>2, <1>4 DEF Separated, Lists
<1>5. CASE l = "tobefnz"
  BY <1>1, <1>2, <1>5 DEF Separated, Lists
<1>. QED  BY <1>3, <1>4, <1>5 DEF Lists

\* What a pointer into a list leads to.
LEMMA Follows ==
  ASSUME NEW h \in GlobalState, Separated(h), NEW l \in Lists,
         NEW p, p = l \/ p \in ToSet(h[l])
  PROVE  /\ Following(h, p) \in Seq(Objects) /\ IsInjective(Following(h, p))
         /\ ToSet(Following(h, p)) \subseteq ToSet(h[l])
         /\ p = l => Following(h, p) = h[l]
         /\ p # l => /\ p \in Objects /\ p \notin ToSet(Following(h, p))
                     /\ ToSet(Following(h, p)) = After(h[l], p)
<1>1. h[l] \in Seq(Objects) /\ IsInjective(h[l]) /\ ToSet(h[l]) \subseteq Objects
  BY ListOf
<1>2. CASE p = l
  <2>1. Following(h, p) = h[l]
    BY <1>2 DEF Following
  <2>. QED  BY <2>1, <1>1, <1>2
<1>3. CASE p # l
  <2>1. p \in ToSet(h[l]) /\ p \in Objects /\ p \notin Lists
    BY <1>1, <1>3, Distinct
  <2> DEFINE L == CHOOSE k \in Lists : p \in ToSet(h[k])
             i == CHOOSE n \in DOMAIN h[l] : h[l][n] = p
  <2>2. L = l
    <3>1. L \in Lists /\ p \in ToSet(h[L])
      BY <2>1
    <3>. HIDE DEF L
    <3>. QED  BY <3>1, <2>1, ListOf
  <2>3. i \in DOMAIN h[l] /\ h[l][i] = p
    BY <2>1 DEF ToSet
  <2>4. Following(h, p) = SubSeq(h[L], (CHOOSE n \in DOMAIN h[L] : h[L][n] = p) + 1, Len(h[L]))
    BY <2>1 DEF Following
  <2>5. Following(h, p) = SubSeq(h[l], i + 1, Len(h[l]))
    BY <2>4, <2>2
  <2>. HIDE DEF i, L
  <2> DEFINE s == h[l]
  <2>6. s \in Seq(Objects) /\ IsInjective(s) /\ i \in DOMAIN s /\ s[i] = p
    BY <1>1, <2>3
  <2>7. /\ SubSeq(s, i + 1, Len(s)) \in Seq(Objects)
        /\ IsInjective(SubSeq(s, i + 1, Len(s)))
        /\ ToSet(SubSeq(s, i + 1, Len(s))) = After(s, p)
        /\ After(s, p) \subseteq ToSet(s) \ {p}
    <3>. HIDE DEF s
    <3>. QED  BY <2>6, AfterSeq
  <2>. QED  BY <2>7, <2>5, <2>1, <1>3
<1>. QED  BY <1>2, <1>3

\* There are two whites, and no other color is one.
LEMMA Whitenesses ==
  ASSUME NEW w \in White
  PROVE  /\ other(w) \in White /\ other(w) # w /\ other(other(w)) = w
         /\ White = {w, other(w)} /\ White \subseteq Color
         /\ "free" \notin White /\ "gray" \notin White /\ "black" \notin White
BY DEF White, other, Color

\* Taking objects out of the lists.
LEMMA UnlinksLists ==
  ASSUME NEW h \in GlobalState, Separated(h), NEW O, NEW m \in Lists
  PROVE  /\ Unlinked(h, O)[m] \in Seq(Objects) /\ IsInjective(Unlinked(h, O)[m])
         /\ ToSet(Unlinked(h, O)[m]) = ToSet(h[m]) \ O
         /\ \A p, q \in Objects \ O :
              q \in After(h[m], p) => q \in After(Unlinked(h, O)[m], p)
<1> DEFINE k == Unlinked(h, O)
<1>1. /\ k.allgc = Kept(h.allgc, Objects \ O) /\ k.finobj = Kept(h.finobj, Objects \ O)
      /\ k.tobefnz = Kept(h.tobefnz, Objects \ O)
  BY DEF Unlinked, GlobalState
<1>2. k[m] = Kept(h[m], Objects \ O)
  <2>. HIDE DEF k
  <2>. QED  BY <1>1 DEF Lists
<1>. HIDE DEF k
<1> DEFINE s == h[m]
           t == Kept(s, Objects \ O)
<1>3. s \in Seq(Objects) /\ IsInjective(s) /\ ToSet(s) \subseteq Objects
  BY ListOf
<1>. HIDE DEF s
<1>4. /\ t \in Seq(Objects \cap (Objects \ O)) /\ ToSet(t) = ToSet(s) \cap (Objects \ O)
      /\ IsInjective(t)
      /\ \A p, q \in Objects \ O : q \in After(s, p) => q \in After(t, p)
  BY <1>3, KeptSeq
<1>. HIDE DEF t
<1>5. t \in Seq(Objects)
  BY <1>4
<1>6. ToSet(t) = ToSet(s) \ O
  BY <1>3, <1>4
<1>7. k[m] = t
  BY <1>2 DEF s, t
<1>8. /\ k[m] \in Seq(Objects) /\ IsInjective(k[m])
      /\ ToSet(k[m]) = ToSet(s) \ O
      /\ \A p, q \in Objects \ O : q \in After(s, p) => q \in After(k[m], p)
  BY <1>4, <1>5, <1>6, <1>7
<1>. QED  BY <1>8 DEF s, k

\* But for the lists, nothing changes when objects are unlinked.
LEMMA Unlinks ==
  ASSUME NEW h \in GlobalState, Separated(h), NEW O, NEW k, k = Unlinked(h, O)
  PROVE  /\ k \in GlobalState
         /\ k.gcstate = h.gcstate /\ k.currentwhite = h.currentwhite /\ k.color = h.color
         /\ k.gray = h.gray /\ k.grayagain = h.grayagain /\ k.sweepgc = h.sweepgc
         /\ k.full = h.full /\ k.emergency = h.emergency
<1>1. /\ k.gcstate = h.gcstate /\ k.currentwhite = h.currentwhite /\ k.color = h.color
      /\ k.gray = h.gray /\ k.grayagain = h.grayagain /\ k.sweepgc = h.sweepgc
      /\ k.full = h.full /\ k.emergency = h.emergency
      /\ k.allgc = Kept(h.allgc, Objects \ O) /\ k.finobj = Kept(h.finobj, Objects \ O)
      /\ k.tobefnz = Kept(h.tobefnz, Objects \ O)
  BY DEF Unlinked, GlobalState
<1>2. h.finobj \in Seq(Udata) /\ h.tobefnz \in Seq(Udata) /\ h.allgc \in Seq(Objects)
  BY DEF GlobalState
<1>3. /\ Kept(h.finobj, Objects \ O) \in Seq(Udata \cap (Objects \ O))
      /\ Kept(h.tobefnz, Objects \ O) \in Seq(Udata \cap (Objects \ O))
      /\ Kept(h.allgc, Objects \ O) \in Seq(Objects \cap (Objects \ O))
  <2>1. Kept(h.finobj, Objects \ O) \in Seq(Udata \cap (Objects \ O))
    BY <1>2, KeptSeq
  <2>2. Kept(h.tobefnz, Objects \ O) \in Seq(Udata \cap (Objects \ O))
    BY <1>2, KeptSeq
  <2>3. Kept(h.allgc, Objects \ O) \in Seq(Objects \cap (Objects \ O))
    BY <1>2, KeptSeq
  <2>. QED  BY <2>1, <2>2, <2>3
<1>4. k.finobj \in Seq(Udata) /\ k.tobefnz \in Seq(Udata) /\ k.allgc \in Seq(Objects)
  BY <1>1, <1>3
<1>5. k \in GlobalState
  <2>1. k = [h EXCEPT !.allgc = k.allgc, !.finobj = k.finobj, !.tobefnz = k.tobefnz]
    BY <1>1 DEF Unlinked
  <2>. QED  BY <2>1, <1>4 DEF GlobalState
<1>. QED  BY <1>1, <1>5

\* What is not free is in some list.
LEMMA InOneList ==
  ASSUME NEW h \in GlobalState, Separated(h)
  PROVE  \A o \in Objects \ {MainThread} :
           h.color[o] # "free" <=> \E m \in Lists : o \in ToSet(h[m])
<1>1. h["allgc"] = h.allgc /\ h["finobj"] = h.finobj /\ h["tobefnz"] = h.tobefnz
  OBVIOUS
<1>. QED  BY <1>1 DEF Separated, Lists

\* Lists that are each in order, disjoint and complete.
LEMMA ListsSeparated ==
  ASSUME NEW k \in GlobalState,
         \A m \in Lists : IsInjective(k[m]) /\ ToSet(k[m]) \subseteq Objects \ {MainThread},
         \A m, n \in Lists : m # n => ToSet(k[m]) \cap ToSet(k[n]) = {},
         \A o \in Objects \ {MainThread} :
           k.color[o] # "free" <=> \E m \in Lists : o \in ToSet(k[m])
  PROVE  Separated(k)
<1>1. k["allgc"] = k.allgc /\ k["finobj"] = k.finobj /\ k["tobefnz"] = k.tobefnz
  OBVIOUS
<1>2. "allgc" \in Lists /\ "finobj" \in Lists /\ "tobefnz" \in Lists
  BY DEF Lists
<1>3. \A o \in Objects \ {MainThread} :
        k.color[o] # "free" <=>
          o \in ToSet(k.allgc) \cup ToSet(k.finobj) \cup ToSet(k.tobefnz)
  BY <1>1 DEF Lists
<1>4. ToSet(k.allgc) \cup ToSet(k.finobj) \cup ToSet(k.tobefnz)
        = {o \in Objects \ {MainThread} : k.color[o] # "free"}
  BY <1>1, <1>2, <1>3
<1>5. /\ ToSet(k.allgc) \cap ToSet(k.finobj) = {}
      /\ ToSet(k.allgc) \cap ToSet(k.tobefnz) = {}
      /\ ToSet(k.finobj) \cap ToSet(k.tobefnz) = {}
  BY <1>1, <1>2
<1>. QED  BY <1>1, <1>2, <1>4, <1>5 DEF Separated

\* A pointer into a list leads to what comes after.
LEMMA FollowsAt ==
  ASSUME NEW h \in GlobalState, Separated(h), NEW l \in Lists,
         NEW i \in DOMAIN h[l], NEW p, p = h[l][i]
  PROVE  Following(h, p) = SubSeq(h[l], i + 1, Len(h[l]))
<1>1. h[l] \in Seq(Objects) /\ IsInjective(h[l]) /\ ToSet(h[l]) \subseteq Objects
  BY ListOf
<1>2. p \in ToSet(h[l]) /\ p \in Objects /\ p \notin Lists
  BY <1>1, Distinct DEF ToSet
<1> DEFINE m == CHOOSE m \in Lists : p \in ToSet(h[m])
           j == CHOOSE n \in DOMAIN h[l] : h[l][n] = p
<1>3. m = l
  <2>1. m \in Lists /\ p \in ToSet(h[m])
    BY <1>2
  <2>. HIDE DEF m
  <2>. QED  BY <2>1, <1>2, ListOf
<1>4. j = i
  <2>1. j \in DOMAIN h[l] /\ h[l][j] = p
    OBVIOUS
  <2>. HIDE DEF j
  <2>. QED  BY <2>1, <1>1 DEF IsInjective
<1>5. Following(h, p) = SubSeq(h[m], (CHOOSE n \in DOMAIN h[m] : h[m][n] = p) + 1, Len(h[m]))
  BY <1>2 DEF Following
<1>. QED  BY <1>3, <1>4, <1>5

\* What comes after in a suffix comes after in the sequence.
LEMMA AfterLater ==
  ASSUME NEW E, NEW s \in Seq(E), NEW i \in DOMAIN s, NEW q,
         NEW y \in After(SubSeq(s, i + 1, Len(s)), q)
  PROVE  y \in After(s, q)
<1> DEFINE t == SubSeq(s, i + 1, Len(s))
<1>1. /\ \A j \in DOMAIN t : i + j \in DOMAIN s /\ t[j] = s[i + j] /\ j \in Nat
      /\ i \in Nat
  OBVIOUS
<1>2. PICK a \in DOMAIN t, b \in DOMAIN t : t[a] = q /\ t[b] = y /\ a < b
  BY DEF After
<1>. HIDE DEF t
<1>3. i + a \in DOMAIN s /\ i + b \in DOMAIN s /\ s[i + a] = q /\ s[i + b] = y /\ i + a < i + b
  BY <1>1, <1>2
<1>. QED  BY <1>3 DEF After

-----------------------------------------------------------------------------
(* sweeplist *)

\* The objects that the sweep has still to go over in the list it is in.
Rest(h) == IF h.sweepgc = "NULL" THEN {} ELSE ToSet(Following(h, h.sweepgc))

\* sweeplist frees dead objects only, turns others white, and leaves what may be
\* dead ahead of its pointer; it moves on if it comes by an object that lives.
LEMMA Sweeps ==
  ASSUME NEW h \in GlobalState, Separated(h), NEW l \in Lists,
         h.sweepgc = l \/ h.sweepgc \in ToSet(h[l]), Dead(h) \subseteq Rest(h),
         NEW count \in Nat, NEW k, k = sweeplist(h, count)
  PROVE  /\ k \in GlobalState /\ Separated(k)
         /\ k.gcstate = h.gcstate /\ k.currentwhite = h.currentwhite
         /\ k.gray = h.gray /\ k.grayagain = h.grayagain
         /\ k.full = h.full /\ k.emergency = h.emergency
         /\ \A o \in Objects :
              \/ k.color[o] = h.color[o]
              \/ k.color[o] = h.currentwhite /\ h.color[o] # "free" /\ o # MainThread
              \/ k.color[o] = "free" /\ o \in Dead(h)
         /\ \A m \in Lists : ToSet(k[m]) = {o \in ToSet(h[m]) : k.color[o] # "free"}
         /\ k.sweepgc \in {"NULL", l} \cup ToSet(k[l])
         /\ Dead(k) \subseteq Rest(k)
         /\ \A o \in Rest(h) \ Rest(k) : k.color[o] \in {h.currentwhite, "free"}
         /\ \/ Len(Following(h, h.sweepgc)) <= count
            \/ \E i \in DOMAIN Following(h, h.sweepgc) :
                 i <= count /\ Following(h, h.sweepgc)[i] \notin Dead(h)
            => k.sweepgc = "NULL" \/ k.sweepgc \in ToSet(Following(h, h.sweepgc))
<1> DEFINE next == Following(h, h.sweepgc)
           n == IF count < Len(next) THEN count ELSE Len(next)
           part == SubSeq(next, 1, n)
           dead == ToSet(part) \cap Dead(h)
           live == Kept(part, Objects \ dead)
           u == Unlinked(h, dead)
           w == h.currentwhite
           c == [o \in Objects |-> IF o \in dead THEN "free"
                                   ELSE IF o \in ToSet(part) THEN w ELSE h.color[o]]
           p == IF Len(next) <= count THEN "NULL"
                ELSE IF live = <<>> THEN h.sweepgc ELSE Last(live)
<1>1. h.sweepgc # "NULL" /\ Rest(h) = ToSet(next)
  <2>1. l # "NULL"
    BY DEF Lists
  <2>2. "NULL" \notin ToSet(h[l])
    BY ListOf, Distinct
  <2>. QED  BY <2>1, <2>2 DEF Rest
<1>2. /\ next \in Seq(Objects) /\ IsInjective(next) /\ ToSet(next) \subseteq ToSet(h[l])
      /\ h.sweepgc = l => next = h[l]
      /\ h.sweepgc # l => /\ h.sweepgc \in Objects /\ h.sweepgc \notin ToSet(next)
                          /\ ToSet(next) = After(h[l], h.sweepgc)
  <2> DEFINE q == h.sweepgc
  <2>1. q = l \/ q \in ToSet(h[l])
    OBVIOUS
  <2>. HIDE DEF q
  <2>2. /\ Following(h, q) \in Seq(Objects) /\ IsInjective(Following(h, q))
        /\ ToSet(Following(h, q)) \subseteq ToSet(h[l])
        /\ q = l => Following(h, q) = h[l]
        /\ q # l => /\ q \in Objects /\ q \notin ToSet(Following(h, q))
                    /\ ToSet(Following(h, q)) = After(h[l], q)
    BY <2>1, Follows
  <2>. QED  BY <2>2 DEF q
<1>3. k = [u EXCEPT !.color = [o \in Objects |-> IF o \in dead THEN "free"
                                      ELSE IF o \in ToSet(part) THEN h.currentwhite
                                      ELSE u.color[o]],
                    !.sweepgc = IF Len(next) <= count THEN "NULL"
                                ELSE IF live = <<>> THEN u.sweepgc ELSE Last(live)]
  BY DEF sweeplist
<1>. HIDE DEF next
<1>4. n \in 0..Len(next) /\ (count < Len(next) => n = count)
      /\ (Len(next) <= count => n = Len(next)) /\ Len(next) \in Nat
  BY <1>2
<1>. HIDE DEF n
<1>5. /\ part \in Seq(Objects) /\ ToSet(part) \subseteq ToSet(next)
      /\ n = Len(next) => ToSet(part) = ToSet(next)
      /\ \A i \in DOMAIN next : i <= n => next[i] \in ToSet(part)
      /\ \A x \in ToSet(part), y \in ToSet(next) \ ToSet(part) : y \in After(next, x)
  BY <1>2, <1>4, PrefixSeq
<1>. HIDE DEF part
<1>6. /\ live \in Seq(Objects \cap (Objects \ dead)) /\ ToSet(live) = ToSet(part) \cap (Objects \ dead)
  BY <1>5, KeptSeq
<1>7. /\ u \in GlobalState
      /\ u.gcstate = h.gcstate /\ u.currentwhite = h.currentwhite /\ u.color = h.color
      /\ u.gray = h.gray /\ u.grayagain = h.grayagain /\ u.sweepgc = h.sweepgc
      /\ u.full = h.full /\ u.emergency = h.emergency
      /\ \A m \in Lists :
           /\ u[m] \in Seq(Objects) /\ IsInjective(u[m])
           /\ ToSet(u[m]) = ToSet(h[m]) \ dead
           /\ \A x, y \in Objects \ dead : y \in After(h[m], x) => y \in After(u[m], x)
  <2>1. u = Unlinked(h, dead)
    OBVIOUS
  <2>. HIDE DEF u, dead
  <2>2. /\ u \in GlobalState
        /\ u.gcstate = h.gcstate /\ u.currentwhite = h.currentwhite /\ u.color = h.color
        /\ u.gray = h.gray /\ u.grayagain = h.grayagain /\ u.sweepgc = h.sweepgc
        /\ u.full = h.full /\ u.emergency = h.emergency
    BY <2>1, Unlinks
  <2>3. ASSUME NEW m \in Lists
        PROVE  /\ u[m] \in Seq(Objects) /\ IsInjective(u[m])
               /\ ToSet(u[m]) = ToSet(h[m]) \ dead
               /\ \A x, y \in Objects \ dead : y \in After(h[m], x) => y \in After(u[m], x)
    BY <2>1, UnlinksLists
  <2>. QED  BY <2>2, <2>3
<1>8. live # <<>> => Last(live) \in ToSet(live)
  <2>1. ASSUME NEW s \in Seq(Objects), s # <<>>
        PROVE  Last(s) \in ToSet(s)
    <3>1. Len(s) \in DOMAIN s
      BY <2>1
    <3>. QED  BY <3>1 DEF Last, ToSet
  <2>2. live \in Seq(Objects)
    BY <1>6
  <2>. HIDE DEF live
  <2>. QED  BY <2>1, <2>2
<1>9. k = [u EXCEPT !.color = c, !.sweepgc = p]
  BY <1>3, <1>7
<1>10. w \in White /\ c \in [Objects -> Color] /\ h.color \in [Objects -> Color]
       /\ \A o \in dead : h.color[o] = other(w)
  <2>1. h.currentwhite \in White /\ h.color \in [Objects -> Color]
    BY DEF GlobalState
  <2>. QED  BY <2>1, Whitenesses DEF Color, Dead
<1>11. ToSet(part) \subseteq Objects \ {MainThread} /\ \A o \in ToSet(part) : h.color[o] # "free"
  BY <1>2, <1>5, ListOf
<1>12. p \in {"NULL", h.sweepgc} \cup ToSet(live) /\ h.sweepgc \in Objects \cup Lists \cup {"NULL"}
       /\ ToSet(live) \subseteq Objects
  BY <1>8, <1>6 DEF GlobalState
<1>13. /\ k \in GlobalState
       /\ k.gcstate = h.gcstate /\ k.currentwhite = h.currentwhite
       /\ k.gray = h.gray /\ k.grayagain = h.grayagain
       /\ k.full = h.full /\ k.emergency = h.emergency
       /\ k.color = c /\ k.sweepgc = p
       /\ k.allgc = u.allgc /\ k.finobj = u.finobj /\ k.tobefnz = u.tobefnz
  <2>1. p \in Objects \cup Lists \cup {"NULL"}
    BY <1>12
  <2>. HIDE DEF c, p, u
  <2>. QED  BY <1>7, <1>9, <1>10, <2>1 DEF GlobalState
<1>14. \A m \in Lists : k[m] = u[m]
  BY <1>13 DEF Lists
<1>. HIDE DEF u, live
<1>15. \A o \in Objects :
         /\ o \in dead => k.color[o] = "free"
         /\ o \in ToSet(part) \ dead => k.color[o] = w
         /\ o \notin ToSet(part) => k.color[o] = h.color[o]
  BY <1>13
<1>. HIDE DEF c, p
<1>16. /\ dead \subseteq ToSet(part) /\ dead \subseteq Dead(h) /\ dead \subseteq Objects
       /\ "free" \notin White
  BY <1>11, Whitenesses
<1>17. \A m \in Lists : ToSet(k[m]) = {o \in ToSet(h[m]) : k.color[o] # "free"}
  <2>1. ASSUME NEW m \in Lists
        PROVE  ToSet(k[m]) = {o \in ToSet(h[m]) : k.color[o] # "free"}
    <3>1. \A o \in ToSet(h[m]) : o \in Objects /\ h.color[o] # "free"
      BY ListOf
    <3>2. \A o \in ToSet(h[m]) : k.color[o] # "free" <=> o \notin dead
      BY <3>1, <1>15, <1>16, <1>10
    <3>. QED  BY <3>2, <1>7, <1>14
  <2>. QED  BY <2>1
<1>18. Separated(k)
  <2>1. \A m \in Lists : IsInjective(k[m]) /\ ToSet(k[m]) \subseteq Objects \ {MainThread}
    BY <1>7, <1>14, ListOf
  <2>2. \A m, m2 \in Lists : m # m2 => ToSet(k[m]) \cap ToSet(k[m2]) = {}
    BY <1>17, ListOf
  <2>3. ASSUME NEW o \in Objects \ {MainThread}
        PROVE  k.color[o] # "free" <=> \E m \in Lists : o \in ToSet(k[m])
    <3>1. h.color[o] # "free" <=> \E m \in Lists : o \in ToSet(h[m])
      BY InOneList
    <3>2. h.color[o] = "free" => k.color[o] = "free"
      BY <1>15, <1>11, <1>16
    <3>. QED  BY <3>1, <3>2, <1>17
  <2>. QED  BY <1>13, <2>1, <2>2, <2>3, ListsSeparated
<1>19. k.sweepgc \in {"NULL", l} \cup ToSet(k[l])
  <2>1. CASE k.sweepgc = "NULL"
    BY <2>1
  <2>2. CASE k.sweepgc \in ToSet(live)
    BY <2>2, <1>6, <1>5, <1>2, <1>7, <1>14
  <2>3. CASE k.sweepgc = h.sweepgc
    <3>1. CASE h.sweepgc = l
      BY <3>1, <2>3
    <3>2. CASE h.sweepgc # l
      <4>1. h.sweepgc \in ToSet(h[l]) /\ h.sweepgc \notin dead
        BY <3>2, <1>2, <1>5, <1>16
      <4>. QED  BY <4>1, <2>3, <1>7, <1>14
    <3>. QED  BY <3>1, <3>2
  <2>. QED  BY <2>1, <2>2, <2>3, <1>12, <1>13
<1>20. ASSUME NEW y \in ToSet(next) \ ToSet(part)
       PROVE  y \in Rest(k)
  <2>1. count < Len(next) /\ n = count
    BY <1>4, <1>5
  <2>2. y \in Objects \ dead /\ y \in ToSet(h[l]) /\ y \in ToSet(k[l])
    BY <1>2, <1>7, <1>14, <1>16, ListOf
  <2>3. k.sweepgc = IF live = <<>> THEN h.sweepgc ELSE Last(live)
    BY <2>1, <1>13, <1>4 DEF p
  <2> DEFINE q == k.sweepgc
  <2>4. q = l \/ (q \in Objects \ dead /\ q \in ToSet(k[l]) /\ q # l /\ y \in After(h[l], q))
    <3>1. CASE live = <<>> /\ h.sweepgc = l
      BY <3>1, <2>3
    <3>2. CASE live = <<>> /\ h.sweepgc # l
      <4>1. h.sweepgc \in Objects \ dead /\ h.sweepgc \in ToSet(h[l]) /\ y \in After(h[l], h.sweepgc)
        BY <3>2, <1>2, <1>5, <1>16
      <4>. QED  BY <4>1, <3>2, <2>3, <1>7, <1>14
    <3>3. CASE live # <<>>
      <4>1. q \in ToSet(part) /\ q \notin dead /\ q \in Objects
        BY <3>3, <2>3, <1>8, <1>6
      <4>2. y \in After(next, q)
        BY <4>1, <1>5
      <4>3. q \in ToSet(h[l]) /\ q \in ToSet(k[l]) /\ q \notin Lists
        BY <4>1, <1>5, <1>2, <1>7, <1>14, Distinct
      <4>4. y \in After(h[l], q)
        <5>1. CASE h.sweepgc = l
          BY <5>1, <4>2, <1>2
        <5>2. CASE h.sweepgc # l
          <6>1. h.sweepgc \in ToSet(h[l]) /\ h.sweepgc \in Objects
            BY <5>2, <1>2
          <6>2. PICK i \in DOMAIN h[l] : h[l][i] = h.sweepgc
            BY <6>1 DEF ToSet
          <6>3. next = SubSeq(h[l], i + 1, Len(h[l]))
            <7>1. h[l] \in Seq(Objects) /\ IsInjective(h[l])
              BY ListOf
            <7>. QED  BY <6>1, <6>2, <7>1, FollowsAt DEF next
          <6>. QED  BY <6>3, <6>2, <4>2, AfterLater, ListOf
        <5>. QED  BY <5>1, <5>2
      <4>. QED  BY <4>1, <4>3, <4>4
    <3>. QED  BY <3>1, <3>2, <3>3
  <2>5. q = l \/ q \in ToSet(k[l])
    BY <2>4
  <2>6. q # "NULL"
    <3>1. l # "NULL" /\ "NULL" \notin Objects
      BY Distinct DEF Lists
    <3>. QED  BY <3>1, <2>4
  <2>. HIDE DEF q
  <2>7. /\ q = l => Following(k, q) = k[l]
        /\ q # l => ToSet(Following(k, q)) = After(k[l], q)
    BY <2>5, <1>13, <1>18, Follows
  <2>8. q # l => y \in After(k[l], q)
    BY <2>4, <2>2, <1>7, <1>14
  <2>9. y \in ToSet(Following(k, q))
    BY <2>7, <2>8, <2>2
  <2>. QED  BY <2>9, <2>6 DEF Rest, q
<1>21. Dead(k) \subseteq Rest(k)
  <2>1. ASSUME NEW o \in Dead(k)
        PROVE  o \in Rest(k)
    <3>1. o \in Objects /\ k.color[o] = other(w)
      BY <1>13 DEF Dead
    <3>2. other(w) # w /\ other(w) # "free"
      BY <1>10, Whitenesses
    <3>3. o \notin ToSet(part) /\ h.color[o] = other(w)
      BY <3>1, <3>2, <1>15
    <3>4. o \in ToSet(next)
      BY <3>1, <3>3, <1>1 DEF Dead
    <3>. QED  BY <3>3, <3>4, <1>20
  <2>. QED  BY <2>1
<1>22. \A o \in Rest(h) \ Rest(k) : k.color[o] \in {h.currentwhite, "free"}
  <2>1. ASSUME NEW o \in Rest(h) \ Rest(k)
        PROVE  k.color[o] \in {h.currentwhite, "free"}
    <3>1. o \in ToSet(part)
      BY <1>1, <1>20
    <3>. QED  BY <3>1, <1>11, <1>15
  <2>. QED  BY <2>1
<1>23. ASSUME Len(next) <= count \/ \E i \in DOMAIN next : i <= count /\ next[i] \notin Dead(h)
       PROVE  k.sweepgc = "NULL" \/ k.sweepgc \in ToSet(next)
  <2>1. CASE Len(next) <= count
    BY <2>1, <1>13 DEF p
  <2>2. CASE ~(Len(next) <= count)
    <3>1. PICK i \in DOMAIN next : i <= count /\ next[i] \notin Dead(h)
      BY <1>23, <2>2
    <3>2. n = count
      BY <2>2, <1>4
    <3>3. next[i] \in ToSet(part) /\ next[i] \notin dead
      BY <3>1, <3>2, <1>5, <1>16
    <3>4. next[i] \in ToSet(live)
      BY <3>3, <1>6, <1>11
    <3>5. live # <<>>
      BY <3>4 DEF ToSet
    <3>6. k.sweepgc = Last(live)
      BY <2>2, <3>5, <1>13 DEF p
    <3>. QED  BY <3>5, <3>6, <1>8, <1>6, <1>5
  <2>. QED  BY <2>1, <2>2
<1>24. \A o \in Objects :
              \/ k.color[o] = h.color[o]
              \/ k.color[o] = h.currentwhite /\ h.color[o] # "free" /\ o # MainThread
              \/ k.color[o] = "free" /\ o \in Dead(h)
  BY <1>15, <1>11, <1>16
<1>. QED  BY <1>13, <1>17, <1>18, <1>19, <1>21, <1>22, <1>23, <1>24 DEF next

-----------------------------------------------------------------------------
(* Marking *)

\* k is h after more marking: nothing else has changed, and no object is whiter.
Marks(h, k) ==
  /\ k \in GlobalState
  /\ k.currentwhite = h.currentwhite /\ k.sweepgc = h.sweepgc
  /\ k.allgc = h.allgc /\ k.finobj = h.finobj /\ k.tobefnz = h.tobefnz
  /\ k.full = h.full /\ k.emergency = h.emergency
  /\ \A o \in Objects :
       /\ k.color[o] = "free" <=> h.color[o] = "free"
       /\ k.color[o] \in White => k.color[o] = h.color[o]
  /\ \A o \in Udata : k.color[o] = "gray" => h.color[o] = "gray"
  /\ k.color[MainThread] = "black" => h.color[MainThread] = "black"

\* Marking twice is marking.
LEMMA MarksMore ==
  ASSUME NEW h, NEW i, NEW k, Marks(h, i), Marks(i, k)
  PROVE  Marks(h, k)
<1>1. Udata \subseteq Objects /\ MainThread \in Objects
  BY DEF Objects
<1>. QED  BY <1>1 DEF Marks

\* reallymarkobject marks S, and what it turns gray it links.
LEMMA ReallyMarks ==
  ASSUME NEW h \in GlobalState, NEW S \in SUBSET Objects, NEW k, k = reallymarkobject(h, S)
  PROVE  /\ Marks(h, k)
         /\ k.gcstate = h.gcstate /\ k.grayagain = h.grayagain
         /\ \A o \in S : k.color[o] \notin White
         /\ \A o \in Objects : ~iswhite(h, o) => k.color[o] = h.color[o]
         /\ \A o \in Nodes : iswhite(h, o) => k.color[o] \in {h.color[o], "gray"}
         /\ k.gray = h.gray \cup {o \in Nodes : iswhite(h, o) /\ k.color[o] = "gray"}
<1> DEFINE white == {o \in S : iswhite(h, o)}
           metas == {t \in {Metatable} : iswhite(h, t) /\ white \cap meta # {}}
           grays == (white \ Udata) \cup metas
           c == [o \in Objects |-> IF o \in grays THEN "gray"
                                   ELSE IF o \in white THEN "black" ELSE h.color[o]]
<1>1. k = [h EXCEPT !.gray = @ \cup grays, !.color = c]
  BY DEF reallymarkobject
<1>2. /\ h.color \in [Objects -> Color] /\ h.gray \subseteq Nodes
      /\ \A o \in Objects : h.color[o] \in Color
  BY DEF GlobalState
<1>3. /\ white \subseteq S /\ grays \subseteq Nodes /\ grays \cap Udata = {}
      /\ white \ Udata \subseteq grays
      /\ \A o \in grays \cup white : iswhite(h, o) /\ o \in Objects
      /\ \A o \in S : iswhite(h, o) => o \in white
  <2>1. Metatable \in Objects /\ Metatable \in Nodes
    BY DEF Objects, Nodes, Tables
  <2>. QED  BY <2>1, Distinct
<1>. HIDE DEF white, metas, grays
<1>4. c \in [Objects -> Color]
  BY <1>2 DEF Color
<1>5. \A o \in Objects :
        /\ o \in grays => c[o] = "gray"
        /\ o \in white \ grays => c[o] = "black"
        /\ o \notin white \cup grays => c[o] = h.color[o]
  OBVIOUS
<1>. HIDE DEF c
<1>6. /\ k \in GlobalState /\ k.color = c /\ k.gray = h.gray \cup grays
      /\ k.gcstate = h.gcstate /\ k.grayagain = h.grayagain
      /\ k.currentwhite = h.currentwhite /\ k.sweepgc = h.sweepgc
      /\ k.allgc = h.allgc /\ k.finobj = h.finobj /\ k.tobefnz = h.tobefnz
      /\ k.full = h.full /\ k.emergency = h.emergency
  <2>1. h.gray \cup grays \subseteq Nodes
    BY <1>2, <1>3
  <2>. QED  BY <1>1, <1>4, <2>1 DEF GlobalState
<1>7. "free" \notin White /\ "gray" \notin White /\ "black" \notin White
  BY DEF White
<1>8. Nodes \subseteq Objects /\ Nodes \cap Udata = {} /\ Udata \subseteq Objects
      /\ MainThread \in Nodes
  BY Distinct DEF Nodes, Tables
<1>9. \A o \in Objects : o \in grays \cup white => h.color[o] \in White
  BY <1>3 DEF iswhite
<1>10. \A o \in Objects : o \in white \ grays => o \in Udata
  BY <1>3
<1>11. \A o \in Objects :
         /\ k.color[o] = "free" <=> h.color[o] = "free"
         /\ k.color[o] \in White => k.color[o] = h.color[o]
  BY <1>5, <1>6, <1>7, <1>9
<1>12. \A o \in Udata : k.color[o] = "gray" => h.color[o] = "gray"
  BY <1>5, <1>6, <1>8, <1>3
<1>13. k.color[MainThread] = "black" => h.color[MainThread] = "black"
  BY <1>5, <1>6, <1>8, <1>10
<1>14. Marks(h, k)
  BY <1>6, <1>11, <1>12, <1>13 DEF Marks
<1>15. \A o \in S : k.color[o] \notin White
  BY <1>3, <1>5, <1>6, <1>7 DEF iswhite
<1>16. \A o \in Objects : ~iswhite(h, o) => k.color[o] = h.color[o]
  BY <1>5, <1>6, <1>9 DEF iswhite
<1>17. \A o \in Nodes : iswhite(h, o) => k.color[o] \in {h.color[o], "gray"}
  BY <1>5, <1>6, <1>8, <1>10
<1>18. {o \in Nodes : iswhite(h, o) /\ k.color[o] = "gray"} = grays
  <2>1. \A o \in grays : o \in Nodes /\ iswhite(h, o) /\ k.color[o] = "gray"
    BY <1>3, <1>5, <1>6
  <2>2. ASSUME NEW o \in Nodes, iswhite(h, o), k.color[o] = "gray"
        PROVE  o \in grays
    BY <2>2, <1>5, <1>6, <1>7, <1>8, <1>10 DEF iswhite
  <2>. QED  BY <2>1, <2>2
<1>. QED  BY <1>6, <1>14, <1>15, <1>16, <1>17, <1>18

\* What the collector finds in the objects, as it is marking.
Holds ==
  /\ stack \subseteq Udata
  /\ ref \in [Tables -> SUBSET Objects]
  /\ ref[Registry] \subseteq Udata \cup {Metatable, WeakTable}
  /\ {Metatable, WeakTable} \subseteq ref[Registry]
  /\ ref[WeakTable] \subseteq Udata
  /\ ref[Metatable] = {}

\* propagatemark marks what the visited object refers to. The last part holds while
\* what is gray is linked once.
LEMMA Propagates ==
  ASSUME NEW h \in GlobalState, NEW o \in h.gray, Holds,
         \A x \in Nodes : h.color[x] # "free", NEW k, k = propagatemark(h, o)
  PROVE  /\ Marks(h, k)
         /\ k.gcstate = h.gcstate
         /\ h.gray \ {o} \subseteq k.gray /\ h.grayagain \subseteq k.grayagain
         /\ o = MainThread => MainThread \in k.grayagain /\ \A v \in stack : k.color[v] \notin White
         /\ o \in Tables \ {WeakTable} => /\ k.color[o] = "black"
                                          /\ \A v \in ref[o] : k.color[v] \notin White
         /\ h.color[o] = "gray" =>
              /\ k.grayagain = h.grayagain \cup
                   (IF o = MainThread \/ (o = WeakTable /\ h.gcstate = "propagate") THEN {o} ELSE {})
              /\ \A x \in Objects : x # o /\ ~iswhite(h, x) => k.color[x] = h.color[x]
              /\ \A x \in Nodes : iswhite(h, x) => k.color[x] \in {h.color[x], "gray"}
              /\ k.gray = (h.gray \ {o}) \cup {x \in Nodes : iswhite(h, x) /\ k.color[x] = "gray"}
              /\ o \in {MainThread, WeakTable} => k.color[o] = "gray"
<1>1. /\ h.gray \subseteq Nodes /\ h.grayagain \subseteq Nodes
      /\ h.color \in [Objects -> Color] /\ o \in Nodes /\ o \in Objects
      /\ Nodes \subseteq Objects /\ Udata \subseteq Objects /\ Udata \cap Nodes = {}
  <2>1. Nodes \subseteq Objects /\ Udata \subseteq Objects /\ Udata \cap Nodes = {}
    BY Distinct DEF Nodes, Tables
  <2>2. h.gray \subseteq Nodes /\ h.grayagain \subseteq Nodes /\ h.color \in [Objects -> Color]
    BY DEF GlobalState
  <2>. QED  BY <2>1, <2>2
<1>2. "black" \in Color /\ "black" \notin White /\ "gray" \notin White /\ "free" \notin White
  BY DEF Color, White
<1> DEFINE again == IF h.gcstate = "propagate" \/ o = MainThread THEN {o} ELSE {}
           n == [h EXCEPT !.gray = @ \ {o}]
           m == IF o \in {MainThread, WeakTable} THEN [n EXCEPT !.grayagain = @ \cup again]
                ELSE [n EXCEPT !.color[o] = "black"]
           S == IF o = MainThread THEN stack ELSE IF o = WeakTable THEN {} ELSE ref[o]
<1>3. o = WeakTable \/ k = reallymarkobject(m, S)
  BY Distinct DEF propagatemark, Tables
<1>4. o = WeakTable => k = m
  BY Distinct DEF propagatemark, Tables
<1>5. /\ m \in GlobalState
      /\ m.currentwhite = h.currentwhite /\ m.sweepgc = h.sweepgc /\ m.gcstate = h.gcstate
      /\ m.allgc = h.allgc /\ m.finobj = h.finobj /\ m.tobefnz = h.tobefnz
      /\ m.full = h.full /\ m.emergency = h.emergency
      /\ m.gray = h.gray \ {o}
      /\ m.grayagain = h.grayagain \cup (IF o \in {MainThread, WeakTable} THEN again ELSE {})
      /\ \A x \in Objects : x # o => m.color[x] = h.color[x]
      /\ o \in {MainThread, WeakTable} => m.color[o] = h.color[o]
      /\ o \notin {MainThread, WeakTable} => m.color[o] = "black"
  <2>1. again \subseteq Nodes
    BY <1>1
  <2>. HIDE DEF again
  <2>2. CASE o \in {MainThread, WeakTable}
    <3>1. m = [h EXCEPT !.gray = @ \ {o}, !.grayagain = @ \cup again]
      BY <2>2 DEF GlobalState
    <3>. HIDE DEF m
    <3>. QED  BY <3>1, <2>1, <2>2, <1>1 DEF GlobalState
  <2>3. CASE o \notin {MainThread, WeakTable}
    <3> DEFINE c == [h.color EXCEPT ![o] = "black"]
    <3>1. m = [h EXCEPT !.gray = @ \ {o}, !.color = c]
      BY <2>3 DEF GlobalState
    <3>2. /\ c \in [Objects -> Color] /\ c[o] = "black"
          /\ \A x \in Objects : x # o => c[x] = h.color[x]
      BY <1>1, <1>2
    <3>. HIDE DEF m, c
    <3>. QED  BY <3>1, <3>2, <2>3, <1>1 DEF GlobalState
  <2>. QED  BY <2>2, <2>3
<1>6. S \in SUBSET Objects
  BY <1>1 DEF Holds, Nodes
<1>7. /\ MainThread # WeakTable /\ MainThread \in Objects /\ WeakTable \in Objects
      /\ Nodes = Tables \cup {MainThread} /\ MainThread \notin Tables
  BY Distinct DEF Nodes, Tables, Objects
<1>. HIDE DEF n, m
<1>8. Marks(h, m)
  BY <1>1, <1>2, <1>5, <1>7 DEF Marks
<1>9. CASE o # WeakTable
  <2>1. S = IF o = MainThread THEN stack ELSE ref[o]
    BY <1>9
  <2>. HIDE DEF S
  <2>2. /\ Marks(m, k)
        /\ k.gcstate = m.gcstate /\ k.grayagain = m.grayagain
        /\ \A x \in S : k.color[x] \notin White
        /\ \A x \in Objects : ~iswhite(m, x) => k.color[x] = m.color[x]
        /\ \A x \in Nodes : iswhite(m, x) => k.color[x] \in {m.color[x], "gray"}
        /\ k.gray = m.gray \cup {x \in Nodes : iswhite(m, x) /\ k.color[x] = "gray"}
    BY <1>3, <1>5, <1>6, <1>9, ReallyMarks
  <2>3. Marks(h, k)
    BY <1>8, <2>2, MarksMore
  <2>4. o # MainThread => k.color[o] = "black"
    BY <2>2, <1>5, <1>9, <1>1, <1>2 DEF iswhite
  <2>5. MainThread \in again \/ o # MainThread
    OBVIOUS
  <2>6. ASSUME h.color[o] = "gray"
        PROVE  /\ k.grayagain = h.grayagain \cup
                    (IF o = MainThread \/ (o = WeakTable /\ h.gcstate = "propagate") THEN {o} ELSE {})
               /\ \A x \in Objects : x # o /\ ~iswhite(h, x) => k.color[x] = h.color[x]
               /\ \A x \in Nodes : iswhite(h, x) => k.color[x] \in {h.color[x], "gray"}
               /\ k.gray = (h.gray \ {o}) \cup {x \in Nodes : iswhite(h, x) /\ k.color[x] = "gray"}
               /\ o \in {MainThread, WeakTable} => k.color[o] = "gray"
    <3>1. \A x \in Objects : iswhite(m, x) <=> iswhite(h, x)
      BY <2>6, <1>5, <1>2 DEF iswhite
    <3>2. \A x \in Objects : x # o => m.color[x] = h.color[x]
      BY <1>5
    <3>3. {x \in Nodes : iswhite(m, x) /\ k.color[x] = "gray"}
             = {x \in Nodes : iswhite(h, x) /\ k.color[x] = "gray"}
      BY <3>1, <1>1
    <3>4. k.gray = (h.gray \ {o}) \cup {x \in Nodes : iswhite(h, x) /\ k.color[x] = "gray"}
      BY <3>3, <2>2, <1>5
    <3>5. ~iswhite(h, o)
      BY <2>6, <1>2 DEF iswhite
    <3>6. \A x \in Nodes : iswhite(h, x) => k.color[x] \in {h.color[x], "gray"}
      BY <3>1, <3>2, <3>5, <2>2, <1>1
    <3>7. k.grayagain = h.grayagain \cup
                    (IF o = MainThread \/ (o = WeakTable /\ h.gcstate = "propagate") THEN {o} ELSE {})
      BY <2>2, <1>5, <1>9
    <3>8. o = MainThread => k.color[o] = "gray"
      BY <2>2, <2>6, <1>5, <1>1, <3>1, <3>5
    <3>. QED  BY <3>1, <3>2, <3>4, <3>6, <3>7, <3>8, <2>2, <1>9
  <2>. QED  BY <2>1, <2>2, <2>3, <2>4, <2>5, <2>6, <1>5, <1>7, <1>9
<1>10. CASE o = WeakTable
  <2>1. k = m
    BY <1>4, <1>10
  <2>2. again \subseteq {o} /\ (again = {o} <=> h.gcstate = "propagate")
    BY <1>10, <1>7
  <2>3. ASSUME h.color[o] = "gray"
        PROVE  /\ k.grayagain = h.grayagain \cup
                    (IF o = MainThread \/ (o = WeakTable /\ h.gcstate = "propagate") THEN {o} ELSE {})
               /\ \A x \in Objects : k.color[x] = h.color[x]
               /\ k.gray = (h.gray \ {o}) \cup {x \in Nodes : iswhite(h, x) /\ k.color[x] = "gray"}
    <3>1. \A x \in Objects : k.color[x] = h.color[x]
      BY <2>1, <1>5, <1>10
    <3>2. {x \in Nodes : iswhite(h, x) /\ k.color[x] = "gray"} = {}
      BY <3>1, <1>1, <1>2 DEF iswhite
    <3>3. k.gray = h.gray \ {o}
      BY <2>1, <1>5
    <3>. QED  BY <3>1, <3>2, <3>3, <2>1, <2>2, <1>5, <1>7, <1>10
  <2>4. /\ Marks(h, k) /\ k.gcstate = h.gcstate
        /\ h.gray \ {o} \subseteq k.gray /\ h.grayagain \subseteq k.grayagain
    BY <2>1, <1>5, <1>8
  <2>. QED  BY <2>3, <2>4, <1>1, <1>7, <1>10
<1>. QED  BY <1>9, <1>10

\* visited is propagatemark, or nothing.
LEMMA Visits ==
  ASSUME NEW h \in GlobalState, NEW o \in Nodes, Holds,
         \A x \in Nodes : h.color[x] # "free", NEW k, k = visited(h, o)
  PROVE  /\ k \in GlobalState /\ Marks(h, k) /\ k.gcstate = h.gcstate
         /\ \A x \in Nodes : k.color[x] # "free"
         /\ h.gray \ {o} \subseteq k.gray /\ h.grayagain \subseteq k.grayagain
         /\ o = MainThread /\ o \in h.gray =>
              MainThread \in k.grayagain /\ \A v \in stack : k.color[v] \notin White
         /\ o = Registry /\ o \in h.gray => \A v \in ref[o] : k.color[v] \notin White
<1>1. Nodes \subseteq Objects /\ Registry \in Tables \ {WeakTable}
  BY Distinct DEF Nodes, Tables
<1>2. CASE o \in h.gray
  <2>1. k = propagatemark(h, o)
    BY <1>2 DEF visited
  <2>2. /\ Marks(h, k)
        /\ k.gcstate = h.gcstate
        /\ h.gray \ {o} \subseteq k.gray /\ h.grayagain \subseteq k.grayagain
        /\ o = MainThread => MainThread \in k.grayagain /\ \A v \in stack : k.color[v] \notin White
        /\ o \in Tables \ {WeakTable} => \A v \in ref[o] : k.color[v] \notin White
    BY <1>2, <2>1, Propagates
  <2>3. k \in GlobalState /\ \A x \in Nodes : k.color[x] # "free"
    BY <2>2, <1>1 DEF Marks
  <2>. QED  BY <2>2, <2>3, <1>1
<1>3. CASE o \notin h.gray
  <2>1. k = h
    BY <1>3 DEF visited
  <2>2. Marks(h, h)
    BY DEF Marks
  <2>. QED  BY <2>1, <2>2, <1>3
<1>. QED  BY <1>2, <1>3

\* All that waits in gray is traversed.
LEMMA PropagatesAll ==
  ASSUME NEW h \in GlobalState, Holds, \A x \in Nodes : h.color[x] # "free",
         NEW k, k = propagateall(h)
  PROVE  /\ k \in GlobalState /\ Marks(h, k) /\ k.gcstate = h.gcstate
         /\ \A x \in Nodes : k.color[x] # "free"
         /\ h.grayagain \subseteq k.grayagain
         /\ MainThread \in h.gray =>
              MainThread \in k.grayagain /\ \A v \in stack : k.color[v] \notin White
         /\ Registry \in h.gray => \A v \in ref[Registry] : k.color[v] \notin White
<1>1. /\ MainThread \in Nodes /\ Registry \in Nodes /\ Metatable \in Nodes /\ WeakTable \in Nodes
      /\ Registry # MainThread /\ Nodes \subseteq Objects
      /\ stack \subseteq Objects /\ ref[Registry] \subseteq Objects
  BY Distinct DEF Nodes, Tables, Holds, Objects
<1> DEFINE a == visited(h, MainThread)
           b == visited(a, Registry)
           c == visited(b, Metatable)
<1>2. k = visited(c, WeakTable)
  BY DEF propagateall
<1>3. /\ a \in GlobalState /\ Marks(h, a) /\ a.gcstate = h.gcstate
      /\ \A x \in Nodes : a.color[x] # "free"
      /\ h.gray \ {MainThread} \subseteq a.gray /\ h.grayagain \subseteq a.grayagain
      /\ MainThread \in h.gray =>
           MainThread \in a.grayagain /\ \A v \in stack : a.color[v] \notin White
  BY <1>1, Visits
<1>. HIDE DEF a
<1>4. /\ b \in GlobalState /\ Marks(a, b) /\ b.gcstate = a.gcstate
      /\ \A x \in Nodes : b.color[x] # "free"
      /\ a.grayagain \subseteq b.grayagain
      /\ Registry \in a.gray => \A v \in ref[Registry] : b.color[v] \notin White
  BY <1>1, <1>3, Visits
<1>. HIDE DEF b
<1>5. /\ c \in GlobalState /\ Marks(b, c) /\ c.gcstate = b.gcstate
      /\ \A x \in Nodes : c.color[x] # "free"
      /\ b.grayagain \subseteq c.grayagain
  BY <1>1, <1>4, Visits
<1>. HIDE DEF c
<1>6. /\ k \in GlobalState /\ Marks(c, k) /\ k.gcstate = c.gcstate
      /\ \A x \in Nodes : k.color[x] # "free"
      /\ c.grayagain \subseteq k.grayagain
  BY <1>1, <1>2, <1>5, Visits
<1>7. Marks(b, k) /\ Marks(a, k) /\ Marks(h, k)
  BY <1>3, <1>4, <1>5, <1>6, MarksMore
<1>8. \A v \in Objects : /\ a.color[v] \notin White => k.color[v] \notin White
                         /\ b.color[v] \notin White => k.color[v] \notin White
  BY <1>7 DEF Marks
<1>9. MainThread \in h.gray => \A v \in stack : k.color[v] \notin White
  BY <1>1, <1>3, <1>8
<1>10. Registry \in h.gray => \A v \in ref[Registry] : k.color[v] \notin White
  BY <1>1, <1>3, <1>4, <1>8
<1>. QED  BY <1>3, <1>4, <1>5, <1>6, <1>7, <1>9, <1>10

\* What a visit leaves in gray.
LEMMA VisitsGray ==
  ASSUME NEW h \in GlobalState, NEW o \in Nodes, Holds, NEW k, k = visited(h, o)
  PROVE  k.gray \subseteq (h.gray \ {o}) \cup
           (IF o = Registry THEN {Metatable, WeakTable} ELSE IF o = MainThread THEN {Metatable} ELSE {})
<1> DEFINE n == [h EXCEPT !.gray = @ \ {o}]
           m == IF o \in {MainThread, WeakTable}
                THEN [n EXCEPT !.grayagain = @ \cup (IF h.gcstate = "propagate" \/ o = MainThread THEN {o} ELSE {})]
                ELSE [n EXCEPT !.color[o] = "black"]
           S == IF o = MainThread THEN stack ELSE IF o = WeakTable THEN {} ELSE ref[o]
<1>1. MainThread # WeakTable /\ MainThread # Registry /\ Nodes = {Registry, Metatable, WeakTable, MainThread}
      /\ WeakTable # Registry /\ Metatable # Registry /\ Metatable # MainThread
  BY Distinct DEF Nodes, Tables
<1>2. m.gray = h.gray \ {o}
  BY DEF GlobalState
<1>3. CASE o \notin h.gray
  BY <1>3 DEF visited
<1>4. CASE o \in h.gray /\ o = WeakTable
  <2>1. k = m
    BY <1>1, <1>4 DEF visited, propagatemark
  <2>. QED  BY <2>1, <1>2
<1>5. CASE o \in h.gray /\ o # WeakTable
  <2>1. k = reallymarkobject(m, S)
    BY <1>1, <1>5 DEF visited, propagatemark
  <2>2. /\ S \subseteq Udata \cup (IF o = Registry THEN {Metatable, WeakTable} ELSE {})
        /\ o = Metatable => S = {}
    BY <1>1, <1>5 DEF Holds
  <2>. HIDE DEF m, S
  <2>3. k.gray \subseteq m.gray \cup (S \ Udata) \cup (IF S = {} THEN {} ELSE {Metatable})
    <3> DEFINE white == {x \in S : iswhite(m, x)}
               metas == {t \in {Metatable} : iswhite(m, t) /\ white \cap meta # {}}
    <3>1. k.gray = m.gray \cup ((white \ Udata) \cup metas)
      <4>1. DOMAIN m = DOMAIN h /\ DOMAIN h = {"gcstate", "currentwhite", "color", "gray", "grayagain",
              "allgc", "finobj", "tobefnz", "sweepgc", "full", "emergency"}
        BY DEF GlobalState, m
      <4>. QED  BY <2>1, <4>1 DEF reallymarkobject
    <3>2. metas \subseteq IF S = {} THEN {} ELSE {Metatable}
      OBVIOUS
    <3>. QED  BY <3>1, <3>2
  <2>4. CASE o = Registry
    BY <2>2, <2>3, <2>4, <1>2
  <2>5. CASE o = Metatable
    BY <2>2, <2>3, <2>5, <1>1, <1>2
  <2>6. CASE o = MainThread
    BY <2>2, <2>3, <2>6, <1>1, <1>2
  <2>. QED  BY <2>4, <2>5, <2>6, <1>1, <1>5
<1>. QED  BY <1>3, <1>4, <1>5

\* propagateall goes on until nothing is left in gray.
LEMMA PropagatesUntilEmpty ==
  ASSUME NEW h \in GlobalState, Holds, \A x \in Nodes : h.color[x] # "free"
  PROVE  propagateall(h).gray = {}
<1>1. /\ MainThread \in Nodes /\ Registry \in Nodes /\ Metatable \in Nodes /\ WeakTable \in Nodes
      /\ MainThread # WeakTable /\ MainThread # Registry /\ Metatable # Registry
      /\ MainThread # Metatable /\ WeakTable # Registry /\ WeakTable # Metatable
      /\ Nodes = {Registry, Metatable, WeakTable, MainThread}
  BY Distinct DEF Nodes, Tables
<1> DEFINE a == visited(h, MainThread)
           b == visited(a, Registry)
           c == visited(b, Metatable)
           d == visited(c, WeakTable)
<1>2. propagateall(h) = d
  BY DEF propagateall
<1>3. /\ a = visited(h, MainThread) /\ b = visited(a, Registry)
      /\ c = visited(b, Metatable) /\ d = visited(c, WeakTable)
  OBVIOUS
<1>. HIDE DEF a, b, c, d
<1>4. a \in GlobalState /\ \A x \in Nodes : a.color[x] # "free"
  BY <1>1, <1>3, Visits
<1>5. b \in GlobalState /\ \A x \in Nodes : b.color[x] # "free"
  BY <1>1, <1>3, <1>4, Visits
<1>6. c \in GlobalState
  BY <1>1, <1>3, <1>5, Visits
<1>7. d \in GlobalState
  <2>1. \A x \in Nodes : c.color[x] # "free"
    BY <1>1, <1>3, <1>5, Visits
  <2>. QED  BY <2>1, <1>1, <1>3, <1>6, Visits
<1>8. h.gray \subseteq Nodes
  BY DEF GlobalState
<1>9. a.gray \subseteq Nodes \ {MainThread}
  <2>1. a.gray \subseteq (h.gray \ {MainThread}) \cup {Metatable}
    BY <1>1, <1>3, VisitsGray
  <2>. QED  BY <2>1, <1>1, <1>8
<1>10. b.gray \subseteq {Metatable, WeakTable}
  <2>1. b.gray \subseteq (a.gray \ {Registry}) \cup {Metatable, WeakTable}
    BY <1>1, <1>3, <1>4, VisitsGray
  <2>. QED  BY <2>1, <1>1, <1>9
<1>11. c.gray \subseteq {WeakTable}
  <2>1. c.gray \subseteq (b.gray \ {Metatable}) \cup {}
    BY <1>1, <1>3, <1>5, VisitsGray
  <2>. QED  BY <2>1, <1>10
<1>12. d.gray = {}
  <2>1. d.gray \subseteq (c.gray \ {WeakTable}) \cup {}
    BY <1>1, <1>3, <1>6, VisitsGray
  <2>. QED  BY <2>1, <1>11
<1>. QED  BY <1>2, <1>12

\* The userdata that the program holds itself, or in the registry.
Held == stack \cup ref[Registry]

\* Marking marks the userdata it is told to, and no other.
LEMMA ReallyMarksOnly ==
  ASSUME NEW h \in GlobalState, NEW S, NEW k, k = reallymarkobject(h, S)
  PROVE  \A u \in Udata \ S : k.color[u] = h.color[u]
<1> DEFINE white == {o \in S : iswhite(h, o)}
           metas == {t \in {Metatable} : iswhite(h, t) /\ white \cap meta # {}}
           grays == (white \ Udata) \cup metas
           c == [o \in Objects |-> IF o \in grays THEN "gray"
                                   ELSE IF o \in white THEN "black" ELSE h.color[o]]
<1>1. k = [h EXCEPT !.gray = @ \cup grays, !.color = c]
  BY DEF reallymarkobject
<1>2. \A u \in Udata : u \notin grays
  BY Distinct
<1>3. \A u \in Udata \ S : u \in Objects /\ c[u] = h.color[u]
  BY <1>2 DEF Objects
<1>. HIDE DEF grays, c
<1>4. k.color = c
  BY <1>1 DEF GlobalState
<1>. QED  BY <1>3, <1>4

\* Nor does a visit mark more than what the program holds.
LEMMA PropagatesOnly ==
  ASSUME NEW h \in GlobalState, NEW o \in Nodes, Holds, NEW k, k = propagatemark(h, o)
  PROVE  \A u \in Udata \ Held : k.color[u] = h.color[u]
<1> DEFINE again == IF h.gcstate = "propagate" \/ o = MainThread THEN {o} ELSE {}
           m == [h EXCEPT !.gray = @ \ {o}, !.grayagain = @ \cup again]
           c == [h.color EXCEPT ![o] = "black"]
           n == [h EXCEPT !.gray = @ \ {o}, !.color = c]
<1>0. /\ Nodes = {Registry, Metatable, WeakTable, MainThread} /\ o \in Objects /\ o \notin Udata
      /\ MainThread # WeakTable /\ Udata \subseteq Objects
      /\ ref[Metatable] = {}
  BY Distinct DEF Nodes, Tables, Holds
<1>1. /\ h.color \in [Objects -> Color] /\ h.gray \subseteq Nodes /\ h.grayagain \subseteq Nodes
  BY DEF GlobalState
<1>2. m \in GlobalState /\ m.color = h.color
  <2>1. again \subseteq Nodes
    OBVIOUS
  <2>. HIDE DEF again
  <2>. QED  BY <1>1, <2>1 DEF GlobalState
<1>3. c \in [Objects -> Color] /\ \A u \in Udata : c[u] = h.color[u]
  BY <1>0, <1>1 DEF Color
<1>4. n \in GlobalState /\ n.color = c
  <2>. HIDE DEF c
  <2>. QED  BY <1>1, <1>3 DEF GlobalState
<1>5. CASE o = MainThread
  <2>1. k = reallymarkobject(m, stack)
    BY <1>5 DEF propagatemark, GlobalState
  <2>. HIDE DEF m
  <2>2. \A u \in Udata \ stack : k.color[u] = m.color[u]
    BY <2>1, <1>2, ReallyMarksOnly
  <2>. QED  BY <2>2, <1>2 DEF Held
<1>6. CASE o = WeakTable
  <2>1. k = m
    BY <1>0, <1>6 DEF propagatemark, GlobalState
  <2>. QED  BY <2>1, <1>2
<1>7. CASE o \notin {MainThread, WeakTable}
  <2>1. k = reallymarkobject(n, ref[o])
    BY <1>7 DEF propagatemark, GlobalState
  <2>2. ref[o] \subseteq ref[Registry]
    BY <1>0, <1>7
  <2>. HIDE DEF n, c
  <2>3. \A u \in Udata \ ref[o] : k.color[u] = n.color[u]
    BY <2>1, <1>4, ReallyMarksOnly
  <2>. QED  BY <2>2, <2>3, <1>3, <1>4 DEF Held
<1>. QED  BY <1>5, <1>6, <1>7

\* Or nothing is done.
LEMMA VisitsOnly ==
  ASSUME NEW h \in GlobalState, NEW o \in Nodes, Holds, NEW k, k = visited(h, o)
  PROVE  \A u \in Udata \ Held : k.color[u] = h.color[u]
<1>1. k = h \/ k = propagatemark(h, o)
  BY DEF visited
<1>. QED  BY <1>1, PropagatesOnly

\* Nor does propagateall.
LEMMA PropagatesAllOnly ==
  ASSUME NEW h \in GlobalState, Holds, \A x \in Nodes : h.color[x] # "free",
         NEW k, k = propagateall(h)
  PROVE  \A u \in Udata \ Held : k.color[u] = h.color[u]
<1>1. MainThread \in Nodes /\ Registry \in Nodes /\ Metatable \in Nodes /\ WeakTable \in Nodes
  BY DEF Nodes, Tables
<1> DEFINE a == visited(h, MainThread)
           b == visited(a, Registry)
           c == visited(b, Metatable)
<1>2. k = visited(c, WeakTable)
  BY DEF propagateall
<1>3. /\ a \in GlobalState /\ \A x \in Nodes : a.color[x] # "free"
      /\ \A u \in Udata \ Held : a.color[u] = h.color[u]
  BY <1>1, Visits, VisitsOnly
<1>. HIDE DEF a
<1>4. /\ b \in GlobalState /\ \A x \in Nodes : b.color[x] # "free"
      /\ \A u \in Udata \ Held : b.color[u] = a.color[u]
  BY <1>1, <1>3, Visits, VisitsOnly
<1>. HIDE DEF b
<1>5. /\ c \in GlobalState /\ \A u \in Udata \ Held : c.color[u] = b.color[u]
  BY <1>1, <1>4, Visits, VisitsOnly
<1>. HIDE DEF c
<1>6. \A u \in Udata \ Held : k.color[u] = c.color[u]
  BY <1>1, <1>2, <1>5, VisitsOnly
<1>. QED  BY <1>3, <1>4, <1>5, <1>6
-----------------------------------------------------------------------------
(* The heap between the steps of the collector, and the sweep *)

\* What has still to be swept of the objects that may be dead.
Unswept(h) == IF h.gcstate = "swpallgc" THEN Rest(h) ELSE {}

\* The pointer of the sweep leads into a list; while allgc is swept, into that.
Pointed(h) ==
  /\ h.sweepgc # "NULL" =>
       /\ h.gcstate \in {"swpallgc", "swpfinobj", "swptobefnz"}
       /\ \E l \in Lists : h.sweepgc = l \/ h.sweepgc \in ToSet(h[l])
  /\ h.gcstate = "swpallgc" => h.sweepgc \in {"NULL", "allgc"} \cup ToSet(h.allgc)

\* What is gray is linked where it will be visited, once.
Linked(h) ==
  /\ \A o \in Objects : h.color[o] = "gray" <=> o \in h.gray \cup h.grayagain
  /\ h.gray \cap h.grayagain = {}

Heap(h) ==
  /\ h \in GlobalState /\ h.gcstate # "insideatomic"
  /\ Separated(h) /\ Pointed(h)
  /\ \A o \in Udata : h.color[o] # "gray"
  /\ \A o \in Nodes : h.color[o] # "free" /\ o \notin Dead(h)
  /\ h.color[MainThread] # "black"
  /\ Dead(h) \subseteq Unswept(h)
  /\ keepinvariant(h) =>
       /\ Linked(h) /\ h.color[MainThread] = "gray" /\ ~iswhite(h, Registry)
  /\ ~keepinvariant(h) =>
       \A t \in Tables \ Unswept(h) : h.color[t] = h.currentwhite
  /\ issweepphase(h) => h.color[MainThread] \in {"gray", h.currentwhite}
  /\ h.gcstate \in {"callfin", "pause"} => h.color[MainThread] = h.currentwhite

\* No object dies or is freed from h to k that was not dead.
Spares(h, k) ==
  \A o \in Objects : o \notin Dead(h) /\ h.color[o] # "free" =>
                     o \notin Dead(k) /\ k.color[o] # "free"

\* The predicates on gcstate.
LEMMA Phases ==
  ASSUME NEW h \in GlobalState
  PROVE  /\ issweepphase(h) => ~keepinvariant(h)
         /\ h.gcstate = "swpallgc" => issweepphase(h)
         /\ h.gcstate \in {"callfin", "pause"} => ~issweepphase(h) /\ ~keepinvariant(h)
         /\ h.gcstate # "insideatomic" /\ ~issweepphase(h) =>
              keepinvariant(h) \/ h.gcstate \in {"callfin", "pause"}
BY DEF issweepphase, keepinvariant, GlobalState, GCState

\* sweeplist keeps the heap sound.
LEMMA HeapSweeps ==
  ASSUME NEW h, Heap(h), h.sweepgc # "NULL", NEW count \in Nat, NEW k, k = sweeplist(h, count)
  PROVE  /\ Heap(k) /\ Spares(h, k)
         /\ k.gcstate = h.gcstate /\ k.full = h.full /\ k.emergency = h.emergency
         /\ k.currentwhite = h.currentwhite
         /\ \A o \in Objects : k.color[o] \in {h.color[o], h.currentwhite, "free"}
         /\ \A m \in Lists : ToSet(k[m]) = {o \in ToSet(h[m]) : k.color[o] # "free"}
         /\ \/ Len(Following(h, h.sweepgc)) <= count
            \/ \E i \in DOMAIN Following(h, h.sweepgc) :
                 i <= count /\ Following(h, h.sweepgc)[i] \notin Dead(h)
            => k.sweepgc # h.sweepgc
<1>1. /\ h \in GlobalState /\ Separated(h) /\ h["allgc"] = h.allgc
      /\ h.gcstate \in {"swpallgc", "swpfinobj", "swptobefnz"}
      /\ h.currentwhite \in White
  BY DEF Heap, Pointed, GlobalState
<1>2. /\ issweepphase(h) /\ ~keepinvariant(h) /\ h.gcstate \notin {"callfin", "pause", "insideatomic"}
  BY <1>1 DEF issweepphase, keepinvariant
<1>3. PICK l \in Lists : /\ h.sweepgc = l \/ h.sweepgc \in ToSet(h[l])
                         /\ h.gcstate = "swpallgc" => l = "allgc"
  <2>1. CASE h.gcstate = "swpallgc"
    <3>1. h.sweepgc = "allgc" \/ h.sweepgc \in ToSet(h["allgc"])
      BY <2>1, <1>1 DEF Heap, Pointed
    <3>. QED  BY <3>1 DEF Lists
  <2>2. CASE h.gcstate # "swpallgc"
    BY <2>2 DEF Heap, Pointed
  <2>. QED  BY <2>1, <2>2
<1>4. Dead(h) \subseteq Rest(h)
  BY DEF Heap, Unswept
<1>5. /\ k \in GlobalState /\ Separated(k)
      /\ k.gcstate = h.gcstate /\ k.currentwhite = h.currentwhite
      /\ k.gray = h.gray /\ k.grayagain = h.grayagain
      /\ k.full = h.full /\ k.emergency = h.emergency
  BY <1>1, <1>3, <1>4, Sweeps
<1>6. \A o \in Objects :
        \/ k.color[o] = h.color[o]
        \/ k.color[o] = h.currentwhite /\ h.color[o] # "free" /\ o # MainThread
        \/ k.color[o] = "free" /\ o \in Dead(h)
  BY <1>1, <1>3, <1>4, Sweeps
<1>7. \A m \in Lists : ToSet(k[m]) = {o \in ToSet(h[m]) : k.color[o] # "free"}
  BY <1>1, <1>3, <1>4, Sweeps
<1>8. k.sweepgc \in {"NULL", l} \cup ToSet(k[l]) /\ Dead(k) \subseteq Rest(k)
  BY <1>1, <1>3, <1>4, Sweeps
<1>9. \A o \in Rest(h) \ Rest(k) : k.color[o] \in {h.currentwhite, "free"}
  BY <1>1, <1>3, <1>4, Sweeps
<1>10. \/ Len(Following(h, h.sweepgc)) <= count
       \/ \E i \in DOMAIN Following(h, h.sweepgc) :
            i <= count /\ Following(h, h.sweepgc)[i] \notin Dead(h)
       => k.sweepgc = "NULL" \/ k.sweepgc \in ToSet(Following(h, h.sweepgc))
  BY <1>1, <1>3, <1>4, Sweeps
<1>11. /\ other(h.currentwhite) # h.currentwhite /\ other(h.currentwhite) # "free"
       /\ h.currentwhite # "free" /\ h.currentwhite # "gray" /\ h.currentwhite # "black"
  BY <1>1, Whitenesses
<1>12. \A o \in Objects : o \in Dead(k) => o \in Dead(h)
  BY <1>5, <1>6, <1>11 DEF Dead
<1>13. Spares(h, k)
  BY <1>6, <1>11, <1>12 DEF Spares
<1>14. Pointed(k)
  <2>1. k["allgc"] = k.allgc
    OBVIOUS
  <2>. QED  BY <2>1, <1>1, <1>3, <1>5, <1>8 DEF Pointed
<1>15. Dead(k) \subseteq Unswept(k)
  <2>1. CASE h.gcstate = "swpallgc"
    BY <2>1, <1>5, <1>8 DEF Unswept
  <2>2. CASE h.gcstate # "swpallgc"
    <3>1. Dead(h) = {}
      BY <2>2 DEF Heap, Unswept
    <3>. QED  BY <3>1, <1>12 DEF Dead
  <2>. QED  BY <2>1, <2>2
<1>16. Nodes \subseteq Objects /\ Udata \subseteq Objects /\ Tables \subseteq Nodes /\ MainThread \in Nodes
  BY Distinct DEF Nodes
<1>17. \A o \in Udata : k.color[o] # "gray"
  BY <1>6, <1>11, <1>16 DEF Heap
<1>18. \A o \in Nodes : k.color[o] # "free" /\ o \notin Dead(k)
  BY <1>13, <1>16 DEF Heap, Spares
<1>19. k.color[MainThread] = h.color[MainThread]
  BY <1>6, <1>16 DEF Heap
<1>20. \A t \in Tables \ Unswept(k) : k.color[t] = k.currentwhite
  <2>1. ASSUME NEW t \in Tables \ Unswept(k)
        PROVE  k.color[t] = h.currentwhite
    <3>1. CASE t \in Unswept(h)
      <4>1. t \in Rest(h) \ Rest(k)
        BY <3>1, <1>5 DEF Unswept
      <4>. QED  BY <4>1, <1>9, <1>16, <1>18
    <3>2. CASE t \notin Unswept(h)
      <4>1. h.color[t] = h.currentwhite
        BY <3>2, <1>2 DEF Heap
      <4>. QED  BY <4>1, <1>6, <1>16, <1>18
    <3>. QED  BY <3>1, <3>2
  <2>. QED  BY <2>1, <1>5
<1>21. issweepphase(k) /\ ~keepinvariant(k) /\ k.gcstate = h.gcstate
  BY <1>2, <1>5 DEF issweepphase, keepinvariant
<1>22. h.color[MainThread] \in {"gray", h.currentwhite}
  BY <1>2 DEF Heap
<1>23. Heap(k)
  BY <1>5, <1>14, <1>15, <1>17, <1>18, <1>19, <1>20, <1>21, <1>22, <1>11, <1>2 DEF Heap
<1>24. ASSUME k.sweepgc = "NULL" \/ k.sweepgc \in ToSet(Following(h, h.sweepgc))
       PROVE  k.sweepgc # h.sweepgc
  <2> DEFINE p == h.sweepgc
  <2>1. p = l \/ p \in ToSet(h[l])
    BY <1>3
  <2>2. /\ ToSet(Following(h, p)) \subseteq ToSet(h[l])
        /\ p # l => p \notin ToSet(Following(h, p))
    <3>. HIDE DEF p
    <3>. QED  BY <2>1, <1>1, Follows
  <2>3. l \notin ToSet(h[l])
    BY <1>1, ListOf, Distinct
  <2>. QED  BY <1>24, <2>2, <2>3
<1>. QED  BY <1>5, <1>6, <1>7, <1>10, <1>13, <1>23, <1>24

\* The sweep goes on from where it was.
LEMMA HeapSweepsToLive ==
  ASSUME NEW h, Heap(h), h.sweepgc # "NULL", NEW k, k = sweeptolive(h)
  PROVE  /\ Heap(k) /\ Spares(h, k)
         /\ k.gcstate = h.gcstate /\ k.full = h.full /\ k.emergency = h.emergency
         /\ k.currentwhite = h.currentwhite
         /\ \A o \in Objects : k.color[o] \in {h.color[o], h.currentwhite, "free"}
         /\ \A m \in Lists : ToSet(k[m]) = {o \in ToSet(h[m]) : k.color[o] # "free"}
         /\ k.sweepgc # h.sweepgc
<1> DEFINE next == Following(h, h.sweepgc)
           live == Kept(next, Objects \ Dead(h))
           n == IF live = <<>> THEN Len(next)
                ELSE CHOOSE i \in DOMAIN next : next[i] = Head(live)
<1>1. k = sweeplist(h, n)
  BY DEF sweeptolive
<1>2. next \in Seq(Objects)
  <2>1. h \in GlobalState /\ Separated(h)
    BY DEF Heap
  <2>2. PICK l \in Lists : h.sweepgc = l \/ h.sweepgc \in ToSet(h[l])
    BY DEF Heap, Pointed
  <2> DEFINE p == h.sweepgc
  <2>3. p = l \/ p \in ToSet(h[l])
    BY <2>2
  <2>. HIDE DEF p
  <2>4. Following(h, p) \in Seq(Objects)
    BY <2>1, <2>3, Follows
  <2>. QED  BY <2>4 DEF p
<1>. HIDE DEF next
<1>3. ToSet(live) = ToSet(next) \cap (Objects \ Dead(h)) /\ live \in Seq(Objects \cap (Objects \ Dead(h)))
  BY <1>2, KeptSeq
<1>4. live # <<>> => Head(live) \in ToSet(live)
  <2>1. ASSUME NEW E, NEW s \in Seq(E), s # <<>>
        PROVE  Head(s) \in ToSet(s)
    <3>1. 1 \in DOMAIN s /\ Head(s) = s[1]
      BY <2>1
    <3>. QED  BY <3>1 DEF ToSet
  <2>. HIDE DEF live
  <2>. QED  BY <2>1, <1>3
<1>. HIDE DEF live
<1>5. n \in Nat /\ (Len(next) <= n \/ \E i \in DOMAIN next : i <= n /\ next[i] \notin Dead(h))
  <2>1. CASE live = <<>>
    BY <2>1, <1>2
  <2>2. CASE live # <<>>
    <3>1. \E i \in DOMAIN next : next[i] = Head(live)
      BY <2>2, <1>3, <1>4 DEF ToSet
    <3>2. n \in DOMAIN next /\ next[n] = Head(live)
      BY <2>2, <3>1
    <3>3. n \in Nat
      BY <3>2, <1>2
    <3>. HIDE DEF n
    <3>. QED  BY <2>2, <3>2, <3>3, <1>3, <1>4
  <2>. QED  BY <2>1, <2>2
<1>. HIDE DEF n
<1>. QED  BY <1>1, <1>5, HeapSweeps DEF next

-----------------------------------------------------------------------------
(* New userdata, and finalizers *)

\* What the sweep of allgc has still to go over.
LEMMA RestInList ==
  ASSUME NEW h \in GlobalState, Separated(h),
         h.sweepgc = "allgc" \/ h.sweepgc \in ToSet(h.allgc)
  PROVE  /\ h.sweepgc # "NULL"
         /\ h.sweepgc = "allgc" => Rest(h) = ToSet(h.allgc)
         /\ h.sweepgc # "allgc" => h.sweepgc \in Objects /\ Rest(h) = After(h.allgc, h.sweepgc)
         /\ Rest(h) \subseteq ToSet(h.allgc)
<1> DEFINE p == h.sweepgc
<1>1. "allgc" \in Lists /\ h["allgc"] = h.allgc /\ "NULL" # "allgc"
  BY DEF Lists
<1>2. p = "allgc" \/ p \in ToSet(h["allgc"])
  BY <1>1
<1>. HIDE DEF p
<1>3. /\ ToSet(Following(h, p)) \subseteq ToSet(h["allgc"])
      /\ p = "allgc" => Following(h, p) = h["allgc"]
      /\ p # "allgc" => /\ p \in Objects /\ p \notin ToSet(Following(h, p))
                        /\ ToSet(Following(h, p)) = After(h["allgc"], p)
  BY <1>1, <1>2, Follows
<1>4. p # "NULL"
  BY <1>1, <1>3, Distinct
<1>. QED  BY <1>1, <1>3, <1>4 DEF p, Rest

\* An object that is not dead, or is new, moves to the front of a list.
LEMMA HeapMoves ==
  ASSUME NEW h, Heap(h), NEW o \in Udata, NEW k \in GlobalState,
         Separated(k), Pointed(k),
         k.gcstate = h.gcstate, k.currentwhite = h.currentwhite, k.sweepgc = h.sweepgc,
         k.gray = h.gray, k.grayagain = h.grayagain,
         \A x \in Objects : x # o => k.color[x] = h.color[x],
         k.color[o] \notin {"gray", "free"}, o \notin Dead(k),
         ToSet(h.allgc) \ {o} \subseteq ToSet(k.allgc),
         h.gcstate = "swpallgc" /\ h.sweepgc \in Objects =>
           After(h.allgc, h.sweepgc) \ {o} \subseteq After(k.allgc, h.sweepgc)
  PROVE  Heap(k) /\ Spares(h, k)
<1>1. h \in GlobalState /\ Separated(h)
  BY DEF Heap
<1>2. /\ Nodes \subseteq Objects /\ Udata \subseteq Objects /\ o \notin Nodes /\ Tables \subseteq Nodes
      /\ MainThread \in Nodes /\ Registry \in Nodes
  BY Distinct DEF Nodes, Tables
<1>3. \A x \in Objects : x # o => (x \in Dead(k) <=> x \in Dead(h))
  BY DEF Dead
<1>4. Spares(h, k)
  BY <1>3 DEF Spares
<1>5. Unswept(h) \ {o} \subseteq Unswept(k)
  <2>1. CASE h.gcstate = "swpallgc" /\ h.sweepgc # "NULL"
    <3>1. h.sweepgc = "allgc" \/ h.sweepgc \in ToSet(h.allgc)
      BY <2>1 DEF Heap, Pointed
    <3>2. k.sweepgc = "allgc" \/ k.sweepgc \in ToSet(k.allgc)
      BY <2>1 DEF Pointed
    <3>3. /\ h.sweepgc = "allgc" => Rest(h) = ToSet(h.allgc)
          /\ h.sweepgc # "allgc" => h.sweepgc \in Objects /\ Rest(h) = After(h.allgc, h.sweepgc)
      BY <3>1, <1>1, RestInList
    <3>4. /\ k.sweepgc = "allgc" => Rest(k) = ToSet(k.allgc)
          /\ k.sweepgc # "allgc" => Rest(k) = After(k.allgc, k.sweepgc)
      BY <3>2, RestInList
    <3>5. Rest(h) \ {o} \subseteq Rest(k)
      <4>1. CASE h.sweepgc = "allgc"
        BY <4>1, <3>3, <3>4
      <4>2. CASE h.sweepgc # "allgc"
        BY <4>2, <2>1, <3>3, <3>4
      <4>. QED  BY <4>1, <4>2
    <3>. QED  BY <3>5, <2>1 DEF Unswept
  <2>2. CASE ~(h.gcstate = "swpallgc" /\ h.sweepgc # "NULL")
    BY <2>2 DEF Unswept, Rest
  <2>. QED  BY <2>1, <2>2
<1>6. Dead(k) \subseteq Unswept(k)
  <2>1. Dead(k) \subseteq Dead(h) \ {o}
    BY <1>3 DEF Dead
  <2>2. Dead(h) \subseteq Unswept(h)
    BY DEF Heap
  <2>. QED  BY <2>1, <2>2, <1>5
<1>7. /\ keepinvariant(k) <=> keepinvariant(h)
      /\ issweepphase(k) <=> issweepphase(h)
  BY DEF keepinvariant, issweepphase
<1>8. \A x \in Nodes : k.color[x] = h.color[x] /\ x \notin Dead(k)
  BY <1>2, <1>3 DEF Heap
<1>9. keepinvariant(k) => Linked(k) /\ k.color[MainThread] = "gray" /\ ~iswhite(k, Registry)
  <2>1. ASSUME keepinvariant(k)
        PROVE  Linked(k) /\ k.color[MainThread] = "gray" /\ ~iswhite(k, Registry)
    <3>1. Linked(h) /\ h.color[MainThread] = "gray" /\ ~iswhite(h, Registry)
      BY <2>1, <1>7 DEF Heap
    <3>2. o \notin h.gray \cup h.grayagain
      BY <1>1, <1>2 DEF GlobalState
    <3>3. Linked(k)
      BY <3>1, <3>2 DEF Linked
    <3>. QED  BY <3>1, <3>3, <1>2, <1>8 DEF iswhite
  <2>. QED  BY <2>1
<1>10. ~keepinvariant(k) => \A t \in Tables \ Unswept(k) : k.color[t] = k.currentwhite
  BY <1>2, <1>5, <1>7, <1>8 DEF Heap
<1>11. /\ issweepphase(k) => k.color[MainThread] \in {"gray", k.currentwhite}
       /\ k.gcstate \in {"callfin", "pause"} => k.color[MainThread] = k.currentwhite
       /\ k.color[MainThread] # "black"
  BY <1>2, <1>7, <1>8 DEF Heap
<1>12. /\ \A x \in Udata : k.color[x] # "gray"
       /\ \A x \in Nodes : k.color[x] # "free" /\ x \notin Dead(k)
       /\ k.gcstate # "insideatomic"
  BY <1>2, <1>8 DEF Heap
<1>13. Heap(k)
  BY <1>6, <1>9, <1>10, <1>11, <1>12 DEF Heap
<1>. QED  BY <1>4, <1>13

\* A userdata that is turned white is not dead.
LEMMA MakesWhite ==
  ASSUME NEW h, Heap(h), NEW o \in Udata, h.color[o] # "free", NEW k, k = makewhite(h, o)
  PROVE  /\ Heap(k) /\ Spares(h, k)
         /\ k.gcstate = h.gcstate /\ k.currentwhite = h.currentwhite /\ k.sweepgc = h.sweepgc
         /\ k.gray = h.gray /\ k.grayagain = h.grayagain
         /\ k.allgc = h.allgc /\ k.finobj = h.finobj /\ k.tobefnz = h.tobefnz
         /\ k.full = h.full /\ k.emergency = h.emergency
         /\ k.color[o] = h.currentwhite
         /\ \A x \in Objects : x # o => k.color[x] = h.color[x]
<1>1. h \in GlobalState /\ Separated(h) /\ o \in Objects
  BY DEF Heap, Objects
<1>2. h.currentwhite \in White /\ h.color \in [Objects -> Color]
  BY <1>1 DEF GlobalState
<1>3. /\ other(h.currentwhite) # h.currentwhite /\ h.currentwhite \in Color
      /\ h.currentwhite \notin {"gray", "free"}
  BY <1>2, Whitenesses
<1> DEFINE c == [h.color EXCEPT ![o] = h.currentwhite]
<1>4. /\ c \in [Objects -> Color] /\ c[o] = h.currentwhite
      /\ \A x \in Objects : x # o => c[x] = h.color[x]
  BY <1>1, <1>2, <1>3
<1>5. k = [h EXCEPT !.color = c]
  BY DEF makewhite
<1>. HIDE DEF c
<1>6. /\ k \in GlobalState
      /\ k.gcstate = h.gcstate /\ k.currentwhite = h.currentwhite /\ k.sweepgc = h.sweepgc
      /\ k.gray = h.gray /\ k.grayagain = h.grayagain
      /\ k.allgc = h.allgc /\ k.finobj = h.finobj /\ k.tobefnz = h.tobefnz
      /\ k.full = h.full /\ k.emergency = h.emergency
      /\ k.color = c
  BY <1>1, <1>4, <1>5 DEF GlobalState
<1>7. {x \in Objects \ {MainThread} : k.color[x] # "free"}
        = {x \in Objects \ {MainThread} : h.color[x] # "free"}
  BY <1>3, <1>4, <1>6
<1>8. Separated(k)
  BY <1>1, <1>6, <1>7 DEF Separated
<1>9. Pointed(k)
  <2>1. \A l \in Lists : k[l] = h[l]
    BY <1>6 DEF Lists
  <2>2. Pointed(h)
    BY DEF Heap
  <2>3. k.sweepgc # "NULL" => \E l \in Lists : k.sweepgc = l \/ k.sweepgc \in ToSet(k[l])
    BY <2>1, <2>2, <1>6 DEF Pointed
  <2>. QED  BY <2>2, <2>3, <1>6 DEF Pointed
<1>10. o \notin Dead(k)
  BY <1>3, <1>4, <1>6 DEF Dead
<1>11. Heap(k) /\ Spares(h, k)
  BY <1>3, <1>4, <1>6, <1>8, <1>9, <1>10, HeapMoves
<1>. QED  BY <1>4, <1>6, <1>11

\* What Separated says, list by list.
LEMMA ListsDiffer ==
  ASSUME NEW h \in GlobalState, Separated(h)
  PROVE  /\ h.allgc \in Seq(Objects) /\ h.finobj \in Seq(Udata) /\ h.tobefnz \in Seq(Udata)
         /\ IsInjective(h.allgc) /\ IsInjective(h.finobj) /\ IsInjective(h.tobefnz)
         /\ \A o \in ToSet(h.allgc) \cup ToSet(h.finobj) \cup ToSet(h.tobefnz) :
              o \in Objects \ {MainThread} /\ h.color[o] # "free"
         /\ \A o \in Objects \ {MainThread} : h.color[o] # "free" =>
              o \in ToSet(h.allgc) \cup ToSet(h.finobj) \cup ToSet(h.tobefnz)
BY DEF GlobalState, Separated

\* A new userdata.
Created(h, o) == [makewhite(h, o) EXCEPT !.allgc = <<o>> \o @]

\* luaC_newobj.
LEMMA HeapCreates ==
  ASSUME NEW h, Heap(h), NEW o \in Udata, h.color[o] = "free",
         NEW k, k = Created(h, o)
  PROVE  /\ Heap(k) /\ Spares(h, k) /\ o \notin Dead(k) /\ k.color[o] = h.currentwhite
         /\ k.gcstate = h.gcstate /\ k.tobefnz = h.tobefnz
         /\ \A x \in Objects : x # o => k.color[x] = h.color[x]
<1>1. h \in GlobalState /\ Separated(h) /\ o \in Objects /\ o # MainThread
  BY Distinct DEF Heap, Objects
<1>2. h.currentwhite \in White /\ h.color \in [Objects -> Color] /\ h.allgc \in Seq(Objects)
  BY <1>1 DEF GlobalState
<1>3. /\ other(h.currentwhite) # h.currentwhite /\ h.currentwhite \in Color
      /\ h.currentwhite \notin {"gray", "free"}
  BY <1>2, Whitenesses
<1> DEFINE c == [h.color EXCEPT ![o] = h.currentwhite]
           a == <<o>> \o h.allgc
<1>4. /\ c \in [Objects -> Color] /\ c[o] = h.currentwhite
      /\ \A x \in Objects : x # o => c[x] = h.color[x]
  BY <1>1, <1>2, <1>3
<1>5. k = [h EXCEPT !.color = c, !.allgc = a]
  BY <1>1 DEF makewhite, GlobalState, Created
<1>6. /\ o \notin ToSet(h.allgc) /\ o \notin ToSet(h.finobj) /\ o \notin ToSet(h.tobefnz)
      /\ IsInjective(h.allgc)
  BY <1>1, ListsDiffer
<1>7. /\ a \in Seq(Objects) /\ ToSet(a) = {o} \cup ToSet(h.allgc) /\ IsInjective(a)
      /\ \A p : After(h.allgc, p) \subseteq After(a, p)
  BY <1>1, <1>2, <1>6, ConsSeq
<1>. HIDE DEF c, a
<1>8. /\ k \in GlobalState
      /\ k.gcstate = h.gcstate /\ k.currentwhite = h.currentwhite /\ k.sweepgc = h.sweepgc
      /\ k.gray = h.gray /\ k.grayagain = h.grayagain
      /\ k.allgc = a /\ k.finobj = h.finobj /\ k.tobefnz = h.tobefnz
      /\ k.full = h.full /\ k.emergency = h.emergency
      /\ k.color = c
  BY <1>1, <1>4, <1>5, <1>7 DEF GlobalState
<1>9. {x \in Objects \ {MainThread} : k.color[x] # "free"}
        = {o} \cup {x \in Objects \ {MainThread} : h.color[x] # "free"}
  BY <1>1, <1>3, <1>4, <1>8
<1>10. Separated(k)
  BY <1>1, <1>6, <1>7, <1>8, <1>9 DEF Separated
<1>11. Pointed(k)
  <2>1. \A l \in Lists : ToSet(h[l]) \subseteq ToSet(k[l])
    BY <1>7, <1>8 DEF Lists
  <2>2. Pointed(h)
    BY DEF Heap
  <2>3. k.sweepgc # "NULL" => \E l \in Lists : k.sweepgc = l \/ k.sweepgc \in ToSet(k[l])
    BY <2>1, <2>2, <1>8 DEF Pointed
  <2>. QED  BY <2>2, <2>3, <1>7, <1>8 DEF Pointed
<1>12. o \notin Dead(k)
  BY <1>3, <1>4, <1>8 DEF Dead
<1>13. Heap(k) /\ Spares(h, k)
  <2>1. /\ ToSet(h.allgc) \ {o} \subseteq ToSet(k.allgc)
        /\ After(h.allgc, h.sweepgc) \ {o} \subseteq After(k.allgc, h.sweepgc)
        /\ k.color[o] \notin {"gray", "free"}
        /\ \A x \in Objects : x # o => k.color[x] = h.color[x]
    BY <1>3, <1>4, <1>7, <1>8
  <2>. QED  BY <2>1, <1>8, <1>10, <1>11, <1>12, HeapMoves
<1>. QED  BY <1>4, <1>8, <1>12, <1>13

\* udata2finalize: the object goes back to the front of allgc, behind the sweep or
\* white.
LEMMA HeapFinalizes ==
  ASSUME NEW h, Heap(h), h.tobefnz # <<>>, NEW k, k = udata2finalize(h)
  PROVE  /\ Heap(k) /\ Spares(h, k)
         /\ k.gcstate = h.gcstate
         /\ Head(h.tobefnz) \in Udata /\ Head(h.tobefnz) \in ToSet(h.tobefnz)
         /\ ToSet(k.tobefnz) \subseteq ToSet(h.tobefnz)
         /\ ~issweepphase(h) => k.color = h.color
<1> DEFINE o == Head(h.tobefnz)
           t == Tail(h.tobefnz)
           a == <<o>> \o h.allgc
           b == [h EXCEPT !.tobefnz = t, !.allgc = a]
<1>1. h \in GlobalState /\ Separated(h)
  BY DEF Heap
<1>2. /\ h.allgc \in Seq(Objects) /\ h.tobefnz \in Seq(Udata)
      /\ IsInjective(h.allgc) /\ IsInjective(h.tobefnz)
      /\ \A x \in ToSet(h.tobefnz) : x \in Objects \ {MainThread} /\ h.color[x] # "free"
  BY <1>1, ListsDiffer
<1>3. /\ o \in Udata /\ o \in ToSet(h.tobefnz)
      /\ t \in Seq(Udata) /\ IsInjective(t) /\ ToSet(t) = ToSet(h.tobefnz) \ {o}
  BY <1>2, TailSeq
<1>4. o \notin ToSet(h.allgc) /\ o \notin ToSet(h.finobj) /\ o \in Objects /\ h.color[o] # "free"
  BY <1>1, <1>2, <1>3 DEF Separated
<1>5. k = IF issweepphase(h) THEN makewhite(b, o) ELSE b
  BY DEF udata2finalize
<1>. HIDE DEF o, t
<1>6. /\ a \in Seq(Objects) /\ ToSet(a) = {o} \cup ToSet(h.allgc) /\ IsInjective(a)
      /\ \A p : After(h.allgc, p) \subseteq After(a, p)
  BY <1>2, <1>4, ConsSeq
<1>. HIDE DEF a
<1>7. /\ b \in GlobalState
      /\ b.gcstate = h.gcstate /\ b.currentwhite = h.currentwhite /\ b.sweepgc = h.sweepgc
      /\ b.gray = h.gray /\ b.grayagain = h.grayagain
      /\ b.allgc = a /\ b.finobj = h.finobj /\ b.tobefnz = t
      /\ b.color = h.color
  BY <1>1, <1>3, <1>6 DEF GlobalState
<1>. HIDE DEF b
<1>8. ToSet(b.allgc) \cup ToSet(b.finobj) \cup ToSet(b.tobefnz)
        = ToSet(h.allgc) \cup ToSet(h.finobj) \cup ToSet(h.tobefnz)
  BY <1>3, <1>6, <1>7
<1>9. Separated(b)
  BY <1>1, <1>3, <1>4, <1>6, <1>7, <1>8 DEF Separated
<1>10. Pointed(b)
  <2>1. \A m \in Lists : \A x \in ToSet(h[m]) : \E l \in Lists : x \in ToSet(b[l])
    <3>1. /\ h["allgc"] = h.allgc /\ h["finobj"] = h.finobj /\ h["tobefnz"] = h.tobefnz
          /\ b["allgc"] = b.allgc /\ b["finobj"] = b.finobj /\ b["tobefnz"] = b.tobefnz
      OBVIOUS
    <3>2. \A l \in Lists : \A x \in ToSet(h[l]) :
            x \in ToSet(b["allgc"]) \/ x \in ToSet(b["finobj"]) \/ x \in ToSet(b["tobefnz"])
      BY <3>1, <1>8 DEF Lists
    <3>3. "allgc" \in Lists /\ "finobj" \in Lists /\ "tobefnz" \in Lists
      BY DEF Lists
    <3>. QED  BY <3>2, <3>3
  <2>2. Pointed(h)
    BY DEF Heap
  <2>3. b.sweepgc # "NULL" => \E l \in Lists : b.sweepgc = l \/ b.sweepgc \in ToSet(b[l])
    BY <2>1, <2>2, <1>7 DEF Pointed
  <2>. QED  BY <2>2, <2>3, <1>6, <1>7 DEF Pointed
<1>11. o \notin Dead(h) /\ h.color[o] # "gray"
  <2>1. o \notin Unswept(h)
    <3>1. CASE h.gcstate = "swpallgc" /\ h.sweepgc # "NULL"
      <4>1. Rest(h) \subseteq ToSet(h.allgc)
        BY <3>1, <1>1, RestInList DEF Heap, Pointed
      <4>. QED  BY <4>1, <1>4 DEF Unswept
    <3>2. CASE ~(h.gcstate = "swpallgc" /\ h.sweepgc # "NULL")
      BY <3>2 DEF Unswept, Rest
    <3>. QED  BY <3>1, <3>2
  <2>. QED  BY <2>1, <1>3 DEF Heap
<1>12. o \notin Dead(b)
  BY <1>7, <1>11 DEF Dead
<1>13. Heap(b) /\ Spares(h, b)
  BY <1>3, <1>4, <1>6, <1>7, <1>9, <1>10, <1>11, <1>12, HeapMoves
<1>14. CASE issweepphase(h)
  <2>1. k = makewhite(b, o)
    BY <1>5, <1>14
  <2>2. /\ Heap(k) /\ Spares(b, k) /\ k.gcstate = b.gcstate /\ k.tobefnz = b.tobefnz
    BY <2>1, <1>3, <1>4, <1>7, <1>13, MakesWhite
  <2>3. Spares(h, k)
    BY <2>2, <1>13 DEF Spares
  <2>. QED  BY <2>2, <2>3, <1>3, <1>7, <1>14 DEF o
<1>15. CASE ~issweepphase(h)
  BY <1>15, <1>3, <1>5, <1>7, <1>13 DEF o
<1>. QED  BY <1>14, <1>15

-----------------------------------------------------------------------------
(* luaC_checkfinalizer, and the barriers *)

\* luaC_checkfinalizer: the object leaves allgc, and the sweep, if it points to it,
\* goes ahead before.
LEMMA HeapMarksFinalizer ==
  ASSUME NEW h, Heap(h), NEW o \in Udata, h.color[o] # "free", o \notin Dead(h),
         NEW k, k = luaC_checkfinalizer(h, o)
  PROVE  /\ Heap(k) /\ Spares(h, k)
         /\ k.gcstate = h.gcstate
         /\ ToSet(k.tobefnz) \subseteq ToSet(h.tobefnz)
         /\ ~issweepphase(h) => k.color = h.color
<1> DEFINE w == IF issweepphase(h) THEN makewhite(h, o) ELSE h
           s == IF issweepphase(h) /\ h.sweepgc = o THEN sweeptolive(w) ELSE w
           u == Unlinked(s, {o})
           f == <<o>> \o u.finobj
           n == [u EXCEPT !.finobj = f]
<1>1. CASE o \in ToSet(h.finobj) \cup ToSet(h.tobefnz)
  <2>1. k = h
    BY <1>1 DEF luaC_checkfinalizer
  <2>. QED  BY <2>1 DEF Spares
<1>2. CASE o \notin ToSet(h.finobj) \cup ToSet(h.tobefnz)
  <2>1. k = n
    BY <1>2 DEF luaC_checkfinalizer
  <2>2. /\ h \in GlobalState /\ Separated(h) /\ o \in Objects /\ o # MainThread
        /\ "NULL" \notin Objects
        /\ h["allgc"] = h.allgc /\ h["finobj"] = h.finobj /\ h["tobefnz"] = h.tobefnz
    BY Distinct DEF Heap, Objects
  <2>3. o \in ToSet(h.allgc)
    BY <2>2, <1>2, ListsDiffer
  <2>4. /\ Heap(w) /\ Spares(h, w)
        /\ w.gcstate = h.gcstate /\ w.sweepgc = h.sweepgc
        /\ w.allgc = h.allgc /\ w.finobj = h.finobj /\ w.tobefnz = h.tobefnz
        /\ ~issweepphase(h) => w = h
    <3>1. CASE issweepphase(h)
      <4>1. w = makewhite(h, o)
        BY <3>1
      <4>. HIDE DEF w
      <4>. QED  BY <4>1, <3>1, MakesWhite
    <3>2. CASE ~issweepphase(h)
      BY <3>2 DEF Spares
    <3>. QED  BY <3>1, <3>2
  <2>5. s = IF issweepphase(h) /\ h.sweepgc = o THEN sweeptolive(w) ELSE w
    OBVIOUS
  <2>. HIDE DEF w, s
  <2>6. /\ Heap(s) /\ Spares(h, s) /\ s.gcstate = h.gcstate
        /\ \A m \in Lists : ToSet(s[m]) = {x \in ToSet(w[m]) : s.color[x] # "free"}
        /\ s.sweepgc # o
        /\ ~issweepphase(h) => s = h
    <3>1. CASE issweepphase(h) /\ h.sweepgc = o
      <4>1. w.sweepgc # "NULL" /\ w.sweepgc = o
        BY <3>1, <2>2, <2>4
      <4>2. /\ Heap(s) /\ Spares(w, s) /\ s.gcstate = w.gcstate
            /\ \A m \in Lists : ToSet(s[m]) = {x \in ToSet(w[m]) : s.color[x] # "free"}
            /\ s.sweepgc # w.sweepgc
        BY <4>1, <2>4, <2>5, <3>1, HeapSweepsToLive
      <4>. QED  BY <4>1, <4>2, <2>4, <3>1 DEF Spares
    <3>2. CASE ~(issweepphase(h) /\ h.sweepgc = o)
      <4>1. s = w
        BY <3>2, <2>5
      <4>2. ~issweepphase(h) => h.sweepgc = "NULL"
        BY DEF Heap, Pointed, issweepphase
      <4>3. h.sweepgc # o
        BY <3>2, <4>2, <2>2
      <4>4. \A m \in Lists : \A x \in ToSet(w[m]) : w.color[x] # "free"
        BY <2>4, ListOf DEF Heap
      <4>. QED  BY <4>1, <4>3, <4>4, <2>4
    <3>. QED  BY <3>1, <3>2
  <2>7. /\ s \in GlobalState /\ Separated(s)
        /\ o \notin Dead(s) /\ s.color[o] # "free" /\ s.color[o] # "gray"
    BY <2>2, <2>6 DEF Spares, Heap
  <2>8. /\ o \in ToSet(s.allgc) /\ o \notin ToSet(s.finobj) /\ o \notin ToSet(s.tobefnz)
        /\ ToSet(s.tobefnz) \subseteq ToSet(h.tobefnz)
    <3>1. /\ s["allgc"] = s.allgc /\ s["finobj"] = s.finobj /\ s["tobefnz"] = s.tobefnz
          /\ w["allgc"] = w.allgc /\ w["finobj"] = w.finobj /\ w["tobefnz"] = w.tobefnz
      OBVIOUS
    <3>2. "allgc" \in Lists /\ "finobj" \in Lists /\ "tobefnz" \in Lists
      BY DEF Lists
    <3>. QED  BY <3>1, <3>2, <2>3, <2>4, <2>6, <2>7, <1>2
  <2>9. /\ u \in GlobalState
        /\ u.gcstate = s.gcstate /\ u.currentwhite = s.currentwhite /\ u.color = s.color
        /\ u.gray = s.gray /\ u.grayagain = s.grayagain /\ u.sweepgc = s.sweepgc
    <3>1. u = Unlinked(s, {o})
      OBVIOUS
    <3>. HIDE DEF u
    <3>. QED  BY <3>1, <2>7, Unlinks
  <2>10. ASSUME NEW m \in Lists
         PROVE  /\ u[m] \in Seq(Objects) /\ IsInjective(u[m])
                /\ ToSet(u[m]) = ToSet(s[m]) \ {o}
                /\ \A p, q \in Objects \ {o} : q \in After(s[m], p) => q \in After(u[m], p)
    BY <2>7, UnlinksLists
  <2>11. n = [u EXCEPT !.finobj = f] /\ f = <<o>> \o u.finobj
    OBVIOUS
  <2>. HIDE DEF u, f, n
  <2>12. /\ u.allgc = u["allgc"] /\ u.finobj = u["finobj"] /\ u.tobefnz = u["tobefnz"]
         /\ s.allgc = s["allgc"] /\ s.finobj = s["finobj"] /\ s.tobefnz = s["tobefnz"]
         /\ "allgc" \in Lists /\ "finobj" \in Lists /\ "tobefnz" \in Lists
    BY DEF Lists
  <2>13. /\ IsInjective(u.allgc) /\ ToSet(u.allgc) = ToSet(s.allgc) \ {o}
         /\ IsInjective(u.finobj) /\ ToSet(u.finobj) = ToSet(s.finobj) \ {o}
         /\ IsInjective(u.tobefnz) /\ ToSet(u.tobefnz) = ToSet(s.tobefnz) \ {o}
         /\ \A p, q \in Objects \ {o} : q \in After(s.allgc, p) => q \in After(u.allgc, p)
    BY <2>10, <2>12
  <2>14. /\ f \in Seq(Udata) /\ ToSet(f) = {o} \cup ToSet(s.finobj) /\ IsInjective(f)
    <3>1. u.finobj \in Seq(Udata) /\ o \notin ToSet(u.finobj)
      BY <2>9, <2>13 DEF GlobalState
    <3>2. f \in Seq(Udata) /\ ToSet(f) = {o} \cup ToSet(u.finobj) /\ IsInjective(f)
      BY <3>1, <2>11, <2>13, ConsSeq
    <3>. QED  BY <3>2, <2>8, <2>13
  <2>15. /\ n \in GlobalState
         /\ n.gcstate = s.gcstate /\ n.currentwhite = s.currentwhite /\ n.color = s.color
         /\ n.gray = s.gray /\ n.grayagain = s.grayagain /\ n.sweepgc = s.sweepgc
         /\ n.allgc = u.allgc /\ n.finobj = f /\ n.tobefnz = u.tobefnz
    BY <2>9, <2>11, <2>14 DEF GlobalState
  <2>16. ToSet(n.allgc) \cup ToSet(n.finobj) \cup ToSet(n.tobefnz)
           = ToSet(s.allgc) \cup ToSet(s.finobj) \cup ToSet(s.tobefnz)
    BY <2>8, <2>13, <2>14, <2>15
  <2>17. Separated(n)
    BY <2>7, <2>8, <2>13, <2>14, <2>15, <2>16 DEF Separated
  <2>18. Pointed(n)
    <3>1. /\ n["allgc"] = n.allgc /\ n["finobj"] = n.finobj /\ n["tobefnz"] = n.tobefnz
      OBVIOUS
    <3>2. /\ ToSet(s["allgc"]) \ {o} \subseteq ToSet(n["allgc"])
          /\ ToSet(s["finobj"]) \ {o} \subseteq ToSet(n["finobj"])
          /\ ToSet(s["tobefnz"]) \ {o} \subseteq ToSet(n["tobefnz"])
      BY <3>1, <2>12, <2>13, <2>14, <2>15
    <3>3. \A l \in Lists : ToSet(s[l]) \ {o} \subseteq ToSet(n[l])
      BY <3>2 DEF Lists
    <3>4. Pointed(s)
      BY <2>6 DEF Heap
    <3>5. n.sweepgc # "NULL" => \E l \in Lists : n.sweepgc = l \/ n.sweepgc \in ToSet(n[l])
      BY <3>3, <3>4, <2>6, <2>15 DEF Pointed
    <3>. QED  BY <3>4, <3>5, <2>6, <2>13, <2>15 DEF Pointed
  <2>19. o \notin Dead(n)
    BY <2>7, <2>15 DEF Dead
  <2>20. Heap(n) /\ Spares(s, n)
    <3>1. /\ ToSet(s.allgc) \ {o} \subseteq ToSet(n.allgc)
          /\ n.color[o] \notin {"gray", "free"}
          /\ \A x \in Objects : x # o => n.color[x] = s.color[x]
      BY <2>7, <2>13, <2>15
    <3>2. s.sweepgc \in Objects => After(s.allgc, s.sweepgc) \ {o} \subseteq After(n.allgc, s.sweepgc)
      <4>1. ASSUME s.sweepgc \in Objects
            PROVE  After(s.allgc, s.sweepgc) \ {o} \subseteq After(n.allgc, s.sweepgc)
        <5>1. After(s.allgc, s.sweepgc) \subseteq Objects
          <6>1. ToSet(s.allgc) \subseteq Objects
            BY <2>7, ListsDiffer
          <6>. QED  BY <6>1 DEF After, ToSet
        <5>. QED  BY <5>1, <4>1, <2>6, <2>13, <2>15
      <4>. QED  BY <4>1
    <3>. QED  BY <3>1, <3>2, <2>6, <2>15, <2>17, <2>18, <2>19, HeapMoves
  <2>21. Spares(h, n)
    BY <2>6, <2>20 DEF Spares
  <2>22. ToSet(n.tobefnz) \subseteq ToSet(h.tobefnz)
    BY <2>8, <2>13, <2>15
  <2>. QED  BY <2>1, <2>6, <2>15, <2>20, <2>21, <2>22
<1>. QED  BY <1>1, <1>2

\* A table that was visited refers to nothing white, while the collector marks.
Marking(h, r) ==
  keepinvariant(h) => \A t \in Tables : isblack(h, t) => \A v \in r[t] : ~iswhite(h, v)

\* Where the lists and what is free are the same, the sweep has the same to do.
LEMMA SameLists ==
  ASSUME NEW h \in GlobalState, NEW k \in GlobalState, Separated(h), Pointed(h),
         k.sweepgc = h.sweepgc, k.allgc = h.allgc, k.finobj = h.finobj, k.tobefnz = h.tobefnz,
         \A o \in Objects : k.color[o] = "free" <=> h.color[o] = "free"
  PROVE  /\ Separated(k)
         /\ k.gcstate = h.gcstate => Unswept(k) = Unswept(h) /\ Pointed(k)
<1>1. \A l \in Lists : k[l] = h[l]
  BY DEF Lists
<1>2. {x \in Objects \ {MainThread} : k.color[x] # "free"}
        = {x \in Objects \ {MainThread} : h.color[x] # "free"}
  OBVIOUS
<1>3. Separated(k)
  BY <1>2 DEF Separated
<1>4. ASSUME k.gcstate = h.gcstate
      PROVE  Unswept(k) = Unswept(h)
  <2>1. CASE h.gcstate = "swpallgc" /\ h.sweepgc # "NULL"
    <3>1. h.sweepgc = "allgc" \/ h.sweepgc \in ToSet(h.allgc)
      BY <2>1 DEF Pointed
    <3>2. /\ h.sweepgc = "allgc" => Rest(h) = ToSet(h.allgc)
          /\ h.sweepgc # "allgc" => Rest(h) = After(h.allgc, h.sweepgc)
      BY <3>1, RestInList
    <3>3. /\ k.sweepgc = "allgc" => Rest(k) = ToSet(k.allgc)
          /\ k.sweepgc # "allgc" => Rest(k) = After(k.allgc, k.sweepgc)
      BY <3>1, <1>3, RestInList
    <3>. QED  BY <3>2, <3>3, <1>4, <2>1 DEF Unswept
  <2>2. CASE ~(h.gcstate = "swpallgc" /\ h.sweepgc # "NULL")
    BY <2>2, <1>4 DEF Unswept, Rest
  <2>. QED  BY <2>1, <2>2
<1>5. k.gcstate = h.gcstate => Pointed(k)
  BY <1>1 DEF Pointed
<1>. QED  BY <1>3, <1>4, <1>5

\* Marking while the collector marks.
LEMMA HeapReallyMarks ==
  ASSUME NEW h, Heap(h), keepinvariant(h), NEW S \in SUBSET Objects,
         NEW k, k = reallymarkobject(h, S)
  PROVE  /\ Heap(k) /\ Spares(h, k) /\ k.gcstate = h.gcstate
         /\ k.tobefnz = h.tobefnz
         /\ \A o \in S : ~iswhite(k, o)
         /\ \A o \in Objects : ~iswhite(h, o) => ~iswhite(k, o)
         /\ \A t \in Tables : isblack(k, t) => isblack(h, t)
<1>1. /\ Nodes \subseteq Objects /\ Udata \subseteq Objects /\ Udata \cap Nodes = {}
      /\ Tables \subseteq Nodes /\ MainThread \in Nodes /\ Registry \in Nodes
      /\ Objects = Udata \cup Nodes
  BY Distinct DEF Nodes, Tables
<1>2. /\ h \in GlobalState /\ Separated(h) /\ Pointed(h) /\ Linked(h)
      /\ h.color[MainThread] = "gray" /\ ~iswhite(h, Registry)
      /\ h.gcstate # "insideatomic" /\ h.gcstate # "swpallgc" /\ Dead(h) = {}
      /\ h.gcstate \in {"propagate", "atomic"}
      /\ \A o \in Udata : h.color[o] # "gray"
      /\ \A o \in Nodes : h.color[o] # "free"
      /\ h.currentwhite \in White
  BY DEF Heap, keepinvariant, Unswept, GlobalState
<1>3. /\ Marks(h, k)
      /\ k.gcstate = h.gcstate /\ k.grayagain = h.grayagain
      /\ \A o \in S : k.color[o] \notin White
      /\ \A o \in Objects : ~iswhite(h, o) => k.color[o] = h.color[o]
      /\ \A o \in Nodes : iswhite(h, o) => k.color[o] \in {h.color[o], "gray"}
      /\ k.gray = h.gray \cup {o \in Nodes : iswhite(h, o) /\ k.color[o] = "gray"}
  BY <1>2, ReallyMarks
<1>4. "gray" \notin White /\ "black" \notin White /\ "free" \notin White
      /\ other(h.currentwhite) \in White
  BY <1>2, Whitenesses
<1>5. /\ k \in GlobalState
      /\ k.currentwhite = h.currentwhite /\ k.sweepgc = h.sweepgc
      /\ k.allgc = h.allgc /\ k.finobj = h.finobj /\ k.tobefnz = h.tobefnz
      /\ \A o \in Objects : k.color[o] = "free" <=> h.color[o] = "free"
      /\ \A o \in Objects : k.color[o] \in White => k.color[o] = h.color[o]
      /\ \A o \in Udata : k.color[o] # "gray"
  BY <1>2, <1>3 DEF Marks
<1>6. Separated(k) /\ Pointed(k)
  BY <1>2, <1>3, <1>5, SameLists
<1>7. Dead(k) = {}
  BY <1>2, <1>4, <1>5 DEF Dead
<1>8. \A o \in Objects : ~iswhite(h, o) => ~iswhite(k, o)
  BY <1>3 DEF iswhite
<1>9. Linked(k)
  <2>1. ASSUME NEW o \in Objects
        PROVE  k.color[o] = "gray" <=> o \in k.gray \cup k.grayagain
    <3>1. CASE iswhite(h, o)
      <4>1. o \notin h.gray \cup h.grayagain
        BY <3>1, <1>2, <1>4 DEF Linked, iswhite
      <4>. QED  BY <4>1, <3>1, <1>1, <1>3, <1>5
    <3>2. CASE ~iswhite(h, o)
      BY <3>2, <1>2, <1>3 DEF Linked
    <3>. QED  BY <3>1, <3>2
  <2>2. k.gray \cap k.grayagain = {}
    <3>1. \A o \in Nodes : iswhite(h, o) => o \notin h.grayagain
      BY <1>1, <1>2, <1>4 DEF Linked, iswhite
    <3>. QED  BY <3>1, <1>2, <1>3 DEF Linked
  <2>. QED  BY <2>1, <2>2 DEF Linked
<1>10. k.color[MainThread] = "gray" /\ ~iswhite(k, Registry)
  BY <1>1, <1>2, <1>3, <1>4, <1>8 DEF iswhite
<1>11. keepinvariant(k) /\ ~issweepphase(k) /\ k.gcstate \notin {"callfin", "pause"}
  BY <1>2, <1>3 DEF keepinvariant, issweepphase
<1>12. Heap(k)
  BY <1>1, <1>2, <1>3, <1>5, <1>6, <1>7, <1>9, <1>10, <1>11 DEF Heap
<1>13. Spares(h, k)
  BY <1>5, <1>7 DEF Spares
<1>14. \A t \in Tables : isblack(k, t) => isblack(h, t)
  BY <1>1, <1>3, <1>4 DEF isblack, iswhite
<1>. QED  BY <1>3, <1>5, <1>8, <1>12, <1>13, <1>14 DEF iswhite

\* luaC_barrier.
LEMMA HeapBarrier ==
  ASSUME NEW h, Heap(h), NEW o \in Udata, h.color[o] # "free",
         NEW v \in Objects, NEW k, k = luaC_barrier(h, o, v)
  PROVE  /\ Heap(k) /\ Spares(h, k) /\ k.gcstate = h.gcstate
         /\ k.tobefnz = h.tobefnz
         /\ keepinvariant(h) => /\ \A x \in Objects : ~iswhite(h, x) => ~iswhite(k, x)
                                /\ \A t \in Tables : isblack(k, t) => isblack(h, t)
<1>1. CASE ~(isblack(h, o) /\ iswhite(h, v))
  <2>1. k = h
    BY <1>1 DEF luaC_barrier
  <2>. QED  BY <2>1 DEF Spares
<1>2. CASE isblack(h, o) /\ iswhite(h, v) /\ keepinvariant(h)
  <2>1. k = reallymarkobject(h, {v})
    BY <1>2 DEF luaC_barrier
  <2>2. {v} \in SUBSET Objects
    OBVIOUS
  <2>. QED  BY <2>1, <2>2, <1>2, HeapReallyMarks
<1>3. CASE isblack(h, o) /\ iswhite(h, v) /\ ~keepinvariant(h)
  <2>1. k = makewhite(h, o)
    BY <1>3 DEF luaC_barrier
  <2>. QED  BY <2>1, <1>3, MakesWhite
<1>. QED  BY <1>1, <1>2, <1>3

\* luaC_barrierback: the table is gray again, and linked.
LEMMA HeapBarrierBack ==
  ASSUME NEW h, Heap(h), NEW t \in Tables, NEW v \in Objects,
         NEW k, k = luaC_barrierback(h, t, v)
  PROVE  /\ Heap(k) /\ Spares(h, k) /\ k.gcstate = h.gcstate /\ k.currentwhite = h.currentwhite
         /\ k.tobefnz = h.tobefnz
         /\ \A x \in Objects : x # t => k.color[x] = h.color[x]
         /\ k.color[t] \in {h.color[t], "gray"}
         /\ isblack(k, t) => ~iswhite(h, v)
<1>1. CASE ~(isblack(h, t) /\ iswhite(h, v))
  <2>1. k = h
    BY <1>1 DEF luaC_barrierback
  <2>. QED  BY <2>1, <1>1 DEF Spares
<1>2. CASE isblack(h, t) /\ iswhite(h, v)
  <2>1. /\ Nodes \subseteq Objects /\ Udata \subseteq Objects /\ Udata \cap Nodes = {}
        /\ Tables \subseteq Nodes /\ MainThread \in Nodes /\ Registry \in Nodes
        /\ t \in Nodes /\ t # MainThread /\ t \in Objects
    BY Distinct DEF Nodes, Tables
  <2>2. /\ h \in GlobalState /\ Separated(h) /\ Pointed(h)
        /\ h.color \in [Objects -> Color] /\ h.currentwhite \in White
        /\ h.color[t] = "black"
    BY <1>2 DEF Heap, GlobalState, isblack
  <2>3. "gray" \in Color /\ "gray" \notin White /\ "black" \notin White
        /\ other(h.currentwhite) \in White
    BY <2>2, Whitenesses DEF Color
  <2> DEFINE c == [h.color EXCEPT ![t] = "gray"]
  <2>4. c \in [Objects -> Color] /\ c[t] = "gray" /\ \A x \in Objects : x # t => c[x] = h.color[x]
    BY <2>1, <2>2, <2>3
  <2>5. k = [h EXCEPT !.color = c, !.grayagain = @ \cup {t}]
    BY <1>2 DEF luaC_barrierback
  <2>. HIDE DEF c
  <2>6. /\ k \in GlobalState
        /\ k.gcstate = h.gcstate /\ k.currentwhite = h.currentwhite /\ k.sweepgc = h.sweepgc
        /\ k.gray = h.gray /\ k.grayagain = h.grayagain \cup {t}
        /\ k.allgc = h.allgc /\ k.finobj = h.finobj /\ k.tobefnz = h.tobefnz
        /\ k.color = c
    <3> DEFINE ga == h.grayagain \cup {t}
    <3>1. ga \in SUBSET Nodes
      BY <2>1, <2>2 DEF GlobalState
    <3>2. k = [h EXCEPT !.color = c, !.grayagain = ga] /\ ga = h.grayagain \cup {t}
      BY <2>2, <2>5 DEF GlobalState
    <3>. HIDE DEF ga
    <3>. QED  BY <2>2, <2>4, <3>1, <3>2 DEF GlobalState
  <2>7. \A x \in Objects : k.color[x] = "free" <=> h.color[x] = "free"
    BY <2>2, <2>4, <2>6
  <2>8. Separated(k) /\ Pointed(k) /\ Unswept(k) = Unswept(h)
    BY <2>2, <2>6, <2>7, SameLists
  <2>9. \A x \in Objects : x \in Dead(k) <=> x \in Dead(h) /\ x # t
    BY <2>2, <2>3, <2>4, <2>6 DEF Dead
  <2>10. Dead(k) \subseteq Unswept(k)
    BY <2>8, <2>9 DEF Heap, Dead
  <2>11. /\ keepinvariant(k) <=> keepinvariant(h)
         /\ issweepphase(k) <=> issweepphase(h)
    BY <2>6 DEF keepinvariant, issweepphase
  <2>12. keepinvariant(k) => Linked(k) /\ k.color[MainThread] = "gray" /\ ~iswhite(k, Registry)
    <3>1. ASSUME keepinvariant(k)
          PROVE  Linked(k) /\ k.color[MainThread] = "gray" /\ ~iswhite(k, Registry)
      <4>1. Linked(h) /\ h.color[MainThread] = "gray" /\ ~iswhite(h, Registry)
        BY <3>1, <2>11 DEF Heap
      <4>2. t \notin h.gray \cup h.grayagain
        BY <4>1, <2>1, <2>2 DEF Linked
      <4>3. Linked(k)
        BY <4>1, <4>2, <2>4, <2>6 DEF Linked
      <4>4. ~iswhite(k, Registry)
        BY <4>1, <2>1, <2>3, <2>4, <2>6 DEF iswhite
      <4>. QED  BY <4>1, <4>3, <4>4, <2>1, <2>4, <2>6
    <3>. QED  BY <3>1
  <2>13. ~keepinvariant(k) => \A x \in Tables \ Unswept(k) : k.color[x] = k.currentwhite
    <3>1. ASSUME ~keepinvariant(k), NEW x \in Tables \ Unswept(k)
          PROVE  k.color[x] = k.currentwhite
      <4>1. h.color[x] = h.currentwhite
        BY <3>1, <2>8, <2>11 DEF Heap
      <4>2. x # t
        BY <4>1, <2>2, <2>3
      <4>. QED  BY <4>1, <4>2, <2>1, <2>4, <2>6
    <3>. QED  BY <3>1
  <2>14. \A x \in Udata : k.color[x] # "gray"
    BY <2>1, <2>4, <2>6 DEF Heap
  <2>15. \A x \in Nodes : k.color[x] # "free" /\ x \notin Dead(k)
    BY <2>1, <2>7, <2>9 DEF Heap
  <2>16. k.color[MainThread] = h.color[MainThread]
    BY <2>1, <2>4, <2>6
  <2>17. Heap(k)
    BY <2>6, <2>8, <2>10, <2>11, <2>12, <2>13, <2>14, <2>15, <2>16 DEF Heap
  <2>18. Spares(h, k)
    BY <2>7, <2>9 DEF Spares
  <2>19. ~isblack(k, t)
    BY <2>4, <2>6 DEF isblack
  <2>. QED  BY <2>4, <2>6, <2>17, <2>18, <2>19
<1>. QED  BY <1>1, <1>2

-----------------------------------------------------------------------------
(* The steps of the collector *)

\* The collector goes from one state to a like one, and nothing else changes.
LEMMA HeapTurns ==
  ASSUME NEW h, Heap(h), NEW k \in GlobalState,
         k.currentwhite = h.currentwhite, k.color = h.color, k.sweepgc = h.sweepgc,
         k.gray = h.gray, k.grayagain = h.grayagain,
         k.allgc = h.allgc, k.finobj = h.finobj, k.tobefnz = h.tobefnz,
         \/ k.gcstate = h.gcstate
         \/ keepinvariant(h) /\ keepinvariant(k)
         \/ {h.gcstate, k.gcstate} \subseteq {"callfin", "pause"}
  PROVE  /\ Heap(k) /\ Spares(h, k)
         /\ \A r : Marking(h, r) => Marking(k, r)
<1>1. h \in GlobalState /\ Separated(h) /\ Pointed(h) /\ h.gcstate # "insideatomic"
  BY DEF Heap
<1>2. Separated(k) /\ (k.gcstate = h.gcstate => Unswept(k) = Unswept(h) /\ Pointed(k))
  BY <1>1, SameLists
<1>3. /\ keepinvariant(k) <=> keepinvariant(h)
      /\ issweepphase(k) <=> issweepphase(h)
      /\ k.gcstate \in {"callfin", "pause"} <=> h.gcstate \in {"callfin", "pause"}
      /\ k.gcstate # h.gcstate => ~issweepphase(k) /\ ~issweepphase(h)
      /\ k.gcstate # "insideatomic"
  BY <1>1 DEF keepinvariant, issweepphase
<1>4. k.gcstate # h.gcstate => Unswept(k) = {} /\ Unswept(h) = {}
  BY <1>3 DEF Unswept, issweepphase
<1>5. Pointed(k)
  <2>1. CASE k.gcstate = h.gcstate
    BY <2>1, <1>2
  <2>2. CASE k.gcstate # h.gcstate
    <3>1. h.sweepgc = "NULL" /\ k.gcstate # "swpallgc"
      BY <2>2, <1>1, <1>3 DEF Pointed, issweepphase
    <3>. QED  BY <3>1 DEF Pointed
  <2>. QED  BY <2>1, <2>2
<1>6. Unswept(k) = Unswept(h) /\ Dead(k) = Dead(h)
  BY <1>2, <1>4 DEF Dead
<1>7. Linked(h) => Linked(k)
  BY DEF Linked
<1>8. \A o : iswhite(k, o) <=> iswhite(h, o)
  BY DEF iswhite
<1>9. Heap(k)
  BY <1>2, <1>3, <1>5, <1>6, <1>7, <1>8 DEF Heap
<1>10. Spares(h, k)
  BY <1>6 DEF Spares
<1>11. \A r : Marking(h, r) => Marking(k, r)
  BY <1>3, <1>8 DEF Marking, isblack
<1>. QED  BY <1>9, <1>10, <1>11

\* restartcollection, from the pause.
LEMMA HeapRestarts ==
  ASSUME NEW h, Heap(h), h.gcstate = "pause",
         NEW k, k = [restartcollection(h) EXCEPT !.gcstate = "propagate"]
  PROVE  /\ Heap(k) /\ Spares(h, k)
         /\ k.tobefnz = h.tobefnz
         /\ \A r : Marking(k, r)
<1>1. /\ Nodes \subseteq Objects /\ Udata \subseteq Objects /\ Udata \cap Nodes = {}
      /\ Tables \subseteq Nodes /\ MainThread \in Nodes /\ Registry \in Nodes
      /\ Objects = Udata \cup Nodes /\ Nodes = Tables \cup {MainThread}
  BY Distinct DEF Nodes, Tables
<1>2. /\ h \in GlobalState /\ Separated(h) /\ Pointed(h) /\ h.sweepgc = "NULL"
      /\ Unswept(h) = {} /\ Dead(h) = {}
      /\ \A o \in Udata : h.color[o] # "gray"
      /\ \A o \in Nodes : h.color[o] = h.currentwhite
  BY <1>1 DEF Heap, Pointed, Unswept, keepinvariant
<1>3. h.currentwhite \in White /\ h.tobefnz \in Seq(Udata)
  BY <1>2 DEF GlobalState
<1>4. /\ "gray" \notin White /\ "black" \notin White /\ "free" \notin White
      /\ other(h.currentwhite) \in White
  BY <1>3, Whitenesses
<1> DEFINE S == {MainThread, Registry} \cup ToSet(h.tobefnz)
           i == [h EXCEPT !.gray = {}, !.grayagain = {}]
           m == reallymarkobject(i, S)
<1>5. S \in SUBSET Objects /\ MainThread \in S /\ Registry \in S
  BY <1>1, <1>3 DEF ToSet
<1>6. /\ i \in GlobalState
      /\ i.gcstate = h.gcstate /\ i.currentwhite = h.currentwhite /\ i.sweepgc = h.sweepgc
      /\ i.gray = {} /\ i.grayagain = {} /\ i.color = h.color
      /\ i.allgc = h.allgc /\ i.finobj = h.finobj /\ i.tobefnz = h.tobefnz
  BY <1>2 DEF GlobalState
<1>7. k = [m EXCEPT !.gcstate = "propagate"]
  BY DEF restartcollection
<1>8. m = reallymarkobject(i, S)
  OBVIOUS
<1>. HIDE DEF i, S, m
<1>9. /\ Marks(i, m) /\ m.grayagain = i.grayagain
      /\ \A o \in S : m.color[o] \notin White
      /\ \A o \in Nodes : iswhite(i, o) => m.color[o] \in {i.color[o], "gray"}
      /\ m.gray = i.gray \cup {o \in Nodes : iswhite(i, o) /\ m.color[o] = "gray"}
  BY <1>5, <1>6, <1>8, ReallyMarks
<1>10. /\ m \in GlobalState
       /\ m.currentwhite = h.currentwhite /\ m.sweepgc = "NULL"
       /\ m.allgc = h.allgc /\ m.finobj = h.finobj /\ m.tobefnz = h.tobefnz
       /\ m.grayagain = {}
       /\ m.gray = {o \in Nodes : m.color[o] = "gray"}
       /\ \A o \in Objects : m.color[o] = "free" <=> h.color[o] = "free"
       /\ \A o \in Objects : m.color[o] \in White => m.color[o] = h.color[o]
       /\ \A o \in Udata : m.color[o] # "gray"
       /\ \A o \in Nodes : m.color[o] \in {h.currentwhite, "gray"}
       /\ m.color[MainThread] = "gray" /\ m.color[Registry] \notin White
  BY <1>1, <1>2, <1>3, <1>5, <1>6, <1>9 DEF Marks, iswhite
<1>11. /\ k \in GlobalState /\ k.gcstate = "propagate"
       /\ k.currentwhite = h.currentwhite /\ k.sweepgc = "NULL"
       /\ k.gray = m.gray /\ k.grayagain = m.grayagain /\ k.color = m.color
       /\ k.allgc = h.allgc /\ k.finobj = h.finobj /\ k.tobefnz = h.tobefnz
  BY <1>7, <1>10 DEF GlobalState, GCState
<1>12. Separated(k) /\ Pointed(k)
  <2>1. Separated(k)
    <3>1. /\ k.sweepgc = h.sweepgc
          /\ \A o \in Objects : k.color[o] = "free" <=> h.color[o] = "free"
      BY <1>2, <1>10, <1>11
    <3>2. /\ k \in GlobalState /\ h \in GlobalState /\ Separated(h) /\ Pointed(h)
          /\ k.allgc = h.allgc /\ k.finobj = h.finobj /\ k.tobefnz = h.tobefnz
      BY <1>2, <1>11
    <3>. QED  BY <3>1, <3>2, SameLists
  <2>. QED  BY <2>1, <1>11 DEF Pointed
<1>13. Dead(k) = {}
  BY <1>2, <1>4, <1>10, <1>11 DEF Dead
<1>14. Linked(k)
  BY <1>1, <1>10, <1>11 DEF Linked
<1>15. keepinvariant(k) /\ ~issweepphase(k)
  BY <1>11 DEF keepinvariant, issweepphase
<1>16. Heap(k)
  BY <1>1, <1>3, <1>4, <1>10, <1>11, <1>12, <1>13, <1>14, <1>15 DEF Heap, iswhite
<1>17. Spares(h, k)
  BY <1>10, <1>11, <1>13 DEF Spares
<1>18. \A t \in Tables : ~isblack(k, t)
  BY <1>1, <1>3, <1>4, <1>10, <1>11 DEF isblack
<1>. QED  BY <1>11, <1>16, <1>17, <1>18 DEF Marking

\* propagatemark, as a step of the collector.
LEMMA HeapPropagates ==
  ASSUME NEW h, Heap(h), h.gcstate = "propagate", Holds, Marking(h, ref),
         NEW o \in h.gray, NEW k, k = propagatemark(h, o)
  PROVE  /\ Heap(k) /\ Spares(h, k) /\ k.gcstate = h.gcstate
         /\ k.tobefnz = h.tobefnz
         /\ Marking(k, ref)
<1>1. /\ Nodes \subseteq Objects /\ Udata \subseteq Objects /\ Udata \cap Nodes = {}
      /\ Tables \subseteq Nodes /\ MainThread \in Nodes /\ Registry \in Nodes
      /\ WeakTable \in Tables /\ Registry \in Tables /\ MainThread \notin Tables
      /\ Objects = Udata \cup Nodes /\ Nodes = Tables \cup {MainThread}
  BY Distinct DEF Nodes, Tables
<1>2. /\ keepinvariant(h) /\ ~issweepphase(h) /\ h.gcstate \notin {"callfin", "pause"}
      /\ h.gcstate # "insideatomic" /\ Unswept(h) = {}
  BY DEF keepinvariant, issweepphase, Unswept
<1>3. /\ h \in GlobalState /\ Separated(h) /\ Pointed(h) /\ Linked(h) /\ Dead(h) = {}
      /\ h.color[MainThread] = "gray" /\ ~iswhite(h, Registry)
      /\ \A x \in Udata : h.color[x] # "gray"
      /\ \A x \in Nodes : h.color[x] # "free"
  BY <1>2 DEF Heap
<1>4. /\ o \in Nodes /\ o \in Objects /\ h.color[o] = "gray" /\ o \notin h.grayagain
      /\ h.gray \subseteq Nodes /\ h.currentwhite \in White
  BY <1>1, <1>3 DEF GlobalState, Linked
<1>5. /\ "gray" \notin White /\ "black" \notin White /\ "free" \notin White
      /\ other(h.currentwhite) \in White
  BY <1>4, Whitenesses
<1>6. /\ Marks(h, k) /\ k.gcstate = h.gcstate
      /\ o \in Tables \ {WeakTable} => /\ k.color[o] = "black"
                                       /\ \A v \in ref[o] : k.color[v] \notin White
  BY <1>3, Propagates
<1>7. /\ k.grayagain = h.grayagain \cup
           (IF o = MainThread \/ (o = WeakTable /\ h.gcstate = "propagate") THEN {o} ELSE {})
      /\ \A x \in Objects : x # o /\ ~iswhite(h, x) => k.color[x] = h.color[x]
      /\ \A x \in Nodes : iswhite(h, x) => k.color[x] \in {h.color[x], "gray"}
      /\ k.gray = (h.gray \ {o}) \cup {x \in Nodes : iswhite(h, x) /\ k.color[x] = "gray"}
      /\ o \in {MainThread, WeakTable} => k.color[o] = "gray"
  BY <1>3, <1>4, Propagates
<1>8. /\ k \in GlobalState
      /\ k.currentwhite = h.currentwhite /\ k.sweepgc = h.sweepgc
      /\ k.allgc = h.allgc /\ k.finobj = h.finobj /\ k.tobefnz = h.tobefnz
      /\ \A x \in Objects : k.color[x] = "free" <=> h.color[x] = "free"
      /\ \A x \in Objects : k.color[x] \in White => k.color[x] = h.color[x]
      /\ \A x \in Udata : k.color[x] # "gray"
  BY <1>3, <1>6 DEF Marks
<1>9. Separated(k) /\ Pointed(k)
  BY <1>3, <1>6, <1>8, SameLists
<1>10. Dead(k) = {}
  BY <1>3, <1>5, <1>8 DEF Dead
<1>11. \A x \in Objects : ~iswhite(h, x) => ~iswhite(k, x)
  BY <1>8 DEF iswhite
<1>12. Linked(k)
  <2>1. ASSUME NEW x \in Objects
        PROVE  k.color[x] = "gray" <=> x \in k.gray \cup k.grayagain
    <3>1. CASE x = o
      <4>1. o \notin k.gray
        BY <1>4, <1>5, <1>7 DEF iswhite
      <4>2. o \in k.grayagain <=> o \in {MainThread, WeakTable}
        BY <1>4, <1>7
      <4>3. o \notin {MainThread, WeakTable} => k.color[o] = "black"
        BY <1>1, <1>4, <1>6
      <4>. QED  BY <3>1, <4>1, <4>2, <4>3, <1>7
    <3>2. CASE x # o /\ iswhite(h, x)
      <4>1. x \notin h.gray \cup h.grayagain
        BY <3>2, <1>3, <1>5 DEF Linked, iswhite
      <4>2. x \in k.gray <=> x \in Nodes /\ k.color[x] = "gray"
        BY <4>1, <3>2, <1>7
      <4>3. x \notin k.grayagain
        BY <4>1, <3>2, <1>7
      <4>. QED  BY <4>2, <4>3, <1>1, <1>8
    <3>3. CASE x # o /\ ~iswhite(h, x)
      <4>1. k.color[x] = h.color[x]
        BY <3>3, <1>7
      <4>2. x \in k.gray \cup k.grayagain <=> x \in h.gray \cup h.grayagain
        BY <3>3, <1>7
      <4>. QED  BY <4>1, <4>2, <1>3 DEF Linked
    <3>. QED  BY <3>1, <3>2, <3>3
  <2>2. ASSUME NEW x \in k.gray, x \in k.grayagain
        PROVE  FALSE
    <3>1. x \in Nodes /\ x \in Objects
      BY <1>1, <1>8 DEF GlobalState
    <3>2. CASE x \in h.gray \ {o}
      BY <3>2, <2>2, <1>3, <1>7 DEF Linked
    <3>3. CASE iswhite(h, x)
      <4>1. x \notin h.grayagain /\ x # o
        BY <3>1, <3>3, <1>3, <1>4, <1>5 DEF Linked, iswhite
      <4>. QED  BY <4>1, <2>2, <1>7
    <3>. QED  BY <2>2, <3>2, <3>3, <1>7
  <2>. QED  BY <2>1, <2>2 DEF Linked
<1>13. k.color[MainThread] = "gray"
  BY <1>1, <1>3, <1>5, <1>7 DEF iswhite
<1>14. keepinvariant(k) /\ ~issweepphase(k) /\ k.gcstate \notin {"callfin", "pause", "insideatomic"}
  BY <1>2, <1>6 DEF keepinvariant, issweepphase
<1>15. Heap(k)
  BY <1>1, <1>3, <1>8, <1>9, <1>10, <1>11, <1>12, <1>13, <1>14 DEF Heap
<1>16. Spares(h, k)
  BY <1>8, <1>10 DEF Spares
<1>17. Marking(k, ref)
  <2>1. ASSUME NEW t \in Tables, isblack(k, t), NEW v \in ref[t]
        PROVE  ~iswhite(k, v)
    <3>1. v \in Objects /\ t \in Objects
      BY <1>1 DEF Holds
    <3>2. CASE t = o
      <4>1. o # WeakTable
        BY <2>1, <3>2, <1>7 DEF isblack
      <4>. QED  BY <4>1, <3>2, <2>1, <1>6 DEF iswhite
    <3>3. CASE t # o
      <4>1. h.color[t] = "black"
        <5>1. CASE iswhite(h, t)
          BY <5>1, <2>1, <1>1, <1>5, <1>7 DEF isblack, iswhite
        <5>2. CASE ~iswhite(h, t)
          BY <5>2, <2>1, <3>1, <3>3, <1>7 DEF isblack
        <5>. QED  BY <5>1, <5>2
      <4>2. ~iswhite(h, v)
        BY <4>1, <2>1, <1>2 DEF Marking, isblack
      <4>. QED  BY <4>2, <3>1, <1>11
    <3>. QED  BY <3>2, <3>3
  <2>. QED  BY <2>1 DEF Marking
<1>. QED  BY <1>6, <1>8, <1>15, <1>16, <1>17

\* The state, and the list, that follow those of a list that is swept.
SweptNext(c, s, l) ==
  \/ c = "swpallgc" /\ s = "swpfinobj" /\ l = "finobj"
  \/ c = "swpfinobj" /\ s = "swptobefnz" /\ l = "tobefnz"
  \/ c = "swptobefnz" /\ s = "swpend" /\ l = "NULL"

\* What one list has left is swept, and the next is taken up.
LEMMA HeapNextList ==
  ASSUME NEW h, Heap(h), h.sweepgc = "NULL",
         NEW s, NEW l,
         SweptNext(h.gcstate, s, l),
         NEW k, k = [h EXCEPT !.gcstate = s, !.sweepgc = l]
  PROVE  /\ Heap(k) /\ Spares(h, k) /\ k.tobefnz = h.tobefnz
         /\ ~keepinvariant(k)
<1>1. /\ h \in GlobalState /\ Separated(h) /\ Pointed(h)
      /\ issweepphase(h) /\ ~keepinvariant(h) /\ h.gcstate \notin {"callfin", "pause"}
      /\ Unswept(h) = {}
  BY DEF Heap, issweepphase, keepinvariant, Unswept, Rest, SweptNext
<1>2. /\ k \in GlobalState /\ k.gcstate = s /\ k.sweepgc = l
      /\ k.currentwhite = h.currentwhite /\ k.color = h.color
      /\ k.gray = h.gray /\ k.grayagain = h.grayagain
      /\ k.allgc = h.allgc /\ k.finobj = h.finobj /\ k.tobefnz = h.tobefnz
  BY <1>1 DEF GlobalState, GCState, Lists, SweptNext
<1>3. /\ issweepphase(k) /\ ~keepinvariant(k) /\ k.gcstate \notin {"callfin", "pause", "insideatomic", "swpallgc"}
      /\ Unswept(k) = {}
  BY <1>2 DEF issweepphase, keepinvariant, Unswept, SweptNext
<1>4. Separated(k)
  BY <1>1, <1>2 DEF Separated
<1>5. Pointed(k)
  BY <1>2, <1>3 DEF Pointed, Lists, SweptNext
<1>6. Dead(k) = Dead(h)
  BY <1>2 DEF Dead
<1>7. Heap(k)
  BY <1>1, <1>2, <1>3, <1>4, <1>5, <1>6 DEF Heap
<1>. QED  BY <1>2, <1>3, <1>6, <1>7 DEF Spares

\* sweepstep.
LEMMA HeapSweepStep ==
  ASSUME NEW h, Heap(h), NEW s, NEW l,
         SweptNext(h.gcstate, s, l),
         NEW k, k = sweepstep(h, s, l)
  PROVE  /\ Heap(k) /\ Spares(h, k) /\ ToSet(k.tobefnz) \subseteq ToSet(h.tobefnz)
         /\ ~keepinvariant(k)
<1> DEFINE n == IF h.sweepgc = "NULL" THEN h ELSE sweeplist(h, SweepMax)
<1>1. /\ Heap(n) /\ Spares(h, n) /\ ToSet(n.tobefnz) \subseteq ToSet(h.tobefnz)
      /\ n.gcstate = h.gcstate
  <2>1. CASE h.sweepgc = "NULL"
    BY <2>1 DEF Spares
  <2>2. CASE h.sweepgc # "NULL"
    <3>1. n = sweeplist(h, SweepMax) /\ SweepMax \in Nat
      BY <2>2, SweepsSome
    <3>. HIDE DEF n
    <3>2. /\ Heap(n) /\ Spares(h, n) /\ n.gcstate = h.gcstate
          /\ \A m \in Lists : ToSet(n[m]) = {o \in ToSet(h[m]) : n.color[o] # "free"}
      BY <2>2, <3>1, HeapSweeps
    <3>3. n.tobefnz = n["tobefnz"] /\ h.tobefnz = h["tobefnz"] /\ "tobefnz" \in Lists
      BY DEF Lists
    <3>. QED  BY <3>2, <3>3
  <2>. QED  BY <2>1, <2>2
<1>2. k = IF n.sweepgc # "NULL" THEN n ELSE [n EXCEPT !.gcstate = s, !.sweepgc = l]
  BY DEF sweepstep
<1>. HIDE DEF n
<1>3. CASE n.sweepgc # "NULL"
  <2>1. ~keepinvariant(n)
    BY <1>1 DEF keepinvariant, SweptNext
  <2>. QED  BY <2>1, <1>1, <1>2, <1>3
<1>4. CASE n.sweepgc = "NULL"
  <2>1. Heap(k) /\ Spares(n, k) /\ k.tobefnz = n.tobefnz /\ ~keepinvariant(k)
    <3>1. k = [n EXCEPT !.gcstate = s, !.sweepgc = l]
      BY <1>2, <1>4
    <3>2. SweptNext(n.gcstate, s, l)
      BY <1>1
    <3>3. Heap(n)
      BY <1>1
    <3>. QED  BY <1>4, <3>1, <3>2, <3>3, HeapNextList
  <2>. QED  BY <2>1, <1>1 DEF Spares
<1>. QED  BY <1>3, <1>4

\* The main thread is turned white, and the sweep ends.
LEMMA HeapEndsSweep ==
  ASSUME NEW h, Heap(h), h.gcstate = "swpend",
         NEW k, k = [makewhite(h, MainThread) EXCEPT !.gcstate = "callfin"]
  PROVE  /\ Heap(k) /\ Spares(h, k) /\ k.tobefnz = h.tobefnz
         /\ ~keepinvariant(k)
<1>1. /\ Nodes \subseteq Objects /\ Udata \subseteq Objects /\ Udata \cap Nodes = {}
      /\ Tables \subseteq Nodes /\ MainThread \in Nodes /\ MainThread \notin Tables
      /\ Objects = Udata \cup Nodes
  BY Distinct DEF Nodes, Tables
<1>2. /\ h \in GlobalState /\ Separated(h) /\ Pointed(h) /\ h.sweepgc = "NULL"
      /\ ~keepinvariant(h) /\ Unswept(h) = {} /\ Dead(h) = {}
  BY DEF Heap, Pointed, keepinvariant, Unswept
<1>3. h.currentwhite \in White /\ h.color \in [Objects -> Color]
  BY <1>2 DEF GlobalState
<1>4. /\ other(h.currentwhite) # h.currentwhite /\ h.currentwhite \in Color
      /\ h.currentwhite \notin {"gray", "free", "black"}
  BY <1>3, Whitenesses
<1> DEFINE c == [h.color EXCEPT ![MainThread] = h.currentwhite]
<1>5. /\ c \in [Objects -> Color] /\ c[MainThread] = h.currentwhite
      /\ \A x \in Objects : x # MainThread => c[x] = h.color[x]
  BY <1>1, <1>3, <1>4
<1>6. k = [h EXCEPT !.color = c, !.gcstate = "callfin"]
  BY DEF makewhite
<1>. HIDE DEF c
<1>7. /\ k \in GlobalState /\ k.gcstate = "callfin"
      /\ k.currentwhite = h.currentwhite /\ k.sweepgc = "NULL"
      /\ k.gray = h.gray /\ k.grayagain = h.grayagain
      /\ k.allgc = h.allgc /\ k.finobj = h.finobj /\ k.tobefnz = h.tobefnz
      /\ k.color = c
  BY <1>2, <1>5, <1>6 DEF GlobalState, GCState
<1>8. {x \in Objects \ {MainThread} : k.color[x] # "free"}
        = {x \in Objects \ {MainThread} : h.color[x] # "free"}
  BY <1>5, <1>7
<1>9. Separated(k)
  BY <1>2, <1>7, <1>8 DEF Separated
<1>10. Pointed(k)
  BY <1>7 DEF Pointed
<1>11. Dead(k) = {}
  BY <1>2, <1>4, <1>5, <1>7 DEF Dead
<1>12. ~keepinvariant(k) /\ ~issweepphase(k) /\ Unswept(k) = {}
  BY <1>7 DEF keepinvariant, issweepphase, Unswept
<1>13. \A t \in Tables : h.color[t] = h.currentwhite
  BY <1>2 DEF Heap
<1>14. /\ \A x \in Udata : k.color[x] # "gray"
       /\ \A x \in Nodes : k.color[x] # "free"
       /\ \A x \in Objects : h.color[x] # "free" => k.color[x] # "free"
  BY <1>1, <1>4, <1>5, <1>7 DEF Heap
<1>15. Heap(k)
  BY <1>1, <1>4, <1>5, <1>7, <1>9, <1>10, <1>11, <1>12, <1>13, <1>14 DEF Heap
<1>. QED  BY <1>7, <1>11, <1>12, <1>14, <1>15 DEF Spares

\* Separating the userdata to finalize: go are those that leave finobj.
Sent(h, go) ==
  [h EXCEPT !.tobefnz = @ \o Kept(h.finobj, go), !.finobj = Kept(@, Objects \ go)]

\* Separating userdata for their finalizers loses none.
LEMMA Separates ==
  ASSUME NEW h \in GlobalState, Separated(h), NEW go,
         NEW k, k = Sent(h, go)
  PROVE  /\ k \in GlobalState /\ Separated(k)
         /\ k.gcstate = h.gcstate /\ k.currentwhite = h.currentwhite /\ k.sweepgc = h.sweepgc
         /\ k.color = h.color /\ k.gray = h.gray /\ k.grayagain = h.grayagain
         /\ k.full = h.full /\ k.emergency = h.emergency
         /\ k.allgc = h.allgc
         /\ ToSet(k.finobj) = ToSet(h.finobj) \ go
         /\ ToSet(k.tobefnz) = ToSet(h.tobefnz) \cup (ToSet(h.finobj) \cap go)
<1> DEFINE f == Kept(h.finobj, Objects \ go)
           t == Kept(h.finobj, go)
           b == h.tobefnz \o t
<1>1. /\ h.finobj \in Seq(Udata) /\ h.tobefnz \in Seq(Udata)
      /\ IsInjective(h.allgc) /\ IsInjective(h.finobj) /\ IsInjective(h.tobefnz)
      /\ ToSet(h.allgc) \cap ToSet(h.finobj) = {}
      /\ ToSet(h.allgc) \cap ToSet(h.tobefnz) = {}
      /\ ToSet(h.finobj) \cap ToSet(h.tobefnz) = {}
  BY DEF GlobalState, Separated
<1>2. ToSet(h.finobj) \subseteq Objects
  BY <1>1 DEF ToSet, Objects
<1>3. k = [h EXCEPT !.tobefnz = b, !.finobj = f]
  BY DEF GlobalState, Sent
<1>0. ASSUME NEW S
      PROVE  /\ Kept(h.finobj, S) \in Seq(Udata \cap S) /\ IsInjective(Kept(h.finobj, S))
             /\ ToSet(Kept(h.finobj, S)) = ToSet(h.finobj) \cap S
  <2> DEFINE s == h.finobj
  <2>1. s \in Seq(Udata) /\ IsInjective(s)
    BY <1>1
  <2>. HIDE DEF s
  <2>2. /\ Kept(s, S) \in Seq(Udata \cap S)
        /\ ToSet(Kept(s, S)) = ToSet(s) \cap S
        /\ IsInjective(s) => IsInjective(Kept(s, S))
    BY <2>1, KeptSeq
  <2>. QED  BY <2>1, <2>2 DEF s
<1>4. /\ f \in Seq(Udata \cap (Objects \ go)) /\ IsInjective(f)
      /\ ToSet(f) = ToSet(h.finobj) \cap (Objects \ go)
  BY <1>0
<1>5. /\ t \in Seq(Udata \cap go) /\ IsInjective(t)
      /\ ToSet(t) = ToSet(h.finobj) \cap go
  BY <1>0
<1>. HIDE DEF f, t
<1>6. f \in Seq(Udata) /\ t \in Seq(Udata)
  <2>1. ASSUME NEW A, NEW B, NEW s \in Seq(A \cap B)
        PROVE  s \in Seq(A)
    BY <2>1
  <2>. QED  BY <2>1, <1>4, <1>5
<1>7. ToSet(f) = ToSet(h.finobj) \ go
  BY <1>2, <1>4
<1>8. ToSet(h.tobefnz) \cap ToSet(t) = {}
  BY <1>1, <1>5
<1>9. /\ b \in Seq(Udata) /\ IsInjective(b)
      /\ ToSet(b) = ToSet(h.tobefnz) \cup ToSet(t)
  BY <1>1, <1>5, <1>6, <1>8, ConcatSeq
<1>. HIDE DEF b
<1>10. /\ k \in GlobalState
       /\ k.gcstate = h.gcstate /\ k.currentwhite = h.currentwhite /\ k.sweepgc = h.sweepgc
       /\ k.color = h.color /\ k.gray = h.gray /\ k.grayagain = h.grayagain
       /\ k.full = h.full /\ k.emergency = h.emergency
       /\ k.allgc = h.allgc /\ k.finobj = f /\ k.tobefnz = b
  BY <1>3, <1>6, <1>9 DEF GlobalState
<1>11. /\ ToSet(k.finobj) = ToSet(h.finobj) \ go
       /\ ToSet(k.tobefnz) = ToSet(h.tobefnz) \cup (ToSet(h.finobj) \cap go)
  BY <1>5, <1>7, <1>9, <1>10
<1>12. ToSet(k.finobj) \cup ToSet(k.tobefnz) = ToSet(h.finobj) \cup ToSet(h.tobefnz)
  BY <1>11
<1>13. Separated(k)
  <2>1. /\ IsInjective(k.allgc) /\ IsInjective(k.finobj) /\ IsInjective(k.tobefnz)
        /\ ToSet(k.allgc) \cap ToSet(k.finobj) = {}
        /\ ToSet(k.allgc) \cap ToSet(k.tobefnz) = {}
        /\ ToSet(k.finobj) \cap ToSet(k.tobefnz) = {}
    BY <1>1, <1>4, <1>9, <1>10, <1>11
  <2>2. ToSet(k.allgc) \cup ToSet(k.finobj) \cup ToSet(k.tobefnz)
          = ToSet(h.allgc) \cup ToSet(h.finobj) \cup ToSet(h.tobefnz)
    BY <1>10, <1>12
  <2>. QED  BY <2>1, <2>2, <1>10 DEF Separated
<1>. QED  BY <1>10, <1>11, <1>13

\* separatetobefnz does that to all of them, or to the white ones.
LEMMA SentAre ==
  ASSUME NEW h
  PROVE  /\ separatetobefnz(h, TRUE) = Sent(h, Objects)
         /\ separatetobefnz(h, FALSE) = Sent(h, Whites(h))
BY DEF separatetobefnz, Sent

\* The sweep is put at the beginning of allgc.
LEMMA HeapAtAllgc ==
  ASSUME NEW h \in GlobalState, Separated(h),
         \A o \in Udata : h.color[o] # "gray",
         \A o \in Nodes : h.color[o] # "free" /\ o \notin Dead(h),
         h.color[MainThread] = "gray", Dead(h) \subseteq ToSet(h.allgc),
         NEW e, e = [h EXCEPT !.gcstate = "swpallgc", !.sweepgc = "allgc"]
  PROVE  /\ Heap(e) /\ Dead(e) = Dead(h)
         /\ e.gcstate = "swpallgc" /\ e.sweepgc = "allgc" /\ e.sweepgc # "NULL"
         /\ e.currentwhite = h.currentwhite /\ e.color = h.color
         /\ e.allgc = h.allgc /\ e.finobj = h.finobj /\ e.tobefnz = h.tobefnz
<1>1. /\ e \in GlobalState /\ e.gcstate = "swpallgc" /\ e.sweepgc = "allgc"
      /\ e.currentwhite = h.currentwhite /\ e.color = h.color
      /\ e.allgc = h.allgc /\ e.finobj = h.finobj /\ e.tobefnz = h.tobefnz
  BY DEF GlobalState, GCState, Lists
<1>2. Separated(e)
  BY <1>1 DEF Separated
<1>3. Pointed(e) /\ e.sweepgc # "NULL"
  BY <1>1 DEF Pointed, Lists
<1>4. Unswept(e) = ToSet(h.allgc)
  <2>1. Rest(e) = ToSet(e.allgc)
    BY <1>1, <1>2, RestInList
  <2>. QED  BY <2>1, <1>1 DEF Unswept
<1>5. Dead(e) = Dead(h)
  BY <1>1 DEF Dead
<1>6. Tables \subseteq ToSet(h.allgc)
  <2>1. /\ Tables \subseteq Objects \ {MainThread} /\ Tables \cap Udata = {}
        /\ Tables \subseteq Nodes
    BY Distinct DEF Tables, Nodes, Objects
  <2>2. ToSet(h.finobj) \subseteq Udata /\ ToSet(h.tobefnz) \subseteq Udata
    BY DEF GlobalState, ToSet
  <2>3. \A o \in Objects \ {MainThread} : h.color[o] # "free" =>
           o \in ToSet(h.allgc) \cup ToSet(h.finobj) \cup ToSet(h.tobefnz)
    BY DEF Separated
  <2>. QED  BY <2>1, <2>2, <2>3
<1>7. issweepphase(e) /\ ~keepinvariant(e)
  BY <1>1 DEF issweepphase, keepinvariant
<1>8. Heap(e)
  BY <1>1, <1>2, <1>3, <1>4, <1>5, <1>6, <1>7 DEF Heap
<1>. QED  BY <1>1, <1>3, <1>5, <1>8

\* A sweep begins: what may be dead is in the list it begins with.
LEMMA HeapEnters ==
  ASSUME NEW h \in GlobalState, Separated(h),
         \A o \in Udata : h.color[o] # "gray",
         \A o \in Nodes : h.color[o] # "free" /\ o \notin Dead(h),
         h.color[MainThread] = "gray", Dead(h) \subseteq ToSet(h.allgc),
         NEW k, k = entersweep(h)
  PROVE  /\ Heap(k) /\ Spares(h, k) /\ ToSet(k.tobefnz) \subseteq ToSet(h.tobefnz)
         /\ ~keepinvariant(k)
<1> DEFINE e == [h EXCEPT !.gcstate = "swpallgc", !.sweepgc = "allgc"]
<1>1. k = sweeptolive(e)
  BY DEF entersweep
<1>2. e = [h EXCEPT !.gcstate = "swpallgc", !.sweepgc = "allgc"]
  OBVIOUS
<1>. HIDE DEF e
<1>3. /\ Heap(e) /\ Dead(e) = Dead(h)
      /\ e.gcstate = "swpallgc" /\ e.sweepgc # "NULL"
      /\ e.currentwhite = h.currentwhite /\ e.color = h.color
      /\ e.finobj = h.finobj /\ e.tobefnz = h.tobefnz
  BY <1>2, HeapAtAllgc
<1>4. /\ Heap(k) /\ Spares(e, k) /\ k.gcstate = e.gcstate
       /\ \A m \in Lists : ToSet(k[m]) = {o \in ToSet(e[m]) : k.color[o] # "free"}
  BY <1>1, <1>3, HeapSweepsToLive
<1>5. k.tobefnz = k["tobefnz"] /\ e.tobefnz = e["tobefnz"] /\ "tobefnz" \in Lists
  BY DEF Lists
<1>6. ToSet(k.tobefnz) \subseteq ToSet(h.tobefnz)
  BY <1>3, <1>4, <1>5
<1>7. Spares(h, k)
  BY <1>3, <1>4 DEF Spares
<1>8. ~keepinvariant(k)
  BY <1>3, <1>4 DEF keepinvariant
<1>. QED  BY <1>4, <1>6, <1>7, <1>8

\* A full collection may give up the cycle it finds.
LEMMA HeapGivesUp ==
  ASSUME NEW h, Heap(h), keepinvariant(h), NEW k, k = entersweep(h)
  PROVE  /\ Heap(k) /\ Spares(h, k) /\ ToSet(k.tobefnz) \subseteq ToSet(h.tobefnz)
         /\ ~keepinvariant(k)
<1>1. Unswept(h) = {}
  BY DEF keepinvariant, Unswept
<1>2. /\ h \in GlobalState /\ Separated(h)
      /\ \A o \in Udata : h.color[o] # "gray"
      /\ \A o \in Nodes : h.color[o] # "free" /\ o \notin Dead(h)
      /\ h.color[MainThread] = "gray" /\ Dead(h) \subseteq ToSet(h.allgc)
  BY <1>1 DEF Heap
<1>. QED  BY <1>2, HeapEnters

\* lua_close separates what has a finalizer; that is not in allgc, so not dead.
LEMMA HeapCloses ==
  ASSUME NEW h, Heap(h), NEW r, Marking(h, r), NEW k, k = Sent(h, Objects)
  PROVE  /\ Heap(k) /\ Spares(h, k) /\ Marking(k, r) /\ k.color = h.color
         /\ ToSet(k.tobefnz) \cap Dead(k) \subseteq ToSet(h.tobefnz)
<1>1. h \in GlobalState /\ Separated(h) /\ Pointed(h)
  BY DEF Heap
<1>3. /\ k \in GlobalState /\ Separated(k)
      /\ k.gcstate = h.gcstate /\ k.currentwhite = h.currentwhite /\ k.sweepgc = h.sweepgc
      /\ k.color = h.color /\ k.gray = h.gray /\ k.grayagain = h.grayagain
      /\ k.allgc = h.allgc
      /\ ToSet(k.tobefnz) = ToSet(h.tobefnz) \cup (ToSet(h.finobj) \cap Objects)
  BY <1>1, Separates
<1>4. ToSet(h.finobj) \subseteq Objects
  BY <1>1 DEF Separated
<1>5. ToSet(k.tobefnz) = ToSet(h.tobefnz) \cup ToSet(h.finobj)
  BY <1>3, <1>4
<1>6. Pointed(k)
  <2>1. /\ "allgc" \in Lists /\ "finobj" \in Lists /\ "tobefnz" \in Lists
        /\ Lists = {"allgc", "finobj", "tobefnz"}
        /\ k["allgc"] = k.allgc /\ k["tobefnz"] = k.tobefnz
        /\ h["allgc"] = h.allgc /\ h["finobj"] = h.finobj /\ h["tobefnz"] = h.tobefnz
    BY DEF Lists
  <2>2. ASSUME k.sweepgc # "NULL"
        PROVE  \E l \in Lists : k.sweepgc = l \/ k.sweepgc \in ToSet(k[l])
    <3>1. PICK l \in Lists : h.sweepgc = l \/ h.sweepgc \in ToSet(h[l])
      BY <2>2, <1>1, <1>3 DEF Pointed
    <3>2. CASE h.sweepgc = l
      BY <3>2, <1>3
    <3>3. CASE h.sweepgc \in ToSet(h["allgc"])
      BY <3>3, <2>1, <1>3
    <3>4. CASE h.sweepgc \in ToSet(h["finobj"]) \cup ToSet(h["tobefnz"])
      BY <3>4, <2>1, <1>3, <1>5
    <3>. QED  BY <3>1, <3>2, <3>3, <3>4, <2>1
  <2>. QED  BY <2>2, <1>1, <1>3 DEF Pointed
<1>7. Unswept(k) = Unswept(h) /\ Unswept(h) \subseteq ToSet(h.allgc)
  <2>1. CASE h.gcstate = "swpallgc" /\ h.sweepgc # "NULL"
    <3>1. h.sweepgc = "allgc" \/ h.sweepgc \in ToSet(h.allgc)
      BY <2>1, <1>1 DEF Pointed
    <3>2. /\ h.sweepgc = "allgc" => Rest(h) = ToSet(h.allgc)
          /\ h.sweepgc # "allgc" => Rest(h) = After(h.allgc, h.sweepgc)
          /\ Rest(h) \subseteq ToSet(h.allgc)
      BY <3>1, <1>1, RestInList
    <3>3. k.sweepgc = "allgc" \/ k.sweepgc \in ToSet(k.allgc)
      BY <3>1, <1>3
    <3>4. /\ k.sweepgc = "allgc" => Rest(k) = ToSet(k.allgc)
          /\ k.sweepgc # "allgc" => Rest(k) = After(k.allgc, k.sweepgc)
      BY <3>3, <1>3, RestInList
    <3>. QED  BY <3>2, <3>4, <1>3, <2>1 DEF Unswept
  <2>2. CASE ~(h.gcstate = "swpallgc" /\ h.sweepgc # "NULL")
    BY <2>2, <1>3 DEF Unswept, Rest
  <2>. QED  BY <2>1, <2>2
<1>8. Dead(k) = Dead(h) /\ (\A o : iswhite(k, o) <=> iswhite(h, o))
  BY <1>3 DEF Dead, iswhite
<1>9. /\ keepinvariant(k) <=> keepinvariant(h)
      /\ issweepphase(k) <=> issweepphase(h)
      /\ Linked(h) => Linked(k)
  BY <1>3 DEF keepinvariant, issweepphase, Linked
<1>10. Heap(k)
  BY <1>3, <1>6, <1>7, <1>8, <1>9 DEF Heap
<1>11. Spares(h, k)
  BY <1>3, <1>8 DEF Spares
<1>12. Marking(k, r)
  BY <1>3, <1>8, <1>9 DEF Marking, isblack
<1>13. ToSet(k.tobefnz) \cap Dead(k) \subseteq ToSet(h.tobefnz)
  <2>1. Dead(h) \subseteq ToSet(h.allgc)
    BY <1>7 DEF Heap
  <2>2. ToSet(h.allgc) \cap ToSet(h.finobj) = {}
    BY <1>1 DEF Separated
  <2>. QED  BY <2>1, <2>2, <1>5, <1>8
<1>. QED  BY <1>3, <1>10, <1>11, <1>12, <1>13

\* Marking leaves the lists alone and makes nothing white.
LEMMA MarksKeeps ==
  ASSUME NEW h, NEW k, Marks(h, k), Separated(h)
  PROVE  Separated(k) /\ \A o \in Objects : h.color[o] \notin White => k.color[o] \notin White
<1>1. {x \in Objects \ {MainThread} : k.color[x] # "free"}
        = {x \in Objects \ {MainThread} : h.color[x] # "free"}
  BY DEF Marks
<1>2. k.allgc = h.allgc /\ k.finobj = h.finobj /\ k.tobefnz = h.tobefnz
  BY DEF Marks
<1>3. Separated(k)
  BY <1>1, <1>2 DEF Separated
<1>. QED  BY <1>3 DEF Marks

\* Where colors and lists are the same nothing was marked.
LEMMA MarksItself ==
  ASSUME NEW h \in GlobalState, NEW k \in GlobalState,
         k.currentwhite = h.currentwhite, k.sweepgc = h.sweepgc, k.color = h.color,
         k.allgc = h.allgc, k.finobj = h.finobj, k.tobefnz = h.tobefnz,
         k.full = h.full, k.emergency = h.emergency
  PROVE  Marks(h, k)
BY DEF Marks

\* At the end of the mark phase what the program holds is marked.
LEMMA MarkedAll ==
  ASSUME NEW h, Heap(h), h.gcstate = "atomic", Holds, Marking(h, ref),
         NEW m, m = Marked(h)
  PROVE  /\ m \in GlobalState /\ Marks(h, m) /\ m.gcstate = "insideatomic"
         /\ \A x \in Nodes : m.color[x] # "free"
         /\ m.color[MainThread] \notin White
         /\ \A v \in {Registry} \cup stack \cup ref[Registry] : m.color[v] \notin White
         /\ \A u \in Udata \ Held : m.color[u] = h.color[u]
<1>1. /\ Nodes \subseteq Objects /\ Tables \subseteq Nodes /\ MainThread \in Nodes
      /\ Registry \in Nodes /\ Registry \in Tables /\ MainThread # Registry
      /\ stack \subseteq Objects /\ ref[Registry] \subseteq Objects
  BY Distinct DEF Nodes, Tables, Holds, Objects
<1>2. keepinvariant(h)
  BY DEF keepinvariant
<1>3. /\ h \in GlobalState /\ Linked(h) /\ ~iswhite(h, Registry)
      /\ h.color[MainThread] = "gray"
      /\ \A x \in Nodes : h.color[x] # "free"
  BY <1>2 DEF Heap
<1>4. "gray" \notin White /\ "gray" \in Color /\ Color = White \cup {"gray", "black", "free"}
  BY DEF White, Color
<1> DEFINE p == propagateall(h)
           i == [p EXCEPT !.gcstate = "insideatomic"]
           r == reallymarkobject(i, {MainThread, Registry})
           q == propagateall(r)
           j == [q EXCEPT !.gray = p.grayagain]
<1>5. m = propagateall(j)
  BY DEF Marked
<1>6. p = propagateall(h) /\ r = reallymarkobject(i, {MainThread, Registry}) /\ q = propagateall(r)
  OBVIOUS
<1>7. i = [p EXCEPT !.gcstate = "insideatomic"] /\ j = [q EXCEPT !.gray = p.grayagain]
  OBVIOUS
<1>. HIDE DEF p, i, r, q, j
<1>8. /\ p \in GlobalState /\ Marks(h, p)
      /\ \A x \in Nodes : p.color[x] # "free"
      /\ h.grayagain \subseteq p.grayagain
      /\ MainThread \in h.gray => MainThread \in p.grayagain
      /\ Registry \in h.gray => \A v \in ref[Registry] : p.color[v] \notin White
  BY <1>3, <1>6, PropagatesAll
<1>9. /\ i \in GlobalState /\ i.gcstate = "insideatomic"
      /\ i.currentwhite = p.currentwhite /\ i.sweepgc = p.sweepgc /\ i.color = p.color
      /\ i.allgc = p.allgc /\ i.finobj = p.finobj /\ i.tobefnz = p.tobefnz
      /\ i.full = p.full /\ i.emergency = p.emergency
      /\ i.grayagain = p.grayagain
  BY <1>7, <1>8 DEF GlobalState, GCState
<1>10. Marks(p, i)
  BY <1>8, <1>9, MarksItself
<1>11. {MainThread, Registry} \in SUBSET Objects
  BY <1>1
<1>12. Marks(i, r) /\ r.gcstate = i.gcstate /\ \A o \in {MainThread, Registry} : r.color[o] \notin White
  BY <1>6, <1>9, <1>11, ReallyMarks
<1>13. r \in GlobalState /\ \A x \in Nodes : r.color[x] # "free"
  BY <1>1, <1>8, <1>9, <1>12 DEF Marks
<1>14. q \in GlobalState /\ Marks(r, q) /\ q.gcstate = r.gcstate /\ \A x \in Nodes : q.color[x] # "free"
  BY <1>6, <1>13, PropagatesAll
<1>15. p.grayagain \in SUBSET Nodes
  BY <1>8 DEF GlobalState
<1>16. /\ j \in GlobalState /\ j.gcstate = q.gcstate
       /\ j.currentwhite = q.currentwhite /\ j.sweepgc = q.sweepgc /\ j.color = q.color
       /\ j.allgc = q.allgc /\ j.finobj = q.finobj /\ j.tobefnz = q.tobefnz
       /\ j.full = q.full /\ j.emergency = q.emergency
       /\ j.gray = p.grayagain
  BY <1>7, <1>14, <1>15 DEF GlobalState
<1>17. Marks(q, j)
  BY <1>14, <1>16, MarksItself
<1>18. /\ m \in GlobalState /\ Marks(j, m) /\ m.gcstate = j.gcstate
       /\ \A x \in Nodes : m.color[x] # "free"
       /\ MainThread \in j.gray => \A v \in stack : m.color[v] \notin White
       /\ Registry \in j.gray => \A v \in ref[Registry] : m.color[v] \notin White
  <2>1. \A x \in Nodes : j.color[x] # "free"
    BY <1>14, <1>16
  <2>. QED  BY <2>1, <1>5, <1>16, PropagatesAll
<1>19. Marks(h, i)
  BY <1>8, <1>10, MarksMore
<1>20. Marks(r, m)
  <2>1. Marks(r, j)
    BY <1>14, <1>17, MarksMore
  <2>. QED  BY <2>1, <1>18, MarksMore
<1>21. Marks(p, m)
  <2>1. Marks(p, r)
    BY <1>10, <1>12, MarksMore
  <2>. QED  BY <2>1, <1>20, MarksMore
<1>22. Marks(h, m)
  BY <1>8, <1>21, MarksMore
<1>23. m.color[MainThread] \notin White /\ m.color[Registry] \notin White
  BY <1>1, <1>12, <1>20 DEF Marks
<1>24. \A v \in stack : m.color[v] \notin White
  <2>1. MainThread \in h.gray \cup h.grayagain
    BY <1>1, <1>3 DEF Linked
  <2>. QED  BY <2>1, <1>8, <1>16, <1>18
<1>25. \A v \in ref[Registry] : m.color[v] \notin White
  <2>1. CASE Registry \in h.gray
    BY <2>1, <1>1, <1>8, <1>21 DEF Marks
  <2>2. CASE Registry \in h.grayagain
    BY <2>2, <1>8, <1>16, <1>18
  <2>3. CASE Registry \notin h.gray \cup h.grayagain
    <3>1. h.color[Registry] = "black"
      <4>1. h.color[Registry] \in Color
        BY <1>1, <1>3 DEF GlobalState
      <4>2. h.color[Registry] \notin White /\ h.color[Registry] # "gray" /\ h.color[Registry] # "free"
        BY <2>3, <1>1, <1>3 DEF Linked, iswhite
      <4>. QED  BY <4>1, <4>2, <1>4
    <3>2. \A v \in ref[Registry] : h.color[v] \notin White
      BY <3>1, <1>1, <1>2 DEF Marking, isblack, iswhite
    <3>. QED  BY <3>2, <1>1, <1>22 DEF Marks
  <2>. QED  BY <2>1, <2>2, <2>3
<1>26. m.gcstate = "insideatomic"
  BY <1>9, <1>12, <1>14, <1>16, <1>18
<1>27. \A u \in Udata \ Held : m.color[u] = h.color[u]
  <2>1. \A u \in Udata \ Held : p.color[u] = h.color[u]
    BY <1>3, <1>6, PropagatesAllOnly
  <2>2. \A u \in Udata \ Held : r.color[u] = i.color[u]
    <3>1. \A u \in Udata \ {MainThread, Registry} : r.color[u] = i.color[u]
      BY <1>6, <1>9, ReallyMarksOnly
    <3>. QED  BY <3>1, Distinct
  <2>3. \A u \in Udata \ Held : q.color[u] = r.color[u]
    BY <1>6, <1>13, PropagatesAllOnly
  <2>4. \A u \in Udata \ Held : m.color[u] = j.color[u]
    <3>1. \A x \in Nodes : j.color[x] # "free"
      BY <1>14, <1>16
    <3>. QED  BY <3>1, <1>5, <1>16, PropagatesAllOnly
  <2>. QED  BY <2>1, <2>2, <2>3, <2>4, <1>9, <1>16
<1>. QED  BY <1>18, <1>22, <1>23, <1>24, <1>25, <1>26, <1>27

\* tobefnz when those of finobj that go come after what it has.
Queued(h, go) == h.tobefnz \o Kept(h.finobj, go)

\* What the atomic step, whose mark phase ends with m, has made of h.
AfterAtomic(h, m, k) ==
  /\ k \in GlobalState /\ Separated(k)
  /\ \A x \in Udata : k.color[x] # "gray"
  /\ \A x \in Nodes : k.color[x] # "free" /\ x \notin Dead(k)
  /\ k.color[MainThread] = "gray" /\ Dead(k) \subseteq ToSet(k.allgc)
  /\ \A v \in stack \cup ref[Registry] : m.color[v] \notin White
  /\ \A x \in Objects : m.color[x] \notin White => k.color[x] \notin White
  /\ \A x \in Objects : k.color[x] = "free" <=> h.color[x] = "free"
  /\ \A x \in Objects : k.color[x] \notin White => x \notin Dead(k)
  /\ \A x \in ToSet(k.tobefnz) : x \in Objects /\ k.color[x] \notin White /\ k.color[x] # "free"
  /\ k.finobj = Kept(h.finobj, Objects \ Whites(m))
  /\ k.tobefnz = Queued(h, Whites(m))
  /\ \A u \in Udata \ (Held \cup ToSet(k.tobefnz)) :
       iswhite(h, u) => u \in Dead(k)

\* What the atomic phase leaves to the sweep: m is what it has marked before it
\* separates the userdata to finalize.
LEMMA Atomic ==
  ASSUME NEW h, Heap(h), h.gcstate = "atomic", Holds, Marking(h, ref),
         NEW m, m = Marked(h), NEW k, k = atomic(h)
  PROVE  AfterAtomic(h, m, k)
<1>1. /\ Nodes \subseteq Objects /\ Udata \subseteq Objects /\ Tables \subseteq Nodes
      /\ MainThread \in Nodes /\ Registry \in Nodes /\ WeakTable \in Tables
      /\ Nodes = {Registry, Metatable, WeakTable, MainThread}
      /\ stack \subseteq Objects /\ ref[Registry] \subseteq Objects /\ ref[WeakTable] \subseteq Objects
      /\ {Metatable, WeakTable} \subseteq ref[Registry]
  BY Distinct DEF Nodes, Tables, Holds, Objects
<1>2. keepinvariant(h) /\ Unswept(h) = {}
  BY DEF keepinvariant, Unswept
<1>3. /\ h \in GlobalState /\ Separated(h) /\ Dead(h) = {}
      /\ h.color[MainThread] = "gray"
      /\ \A x \in Udata : h.color[x] # "gray"
      /\ \A x \in Nodes : h.color[x] # "free"
  BY <1>2 DEF Heap
<1>4. h.currentwhite \in White
  BY <1>3 DEF GlobalState
<1>5. /\ other(h.currentwhite) \in White /\ other(other(h.currentwhite)) = h.currentwhite
      /\ White = {h.currentwhite, other(h.currentwhite)}
      /\ Color = White \cup {"gray", "black", "free"}
      /\ other(h.currentwhite) # "free" /\ h.currentwhite # "free"
  BY <1>4, Whitenesses DEF Color
<1> DEFINE s == separatetobefnz(m, FALSE)
           T == ToSet(s.tobefnz)
           n == reallymarkobject(s, T)
           b == propagateall(n)
           a == [b EXCEPT !.currentwhite = other(@)]
<1>6. atomic(h) = a
  BY DEF atomic
<1>7. /\ s = Sent(m, Whites(m)) /\ T = ToSet(s.tobefnz)
      /\ n = reallymarkobject(s, T) /\ b = propagateall(n)
  BY SentAre
<1>8. a = [b EXCEPT !.currentwhite = other(b.currentwhite)]
  OBVIOUS
<1>. HIDE DEF s, T, n, b, a
<1>10. /\ m \in GlobalState /\ Marks(h, m)
       /\ \A x \in Nodes : m.color[x] # "free"
       /\ m.color[MainThread] \notin White
       /\ \A v \in {Registry} \cup stack \cup ref[Registry] : m.color[v] \notin White
       /\ \A u \in Udata \ Held : m.color[u] = h.color[u]
  BY MarkedAll
<1>11. Separated(m)
  BY <1>3, <1>10, MarksKeeps
<1>12. /\ s \in GlobalState /\ Separated(s)
       /\ s.currentwhite = m.currentwhite /\ s.color = m.color /\ s.allgc = m.allgc
       /\ ToSet(s.finobj) = ToSet(m.finobj) \ Whites(m)
  BY <1>7, <1>10, <1>11, Separates
<1>13. T \in SUBSET Objects
  BY <1>7, <1>12 DEF Separated
<1>14. Marks(s, n) /\ \A o \in T : n.color[o] \notin White
  BY <1>7, <1>12, <1>13, ReallyMarks
<1>15. n \in GlobalState /\ \A x \in Nodes : n.color[x] # "free"
  BY <1>1, <1>10, <1>12, <1>14 DEF Marks
<1>16. b \in GlobalState /\ Marks(n, b)
  BY <1>7, <1>15, PropagatesAll
<1>17. Marks(s, b) /\ Separated(b)
  <2>1. Marks(s, b)
    BY <1>14, <1>16, MarksMore
  <2>. QED  BY <2>1, <1>12, MarksKeeps
<1>18. /\ b.currentwhite = h.currentwhite /\ b.allgc = s.allgc /\ b.finobj = s.finobj
       /\ b.tobefnz = s.tobefnz
  BY <1>10, <1>12, <1>17 DEF Marks
<1>19. /\ a \in GlobalState /\ a.currentwhite = other(h.currentwhite) /\ a.color = b.color
       /\ a.allgc = b.allgc /\ a.finobj = b.finobj /\ a.tobefnz = b.tobefnz
  BY <1>5, <1>8, <1>16, <1>18 DEF GlobalState
<1>20. Separated(a)
  BY <1>17, <1>19 DEF Separated
<1>21. \A x \in Objects : m.color[x] \notin White => a.color[x] \notin White
  BY <1>12, <1>17, <1>19 DEF Marks
<1>22. \A x \in Objects : a.color[x] = "free" <=> h.color[x] = "free"
  BY <1>10, <1>12, <1>17, <1>19 DEF Marks
<1>23. \A x \in Objects : x \in Dead(a) <=> a.color[x] = h.currentwhite
  BY <1>5, <1>19 DEF Dead
<1>24. \A x \in Objects : a.color[x] \notin White => x \notin Dead(a)
  BY <1>4, <1>23
<1>25. \A x \in Nodes : a.color[x] \notin White /\ a.color[x] # "free"
  BY <1>1, <1>3, <1>10, <1>21, <1>22
<1>26. a.color[MainThread] = "gray"
  <2>1. a.color[MainThread] # "black"
    <3>1. Marks(h, m) /\ s.color = m.color /\ Marks(s, b) /\ a.color = b.color
      BY <1>10, <1>12, <1>17, <1>19
    <3>2. h.color[MainThread] # "black"
      BY <1>3
    <3>. QED  BY <3>1, <3>2 DEF Marks
  <2>2. a.color[MainThread] \in Color
    BY <1>1, <1>19 DEF GlobalState
  <2>. QED  BY <2>1, <2>2, <1>1, <1>5, <1>25
<1>27. \A x \in Udata : a.color[x] # "gray"
  BY <1>3, <1>10, <1>12, <1>17, <1>19 DEF Marks
<1>28. \A x \in ToSet(a.tobefnz) : x \in Objects /\ a.color[x] \notin White /\ a.color[x] # "free"
  <2>1. ToSet(a.tobefnz) = T
    BY <1>7, <1>18, <1>19
  <2>2. \A x \in T : a.color[x] \notin White
    BY <1>13, <1>14, <1>16, <1>19 DEF Marks
  <2>3. \A x \in ToSet(a.tobefnz) : a.color[x] # "free"
    BY <1>20 DEF Separated
  <2>. QED  BY <2>1, <2>2, <2>3, <1>13
<1>29. \A x \in ToSet(a.finobj) : x \in Objects /\ a.color[x] \notin White
  <2>1. ToSet(a.finobj) = ToSet(m.finobj) \ Whites(m)
    BY <1>12, <1>18, <1>19
  <2>2. ToSet(a.finobj) \subseteq Objects
    BY <1>20 DEF Separated
  <2>. QED  BY <2>1, <2>2, <1>21 DEF Whites, iswhite
<1>30. Dead(a) \subseteq ToSet(a.allgc)
  <2>1. ASSUME NEW x \in Dead(a)
        PROVE  x \in ToSet(a.allgc)
    <3>1. x \in Objects /\ a.color[x] = h.currentwhite
      BY <1>23 DEF Dead
    <3>2. x # MainThread /\ a.color[x] # "free" /\ a.color[x] \in White
      BY <3>1, <1>4, <1>5, <1>26, Whitenesses
    <3>3. x \in ToSet(a.allgc) \cup ToSet(a.finobj) \cup ToSet(a.tobefnz)
      BY <3>1, <3>2, <1>20 DEF Separated
    <3>. QED  BY <3>2, <3>3, <1>28, <1>29
  <2>. QED  BY <2>1
<1>31. /\ a.finobj = Kept(h.finobj, Objects \ Whites(m))
       /\ a.tobefnz = Queued(h, Whites(m))
  <2>1. m.finobj = h.finobj /\ m.tobefnz = h.tobefnz
    BY <1>10 DEF Marks
  <2>2. /\ s.finobj = Kept(m.finobj, Objects \ Whites(m))
        /\ s.tobefnz = m.tobefnz \o Kept(m.finobj, Whites(m))
    BY <1>7, <1>10 DEF Sent, GlobalState
  <2>. QED  BY <2>1, <2>2, <1>18, <1>19 DEF Queued
<1>32. ASSUME NEW u \in Udata \ (Held \cup ToSet(a.tobefnz)), iswhite(h, u)
       PROVE  u \in Dead(a)
  <2>1. u \in Objects /\ u \notin T
    BY <1>1, <1>7, <1>18, <1>19
  <2>2. n.color[u] = s.color[u]
    BY <2>1, <1>7, <1>12, ReallyMarksOnly
  <2>3. b.color[u] = n.color[u]
    BY <1>7, <1>15, PropagatesAllOnly
  <2>4. a.color[u] = h.color[u]
    BY <2>2, <2>3, <1>10, <1>12, <1>19
  <2>5. h.color[u] # other(h.currentwhite) /\ h.color[u] \in White
    BY <2>1, <1>3, <1>32 DEF Dead, iswhite
  <2>. QED  BY <2>1, <2>4, <2>5, <1>5, <1>23
<1>33. \A x \in Nodes : x \notin Dead(a)
  BY <1>1, <1>24, <1>25
<1>. HIDE DEF Dead, Kept
<1>34. \A v \in stack \cup ref[Registry] : m.color[v] \notin White
  BY <1>10
<1>35. AfterAtomic(h, m, a)
  BY <1>34, <1>10, <1>19, <1>20, <1>21, <1>22, <1>24, <1>25, <1>26, <1>27, <1>28, <1>30,
              <1>31, <1>32, <1>33 DEF AfterAtomic
<1>. QED  BY <1>6, <1>35

\* After the atomic phase nothing dies that the program holds or that waits for
\* its finalizer.
LEMMA HeapAtomic ==
  ASSUME NEW h, Heap(h), h.gcstate = "atomic", Holds, Marking(h, ref),
         NEW k, k = entersweep(atomic(h))
  PROVE  /\ Heap(k) /\ ~keepinvariant(k)
         /\ \A o \in stack \cup ref[Registry] \cup (ref[WeakTable] \ cleared(h)) :
              h.color[o] # "free" => o \notin Dead(k) /\ k.color[o] # "free"
         /\ \A o \in ToSet(k.tobefnz) : o \notin Dead(k) /\ k.color[o] # "free"
<1> DEFINE m == Marked(h)
           a == atomic(h)
<1>1. k = entersweep(a) /\ m = Marked(h) /\ a = atomic(h)
  OBVIOUS
<1>2. cleared(h) = {v \in ref[WeakTable] : iswhite(m, v)}
  BY DEF cleared
<1>. HIDE DEF m, a
<1>3. /\ a \in GlobalState /\ Separated(a)
      /\ \A x \in Udata : a.color[x] # "gray"
      /\ \A x \in Nodes : a.color[x] # "free" /\ x \notin Dead(a)
      /\ a.color[MainThread] = "gray" /\ Dead(a) \subseteq ToSet(a.allgc)
      /\ \A v \in stack \cup ref[Registry] : m.color[v] \notin White
      /\ \A x \in Objects : m.color[x] \notin White => a.color[x] \notin White
      /\ \A x \in Objects : a.color[x] = "free" <=> h.color[x] = "free"
      /\ \A x \in Objects : a.color[x] \notin White => x \notin Dead(a)
      /\ \A x \in ToSet(a.tobefnz) : x \in Objects /\ a.color[x] \notin White /\ a.color[x] # "free"
  <2>1. AfterAtomic(h, m, a)
    BY <1>1, Atomic
  <2>. QED  BY <2>1 DEF AfterAtomic
<1>4. /\ Heap(k) /\ Spares(a, k) /\ ToSet(k.tobefnz) \subseteq ToSet(a.tobefnz)
      /\ ~keepinvariant(k)
  BY <1>1, <1>3, HeapEnters
<1>5. ASSUME NEW o \in stack \cup ref[Registry] \cup (ref[WeakTable] \ cleared(h)),
             h.color[o] # "free"
      PROVE  o \notin Dead(k) /\ k.color[o] # "free"
  <2>1. o \in Objects
    BY DEF Holds, Objects, Tables
  <2>2. m.color[o] \notin White
    BY <1>2, <1>3 DEF iswhite
  <2>3. a.color[o] \notin White /\ a.color[o] # "free"
    BY <2>1, <2>2, <1>3, <1>5
  <2>. QED  BY <2>1, <2>3, <1>3, <1>4 DEF Spares
<1>6. \A o \in ToSet(k.tobefnz) : o \notin Dead(k) /\ k.color[o] # "free"
  BY <1>3, <1>4 DEF Spares
<1>. QED  BY <1>4, <1>5, <1>6

-----------------------------------------------------------------------------
(* The inductive invariant, action by action *)

\* Objects that are neither freed nor about to be.
Lives(h, U) == \A o \in U : o \in Objects /\ o \notin Dead(h) /\ h.color[o] # "free"

\* What the program can come by, and what awaits its finalizer.
Used == stack \cup ref[Registry] \cup ref[WeakTable] \cup ToSet(g.tobefnz)

\* What holds until lua_close is over.
Sound ==
  /\ Holds /\ Heap(g) /\ Marking(g, ref)
  /\ Lives(g, Used)
  /\ \A o \in meta : g.color[o] # "free"

IInv ==
  /\ stage \in {"running", "closing", "closed"}
  /\ meta \subseteq Udata /\ garbage \subseteq Udata /\ leftover \subseteq Udata
  /\ stage # "closed" => Sound
  /\ stage = "closed" => g \in GlobalState /\ Separated(g) /\ stack = {}

\* What lives is spared.
LEMMA LivesOn ==
  ASSUME NEW h, NEW k, Spares(h, k), NEW U, NEW V, V \subseteq U, Lives(h, U)
  PROVE  Lives(k, V)
BY DEF Lives, Spares

\* A new userdata, in any state of the collector.
LEMMA NewobjSound ==
  ASSUME IInv, luaC_newobj
  PROVE  IInv'
<1>1. /\ stage \in {"running", "closing"} /\ Sound
      /\ UNCHANGED <<ref, meta, stage, garbage, leftover>>
  BY DEF IInv, luaC_newobj, Runs
<1>2. PICK o \in Udata :
        /\ g.color[o] = "free"
        /\ g' = [makewhite(g, o) EXCEPT !.allgc = <<o>> \o @]
        /\ stack' = stack \cup {o}
  BY DEF luaC_newobj
<1>3. Holds /\ Heap(g) /\ Marking(g, ref) /\ Lives(g, Used) /\ \A x \in meta : g.color[x] # "free"
  BY <1>1 DEF Sound
<1>4. /\ Heap(g') /\ Spares(g, g') /\ o \notin Dead(g') /\ g'.color[o] = g.currentwhite
      /\ g'.gcstate = g.gcstate /\ g'.tobefnz = g.tobefnz
      /\ \A x \in Objects : x # o => g'.color[x] = g.color[x]
  <2>1. g' = Created(g, o)
    BY <1>2 DEF Created
  <2>2. o \in Udata /\ g.color[o] = "free" /\ Heap(g)
    BY <1>2, <1>3
  <2>. QED  BY <2>1, <2>2, HeapCreates
<1>5. g.currentwhite \in White
  BY <1>3 DEF Heap, GlobalState
<1>6. /\ o \in Objects /\ o \notin Tables /\ Tables \subseteq Objects /\ g'.color[o] # "free"
      /\ Udata \subseteq Objects
  <2>1. g.currentwhite # "free"
    BY <1>5, Whitenesses
  <2>2. o \notin Tables
    BY Distinct DEF Tables
  <2>. QED  BY <2>1, <2>2, <1>4 DEF Objects
<1>7. Holds'
  BY <1>1, <1>2, <1>3 DEF Holds
<1>8. Marking(g', ref')
  <2>1. ASSUME keepinvariant(g'), NEW t \in Tables, isblack(g', t), NEW v \in ref[t]
        PROVE  ~iswhite(g', v)
    <3>1. keepinvariant(g) /\ isblack(g, t)
      BY <2>1, <1>4, <1>6 DEF keepinvariant, isblack
    <3>2. ~iswhite(g, v)
      BY <3>1, <2>1, <1>3 DEF Marking
    <3>3. v \in Objects /\ g.color[v] # "free"
      BY <2>1, <1>3, Distinct DEF Holds, Lives, Used, Tables
    <3>. QED  BY <3>2, <3>3, <1>2, <1>4 DEF iswhite
  <2>. QED  BY <2>1, <1>1 DEF Marking
<1>9. Lives(g', Used')
  <2>1. Lives(g', Used)
    BY <1>3, <1>4, LivesOn
  <2>2. Used' = Used \cup {o}
    BY <1>1, <1>2, <1>4 DEF Used
  <2>. QED  BY <2>1, <2>2, <1>4, <1>6 DEF Lives
<1>10. \A x \in meta' : g'.color[x] # "free"
  BY <1>1, <1>3, <1>4, <1>6 DEF IInv
<1>11. Sound'
  BY <1>4, <1>7, <1>8, <1>9, <1>10 DEF Sound
<1>. QED  BY <1>1, <1>11 DEF IInv

\* A userdata gets its finalizer, in any state of the collector.
LEMMA SetmetatableSound ==
  ASSUME IInv, lua_setmetatable
  PROVE  IInv'
<1>1. /\ stage \in {"running", "closing"} /\ Sound
      /\ UNCHANGED <<ref, stack, stage, garbage, leftover>>
  BY DEF IInv, lua_setmetatable, Runs
<1>2. PICK o \in stack :
        LET h == luaC_checkfinalizer(luaC_barrier(g, o, Metatable), o)
        IN  /\ g' = h
            /\ meta' = {u \in meta \cup {o} : h.color[u] # "free"}
  BY DEF lua_setmetatable
<1> DEFINE b == luaC_barrier(g, o, Metatable)
<1>3. Holds /\ Heap(g) /\ Marking(g, ref) /\ Lives(g, Used)
  BY <1>1 DEF Sound
<1>4. /\ g' = luaC_checkfinalizer(b, o)
      /\ meta' = {u \in meta \cup {o} : g'.color[u] # "free"}
      /\ b = luaC_barrier(g, o, Metatable)
  BY <1>2
<1>. HIDE DEF b
<1>5. o \in Udata /\ o \notin Dead(g) /\ g.color[o] # "free" /\ Metatable \in Objects /\ o \in Objects
  BY <1>3 DEF Holds, Lives, Used, Objects, Tables
<1>6. /\ Heap(b) /\ Spares(g, b) /\ b.gcstate = g.gcstate /\ b.tobefnz = g.tobefnz
      /\ keepinvariant(g) => /\ \A x \in Objects : ~iswhite(g, x) => ~iswhite(b, x)
                             /\ \A t \in Tables : isblack(b, t) => isblack(g, t)
  BY <1>3, <1>4, <1>5, HeapBarrier
<1>7. o \notin Dead(b) /\ b.color[o] # "free"
  BY <1>5, <1>6 DEF Spares
<1>8. /\ Heap(g') /\ Spares(b, g') /\ g'.gcstate = b.gcstate
      /\ ToSet(g'.tobefnz) \subseteq ToSet(b.tobefnz)
      /\ ~issweepphase(b) => g'.color = b.color
  BY <1>4, <1>5, <1>6, <1>7, HeapMarksFinalizer
<1>9. Marking(g', ref')
  <2>1. ASSUME keepinvariant(g'), NEW t \in Tables, isblack(g', t), NEW v \in ref[t]
        PROVE  ~iswhite(g', v)
    <3>1. keepinvariant(g) /\ ~issweepphase(b)
      BY <2>1, <1>6, <1>8 DEF keepinvariant, issweepphase
    <3>2. isblack(g, t)
      BY <2>1, <3>1, <1>6, <1>8 DEF isblack
    <3>3. v \in Objects
      BY <2>1, <1>3 DEF Holds
    <3>4. ~iswhite(g, v)
      BY <2>1, <3>1, <3>2, <1>3 DEF Marking
    <3>. QED  BY <3>1, <3>3, <3>4, <1>6, <1>8 DEF iswhite
  <2>. QED  BY <2>1, <1>1 DEF Marking
<1>10. Lives(g', Used')
  <2>1. Spares(g, g')
    BY <1>6, <1>8 DEF Spares
  <2>2. Used' \subseteq Used
    BY <1>1, <1>6, <1>8 DEF Used
  <2>. QED  BY <2>1, <2>2, <1>3, LivesOn
<1>11. Holds'
  BY <1>1, <1>3 DEF Holds
<1>12. meta' \subseteq Udata /\ \A x \in meta' : g'.color[x] # "free"
  BY <1>4, <1>5 DEF IInv
<1>13. Sound'
  BY <1>8, <1>9, <1>10, <1>11, <1>12 DEF Sound
<1>. QED  BY <1>1, <1>12, <1>13 DEF IInv

\* The registry, or the weak table, is made to refer to a userdata.
LEMMA RawsetSound ==
  ASSUME IInv, lua_rawset
  PROVE  IInv'
<1>1. /\ stage \in {"running", "closing"} /\ Sound
      /\ UNCHANGED <<meta, stack, stage, garbage, leftover>>
  BY DEF IInv, lua_rawset, Runs
<1>2. PICK t \in {Registry, WeakTable}, v \in stack :
        /\ ref' = [ref EXCEPT ![t] = @ \cup {v}]
        /\ g' = luaC_barrierback(g, t, v)
  BY DEF lua_rawset
<1>3. Holds /\ Heap(g) /\ Marking(g, ref) /\ Lives(g, Used) /\ \A x \in meta : g.color[x] # "free"
  BY <1>1 DEF Sound
<1>4. /\ t \in Tables /\ v \in Udata /\ v \in Objects /\ t \notin Udata /\ v # t
      /\ Tables \subseteq Objects /\ Udata \subseteq Objects
  BY <1>3, Distinct DEF Holds, Tables, Objects
<1>5. /\ Heap(g') /\ Spares(g, g') /\ g'.gcstate = g.gcstate
      /\ g'.tobefnz = g.tobefnz
      /\ \A x \in Objects : x # t => g'.color[x] = g.color[x]
      /\ g'.color[t] \in {g.color[t], "gray"}
      /\ isblack(g', t) => ~iswhite(g, v)
  BY <1>2, <1>3, <1>4, HeapBarrierBack
<1>6. "gray" \notin White
  BY DEF White
<1>7. /\ ref \in [Tables -> SUBSET Objects] /\ ref'[t] = ref[t] \cup {v}
      /\ \A x \in Tables : x # t => ref'[x] = ref[x]
      /\ ref' \in [Tables -> SUBSET Objects]
  BY <1>2, <1>3, <1>4 DEF Holds
<1>8. Holds'
  <2>1. Registry \in Tables /\ Metatable \in Tables /\ WeakTable \in Tables /\ t # Metatable
    BY Distinct DEF Tables
  <2>2. CASE t = Registry
    BY <2>1, <2>2, <1>1, <1>3, <1>4, <1>7, Distinct DEF Holds
  <2>3. CASE t = WeakTable
    BY <2>1, <2>3, <1>1, <1>3, <1>4, <1>7, Distinct DEF Holds
  <2>. QED  BY <2>2, <2>3
<1>9. Marking(g', ref')
  <2>1. ASSUME keepinvariant(g'), NEW x \in Tables, isblack(g', x), NEW u \in ref'[x]
        PROVE  ~iswhite(g', u)
    <3>1. keepinvariant(g)
      BY <2>1, <1>5 DEF keepinvariant
    <3>2. isblack(g, x) /\ u \in Objects
      BY <2>1, <1>4, <1>5, <1>7 DEF isblack
    <3>3. ~iswhite(g, u)
      <4>1. CASE u \in ref[x]
        BY <4>1, <3>1, <3>2, <1>3 DEF Marking
      <4>2. CASE u \notin ref[x]
        <5>1. x = t /\ u = v
          BY <4>2, <2>1, <1>7
        <5>. QED  BY <5>1, <2>1, <1>5
      <4>. QED  BY <4>1, <4>2
    <3>. QED  BY <3>2, <3>3, <1>5, <1>6 DEF iswhite
  <2>. QED  BY <2>1 DEF Marking
<1>10. Lives(g', Used')
  <2>1. ref'[Registry] \subseteq ref[Registry] \cup stack /\ ref'[WeakTable] \subseteq ref[WeakTable] \cup stack
    BY <1>7 DEF Tables
  <2>2. Used' \subseteq Used
    BY <2>1, <1>1, <1>5 DEF Used
  <2>. QED  BY <2>2, <1>3, <1>5, LivesOn
<1>11. \A x \in meta' : g'.color[x] # "free"
  BY <1>1, <1>3, <1>4, <1>5 DEF IInv
<1>12. Sound'
  BY <1>5, <1>8, <1>9, <1>10, <1>11 DEF Sound
<1>. QED  BY <1>1, <1>12 DEF IInv

\* References are dropped, or a userdata comes back to the stack from a table.
LEMMA StackSound ==
  ASSUME IInv, erase \/ lua_rawget \/ lua_pop
  PROVE  IInv'
<1>1. /\ stage \in {"running", "closing"} /\ Sound
      /\ UNCHANGED <<g, meta, stage, garbage, leftover>>
  BY DEF IInv, erase, lua_rawget, lua_pop, Runs
<1>2. Holds /\ Heap(g) /\ Marking(g, ref) /\ Lives(g, Used) /\ \A x \in meta : g.color[x] # "free"
  BY <1>1 DEF Sound
<1>3. Registry \in Tables /\ Metatable \in Tables /\ WeakTable \in Tables /\ ref \in [Tables -> SUBSET Objects]
  BY <1>2 DEF Tables, Holds
<1>4. /\ ref' \in [Tables -> SUBSET Objects]
      /\ \A t \in Tables : ref'[t] \subseteq ref[t]
      /\ \A t \in Tables : ref[t] \ Udata \subseteq ref'[t]
      /\ stack' \subseteq stack \cup ref[Registry] \cup ref[WeakTable]
      /\ stack' \subseteq Udata
  <2>1. CASE erase
    <3>1. PICK t \in {Registry, WeakTable} : \E v \in ref[t] \cap Udata : ref' = [ref EXCEPT ![t] = @ \ {v}]
      BY <2>1 DEF erase
    <3>2. PICK v \in ref[t] \cap Udata : ref' = [ref EXCEPT ![t] = @ \ {v}]
      BY <3>1
    <3>3. stack' = stack
      BY <2>1 DEF erase
    <3>. QED  BY <3>2, <3>3, <1>2, <1>3 DEF Holds
  <2>2. CASE lua_rawget
    <3>1. PICK t \in {Registry, WeakTable} : \E v \in (ref[t] \cap Udata) \ stack : stack' = stack \cup {v}
      BY <2>2 DEF lua_rawget
    <3>2. ref' = ref
      BY <2>2 DEF lua_rawget
    <3>. QED  BY <3>1, <3>2, <1>2, <1>3 DEF Holds
  <2>3. CASE lua_pop
    <3>1. stack' \subseteq stack /\ ref' = ref
      BY <2>3 DEF lua_pop
    <3>. QED  BY <3>1, <1>2, <1>3 DEF Holds
  <2>. QED  BY <2>1, <2>2, <2>3
<1>5. Holds'
  BY <1>2, <1>3, <1>4, Distinct DEF Holds
<1>6. Marking(g', ref')
  BY <1>1, <1>2, <1>4 DEF Marking
<1>7. Used' \subseteq Used
  BY <1>1, <1>3, <1>4 DEF Used
<1>8. Lives(g', Used')
  BY <1>1, <1>2, <1>7 DEF Lives
<1>9. Sound'
  BY <1>1, <1>2, <1>5, <1>6, <1>8 DEF Sound
<1>. QED  BY <1>1, <1>9 DEF IInv

\* udata2finalize frees nothing.
LEMMA FinalizesNone ==
  ASSUME NEW h \in GlobalState, h.tobefnz # <<>>, NEW k, k = udata2finalize(h)
  PROVE  \A x \in Objects : h.color[x] # "free" => k.color[x] # "free"
<1> DEFINE o == Head(h.tobefnz)
           b == [h EXCEPT !.tobefnz = Tail(@), !.allgc = <<o>> \o @]
<1>1. h.color \in [Objects -> Color] /\ h.currentwhite # "free"
  BY Whitenesses DEF GlobalState
<1>2. b.color = h.color /\ b.currentwhite = h.currentwhite
  BY DEF GlobalState
<1>3. k = IF issweepphase(h) THEN makewhite(b, o) ELSE b
  BY DEF udata2finalize
<1>4. makewhite(b, o).color = [h.color EXCEPT ![o] = h.currentwhite]
  BY <1>2 DEF makewhite, GlobalState
<1>. HIDE DEF b, o
<1>. QED  BY <1>1, <1>2, <1>3, <1>4

\* A finalizer starts, with its userdata on the stack.
LEMMA GCTMSound ==
  ASSUME IInv, GCTM
  PROVE  IInv'
<1>1. /\ stage \in {"running", "closing"} /\ Sound
      /\ g.tobefnz # <<>> /\ g' = udata2finalize(g)
      /\ stack' = stack \cup {Head(g.tobefnz)}
      /\ garbage' = garbage \ {Head(g.tobefnz)} /\ leftover' = leftover \ {Head(g.tobefnz)}
      /\ UNCHANGED <<ref, meta, stage>>
  BY DEF IInv, GCTM
<1>2. Holds /\ Heap(g) /\ Marking(g, ref) /\ Lives(g, Used) /\ \A x \in meta : g.color[x] # "free"
  BY <1>1 DEF Sound
<1>3. /\ Heap(g') /\ Spares(g, g') /\ g'.gcstate = g.gcstate
      /\ Head(g.tobefnz) \in Udata /\ Head(g.tobefnz) \in ToSet(g.tobefnz)
      /\ ToSet(g'.tobefnz) \subseteq ToSet(g.tobefnz)
      /\ ~issweepphase(g) => g'.color = g.color
  BY <1>1, <1>2, HeapFinalizes
<1>4. \A x \in Objects : g.color[x] # "free" => g'.color[x] # "free"
  <2>1. g \in GlobalState
    BY <1>2 DEF Heap
  <2>. QED  BY <2>1, <1>1, FinalizesNone
<1>5. Holds'
  BY <1>1, <1>2, <1>3 DEF Holds
<1>6. Marking(g', ref')
  <2>1. ASSUME keepinvariant(g')
        PROVE  keepinvariant(g) /\ g'.color = g.color
    BY <2>1, <1>3 DEF keepinvariant, issweepphase
  <2>. QED  BY <2>1, <1>1, <1>2 DEF Marking, isblack, iswhite
<1>7. Used' \subseteq Used
  BY <1>1, <1>3 DEF Used
<1>8. Lives(g', Used')
  BY <1>2, <1>3, <1>7, LivesOn
<1>9. meta \subseteq Objects /\ meta' = meta
      /\ garbage' \subseteq Udata /\ leftover' \subseteq Udata
  BY <1>1 DEF IInv, Objects
<1>10. Sound'
  BY <1>2, <1>3, <1>4, <1>5, <1>6, <1>8, <1>9 DEF Sound
<1>. QED  BY <1>1, <1>9, <1>10 DEF IInv

\* What a full collection has still to do changes.
LEMMA FollowedKeeps ==
  ASSUME NEW h, Heap(h), NEW k, k = Followed(h)
  PROVE  /\ Heap(k) /\ Spares(h, k) /\ k.color = h.color /\ k.tobefnz = h.tobefnz
         /\ \A r : Marking(h, r) => Marking(k, r)
<1>1. h \in GlobalState
  BY DEF Heap
<1>2. CASE k = h
  BY <1>2 DEF Spares
<1>3. CASE k = [h EXCEPT !.full = "collect"]
  <2>1. /\ k \in GlobalState /\ k.gcstate = h.gcstate
        /\ k.currentwhite = h.currentwhite /\ k.color = h.color /\ k.sweepgc = h.sweepgc
        /\ k.gray = h.gray /\ k.grayagain = h.grayagain
        /\ k.allgc = h.allgc /\ k.finobj = h.finobj /\ k.tobefnz = h.tobefnz
    BY <1>1, <1>3 DEF GlobalState
  <2>. QED  BY <2>1, HeapTurns
<1>4. CASE k = [h EXCEPT !.full = "no", !.emergency = FALSE]
  <2>1. /\ k \in GlobalState /\ k.gcstate = h.gcstate
        /\ k.currentwhite = h.currentwhite /\ k.color = h.color /\ k.sweepgc = h.sweepgc
        /\ k.gray = h.gray /\ k.grayagain = h.grayagain
        /\ k.allgc = h.allgc /\ k.finobj = h.finobj /\ k.tobefnz = h.tobefnz
    BY <1>1, <1>4 DEF GlobalState
  <2>. QED  BY <2>1, HeapTurns
<1>. QED  BY <1>2, <1>3, <1>4 DEF Followed

\* What a step of the collector comes to.
Stepped(k) ==
  /\ Heap(k) /\ Marking(k, ref')
  /\ Lives(k, stack \cup ref'[Registry] \cup ref'[WeakTable] \cup ToSet(k.tobefnz))

\* A step that spares what lives, and refers to nothing new.
LEMMA SparesStepped ==
  ASSUME IInv, stage # "closed", ref' = ref, NEW k, Heap(k), Spares(g, k), Marking(k, ref),
         ToSet(k.tobefnz) \subseteq ToSet(g.tobefnz)
  PROVE  Stepped(k)
<1>1. Lives(g, Used)
  BY DEF IInv, Sound
<1>2. stack \cup ref[Registry] \cup ref[WeakTable] \cup ToSet(k.tobefnz) \subseteq Used
  BY DEF Used
<1>3. Lives(k, stack \cup ref[Registry] \cup ref[WeakTable] \cup ToSet(k.tobefnz))
  BY <1>1, <1>2, LivesOn
<1>. QED  BY <1>3 DEF Stepped

\* A step of the collector, state by state.
LEMMA StepsSound ==
  ASSUME IInv, stage = "running", NEW k \in Steps(g),
         ref' = IF g.gcstate = "atomic" THEN [ref EXCEPT ![WeakTable] = @ \ cleared(g)] ELSE ref
  PROVE  Stepped(k)
<1>1. Holds /\ Heap(g) /\ Marking(g, ref) /\ Lives(g, Used)
  BY DEF IInv, Sound
<1>2. g.gcstate \in {"pause", "propagate", "atomic", "swpallgc", "swpfinobj", "swptobefnz",
                     "swpend", "callfin"}
  BY <1>1 DEF Heap, GlobalState, GCState
<1>3. CASE g.gcstate = "pause"
  <2>1. k = [restartcollection(g) EXCEPT !.gcstate = "propagate"]
    BY <1>3 DEF Steps
  <2>2. Heap(k) /\ Spares(g, k) /\ k.tobefnz = g.tobefnz /\ \A r : Marking(k, r)
    BY <2>1, <1>1, <1>3, HeapRestarts
  <2>. QED  BY <2>2, <1>3, SparesStepped
<1>4. CASE g.gcstate = "propagate"
  <2>1. PICK o \in g.gray : LET p == propagatemark(g, o)
                            IN  k = IF p.gray = {} THEN [p EXCEPT !.gcstate = "atomic"] ELSE p
    BY <1>4 DEF Steps
  <2> DEFINE p == propagatemark(g, o)
  <2>2. p = propagatemark(g, o) /\ (k = p \/ k = [p EXCEPT !.gcstate = "atomic"])
    BY <2>1
  <2>. HIDE DEF p
  <2>3. Heap(p) /\ Spares(g, p) /\ p.gcstate = g.gcstate /\ p.tobefnz = g.tobefnz /\ Marking(p, ref)
    BY <2>2, <1>1, <1>4, HeapPropagates
  <2>4. CASE k = p
    BY <2>3, <2>4, <1>4, SparesStepped
  <2>5. CASE k = [p EXCEPT !.gcstate = "atomic"]
    <3>1. p \in GlobalState
      BY <2>3 DEF Heap
    <3>2. /\ k \in GlobalState /\ k.gcstate = "atomic"
          /\ k.currentwhite = p.currentwhite /\ k.color = p.color /\ k.sweepgc = p.sweepgc
          /\ k.gray = p.gray /\ k.grayagain = p.grayagain
          /\ k.allgc = p.allgc /\ k.finobj = p.finobj /\ k.tobefnz = p.tobefnz
      BY <3>1, <2>5 DEF GlobalState, GCState
    <3>3. keepinvariant(p) /\ keepinvariant(k)
      BY <3>2, <2>3, <1>4 DEF keepinvariant
    <3>4. Heap(k) /\ Spares(p, k) /\ Marking(k, ref)
      BY <3>2, <3>3, <2>3, HeapTurns
    <3>5. Spares(g, k) /\ k.tobefnz = g.tobefnz
      BY <3>2, <3>4, <2>3 DEF Spares
    <3>. QED  BY <3>4, <3>5, <1>4, SparesStepped
  <2>. QED  BY <2>2, <2>4, <2>5
<1>5. CASE g.gcstate = "atomic"
  <2>1. k = entersweep(atomic(g))
    BY <1>5 DEF Steps
  <2>2. /\ Heap(k) /\ ~keepinvariant(k)
        /\ \A o \in stack \cup ref[Registry] \cup (ref[WeakTable] \ cleared(g)) :
             g.color[o] # "free" => o \notin Dead(k) /\ k.color[o] # "free"
        /\ \A o \in ToSet(k.tobefnz) : o \notin Dead(k) /\ k.color[o] # "free"
    BY <2>1, <1>1, <1>5, HeapAtomic
  <2>3. ref'[Registry] = ref[Registry] /\ ref'[WeakTable] = ref[WeakTable] \ cleared(g)
    <3>1. ref \in [Tables -> SUBSET Objects] /\ Registry # WeakTable
          /\ Registry \in Tables /\ WeakTable \in Tables
      BY <1>1, Distinct DEF Holds, Tables
    <3>2. ref' = [ref EXCEPT ![WeakTable] = @ \ cleared(g)]
      BY <1>5
    <3>. QED  BY <3>1, <3>2
  <2>4. \A o \in stack \cup ref[Registry] \cup ref[WeakTable] : o \in Objects /\ g.color[o] # "free"
    BY <1>1 DEF Lives, Used
  <2>5. ToSet(k.tobefnz) \subseteq Objects
    BY <2>2 DEF Heap, Separated
  <2>6. Marking(k, ref')
    BY <2>2 DEF Marking
  <2>. QED  BY <2>2, <2>3, <2>4, <2>5, <2>6 DEF Stepped, Lives
<1>6. CASE g.gcstate = "swpallgc"
  <2>1. k = sweepstep(g, "swpfinobj", "finobj") /\ SweptNext(g.gcstate, "swpfinobj", "finobj")
    BY <1>6 DEF Steps, SweptNext
  <2>2. Heap(k) /\ Spares(g, k) /\ ToSet(k.tobefnz) \subseteq ToSet(g.tobefnz) /\ ~keepinvariant(k)
    BY <2>1, <1>1, HeapSweepStep
  <2>. QED  BY <2>2, <1>6, SparesStepped DEF Marking
<1>7. CASE g.gcstate = "swpfinobj"
  <2>1. k = sweepstep(g, "swptobefnz", "tobefnz") /\ SweptNext(g.gcstate, "swptobefnz", "tobefnz")
    BY <1>7 DEF Steps, SweptNext
  <2>2. Heap(k) /\ Spares(g, k) /\ ToSet(k.tobefnz) \subseteq ToSet(g.tobefnz) /\ ~keepinvariant(k)
    BY <2>1, <1>1, HeapSweepStep
  <2>. QED  BY <2>2, <1>7, SparesStepped DEF Marking
<1>8. CASE g.gcstate = "swptobefnz"
  <2>1. k = sweepstep(g, "swpend", "NULL") /\ SweptNext(g.gcstate, "swpend", "NULL")
    BY <1>8 DEF Steps, SweptNext
  <2>2. Heap(k) /\ Spares(g, k) /\ ToSet(k.tobefnz) \subseteq ToSet(g.tobefnz) /\ ~keepinvariant(k)
    BY <2>1, <1>1, HeapSweepStep
  <2>. QED  BY <2>2, <1>8, SparesStepped DEF Marking
<1>9. CASE g.gcstate = "swpend"
  <2>1. k = [makewhite(g, MainThread) EXCEPT !.gcstate = "callfin"]
    BY <1>9 DEF Steps
  <2>2. Heap(k) /\ Spares(g, k) /\ k.tobefnz = g.tobefnz /\ ~keepinvariant(k)
    BY <2>1, <1>1, <1>9, HeapEndsSweep
  <2>. QED  BY <2>2, <1>9, SparesStepped DEF Marking
<1>10. CASE g.gcstate = "callfin"
  <2>1. k = [g EXCEPT !.gcstate = "pause"]
    <3>1. Steps(g) = IF g.tobefnz = <<>> \/ g.emergency THEN {[g EXCEPT !.gcstate = "pause"]} ELSE {}
      BY <1>10 DEF Steps
    <3>. QED  BY <3>1
  <2>2. g \in GlobalState
    BY <1>1 DEF Heap
  <2>3. /\ k \in GlobalState /\ k.gcstate = "pause"
        /\ k.currentwhite = g.currentwhite /\ k.color = g.color /\ k.sweepgc = g.sweepgc
        /\ k.gray = g.gray /\ k.grayagain = g.grayagain
        /\ k.allgc = g.allgc /\ k.finobj = g.finobj /\ k.tobefnz = g.tobefnz
    BY <2>1, <2>2 DEF GlobalState, GCState
  <2>4. Heap(k) /\ Spares(g, k) /\ Marking(k, ref)
    BY <2>3, <1>1, <1>10, HeapTurns
  <2>. QED  BY <2>3, <2>4, <1>10, SparesStepped
<1>. QED  BY <1>2, <1>3, <1>4, <1>5, <1>6, <1>7, <1>8, <1>9, <1>10

\* A step of the collector, and what the weak table loses by it.
LEMMA SinglestepSound ==
  ASSUME IInv, singlestep
  PROVE  IInv'
<1>1. /\ stage = "running" /\ Sound /\ meta \subseteq Udata
      /\ UNCHANGED <<stack, stage>>
  BY DEF IInv, singlestep
<1>2. PICK h \in Steps(g) : g' = Followed(h) /\ meta' = {o \in meta : h.color[o] # "free"}
  BY DEF singlestep
<1>3. Holds /\ Heap(g)
  BY <1>1 DEF Sound
<1>4. ref' = IF g.gcstate = "atomic" THEN [ref EXCEPT ![WeakTable] = @ \ cleared(g)] ELSE ref
  BY DEF singlestep
<1>5. Stepped(h)
  BY <1>1, <1>4, StepsSound
<1>6. /\ Heap(h) /\ Marking(h, ref')
      /\ Lives(h, stack \cup ref'[Registry] \cup ref'[WeakTable] \cup ToSet(h.tobefnz))
  BY <1>5 DEF Stepped
<1>7. /\ Heap(g') /\ Spares(h, g') /\ g'.color = h.color /\ g'.tobefnz = h.tobefnz
      /\ \A r : Marking(h, r) => Marking(g', r)
  BY <1>2, <1>6, FollowedKeeps
<1>8. Holds'
  <2>1. /\ Registry \in Tables /\ Metatable \in Tables /\ WeakTable \in Tables
        /\ Registry # WeakTable /\ Metatable # WeakTable
    BY Distinct DEF Tables
  <2>2. /\ ref \in [Tables -> SUBSET Objects]
        /\ ref' \in [Tables -> SUBSET Objects]
        /\ ref'[Registry] = ref[Registry] /\ ref'[Metatable] = ref[Metatable]
        /\ ref'[WeakTable] \subseteq ref[WeakTable]
    <3>1. ref \in [Tables -> SUBSET Objects]
      BY <1>3 DEF Holds
    <3>2. CASE g.gcstate = "atomic"
      <4>1. ref' = [ref EXCEPT ![WeakTable] = @ \ cleared(g)]
        BY <3>2, <1>4
      <4>. QED  BY <4>1, <3>1, <2>1
    <3>3. CASE g.gcstate # "atomic"
      BY <3>1, <3>3, <1>4
    <3>. QED  BY <3>2, <3>3
  <2>. QED  BY <2>2, <1>1, <1>3 DEF Holds
<1>9. Lives(g', Used')
  <2>1. Used' = stack \cup ref'[Registry] \cup ref'[WeakTable] \cup ToSet(h.tobefnz)
    BY <1>1, <1>7 DEF Used
  <2>. QED  BY <2>1, <1>6, <1>7, LivesOn
<1>10. meta' \subseteq Udata /\ \A o \in meta' : g'.color[o] # "free"
  BY <1>1, <1>2, <1>7
<1>11. Sound'
  BY <1>6, <1>7, <1>8, <1>9, <1>10 DEF Sound
<1>12. garbage' \subseteq Udata /\ leftover' \subseteq Udata
  BY DEF singlestep, IInv
<1>. QED  BY <1>1, <1>10, <1>11, <1>12 DEF IInv

\* A full collection begins, perhaps in the middle of a mark phase.
LEMMA FullgcSound ==
  ASSUME IInv, luaC_fullgc
  PROVE  IInv'
<1>1. /\ stage = "running" /\ Sound /\ meta \subseteq Udata /\ leftover \subseteq Udata
      /\ garbage' = {} /\ UNCHANGED <<ref, meta, stack, stage, leftover>>
  BY DEF IInv, luaC_fullgc
<1>2. Holds /\ Heap(g) /\ Marking(g, ref) /\ Lives(g, Used) /\ \A x \in meta : g.color[x] # "free"
  BY <1>1 DEF Sound
<1> DEFINE h == IF keepinvariant(g) THEN entersweep(g) ELSE g
<1>3. PICK e \in BOOLEAN :
        g' = [h EXCEPT !.full = IF g.gcstate = "pause" THEN "collect" ELSE "finish",
                       !.emergency = e]
  BY DEF luaC_fullgc
<1>4. /\ Heap(h) /\ Spares(g, h) /\ ToSet(h.tobefnz) \subseteq ToSet(g.tobefnz)
      /\ Marking(h, ref)
      /\ \A x \in Objects : g.color[x] # "free" => h.color[x] # "free"
  <2>1. CASE keepinvariant(g)
    <3>1. h = entersweep(g)
      BY <2>1
    <3>. HIDE DEF h
    <3>2. /\ Heap(h) /\ Spares(g, h) /\ ToSet(h.tobefnz) \subseteq ToSet(g.tobefnz)
          /\ ~keepinvariant(h)
      BY <3>1, <2>1, <1>2, HeapGivesUp
    <3>3. Dead(g) = {}
      BY <2>1, <1>2 DEF Heap, Unswept, keepinvariant
    <3>. QED  BY <3>2, <3>3 DEF Spares, Marking
  <2>2. CASE ~keepinvariant(g)
    BY <2>2, <1>2 DEF Spares
  <2>. QED  BY <2>1, <2>2
<1> DEFINE f == IF g.gcstate = "pause" THEN "collect" ELSE "finish"
<1>5. f \in {"no", "finish", "collect"} /\ g' = [h EXCEPT !.full = f, !.emergency = e]
  BY <1>3
<1>. HIDE DEF h, f
<1>6. h \in GlobalState
  BY <1>4 DEF Heap
<1>7. /\ g' \in GlobalState /\ g'.gcstate = h.gcstate
      /\ g'.currentwhite = h.currentwhite /\ g'.color = h.color /\ g'.sweepgc = h.sweepgc
      /\ g'.gray = h.gray /\ g'.grayagain = h.grayagain
      /\ g'.allgc = h.allgc /\ g'.finobj = h.finobj /\ g'.tobefnz = h.tobefnz
  BY <1>3, <1>5, <1>6 DEF GlobalState
<1>8. Heap(g') /\ Spares(h, g') /\ Marking(g', ref)
  BY <1>4, <1>7, HeapTurns
<1>9. Holds'
  BY <1>1, <1>2 DEF Holds
<1>10. Lives(g', Used')
  <2>1. Spares(g, g')
    BY <1>4, <1>8 DEF Spares
  <2>2. Used' \subseteq Used
    BY <1>1, <1>4, <1>7 DEF Used
  <2>. QED  BY <2>1, <2>2, <1>2, LivesOn
<1>11. \A x \in meta' : g'.color[x] # "free"
  BY <1>1, <1>2, <1>4, <1>7 DEF Objects
<1>12. Sound'
  BY <1>1, <1>8, <1>9, <1>10, <1>11 DEF Sound
<1>. QED  BY <1>1, <1>12 DEF IInv

\* lua_close begins.
LEMMA CloseSound ==
  ASSUME IInv, lua_close
  PROVE  IInv'
<1>1. /\ Sound /\ meta \subseteq Udata /\ garbage' = {} /\ leftover' = {} /\ stack' = {}
      /\ stage' = "closing"
      /\ UNCHANGED <<ref, meta>>
  BY DEF IInv, lua_close
<1>2. Holds /\ Heap(g) /\ Marking(g, ref) /\ Lives(g, Used) /\ \A x \in meta : g.color[x] # "free"
  BY <1>1 DEF Sound
<1>3. g' = Sent(g, Objects)
  BY SentAre DEF lua_close
<1>4. /\ Heap(g') /\ Spares(g, g') /\ Marking(g', ref) /\ g'.color = g.color
      /\ ToSet(g'.tobefnz) \cap Dead(g') \subseteq ToSet(g.tobefnz)
  BY <1>2, <1>3, HeapCloses
<1>5. Holds'
  BY <1>1, <1>2 DEF Holds
<1>6. Lives(g', Used')
  <2>1. Lives(g', Used)
    BY <1>2, <1>4, LivesOn
  <2>2. \A o \in ToSet(g'.tobefnz) : o \in Objects /\ g'.color[o] # "free"
    BY <1>4 DEF Heap, Separated
  <2>3. \A o \in ToSet(g'.tobefnz) : o \notin Dead(g')
    BY <2>1, <1>4 DEF Lives, Used
  <2>4. Used' = ref[Registry] \cup ref[WeakTable] \cup ToSet(g'.tobefnz)
    BY <1>1 DEF Used
  <2>. QED  BY <2>1, <2>2, <2>3, <2>4 DEF Lives, Used
<1>7. Sound'
  BY <1>1, <1>2, <1>4, <1>5, <1>6 DEF Sound
<1>. QED  BY <1>1, <1>7 DEF IInv

\* No list holds anything.
LEMMA NoneListed ==
  ASSUME NEW E, NEW s \in Seq(E), Len(s) = 0
  PROVE  IsInjective(s) /\ ToSet(s) = {}
<1>1. DOMAIN s = {}
  <2>1. DOMAIN s = 1..Len(s)
    OBVIOUS
  <2>. QED  BY <2>1
<1>2. IsInjective(s)
  BY <1>1 DEF IsInjective
<1>3. ToSet(s) = {}
  BY <1>1 DEF ToSet
<1>. QED  BY <1>2, <1>3

\* lua_close ends.
LEMMA FreesSound ==
  ASSUME IInv, freeallobjects
  PROVE  IInv'
<1>1. /\ Heap(g) /\ g.tobefnz = <<>> /\ stage' = "closed" /\ meta' = {} /\ stack' = {}
      /\ garbage \subseteq Udata /\ leftover \subseteq Udata /\ UNCHANGED <<garbage, leftover>>
  BY DEF IInv, freeallobjects, Sound
<1> DEFINE c == [o \in Objects |-> "free"]
           e == <<>>
<1>2. g' = [g EXCEPT !.color = c, !.allgc = e, !.finobj = e]
  BY DEF freeallobjects
<1>0. /\ c \in [Objects -> Color] /\ \A o \in Objects : c[o] = "free"
      /\ e \in Seq(Objects) /\ e \in Seq(Udata) /\ Len(e) = 0
      /\ g \in GlobalState /\ g.tobefnz = e
  BY <1>1 DEF Color, Heap
<1>. HIDE DEF c, e
<1>3. IsInjective(e) /\ ToSet(e) = {}
  BY <1>0, NoneListed
<1>4. /\ g' \in GlobalState /\ g'.color = c
      /\ g'.allgc = e /\ g'.finobj = e /\ g'.tobefnz = e
  BY <1>0, <1>2, <1>3 DEF GlobalState
<1>5. Separated(g')
  BY <1>0, <1>3, <1>4 DEF Separated
<1>. QED  BY <1>1, <1>4, <1>5 DEF IInv

\* The state lua_newstate makes.
LEMMA InitSound ==
  ASSUME Init
  PROVE  IInv
<1>1. /\ Registry \in Tables /\ Metatable \in Tables /\ WeakTable \in Tables
      /\ Tables \cap Udata = {} /\ MainThread \notin Tables /\ MainThread \notin Udata
      /\ Objects = Udata \cup Nodes /\ Nodes = Tables \cup {MainThread}
      /\ Tables = {Registry, Metatable, WeakTable}
  BY Distinct DEF Tables, Nodes
<1>2. Registry # Metatable /\ Registry # WeakTable /\ Metatable # WeakTable
  BY Distinct
<1> DEFINE c == [o \in Objects |-> IF o \in Udata THEN "free" ELSE "white0"]
           a == <<WeakTable, Metatable, Registry>>
           e == <<>>
<1>3. /\ a \in Seq(Objects) /\ IsInjective(a) /\ ToSet(a) = Tables
  <2>1. /\ a \in Seq(Objects) /\ DOMAIN a = 1..3
        /\ a[1] = WeakTable /\ a[2] = Metatable /\ a[3] = Registry
    BY <1>1
  <2>. HIDE DEF a
  <2>2. IsInjective(a)
    BY <2>1, <1>2 DEF IsInjective
  <2>3. ToSet(a) = Tables
    BY <2>1, <1>1 DEF ToSet
  <2>. QED  BY <2>1, <2>2, <2>3
<1>4. /\ c \in [Objects -> Color]
      /\ \A o \in Udata : c[o] = "free"
      /\ \A o \in Nodes : c[o] = "white0"
  BY <1>1 DEF Color, White
<1>6. g = [gcstate |-> "pause", currentwhite |-> "white0", color |-> c,
           gray |-> {}, grayagain |-> {}, allgc |-> a, finobj |-> e, tobefnz |-> e,
           sweepgc |-> "NULL", full |-> "no", emergency |-> FALSE]
  BY DEF Init
<1>7. /\ ref = [t \in Tables |-> IF t = Registry THEN {Metatable, WeakTable} ELSE {}]
      /\ meta = {} /\ stack = {} /\ stage = "running"
      /\ garbage = {} /\ leftover = {}
  BY DEF Init
<1>0. e \in Seq(Udata) /\ Len(e) = 0
  OBVIOUS
<1>. HIDE DEF c, a, e
<1>5. IsInjective(e) /\ ToSet(e) = {}
  BY <1>0, NoneListed
<1>8. /\ g \in GlobalState
      /\ g.gcstate = "pause" /\ g.currentwhite = "white0" /\ g.color = c
      /\ g.allgc = a /\ g.finobj = e /\ g.tobefnz = e /\ g.sweepgc = "NULL"
  BY <1>0, <1>3, <1>4, <1>6 DEF GlobalState, GCState, White
<1>9. Separated(g)
  <2>1. {o \in Objects \ {MainThread} : c[o] # "free"} = Tables
    BY <1>1, <1>4
  <2>. QED  BY <2>1, <1>1, <1>3, <1>5, <1>8 DEF Separated
<1>10. Pointed(g)
  BY <1>8 DEF Pointed
<1>11. Dead(g) = {}
  BY <1>1, <1>4, <1>8 DEF Dead, other
<1>12. ~keepinvariant(g) /\ ~issweepphase(g) /\ Unswept(g) = {}
  BY <1>8 DEF keepinvariant, issweepphase, Unswept
<1>13. Heap(g)
  BY <1>1, <1>4, <1>8, <1>9, <1>10, <1>11, <1>12 DEF Heap
<1>14. Holds
  BY <1>1, <1>2, <1>7 DEF Holds
<1>15. Lives(g, Used)
  <2>1. Used \subseteq Nodes
    BY <1>1, <1>2, <1>5, <1>7, <1>8 DEF Used
  <2>. QED  BY <2>1, <1>1, <1>4, <1>8, <1>11 DEF Lives
<1>16. Marking(g, ref)
  BY <1>12 DEF Marking
<1>. QED  BY <1>7, <1>13, <1>14, <1>15, <1>16 DEF IInv, Sound

\* Every step keeps the invariant.
LEMMA NextSound ==
  ASSUME IInv, [Next]_vars
  PROVE  IInv'
<1>1. CASE luaC_newobj
  BY <1>1, NewobjSound
<1>2. CASE lua_setmetatable
  BY <1>2, SetmetatableSound
<1>3. CASE lua_rawset
  BY <1>3, RawsetSound
<1>4. CASE erase \/ lua_rawget \/ lua_pop
  BY <1>4, StackSound
<1>5. CASE GCTM
  BY <1>5, GCTMSound
<1>6. CASE singlestep
  BY <1>6, SinglestepSound
<1>7. CASE luaC_fullgc
  BY <1>7, FullgcSound
<1>8. CASE lua_close
  BY <1>8, CloseSound
<1>9. CASE freeallobjects
  BY <1>9, FreesSound
<1>10. CASE Closed \/ UNCHANGED vars
  <2>1. UNCHANGED vars
    BY <1>10 DEF Closed
  <2>. QED  BY <2>1 DEF vars, IInv, Sound, Holds, Used
<1>. QED
  BY <1>1, <1>2, <1>3, <1>4, <1>5, <1>6, <1>7, <1>8, <1>9, <1>10 DEF Next, Program

\* The inductive invariant of the collector interleaved with the program, full and
\* emergency collections and lua_close (lgc.c).
THEOREM CollectorInvariant == Spec => []IInv
<1>1. Init => IInv
  BY InitSound
<1>2. IInv /\ [Next]_vars => IInv'
  BY NextSound
<1>. QED  BY <1>1, <1>2, PTL DEF Spec

\* What holds even when the state is closed.
LEMMA InvariantKinds ==
  ASSUME IInv
  PROVE  /\ g \in GlobalState /\ Separated(g) /\ stack \subseteq Udata
         /\ meta \subseteq Udata /\ garbage \subseteq Udata /\ leftover \subseteq Udata
BY DEF IInv, Sound, Heap, Holds

\* Every object stays in one list and in one place of it, and while the collector
\* marks no black table refers to a white object and gray ones are linked, whatever
\* the barriers and luaC_checkfinalizer do between the steps of lgc.c.
THEOREM HeapIsSound == Spec => []HeapSound
<1>1. ASSUME IInv
      PROVE  HeapSound
  <2>1. /\ g \in GlobalState /\ Separated(g) /\ stack \subseteq Udata
        /\ meta \subseteq Udata /\ garbage \subseteq Udata /\ leftover \subseteq Udata
    BY <1>1, InvariantKinds
  <2>2. TypeOK
    BY <2>1 DEF TypeOK, GlobalState, Color
  <2>3. ListsSound
    <3> DEFINE two == g.allgc \o g.finobj
               all == g.allgc \o g.finobj \o g.tobefnz
    <3>1. /\ g.allgc \in Seq(Objects) /\ g.finobj \in Seq(Objects) /\ g.tobefnz \in Seq(Objects)
      <4>1. ASSUME NEW s \in Seq(Udata)
            PROVE  s \in Seq(Objects)
        BY <4>1 DEF Objects
      <4>. QED  BY <4>1, <2>1 DEF GlobalState
    <3>2. /\ IsInjective(g.allgc) /\ IsInjective(g.finobj) /\ IsInjective(g.tobefnz)
          /\ ToSet(g.allgc) \cap ToSet(g.finobj) = {}
          /\ ToSet(g.allgc) \cap ToSet(g.tobefnz) = {}
          /\ ToSet(g.finobj) \cap ToSet(g.tobefnz) = {}
          /\ ToSet(g.allgc) \cup ToSet(g.finobj) \cup ToSet(g.tobefnz)
               = {o \in Objects \ {MainThread} : g.color[o] # "free"}
      BY <2>1 DEF Separated
    <3>3. /\ two \in Seq(Objects) /\ IsInjective(two)
          /\ ToSet(two) = ToSet(g.allgc) \cup ToSet(g.finobj)
      BY <3>1, <3>2, ConcatSeq
    <3>4. all = two \o g.tobefnz
      OBVIOUS
    <3>. HIDE DEF two, all
    <3>5. ToSet(two) \cap ToSet(g.tobefnz) = {}
      BY <3>2, <3>3
    <3>6. IsInjective(all) /\ ToSet(all) = ToSet(two) \cup ToSet(g.tobefnz)
      BY <3>1, <3>2, <3>3, <3>4, <3>5, ConcatSeq
    <3>7. ToSet(all) = Objects \ (Free \cup {MainThread})
      BY <3>2, <3>3, <3>6 DEF Free
    <3>. QED  BY <3>6, <3>7 DEF ListsSound, all
  <2>4. TriColor
    <3>1. ASSUME stage = "running", keepinvariant(g)
          PROVE  Linked(g) /\ Marking(g, ref)
      BY <1>1, <3>1 DEF IInv, Sound, Heap
    <3>. QED  BY <3>1 DEF TriColor, Linked, Marking
  <2>. QED  BY <2>2, <2>3, <2>4 DEF HeapSound
<1>. QED  BY <1>1, CollectorInvariant, PTL

\* sweeplist frees nothing that is on the stack, in the registry, in the weak table,
\* about to be finalized or has its metatable.
THEOREM DanglesNothing == Spec => []NothingDangles
<1>1. ASSUME IInv
      PROVE  NothingDangles
  <2>1. ASSUME stage # "closed"
        PROVE  (stack \cup (UNION {ref[t] : t \in Tables}) \cup meta \cup ToSet(g.tobefnz)) \cap Free = {}
    <3>1. Holds /\ Lives(g, Used) /\ \A o \in meta : g.color[o] # "free"
      BY <1>1, <2>1 DEF IInv, Sound
    <3>2. UNION {ref[t] : t \in Tables} = ref[Registry] \cup ref[WeakTable]
      BY <3>1 DEF Holds, Tables
    <3>. QED  BY <3>1, <3>2 DEF Lives, Used, Free
  <2>. QED  BY <2>1 DEF NothingDangles
<1>. QED  BY <1>1, CollectorInvariant, PTL

-----------------------------------------------------------------------------
(* Lists of which all, the same or nothing is kept *)

\* A list that is kept whole.
LEMMA KeptWhole ==
  ASSUME NEW E, NEW s \in Seq(E), NEW S, ToSet(s) \subseteq S
  PROVE  Kept(s, S) = s
<1> DEFINE n == Len(s)
           I == {i \in DOMAIN s : s[i] \in S}
<1>1. n \in Nat /\ I = 1..n /\ s = [m \in 1..n |-> s[m]]
  BY DEF ToSet
<1>2. ASSUME NEW i \in 1..n
      PROVE  Cardinality(I \cap 1..i) = i
  <2>1. I \cap 1..i = 1..i /\ 1 \in Int /\ i \in Int
    BY <1>1, <1>2
  <2>2. Cardinality(1..i) = i
    BY <2>1, FS_Interval
  <2>. QED  BY <2>1, <2>2
<1>3. Cardinality(I) = n
  <2>1. 1 \in Int /\ n \in Int
    BY <1>1
  <2>2. Cardinality(1..n) = IF 1 > n THEN 0 ELSE n - 1 + 1
    BY <2>1, FS_Interval
  <2>. HIDE DEF I
  <2>. QED  BY <2>2, <1>1
<1>4. Kept(s, S) = [m \in 1..n |-> s[CHOOSE i \in I : Cardinality(I \cap 1..i) = m]]
  BY <1>3 DEF Kept
<1>. HIDE DEF I
<1>5. \A m \in 1..n : (CHOOSE i \in I : Cardinality(I \cap 1..i) = m) = m
  BY <1>1, <1>2
<1>. QED  BY <1>1, <1>4, <1>5

\* Only what the list has of S counts.
LEMMA KeptSame ==
  ASSUME NEW E, NEW s \in Seq(E), NEW S, NEW T, ToSet(s) \cap S = ToSet(s) \cap T
  PROVE  Kept(s, S) = Kept(s, T)
<1> DEFINE I == {i \in DOMAIN s : s[i] \in S}
           J == {i \in DOMAIN s : s[i] \in T}
           F(K) == [n \in 1..Cardinality(K) |-> s[CHOOSE i \in K : Cardinality(K \cap 1..i) = n]]
<1>1. I = J
  BY DEF ToSet
<1>2. Kept(s, S) = F(I) /\ Kept(s, T) = F(J)
  BY DEF Kept
<1>. HIDE DEF I, J, F
<1>. QED  BY <1>1, <1>2

\* A list of which nothing is kept.
LEMMA KeptNone ==
  ASSUME NEW E, NEW s \in Seq(E), NEW S, ToSet(s) \cap S = {}
  PROVE  Kept(s, S) = <<>>
<1>1. Kept(s, S) \in Seq(E \cap S) /\ ToSet(Kept(s, S)) = {}
  BY KeptSeq
<1>. HIDE DEF Kept
<1>2. Len(Kept(s, S)) = 0
  <2>1. SUFFICES ASSUME Len(Kept(s, S)) # 0 PROVE FALSE
    OBVIOUS
  <2>2. 1 \in DOMAIN Kept(s, S)
    BY <1>1, <2>1
  <2>. QED  BY <2>2, <1>1 DEF ToSet
<1>. QED  BY <1>1, <1>2

\* What the library's operator is called where Finalization is instantiated.
LEMMA KeptAlike ==
  ASSUME NEW s, NEW S
  PROVE  Promise!Kept(s, S) = Kept(s, S)
<1>1. ASSUME NEW T
      PROVE  Promise!Cardinality(T) = Cardinality(T)
  BY DEF Promise!Cardinality, Cardinality
<1> DEFINE I == {i \in DOMAIN s : s[i] \in S}
<1>2. Promise!Kept(s, S) = [n \in 1..Promise!Cardinality(I) |->
         s[CHOOSE i \in I : Promise!Cardinality(I \cap 1..i) = n]]
  BY DEF Promise!Kept
<1>. QED  BY <1>1, <1>2 DEF Kept

-----------------------------------------------------------------------------
(* What leaves the lists of finalization as they are *)

\* The lists of finalization stay as they are, and nothing comes to life.
Leaves(h, k) ==
  /\ k.finobj = h.finobj /\ k.tobefnz = h.tobefnz
  /\ \A o \in Udata : h.color[o] = "free" => k.color[o] = "free"

\* One after the other.
LEMMA LeavesMore ==
  ASSUME NEW h, NEW i, NEW k, Leaves(h, i), Leaves(i, k)
  PROVE  Leaves(h, k)
BY DEF Leaves

\* Marking leaves them.
LEMMA MarksLeave ==
  ASSUME NEW h, NEW k, Marks(h, k)
  PROVE  Leaves(h, k)
BY DEF Marks, Leaves, Objects

\* What is dead is in allgc.
LEMMA DeadListed ==
  ASSUME NEW h, Heap(h)
  PROVE  /\ Dead(h) \subseteq ToSet(h.allgc)
         /\ Dead(h) \cap ToSet(h.finobj) = {} /\ Dead(h) \cap ToSet(h.tobefnz) = {}
<1>1. h \in GlobalState /\ Separated(h) /\ Pointed(h) /\ Dead(h) \subseteq Unswept(h)
  BY DEF Heap
<1>2. CASE h.gcstate = "swpallgc" /\ h.sweepgc # "NULL"
  <2>1. h.sweepgc = "allgc" \/ h.sweepgc \in ToSet(h.allgc)
    BY <1>1, <1>2 DEF Pointed
  <2>2. Rest(h) \subseteq ToSet(h.allgc)
    BY <1>1, <2>1, RestInList
  <2>. QED  BY <1>1, <1>2, <2>2 DEF Unswept, Separated
<1>3. CASE ~(h.gcstate = "swpallgc" /\ h.sweepgc # "NULL")
  BY <1>1, <1>3 DEF Unswept, Rest
<1>. QED  BY <1>2, <1>3

\* The sweep takes only dead objects out of the lists, and leaves none of them alive.
LEMMA SweepTakesDead ==
  ASSUME NEW h, Heap(h), NEW count, NEW k, k = sweeplist(h, count)
  PROVE  /\ k.finobj = h.finobj /\ k.tobefnz = h.tobefnz
         /\ \A o \in Dead(h) : k.color[o] \in {h.color[o], "free"}
<1> DEFINE next == Following(h, h.sweepgc)
           part == SubSeq(next, 1, IF count < Len(next) THEN count ELSE Len(next))
           dead == ToSet(part) \cap Dead(h)
           u == Unlinked(h, dead)
           p == IF Len(next) <= count THEN "NULL"
                ELSE IF Kept(part, Objects \ dead) = <<>> THEN u.sweepgc
                ELSE Last(Kept(part, Objects \ dead))
           c == [o \in Objects |-> IF o \in dead THEN "free"
                                   ELSE IF o \in ToSet(part) THEN h.currentwhite ELSE u.color[o]]
<1>1. k = [u EXCEPT !.color = c, !.sweepgc = p]
  BY DEF sweeplist
<1>2. h \in GlobalState /\ Separated(h)
  BY DEF Heap
<1>3. /\ Dead(h) \subseteq Objects
      /\ Dead(h) \cap ToSet(h.finobj) = {} /\ Dead(h) \cap ToSet(h.tobefnz) = {}
  BY DeadListed DEF Dead
<1>4. /\ h.finobj \in Seq(Udata) /\ h.tobefnz \in Seq(Udata)
      /\ ToSet(h.finobj) \subseteq Objects /\ ToSet(h.tobefnz) \subseteq Objects
  BY <1>2 DEF GlobalState, Separated
<1>. HIDE DEF part, p
<1>5. dead \subseteq Dead(h)
  OBVIOUS
<1>6. \A o \in Dead(h) : o \in ToSet(part) => o \in dead
  OBVIOUS
<1>7. u = Unlinked(h, dead)
  OBVIOUS
<1>. HIDE DEF dead, u
<1>8. u \in GlobalState /\ u.color = h.color
  BY <1>2, <1>7, Unlinks
<1>9. u.finobj = Kept(h.finobj, Objects \ dead) /\ u.tobefnz = Kept(h.tobefnz, Objects \ dead)
  BY <1>2, <1>7 DEF Unlinked, GlobalState
<1>10. u.finobj = h.finobj /\ u.tobefnz = h.tobefnz
  <2>1. ToSet(h.finobj) \subseteq Objects \ dead /\ ToSet(h.tobefnz) \subseteq Objects \ dead
    BY <1>3, <1>4, <1>5
  <2>2. /\ Kept(h.finobj, Objects \ dead) = h.finobj
        /\ Kept(h.tobefnz, Objects \ dead) = h.tobefnz
    BY <2>1, <1>4, KeptWhole
  <2>. QED  BY <2>2, <1>9
<1>11. \A o \in Dead(h) : c[o] \in {h.color[o], "free"}
  BY <1>3, <1>6, <1>8
<1>. HIDE DEF c
<1>12. k.finobj = u.finobj /\ k.tobefnz = u.tobefnz /\ k.color = c
  BY <1>1, <1>8 DEF GlobalState
<1>. QED  BY <1>10, <1>11, <1>12

\* What is in none of the lists, which only lose objects, is free.
LEMMA ListsShrink ==
  ASSUME NEW h, NEW k, Heap(h), Heap(k), k.finobj = h.finobj, k.tobefnz = h.tobefnz,
         \A m \in Lists : ToSet(k[m]) = {o \in ToSet(h[m]) : k.color[o] # "free"}
  PROVE  Leaves(h, k)
<1>1. Separated(h) /\ Separated(k) /\ h \in GlobalState /\ k \in GlobalState
  BY DEF Heap
<1>2. Udata \subseteq Objects \ {MainThread}
  BY Distinct DEF Objects
<1>3. ASSUME NEW o \in Udata, k.color[o] # "free"
      PROVE  h.color[o] # "free"
  <2>1. \E m \in Lists : o \in ToSet(k[m])
    BY <1>1, <1>2, <1>3, InOneList
  <2>2. \E m \in Lists : o \in ToSet(h[m])
    BY <2>1
  <2>. QED  BY <2>2, <1>1, <1>2, InOneList
<1>. QED  BY <1>3 DEF Leaves

\* sweeplist.
LEMMA SweepLeaves ==
  ASSUME NEW h, Heap(h), h.sweepgc # "NULL", NEW count \in Nat, NEW k, k = sweeplist(h, count)
  PROVE  Leaves(h, k)
<1>1. Heap(k) /\ \A m \in Lists : ToSet(k[m]) = {o \in ToSet(h[m]) : k.color[o] # "free"}
  BY HeapSweeps
<1>2. k.finobj = h.finobj /\ k.tobefnz = h.tobefnz
  BY SweepTakesDead
<1>. QED  BY <1>1, <1>2, ListsShrink

\* sweeptolive.
LEMMA SweepToLiveLeaves ==
  ASSUME NEW h, Heap(h), h.sweepgc # "NULL", NEW k, k = sweeptolive(h)
  PROVE  Leaves(h, k) /\ \A o \in Dead(h) : k.color[o] \in {h.color[o], "free"}
<1>1. Heap(k) /\ \A m \in Lists : ToSet(k[m]) = {o \in ToSet(h[m]) : k.color[o] # "free"}
  BY HeapSweepsToLive
<1>2. \E n : k = sweeplist(h, n)
  BY DEF sweeptolive
<1>3. /\ k.finobj = h.finobj /\ k.tobefnz = h.tobefnz
      /\ \A o \in Dead(h) : k.color[o] \in {h.color[o], "free"}
  BY <1>2, SweepTakesDead
<1>. QED  BY <1>1, <1>3, ListsShrink

\* entersweep, with what is dead in the list that the sweep begins with.
LEMMA EntersLeaves ==
  ASSUME NEW h \in GlobalState, Separated(h),
         \A o \in Udata : h.color[o] # "gray",
         \A o \in Nodes : h.color[o] # "free" /\ o \notin Dead(h),
         h.color[MainThread] = "gray", Dead(h) \subseteq ToSet(h.allgc),
         NEW k, k = entersweep(h)
  PROVE  /\ Leaves(h, k) /\ k.currentwhite = h.currentwhite /\ k.gcstate = "swpallgc"
         /\ \A o \in Dead(h) : k.color[o] \in {h.color[o], "free"}
<1> DEFINE e == [h EXCEPT !.gcstate = "swpallgc", !.sweepgc = "allgc"]
<1>1. k = sweeptolive(e)
  BY DEF entersweep
<1>2. e = [h EXCEPT !.gcstate = "swpallgc", !.sweepgc = "allgc"]
  OBVIOUS
<1>. HIDE DEF e
<1>3. /\ Heap(e) /\ Dead(e) = Dead(h)
      /\ e.gcstate = "swpallgc" /\ e.sweepgc # "NULL"
      /\ e.currentwhite = h.currentwhite /\ e.color = h.color
      /\ e.finobj = h.finobj /\ e.tobefnz = h.tobefnz
  BY <1>2, HeapAtAllgc
<1>4. k.currentwhite = e.currentwhite /\ k.gcstate = e.gcstate
  BY <1>1, <1>3, HeapSweepsToLive
<1>5. Leaves(e, k) /\ \A o \in Dead(e) : k.color[o] \in {e.color[o], "free"}
  BY <1>1, <1>3, SweepToLiveLeaves
<1>. QED  BY <1>3, <1>4, <1>5 DEF Leaves

\* A collection that is given up.
LEMMA GivesUpLeaves ==
  ASSUME NEW h, Heap(h), keepinvariant(h), NEW k, k = entersweep(h)
  PROVE  Leaves(h, k)
<1>1. Unswept(h) = {}
  BY DEF keepinvariant, Unswept
<1>2. /\ h \in GlobalState /\ Separated(h)
      /\ \A o \in Udata : h.color[o] # "gray"
      /\ \A o \in Nodes : h.color[o] # "free" /\ o \notin Dead(h)
      /\ h.color[MainThread] = "gray" /\ Dead(h) \subseteq ToSet(h.allgc)
  BY <1>1 DEF Heap
<1>. QED  BY <1>2, EntersLeaves

\* One step of a sweep.
LEMMA SweepStepLeaves ==
  ASSUME NEW h, Heap(h), NEW s, NEW l, NEW k, k = sweepstep(h, s, l)
  PROVE  Leaves(h, k)
<1> DEFINE m == IF h.sweepgc = "NULL" THEN h ELSE sweeplist(h, SweepMax)
<1>1. k = IF m.sweepgc # "NULL" THEN m ELSE [m EXCEPT !.gcstate = s, !.sweepgc = l]
  BY DEF sweepstep
<1>2. Leaves(h, m) /\ m \in GlobalState
  <2>1. CASE h.sweepgc = "NULL"
    BY <2>1 DEF Leaves, Heap
  <2>2. CASE h.sweepgc # "NULL"
    <3>1. m = sweeplist(h, SweepMax) /\ SweepMax \in Nat
      BY <2>2, SweepsSome
    <3>. HIDE DEF m
    <3>2. Heap(m)
      BY <3>1, <2>2, HeapSweeps
    <3>. QED  BY <3>1, <3>2, <2>2, SweepLeaves DEF Heap
  <2>. QED  BY <2>1, <2>2
<1>. HIDE DEF m
<1>3. k.finobj = m.finobj /\ k.tobefnz = m.tobefnz /\ k.color = m.color
  BY <1>1, <1>2 DEF GlobalState
<1>. QED  BY <1>2, <1>3 DEF Leaves

\* Every step of the collector but the atomic one.
LEMMA StepsLeave ==
  ASSUME IInv, stage = "running", NEW k \in Steps(g), g.gcstate # "atomic"
  PROVE  Leaves(g, k)
<1>1. Holds /\ Heap(g) /\ g \in GlobalState
  BY DEF IInv, Sound, Heap
<1>2. g.gcstate \in {"pause", "propagate", "swpallgc", "swpfinobj", "swptobefnz",
                     "swpend", "callfin"}
  BY <1>1 DEF Heap, GlobalState, GCState
<1>3. CASE g.gcstate = "pause"
  <2> DEFINE r == restartcollection(g)
             i == [g EXCEPT !.gray = {}, !.grayagain = {}]
             S == {MainThread, Registry} \cup ToSet(i.tobefnz)
  <2>1. k = [r EXCEPT !.gcstate = "propagate"]
    BY <1>3 DEF Steps
  <2>2. i \in GlobalState /\ Leaves(g, i) /\ i.tobefnz = g.tobefnz
    BY <1>1 DEF GlobalState, Leaves
  <2>3. S \in SUBSET Objects
    <3>1. ToSet(g.tobefnz) \subseteq Objects
      BY <1>1 DEF Heap, Separated
    <3>. QED  BY <3>1, <2>2 DEF Objects, Tables
  <2>4. r = reallymarkobject(i, S)
    BY <2>2 DEF restartcollection
  <2>. HIDE DEF r, i, S
  <2>5. Marks(i, r)
    BY <2>2, <2>3, <2>4, ReallyMarks
  <2>6. Leaves(g, r)
    BY <2>2, <2>5, MarksLeave, LeavesMore
  <2>7. r \in GlobalState
    BY <2>5 DEF Marks
  <2>8. k.finobj = r.finobj /\ k.tobefnz = r.tobefnz /\ k.color = r.color
    BY <2>1, <2>7 DEF GlobalState
  <2>. QED  BY <2>6, <2>8 DEF Leaves
<1>4. CASE g.gcstate = "propagate"
  <2>1. PICK o \in g.gray : LET p == propagatemark(g, o)
                            IN  k = IF p.gray = {} THEN [p EXCEPT !.gcstate = "atomic"] ELSE p
    BY <1>4 DEF Steps
  <2> DEFINE p == propagatemark(g, o)
  <2>2. p = propagatemark(g, o) /\ (k = p \/ k = [p EXCEPT !.gcstate = "atomic"])
    BY <2>1
  <2>. HIDE DEF p
  <2>3. Marks(g, p)
    BY <2>2, <1>1, Propagates DEF Heap
  <2>4. Leaves(g, p) /\ p \in GlobalState
    BY <2>3, MarksLeave DEF Marks
  <2>5. k.finobj = p.finobj /\ k.tobefnz = p.tobefnz /\ k.color = p.color
    BY <2>2, <2>4 DEF GlobalState
  <2>. QED  BY <2>4, <2>5 DEF Leaves
<1>5. CASE g.gcstate \in {"swpallgc", "swpfinobj", "swptobefnz"}
  <2>1. \E s, l : k = sweepstep(g, s, l)
    BY <1>5 DEF Steps
  <2>. QED  BY <2>1, <1>1, SweepStepLeaves
<1>6. CASE g.gcstate = "swpend"
  <2>1. k = [makewhite(g, MainThread) EXCEPT !.gcstate = "callfin"]
    BY <1>6 DEF Steps
  <2>2. /\ k.finobj = g.finobj /\ k.tobefnz = g.tobefnz
        /\ k.color = [g.color EXCEPT ![MainThread] = g.currentwhite]
    BY <2>1, <1>1 DEF makewhite, GlobalState
  <2>3. \A o \in Udata : o # MainThread /\ o \in Objects
    BY Distinct DEF Objects
  <2>4. g.color \in [Objects -> Color]
    BY <1>1 DEF GlobalState
  <2>. QED  BY <2>2, <2>3, <2>4 DEF Leaves
<1>7. CASE g.gcstate = "callfin"
  <2>1. k = [g EXCEPT !.gcstate = "pause"]
    <3>1. Steps(g) = IF g.tobefnz = <<>> \/ g.emergency THEN {[g EXCEPT !.gcstate = "pause"]} ELSE {}
      BY <1>7 DEF Steps
    <3>. QED  BY <3>1
  <2>. QED  BY <2>1, <1>1 DEF Leaves, GlobalState
<1>. QED  BY <1>2, <1>3, <1>4, <1>5, <1>6, <1>7

\* What a full collection has still to do is all that Followed changes.
LEMMA FollowedLeaves ==
  ASSUME NEW h \in GlobalState, NEW k, k = Followed(h)
  PROVE  /\ k.finobj = h.finobj /\ k.tobefnz = h.tobefnz /\ k.color = h.color
         /\ k.gcstate = h.gcstate /\ k.currentwhite = h.currentwhite
BY DEF Followed, GlobalState

-----------------------------------------------------------------------------
(* The collector does what Finalization promises *)

\* How far o is, as Fate says, in the heap h when M have their metatable.
FateOf(h, M, o) ==
  IF h.color[o] = "free" THEN "none"
  ELSE IF o \in ToSet(h.tobefnz) THEN "pending"
  ELSE IF o \in ToSet(h.finobj) THEN "live"
  ELSE IF o \in M THEN "finalized" ELSE "new"

\* What is in a list of finalization has its metatable.
Promised == stage # "closed" => ToSet(g.finobj) \cup ToSet(g.tobefnz) \subseteq meta

\* What the lists say of a userdata.
LEMMA Fates ==
  ASSUME NEW h \in GlobalState, Separated(h), NEW M, NEW o \in Udata
  PROVE  /\ h.color[o] = "free" => FateOf(h, M, o) = "none"
         /\ o \in ToSet(h.tobefnz) => FateOf(h, M, o) = "pending"
         /\ o \in ToSet(h.finobj) => FateOf(h, M, o) = "live"
         /\ h.color[o] # "free" /\ o \notin ToSet(h.tobefnz) \cup ToSet(h.finobj)
              => FateOf(h, M, o) = IF o \in M THEN "finalized" ELSE "new"
<1>1. /\ ToSet(h.finobj) \cap ToSet(h.tobefnz) = {}
      /\ \A x \in ToSet(h.finobj) \cup ToSet(h.tobefnz) : h.color[x] # "free"
  BY DEF Separated
<1>. QED  BY <1>1 DEF FateOf

\* Fate is FateOf the heap there is.
LEMMA FateIs ==
  ASSUME NEW o \in Udata
  PROVE  Fate(o) = FateOf(g, meta, o) /\ Fate(o)' = FateOf(g', meta', o)
BY DEF Fate, FateOf

\* What the program can reach is not free.
LEMMA ReachableLive ==
  ASSUME IInv, stage # "closed", NEW o \in Reachable
  PROVE  o \in Udata /\ g.color[o] # "free"
BY DEF IInv, Sound, Lives, Used, Reachable

\* The same after a step.
LEMMA ReachableLiveNext ==
  ASSUME IInv', stage' # "closed", NEW o \in Reachable'
  PROVE  o \in Udata /\ g'.color[o] # "free"
BY DEF IInv, Sound, Lives, Used, Reachable

\* Some may be freed in a step: those that were not in a list of finalization.
LEMMA MayFree ==
  ASSUME IInv, IInv', stage # "closed", stage' # "closed", NEW N,
         \A o \in Udata :
           \/ Fate(o)' = N[o]
           \/ Fate(o)' = "none" /\ Fate(o) \in {"new", "finalized"}
  PROVE  Promise!Becomes(N)
<1> DEFINE st == [o \in Udata |-> Fate(o)]
           F == {o \in Udata : Fate(o)' = "none" /\ Fate(o) \in {"new", "finalized"}}
<1>1. \A o \in F : o \notin Reachable'
  <2>1. ASSUME NEW o \in F, o \in Reachable'
        PROVE  FALSE
    <3>1. g'.color[o] # "free"
      BY <2>1, ReachableLiveNext
    <3>2. g'.color[o] = "free"
      BY <2>1 DEF Fate
    <3>. QED  BY <3>1, <3>2
  <2>. QED  BY <2>1
<1>2. F \in SUBSET {o \in Udata : st[o] \in {"new", "finalized"} /\ o \notin Reachable'}
  BY <1>1
<1>3. st' = [o \in Udata |-> Fate(o)']
  OBVIOUS
<1>4. \A o \in Udata : Fate(o)' = IF o \in F THEN "none" ELSE N[o]
  OBVIOUS
<1>. HIDE DEF F
<1>5. st' = [o \in Udata |-> IF o \in F THEN "none" ELSE N[o]]
  BY <1>3, <1>4
<1>. QED  BY <1>2, <1>5 DEF Promise!Becomes

\* What is kept, as a list of the same objects.
LEMMA KeptTakes ==
  ASSUME NEW E, NEW s \in Seq(E), NEW S
  PROVE  Kept(s, S) \in Seq(E) /\ ToSet(Kept(s, S)) = ToSet(s) \cap S
<1>1. Kept(s, S) \in Seq(E \cap S) /\ ToSet(Kept(s, S)) = ToSet(s) \cap S
  BY KeptSeq
<1> DEFINE t == Kept(s, S)
<1>2. t \in Seq(E \cap S) /\ E \cap S \subseteq E
  BY <1>1
<1>. HIDE DEF t
<1>3. t \in Seq(E)
  BY <1>2
<1>. QED  BY <1>1, <1>3 DEF t

\* Nothing put at the end.
LEMMA WithNone ==
  ASSUME NEW E, NEW s \in Seq(E)
  PROVE  s \o <<>> = s
OBVIOUS

\* What a step of the collector does to the lists of finalization is Separate, with
\* the userdata S that can no longer be reached.
LEMMA IsSeparate ==
  ASSUME IInv, IInv', stage = "running", stage' = stage,
         NEW S \in SUBSET ToSet(g.finobj), S \cap Reachable' = {}, Reachable' \subseteq Reachable,
         g'.finobj = Kept(g.finobj, Udata \ S),
         g'.tobefnz = g.tobefnz \o Kept(g.finobj, S),
         \A o \in Udata : g.color[o] = "free" => g'.color[o] = "free",
         meta' = {o \in meta : g'.color[o] # "free"}
  PROVE  Promise!Separate
<1> DEFINE st == [o \in Udata |-> Fate(o)]
           N == [o \in Udata |-> IF o \in S THEN "pending" ELSE st[o]]
<1>1. /\ g \in GlobalState /\ Separated(g) /\ g' \in GlobalState /\ Separated(g')
      /\ stage # "closed" /\ stage' # "closed"
  BY DEF IInv, Sound, Heap
<1>2. /\ g.finobj \in Seq(Udata) /\ g.tobefnz \in Seq(Udata)
      /\ ToSet(g.finobj) \subseteq Udata
  BY <1>1 DEF GlobalState, ToSet
<1>3. ToSet(g'.finobj) = ToSet(g.finobj) \ S
  <2>1. ToSet(Kept(g.finobj, Udata \ S)) = ToSet(g.finobj) \cap (Udata \ S)
    BY <1>2, KeptTakes
  <2>. QED  BY <2>1, <1>2
<1>4. ToSet(g'.tobefnz) = ToSet(g.tobefnz) \cup S
  <2> DEFINE s == Kept(g.finobj, S)
  <2>1. s \in Seq(Udata) /\ ToSet(s) = ToSet(g.finobj) \cap S /\ g'.tobefnz = g.tobefnz \o s
    BY <1>2, KeptTakes
  <2>. HIDE DEF s
  <2>2. ToSet(g.tobefnz \o s) = ToSet(g.tobefnz) \cup ToSet(s)
    BY <2>1, <1>2, ConcatSeq
  <2>. QED  BY <2>1, <2>2
<1>5. ASSUME NEW o \in Udata
      PROVE  \/ Fate(o)' = N[o]
             \/ Fate(o)' = "none" /\ Fate(o) \in {"new", "finalized"}
  <2>1. Fate(o) = FateOf(g, meta, o) /\ Fate(o)' = FateOf(g', meta', o)
    BY FateIs
  <2>2. CASE o \in S
    <3>1. Fate(o)' = "pending"
      BY <2>1, <2>2, <1>1, <1>4, Fates
    <3>. QED  BY <3>1, <2>2
  <2>3. CASE o \notin S /\ g.color[o] = "free"
    <3>1. Fate(o) = "none" /\ Fate(o)' = "none"
      BY <2>1, <2>3, <1>1, Fates
    <3>. QED  BY <3>1, <2>3
  <2>4. CASE o \notin S /\ o \in ToSet(g.tobefnz)
    <3>1. Fate(o) = "pending" /\ Fate(o)' = "pending"
      BY <2>1, <2>4, <1>1, <1>4, Fates
    <3>. QED  BY <3>1, <2>4
  <2>5. CASE o \notin S /\ o \in ToSet(g.finobj)
    <3>1. Fate(o) = "live" /\ Fate(o)' = "live"
      BY <2>1, <2>5, <1>1, <1>3, Fates
    <3>. QED  BY <3>1, <2>5
  <2>6. CASE o \notin S /\ g.color[o] # "free" /\ o \notin ToSet(g.tobefnz) \cup ToSet(g.finobj)
    <3>1. Fate(o) = IF o \in meta THEN "finalized" ELSE "new"
      <4>1. FateOf(g, meta, o) = IF o \in meta THEN "finalized" ELSE "new"
        BY <2>6, <1>1, Fates
      <4>. QED  BY <4>1, <2>1
    <3>2. CASE g'.color[o] = "free"
      <4>1. Fate(o)' = "none"
        BY <2>1, <3>2, <1>1, Fates
      <4>. QED  BY <4>1, <3>1
    <3>3. CASE g'.color[o] # "free"
      <4>1. o \notin ToSet(g'.tobefnz) \cup ToSet(g'.finobj)
        BY <2>6, <1>3, <1>4
      <4>3. o \in meta' <=> o \in meta
        BY <3>3
      <4>2. FateOf(g', meta', o) = IF o \in meta' THEN "finalized" ELSE "new"
        BY <4>1, <3>3, <1>1, Fates
      <4>4. Fate(o)' = Fate(o)
        BY <4>2, <4>3, <3>1, <2>1
      <4>. QED  BY <4>4, <2>6
    <3>. QED  BY <3>2, <3>3
  <2>. QED  BY <2>2, <2>3, <2>4, <2>5, <2>6
<1>. HIDE DEF N
<1>6. Promise!Becomes(N)
  BY <1>1, <1>5, MayFree
<1>7. /\ Promise!ToSet(g.finobj) = ToSet(g.finobj)
      /\ Promise!Kept(g.finobj, Udata \ S) = Kept(g.finobj, Udata \ S)
      /\ Promise!Kept(g.finobj, S) = Kept(g.finobj, S)
  BY KeptAlike DEF Promise!ToSet, ToSet
<1>8. S \in SUBSET (Promise!ToSet(g.finobj) \ Reachable')
  BY <1>7
<1>9. Promise!Becomes([o \in Udata |-> IF o \in S THEN "pending" ELSE st[o]])
  BY <1>6 DEF N
<1>. QED  BY <1>7, <1>8, <1>9 DEF Promise!Separate

\* So is a step that leaves those lists as they are; it may free others.
LEMMA IsSweep ==
  ASSUME IInv, IInv', stage = "running", stage' = stage,
         Reachable' \subseteq Reachable, Leaves(g, g'),
         meta' = {o \in meta : g'.color[o] # "free"}
  PROVE  Promise!Separate
<1>1. g.finobj \in Seq(Udata) /\ g.tobefnz \in Seq(Udata) /\ ToSet(g.finobj) \subseteq Udata
  BY DEF IInv, Sound, Heap, GlobalState, ToSet
<1>2. {} \in SUBSET ToSet(g.finobj) /\ {} \cap Reachable' = {}
  OBVIOUS
<1>3. Kept(g.finobj, Udata \ {}) = g.finobj
  BY <1>1, KeptWhole
<1>4. Kept(g.finobj, {}) = <<>>
  BY <1>1, KeptNone
<1>5. g.tobefnz \o Kept(g.finobj, {}) = g.tobefnz
  <2>1. g.tobefnz \o <<>> = g.tobefnz
    BY <1>1, WithNone
  <2>. QED  BY <2>1, <1>4
<1>. QED  BY <1>2, <1>3, <1>5, IsSeparate DEF Leaves

\* A userdata gets its metatable, and its place in finobj.
LEMMA IsMark ==
  ASSUME IInv, IInv', stage # "closed", stage' = stage, NEW o \in Reachable,
         o \notin ToSet(g.finobj) \cup ToSet(g.tobefnz),
         g'.finobj = <<o>> \o g.finobj, g'.tobefnz = g.tobefnz,
         \A u \in Udata : g.color[u] = "free" => g'.color[u] = "free",
         meta' = {u \in meta \cup {o} : g'.color[u] # "free"},
         Reachable' = Reachable
  PROVE  Promise!Mark(o)
<1> DEFINE st == [u \in Udata |-> Fate(u)]
           N == [st EXCEPT ![o] = "live"]
<1>1. /\ g \in GlobalState /\ Separated(g) /\ g' \in GlobalState /\ Separated(g')
      /\ stage # "closed" /\ stage' # "closed"
  BY DEF IInv, Sound, Heap
<1>2. o \in Udata /\ g.color[o] # "free"
  BY ReachableLive
<1>3. ToSet(g'.finobj) = {o} \cup ToSet(g.finobj)
  <2>1. g.finobj \in Seq(Udata)
    BY <1>1 DEF GlobalState
  <2>. QED  BY <1>2, <2>1, ConsSeq
<1>4. Fate(o) \in {"new", "finalized"}
  <2>1. Fate(o) = FateOf(g, meta, o)
    BY <1>2, FateIs
  <2>. QED  BY <2>1, <1>1, <1>2, Fates
<1>5. ASSUME NEW u \in Udata
      PROVE  \/ Fate(u)' = N[u]
             \/ Fate(u)' = "none" /\ Fate(u) \in {"new", "finalized"}
  <2>1. Fate(u) = FateOf(g, meta, u) /\ Fate(u)' = FateOf(g', meta', u)
    BY FateIs
  <2>2. CASE u = o
    <3>1. Fate(u)' = "live"
      BY <2>1, <2>2, <1>1, <1>3, Fates
    <3>. QED  BY <3>1, <2>2
  <2>3. CASE u # o /\ g.color[u] = "free"
    <3>1. Fate(u) = "none" /\ Fate(u)' = "none"
      BY <2>1, <2>3, <1>1, Fates
    <3>. QED  BY <3>1, <2>3
  <2>4. CASE u # o /\ u \in ToSet(g.tobefnz)
    <3>1. Fate(u) = "pending" /\ Fate(u)' = "pending"
      BY <2>1, <2>4, <1>1, Fates
    <3>. QED  BY <3>1, <2>4
  <2>5. CASE u # o /\ u \in ToSet(g.finobj)
    <3>1. Fate(u) = "live" /\ Fate(u)' = "live"
      BY <2>1, <2>5, <1>1, <1>3, Fates
    <3>. QED  BY <3>1, <2>5
  <2>6. CASE u # o /\ g.color[u] # "free" /\ u \notin ToSet(g.tobefnz) \cup ToSet(g.finobj)
    <3>1. Fate(u) = IF u \in meta THEN "finalized" ELSE "new"
      BY <2>1, <2>6, <1>1, Fates
    <3>2. CASE g'.color[u] = "free"
      <4>1. Fate(u)' = "none"
        BY <2>1, <3>2, <1>1, Fates
      <4>. QED  BY <4>1, <3>1
    <3>3. CASE g'.color[u] # "free"
      <4>1. u \notin ToSet(g'.tobefnz) \cup ToSet(g'.finobj)
        BY <2>6, <1>3
      <4>2. Fate(u)' = IF u \in meta' THEN "finalized" ELSE "new"
        BY <4>1, <3>3, <2>1, <1>1, Fates
      <4>. QED  BY <4>2, <3>1, <3>3, <2>6
    <3>. QED  BY <3>2, <3>3
  <2>. QED  BY <2>2, <2>3, <2>4, <2>5, <2>6
<1>. HIDE DEF N
<1>6. Promise!Becomes(N)
  BY <1>1, <1>5, MayFree
<1>7. Promise!Becomes([st EXCEPT ![o] = "live"])
  BY <1>6 DEF N
<1>. QED  BY <1>2, <1>4, <1>7 DEF Promise!Mark

\* luaC_checkfinalizer puts the userdata in front of finobj.
LEMMA ChecksFinalizer ==
  ASSUME NEW h, Heap(h), NEW o \in Udata, h.color[o] # "free",
         o \notin ToSet(h.finobj) \cup ToSet(h.tobefnz),
         NEW k, k = luaC_checkfinalizer(h, o)
  PROVE  /\ k.finobj = <<o>> \o h.finobj /\ k.tobefnz = h.tobefnz
         /\ \A x \in Udata : h.color[x] = "free" => k.color[x] = "free"
<1> DEFINE w == IF issweepphase(h) THEN makewhite(h, o) ELSE h
           s == IF issweepphase(h) /\ h.sweepgc = o THEN sweeptolive(w) ELSE w
           u == Unlinked(s, {o})
<1>1. k = [u EXCEPT !.finobj = <<o>> \o @]
  BY DEF luaC_checkfinalizer
<1>2. s = IF issweepphase(h) /\ h.sweepgc = o THEN sweeptolive(w) ELSE w
  OBVIOUS
<1>3. /\ Heap(w) /\ w.sweepgc = h.sweepgc /\ Leaves(h, w)
  <2>1. CASE issweepphase(h)
    <3>1. w = makewhite(h, o)
      BY <2>1
    <3>. HIDE DEF w
    <3>2. /\ Heap(w) /\ w.sweepgc = h.sweepgc /\ w.finobj = h.finobj /\ w.tobefnz = h.tobefnz
          /\ \A x \in Objects : x # o => w.color[x] = h.color[x]
      BY <3>1, MakesWhite
    <3>. QED  BY <3>2 DEF Leaves, Objects
  <2>2. CASE ~issweepphase(h)
    BY <2>2 DEF Leaves
  <2>. QED  BY <2>1, <2>2
<1>. HIDE DEF w, s
<1>4. Leaves(h, s) /\ s \in GlobalState /\ Separated(s)
  <2>1. CASE issweepphase(h) /\ h.sweepgc = o
    <3>1. o # "NULL"
      BY Distinct DEF Objects
    <3>2. w.sweepgc # "NULL" /\ s = sweeptolive(w)
      BY <2>1, <3>1, <1>2, <1>3
    <3>3. Heap(s) /\ Leaves(w, s)
      BY <3>2, <1>3, HeapSweepsToLive, SweepToLiveLeaves
    <3>. QED  BY <3>3, <1>3, LeavesMore DEF Heap
  <2>2. CASE ~(issweepphase(h) /\ h.sweepgc = o)
    BY <2>2, <1>2, <1>3 DEF Heap
  <2>. QED  BY <2>1, <2>2
<1>5. u = Unlinked(s, {o})
  OBVIOUS
<1>. HIDE DEF u
<1>6. u \in GlobalState /\ u.color = s.color
  BY <1>4, <1>5, Unlinks
<1>7. u.finobj = Kept(s.finobj, Objects \ {o}) /\ u.tobefnz = Kept(s.tobefnz, Objects \ {o})
  BY <1>4, <1>5 DEF Unlinked, GlobalState
<1>8. s.finobj = h.finobj /\ s.tobefnz = h.tobefnz
  BY <1>4 DEF Leaves
<1>9. u.finobj = h.finobj /\ u.tobefnz = h.tobefnz
  <2>1. /\ h.finobj \in Seq(Udata) /\ h.tobefnz \in Seq(Udata)
        /\ ToSet(h.finobj) \subseteq Objects \ {o} /\ ToSet(h.tobefnz) \subseteq Objects \ {o}
    BY DEF Heap, GlobalState, Separated
  <2>2. /\ Kept(h.finobj, Objects \ {o}) = h.finobj
        /\ Kept(h.tobefnz, Objects \ {o}) = h.tobefnz
    BY <2>1, KeptWhole
  <2>. QED  BY <2>2, <1>7, <1>8
<1>10. k.finobj = <<o>> \o u.finobj /\ k.tobefnz = u.tobefnz /\ k.color = u.color
  BY <1>1, <1>6 DEF GlobalState
<1>. QED  BY <1>4, <1>6, <1>9, <1>10 DEF Leaves

\* The barrier leaves the lists of finalization.
LEMMA BarrierLeaves ==
  ASSUME NEW h, Heap(h), NEW o \in Udata, h.color[o] # "free",
         NEW k, k = luaC_barrier(h, o, Metatable)
  PROVE  Leaves(h, k) /\ \A x \in Udata : h.color[x] # "free" => k.color[x] # "free"
<1>1. CASE ~(isblack(h, o) /\ iswhite(h, Metatable))
  BY <1>1 DEF luaC_barrier, Leaves
<1>2. CASE isblack(h, o) /\ iswhite(h, Metatable) /\ keepinvariant(h)
  <2>1. k = reallymarkobject(h, {Metatable}) /\ {Metatable} \in SUBSET Objects
    BY <1>2 DEF luaC_barrier, Objects, Tables
  <2>2. Marks(h, k)
    BY <2>1, ReallyMarks DEF Heap
  <2>. QED  BY <2>2, MarksLeave DEF Marks, Objects
<1>3. CASE isblack(h, o) /\ iswhite(h, Metatable) /\ ~keepinvariant(h)
  <2>1. k = makewhite(h, o)
    BY <1>3 DEF luaC_barrier
  <2>2. /\ k.finobj = h.finobj /\ k.tobefnz = h.tobefnz
        /\ k.color[o] = h.currentwhite
        /\ \A x \in Objects : x # o => k.color[x] = h.color[x]
    BY <2>1, MakesWhite
  <2>3. h.currentwhite # "free"
    BY Whitenesses DEF Heap, GlobalState
  <2>. QED  BY <2>2, <2>3 DEF Leaves, Objects
<1>. QED  BY <1>1, <1>2, <1>3

\* What gets its metatable, and nothing else, is new in the lists of finalization.
LEMMA StaysPromised ==
  ASSUME IInv', NEW M, ToSet(g'.finobj) \cup ToSet(g'.tobefnz) \subseteq M,
         meta' = {o \in M : g'.color[o] # "free"}
  PROVE  Promised'
<1>1. Separated(g')
  BY DEF IInv, Sound, Heap
<1>2. \A o \in ToSet(g'.finobj) \cup ToSet(g'.tobefnz) : g'.color[o] # "free"
  BY <1>1 DEF Separated
<1>. QED  BY <1>2 DEF Promised

\* A step that leaves every userdata where it is.
LEMMA IsForget ==
  ASSUME \A o \in Udata : Fate(o)' = Fate(o), g'.finobj = g.finobj, g'.tobefnz = g.tobefnz,
         Reachable' \subseteq Reachable, stage' = stage
  PROVE  Promise!Forget
<1> DEFINE st == [o \in Udata |-> Fate(o)]
<1>1. st' = [o \in Udata |-> Fate(o)']
  OBVIOUS
<1>2. st' = st
  BY <1>1
<1>. QED  BY <1>2 DEF Promise!Forget

\* luaC_newobj.
LEMMA NewobjPromised ==
  ASSUME IInv, IInv', Promised, luaC_newobj
  PROVE  Promised' /\ Promise!Next
<1>1. /\ stage # "closed" /\ stage' = stage /\ Heap(g) /\ Heap(g')
      /\ UNCHANGED <<ref, meta, stage>>
  BY DEF IInv, luaC_newobj, Runs, Sound
<1>2. PICK o \in Udata :
        /\ g.color[o] = "free"
        /\ g' = [makewhite(g, o) EXCEPT !.allgc = <<o>> \o @]
        /\ stack' = stack \cup {o}
  BY DEF luaC_newobj
<1>3. /\ g'.finobj = g.finobj /\ g'.tobefnz = g.tobefnz
      /\ g'.color = [g.color EXCEPT ![o] = g.currentwhite]
  BY <1>1, <1>2 DEF makewhite, Heap, GlobalState
<1>4. /\ g.color \in [Objects -> Color] /\ o \in Objects /\ Udata \subseteq Objects
      /\ g.currentwhite # "free"
  BY <1>1, Whitenesses DEF Heap, GlobalState, Objects
<1>5. g'.color[o] # "free" /\ \A u \in Udata : u # o => g'.color[u] = g.color[u]
  BY <1>3, <1>4
<1>6. o \notin meta /\ o \notin ToSet(g.finobj) \cup ToSet(g.tobefnz)
  BY <1>1, <1>2 DEF IInv, Sound, Heap, Separated
<1> DEFINE st == [u \in Udata |-> Fate(u)]
<1>7. Fate(o) = "none" /\ Fate(o)' = "new"
  BY <1>1, <1>2, <1>3, <1>5, <1>6 DEF Fate
<1>8. \A u \in Udata : u # o => Fate(u)' = Fate(u)
  BY <1>1, <1>3, <1>5 DEF Fate
<1>9. st' = [u \in Udata |-> Fate(u)']
  OBVIOUS
<1>10. st' = [st EXCEPT ![o] = "new"]
  BY <1>7, <1>8, <1>9
<1>11. Reachable' = Reachable \cup {o}
  BY <1>1, <1>2 DEF Reachable
<1>12. Promise!Create(o)
  BY <1>1, <1>3, <1>7, <1>10, <1>11 DEF Promise!Create
<1>13. Promised'
  BY <1>1, <1>3 DEF Promised
<1>. QED  BY <1>12, <1>13 DEF Promise!Next

\* lua_setmetatable.
LEMMA SetmetatablePromised ==
  ASSUME IInv, IInv', Promised, lua_setmetatable
  PROVE  Promised' /\ Promise!Next
<1>1. /\ stage # "closed" /\ stage' = stage /\ Sound /\ Heap(g)
      /\ UNCHANGED <<ref, stack, stage>>
  BY DEF IInv, lua_setmetatable, Runs, Sound
<1>2. PICK o \in stack :
        LET h == luaC_checkfinalizer(luaC_barrier(g, o, Metatable), o)
        IN  /\ g' = h
            /\ meta' = {u \in meta \cup {o} : h.color[u] # "free"}
  BY DEF lua_setmetatable
<1> DEFINE b == luaC_barrier(g, o, Metatable)
<1>3. /\ g' = luaC_checkfinalizer(b, o)
      /\ meta' = {u \in meta \cup {o} : g'.color[u] # "free"}
      /\ b = luaC_barrier(g, o, Metatable)
  BY <1>2
<1>. HIDE DEF b
<1>4. o \in Udata /\ o \in Reachable /\ g.color[o] # "free" /\ Metatable \in Objects
  BY <1>1 DEF Sound, Holds, Lives, Used, Objects, Tables, Reachable
<1>5. Leaves(g, b) /\ Heap(b) /\ b.color[o] # "free"
  <2>1. o \notin Dead(g) /\ o \in Objects
    BY <1>1, <1>4 DEF Sound, Lives, Used, Objects
  <2>2. Leaves(g, b) /\ Heap(b) /\ Spares(g, b)
    BY <1>1, <1>3, <1>4, BarrierLeaves, HeapBarrier
  <2>. QED  BY <2>1, <2>2, <1>4 DEF Spares
<1>6. b.finobj = g.finobj /\ b.tobefnz = g.tobefnz
      /\ \A u \in Udata : g.color[u] = "free" => b.color[u] = "free"
  BY <1>5 DEF Leaves
<1>7. Reachable' = Reachable
  BY <1>1 DEF Reachable
<1>8. ToSet(g.finobj) \cup ToSet(g.tobefnz) \subseteq meta
  BY <1>1 DEF Promised
<1>9. CASE o \in ToSet(g.finobj) \cup ToSet(g.tobefnz)
  <2>1. g' = b
    BY <1>3, <1>6, <1>9 DEF luaC_checkfinalizer
  <2>2. meta \cup {o} = meta
    BY <1>8, <1>9
  <2>3. Leaves(g, g') /\ meta' = {u \in meta : g'.color[u] # "free"}
    BY <2>1, <2>2, <1>3, <1>5
  <2>4. /\ ToSet(g'.finobj) \cup ToSet(g'.tobefnz) \subseteq meta
    BY <2>1, <1>6, <1>8
  <2>5. Promised'
    BY <2>3, <2>4, StaysPromised
  <2>6. \A u \in Udata : g'.color[u] = "free" <=> g.color[u] = "free"
    BY <2>1, <1>1, <1>3, <1>4, <1>6, BarrierLeaves
  <2>7. \A u \in Udata : g.color[u] # "free" => (u \in meta' <=> u \in meta)
    BY <2>3, <2>6
  <2>8. \A u \in Udata : Fate(u)' = Fate(u)
    BY <2>1, <2>6, <2>7, <1>6 DEF Fate
  <2>9. Promise!Forget
    BY <2>1, <2>8, <1>1, <1>6, <1>7, IsForget
  <2>. QED  BY <2>5, <2>9 DEF Promise!Next
<1>10. CASE o \notin ToSet(g.finobj) \cup ToSet(g.tobefnz)
  <2>1. /\ g'.finobj = <<o>> \o b.finobj /\ g'.tobefnz = b.tobefnz
        /\ \A x \in Udata : b.color[x] = "free" => g'.color[x] = "free"
    BY <1>3, <1>4, <1>5, <1>6, <1>10, ChecksFinalizer
  <2>2. Promise!Mark(o)
    BY <2>1, <1>1, <1>3, <1>4, <1>6, <1>7, <1>10, IsMark
  <2>3. ToSet(g'.finobj) \cup ToSet(g'.tobefnz) \subseteq meta \cup {o}
    <3>1. g.finobj \in Seq(Udata)
      BY <1>1 DEF Heap, GlobalState
    <3>2. ToSet(<<o>> \o g.finobj) = {o} \cup ToSet(g.finobj)
      BY <3>1, <1>4, ConsSeq
    <3>. QED  BY <3>2, <2>1, <1>6, <1>8
  <2>4. Promised'
    BY <2>3, <1>3, StaysPromised
  <2>. QED  BY <2>2, <2>4, <1>4 DEF Promise!Next
<1>. QED  BY <1>9, <1>10

\* What is held moves between the stack and the tables, or is let go.
LEMMA StackPromised ==
  ASSUME IInv, IInv', Promised, lua_rawset \/ erase \/ lua_rawget \/ lua_pop
  PROVE  Promised' /\ Promise!Next
<1>1. /\ stage # "closed" /\ Holds /\ Heap(g)
      /\ UNCHANGED <<meta, stage>>
  BY DEF IInv, lua_rawset, erase, lua_rawget, lua_pop, Runs, Sound
<1>2. Registry \in Tables /\ WeakTable \in Tables /\ ref \in [Tables -> SUBSET Objects]
  BY <1>1 DEF Tables, Holds
<1>3. /\ g'.finobj = g.finobj /\ g'.tobefnz = g.tobefnz
      /\ \A o \in Udata : g'.color[o] = g.color[o]
      /\ Reachable' \subseteq Reachable
  <2>1. CASE lua_rawset
    <3>1. PICK t \in {Registry, WeakTable}, v \in stack :
            /\ ref' = [ref EXCEPT ![t] = @ \cup {v}]
            /\ g' = luaC_barrierback(g, t, v)
      BY <2>1 DEF lua_rawset
    <3>2. t \notin Udata /\ stack' = stack
      BY <2>1, Distinct DEF lua_rawset
    <3>3. /\ g'.finobj = g.finobj /\ g'.tobefnz = g.tobefnz
          /\ \A o \in Objects : o # t => g'.color[o] = g.color[o]
      BY <3>1, <1>1 DEF luaC_barrierback, Heap, GlobalState
    <3>4. Reachable' \subseteq Reachable
      BY <3>1, <3>2, <1>2 DEF Reachable
    <3>. QED  BY <3>2, <3>3, <3>4 DEF Objects
  <2>2. CASE erase
    <3>1. PICK t \in {Registry, WeakTable} : \E v \in ref[t] \cap Udata : ref' = [ref EXCEPT ![t] = @ \ {v}]
      BY <2>2 DEF erase
    <3>2. stack' = stack /\ g' = g
      BY <2>2 DEF erase
    <3>. QED  BY <3>1, <3>2, <1>2 DEF Reachable
  <2>3. CASE lua_rawget
    <3>1. PICK t \in {Registry, WeakTable} : \E v \in (ref[t] \cap Udata) \ stack : stack' = stack \cup {v}
      BY <2>3 DEF lua_rawget
    <3>2. ref' = ref /\ g' = g
      BY <2>3 DEF lua_rawget
    <3>. QED  BY <3>1, <3>2 DEF Reachable
  <2>4. CASE lua_pop
    BY <2>4 DEF lua_pop, Reachable
  <2>. QED  BY <2>1, <2>2, <2>3, <2>4
<1>4. \A o \in Udata : Fate(o)' = Fate(o)
  BY <1>1, <1>3 DEF Fate
<1>5. Promised'
  BY <1>1, <1>3 DEF Promised
<1>6. Promise!Forget
  BY <1>1, <1>3, <1>4, IsForget
<1>. QED  BY <1>5, <1>6 DEF Promise!Next

\* A finalizer starts: the first of tobefnz is finalized.
LEMMA GCTMPromised ==
  ASSUME IInv, IInv', Promised, GCTM
  PROVE  Promised' /\ Promise!Next
<1>1. /\ stage # "closed" /\ stage' = stage /\ Heap(g) /\ Heap(g')
      /\ g.tobefnz # <<>> /\ g' = udata2finalize(g)
      /\ stack' = stack \cup {Head(g.tobefnz)}
      /\ UNCHANGED <<ref, meta>>
  BY DEF IInv, GCTM, Sound
<1> DEFINE st == [u \in Udata |-> Fate(u)]
<1>2. /\ g \in GlobalState /\ Separated(g) /\ g' \in GlobalState /\ Separated(g')
      /\ g.tobefnz \in Seq(Udata) /\ IsInjective(g.tobefnz)
  BY <1>1 DEF Heap, GlobalState, Separated
<1>0. PICK o \in Udata : o = Head(g.tobefnz)
  BY <1>1, <1>2, TailSeq
<1>3. /\ g'.finobj = g.finobj /\ g'.tobefnz = Tail(g.tobefnz)
      /\ \A u \in Objects : u # o => g'.color[u] = g.color[u]
  BY <1>0, <1>1, <1>2 DEF udata2finalize, makewhite, GlobalState
<1>4. o \in ToSet(g.tobefnz) /\ ToSet(g'.tobefnz) = ToSet(g.tobefnz) \ {o}
  BY <1>0, <1>1, <1>2, <1>3, TailSeq
<1>5. o \in meta /\ o \notin ToSet(g.finobj)
  BY <1>1, <1>2, <1>4 DEF Promised, Separated
<1>6. g.color[o] # "free" /\ o \in Objects
  BY <1>2, <1>4 DEF Separated
<1>7. g'.color[o] # "free"
  BY <1>1, <1>2, <1>6, FinalizesNone
<1>8. Fate(o)' = "finalized"
  BY <1>1, <1>3, <1>4, <1>5, <1>7 DEF Fate
<1>9. \A u \in Udata : u # o => Fate(u)' = Fate(u)
  BY <1>1, <1>3, <1>4 DEF Fate, Objects
<1>10. st' = [u \in Udata |-> Fate(u)']
  OBVIOUS
<1>11. st' = [st EXCEPT ![o] = "finalized"]
  BY <1>4, <1>8, <1>9, <1>10
<1>12. Reachable' = Reachable \cup {o}
  BY <1>0, <1>1, <1>4 DEF Reachable
<1>13. Promise!Finalize
  BY <1>0, <1>1, <1>3, <1>11, <1>12 DEF Promise!Finalize
<1>14. Promised'
  BY <1>1, <1>3, <1>4 DEF Promised
<1>. QED  BY <1>13, <1>14 DEF Promise!Next

\* A step of the collector, but for the atomic one, may free some userdata.
LEMMA SweepsPromised ==
  ASSUME IInv, IInv', Promised, singlestep, g.gcstate # "atomic"
  PROVE  Promised' /\ Promise!Next
<1>1. /\ stage = "running" /\ stage' = stage /\ stack' = stack /\ ref' = ref
      /\ g \in GlobalState
  BY DEF IInv, singlestep, Sound, Heap
<1>2. PICK h \in Steps(g) : g' = Followed(h) /\ meta' = {o \in meta : h.color[o] # "free"}
  BY DEF singlestep
<1>3. Leaves(g, h)
  BY <1>1, <1>2, StepsLeave
<1>4. Stepped(h)
  BY <1>1, <1>2, StepsSound
<1>5. g'.finobj = h.finobj /\ g'.tobefnz = h.tobefnz /\ g'.color = h.color
  BY <1>2, <1>4, FollowedLeaves DEF Stepped, Heap
<1>6. Leaves(g, g') /\ meta' = {o \in meta : g'.color[o] # "free"}
  BY <1>2, <1>3, <1>5 DEF Leaves
<1>7. Reachable' = Reachable
  BY <1>1 DEF Reachable
<1>8. Promise!Separate
  BY <1>1, <1>6, <1>7, IsSweep
<1>9. ToSet(g'.finobj) \cup ToSet(g'.tobefnz) \subseteq meta
  BY <1>1, <1>6 DEF Leaves, Promised
<1>10. Promised'
  BY <1>6, <1>9, StaysPromised
<1>. QED  BY <1>8, <1>10 DEF Promise!Next

\* A full collection begins.
LEMMA FullgcPromised ==
  ASSUME IInv, IInv', Promised, luaC_fullgc
  PROVE  Promised' /\ Promise!Next
<1>1. /\ stage = "running" /\ stage' = stage /\ Heap(g) /\ meta \subseteq Udata
      /\ UNCHANGED <<ref, meta, stack>>
  BY DEF IInv, luaC_fullgc, Sound
<1> DEFINE h == IF keepinvariant(g) THEN entersweep(g) ELSE g
           f == IF g.gcstate = "pause" THEN "collect" ELSE "finish"
<1>2. PICK e \in BOOLEAN : g' = [h EXCEPT !.full = f, !.emergency = e]
  BY DEF luaC_fullgc
<1>3. Leaves(g, h) /\ h \in GlobalState
  <2>1. CASE keepinvariant(g)
    <3>1. h = entersweep(g)
      BY <2>1
    <3>. HIDE DEF h
    <3>2. Heap(h)
      BY <3>1, <2>1, <1>1, HeapGivesUp
    <3>. QED  BY <3>1, <3>2, <2>1, <1>1, GivesUpLeaves DEF Heap
  <2>2. CASE ~keepinvariant(g)
    BY <2>2, <1>1 DEF Leaves, Heap
  <2>. QED  BY <2>1, <2>2
<1>. HIDE DEF h, f
<1>4. g'.finobj = h.finobj /\ g'.tobefnz = h.tobefnz /\ g'.color = h.color
  BY <1>2, <1>3 DEF GlobalState
<1>5. Leaves(g, g')
  BY <1>3, <1>4 DEF Leaves
<1>6. meta' = {o \in meta : g'.color[o] # "free"}
  <2>1. \A o \in meta' : g'.color[o] # "free"
    BY <1>1 DEF IInv, Sound
  <2>. QED  BY <2>1, <1>1
<1>7. Reachable' = Reachable
  BY <1>1 DEF Reachable
<1>8. Promise!Separate
  BY <1>1, <1>5, <1>6, <1>7, IsSweep
<1>9. Promised'
  BY <1>1, <1>5 DEF Leaves, Promised
<1>. QED  BY <1>8, <1>9 DEF Promise!Next

\* The userdata S, which cannot be reached any more, go from finobj to tobefnz.
Goes(h, S, k) ==
  /\ S \cap (stack \cup ref[Registry] \cup (ref[WeakTable] \ cleared(h))) = {}
  /\ k.finobj = Kept(h.finobj, Udata \ S)
  /\ k.tobefnz = Queued(h, S)
  /\ \A o \in Udata : h.color[o] = "free" => k.color[o] = "free"

\* atomic sends the userdata in finobj that are still white to tobefnz; they are neither
\* held nor, when its entries are cleared, in the weak table.
LEMMA AtomicSends ==
  ASSUME NEW h, Heap(h), h.gcstate = "atomic", Holds, Marking(h, ref),
         NEW k, k = entersweep(atomic(h))
  PROVE  \E S \in SUBSET ToSet(h.finobj) : Goes(h, S, k)
<1> DEFINE m == Marked(h)
           a == atomic(h)
           S == ToSet(h.finobj) \cap Whites(m)
<1>1. k = entersweep(a) /\ m = Marked(h) /\ a = atomic(h)
  OBVIOUS
<1>2. cleared(h) = {v \in ref[WeakTable] : iswhite(m, v)}
  BY DEF cleared
<1>. HIDE DEF m, a
<1>3. /\ a \in GlobalState /\ Separated(a)
      /\ \A x \in Udata : a.color[x] # "gray"
      /\ \A x \in Nodes : a.color[x] # "free" /\ x \notin Dead(a)
      /\ a.color[MainThread] = "gray" /\ Dead(a) \subseteq ToSet(a.allgc)
      /\ \A v \in stack \cup ref[Registry] : m.color[v] \notin White
      /\ \A x \in Objects : a.color[x] = "free" <=> h.color[x] = "free"
      /\ a.finobj = Kept(h.finobj, Objects \ Whites(m))
      /\ a.tobefnz = Queued(h, Whites(m))
  <2>1. AfterAtomic(h, m, a)
    BY <1>1, Atomic
  <2>. QED  BY <2>1 DEF AfterAtomic
<1>4. Leaves(a, k)
  BY <1>1, <1>3, EntersLeaves
<1>5. h.finobj \in Seq(Udata) /\ ToSet(h.finobj) \subseteq Udata /\ Udata \subseteq Objects
  BY DEF Heap, GlobalState, ToSet, Objects
<1>6. Kept(h.finobj, Objects \ Whites(m)) = Kept(h.finobj, Udata \ S)
  <2>1. ToSet(h.finobj) \cap (Objects \ Whites(m)) = ToSet(h.finobj) \cap (Udata \ S)
    BY <1>5
  <2>. QED  BY <2>1, <1>5, KeptSame
<1>7. Kept(h.finobj, Whites(m)) = Kept(h.finobj, S)
  <2>1. ToSet(h.finobj) \cap Whites(m) = ToSet(h.finobj) \cap S
    OBVIOUS
  <2>. QED  BY <2>1, <1>5, KeptSame
<1>8. S \cap (stack \cup ref[Registry] \cup (ref[WeakTable] \ cleared(h))) = {}
  <2>1. ASSUME NEW o \in S, o \in stack \cup ref[Registry] \cup (ref[WeakTable] \ cleared(h))
        PROVE  FALSE
    <3>1. iswhite(m, o)
      BY <2>1 DEF Whites
    <3>. QED  BY <3>1, <2>1, <1>2, <1>3 DEF iswhite
  <2>. QED  BY <2>1
<1>9. S \in SUBSET ToSet(h.finobj)
  OBVIOUS
<1>10. \A o \in Udata : h.color[o] = "free" => k.color[o] = "free"
  BY <1>3, <1>4, <1>5 DEF Leaves
<1>11. k.finobj = Kept(h.finobj, Udata \ S) /\ k.tobefnz = Queued(h, S)
  BY <1>3, <1>4, <1>6, <1>7 DEF Leaves, Queued
<1>. HIDE DEF S
<1>12. Goes(h, S, k)
  BY <1>8, <1>10, <1>11 DEF Goes
<1>. QED  BY <1>9, <1>12

\* The atomic step: the userdata in finobj that are still white go to tobefnz.
LEMMA AtomicPromised ==
  ASSUME IInv, IInv', Promised, singlestep, g.gcstate = "atomic"
  PROVE  Promised' /\ Promise!Next
<1>1. /\ stage = "running" /\ stage' = stage /\ stack' = stack
      /\ Heap(g) /\ Holds /\ Marking(g, ref)
      /\ g.finobj \in Seq(Udata) /\ g.tobefnz \in Seq(Udata)
  BY DEF IInv, singlestep, Sound, Heap, GlobalState
<1>2. PICK h \in Steps(g) : g' = Followed(h) /\ meta' = {o \in meta : h.color[o] # "free"}
  BY DEF singlestep
<1>3. h = entersweep(atomic(g)) /\ ref' = [ref EXCEPT ![WeakTable] = @ \ cleared(g)]
  BY <1>2 DEF singlestep, Steps
<1>4. PICK S \in SUBSET ToSet(g.finobj) : Goes(g, S, h)
  BY <1>1, <1>3, AtomicSends
<1>5. /\ S \cap (stack \cup ref[Registry] \cup (ref[WeakTable] \ cleared(g))) = {}
      /\ h.finobj = Kept(g.finobj, Udata \ S)
      /\ h.tobefnz = Queued(g, S)
      /\ \A o \in Udata : g.color[o] = "free" => h.color[o] = "free"
  BY <1>4 DEF Goes
<1>6. Stepped(h)
  BY <1>1, <1>2, StepsSound DEF singlestep
<1>7. g'.finobj = h.finobj /\ g'.tobefnz = h.tobefnz /\ g'.color = h.color
  BY <1>2, <1>6, FollowedLeaves DEF Stepped, Heap
<1>8. meta' = {o \in meta : g'.color[o] # "free"}
  BY <1>2, <1>7
<1>9. ref'[Registry] = ref[Registry] /\ ref'[WeakTable] = ref[WeakTable] \ cleared(g)
  <2>1. ref \in [Tables -> SUBSET Objects] /\ Registry # WeakTable
        /\ Registry \in Tables /\ WeakTable \in Tables
    BY <1>1, Distinct DEF Holds, Tables
  <2>. QED  BY <2>1, <1>3
<1>10. Reachable' \subseteq Reachable /\ S \cap Reachable' = {}
  BY <1>1, <1>5, <1>9 DEF Reachable
<1>11. /\ g'.finobj = Kept(g.finobj, Udata \ S) /\ g'.tobefnz = g.tobefnz \o Kept(g.finobj, S)
       /\ \A o \in Udata : g.color[o] = "free" => g'.color[o] = "free"
  BY <1>5, <1>7 DEF Queued
<1>12. Promise!Separate
  BY <1>1, <1>8, <1>10, <1>11, IsSeparate
<1>13. ToSet(g'.finobj) \cup ToSet(g'.tobefnz) \subseteq meta
  <2>1. ToSet(g.finobj) \cup ToSet(g.tobefnz) \subseteq meta
    BY <1>1 DEF Promised
  <2>2. ToSet(g'.finobj) \subseteq ToSet(g.finobj)
    BY <1>1, <1>11, KeptTakes
  <2> DEFINE s == Kept(g.finobj, S)
  <2>3. s \in Seq(Udata) /\ ToSet(s) \subseteq ToSet(g.finobj) /\ g'.tobefnz = g.tobefnz \o s
    BY <1>1, <1>11, KeptTakes
  <2>. HIDE DEF s
  <2>4. ToSet(g'.tobefnz) = ToSet(g.tobefnz) \cup ToSet(s)
    BY <2>3, <1>1, ConcatSeq
  <2>. QED  BY <2>1, <2>2, <2>3, <2>4
<1>14. Promised'
  BY <1>8, <1>13, StaysPromised
<1>. QED  BY <1>12, <1>14 DEF Promise!Next

\* lua_close begins: what is left waits for its finalizer, as last marked.
LEMMA ClosePromised ==
  ASSUME IInv, IInv', Promised, lua_close
  PROVE  Promised' /\ Promise!Next
<1>1. /\ stage = "running" /\ stage' = "closing" /\ stack' = {}
      /\ Heap(g) /\ g \in GlobalState /\ Separated(g) /\ g' = separatetobefnz(g, TRUE)
      /\ g.finobj \in Seq(Udata) /\ g.tobefnz \in Seq(Udata)
      /\ UNCHANGED <<ref, meta>>
  BY DEF IInv, lua_close, Sound, Heap, GlobalState
<1>2. g' = Sent(g, Objects)
  BY SentAre DEF lua_close
<1>3. /\ g'.finobj = Kept(g.finobj, Objects \ Objects)
      /\ g'.tobefnz = g.tobefnz \o Kept(g.finobj, Objects)
      /\ g'.color = g.color
  BY <1>1, <1>2 DEF Sent, GlobalState
<1>4. /\ ToSet(g.finobj) \subseteq Objects /\ ToSet(g.finobj) \cap (Objects \ Objects) = {}
      /\ ToSet(g.finobj) \subseteq Udata
  BY <1>1 DEF Objects, ToSet
<1>5. g'.finobj = <<>>
  BY <1>1, <1>3, <1>4, KeptNone
<1>6. g'.tobefnz = g.tobefnz \o g.finobj
  BY <1>1, <1>3, <1>4, KeptWhole
<1>7. ToSet(g'.finobj) = {} /\ ToSet(g'.tobefnz) = ToSet(g.tobefnz) \cup ToSet(g.finobj)
  <2>1. ToSet(g.tobefnz \o g.finobj) = ToSet(g.tobefnz) \cup ToSet(g.finobj)
    BY <1>1, ConcatSeq
  <2>2. g'.finobj \in Seq(Udata) /\ Len(g'.finobj) = 0
    BY <1>5
  <2>3. ToSet(g'.finobj) = {}
    BY <2>2, NoneListed
  <2>. QED  BY <2>1, <2>3, <1>6
<1> DEFINE st == [o \in Udata |-> Fate(o)]
<1>8. ASSUME NEW o \in Udata
      PROVE  Fate(o)' = IF st[o] = "live" THEN "pending" ELSE st[o]
  <2>1. Fate(o)' = IF g.color[o] = "free" THEN "none"
                   ELSE IF o \in ToSet(g.tobefnz) \cup ToSet(g.finobj) THEN "pending"
                   ELSE IF o \in meta THEN "finalized" ELSE "new"
    BY <1>1, <1>3, <1>7 DEF Fate
  <2>. QED  BY <2>1 DEF Fate
<1>9. st' = [o \in Udata |-> Fate(o)']
  OBVIOUS
<1>10. st' = [o \in Udata |-> IF st[o] = "live" THEN "pending" ELSE st[o]]
  BY <1>8, <1>9
<1>11. Reachable' \subseteq Reachable
  BY <1>1 DEF Reachable
<1>12. Promise!Close
  BY <1>1, <1>5, <1>6, <1>10, <1>11 DEF Promise!Close
<1>13. Promised'
  BY <1>1, <1>7 DEF Promised
<1>. QED  BY <1>12, <1>13 DEF Promise!Next

\* lua_close ends.
LEMMA FreesPromised ==
  ASSUME IInv, IInv', Promised, freeallobjects
  PROVE  Promised' /\ Promise!Next
<1>1. /\ stage = "closing" /\ stage' = "closed" /\ stack' = {}
      /\ g.tobefnz = <<>> /\ g \in GlobalState
      /\ g' = [g EXCEPT !.color = [o \in Objects |-> "free"], !.allgc = <<>>, !.finobj = <<>>]
      /\ ref' = [t \in Tables |-> {}]
  BY InvariantKinds DEF freeallobjects
<1>2. /\ g'.color = [o \in Objects |-> "free"] /\ g'.finobj = <<>> /\ g'.tobefnz = g.tobefnz
  BY <1>1 DEF GlobalState
<1> DEFINE st == [o \in Udata |-> Fate(o)]
<1>3. \A o \in Udata : Fate(o)' = "none"
  BY <1>2 DEF Fate, Objects
<1>4. st' = [o \in Udata |-> Fate(o)']
  OBVIOUS
<1>5. st' = [o \in Udata |-> "none"]
  BY <1>3, <1>4
<1>6. Reachable' = {}
  BY <1>1 DEF Reachable, Tables
<1>7. Promise!Closed
  BY <1>1, <1>2, <1>5, <1>6 DEF Promise!Closed
<1>8. Promised'
  BY <1>1 DEF Promised
<1>. QED  BY <1>7, <1>8 DEF Promise!Next

\* In a new Lua state there are no userdata.
LEMMA InitPromised ==
  ASSUME Init
  PROVE  Promised /\ Promise!Init
<1>1. /\ g.finobj = <<>> /\ g.tobefnz = <<>> /\ stack = {} /\ stage = "running"
      /\ g.color = [o \in Objects |-> IF o \in Udata THEN "free" ELSE "white0"]
      /\ ref = [t \in Tables |-> IF t = Registry THEN {Metatable, WeakTable} ELSE {}]
  BY DEF Init
<1>2. \A o \in Udata : Fate(o) = "none"
  BY <1>1 DEF Fate, Objects
<1>3. Reachable = {}
  <2>1. ref[Registry] = {Metatable, WeakTable} /\ ref[WeakTable] = {}
    BY <1>1, Distinct DEF Tables
  <2>. QED  BY <2>1, <1>1, Distinct DEF Reachable
<1>4. Promise!Init
  BY <1>1, <1>2, <1>3 DEF Promise!Init
<1>5. Promised
  BY <1>1 DEF Promised, ToSet
<1>. QED  BY <1>4, <1>5

\* What the promise is about.
promiseVars == <<[o \in Udata |-> Fate(o)], g.finobj, g.tobefnz, Reachable, stage>>

\* Every step of the collector is one of Finalization, or changes nothing there.
LEMMA NextPromised ==
  ASSUME IInv, IInv', Promised, [Next]_vars
  PROVE  Promised' /\ (Promise!Next \/ UNCHANGED promiseVars)
<1>1. CASE luaC_newobj
  BY <1>1, NewobjPromised
<1>2. CASE lua_setmetatable
  BY <1>2, SetmetatablePromised
<1>3. CASE lua_rawset \/ erase \/ lua_rawget \/ lua_pop
  BY <1>3, StackPromised
<1>4. CASE GCTM
  BY <1>4, GCTMPromised
<1>5. CASE singlestep
  <2>1. CASE g.gcstate = "atomic"
    BY <1>5, <2>1, AtomicPromised
  <2>2. CASE g.gcstate # "atomic"
    BY <1>5, <2>2, SweepsPromised
  <2>. QED  BY <2>1, <2>2
<1>6. CASE luaC_fullgc
  BY <1>6, FullgcPromised
<1>7. CASE lua_close
  BY <1>7, ClosePromised
<1>8. CASE freeallobjects
  BY <1>8, FreesPromised
<1>9. CASE Closed \/ UNCHANGED vars
  <2>1. UNCHANGED vars
    BY <1>9 DEF Closed
  <2>2. \A o \in Udata : Fate(o)' = Fate(o)
    BY <2>1 DEF vars, Fate
  <2>. QED  BY <2>1, <2>2 DEF vars, Promised, promiseVars, Reachable
<1>. QED
  BY <1>1, <1>2, <1>3, <1>4, <1>5, <1>6, <1>7, <1>8, <1>9 DEF Next, Program

\* lgc.c keeps what lua_mysql.c takes for granted of it: a userdata is finalized only
\* when the program cannot reach it, freed only after that, and lua_close finalizes
\* what is left from the last one that got its metatable to the first.
THEOREM PromiseKept == Spec => KeepsPromise
<1>1. Init => Promised /\ Promise!Init
  BY InitPromised
<1>2. IInv /\ IInv' /\ Promised /\ [Next]_vars =>
        Promised' /\ (Promise!Next \/ UNCHANGED promiseVars)
  BY NextPromised
<1>. QED  BY <1>1, <1>2, CollectorInvariant, PTL DEF Spec, KeepsPromise, Promise!Spec, promiseVars

-----------------------------------------------------------------------------
(* A cycle finds what nothing referred to *)

\* What nothing referred to when the cycle began, and the sweep before had whitened,
\* still has no reference while the collector marks, and is unmarked unless it waits
\* for its finalizer.
Unmarkable == garbage \ leftover
Unmarked ==
  stage = "running" /\ keepinvariant(g) =>
    \A o \in Unmarkable : o \notin Reachable /\ (iswhite(g, o) \/ o \in ToSet(g.tobefnz))

\* A step of the program that leaves the collector's phase.
LEMMA StaysUnmarked ==
  ASSUME IInv, IInv', Unmarked, stage' = stage, Unmarkable' \subseteq Unmarkable,
         g'.gcstate = g.gcstate,
         keepinvariant(g) => \A o \in Unmarkable' :
            /\ o \in Reachable' => o \in Reachable \/ g.color[o] = "free"
            /\ iswhite(g, o) => iswhite(g', o)
            /\ o \in ToSet(g.tobefnz) => o \in ToSet(g'.tobefnz)
  PROVE  Unmarked'
<1>1. ASSUME stage' = "running", keepinvariant(g'), NEW o \in Unmarkable'
      PROVE  o \notin Reachable' /\ (iswhite(g', o) \/ o \in ToSet(g'.tobefnz))
  <2>1. stage = "running" /\ keepinvariant(g)
    BY <1>1 DEF keepinvariant
  <2>2. o \in Unmarkable /\ o \notin Reachable /\ (iswhite(g, o) \/ o \in ToSet(g.tobefnz))
    BY <1>1, <2>1 DEF Unmarked
  <2>3. g.color[o] # "free"
    <3>1. Separated(g)
      BY InvariantKinds
    <3>2. "free" \notin White
      BY DEF White
    <3>. QED  BY <3>1, <3>2, <2>2 DEF Separated, iswhite
  <2>. QED  BY <1>1, <2>1, <2>2, <2>3
<1>. QED  BY <1>1 DEF Unmarked

\* The program's steps.
LEMMA ProgramUnmarked ==
  ASSUME IInv, IInv', Unmarked, Program
  PROVE  Unmarked' /\ g'.gcstate = g.gcstate
<1>1. /\ stage # "closed" /\ stage' = stage /\ Unmarkable' = Unmarkable /\ Holds /\ Heap(g)
      /\ Lives(g, Used) /\ g \in GlobalState
  BY DEF IInv, Program, luaC_newobj, lua_setmetatable, lua_rawset, erase, lua_rawget, lua_pop,
         Runs, Sound, Heap, Unmarkable
<1>2. Registry \in Tables /\ WeakTable \in Tables /\ ref \in [Tables -> SUBSET Objects]
  BY <1>1 DEF Tables, Holds
<1>3. Unmarkable \subseteq Udata /\ Udata \subseteq Objects
  BY DEF IInv, Objects, Unmarkable
<1>4. CASE luaC_newobj
  <2>1. PICK o \in Udata :
          /\ g.color[o] = "free"
          /\ g' = [makewhite(g, o) EXCEPT !.allgc = <<o>> \o @]
          /\ stack' = stack \cup {o}
    BY <1>4 DEF luaC_newobj
  <2>2. /\ g'.tobefnz = g.tobefnz /\ g'.gcstate = g.gcstate
        /\ g'.color = [g.color EXCEPT ![o] = g.currentwhite]
    BY <1>1, <2>1 DEF makewhite, GlobalState
  <2>3. Reachable' \subseteq Reachable \cup {o} /\ ref' = ref
    BY <2>1, <1>4 DEF Reachable, luaC_newobj
  <2>4. \A u \in Udata : u # o => g'.color[u] = g.color[u]
    BY <2>2, <1>1, <1>3 DEF GlobalState
  <2>5. "free" \notin White
    BY DEF White
  <2>6. \A u \in Unmarkable' :
            /\ u \in Reachable' => u \in Reachable \/ g.color[u] = "free"
            /\ iswhite(g, u) => iswhite(g', u)
            /\ u \in ToSet(g.tobefnz) => u \in ToSet(g'.tobefnz)
    BY <2>1, <2>2, <2>3, <2>4, <2>5, <1>1, <1>3 DEF iswhite
  <2>. QED  BY <2>2, <2>6, <1>1, StaysUnmarked
<1>5. CASE lua_setmetatable
  <2>1. PICK o \in stack : g' = luaC_checkfinalizer(luaC_barrier(g, o, Metatable), o)
    BY <1>5 DEF lua_setmetatable
  <2> DEFINE b == luaC_barrier(g, o, Metatable)
  <2>2. g' = luaC_checkfinalizer(b, o) /\ b = luaC_barrier(g, o, Metatable)
    BY <2>1
  <2>. HIDE DEF b
  <2>3. /\ o \in Udata /\ o \in Objects /\ o \notin Dead(g) /\ g.color[o] # "free"
        /\ Metatable \in Objects /\ Metatable \notin Udata
    BY <1>1, Distinct DEF Holds, Lives, Used, Objects, Tables
  <2>4. Heap(b) /\ Spares(g, b) /\ b.gcstate = g.gcstate /\ b.tobefnz = g.tobefnz
    BY <2>2, <2>3, <1>1, HeapBarrier
  <2>5. o \notin Dead(b) /\ b.color[o] # "free"
    BY <2>3, <2>4 DEF Spares
  <2>6. g'.gcstate = b.gcstate /\ (~issweepphase(b) => g'.color = b.color)
    BY <2>2, <2>3, <2>4, <2>5, HeapMarksFinalizer
  <2>7. g'.tobefnz = b.tobefnz
    <3>1. CASE o \in ToSet(b.finobj) \cup ToSet(b.tobefnz)
      BY <3>1, <2>2 DEF luaC_checkfinalizer
    <3>2. CASE o \notin ToSet(b.finobj) \cup ToSet(b.tobefnz)
      BY <3>2, <2>2, <2>3, <2>4, <2>5, ChecksFinalizer
    <3>. QED  BY <3>1, <3>2
  <2>8. ASSUME keepinvariant(g)
        PROVE  \A u \in Udata : g'.color[u] = g.color[u]
    <3>1. ~issweepphase(b)
      BY <2>4, <2>8 DEF issweepphase, keepinvariant
    <3>2. b = g \/ b = reallymarkobject(g, {Metatable})
      BY <2>2, <2>8 DEF luaC_barrier
    <3>3. \A u \in Udata : b.color[u] = g.color[u]
      <4>1. CASE b = g
        BY <4>1
      <4>2. CASE b = reallymarkobject(g, {Metatable})
        <5>1. \A u \in Udata \ {Metatable} : b.color[u] = g.color[u]
          BY <4>2, <1>1, ReallyMarksOnly
        <5>. QED  BY <5>1, <2>3
      <4>. QED  BY <3>2, <4>1, <4>2
    <3>. QED  BY <3>1, <3>3, <2>6
  <2>9. Reachable' = Reachable
    BY <1>5 DEF lua_setmetatable, Reachable
  <2>10. keepinvariant(g) => \A u \in Unmarkable' :
            /\ u \in Reachable' => u \in Reachable \/ g.color[u] = "free"
            /\ iswhite(g, u) => iswhite(g', u)
            /\ u \in ToSet(g.tobefnz) => u \in ToSet(g'.tobefnz)
    BY <2>4, <2>7, <2>8, <2>9, <1>1, <1>3 DEF iswhite
  <2>. QED  BY <2>4, <2>6, <2>10, <1>1, StaysUnmarked
<1>6. CASE lua_rawset
  <2>1. PICK t \in {Registry, WeakTable}, v \in stack :
          /\ ref' = [ref EXCEPT ![t] = @ \cup {v}]
          /\ g' = luaC_barrierback(g, t, v)
    BY <1>6 DEF lua_rawset
  <2>2. t \notin Udata /\ stack' = stack
    BY <1>6, Distinct DEF lua_rawset
  <2>3. /\ g'.tobefnz = g.tobefnz /\ g'.gcstate = g.gcstate
        /\ \A u \in Objects : u # t => g'.color[u] = g.color[u]
    BY <2>1, <1>1 DEF luaC_barrierback, GlobalState
  <2>4. Reachable' \subseteq Reachable
    BY <2>1, <2>2, <1>2 DEF Reachable
  <2>5. \A u \in Unmarkable' :
            /\ u \in Reachable' => u \in Reachable \/ g.color[u] = "free"
            /\ iswhite(g, u) => iswhite(g', u)
            /\ u \in ToSet(g.tobefnz) => u \in ToSet(g'.tobefnz)
    BY <2>2, <2>3, <2>4, <1>1, <1>3 DEF iswhite
  <2>. QED  BY <2>3, <2>5, <1>1, StaysUnmarked
<1>7. CASE erase \/ lua_rawget \/ lua_pop
  <2>1. g' = g
    BY <1>7 DEF erase, lua_rawget, lua_pop
  <2>2. Reachable' \subseteq Reachable
    <3>1. CASE erase
      <4>1. PICK t \in {Registry, WeakTable} : \E v \in ref[t] \cap Udata : ref' = [ref EXCEPT ![t] = @ \ {v}]
        BY <3>1 DEF erase
      <4>2. stack' = stack
        BY <3>1 DEF erase
      <4>. QED  BY <4>1, <4>2, <1>2 DEF Reachable
    <3>2. CASE lua_rawget
      <4>1. PICK t \in {Registry, WeakTable} : \E v \in (ref[t] \cap Udata) \ stack : stack' = stack \cup {v}
        BY <3>2 DEF lua_rawget
      <4>2. ref' = ref
        BY <3>2 DEF lua_rawget
      <4>. QED  BY <4>1, <4>2 DEF Reachable
    <3>3. CASE lua_pop
      BY <3>3 DEF lua_pop, Reachable
    <3>. QED  BY <1>7, <3>1, <3>2, <3>3
  <2>. QED  BY <2>1, <2>2, <1>1, StaysUnmarked
<1>. QED  BY <1>4, <1>5, <1>6, <1>7 DEF Program

\* A finalizer gets its userdata back, which is then garbage no more.
LEMMA GCTMUnmarked ==
  ASSUME IInv, IInv', Unmarked, GCTM
  PROVE  Unmarked' /\ g'.gcstate = g.gcstate
<1>1. /\ stage # "closed" /\ stage' = stage /\ Heap(g) /\ g \in GlobalState /\ Separated(g)
      /\ g.tobefnz # <<>> /\ g' = udata2finalize(g)
      /\ stack' = stack \cup {Head(g.tobefnz)}
      /\ Unmarkable' = Unmarkable \ {Head(g.tobefnz)}
      /\ UNCHANGED <<ref, meta>>
  BY DEF IInv, GCTM, Sound, Heap, Unmarkable
<1>2. g.tobefnz \in Seq(Udata) /\ IsInjective(g.tobefnz)
  BY <1>1 DEF GlobalState, Separated
<1>3. PICK o \in Udata : o = Head(g.tobefnz)
  BY <1>1, <1>2, TailSeq
<1>4. /\ g'.tobefnz = Tail(g.tobefnz) /\ g'.gcstate = g.gcstate
      /\ \A u \in Objects : u # o => g'.color[u] = g.color[u]
  BY <1>1, <1>3 DEF udata2finalize, makewhite, GlobalState
<1>5. ToSet(g'.tobefnz) = ToSet(g.tobefnz) \ {o}
  BY <1>1, <1>2, <1>3, <1>4, TailSeq
<1>6. Reachable' \subseteq Reachable \cup {o}
  BY <1>1, <1>3 DEF Reachable
<1>7. Unmarkable' = Unmarkable \ {o} /\ Unmarkable \subseteq Objects
  BY <1>1, <1>3 DEF IInv, Objects, Unmarkable
<1>8. \A u \in Unmarkable' :
            /\ u \in Reachable' => u \in Reachable \/ g.color[u] = "free"
            /\ iswhite(g, u) => iswhite(g', u)
            /\ u \in ToSet(g.tobefnz) => u \in ToSet(g'.tobefnz)
  BY <1>4, <1>5, <1>6, <1>7 DEF iswhite
<1>. QED  BY <1>1, <1>4, <1>7, <1>8, StaysUnmarked

\* A cycle begins: what is unmarked and cannot be reached stays so.
LEMMA RestartsUnmarked ==
  ASSUME NEW h \in GlobalState, NEW k, k = [restartcollection(h) EXCEPT !.gcstate = "propagate"]
  PROVE  /\ k.gcstate = "propagate"
         /\ \A u \in Udata \ ToSet(h.tobefnz) : k.color[u] = h.color[u]
<1> DEFINE i == [h EXCEPT !.gray = {}, !.grayagain = {}]
           S == {MainThread, Registry} \cup ToSet(i.tobefnz)
           r == reallymarkobject(i, S)
<1>1. i \in GlobalState /\ i.color = h.color /\ i.tobefnz = h.tobefnz
  BY DEF GlobalState
<1>2. k = [r EXCEPT !.gcstate = "propagate"]
  BY <1>1 DEF restartcollection
<1>3. S = {MainThread, Registry} \cup ToSet(h.tobefnz) /\ r = reallymarkobject(i, S)
  BY <1>1
<1>. HIDE DEF i, S
<1>4. \A u \in Udata \ S : r.color[u] = i.color[u]
  BY <1>1, <1>3, ReallyMarksOnly
<1>5. MainThread \notin Udata /\ Registry \notin Udata
  BY Distinct
<1>6. r = [i EXCEPT !.gray = r.gray, !.color = r.color]
  BY <1>1 DEF reallymarkobject, GlobalState
<1>. HIDE DEF r
<1>7. k.gcstate = "propagate" /\ k.color = r.color
  BY <1>1, <1>2, <1>6 DEF GlobalState
<1>. QED  BY <1>1, <1>3, <1>4, <1>5, <1>7

\* The collector marks nothing that is not held.
LEMMA SinglestepUnmarked ==
  ASSUME IInv, IInv', Unmarked, singlestep
  PROVE  Unmarked'
<1>1. /\ stage = "running" /\ stage' = stage /\ stack' = stack /\ Holds /\ Heap(g)
      /\ g \in GlobalState
  BY DEF IInv, singlestep, Sound, Heap
<1>2. PICK h \in Steps(g) : g' = Followed(h)
  BY DEF singlestep
<1>3. Stepped(h)
  BY <1>1, StepsSound DEF singlestep
<1>4. /\ g'.tobefnz = h.tobefnz /\ g'.color = h.color /\ g'.gcstate = h.gcstate
  BY <1>2, <1>3, FollowedLeaves DEF Stepped, Heap
<1>5. CASE g.gcstate = "pause"
  <2>1. h = [restartcollection(g) EXCEPT !.gcstate = "propagate"]
    BY <1>5 DEF Steps
  <2>2. \A u \in Udata \ ToSet(g.tobefnz) : h.color[u] = g.color[u]
    BY <2>1, <1>1, RestartsUnmarked
  <2>3. h.tobefnz = g.tobefnz
    BY <1>2, <1>1, <1>5, StepsLeave DEF Leaves
  <2>4. ref' = ref /\ \A o \in Unmarkable' : o \in Udata \ Reachable /\ iswhite(g, o)
    <3>1. ref' = ref /\ garbage' = Udata \ (Reachable \cup Free)
      BY <1>5 DEF singlestep
    <3>2. leftover' = {o \in garbage' : isblack(g, o)}
      BY <1>5 DEF singlestep
    <3>3. \A o \in Udata : o \in Objects /\ g.color[o] \in Color /\ g.color[o] # "gray"
      BY <1>1 DEF GlobalState, Separated, Heap, Objects
    <3>. QED  BY <3>1, <3>2, <3>3 DEF Unmarkable, Free, isblack, iswhite, Color
  <2>5. Reachable' = Reachable
    BY <2>4, <1>1 DEF Reachable
  <2>6. \A o \in Unmarkable' : o \notin Reachable' /\ (iswhite(g', o) \/ o \in ToSet(g'.tobefnz))
    BY <2>2, <2>3, <2>4, <2>5, <1>4 DEF iswhite
  <2>. QED  BY <2>6 DEF Unmarked
<1>6. CASE g.gcstate = "propagate"
  <2>1. PICK o \in g.gray : LET p == propagatemark(g, o)
                            IN  h = IF p.gray = {} THEN [p EXCEPT !.gcstate = "atomic"] ELSE p
    BY <1>6, <1>2 DEF Steps
  <2> DEFINE p == propagatemark(g, o)
  <2>2. p = propagatemark(g, o) /\ (h = p \/ h = [p EXCEPT !.gcstate = "atomic"])
    BY <2>1
  <2>. HIDE DEF p
  <2>3. Marks(g, p)
    BY <2>2, <1>1, Propagates DEF Heap
  <2>4. o \in Nodes
    BY <1>1 DEF GlobalState
  <2>5. \A u \in Udata \ Held : p.color[u] = g.color[u]
    BY <2>2, <2>4, <1>1, PropagatesOnly
  <2>6. h.color = p.color /\ h.tobefnz = g.tobefnz
    BY <2>2, <2>3 DEF Marks, GlobalState
  <2>7. Unmarkable' = Unmarkable /\ ref' = ref /\ Unmarkable \subseteq Udata
    BY <1>6 DEF singlestep, IInv, Unmarkable
  <2>8. Reachable' = Reachable
    BY <2>7, <1>1 DEF Reachable
  <2>9. \A u \in Unmarkable : u \notin Reachable /\ (iswhite(g, u) \/ u \in ToSet(g.tobefnz))
    BY <1>1, <1>6 DEF Unmarked, keepinvariant
  <2>10. \A u \in Unmarkable : u \notin Held
    BY <2>7, <2>9 DEF Held, Reachable
  <2>11. \A u \in Unmarkable' : u \notin Reachable' /\ (iswhite(g', u) \/ u \in ToSet(g'.tobefnz))
    BY <2>5, <2>6, <2>7, <2>8, <2>9, <2>10, <1>4 DEF iswhite
  <2>. QED  BY <2>11 DEF Unmarked
<1>7. CASE g.gcstate \notin {"pause", "propagate"}
  <2>1. ~keepinvariant(h)
    <3>1. g.gcstate \in {"atomic", "swpallgc", "swpfinobj", "swptobefnz", "swpend", "callfin"}
      BY <1>1, <1>7 DEF Heap, GlobalState, GCState
    <3>2. CASE g.gcstate = "atomic"
      <4>1. h = entersweep(atomic(g))
        BY <3>2 DEF Steps
      <4>. QED  BY <4>1, <1>1, <3>2, HeapAtomic DEF IInv, Sound
    <3>3. CASE g.gcstate = "swpallgc"
      <4>1. h = sweepstep(g, "swpfinobj", "finobj") /\ SweptNext(g.gcstate, "swpfinobj", "finobj")
        BY <3>3 DEF Steps, SweptNext
      <4>. QED  BY <4>1, <1>1, HeapSweepStep
    <3>4. CASE g.gcstate = "swpfinobj"
      <4>1. h = sweepstep(g, "swptobefnz", "tobefnz") /\ SweptNext(g.gcstate, "swptobefnz", "tobefnz")
        BY <3>4 DEF Steps, SweptNext
      <4>. QED  BY <4>1, <1>1, HeapSweepStep
    <3>5. CASE g.gcstate = "swptobefnz"
      <4>1. h = sweepstep(g, "swpend", "NULL") /\ SweptNext(g.gcstate, "swpend", "NULL")
        BY <3>5 DEF Steps, SweptNext
      <4>. QED  BY <4>1, <1>1, HeapSweepStep
    <3>6. CASE g.gcstate = "swpend"
      <4>1. h = [makewhite(g, MainThread) EXCEPT !.gcstate = "callfin"]
        BY <3>6 DEF Steps
      <4>. QED  BY <4>1, <1>1, <3>6, HeapEndsSweep
    <3>7. CASE g.gcstate = "callfin"
      <4>1. h = [g EXCEPT !.gcstate = "pause"]
        <5>1. Steps(g) = IF g.tobefnz = <<>> \/ g.emergency THEN {[g EXCEPT !.gcstate = "pause"]} ELSE {}
          BY <3>7 DEF Steps
        <5>. QED  BY <5>1
      <4>2. h.gcstate = "pause"
        BY <4>1, <1>1 DEF GlobalState
      <4>. QED  BY <4>2 DEF keepinvariant
    <3>. QED  BY <3>1, <3>2, <3>3, <3>4, <3>5, <3>6, <3>7
  <2>2. ~keepinvariant(g')
    BY <2>1, <1>4 DEF keepinvariant
  <2>. QED  BY <2>2 DEF Unmarked
<1>. QED  BY <1>5, <1>6, <1>7

\* A full collection forgets the cycle; lua_close stops the collector.
LEMMA OthersUnmarked ==
  ASSUME IInv, IInv', Unmarked,
         luaC_fullgc \/ lua_close \/ freeallobjects \/ Closed \/ UNCHANGED vars
  PROVE  Unmarked' /\ (g'.gcstate = g.gcstate \/ garbage' = {})
<1>1. CASE luaC_fullgc
  BY <1>1 DEF luaC_fullgc, Unmarked, Unmarkable
<1>2. CASE lua_close
  BY <1>2 DEF lua_close, Unmarked, Unmarkable
<1>3. CASE freeallobjects
  <2>1. g \in GlobalState
    BY InvariantKinds
  <2>. QED  BY <2>1, <1>3 DEF freeallobjects, Unmarked, Unmarkable, GlobalState
<1>4. CASE Closed \/ UNCHANGED vars
  <2>1. UNCHANGED vars
    BY <1>4 DEF Closed
  <2>2. Reachable' = Reachable
    BY <2>1 DEF vars, Reachable
  <2>. QED  BY <2>1, <2>2 DEF vars, Unmarked, Unmarkable
<1>. QED  BY <1>1, <1>2, <1>3, <1>4

\* What the collector has done at the end of the mark phase with what is not held and
\* was not marked.
LEMMA AtomicCollects ==
  ASSUME NEW h, Heap(h), h.gcstate = "atomic", Holds, Marking(h, ref),
         NEW k, k = entersweep(atomic(h))
  PROVE  \A o \in Udata \ Held : iswhite(h, o) \/ o \in ToSet(h.tobefnz) =>
           o \in ToSet(k.tobefnz) \/ k.color[o] \in {"free", other(k.currentwhite)}
<1> DEFINE m == Marked(h)
           a == atomic(h)
<1>1. k = entersweep(a) /\ m = Marked(h) /\ a = atomic(h)
  OBVIOUS
<1>. HIDE DEF m, a
<1>8. AfterAtomic(h, m, a)
  BY <1>1, Atomic
<1>2. /\ a \in GlobalState /\ Separated(a)
      /\ \A x \in Udata : a.color[x] # "gray"
      /\ \A x \in Nodes : a.color[x] # "free" /\ x \notin Dead(a)
      /\ a.color[MainThread] = "gray" /\ Dead(a) \subseteq ToSet(a.allgc)
  BY <1>8 DEF AfterAtomic
<1>6. a.tobefnz = Queued(h, Whites(m))
  BY <1>8 DEF AfterAtomic
<1>7. \A u \in Udata \ (Held \cup ToSet(a.tobefnz)) : iswhite(h, u) => u \in Dead(a)
  BY <1>8 DEF AfterAtomic
<1>3. /\ k.tobefnz = a.tobefnz /\ k.currentwhite = a.currentwhite
      /\ \A u \in Dead(a) : k.color[u] \in {a.color[u], "free"}
  BY <1>1, <1>2, EntersLeaves DEF Leaves
<1>4. ToSet(h.tobefnz) \subseteq ToSet(a.tobefnz)
  <2>1. h.finobj \in Seq(Udata) /\ h.tobefnz \in Seq(Udata)
    BY DEF Heap, GlobalState
  <2> DEFINE s == Kept(h.finobj, Whites(m))
  <2>2. s \in Seq(Udata) /\ a.tobefnz = h.tobefnz \o s
    BY <2>1, <1>6, KeptTakes DEF Queued
  <2>. HIDE DEF s
  <2>3. ToSet(a.tobefnz) = ToSet(h.tobefnz) \cup ToSet(s)
    BY <2>1, <2>2, ConcatSeq
  <2>. QED  BY <2>3
<1>5. ASSUME NEW o \in Udata \ Held, iswhite(h, o) \/ o \in ToSet(h.tobefnz),
             o \notin ToSet(a.tobefnz)
      PROVE  k.color[o] \in {"free", other(k.currentwhite)}
  <2>1. o \in Dead(a)
    BY <1>4, <1>5, <1>7
  <2>2. a.color[o] = other(a.currentwhite)
    BY <2>1 DEF Dead
  <2>. QED  BY <2>1, <2>2, <1>3
<1>. QED  BY <1>3, <1>5

\* What a cycle does at the end of its mark phase, as CycleCollects says.
Collects ==
  g.gcstate = "atomic" /\ g'.gcstate = "swpallgc" /\ garbage' # {} =>
       \A o \in garbage \ leftover :
         \/ o \in ToSet(g'.tobefnz)
         \/ g'.color[o] \in {"free", other(g'.currentwhite)}

\* The atomic step finds all of Unmarkable.
LEMMA SinglestepCollects ==
  ASSUME IInv, IInv', Unmarked, singlestep
  PROVE  Collects
<1>1. ASSUME g.gcstate = "atomic", NEW o \in Unmarkable
      PROVE  o \in ToSet(g'.tobefnz) \/ g'.color[o] \in {"free", other(g'.currentwhite)}
  <2>1. /\ stage = "running" /\ Holds /\ Heap(g) /\ Marking(g, ref) /\ Unmarkable \subseteq Udata
    BY DEF IInv, singlestep, Sound, Unmarkable
  <2>2. PICK h \in Steps(g) : g' = Followed(h)
    BY DEF singlestep
  <2>3. h = entersweep(atomic(g))
    BY <2>2, <1>1 DEF Steps
  <2>4. keepinvariant(g)
    BY <1>1 DEF keepinvariant
  <2>5. o \notin Reachable /\ (iswhite(g, o) \/ o \in ToSet(g.tobefnz))
    BY <1>1, <2>1, <2>4 DEF Unmarked
  <2>6. o \in Udata \ Held
    BY <1>1, <2>1, <2>5 DEF Held, Reachable
  <2>7. o \in ToSet(h.tobefnz) \/ h.color[o] \in {"free", other(h.currentwhite)}
    BY <1>1, <2>1, <2>3, <2>5, <2>6, AtomicCollects
  <2>8. Stepped(h)
    BY <2>1, <2>2, StepsSound DEF singlestep
  <2>9. /\ g'.tobefnz = h.tobefnz /\ g'.color = h.color /\ g'.currentwhite = h.currentwhite
    BY <2>2, <2>8, FollowedLeaves DEF Stepped, Heap
  <2>. QED  BY <2>7, <2>9
<1>. QED  BY <1>1 DEF Collects, Unmarkable

\* Every step keeps Unmarked, and is as CycleCollects says.
LEMMA NextCollects ==
  ASSUME IInv, IInv', Unmarked, [Next]_vars
  PROVE  Unmarked' /\ Collects
<1>1. CASE Program
  BY <1>1, ProgramUnmarked DEF Collects
<1>2. CASE GCTM
  BY <1>2, GCTMUnmarked DEF Collects
<1>3. CASE singlestep
  BY <1>3, SinglestepUnmarked, SinglestepCollects
<1>4. CASE luaC_fullgc \/ lua_close \/ freeallobjects \/ Closed \/ UNCHANGED vars
  BY <1>4, OthersUnmarked DEF Collects
<1>. QED  BY <1>1, <1>2, <1>3, <1>4 DEF Next

\* A cycle of lgc.c finds all that nothing referred to when it began, but for what was
\* black already then, although the program ran between its steps: at the end of the
\* mark phase it is dead, freed, or waits for its finalizer.
THEOREM CollectsGarbage == Spec => CycleCollects
<1>1. Init => Unmarked
  BY DEF Init, Unmarked, Unmarkable
<1>2. IInv /\ IInv' /\ Unmarked /\ [Next]_vars => Unmarked' /\ Collects
  BY NextCollects
<1>. QED  BY <1>1, <1>2, CollectorInvariant, PTL DEF Spec, CycleCollects, Collects

=============================================================================
