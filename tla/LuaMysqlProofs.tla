--------------------------- MODULE LuaMysqlProofs ---------------------------
(***************************************************************************)
(* The references of cursors to connections, and the results they own, for *)
(* any number of connections, cursors and rows, and with everything that   *)
(* may go wrong: finalizers of the script inside a call, errors thrown by  *)
(* an allocation, sessions lost, several results.                          *)
(*                                                                         *)
(* None of the properties is inductive alone. luaL_unref(ref) is harmless  *)
(* only if ref is in use (RegistrySound), and create_cursor keeps          *)
(* ResultOwned only if the result it was given is still live and nobody    *)
(* else's, which is a fact about the call in progress (FramesSound).       *)
(*                                                                         *)
(* First what the calls of the two libraries do, for every value they may  *)
(* be given: luaL_ref and luaL_unref keep the registry's free list sound,  *)
(* hand out a slot that was not in use, and touch no other slot in use;    *)
(* every outcome of a call of the client library is well-formed, and       *)
(* freeing or reading a result leaves it freed or live.                    *)
(***************************************************************************)
EXTENDS LuaMysql, SequenceTheorems, TLAPS

-----------------------------------------------------------------------------
(* The registry *)

(* Registries whose values come from V, which has no numbers.              *)
Registry(V) == [free: Nat, slot: Seq(V \cup Nat)]

(* The two slots lstate.c fills at the start are in use, no other is.      *)
LEMMA InitRegistry ==
  ASSUME NEW V, V \cap Nat = {}, NEW m \in V, NEW g \in V
  PROVE  LET t == init_registry(m, g)
         IN  /\ t \in Registry(V)
             /\ FreeListSound(t)
             /\ UsedSlots(t) = {1, 2}
<1> DEFINE t == init_registry(m, g)
<1>1. t = [free |-> 0, slot |-> <<m, g>>]  BY DEF init_registry
<1>2. /\ t.slot \in Seq(V \cup Nat) /\ Len(t.slot) = 2
      /\ t.slot[1] = m /\ t.slot[2] = g
  BY <1>1
<1>3. t \in Registry(V)  BY <1>1, <1>2 DEF Registry
<1>4. FreeSlots(t) = {}  BY <1>2 DEF FreeSlots, IsFree
<1>5. UsedSlots(t) = {1, 2}  BY <1>2, <1>4 DEF UsedSlots
<1>6. FreeListSound(t)  BY <1>1, <1>4 DEF FreeListSound
<1> QED  BY <1>3, <1>5, <1>6

(* luaL_ref stores v in a slot that was not in use, the one it returns.    *)
THEOREM RefSound ==
  ASSUME NEW V, V \cap Nat = {}, NEW t \in Registry(V), NEW v \in V,
         FreeListSound(t)
  PROVE  LET u == luaL_ref(t, v)
             s == NextRef(t)
         IN  /\ u \in Registry(V)
             /\ s \in Nat \ {0}
             /\ s \notin UsedSlots(t)
             /\ UsedSlots(u) = UsedSlots(t) \cup {s}
             /\ u.slot[s] = v
             /\ \A r \in UsedSlots(t) : u.slot[r] = t.slot[r]
             /\ FreeListSound(u)
<1> DEFINE u == luaL_ref(t, v)
           s == NextRef(t)
           n == Len(t.slot)
<1>0. /\ t.free \in Nat /\ t.slot \in Seq(V \cup Nat) /\ n \in Nat
      /\ v \in V \cup Nat /\ v \notin Nat
      /\ FreeSlots(t) \subseteq 1..n
      /\ \A r \in FreeSlots(t) : t.slot[r] \in Nat
  BY DEF Registry, FreeSlots, IsFree
<1>1. CASE t.free # 0
  <2>1. s = t.free /\ s \in FreeSlots(t) /\ s \in 1..n
    BY <1>0, <1>1 DEF NextRef, FreeListSound
  <2>2. u = [free |-> t.slot[s], slot |-> [t.slot EXCEPT ![s] = v]]
    BY <1>1, <2>1 DEF luaL_ref
  <2>3. /\ u.slot \in Seq(V \cup Nat) /\ Len(u.slot) = n
        /\ \A j \in 1..n : u.slot[j] = IF j = s THEN v ELSE t.slot[j]
    BY <1>0, <2>1, <2>2, ExceptSeq
  <2>4. u.free = t.slot[s] /\ u.free \in Nat  BY <1>0, <2>1, <2>2
  <2>5. u \in Registry(V)  BY <2>2, <2>3, <2>4 DEF Registry
  <2>6. FreeSlots(u) = FreeSlots(t) \ {s}
    BY <1>0, <2>1, <2>3 DEF FreeSlots, IsFree
  <2>7. UsedSlots(u) = UsedSlots(t) \cup {s}
    BY <2>1, <2>3, <2>6 DEF UsedSlots
  <2>8. s \notin UsedSlots(t)  BY <2>1 DEF UsedSlots
  <2>9. \A r \in UsedSlots(t) : u.slot[r] = t.slot[r]
    BY <2>3, <2>8 DEF UsedSlots
  <2>10. \A r \in FreeSlots(u) : u.slot[r] = t.slot[r] /\ u.slot[r] # s
    BY <2>1, <2>3, <2>6, <1>0 DEF FreeListSound
  <2>11. FreeListSound(u)
    <3>1. u.free # s
      BY <2>1, <2>4 DEF FreeListSound
    <3>2. u.free \in FreeSlots(u) \cup {0}
      BY <2>1, <2>4, <2>6, <3>1 DEF FreeListSound
    <3>3. \A r \in FreeSlots(u) : u.slot[r] \in FreeSlots(u) \cup {0}
      BY <2>6, <2>10 DEF FreeListSound
    <3>4. \A r \in FreeSlots(u) : u.slot[r] # u.free
      BY <2>1, <2>4, <2>6, <2>10 DEF FreeListSound
    <3>5. \A q, r \in FreeSlots(u) : u.slot[q] = u.slot[r] => q = r
      BY <2>6, <2>10 DEF FreeListSound
    <3> QED  BY <3>2, <3>3, <3>4, <3>5 DEF FreeListSound
  <2> QED  BY <2>1, <2>3, <2>5, <2>7, <2>8, <2>9, <2>11
<1>2. CASE t.free = 0
  <2>1. s = n + 1 /\ u = [free |-> 0, slot |-> Append(t.slot, v)]
    BY <1>2 DEF NextRef, luaL_ref
  <2>2. /\ u.slot \in Seq(V \cup Nat) /\ Len(u.slot) = n + 1
        /\ \A j \in 1..n : u.slot[j] = t.slot[j]
        /\ u.slot[n + 1] = v
    BY <1>0, <2>1, AppendProperties
  <2>3. u \in Registry(V)  BY <2>1, <2>2 DEF Registry
  <2>4. FreeSlots(u) = FreeSlots(t)
    BY <1>0, <2>2 DEF FreeSlots, IsFree
  <2>5. UsedSlots(u) = UsedSlots(t) \cup {s} /\ s \notin UsedSlots(t)
    BY <1>0, <2>1, <2>2, <2>4 DEF UsedSlots
  <2>6. \A r \in UsedSlots(t) : u.slot[r] = t.slot[r]
    BY <2>2 DEF UsedSlots
  <2>7. \A r \in FreeSlots(u) : u.slot[r] = t.slot[r]
    BY <1>0, <2>2, <2>4
  <2>8. u.free = t.free  BY <1>2, <2>1
  <2>9. FreeListSound(u)
    <3> HIDE DEF u
    <3> QED  BY <2>4, <2>7, <2>8 DEF FreeListSound
  <2>10. s \in Nat \ {0} /\ u.slot[s] = v  BY <1>0, <2>1, <2>2
  <2> QED  BY <2>3, <2>5, <2>6, <2>9, <2>10
<1> QED  BY <1>1, <1>2

(* luaL_unref makes a slot in use free, and only that one.                 *)
THEOREM UnrefSound ==
  ASSUME NEW V, V \cap Nat = {}, NEW t \in Registry(V), FreeListSound(t),
         NEW ref \in UsedSlots(t)
  PROVE  LET u == luaL_unref(t, ref)
         IN  /\ u \in Registry(V)
             /\ UsedSlots(u) = UsedSlots(t) \ {ref}
             /\ \A r \in UsedSlots(u) : u.slot[r] = t.slot[r]
             /\ FreeListSound(u)
<1> DEFINE u == luaL_unref(t, ref)
           n == Len(t.slot)
<1>0. /\ t.free \in Nat /\ t.slot \in Seq(V \cup Nat) /\ n \in Nat
      /\ ref \in 1..n /\ ref \notin FreeSlots(t)
      /\ FreeSlots(t) \subseteq 1..n
  BY DEF Registry, UsedSlots, FreeSlots
<1>1. u = [free |-> ref, slot |-> [t.slot EXCEPT ![ref] = t.free]]
  BY <1>0 DEF luaL_unref
<1>2. /\ u.slot \in Seq(V \cup Nat) /\ Len(u.slot) = n
      /\ \A j \in 1..n : u.slot[j] = IF j = ref THEN t.free ELSE t.slot[j]
  BY <1>0, <1>1, ExceptSeq
<1>3. u \in Registry(V)  BY <1>0, <1>1, <1>2 DEF Registry
<1>4. FreeSlots(u) = FreeSlots(t) \cup {ref}
  BY <1>0, <1>2 DEF FreeSlots, IsFree
<1>5. UsedSlots(u) = UsedSlots(t) \ {ref}
  BY <1>2, <1>4 DEF UsedSlots
<1>6. \A r \in UsedSlots(u) : u.slot[r] = t.slot[r]
  BY <1>2, <1>5 DEF UsedSlots
<1>7. FreeListSound(u)
  <2>1. u.free = ref /\ u.free \in FreeSlots(u)  BY <1>1, <1>4
  <2>2. \A r \in FreeSlots(t) : u.slot[r] = t.slot[r]  BY <1>0, <1>2
  <2>3. u.slot[ref] = t.free  BY <1>0, <1>2
  <2>4. ref # 0 /\ ref # t.free  BY <1>0 DEF FreeListSound
  <2>5. \A r \in FreeSlots(u) : u.slot[r] \in FreeSlots(u) \cup {0}
    BY <1>4, <2>2, <2>3 DEF FreeListSound
  <2>6. \A r \in FreeSlots(u) : u.slot[r] # u.free
    BY <1>0, <1>4, <2>1, <2>2, <2>3, <2>4 DEF FreeListSound
  <2>7. \A q, r \in FreeSlots(u) : u.slot[q] = u.slot[r] => q = r
    BY <1>4, <2>2, <2>3 DEF FreeListSound
  <2> QED  BY <2>1, <2>5, <2>6, <2>7 DEF FreeListSound
<1> QED  BY <1>3, <1>5, <1>6, <1>7

-----------------------------------------------------------------------------
(* The client library *)


(* mysql_init and mysql_close give a MYSQL.                                *)
LEMMA InitCloseType ==
  /\ mysql_init \in MYSQL
  /\ \A m \in MYSQL : mysql_close(m) \in MYSQL
BY DEF mysql_init, mysql_close, MYSQL

(* mysql_real_connect leaves a MYSQL.                                      *)
LEMMA ConnectType ==
  ASSUME NEW m \in MYSQL, NEW a \in mysql_real_connect(m)
  PROVE  a.m \in MYSQL
<1>1. /\ [m EXCEPT !.session = "up", !.methods = TRUE,
                   !.status = "ready", !.more = FALSE] \in MYSQL
      /\ [m EXCEPT !.session = "none", !.methods = TRUE] \in MYSQL
  BY DEF MYSQL
<1> QED  BY <1>1 DEF mysql_real_connect

(* A session a command can start from is a MYSQL, and so is what a failed  *)
(* command leaves.                                                         *)
LEMMA CommandSets ==
  ASSUME NEW m \in MYSQL
  PROVE  Reached(m) \subseteq MYSQL /\ Sent(m) \subseteq MYSQL
         /\ FailedCommand(m) \subseteq MYSQL
<1>1. Reached(m) \subseteq MYSQL  BY DEF Reached, MYSQL
<1>2. Sent(m) \subseteq MYSQL  BY <1>1 DEF Sent
<1>3. \A s \in MYSQL : [s EXCEPT !.session = "lost"] \in MYSQL  BY DEF MYSQL
<1>4. FailedCommand(m) \subseteq MYSQL  BY <1>1, <1>2, <1>3 DEF FailedCommand
<1> QED  BY <1>1, <1>2, <1>4

(* So is what ping, commit and rollback leave, whatever their outcome.     *)
LEMMA SimpleCommandType ==
  ASSUME NEW m \in MYSQL, NEW a \in simple_command(m)
  PROVE  a.m \in MYSQL
BY CommandSets DEF simple_command

(* The same for a query.                                                   *)
LEMMA QueryType ==
  ASSUME NEW m \in MYSQL, NEW multi \in SUBSET BOOLEAN,
         NEW q \in mysql_real_query(m, multi)
  PROVE  q.m \in MYSQL
<1>1. CASE q \in Refusals(m)  BY <1>1, CommandSets DEF Refusals
<1>2. CASE q \in Answers(m, multi)
  <2>1. PICK s \in Sent(m), c \in BOOLEAN, x \in multi : q.m = Answered(s, c, x)
    BY <1>2 DEF Answers
  <2>2. s \in MYSQL /\ x \in BOOLEAN  BY CommandSets
  <2>3. Answered(s, c, x) \in MYSQL  BY <2>2 DEF Answered, MYSQL
  <2> QED  BY <2>1, <2>3
<1> QED  BY <1>1, <1>2 DEF mysql_real_query

(* Making a result leaves the connection a MYSQL.                          *)
LEMMA ResultType ==
  ASSUME NEW m \in MYSQL, NEW b \in BOOLEAN,
         NEW a \in mysql_store_result(m) \cup mysql_use_result(m, b)
  PROVE  a.m \in MYSQL
<1>1. /\ [m EXCEPT !.status = "ready"] \in MYSQL
      /\ [m EXCEPT !.status = "use_result"] \in MYSQL
      /\ [m EXCEPT !.status = "ready", !.session = "lost"] \in MYSQL
  BY DEF MYSQL
<1>2. CASE a \in mysql_store_result(m)  BY <1>1, <1>2 DEF mysql_store_result
<1>3. CASE a \in mysql_use_result(m, b)
  <2>1. a = [ok |-> TRUE, m |-> [m EXCEPT !.status = "use_result"]]
        \/ a = [ok |-> FALSE, m |-> m]
    BY <1>3 DEF mysql_use_result
  <2> QED  BY <1>1, <2>1
<1> QED  BY <1>2, <1>3

(* A new result is live and well-formed.                                   *)
LEMMA NewResultType ==
  ASSUME MaxRows \in Nat, NEW k \in Conns, NEW n \in 0..MaxRows, NEW all \in BOOLEAN
  PROVE  /\ NoResult \in MYSQL_RES
         /\ new_result(k, n, all) \in MYSQL_RES
         /\ new_result(k, n, all).state = "live"
<1>1. NoResult \in MYSQL_RES  BY DEF NoResult, MYSQL_RES
<1> DEFINE h == IF all THEN NULL ELSE k
           r1 == [NoResult EXCEPT !.state = "live"]
           r2 == [r1 EXCEPT !.stored = all]
           r3 == [r2 EXCEPT !.rows = n]
           r4 == [r3 EXCEPT !.handle = h]
<1>2. h \in Conns \cup {NULL}  OBVIOUS
<1>3. new_result(k, n, all) = r4  BY DEF new_result
<1>4. r1 \in MYSQL_RES /\ r1.state = "live"
  <2> HIDE DEF h
  <2> QED  BY <1>1 DEF MYSQL_RES
<1> HIDE DEF h, r1
<1>5. r2 \in MYSQL_RES /\ r2.state = "live"  BY <1>4 DEF MYSQL_RES
<1> HIDE DEF r2
<1>6. r3 \in MYSQL_RES /\ r3.state = "live"  BY <1>5 DEF MYSQL_RES
<1> HIDE DEF r3
<1>7. r4 \in MYSQL_RES /\ r4.state = "live"  BY <1>2, <1>6 DEF MYSQL_RES
<1> HIDE DEF r4
<1> QED  BY <1>1, <1>3, <1>7

(* Fetching a row keeps the types and the state of the result; the row is  *)
(* one the result has.                                                     *)
LEMMA FetchRowType ==
  ASSUME MaxRows \in Nat, NEW r \in MYSQL_RES, NEW my \in [Conns -> MYSQL],
         NULL \notin Conns, NEW f \in mysql_fetch_row(r, my)
  PROVE  /\ f.row \in 0..MaxRows
         /\ f.r \in MYSQL_RES /\ f.r.state = r.state
         /\ f.my \in [Conns -> MYSQL]
<1>0. 0 \in 0..MaxRows /\ TRUE \in BOOLEAN  OBVIOUS
<1>1. AtEnd(r) \in MYSQL_RES /\ AtEnd(r).state = r.state
  <2> DEFINE r1 == [r EXCEPT !.handle = NULL]
             r2 == [r1 EXCEPT !.cur = 0]
  <2>1. AtEnd(r) = r2  BY DEF AtEnd
  <2>2. r1 \in MYSQL_RES /\ r1.state = r.state  BY DEF MYSQL_RES
  <2> HIDE DEF r1
  <2>3. r2 \in MYSQL_RES /\ r2.state = r.state  BY <2>2 DEF MYSQL_RES
  <2> HIDE DEF r2
  <2> QED  BY <2>1, <2>3
<1>2. /\ [r EXCEPT !.cur = 0] \in MYSQL_RES
      /\ [r EXCEPT !.cur = 0].state = r.state
  BY DEF MYSQL_RES
<1>3. ASSUME r.pos < r.rows
      PROVE  /\ NextRow(r) \in MYSQL_RES
             /\ NextRow(r).state = r.state
             /\ r.pos + 1 \in 0..MaxRows
  <2> DEFINE x == r.pos + 1
             r1 == [r EXCEPT !.pos = x]
             r2 == [r1 EXCEPT !.cur = x]
  <2>1. r.pos \in 0..MaxRows /\ r.rows \in 0..MaxRows  BY DEF MYSQL_RES
  <2>2. x \in 0..MaxRows  BY <1>3, <2>1
  <2>3. NextRow(r) = r2  BY DEF NextRow
  <2> HIDE DEF x
  <2>4. r1 \in MYSQL_RES /\ r1.state = r.state  BY <2>2 DEF MYSQL_RES
  <2> HIDE DEF r1
  <2>5. r2 \in MYSQL_RES /\ r2.state = r.state  BY <2>2, <2>4 DEF MYSQL_RES
  <2> HIDE DEF r2
  <2> QED  BY <2>2, <2>3, <2>5 DEF x
<1>4. r.handle # NULL =>
        /\ [my EXCEPT ![r.handle].status = "ready"] \in [Conns -> MYSQL]
        /\ [my EXCEPT ![r.handle].status = "ready",
                      ![r.handle].session = "lost"] \in [Conns -> MYSQL]
  BY DEF MYSQL, MYSQL_RES
<1>5. \/ f = [row |-> r.pos + 1, r |-> NextRow(r), my |-> my] /\ r.pos < r.rows
      \/ f = [row |-> 0, r |-> [r EXCEPT !.cur = 0], my |-> my]
      \/ f = [row |-> 0, r |-> r, my |-> my]
      \/ f = [row |-> 0, r |-> AtEnd(r), my |-> my]
      \/ /\ f = [row |-> 0, r |-> AtEnd(r),
                 my |-> [my EXCEPT ![r.handle].status = "ready"]]
         /\ r.handle # NULL
      \/ /\ f = [row |-> 0, r |-> AtEnd(r),
                 my |-> [my EXCEPT ![r.handle].status = "ready",
                                   ![r.handle].session = "lost"]]
         /\ r.handle # NULL
  BY DEF mysql_fetch_row
<1>6. CASE f = [row |-> r.pos + 1, r |-> NextRow(r), my |-> my] /\ r.pos < r.rows
  BY <1>3, <1>6
<1>7. CASE f = [row |-> 0, r |-> [r EXCEPT !.cur = 0], my |-> my]
  BY <1>0, <1>2, <1>7
<1>8. CASE f = [row |-> 0, r |-> r, my |-> my]
  BY <1>0, <1>8
<1>9. CASE f = [row |-> 0, r |-> AtEnd(r), my |-> my]
  BY <1>0, <1>1, <1>9
<1>10. CASE /\ f = [row |-> 0, r |-> AtEnd(r),
                    my |-> [my EXCEPT ![r.handle].status = "ready"]]
            /\ r.handle # NULL
  BY <1>0, <1>1, <1>4, <1>10
<1>11. CASE /\ f = [row |-> 0, r |-> AtEnd(r),
                    my |-> [my EXCEPT ![r.handle].status = "ready",
                                      ![r.handle].session = "lost"]]
            /\ r.handle # NULL
  BY <1>0, <1>1, <1>4, <1>11
<1> QED  BY <1>5, <1>6, <1>7, <1>8, <1>9, <1>10, <1>11

(* mysql_fetch_lengths writes only the lengths.                            *)
LEMMA FetchLengthsType ==
  ASSUME NEW r \in MYSQL_RES
  PROVE  /\ mysql_fetch_lengths(r) \in MYSQL_RES
         /\ mysql_fetch_lengths(r).state = r.state
BY DEF mysql_fetch_lengths, MYSQL_RES

(* mysql_free_result frees.                                                *)
LEMMA FreeResultType ==
  ASSUME MaxRows \in Nat, NEW r \in MYSQL_RES, NEW my \in [Conns -> MYSQL],
         NULL \notin Conns, NEW f \in mysql_free_result(r, my)
  PROVE  /\ f.r \in MYSQL_RES /\ f.r.state = "freed"
         /\ f.my \in [Conns -> MYSQL]
<1> DEFINE freed == [NoResult EXCEPT !.state = "freed"]
<1>1. freed \in MYSQL_RES /\ freed.state = "freed"
  <2>1. NoResult \in MYSQL_RES  BY DEF NoResult, MYSQL_RES
  <2> QED  BY <2>1 DEF MYSQL_RES
<1>2. r.handle # NULL =>
        /\ [my EXCEPT ![r.handle].status = "ready"] \in [Conns -> MYSQL]
        /\ [my EXCEPT ![r.handle].status = "ready",
                      ![r.handle].session = "lost"] \in [Conns -> MYSQL]
  BY DEF MYSQL, MYSQL_RES
<1>3. \/ f = [r |-> freed, my |-> my]
      \/ /\ f = [r |-> freed, my |-> [my EXCEPT ![r.handle].status = "ready"]]
         /\ r.handle # NULL
      \/ /\ f = [r |-> freed, my |-> [my EXCEPT ![r.handle].status = "ready",
                                               ![r.handle].session = "lost"]]
         /\ r.handle # NULL
  BY DEF mysql_free_result
<1> HIDE DEF freed
<1> QED  BY <1>1, <1>2, <1>3

-----------------------------------------------------------------------------
(* The binding *)

Values == Conns \cup {MainThread, Globals}

(* A call in progress has its userdata; fetch and fetch_all hold a row.    *)
CallSound(f) ==
  /\ f.op \in {"connect", "execute"} => f.conn \in Conns
  /\ f.op \in {"execute", "fetch_opt", "fetch_all_opt", "fetch", "fetch_all"}
       => f.cur \in Cursors
  /\ f.op \in {"fetch", "fetch_all"} => f.row # 0

(* Besides, what execute holds is a live result without a cursor, and no   *)
(* two calls hold the same one.                                            *)
FramesSound ==
  \A l \in Levels :
    /\ CallSound(frame[l])
    /\ frame[l].op = "execute" =>
         /\ res[frame[l].cur].state = "live"
         /\ cursor[frame[l].cur].conn = LUA_NOREF
         /\ \A m \in Levels : frame[m].op = "execute" /\ frame[m].cur = frame[l].cur
                                => m = l

(* A cursor that was not made refers to nothing.                           *)
Unmade == \A c \in Cursors : res[c].state = "none" => cursor[c].conn = LUA_NOREF

IInv == TypeOK /\ RegistrySound /\ ResultOwned /\ FramesSound /\ Unmade

(* What the numbers of the registry cannot be confused with.               *)
LEMMA ValuesFacts == /\ Values \cap Nat = {} /\ Conns \subseteq Values
                     /\ MainThread \in Values /\ Globals \in Values
                     /\ LUA_NOREF \notin Nat
                     /\ NULL \notin Conns /\ NULL \notin Cursors
                     /\ MaxRows \in Nat
BY NoNumbers, ObjectsDistinct, ConstantTypes DEF Values, LUA_NOREF

(* The type of the registry, in the words of the lemmas on it.             *)
LEMMA RegistryType == TypeOK => registry \in Registry(Values)
BY DEF TypeOK, Registry, Values

-----------------------------------------------------------------------------

(* The initial state satisfies the invariant.                              *)
LEMMA InitIInv == Init => IInv
<1> SUFFICES ASSUME Init PROVE IInv  OBVIOUS
<1> USE ValuesFacts DEF Init
<1>1. TypeOK
  <2>1. registry \in [free: Nat, slot: Seq(Conns \cup {MainThread, Globals} \cup Nat)]
    BY InitRegistry DEF Registry, Values
  <2>2. mysql \in [Conns -> MYSQL]  BY InitCloseType
  <2>3. NoCursor \in Cursor  BY DEF NoCursor, Cursor
  <2>4. NoResult \in MYSQL_RES  BY DEF NoResult, MYSQL_RES
  <2>5. NoFrame \in Frame  BY DEF NoFrame, Frame
  <2>6. Silent \in Answer  BY DEF Silent, Answer
  <2>7. ud \in [Objects -> UdState]  BY DEF UdState
  <2>8. got \in [Cursors -> Seq(Row)]  OBVIOUS
  <2> QED  BY <2>1, <2>2, <2>3, <2>4, <2>5, <2>6, <2>7, <2>8 DEF TypeOK
<1>2. \A c \in Cursors : cursor[c].conn = LUA_NOREF /\ ~cursor[c].my_res
  BY DEF NoCursor
<1>3. RegistrySound
  <2>1. Refs = {}  BY <1>2 DEF Refs
  <2> QED  BY <1>2, <2>1, InitRegistry DEF RegistrySound
<1>4. \A c \in Cursors : res[c].state = "none"  BY DEF NoResult
<1>5. ResultOwned  BY <1>2, <1>4 DEF ResultOwned
<1>6. FramesSound  BY DEF FramesSound, CallSound, NoFrame
<1>7. Unmade  BY <1>2 DEF Unmade
<1> QED  BY <1>1, <1>3, <1>5, <1>6, <1>7 DEF IInv

-----------------------------------------------------------------------------
(* Steps on the registry *)

(* No reference changes hands.                                             *)
LEMMA SameRefs ==
  ASSUME RegistrySound, UNCHANGED registry,
         \A c \in Cursors : cursor'[c].conn = cursor[c].conn
  PROVE  RegistrySound'
<1>1. Refs' = Refs  BY DEF Refs
<1> QED  BY <1>1 DEF RegistrySound, FreeListSound, UsedSlots, FreeSlots, IsFree

(* nullify gives back the reference of c, if it has one, and frees its     *)
(* result, if it has one; nothing else changes.                            *)
LEMMA NullifyStep ==
  ASSUME IInv, NEW c \in Cursors, NEW r \in MYSQL_RES,
         NEW my \in [Conns -> MYSQL], nullify(c, r, my)
  PROVE  /\ cursor' \in [Cursors -> Cursor]
         /\ registry' \in Registry(Values)
         /\ res' \in [Cursors -> MYSQL_RES]
         /\ mysql' \in [Conns -> MYSQL]
         /\ RegistrySound'
         /\ \A d \in Cursors \ {c} : cursor'[d] = cursor[d] /\ res'[d] = res[d]
         /\ cursor'[c].conn = LUA_NOREF /\ cursor'[c].my_res = FALSE
         /\ cursor[c].my_res => res'[c].state = "freed"
         /\ ~cursor[c].my_res => res'[c] = res[c]
<1> USE ValuesFacts
<1>1. /\ TypeOK /\ RegistrySound /\ ResultOwned
      /\ cursor \in [Cursors -> Cursor] /\ res \in [Cursors -> MYSQL_RES]
      /\ mysql \in [Conns -> MYSQL] /\ registry \in Registry(Values)
  BY RegistryType DEF IInv, TypeOK
<1>2. cursor' = [cursor EXCEPT ![c] = Nullified(cursor[c])]  BY DEF nullify
<1>3. /\ Nullified(cursor[c]) \in Cursor
      /\ Nullified(cursor[c]).conn = LUA_NOREF
      /\ Nullified(cursor[c]).my_res = FALSE
  <2>1. cursor[c] \in Cursor  BY <1>1
  <2> QED  BY <2>1 DEF Nullified, Cursor
<1>4. /\ cursor' \in [Cursors -> Cursor]
      /\ \A d \in Cursors \ {c} : cursor'[d] = cursor[d]
      /\ cursor'[c] = Nullified(cursor[c])
  BY <1>1, <1>2, <1>3
<1>5. /\ res' \in [Cursors -> MYSQL_RES] /\ mysql' \in [Conns -> MYSQL]
      /\ \A d \in Cursors \ {c} : res'[d] = res[d]
      /\ cursor[c].my_res => res'[c].state = "freed"
      /\ ~cursor[c].my_res => res'[c] = res[c]
  <2>1. CASE cursor[c].my_res
    <3>1. PICK f \in mysql_free_result(r, my) :
            res' = [res EXCEPT ![c] = f.r] /\ mysql' = f.my
      BY <2>1 DEF nullify
    <3>2. f.r \in MYSQL_RES /\ f.r.state = "freed" /\ f.my \in [Conns -> MYSQL]
      BY FreeResultType
    <3> QED  BY <1>1, <2>1, <3>1, <3>2
  <2>2. CASE ~cursor[c].my_res
    <3>1. UNCHANGED <<res, mysql>>  BY <2>2 DEF nullify
    <3> QED  BY <1>1, <2>2, <3>1
  <2> QED  BY <2>1, <2>2
<1>6. registry' \in Registry(Values) /\ RegistrySound'
  <2>1. CASE cursor[c].conn = LUA_NOREF
    <3>1. registry' = registry  BY <2>1 DEF nullify, Unreferenced
    <3>2. \A d \in Cursors : cursor'[d].conn = cursor[d].conn
      BY <1>3, <1>4, <2>1
    <3> QED  BY <1>1, <3>1, <3>2, SameRefs
  <2>2. CASE cursor[c].conn # LUA_NOREF
    <3> DEFINE ref == cursor[c].conn
    <3>1. registry' = luaL_unref(registry, ref)  BY <2>2 DEF nullify, Unreferenced
    <3>2. ref \in UsedSlots(registry)  BY <1>1, <2>2 DEF RegistrySound, Refs
    <3>3. ref \in Refs /\ ref \notin {1, 2}
      BY <1>1, <2>2 DEF RegistrySound, Refs
    <3>4. FreeListSound(registry)  BY <1>1 DEF RegistrySound
    <3>5. /\ registry' \in Registry(Values)
          /\ UsedSlots(registry') = UsedSlots(registry) \ {ref}
          /\ FreeListSound(registry')
      BY <1>1, <3>1, <3>2, <3>4, UnrefSound
    <3>6. \A d \in Cursors \ {c} : cursor[d].conn = ref => FALSE
      BY <1>1, <2>2 DEF RegistrySound
    <3>7. Refs' = Refs \ {ref}
      BY <1>3, <1>4, <2>2, <3>6 DEF Refs
    <3>8. UsedSlots(registry') = {1, 2} \cup Refs' /\ {1, 2} \cap Refs' = {}
      BY <1>1, <3>3, <3>5, <3>7 DEF RegistrySound
    <3>9. \A d, e \in Cursors : cursor'[d].conn = cursor'[e].conn
                                  => d = e \/ cursor'[d].conn = LUA_NOREF
      BY <1>1, <1>3, <1>4 DEF RegistrySound
    <3>10. RegistrySound'
      BY <3>5, <3>8, <3>9 DEF RegistrySound, FreeListSound, UsedSlots, FreeSlots, IsFree
    <3> QED  BY <3>5, <3>10
  <2> QED  BY <2>1, <2>2
<1> QED  BY <1>3, <1>4, <1>5, <1>6

-----------------------------------------------------------------------------
(* Steps that leave references, results and calls alone *)

LEMMA QuietStep ==
  ASSUME IInv, UNCHANGED <<registry, cursor, res, frame>>
  PROVE  RegistrySound' /\ ResultOwned' /\ FramesSound' /\ Unmade'
<1>1. RegistrySound'  BY SameRefs DEF IInv
<1>2. ResultOwned'  BY DEF IInv, ResultOwned
<1>3. FramesSound'  BY DEF IInv, FramesSound
<1>4. Unmade'  BY DEF IInv, Unmade
<1> QED  BY <1>1, <1>2, <1>3, <1>4

(* The types of what the calls return.                                     *)
LEMMA AnswerType ==
  /\ Silent \in Answer
  /\ [val |-> "error", on |-> NULL] \in Answer
  /\ \A v \in {"affected", "cursor", "row", "rows", "end", "nothing"}, o \in Objects :
       [val |-> v, on |-> o] \in Answer
BY DEF Silent, Answer, Objects

(* The heap after lua_setmetatable.                                        *)
LEMMA SetmetatableType ==
  ASSUME TypeOK, NEW o \in Objects, lua_setmetatable(o)
  PROVE  /\ ud' \in [Objects -> UdState] /\ age' \in [Objects -> Nat]
         /\ clock' \in Nat /\ held' \subseteq Objects
BY DEF TypeOK, lua_setmetatable, UdState

(* conn_create makes a Connection nobody refers to yet.                    *)
LEMMA ConnCreateStep ==
  ASSUME IInv, NEW l \in Levels, conn_create(l)
  PROVE  IInv'
<1>1. TypeOK /\ UNCHANGED <<stage, registry, cursor, res, got, frame, fault>>
  BY DEF conn_create, Rejected, lib, heap, IInv
<1>2. /\ ud' \in [Objects -> UdState] /\ age' \in [Objects -> Nat]
      /\ clock' \in Nat /\ held' \subseteq Objects
      /\ closed' \in [Conns -> BOOLEAN] /\ mysql' \in [Conns -> MYSQL]
      /\ ret' \in Answer
  <2>1. PICK k \in Conns :
          \/ /\ lua_setmetatable(k)
             /\ closed' = [closed EXCEPT ![k] = FALSE]
             /\ mysql' = [mysql EXCEPT ![k] = mysql_init]
             /\ Quiet
          \/ Rejected
    BY DEF conn_create
  <2>2. CASE Rejected
    BY <1>1, <2>2, AnswerType DEF Rejected, Throw, Return, heap, lib, TypeOK
  <2>3. CASE /\ lua_setmetatable(k)
             /\ closed' = [closed EXCEPT ![k] = FALSE]
             /\ mysql' = [mysql EXCEPT ![k] = mysql_init]
             /\ Quiet
    <3>1. k \in Objects  BY DEF Objects
    <3>2. /\ ud' \in [Objects -> UdState] /\ age' \in [Objects -> Nat]
          /\ clock' \in Nat /\ held' \subseteq Objects
      BY <1>1, <2>3, <3>1, SetmetatableType
    <3>3. closed' \in [Conns -> BOOLEAN]  BY <1>1, <2>3 DEF TypeOK
    <3>4. mysql' \in [Conns -> MYSQL]  BY <1>1, <2>3, InitCloseType DEF TypeOK
    <3> QED  BY <2>3, <3>2, <3>3, <3>4, AnswerType DEF Quiet
  <2> QED  BY <2>1, <2>2, <2>3
<1>3. TypeOK'  BY <1>1, <1>2 DEF TypeOK
<1> QED  BY <1>1, <1>3, QuietStep DEF IInv

(* A call on a connection that makes no cursor: its handle gets another    *)
(* well-formed state, and nothing but the connection's own fields changes. *)
LEMMA ConnCallType ==
  ASSUME TypeOK, NEW k \in Conns, NEW m \in MYSQL,
         mysql' = [mysql EXCEPT ![k] = m], closed' \in [Conns -> BOOLEAN],
         ret' \in Answer,
         UNCHANGED <<stage, heap, held, registry, cursor, res, got, frame, fault>>
  PROVE  TypeOK'
<1>1. mysql' \in [Conns -> MYSQL]  BY DEF TypeOK
<1> QED  BY <1>1 DEF TypeOK, heap

LEMMA RejectedType ==
  ASSUME TypeOK, Rejected
  PROVE  TypeOK' /\ UNCHANGED <<registry, cursor, res, frame>>
<1>1. ret' \in Answer  BY AnswerType DEF Rejected, Throw, Return
<1> QED  BY <1>1 DEF TypeOK, Rejected, heap, lib

LEMMA CommandStep ==
  ASSUME TypeOK, NEW k \in Conns, command(k)
  PROVE  TypeOK' /\ UNCHANGED <<registry, cursor, res, frame>>
<1>1. PICK a \in simple_command(mysql[k]) :
        /\ mysql' = [mysql EXCEPT ![k] = a.m]
        /\ IF a.ok THEN Quiet ELSE Throw
  BY DEF command
<1>2. a.m \in MYSQL  BY SimpleCommandType DEF TypeOK
<1>3. ret' \in Answer  BY <1>1, AnswerType DEF Quiet, Throw, Return
<1>4. closed' \in [Conns -> BOOLEAN]  BY DEF command, TypeOK
<1>5. UNCHANGED <<stage, heap, held, registry, cursor, res, got, frame, fault>>
  BY DEF command
<1> QED  BY <1>1, <1>2, <1>3, <1>4, <1>5, ConnCallType

(* close_conn keeps the types.                                             *)
LEMMA CloseConnType ==
  ASSUME TypeOK, NEW k \in Conns, close_conn(k)
  PROVE  closed' \in [Conns -> BOOLEAN] /\ mysql' \in [Conns -> MYSQL]
<1>1. CASE closed[k]  BY <1>1 DEF close_conn, TypeOK
<1>2. CASE ~closed[k]
  <2>1. mysql_close(mysql[k]) \in MYSQL  BY InitCloseType DEF TypeOK
  <2> QED  BY <1>2, <2>1 DEF close_conn, TypeOK
<1> QED  BY <1>1, <1>2

(* close, set_reconnect, ping, commit and rollback.                        *)
LEMMA ConnQuietStep ==
  ASSUME IInv, NEW l \in Levels, NEW k \in Conns,
         \/ conn_close(l, k) \/ conn_set_reconnect(l, k) \/ conn_ping(l, k)
         \/ conn_commit_rollback(l, k)
  PROVE  IInv'
<1>0. TypeOK  BY DEF IInv
<1> SUFFICES TypeOK' /\ UNCHANGED <<registry, cursor, res, frame>>
  BY QuietStep DEF IInv
<1>1. CASE conn_close(l, k)
  <2>1. closed' \in [Conns -> BOOLEAN] /\ mysql' \in [Conns -> MYSQL]
    BY <1>0, <1>1, CloseConnType DEF conn_close
  <2>2. ret' \in Answer  BY <1>1, AnswerType DEF conn_close, Quiet
  <2> QED  BY <1>0, <1>1, <2>1, <2>2 DEF conn_close, TypeOK, heap
<1>2. CASE conn_set_reconnect(l, k)
  <2>1. CASE Rejected  BY <1>0, <2>1, RejectedType
  <2>2. CASE ~Rejected
    <3>1. PICK v \in ReconnectValues : mysql' = [mysql EXCEPT ![k].reconnect = v]
      BY <1>2, <2>2 DEF conn_set_reconnect
    <3> DEFINE m == [mysql[k] EXCEPT !.reconnect = v]
    <3>2. m \in MYSQL
      <4>1. v \in BOOLEAN /\ mysql[k] \in MYSQL  BY <1>0, ConstantTypes DEF TypeOK
      <4> QED  BY <4>1 DEF MYSQL
    <3>3. mysql' = [mysql EXCEPT ![k] = m]  BY <3>1
    <3>4. ret' \in Answer  BY <1>2, <2>2, AnswerType DEF conn_set_reconnect, Quiet
    <3>5. UNCHANGED <<stage, heap, held, registry, closed, cursor, res, got, frame, fault>>
      BY <1>2, <2>2 DEF conn_set_reconnect
    <3>6. closed' \in [Conns -> BOOLEAN]  BY <1>0, <3>5 DEF TypeOK
    <3> HIDE DEF m
    <3> QED  BY <1>0, <3>2, <3>3, <3>4, <3>5, <3>6, ConnCallType
  <2> QED  BY <2>1, <2>2
<1>3. CASE conn_ping(l, k)
  BY <1>0, <1>3, RejectedType, CommandStep DEF conn_ping
<1>4. CASE conn_commit_rollback(l, k)
  <2>1. CASE NullMethods
    BY <1>0, <2>1, AnswerType DEF NullMethods, TypeOK, heap, lib, Quiet
  <2>2. CASE Rejected \/ command(k)  BY <1>0, <2>2, RejectedType, CommandStep
  <2> QED  BY <1>4, <2>1, <2>2 DEF conn_commit_rollback
<1> QED  BY <1>1, <1>2, <1>3, <1>4

-----------------------------------------------------------------------------
(* execute *)

(* The calls that are entered are well-formed.                             *)
LEMMA NoFrameType == NoFrame \in Frame /\ NoFrame.op = "none"
BY ValuesFacts DEF NoFrame, Frame

Executing(k, c) == [NoFrame EXCEPT !.op = "execute", !.conn = k, !.cur = c]
Fetching(o, c, i) == [NoFrame EXCEPT !.op = o, !.cur = c, !.row = i]

LEMMA ExecuteFrame ==
  ASSUME NEW k \in Conns, NEW c \in Cursors
  PROVE  /\ Executing(k, c) \in Frame /\ Executing(k, c).op = "execute"
         /\ Executing(k, c).cur = c /\ Executing(k, c).conn = k
<1> DEFINE f1 == [NoFrame EXCEPT !.op = "execute"]
           f2 == [f1 EXCEPT !.conn = k]
           f3 == [f2 EXCEPT !.cur = c]
<1>1. Executing(k, c) = f3  BY DEF Executing
<1>2. f1 \in Frame /\ f1.op = "execute"  BY NoFrameType DEF Frame
<1> HIDE DEF f1
<1>3. f2 \in Frame /\ f2.op = "execute" /\ f2.conn = k  BY <1>2 DEF Frame
<1> HIDE DEF f2
<1>4. f3 \in Frame /\ f3.op = "execute" /\ f3.conn = k /\ f3.cur = c  BY <1>3 DEF Frame
<1> HIDE DEF f3
<1> QED  BY <1>1, <1>4

LEMMA FetchFrame ==
  ASSUME NEW o \in {"fetch", "fetch_all"}, NEW c \in Cursors, NEW i \in 0..MaxRows
  PROVE  /\ Fetching(o, c, i) \in Frame /\ Fetching(o, c, i).op = o
         /\ Fetching(o, c, i).cur = c /\ Fetching(o, c, i).row = i
<1> DEFINE f1 == [NoFrame EXCEPT !.op = o]
           f2 == [f1 EXCEPT !.cur = c]
           f3 == [f2 EXCEPT !.row = i]
<1>1. Fetching(o, c, i) = f3  BY DEF Fetching
<1>2. f1 \in Frame /\ f1.op = o  BY NoFrameType DEF Frame
<1> HIDE DEF f1
<1>3. f2 \in Frame /\ f2.op = o /\ f2.cur = c  BY <1>2 DEF Frame
<1> HIDE DEF f2
<1>4. f3 \in Frame /\ f3.op = o /\ f3.cur = c /\ f3.row = i  BY <1>3 DEF Frame
<1> HIDE DEF f3
<1> QED  BY <1>1, <1>4

(* The library has made a result for c and execute is about to make c.     *)
LEMMA EnterExecuteStep ==
  ASSUME IInv, NEW l \in Levels, Idle(l), NEW k \in Conns, NEW c \in Cursors,
         NEW n \in 0..MaxRows, NEW all \in BOOLEAN, NEW m \in MYSQL,
         res[c].state = "none",
         mysql' = [mysql EXCEPT ![k] = m],
         res' = [res EXCEPT ![c] = new_result(k, n, all)],
         Enter(l, [NoFrame EXCEPT !.op = "execute", !.conn = k, !.cur = c]),
         Quiet,
         UNCHANGED <<stage, heap, held, registry, closed, cursor, got, fault>>
  PROVE  IInv'
<1> DEFINE f == [NoFrame EXCEPT !.op = "execute", !.conn = k, !.cur = c]
           x == new_result(k, n, all)
<1>1. TypeOK /\ RegistrySound /\ ResultOwned /\ FramesSound /\ Unmade  BY DEF IInv
<1>2. x \in MYSQL_RES /\ x.state = "live"  BY ValuesFacts, NewResultType
<1>3. f \in Frame /\ f.op = "execute" /\ f.cur = c /\ f.conn = k
  <2>1. f = Executing(k, c)  BY DEF Executing
  <2> HIDE DEF f
  <2> QED  BY <2>1, ExecuteFrame
<1>4. frame' = [frame EXCEPT ![l] = f]  BY DEF Enter
<1>5. res' = [res EXCEPT ![c] = x]  OBVIOUS
<1> HIDE DEF f, x
<1>6. /\ frame' \in [Levels -> Frame] /\ frame'[l] = f
      /\ \A j \in Levels \ {l} : frame'[j] = frame[j]
  BY <1>1, <1>3, <1>4 DEF TypeOK
<1>7. /\ res' \in [Cursors -> MYSQL_RES] /\ res'[c] = x
      /\ \A d \in Cursors \ {c} : res'[d] = res[d]
  BY <1>1, <1>2, <1>5 DEF TypeOK
<1>8. mysql' \in [Conns -> MYSQL] /\ ret' \in Answer
  BY <1>1, AnswerType DEF TypeOK, Quiet
<1>9. TypeOK'  BY <1>1, <1>6, <1>7, <1>8 DEF TypeOK, heap
<1>10. RegistrySound'  BY <1>1, SameRefs
<1>11. ResultOwned'
  <2> SUFFICES ASSUME NEW d \in Cursors
               PROVE  /\ cursor'[d].my_res => res'[d].state = "live"
                      /\ cursor'[d].my_res <=> cursor'[d].conn # LUA_NOREF
                      /\ res'[d].state = "live" =>
                           \/ cursor'[d].my_res
                           \/ AllocThrows
                           \/ \E j \in Levels : frame'[j].op = "execute" /\ frame'[j].cur = d
    BY DEF ResultOwned
  <2>1. CASE d = c  BY <1>1, <1>2, <1>3, <1>6, <1>7, <2>1 DEF ResultOwned
  <2>2. CASE d # c
    <3>1. \A j \in Levels : frame[j].op = "execute" => frame'[j] = frame[j]
      BY <1>6 DEF Idle
    <3> QED  BY <1>1, <1>7, <2>2, <3>1 DEF ResultOwned
  <2> QED  BY <2>1, <2>2
<1>12. FramesSound'
  <2>1. \A j \in Levels \ {l} : frame[j].op = "execute" => frame[j].cur # c
    BY <1>1 DEF FramesSound
  <2>2. cursor[c].conn = LUA_NOREF  BY <1>1 DEF Unmade
  <2> SUFFICES ASSUME NEW j \in Levels
               PROVE  /\ CallSound(frame'[j])
                      /\ frame'[j].op = "execute" =>
                           /\ res'[frame'[j].cur].state = "live"
                           /\ cursor'[frame'[j].cur].conn = LUA_NOREF
                           /\ \A i \in Levels : frame'[i].op = "execute"
                                                /\ frame'[i].cur = frame'[j].cur => i = j
    BY DEF FramesSound
  <2>3. CASE j = l
    <3>1. CallSound(frame'[l])  BY <1>3, <1>6 DEF CallSound
    <3> QED  BY <1>2, <1>3, <1>6, <1>7, <2>1, <2>2, <2>3, <3>1
  <2>4. CASE j # l
    <3>1. frame'[j] = frame[j]  BY <1>6, <2>4
    <3> QED  BY <1>1, <1>3, <1>6, <1>7, <2>1, <2>4, <3>1 DEF FramesSound
  <2> QED  BY <2>3, <2>4
<1>13. Unmade'  BY <1>1, <1>2, <1>7 DEF Unmade
<1> QED  BY <1>9, <1>10, <1>11, <1>12, <1>13 DEF IInv

LEMMA ExecuteStep ==
  ASSUME IInv, NEW l \in Levels, NEW k \in Conns, conn_execute(l, k)
  PROVE  IInv'
<1>0. TypeOK  BY DEF IInv
<1>1. CASE Rejected  BY <1>0, <1>1, RejectedType, QuietStep DEF IInv
<1>2. CASE NullMethods
  <2>1. UNCHANGED <<registry, cursor, res, frame>>  BY <1>2 DEF NullMethods, lib
  <2>2. TypeOK'  BY <1>0, <1>2, AnswerType DEF NullMethods, TypeOK, heap, lib, Quiet
  <2> QED  BY <2>1, <2>2, QuietStep DEF IInv
<1>3. CASE SendQuery(l, k)
  <2>1. PICK q \in Statement(k) :
          \/ /\ ~q.cols
             /\ mysql' = [mysql EXCEPT ![k] = q.m]
             /\ IF q.ok THEN Return("affected", k) ELSE Throw
             /\ UNCHANGED <<stage, heap, held, registry, closed, cursor, res, got,
                            frame, fault>>
          \/ /\ q.cols
             /\ \E all \in BOOLEAN, c \in Cursors : \E r \in ReadResult(q.m, all) :
                  /\ res[c].state = "none"
                  /\ mysql' = [mysql EXCEPT ![k] = r.m]
                  /\ IF r.ok
                     THEN /\ \E n \in 0..MaxRows :
                               res' = [res EXCEPT ![c] = new_result(k, n, all)]
                          /\ Enter(l, [NoFrame EXCEPT !.op = "execute", !.conn = k,
                                                      !.cur = c])
                          /\ Quiet
                     ELSE /\ Return("nothing", k)
                          /\ UNCHANGED <<res, frame>>
             /\ UNCHANGED <<stage, heap, held, registry, closed, cursor, got, fault>>
    BY <1>3 DEF SendQuery
  <2>2. q.m \in MYSQL
    <3>1. (IF MultiResults THEN BOOLEAN ELSE {FALSE}) \in SUBSET BOOLEAN  OBVIOUS
    <3>2. mysql[k] \in MYSQL  BY <1>0 DEF TypeOK
    <3> QED  BY <3>1, <3>2, QueryType DEF Statement
  <2>3. k \in Objects /\ closed \in [Conns -> BOOLEAN]  BY <1>0 DEF Objects, TypeOK
  <2>4. CASE /\ mysql' = [mysql EXCEPT ![k] = q.m]
             /\ IF q.ok THEN Return("affected", k) ELSE Throw
             /\ UNCHANGED <<stage, heap, held, registry, closed, cursor, res, got,
                            frame, fault>>
    <3>1. ret' \in Answer  BY <2>3, <2>4, AnswerType DEF Return, Throw
    <3>2. TypeOK'  BY <1>0, <2>2, <2>3, <2>4, <3>1, ConnCallType
    <3> QED  BY <2>4, <3>2, QuietStep DEF IInv
  <2>5. ASSUME NEW all \in BOOLEAN, NEW c \in Cursors, NEW r \in ReadResult(q.m, all),
               res[c].state = "none",
               mysql' = [mysql EXCEPT ![k] = r.m],
               IF r.ok
               THEN /\ \E n \in 0..MaxRows :
                         res' = [res EXCEPT ![c] = new_result(k, n, all)]
                    /\ Enter(l, [NoFrame EXCEPT !.op = "execute", !.conn = k,
                                                !.cur = c])
                    /\ Quiet
               ELSE /\ Return("nothing", k)
                    /\ UNCHANGED <<res, frame>>,
               UNCHANGED <<stage, heap, held, registry, closed, cursor, got, fault>>
        PROVE  IInv'
    <3>1. r.m \in MYSQL
      <4>1. r \in mysql_store_result(q.m) \cup mysql_use_result(q.m, AllocThrows)
        BY <2>5 DEF ReadResult
      <4> QED  BY <2>2, <4>1, ConstantTypes, ResultType
    <3>2. CASE r.ok
      <4>1. Idle(l)  BY DEF conn_execute, Callable
      <4>2. PICK n \in 0..MaxRows : res' = [res EXCEPT ![c] = new_result(k, n, all)]
        BY <2>5, <3>2
      <4>3. Enter(l, [NoFrame EXCEPT !.op = "execute", !.conn = k, !.cur = c]) /\ Quiet
        BY <2>5, <3>2
      <4> QED  BY <2>5, <3>1, <4>1, <4>2, <4>3, EnterExecuteStep
    <3>3. CASE ~r.ok
      <4>1. ret' \in Answer  BY <2>3, <2>5, <3>3, AnswerType DEF Return
      <4>2. UNCHANGED <<stage, heap, held, registry, closed, cursor, res, got, frame, fault>>
        BY <2>5, <3>3
      <4>3. TypeOK'  BY <1>0, <2>3, <2>5, <3>1, <4>1, <4>2, ConnCallType
      <4> QED  BY <4>2, <4>3, QuietStep DEF IInv
    <3> QED  BY <3>2, <3>3
  <2> QED  BY <2>1, <2>4, <2>5
<1> QED  BY <1>1, <1>2, <1>3 DEF conn_execute

(* create_cursor gives the cursor a reference nobody has.                  *)
LEMMA CreateCursorStep ==
  ASSUME IInv, NEW l \in Levels, create_cursor(l)
  PROVE  IInv'
<1> DEFINE c == frame[l].cur
           k == frame[l].conn
           ref == NextRef(registry)
           x == [conn |-> ref, fetch_all |-> res[c].stored, my_res |-> TRUE, fields |-> FALSE]
<1> USE ValuesFacts
<1>1. TypeOK /\ RegistrySound /\ ResultOwned /\ FramesSound /\ Unmade  BY DEF IInv
<1>2. /\ c \in Cursors /\ k \in Conns /\ res[c].state = "live"
      /\ cursor[c].conn = LUA_NOREF
      /\ \A m \in Levels : frame[m].op = "execute" /\ frame[m].cur = c => m = l
  BY <1>1 DEF create_cursor, FramesSound, CallSound
<1>3. /\ registry' = luaL_ref(registry, k) /\ lua_setmetatable(c)
      /\ cursor' = [cursor EXCEPT ![c] = x] /\ Leave(l) /\ Return("cursor", c)
      /\ UNCHANGED <<stage, closed, mysql, res, got, fault>>
  BY DEF create_cursor, Referenced
<1>4. FreeListSound(registry) /\ registry \in Registry(Values) /\ k \in Values
  BY <1>1, <1>2, RegistryType DEF RegistrySound
<1>5. /\ registry' \in Registry(Values)
      /\ ref \in Nat \ {0} /\ ref \notin UsedSlots(registry)
      /\ UsedSlots(registry') = UsedSlots(registry) \cup {ref}
      /\ FreeListSound(registry')
  BY <1>3, <1>4, RefSound
<1>6. ref # LUA_NOREF /\ ref \notin Refs /\ ref \notin {1, 2}
  BY <1>1, <1>5 DEF RegistrySound, LUA_NOREF
<1>7. x \in Cursor /\ x.conn = ref /\ x.my_res = TRUE
  <2>1. res[c].stored \in BOOLEAN  BY <1>1, <1>2 DEF TypeOK, MYSQL_RES
  <2> QED  BY <1>5, <2>1 DEF Cursor
<1> HIDE DEF ref, x
<1>8. /\ cursor' \in [Cursors -> Cursor] /\ cursor'[c] = x
      /\ \A d \in Cursors \ {c} : cursor'[d] = cursor[d]
  BY <1>1, <1>2, <1>3, <1>7 DEF TypeOK
<1>9. /\ frame' \in [Levels -> Frame] /\ frame'[l] = NoFrame
      /\ \A j \in Levels \ {l} : frame'[j] = frame[j]
  <2>1. NoFrame \in Frame  BY DEF NoFrame, Frame
  <2> QED  BY <1>1, <1>3, <2>1 DEF TypeOK, Leave
<1>10. TypeOK'
  <2>1. c \in Objects  BY <1>2 DEF Objects
  <2>2. ret' \in Answer  BY <1>3, <2>1, AnswerType DEF Return
  <2>3. /\ ud' \in [Objects -> UdState] /\ age' \in [Objects -> Nat]
        /\ clock' \in Nat /\ held' \subseteq Objects
    BY <1>1, <1>3, <2>1, SetmetatableType
  <2>4. registry' \in [free: Nat, slot: Seq(Conns \cup {MainThread, Globals} \cup Nat)]
    BY <1>5 DEF Registry, Values
  <2> QED  BY <1>1, <1>3, <1>8, <1>9, <2>2, <2>3, <2>4 DEF TypeOK
<1>11. RegistrySound'
  <2>1. Refs' = Refs \cup {ref}
    BY <1>2, <1>6, <1>7, <1>8 DEF Refs
  <2>2. UsedSlots(registry') = {1, 2} \cup Refs' /\ {1, 2} \cap Refs' = {}
    BY <1>1, <1>5, <1>6, <2>1 DEF RegistrySound
  <2>3. \A d \in Cursors \ {c} : cursor[d].conn # ref
    BY <1>6 DEF Refs
  <2>4. \A d, e \in Cursors : cursor'[d].conn = cursor'[e].conn
                                => d = e \/ cursor'[d].conn = LUA_NOREF
    BY <1>1, <1>7, <1>8, <2>3 DEF RegistrySound
  <2> QED  BY <1>5, <2>2, <2>4 DEF RegistrySound, FreeListSound, UsedSlots, FreeSlots, IsFree
<1>12. ResultOwned'
  <2> SUFFICES ASSUME NEW d \in Cursors
               PROVE  /\ cursor'[d].my_res => res'[d].state = "live"
                      /\ cursor'[d].my_res <=> cursor'[d].conn # LUA_NOREF
                      /\ res'[d].state = "live" =>
                           \/ cursor'[d].my_res
                           \/ AllocThrows
                           \/ \E j \in Levels : frame'[j].op = "execute" /\ frame'[j].cur = d
    BY DEF ResultOwned
  <2>1. CASE d = c  BY <1>2, <1>3, <1>6, <1>7, <1>8, <2>1
  <2>2. CASE d # c
    <3>1. \A j \in Levels : frame[j].cur = d => frame'[j] = frame[j]
      BY <1>9, <2>2
    <3> QED  BY <1>1, <1>3, <1>8, <2>2, <3>1 DEF ResultOwned
  <2> QED  BY <2>1, <2>2
<1>13. FramesSound'
  <2> SUFFICES ASSUME NEW j \in Levels
               PROVE  /\ CallSound(frame'[j])
                      /\ frame'[j].op = "execute" =>
                           /\ res'[frame'[j].cur].state = "live"
                           /\ cursor'[frame'[j].cur].conn = LUA_NOREF
                           /\ \A i \in Levels : frame'[i].op = "execute"
                                                /\ frame'[i].cur = frame'[j].cur => i = j
    BY DEF FramesSound
  <2>1. frame'[l].op # "execute" /\ CallSound(frame'[l])
    BY <1>9 DEF NoFrame, CallSound
  <2>2. CASE j = l  BY <2>1, <2>2
  <2>3. CASE j # l
    <3>1. frame'[j] = frame[j]  BY <1>9, <2>3
    <3>2. frame[j].op = "execute" => frame[j].cur # c  BY <1>2, <2>3
    <3> QED  BY <1>1, <1>3, <1>8, <1>9, <2>1, <3>1, <3>2 DEF FramesSound, CallSound
  <2> QED  BY <2>2, <2>3
<1>14. Unmade'
  BY <1>1, <1>2, <1>3, <1>8 DEF Unmade
<1> QED  BY <1>10, <1>11, <1>12, <1>13, <1>14 DEF IInv

-----------------------------------------------------------------------------
(* Steps that give back a reference and a result, and steps that move on   *)
(* in a result                                                             *)

(* nullify, as the end of a call or of a finalizer: calls that go on were  *)
(* in progress before, and an execute is not cut off.                      *)
LEMMA NullifySafe ==
  ASSUME IInv, NEW c \in Cursors, NEW r \in MYSQL_RES,
         NEW my \in [Conns -> MYSQL], nullify(c, r, my),
         \A j \in Levels :
           frame'[j] = frame[j] \/ (Idle(j)' /\ frame[j].op # "execute")
  PROVE  RegistrySound' /\ ResultOwned' /\ FramesSound' /\ Unmade'
<1>1. TypeOK /\ RegistrySound /\ ResultOwned /\ FramesSound /\ Unmade  BY DEF IInv
<1>2. /\ RegistrySound'
      /\ \A d \in Cursors \ {c} : cursor'[d] = cursor[d] /\ res'[d] = res[d]
      /\ cursor'[c].conn = LUA_NOREF /\ cursor'[c].my_res = FALSE
      /\ cursor[c].my_res => res'[c].state = "freed"
      /\ ~cursor[c].my_res => res'[c] = res[c]
  BY NullifyStep
<1>3. \A j \in Levels : frame[j].op = "execute" => frame'[j] = frame[j]
  OBVIOUS
<1>4. ResultOwned'
  <2> SUFFICES ASSUME NEW d \in Cursors
               PROVE  /\ cursor'[d].my_res => res'[d].state = "live"
                      /\ cursor'[d].my_res <=> cursor'[d].conn # LUA_NOREF
                      /\ res'[d].state = "live" =>
                           \/ cursor'[d].my_res
                           \/ AllocThrows
                           \/ \E j \in Levels : frame'[j].op = "execute" /\ frame'[j].cur = d
    BY DEF ResultOwned
  <2>1. \/ cursor[d].my_res
        \/ res[d].state # "live"
        \/ AllocThrows
        \/ \E j \in Levels : frame'[j].op = "execute" /\ frame'[j].cur = d
    BY <1>1, <1>3 DEF ResultOwned
  <2>2. CASE d = c  BY <1>2, <2>1, <2>2
  <2>3. CASE d # c  BY <1>1, <1>2, <2>1, <2>3 DEF ResultOwned
  <2> QED  BY <2>2, <2>3
<1>5. FramesSound'
  <2> SUFFICES ASSUME NEW j \in Levels
               PROVE  /\ CallSound(frame'[j])
                      /\ frame'[j].op = "execute" =>
                           /\ res'[frame'[j].cur].state = "live"
                           /\ cursor'[frame'[j].cur].conn = LUA_NOREF
                           /\ \A i \in Levels : frame'[i].op = "execute"
                                                /\ frame'[i].cur = frame'[j].cur => i = j
    BY DEF FramesSound
  <2>1. CallSound(frame'[j])  BY <1>1 DEF FramesSound, CallSound, Idle
  <2>2. \A i \in Levels : frame'[i].op = "execute" => frame'[i] = frame[i]
    BY DEF Idle
  <2>3. frame[j].op = "execute" =>
          /\ res'[frame[j].cur].state = "live"
          /\ cursor'[frame[j].cur].conn = LUA_NOREF
    <3> SUFFICES ASSUME frame[j].op = "execute"
                 PROVE  /\ res'[frame[j].cur].state = "live"
                        /\ cursor'[frame[j].cur].conn = LUA_NOREF
      OBVIOUS
    <3>1. /\ frame[j].cur \in Cursors /\ res[frame[j].cur].state = "live"
          /\ cursor[frame[j].cur].conn = LUA_NOREF
      BY <1>1 DEF FramesSound, CallSound
    <3>2. ~cursor[frame[j].cur].my_res  BY <1>1, <3>1 DEF ResultOwned
    <3> QED  BY <1>2, <3>1, <3>2
  <2> QED  BY <1>1, <2>1, <2>2, <2>3 DEF FramesSound
<1>6. Unmade'
  BY <1>1, <1>2 DEF Unmade
<1> QED  BY <1>2, <1>4, <1>5, <1>6

(* A call is entered, goes on or ends, and no reference and no result      *)
(* changes hands; only a thrown error cuts an execute off.                 *)
LEMMA FrameStep ==
  ASSUME IInv, UNCHANGED registry,
         \A d \in Cursors : /\ cursor'[d].conn = cursor[d].conn
                            /\ cursor'[d].my_res = cursor[d].my_res
                            /\ res'[d].state = res[d].state,
         \A j \in Levels :
           \/ frame'[j] = frame[j]
           \/ /\ frame[j].op # "execute" \/ AllocThrows
              /\ frame'[j].op # "execute" /\ CallSound(frame'[j])
  PROVE  RegistrySound' /\ ResultOwned' /\ FramesSound' /\ Unmade'
<1>1. TypeOK /\ RegistrySound /\ ResultOwned /\ FramesSound /\ Unmade  BY DEF IInv
<1>2. RegistrySound'  BY <1>1, SameRefs
<1>3. ResultOwned'
  <2>1. ~AllocThrows => \A j \in Levels : frame[j].op = "execute" => frame'[j] = frame[j]
    OBVIOUS
  <2> QED  BY <1>1, <2>1 DEF ResultOwned
<1>4. FramesSound'
  <2>1. \A j \in Levels : frame'[j].op = "execute" => frame'[j] = frame[j]
    OBVIOUS
  <2>2. \A j \in Levels : CallSound(frame'[j])  BY <1>1 DEF FramesSound
  <2>3. \A j \in Levels : frame[j].op = "execute" => frame[j].cur \in Cursors
    BY <1>1 DEF FramesSound, CallSound
  <2> QED  BY <1>1, <2>1, <2>2, <2>3 DEF FramesSound
<1>5. Unmade'  BY <1>1 DEF Unmade
<1> QED  BY <1>2, <1>3, <1>4, <1>5

-----------------------------------------------------------------------------
(* The calls of cursors *)

(* A call is left: its frame goes, by its end or by an error.              *)
LEMMA LeaveType ==
  ASSUME TypeOK, NEW l \in Levels, Leave(l)
  PROVE  /\ frame' \in [Levels -> Frame] /\ Idle(l)'
         /\ frame'[l].op # "execute" /\ CallSound(frame'[l])
         /\ \A j \in Levels \ {l} : frame'[j] = frame[j]
BY NoFrameType DEF Leave, TypeOK, Idle, CallSound

LEMMA ThrowStep ==
  ASSUME IInv, NEW l \in Levels, create_cursor_throws(l) \/ call_throws(l)
  PROVE  IInv'
<1>1. TypeOK  BY DEF IInv
<1>2. /\ AllocThrows \/ frame[l].op # "execute"
      /\ Leave(l) /\ Throw
      /\ UNCHANGED <<stage, heap, held, registry, lib, got, fault>>
  BY DEF create_cursor_throws, call_throws
<1>3. /\ frame' \in [Levels -> Frame] /\ Idle(l)'
      /\ frame'[l].op # "execute" /\ CallSound(frame'[l])
      /\ \A j \in Levels \ {l} : frame'[j] = frame[j]
  BY <1>1, <1>2, LeaveType
<1>4. ret' \in Answer  BY <1>2, AnswerType DEF Throw, Return
<1>5. TypeOK'  BY <1>1, <1>2, <1>3, <1>4 DEF TypeOK, heap, lib
<1>6. RegistrySound' /\ ResultOwned' /\ FramesSound' /\ Unmade'
  BY <1>2, <1>3, FrameStep DEF lib
<1> QED  BY <1>5, <1>6 DEF IInv

(* cur:__gc(), and the finalizer.                                          *)
LEMMA GCStep ==
  ASSUME IInv, NEW c \in Cursors, (\E l \in Levels : cursor_gc(l, c)) \/ GCTM_cursor(c)
  PROVE  IInv'
<1>1. TypeOK  BY DEF IInv
<1>2. /\ nullify(c, res[c], mysql) /\ Quiet
      /\ UNCHANGED <<stage, age, clock, held, closed, got, frame, fault>>
  BY DEF cursor_gc, GCTM_cursor, cursor_nullify, heap
<1>3. ud' \in [Objects -> UdState]
  BY <1>1 DEF cursor_gc, GCTM_cursor, heap, TypeOK, UdState
<1>4. res[c] \in MYSQL_RES /\ mysql \in [Conns -> MYSQL]  BY <1>1 DEF TypeOK
<1>5. /\ cursor' \in [Cursors -> Cursor] /\ registry' \in Registry(Values)
      /\ res' \in [Cursors -> MYSQL_RES] /\ mysql' \in [Conns -> MYSQL]
  BY <1>2, <1>4, NullifyStep
<1>6. registry' \in [free: Nat, slot: Seq(Conns \cup {MainThread, Globals} \cup Nat)]
  BY <1>5 DEF Registry, Values
<1>7. ret' \in Answer  BY <1>2, AnswerType DEF Quiet
<1>8. TypeOK'  BY <1>1, <1>2, <1>3, <1>5, <1>6, <1>7 DEF TypeOK
<1>9. RegistrySound' /\ ResultOwned' /\ FramesSound' /\ Unmade'
  BY <1>2, <1>4, NullifySafe
<1> QED  BY <1>8, <1>9 DEF IInv

(* A call is entered to convert its arguments.                             *)
LEMMA ConvertStep ==
  ASSUME IInv, NEW l \in Levels, frame[l].op # "execute",
         NEW f \in Frame, f.op # "execute", CallSound(f), ConvertArguments(l, f)
  PROVE  IInv'
<1>1. TypeOK  BY DEF IInv
<1>2. frame' = [frame EXCEPT ![l] = f] /\ Quiet
      /\ UNCHANGED <<stage, heap, held, registry, lib, got, fault>>
  BY DEF ConvertArguments, Enter
<1>3. /\ frame' \in [Levels -> Frame] /\ frame'[l] = f
      /\ \A j \in Levels \ {l} : frame'[j] = frame[j]
  BY <1>1, <1>2 DEF TypeOK
<1>4. ret' \in Answer  BY <1>2, AnswerType DEF Quiet
<1>5. TypeOK'  BY <1>1, <1>2, <1>3, <1>4 DEF TypeOK, heap, lib
<1>6. RegistrySound' /\ ResultOwned' /\ FramesSound' /\ Unmade'
  BY <1>2, <1>3, FrameStep DEF lib
<1> QED  BY <1>5, <1>6 DEF IInv

Configured(k) == [NoFrame EXCEPT !.op = "connect", !.conn = k]
Optional(o, c) == [NoFrame EXCEPT !.op = o, !.cur = c]

LEMMA ConfigFrame ==
  ASSUME NEW k \in Conns
  PROVE  /\ Configured(k) \in Frame /\ Configured(k).op # "execute"
         /\ CallSound(Configured(k))
<1> DEFINE f1 == [NoFrame EXCEPT !.op = "connect"]
           f2 == [f1 EXCEPT !.conn = k]
<1>1. Configured(k) = f2  BY DEF Configured
<1>2. f1 \in Frame /\ f1.op = "connect"  BY NoFrameType DEF Frame
<1> HIDE DEF f1
<1>3. f2 \in Frame /\ f2.op = "connect" /\ f2.conn = k  BY <1>2 DEF Frame
<1> HIDE DEF f2
<1> QED  BY <1>1, <1>3 DEF CallSound

LEMMA OptionFrame ==
  ASSUME NEW o \in {"fetch_opt", "fetch_all_opt"}, NEW c \in Cursors
  PROVE  /\ Optional(o, c) \in Frame /\ Optional(o, c).op # "execute"
         /\ CallSound(Optional(o, c))
<1> DEFINE f1 == [NoFrame EXCEPT !.op = o]
           f2 == [f1 EXCEPT !.cur = c]
<1>1. Optional(o, c) = f2  BY DEF Optional
<1>2. f1 \in Frame /\ f1.op = o  BY NoFrameType DEF Frame
<1> HIDE DEF f1
<1>3. f2 \in Frame /\ f2.op = o /\ f2.cur = c  BY <1>2 DEF Frame
<1> HIDE DEF f2
<1> QED  BY <1>1, <1>3 DEF CallSound

(* connect, at once or after it converted its arguments.                   *)
LEMMA ConnectStep ==
  ASSUME IInv, NEW l \in Levels,
         (\E k \in Conns : conn_connect(l, k)) \/ connect_converted(l)
  PROVE  IInv'
<1>1. TypeOK  BY DEF IInv
<1>2. ASSUME NEW k \in Conns, real_connect(k), frame' \in [Levels -> Frame]
      PROVE  TypeOK' /\ UNCHANGED <<registry, cursor, res>>
  <2>1. PICK a \in mysql_real_connect(mysql[k]) :
          /\ mysql' = [mysql EXCEPT ![k] = a.m]
          /\ IF a.ok THEN Quiet ELSE Throw
    BY <1>2 DEF real_connect
  <2>2. UNCHANGED <<stage, heap, held, registry, closed, cursor, res, got, fault>>
    BY <1>2 DEF real_connect
  <2>3. a.m \in MYSQL  BY <1>1, ConnectType DEF TypeOK
  <2>4. mysql' \in [Conns -> MYSQL]  BY <1>1, <2>1, <2>3 DEF TypeOK
  <2>5. ret' \in Answer  BY <2>1, AnswerType DEF Quiet, Throw, Return
  <2> QED  BY <1>1, <1>2, <2>2, <2>4, <2>5 DEF TypeOK, heap
<1>3. ASSUME NEW k \in Conns, conn_connect(l, k)
      PROVE  IInv'
  <2>1. CASE Rejected  BY <1>1, <2>1, RejectedType, QuietStep DEF IInv
  <2>2. CASE ConvertArguments(l, [NoFrame EXCEPT !.op = "connect", !.conn = k])
    <3>1. frame[l].op # "execute"  BY <1>3 DEF conn_connect, Callable, Idle
    <3>2. ConvertArguments(l, Configured(k))  BY <2>2 DEF Configured
    <3> QED  BY <3>1, <3>2, ConfigFrame, ConvertStep
  <2>3. CASE real_connect(k) /\ UNCHANGED frame
    <3>1. TypeOK' /\ UNCHANGED <<registry, cursor, res>>
      BY <1>1, <1>2, <2>3 DEF TypeOK
    <3> QED  BY <2>3, <3>1, QuietStep DEF IInv
  <2> QED  BY <1>3, <2>1, <2>2, <2>3 DEF conn_connect
<1>4. CASE connect_converted(l)
  <2>1. frame[l].op = "connect" /\ real_connect(frame[l].conn) /\ Leave(l)
    BY <1>4 DEF connect_converted
  <2>2. frame[l].conn \in Conns  BY <2>1 DEF IInv, FramesSound, CallSound
  <2>3. /\ frame' \in [Levels -> Frame]
        /\ frame'[l].op # "execute" /\ CallSound(frame'[l])
        /\ \A j \in Levels \ {l} : frame'[j] = frame[j]
    BY <1>1, <2>1, LeaveType
  <2>4. TypeOK' /\ UNCHANGED <<registry, cursor, res>>  BY <1>2, <2>1, <2>2, <2>3
  <2>5. RegistrySound' /\ ResultOwned' /\ FramesSound' /\ Unmade'
    BY <2>1, <2>3, <2>4, FrameStep
  <2> QED  BY <2>4, <2>5 DEF IInv
<1> QED  BY <1>3, <1>4

(* fetch and fetch_all have fetched a row of c and go on to convert it.    *)
LEMMA EnterFetchStep ==
  ASSUME IInv, NEW l \in Levels, frame[l].op # "execute", NEW c \in Cursors,
         NEW o \in {"fetch", "fetch_all"}, NEW i \in 0..MaxRows, i # 0,
         NEW r \in MYSQL_RES, r.state = res[c].state,
         NEW my \in [Conns -> MYSQL],
         res' = [res EXCEPT ![c] = r], mysql' = my,
         cursor' = [cursor EXCEPT ![c].fields = TRUE],
         Enter(l, [NoFrame EXCEPT !.op = o, !.cur = c, !.row = i]),
         Quiet,
         UNCHANGED <<stage, heap, held, registry, closed, got, fault>>
  PROVE  IInv'
<1>1. TypeOK  BY DEF IInv
<1> DEFINE x == [cursor[c] EXCEPT !.fields = TRUE]
<1>2. x \in Cursor /\ x.conn = cursor[c].conn /\ x.my_res = cursor[c].my_res
  <2>1. cursor[c] \in Cursor  BY <1>1 DEF TypeOK
  <2> QED  BY <2>1 DEF Cursor
<1>3. cursor' = [cursor EXCEPT ![c] = x]  OBVIOUS
<1> HIDE DEF x
<1>4. /\ cursor' \in [Cursors -> Cursor]
      /\ \A d \in Cursors : /\ cursor'[d].conn = cursor[d].conn
                            /\ cursor'[d].my_res = cursor[d].my_res
  BY <1>1, <1>2, <1>3 DEF TypeOK
<1>5. /\ res' \in [Cursors -> MYSQL_RES]
      /\ \A d \in Cursors : res'[d].state = res[d].state
  BY <1>1 DEF TypeOK
<1>6. frame' = [frame EXCEPT ![l] = Fetching(o, c, i)]
  BY DEF Enter, Fetching
<1>7. /\ Fetching(o, c, i) \in Frame /\ Fetching(o, c, i).op = o
      /\ Fetching(o, c, i).cur = c /\ Fetching(o, c, i).row = i
  BY FetchFrame
<1>8. /\ frame' \in [Levels -> Frame] /\ frame'[l] = Fetching(o, c, i)
      /\ \A j \in Levels \ {l} : frame'[j] = frame[j]
  BY <1>1, <1>6, <1>7 DEF TypeOK
<1>9. ret' \in Answer  BY AnswerType DEF Quiet
<1>10. TypeOK'
  BY <1>1, <1>4, <1>5, <1>8, <1>9 DEF TypeOK, heap
<1>11. \A j \in Levels :
         \/ frame'[j] = frame[j]
         \/ /\ frame[j].op # "execute"
            /\ frame'[j].op # "execute" /\ CallSound(frame'[j])
  BY <1>7, <1>8 DEF CallSound
<1>12. RegistrySound' /\ ResultOwned' /\ FramesSound' /\ Unmade'
  BY <1>4, <1>5, <1>11, FrameStep
<1> QED  BY <1>10, <1>12 DEF IInv

LEMMA FetchRowStep ==
  ASSUME IInv, NEW l \in Levels, frame[l].op # "execute", NEW c \in Cursors,
         FetchRow(l, c)
  PROVE  IInv'
<1>1. TypeOK /\ res[c] \in MYSQL_RES /\ mysql \in [Conns -> MYSQL]
  BY DEF IInv, TypeOK
<1>2. PICK f \in mysql_fetch_row(res[c], mysql) :
        /\ mysql' = f.my
        /\ IF f.row = 0
           THEN /\ res' = [res EXCEPT ![c] = f.r]
                /\ Leave(l)
                /\ Return("end", c)
                /\ UNCHANGED cursor
           ELSE /\ res' = [res EXCEPT ![c] = WithLengths(c, f.r)]
                /\ cursor' = [cursor EXCEPT ![c].fields = TRUE]
                /\ Enter(l, [NoFrame EXCEPT !.op = "fetch", !.cur = c,
                                            !.row = f.row])
                /\ Quiet
  BY DEF FetchRow
<1>3. /\ f.row \in 0..MaxRows /\ f.r \in MYSQL_RES /\ f.r.state = res[c].state
      /\ f.my \in [Conns -> MYSQL]
  BY <1>1, ValuesFacts, FetchRowType
<1>4. UNCHANGED <<stage, heap, held, registry, closed, got, fault>>
  BY DEF FetchRow
<1>5. CASE f.row = 0
  <2>1. res' = [res EXCEPT ![c] = f.r] /\ Leave(l) /\ Return("end", c) /\ UNCHANGED cursor
    BY <1>2, <1>5
  <2>2. /\ res' \in [Cursors -> MYSQL_RES]
        /\ \A d \in Cursors : res'[d].state = res[d].state
    BY <1>1, <1>3, <2>1 DEF TypeOK
  <2>3. /\ frame' \in [Levels -> Frame]
        /\ frame'[l].op # "execute" /\ CallSound(frame'[l])
        /\ \A j \in Levels \ {l} : frame'[j] = frame[j]
    BY <1>1, <2>1, LeaveType
  <2>4. ret' \in Answer  BY <2>1, AnswerType DEF Return, Objects
  <2>5. mysql' \in [Conns -> MYSQL]  BY <1>2, <1>3
  <2>6. TypeOK'  BY <1>1, <1>4, <2>1, <2>2, <2>3, <2>4, <2>5 DEF TypeOK, heap
  <2>7. RegistrySound' /\ ResultOwned' /\ FramesSound' /\ Unmade'
    BY <1>4, <2>1, <2>2, <2>3, FrameStep
  <2> QED  BY <2>6, <2>7 DEF IInv
<1>6. CASE f.row # 0
  <2>1. /\ res' = [res EXCEPT ![c] = WithLengths(c, f.r)]
        /\ cursor' = [cursor EXCEPT ![c].fields = TRUE]
        /\ Enter(l, [NoFrame EXCEPT !.op = "fetch", !.cur = c, !.row = f.row])
        /\ Quiet
    BY <1>2, <1>6
  <2>2. WithLengths(c, f.r) \in MYSQL_RES /\ WithLengths(c, f.r).state = res[c].state
    BY <1>3, FetchLengthsType DEF WithLengths
  <2> QED  BY <1>2, <1>3, <1>4, <1>6, <2>1, <2>2, EnterFetchStep
<1> QED  BY <1>5, <1>6

(* The end of fetch_all: the cursor is nullified.                          *)
LEMMA FetchAllEnds ==
  ASSUME IInv, NEW c \in Cursors, NEW r \in MYSQL_RES, NEW my \in [Conns -> MYSQL],
         nullify(c, r, my), ret' \in Answer, got' \in [Cursors -> Seq(Row)],
         frame' \in [Levels -> Frame],
         \A j \in Levels :
           frame'[j] = frame[j] \/ (Idle(j)' /\ frame[j].op # "execute"),
         UNCHANGED <<stage, heap, held, closed, fault>>
  PROVE  IInv'
<1>1. TypeOK  BY DEF IInv
<1>2. /\ cursor' \in [Cursors -> Cursor] /\ registry' \in Registry(Values)
      /\ res' \in [Cursors -> MYSQL_RES] /\ mysql' \in [Conns -> MYSQL]
  BY NullifyStep
<1>3. registry' \in [free: Nat, slot: Seq(Conns \cup {MainThread, Globals} \cup Nat)]
  BY <1>2 DEF Registry, Values
<1>4. TypeOK'  BY <1>1, <1>2, <1>3 DEF TypeOK, heap
<1>5. RegistrySound' /\ ResultOwned' /\ FramesSound' /\ Unmade'  BY NullifySafe
<1> QED  BY <1>4, <1>5 DEF IInv

LEMMA FetchFirstRowStep ==
  ASSUME IInv, NEW l \in Levels, frame[l].op # "execute", NEW c \in Cursors,
         FetchFirstRow(l, c)
  PROVE  IInv'
<1>1. TypeOK /\ res[c] \in MYSQL_RES /\ mysql \in [Conns -> MYSQL]
  BY DEF IInv, TypeOK
<1>2. PICK f \in mysql_fetch_row(res[c], mysql) :
        IF f.row = 0
        THEN /\ nullify(c, f.r, f.my)
             /\ Leave(l)
             /\ Return("end", c)
        ELSE /\ res' = [res EXCEPT ![c] = mysql_fetch_lengths(f.r)]
             /\ mysql' = f.my
             /\ cursor' = [cursor EXCEPT ![c].fields = TRUE]
             /\ Enter(l, [NoFrame EXCEPT !.op = "fetch_all", !.cur = c,
                                         !.row = f.row])
             /\ Quiet
             /\ UNCHANGED registry
  BY DEF FetchFirstRow
<1>3. /\ f.row \in 0..MaxRows /\ f.r \in MYSQL_RES /\ f.r.state = res[c].state
      /\ f.my \in [Conns -> MYSQL]
  BY <1>1, ValuesFacts, FetchRowType
<1>4. UNCHANGED <<stage, heap, held, closed, got, fault>>
  BY DEF FetchFirstRow
<1>5. CASE f.row = 0
  <2>1. nullify(c, f.r, f.my) /\ Leave(l) /\ Return("end", c)
    BY <1>2, <1>5
  <2>2. ret' \in Answer  BY <2>1, AnswerType DEF Return, Objects
  <2>3. /\ frame' \in [Levels -> Frame] /\ Idle(l)'
        /\ \A j \in Levels \ {l} : frame'[j] = frame[j]
    BY <1>1, <2>1, LeaveType
  <2>4. got' \in [Cursors -> Seq(Row)]  BY <1>1, <1>4 DEF TypeOK
  <2> QED  BY <1>3, <1>4, <2>1, <2>2, <2>3, <2>4, FetchAllEnds
<1>6. CASE f.row # 0
  <2>1. /\ res' = [res EXCEPT ![c] = mysql_fetch_lengths(f.r)]
        /\ mysql' = f.my
        /\ cursor' = [cursor EXCEPT ![c].fields = TRUE]
        /\ Enter(l, [NoFrame EXCEPT !.op = "fetch_all", !.cur = c, !.row = f.row])
        /\ Quiet
        /\ UNCHANGED registry
    BY <1>2, <1>6
  <2>2. /\ mysql_fetch_lengths(f.r) \in MYSQL_RES
        /\ mysql_fetch_lengths(f.r).state = res[c].state
    BY <1>3, FetchLengthsType
  <2> QED  BY <1>3, <1>4, <1>6, <2>1, <2>2, EnterFetchStep
<1> QED  BY <1>5, <1>6

LEMMA NullResultStep ==
  ASSUME IInv, NEW c \in Cursors, NullResult(c)
  PROVE  IInv'
<1>1. TypeOK'  BY AnswerType DEF NullResult, Quiet, IInv, TypeOK, heap, lib
<1>2. UNCHANGED <<registry, cursor, res, frame>>  BY DEF NullResult, lib
<1> QED  BY <1>1, <1>2, QuietStep DEF IInv

(* fetch and fetch_all, from the script or after they converted their      *)
(* option.                                                                 *)
LEMMA FetchStep ==
  ASSUME IInv, NEW l \in Levels, NEW c \in Cursors,
         cursor_fetch(l, c) \/ cursor_fetch_all(l, c)
  PROVE  IInv'
<1>1. TypeOK /\ frame[l].op = "none"
  BY DEF IInv, cursor_fetch, cursor_fetch_all, Callable, Idle
<1>2. CASE Rejected  BY <1>1, <1>2, RejectedType, QuietStep DEF IInv
<1>3. ASSUME NEW o \in {"fetch_opt", "fetch_all_opt"},
             ConvertArguments(l, [NoFrame EXCEPT !.op = o, !.cur = c])
      PROVE  IInv'
  BY <1>1, <1>3, OptionFrame, ConvertStep DEF Optional
<1>4. CASE FetchRow(l, c)  BY <1>1, <1>4, FetchRowStep
<1>5. CASE FetchFirstRow(l, c)  BY <1>1, <1>5, FetchFirstRowStep
<1> QED  BY <1>2, <1>3, <1>4, <1>5 DEF cursor_fetch, cursor_fetch_all

LEMMA OptionConvertedStep ==
  ASSUME IInv, NEW l \in Levels, option_converted(l)
  PROVE  IInv'
<1> DEFINE c == frame[l].cur
<1>1. frame[l].op \in {"fetch_opt", "fetch_all_opt"} /\ c \in Cursors
  BY DEF option_converted, IInv, FramesSound, CallSound
<1>2. CASE NullResult(c)  BY <1>1, <1>2, NullResultStep
<1>3. CASE FetchRow(l, c)  BY <1>1, <1>3, FetchRowStep
<1>4. CASE FetchFirstRow(l, c)  BY <1>1, <1>4, FetchFirstRowStep
<1> QED  BY <1>2, <1>3, <1>4 DEF option_converted

(* The row a fetch or fetch_all converts, and the table it becomes part of. *)
LEMMA ConvertedType ==
  ASSUME IInv, NEW l \in Levels, frame[l].op \in {"fetch", "fetch_all"}
  PROVE  /\ frame[l].cur \in Cursors /\ frame[l] \in Frame
         /\ Converted(frame[l]) \in Row /\ Filled(frame[l]) \in Seq(Row)
<1> DEFINE f == frame[l]
<1>1. f \in Frame /\ f.cur \in Cursors /\ f.row # 0
  BY DEF IInv, TypeOK, FramesSound, CallSound
<1>2. res[f.cur].lens \in 0..MaxRows  BY <1>1 DEF IInv, TypeOK, MYSQL_RES
<1>3. f.row \in 1..MaxRows /\ f.tbl \in Seq(Row)  BY <1>1, ValuesFacts DEF Frame
<1> HIDE DEF f
<1>4. Converted(f) \in Row  BY <1>2, <1>3 DEF Converted, Row
<1>5. Filled(f) \in Seq(Row)  BY <1>3, <1>4 DEF Filled
<1> QED  BY <1>1, <1>4, <1>5 DEF f

LEMMA StaleRowStep ==
  ASSUME IInv, StaleRow
  PROVE  IInv'
<1>1. TypeOK'  BY AnswerType DEF StaleRow, Quiet, IInv, TypeOK, heap, lib
<1>2. UNCHANGED <<registry, cursor, res, frame>>  BY DEF StaleRow, lib
<1> QED  BY <1>1, <1>2, QuietStep DEF IInv

LEMMA RowToTableStep ==
  ASSUME IInv, NEW l \in Levels, fetch_row_to_table(l)
  PROVE  IInv'
<1> DEFINE c == frame[l].cur
<1>1. TypeOK  BY DEF IInv
<1>2. CASE StaleRow  BY <1>2, StaleRowStep
<1>3. CASE ~StaleRow
  <2>1. /\ frame[l].op = "fetch"
        /\ got' = [got EXCEPT ![c] = Append(got[c], Converted(frame[l]))]
        /\ Leave(l) /\ Return("row", c)
        /\ UNCHANGED <<stage, heap, held, registry, lib, fault>>
    BY <1>3 DEF fetch_row_to_table
  <2>2. c \in Cursors /\ Converted(frame[l]) \in Row  BY <2>1, ConvertedType
  <2> DEFINE t == Append(got[c], Converted(frame[l]))
  <2>3. t \in Seq(Row)
    <3>1. got[c] \in Seq(Row)  BY <1>1, <2>2 DEF TypeOK
    <3> QED  BY <2>2, <3>1
  <2>4. got' = [got EXCEPT ![c] = t]  BY <2>1
  <2> HIDE DEF t
  <2>5. got' \in [Cursors -> Seq(Row)]  BY <1>1, <2>3, <2>4 DEF TypeOK
  <2>6. /\ frame' \in [Levels -> Frame]
        /\ frame'[l].op # "execute" /\ CallSound(frame'[l])
        /\ \A j \in Levels \ {l} : frame'[j] = frame[j]
    BY <1>1, <2>1, LeaveType
  <2>7. ret' \in Answer  BY <2>1, <2>2, AnswerType DEF Return, Objects
  <2>8. TypeOK'  BY <1>1, <2>1, <2>5, <2>6, <2>7 DEF TypeOK, heap, lib
  <2>9. RegistrySound' /\ ResultOwned' /\ FramesSound' /\ Unmade'
    BY <2>1, <2>6, FrameStep DEF lib
  <2> QED  BY <2>8, <2>9 DEF IInv
<1> QED  BY <1>2, <1>3

LEMMA AllRowToTableStep ==
  ASSUME IInv, NEW l \in Levels, fetch_all_row_to_table(l)
  PROVE  IInv'
<1> DEFINE c == frame[l].cur
<1>1. TypeOK  BY DEF IInv
<1>2. CASE StaleRow  BY <1>2, StaleRowStep
<1>3. CASE ~StaleRow
  <2>0. frame[l].op = "fetch_all" /\ UNCHANGED <<stage, heap, held, closed, fault>>
    BY <1>3 DEF fetch_all_row_to_table
  <2>1. PICK g \in mysql_fetch_row(res[c], mysql) :
          IF g.row # 0
          THEN /\ Enter(l, [frame[l] EXCEPT !.row = g.row, !.tbl = Filled(frame[l])])
               /\ res' = [res EXCEPT ![c] = g.r]
               /\ mysql' = g.my
               /\ Quiet
               /\ UNCHANGED <<cursor, registry, got>>
          ELSE /\ nullify(c, g.r, g.my)
               /\ got' = [got EXCEPT ![c] = got[c] \o Filled(frame[l])]
               /\ Leave(l)
               /\ Return("rows", c)
    BY <1>3 DEF fetch_all_row_to_table
  <2>2. c \in Cursors /\ frame[l] \in Frame /\ Filled(frame[l]) \in Seq(Row)
    BY <2>0, ConvertedType
  <2>3. res[c] \in MYSQL_RES /\ mysql \in [Conns -> MYSQL]  BY <1>1, <2>2 DEF TypeOK
  <2>4. /\ g.row \in 0..MaxRows /\ g.r \in MYSQL_RES /\ g.r.state = res[c].state
        /\ g.my \in [Conns -> MYSQL]
    BY <2>3, ValuesFacts, FetchRowType
  <2>5. CASE g.row # 0
    <3> DEFINE f1 == [frame[l] EXCEPT !.row = g.row]
               f2 == [f1 EXCEPT !.tbl = Filled(frame[l])]
    <3>1. frame' = [frame EXCEPT ![l] = f2]
      BY <2>1, <2>5 DEF Enter
    <3>2. f1 \in Frame /\ f1.op = "fetch_all" /\ f1.cur = c /\ f1.row = g.row
      BY <2>0, <2>2, <2>4 DEF Frame
    <3> HIDE DEF f1
    <3>3. f2 \in Frame /\ f2.op = "fetch_all" /\ f2.cur = c /\ f2.row = g.row
      BY <2>2, <3>2 DEF Frame
    <3> HIDE DEF f2
    <3>4. /\ frame' \in [Levels -> Frame] /\ frame'[l] = f2
          /\ \A j \in Levels \ {l} : frame'[j] = frame[j]
      BY <1>1, <3>1, <3>3 DEF TypeOK
    <3>5. res' = [res EXCEPT ![c] = g.r] /\ mysql' = g.my /\ Quiet
          /\ UNCHANGED <<cursor, registry, got>>
      BY <2>1, <2>5
    <3>6. /\ res' \in [Cursors -> MYSQL_RES]
          /\ \A d \in Cursors : res'[d].state = res[d].state
      BY <1>1, <2>4, <3>5 DEF TypeOK
    <3>7. ret' \in Answer  BY <3>5, AnswerType DEF Quiet
    <3>8. TypeOK'  BY <1>1, <2>0, <2>4, <3>4, <3>5, <3>6, <3>7 DEF TypeOK, heap
    <3>9. \A j \in Levels :
            \/ frame'[j] = frame[j]
            \/ /\ frame[j].op # "execute"
               /\ frame'[j].op # "execute" /\ CallSound(frame'[j])
      BY <2>0, <2>2, <2>5, <3>3, <3>4 DEF CallSound
    <3>10. RegistrySound' /\ ResultOwned' /\ FramesSound' /\ Unmade'
      BY <3>5, <3>6, <3>9, FrameStep
    <3> QED  BY <3>8, <3>10 DEF IInv
  <2>6. CASE g.row = 0
    <3> DEFINE t == got[c] \o Filled(frame[l])
    <3>1. /\ nullify(c, g.r, g.my) /\ got' = [got EXCEPT ![c] = t]
          /\ Leave(l) /\ Return("rows", c)
      BY <2>1, <2>6
    <3>2. t \in Seq(Row)
      <4>1. got[c] \in Seq(Row)  BY <1>1, <2>2 DEF TypeOK
      <4> QED  BY <2>2, <4>1
    <3> HIDE DEF t
    <3>3. got' \in [Cursors -> Seq(Row)]  BY <1>1, <3>1, <3>2 DEF TypeOK
    <3>4. /\ frame' \in [Levels -> Frame] /\ Idle(l)'
          /\ \A j \in Levels \ {l} : frame'[j] = frame[j]
      BY <1>1, <3>1, LeaveType
    <3>5. \A j \in Levels :
            frame'[j] = frame[j] \/ (Idle(j)' /\ frame[j].op # "execute")
      BY <2>0, <3>4
    <3>6. ret' \in Answer  BY <2>2, <3>1, AnswerType DEF Return, Objects
    <3> QED  BY <2>0, <2>2, <2>4, <3>1, <3>3, <3>4, <3>5, <3>6, FetchAllEnds
  <2> QED  BY <2>5, <2>6
<1> QED  BY <1>2, <1>3

-----------------------------------------------------------------------------
(* The collector and lua_close: the objects move from list to list.        *)

LEMMA GCTMConnStep ==
  ASSUME IInv, NEW k \in Conns, GCTM_conn(k)
  PROVE  IInv'
<1>1. TypeOK  BY DEF IInv
<1>2. close_conn(k) /\ Quiet /\ ud' = [ud EXCEPT ![k] = "finalized"]
      /\ UNCHANGED <<stage, age, clock, held, registry, cursor, res, got, frame, fault>>
  BY DEF GCTM_conn
<1>3. closed' \in [Conns -> BOOLEAN] /\ mysql' \in [Conns -> MYSQL]
  BY <1>1, <1>2, CloseConnType
<1>4. ud' \in [Objects -> UdState] /\ ret' \in Answer
  BY <1>1, <1>2, AnswerType DEF TypeOK, UdState, Quiet
<1>5. TypeOK'  BY <1>1, <1>2, <1>3, <1>4 DEF TypeOK
<1> QED  BY <1>2, <1>5, QuietStep DEF IInv

LEMMA CollectorStep ==
  ASSUME IInv,
         \/ \E o \in Objects : Drop(o) \/ separatetobefnz(o) \/ sweep(o) \/ Resurrect(o)
         \/ lua_close \/ freeallobjects \/ Over
  PROVE  IInv'
<1>1. TypeOK  BY DEF IInv
<1> SUFFICES TypeOK' /\ UNCHANGED <<registry, cursor, res, frame>>
  BY QuietStep DEF IInv
<1>2. ASSUME NEW o \in Objects, Drop(o) \/ separatetobefnz(o) \/ sweep(o) \/ Resurrect(o)
      PROVE  TypeOK' /\ UNCHANGED <<registry, cursor, res, frame>>
  <2>1. /\ UNCHANGED <<stage, age, clock, registry, closed, mysql, cursor, res, got,
                       frame, fault>>
        /\ Quiet
    BY <1>2 DEF Drop, separatetobefnz, sweep, Resurrect, heap, lib
  <2>2. held' \subseteq Objects
    BY <1>1, <1>2 DEF Drop, separatetobefnz, sweep, Resurrect, TypeOK
  <2>3. ud' \in [Objects -> UdState]
    BY <1>1, <1>2 DEF Drop, separatetobefnz, sweep, Resurrect, TypeOK, heap, UdState
  <2>4. ret' \in Answer  BY <2>1, AnswerType DEF Quiet
  <2> QED  BY <1>1, <2>1, <2>2, <2>3, <2>4 DEF TypeOK
<1>3. CASE lua_close
  <2>1. ud' \in [Objects -> UdState]
    BY <1>1, <1>3 DEF lua_close, TypeOK, UdState
  <2> QED  BY <1>1, <1>3, <2>1, AnswerType DEF lua_close, TypeOK, lib, Quiet
<1>4. CASE freeallobjects
  <2>1. ud' \in [Objects -> UdState]
    BY <1>1, <1>4 DEF freeallobjects, TypeOK, UdState
  <2> QED  BY <1>1, <1>4, <2>1, AnswerType DEF freeallobjects, TypeOK, lib, Quiet
<1>5. CASE Over
  BY <1>1, <1>5 DEF Over, vars, TypeOK, heap, lib
<1> QED  BY <1>2, <1>3, <1>4, <1>5

-----------------------------------------------------------------------------

(* Every step preserves the invariant.                                     *)
LEMMA StepIInv == IInv /\ [Next]_vars => IInv'
<1> SUFFICES ASSUME IInv, [Next]_vars PROVE IInv'  OBVIOUS
<1>1. CASE UNCHANGED vars
  <2>1. TypeOK'  BY <1>1 DEF IInv, TypeOK, vars, heap, lib
  <2> QED  BY <1>1, <2>1, QuietStep DEF IInv, vars, lib
<1>2. CASE Script
  <2>1. PICK l \in Levels :
          \/ conn_create(l)
          \/ \E k \in Conns : ConnCall(l, k)
          \/ \E c \in Cursors : CursorCall(l, c)
          \/ Resume(l)
    BY <1>2 DEF Script
  <2>2. CASE conn_create(l)  BY <2>2, ConnCreateStep
  <2>3. ASSUME NEW k \in Conns, ConnCall(l, k) PROVE IInv'
    BY <2>3, ConnectStep, ConnQuietStep, ExecuteStep DEF ConnCall
  <2>4. ASSUME NEW c \in Cursors, CursorCall(l, c) PROVE IInv'
    BY <2>4, GCStep, FetchStep DEF CursorCall
  <2>5. CASE Resume(l)
    BY <2>5, ConnectStep, CreateCursorStep, ThrowStep, OptionConvertedStep,
       RowToTableStep, AllRowToTableStep DEF Resume
  <2> QED  BY <2>1, <2>2, <2>3, <2>4, <2>5
<1>3. CASE Collector
  BY <1>3, CollectorStep, GCStep, GCTMConnStep DEF Collector
<1>4. CASE lua_close \/ freeallobjects \/ Over  BY <1>4, CollectorStep
<1> QED  BY <1>1, <1>2, <1>3, <1>4 DEF Next

(* The invariant holds in every behaviour.                                 *)
LEMMA Invariance == Spec => []IInv
BY InitIInv, StepIInv, PTL DEF Spec

(* Every variable keeps its type: in particular no cursor is ever given a  *)
(* row beyond its result, and the registry holds only connections, Lua's   *)
(* own two values and free-list links.                                     *)
THEOREM TypeCorrect == Spec => []TypeOK
<1>1. IInv => TypeOK  BY DEF IInv
<1> QED  BY <1>1, Invariance, PTL

(* The references of cursors are sound whatever the script, its            *)
(* finalizers, the collector, the server and a failing allocation do:      *)
(* cursor_nullify never gives one back twice, create_cursor never gets one *)
(* that is in use, and none leaks.                                         *)
THEOREM RegistrySafe == Spec => []RegistrySound
<1>1. IInv => RegistrySound  BY DEF IInv
<1> QED  BY <1>1, Invariance, PTL

(* A result is freed once, a cursor never reads one that was freed, and    *)
(* without thrown errors each live result has exactly one owner.           *)
THEOREM ResultsSafe == Spec => []ResultOwned
<1>1. IInv => ResultOwned  BY DEF IInv
<1> QED  BY <1>1, Invariance, PTL

=============================================================================
