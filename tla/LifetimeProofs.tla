---------------------------- MODULE LifetimeProofs ----------------------------
(***************************************************************************)
(* A cursor's reference keeps the memory its result points into: while an  *)
(* owned result is read from a connection, the cursor's slot of the        *)
(* registry holds that very connection (SlotsRight), and what can be       *)
(* reached is not finalized, let alone freed (Alive). Before there is a    *)
(* cursor, the call that is about to make it holds the connection on its   *)
(* stack.                                                                  *)
(***************************************************************************)
EXTENDS ReaderProofs

SlotsRight ==
  /\ \A c \in Cursors, k \in Conns :
       Reading(c, k) /\ cursor[c].my_res => registry.slot[cursor[c].conn] = k
  /\ \A l \in Levels, k \in Conns :
       frame[l].op = "execute" /\ Reading(frame[l].cur, k) => frame[l].conn = k

(* Finalizers of the script may bring back what is being finalized, and    *)
(* lua_close finalizes what can be reached.                                *)
Alive ==
  \A k \in Conns : stage # "closed" /\ Reachable(k) =>
    /\ ud[k] \notin {"none", "freed"}
    /\ stage = "running" /\ ~Reentrant => ud[k] = "live"

CursorMade == \A c \in Cursors : cursor[c].my_res => ud[c] # "none"

ClosedState ==
  stage = "closed" => /\ \A l \in Levels : Idle(l)
                      /\ \A o \in Objects : ud[o] \in {"none", "freed"}

ReferenceInv == IInv /\ SlotsRight /\ Alive /\ CursorMade /\ ClosedState

-----------------------------------------------------------------------------
(* What most steps leave alone *)

(* No slot is filled.                                                      *)
SlotsStay ==
  \A s \in UsedSlots(registry') :
    s \in UsedSlots(registry) /\ registry'.slot[s] = registry.slot[s]

(* No cursor gets a result, and no result starts to read.                  *)
CursorsStay ==
  /\ \A c \in Cursors : cursor'[c].my_res =>
       cursor[c].my_res /\ cursor'[c].conn = cursor[c].conn
  /\ \A c \in Cursors, k \in Conns : Reading(c, k)' => Reading(c, k)

(* No execute begins, and a call that begins is on what the script holds.  *)
CallsStay ==
  \A l \in Levels :
    /\ frame'[l].op = "execute" => frame'[l] = frame[l]
    /\ \A k \in Conns : frame'[l].op # "none" /\ frame'[l].conn = k =>
         k \in held \/ (frame[l].op # "none" /\ frame[l].conn = k)

LEMMA QuietStays ==
  ASSUME UNCHANGED <<registry, cursor, res, frame>>
  PROVE  SlotsStay /\ CursorsStay /\ CallsStay
BY DEF SlotsStay, CursorsStay, CallsStay, Reading

(* A call begins or goes on at level l with the frame f.                   *)
LEMMA EnterStays ==
  ASSUME TypeOK, NEW l \in Levels, NEW f, frame' = [frame EXCEPT ![l] = f],
         f.op # "execute",
         \A k \in Conns : f.op # "none" /\ f.conn = k =>
           k \in held \/ (frame[l].op # "none" /\ frame[l].conn = k)
  PROVE  CallsStay
<1>1. frame'[l] = f /\ \A j \in Levels \ {l} : frame'[j] = frame[j]
  BY DEF TypeOK
<1> QED  BY <1>1 DEF CallsStay

LEMMA LeaveStays ==
  ASSUME TypeOK, NEW l \in Levels, Leave(l)
  PROVE  CallsStay
<1>1. NoFrame.op = "none"  BY DEF NoFrame
<1> QED  BY <1>1, EnterStays DEF Leave

(* The end of a cursor.                                                    *)
LEMMA NullifyStays ==
  ASSUME IInv, NEW c \in Cursors, NEW r \in MYSQL_RES,
         NEW my \in [Conns -> MYSQL], nullify(c, r, my)
  PROVE  SlotsStay /\ CursorsStay
<1>1. TypeOK /\ RegistrySound /\ registry \in Registry(Values)
  BY RegistryType DEF IInv
<1>2. /\ \A d \in Cursors \ {c} : cursor'[d] = cursor[d] /\ res'[d] = res[d]
      /\ cursor'[c].my_res = FALSE
      /\ cursor[c].my_res => res'[c].state = "freed"
      /\ ~cursor[c].my_res => res'[c] = res[c]
  BY NullifyStep
<1>3. CursorsStay
  <2>1. \A d \in Cursors, k \in Conns : Reading(d, k)' => Reading(d, k)
    BY <1>2 DEF Reading
  <2> QED  BY <1>2, <2>1 DEF CursorsStay
<1>4. SlotsStay
  <2>1. CASE cursor[c].conn = LUA_NOREF
    <3>1. registry' = registry  BY <2>1 DEF nullify, Unreferenced
    <3> QED  BY <3>1 DEF SlotsStay
  <2>2. CASE cursor[c].conn # LUA_NOREF
    <3> DEFINE ref == cursor[c].conn
    <3>1. registry' = luaL_unref(registry, ref)  BY <2>2 DEF nullify, Unreferenced
    <3>2. ref \in UsedSlots(registry)  BY <1>1, <2>2 DEF RegistrySound, Refs
    <3>3. FreeListSound(registry)  BY <1>1 DEF RegistrySound
    <3>4. /\ UsedSlots(registry') = UsedSlots(registry) \ {ref}
          /\ \A s \in UsedSlots(registry') : registry'.slot[s] = registry.slot[s]
      BY <1>1, <3>1, <3>2, <3>3, ValuesFacts, UnrefSound
    <3> QED  BY <3>4 DEF SlotsStay
  <2> QED  BY <2>1, <2>2
<1> QED  BY <1>3, <1>4

(* A row is fetched.                                                       *)
LEMMA FetchedStays ==
  ASSUME TypeOK, NEW c \in Cursors, NEW f \in mysql_fetch_row(res[c], mysql),
         \/ res' = [res EXCEPT ![c] = f.r]
         \/ res' = [res EXCEPT ![c] = mysql_fetch_lengths(f.r)],
         \A d \in Cursors : /\ cursor'[d].my_res = cursor[d].my_res
                            /\ cursor'[d].conn = cursor[d].conn
  PROVE  CursorsStay
<1>1. ReadsOn(res[c], mysql, f.r, f.my) \/ Ended(res[c], mysql, f.r, f.my)
  BY FetchRowEffect DEF TypeOK
<1>2. f.r \in MYSQL_RES  BY FetchRowType, ValuesFacts DEF TypeOK
<1> DEFINE r == mysql_fetch_lengths(f.r)
<1>3. r.state = f.r.state /\ r.handle = f.r.handle
  BY <1>2 DEF mysql_fetch_lengths, MYSQL_RES
<1>4. res' = [res EXCEPT ![c] = f.r] \/ res' = [res EXCEPT ![c] = r]
  OBVIOUS
<1> HIDE DEF r
<1>5. /\ res'[c] = f.r \/ res'[c] = r
      /\ \A d \in Cursors \ {c} : res'[d] = res[d]
  BY <1>4 DEF TypeOK
<1>6. \A k \in Conns : Reads(res'[c], k) => Reads(res[c], k)
  BY <1>1, <1>3, <1>5 DEF ReadsOn, Ended, Reads
<1>7. \A d \in Cursors, k \in Conns : Reading(d, k)' => Reading(d, k)
  BY <1>5, <1>6 DEF Reads, Reading
<1> QED  BY <1>7 DEF CursorsStay

-----------------------------------------------------------------------------
(* What follows *)

(* A connection is reached as before, unless the script was given it.      *)
LEMMA ReachableStays ==
  ASSUME IInv', SlotsStay, CallsStay, NEW k \in Conns,
         Reachable(k)', k \in held' => k \in held
  PROVE  Reachable(k)
<1>1. \A l \in Levels : frame'[l].cur # k
  BY ObjectsDistinct DEF IInv, TypeOK, Frame
<1>2. CASE k \in held'  BY <1>2 DEF Reachable
<1>3. CASE \E l \in Levels : ~Idle(l)' /\ k \in {frame'[l].conn, frame'[l].cur}
  <2>1. PICK l \in Levels : frame'[l].op # "none" /\ frame'[l].conn = k
    BY <1>1, <1>3 DEF Idle
  <2> QED  BY <2>1 DEF CallsStay, Reachable, Idle
<1>4. CASE \E s \in UsedSlots(registry') : registry'.slot[s] = k
  BY <1>4 DEF SlotsStay, Reachable
<1> QED  BY <1>2, <1>3, <1>4 DEF Reachable

LEMMA SlotsRightStays ==
  ASSUME ReferenceInv, IInv', SlotsStay, CursorsStay, CallsStay
  PROVE  SlotsRight'
<1>1. ASSUME NEW c \in Cursors, NEW k \in Conns, Reading(c, k)', cursor'[c].my_res
      PROVE  registry'.slot[cursor'[c].conn] = k
  <2>1. Reading(c, k) /\ cursor[c].my_res /\ cursor'[c].conn = cursor[c].conn
    BY <1>1 DEF CursorsStay
  <2>2. cursor'[c].conn \in UsedSlots(registry')
    BY <1>1 DEF IInv, RegistrySound, ResultOwned, Refs
  <2> QED  BY <2>1, <2>2 DEF ReferenceInv, SlotsRight, SlotsStay
<1>2. ASSUME NEW l \in Levels, NEW k \in Conns,
             frame'[l].op = "execute", Reading(frame[l].cur, k)'
      PROVE  frame'[l].conn = k
  <2>1. frame'[l] = frame[l]  BY <1>2 DEF CallsStay
  <2>2. PICK c \in Cursors : c = frame[l].cur
    BY <1>2, <2>1 DEF ReferenceInv, IInv, FramesSound, CallSound
  <2>3. Reading(c, k)'  BY <1>2, <2>1, <2>2 DEF Reading
  <2>4. Reading(frame[l].cur, k)  BY <2>2, <2>3 DEF CursorsStay
  <2> QED  BY <1>2, <2>1, <2>4 DEF ReferenceInv, SlotsRight
<1> QED  BY <1>1, <1>2 DEF SlotsRight

(* A call of the binding: the heap stays as it is.                         *)
LEMMA CallStep ==
  ASSUME ReferenceInv, IInv', SlotsStay, CursorsStay, CallsStay, stage # "closed",
         UNCHANGED <<stage, heap, held>>
  PROVE  ReferenceInv'
<1>1. SlotsRight'  BY SlotsRightStays
<1>2. Alive'
  <2> SUFFICES ASSUME NEW k \in Conns, Reachable(k)'
               PROVE  /\ ud'[k] \notin {"none", "freed"}
                      /\ stage' = "running" /\ ~Reentrant => ud'[k] = "live"
    BY DEF Alive
  <2>1. Reachable(k)  BY ReachableStays
  <2> QED  BY <2>1 DEF ReferenceInv, Alive, heap
<1>3. CursorMade'  BY DEF CursorMade, CursorsStay, ReferenceInv, heap
<1>4. ClosedState'  BY DEF ClosedState
<1> QED  BY <1>1, <1>2, <1>3, <1>4 DEF ReferenceInv

-----------------------------------------------------------------------------
(* The calls of the binding *)

(* Calls happen while there is a Lua state.                                *)
LEMMA StateIsOpen ==
  ASSUME ClosedState, NEW l \in Levels, Callable(l) \/ Resumable(l)
  PROVE  stage # "closed"
BY DEF ClosedState, Callable, Resumable

(* conn_create gives the script a Connection with its own finalizer.       *)
LEMMA CreateReference ==
  ASSUME ReferenceInv, IInv', NEW l \in Levels, conn_create(l)
  PROVE  ReferenceInv'
<1>1. TypeOK /\ stage # "closed" /\ UNCHANGED <<stage, registry, cursor, res, frame>>
  BY StateIsOpen DEF ReferenceInv, IInv, conn_create, Rejected, lib
<1>2. SlotsStay /\ CursorsStay /\ CallsStay  BY <1>1, QuietStays
<1>3. PICK k \in Conns : lua_setmetatable(k) \/ Rejected
  BY DEF conn_create
<1>4. CASE Rejected  BY <1>1, <1>2, <1>4, CallStep DEF Rejected
<1>5. CASE lua_setmetatable(k)
  <2>1. /\ ud'[k] = "live" /\ \A o \in Objects \ {k} : ud'[o] = ud[o]
        /\ held' = held \cup {k}
    BY <1>1, <1>5 DEF lua_setmetatable, TypeOK, Objects
  <2>2. SlotsRight'  BY <1>2, SlotsRightStays
  <2>3. Alive'
    <3> SUFFICES ASSUME NEW j \in Conns, Reachable(j)'
                 PROVE  /\ ud'[j] \notin {"none", "freed"}
                        /\ stage' = "running" /\ ~Reentrant => ud'[j] = "live"
      BY DEF Alive
    <3>1. CASE j = k  BY <2>1, <3>1
    <3>2. CASE j # k
      <4>1. Reachable(j)  BY <1>2, <2>1, <3>2, ReachableStays
      <4> QED  BY <1>1, <2>1, <3>2, <4>1 DEF ReferenceInv, Alive, Objects
    <3> QED  BY <3>1, <3>2
  <2>4. CursorMade'  BY <1>1, <2>1 DEF ReferenceInv, CursorMade, Objects
  <2>5. ClosedState'  BY <1>1 DEF ClosedState
  <2> QED  BY <2>2, <2>3, <2>4, <2>5 DEF ReferenceInv
<1> QED  BY <1>3, <1>4, <1>5

(* execute has its result: the call holds the connection it reads from.    *)
LEMMA ExecutingReference ==
  ASSUME ReferenceInv, IInv', stage # "closed", NEW l \in Levels, Idle(l),
         NEW k \in Conns, k \in held, NEW c \in Cursors, res[c].state = "none",
         NEW n, NEW all,
         res' = [res EXCEPT ![c] = new_result(k, n, all)],
         Enter(l, [NoFrame EXCEPT !.op = "execute", !.conn = k, !.cur = c]),
         UNCHANGED <<stage, heap, held, registry, cursor>>
  PROVE  ReferenceInv'
<1>1. TypeOK /\ ResultOwned /\ FramesSound  BY DEF ReferenceInv, IInv
<1>2. /\ \A j \in Conns : Reading(c, j)' => j = k
      /\ \A d \in Cursors \ {c}, j \in Conns : Reading(d, j)' <=> Reading(d, j)
  <2>1. new_result(k, n, all).handle \in {k, NULL}  BY DEF new_result, NoResult
  <2>2. /\ res'[c] = new_result(k, n, all)
        /\ \A d \in Cursors \ {c} : res'[d] = res[d]
    BY <1>1 DEF TypeOK
  <2> QED  BY <2>1, <2>2, ValuesFacts DEF Reading
<1>3. frame' = [frame EXCEPT ![l] = Executing(k, c)]  BY DEF Enter, Executing
<1>4. Executing(k, c).op = "execute" /\ Executing(k, c).conn = k /\ Executing(k, c).cur = c
  BY ExecuteFrame
<1>5. frame'[l] = Executing(k, c) /\ \A j \in Levels \ {l} : frame'[j] = frame[j]
  BY <1>1, <1>3 DEF TypeOK
<1>6. ~cursor[c].my_res  BY <1>1 DEF ResultOwned
<1>7. SlotsRight'
  <2>1. ASSUME NEW d \in Cursors, NEW j \in Conns, Reading(d, j)', cursor'[d].my_res
        PROVE  registry'.slot[cursor'[d].conn] = j
    BY <1>2, <1>6, <2>1 DEF ReferenceInv, SlotsRight
  <2>2. ASSUME NEW i \in Levels, NEW j \in Conns,
               frame'[i].op = "execute", Reading(frame[i].cur, j)'
        PROVE  frame'[i].conn = j
    <3>1. CASE i = l
      <4>1. Reading(c, j)'  BY <1>4, <1>5, <2>2, <3>1 DEF Reading
      <4> QED  BY <1>2, <1>4, <1>5, <3>1, <4>1
    <3>2. CASE i # l
      <4>1. frame'[i] = frame[i]  BY <1>5, <3>2
      <4>2. PICK d \in Cursors : d = frame[i].cur
        BY <1>1, <2>2, <4>1 DEF FramesSound, CallSound
      <4>3. d # c  BY <1>1, <2>2, <4>1, <4>2 DEF FramesSound
      <4>4. Reading(d, j)'  BY <2>2, <4>1, <4>2 DEF Reading
      <4>5. Reading(frame[i].cur, j)  BY <1>2, <4>2, <4>3, <4>4
      <4> QED  BY <2>2, <4>1, <4>5 DEF ReferenceInv, SlotsRight
    <3> QED  BY <3>1, <3>2
  <2> QED  BY <2>1, <2>2 DEF SlotsRight
<1>8. Alive'
  <2> SUFFICES ASSUME NEW j \in Conns, Reachable(j)'
               PROVE  /\ ud'[j] \notin {"none", "freed"}
                      /\ stage' = "running" /\ ~Reentrant => ud'[j] = "live"
    BY DEF Alive
  <2>1. \A i \in Levels : frame'[i].cur # j
    BY ObjectsDistinct DEF IInv, TypeOK, Frame
  <2>2. Reachable(j)
    <3>1. CASE j \in held' \/ \E s \in UsedSlots(registry') : registry'.slot[s] = j
      BY <3>1 DEF Reachable
    <3>2. CASE \E i \in Levels : ~Idle(i)' /\ frame'[i].conn = j
      BY <1>4, <1>5, <3>2 DEF Reachable, Idle
    <3> QED  BY <2>1, <3>1, <3>2 DEF Reachable
  <2> QED  BY <2>2 DEF ReferenceInv, Alive, heap
<1>9. CursorMade'  BY DEF ReferenceInv, CursorMade, heap
<1>10. ClosedState'  BY DEF ClosedState
<1> QED  BY <1>7, <1>8, <1>9, <1>10 DEF ReferenceInv

LEMMA ExecuteReference ==
  ASSUME ReferenceInv, IInv', NEW l \in Levels, NEW k \in Conns, conn_execute(l, k)
  PROVE  ReferenceInv'
<1>1. stage # "closed" /\ Idle(l) /\ k \in held
  BY StateIsOpen DEF ReferenceInv, conn_execute, Callable
<1>2. UNCHANGED <<stage, heap, held, registry, cursor>>
  BY DEF conn_execute, Rejected, NullMethods, SendQuery, lib
<1>3. CASE UNCHANGED <<res, frame>>  BY <1>1, <1>2, <1>3, QuietStays, CallStep
<1>4. CASE Rejected \/ NullMethods  BY <1>3, <1>4 DEF Rejected, NullMethods, lib
<1>5. CASE SendQuery(l, k)
  <2>1. CASE \E c \in Cursors, all \in BOOLEAN, n \in 0..MaxRows :
               /\ res[c].state = "none"
               /\ res' = [res EXCEPT ![c] = new_result(k, n, all)]
               /\ Enter(l, [NoFrame EXCEPT !.op = "execute", !.conn = k, !.cur = c])
    BY <1>1, <1>2, <2>1, ExecutingReference
  <2>2. \/ UNCHANGED <<res, frame>>
        \/ \E c \in Cursors, all \in BOOLEAN, n \in 0..MaxRows :
              /\ res[c].state = "none"
              /\ res' = [res EXCEPT ![c] = new_result(k, n, all)]
              /\ Enter(l, [NoFrame EXCEPT !.op = "execute", !.conn = k, !.cur = c])
    BY <1>5 DEF SendQuery
  <2> QED  BY <1>3, <2>1, <2>2
<1> QED  BY <1>4, <1>5 DEF conn_execute

(* What the frames of the other calls hold.                                *)
LEMMA OtherFrames ==
  ASSUME NEW k, NEW o, NEW c, NEW i
  PROVE  /\ Configured(k).op = "connect" /\ Configured(k).conn = k
         /\ Optional(o, c).op = o /\ Optional(o, c).conn = NULL
         /\ Fetching(o, c, i).op = o /\ Fetching(o, c, i).conn = NULL
<1>1. Configured(k).op = "connect" /\ Configured(k).conn = k
  BY DEF Configured, NoFrame
<1>2. Optional(o, c).op = o /\ Optional(o, c).conn = NULL
  BY DEF Optional, NoFrame
<1>3. Fetching(o, c, i).op = o /\ Fetching(o, c, i).conn = NULL
  BY DEF Fetching, NoFrame
<1> QED  BY <1>1, <1>2, <1>3

LEMMA ConnReference ==
  ASSUME ReferenceInv, IInv', NEW l \in Levels, NEW k \in Conns, ConnCall(l, k)
  PROVE  ReferenceInv'
<1>1. CASE conn_execute(l, k)  BY <1>1, ExecuteReference
<1>2. CASE \/ conn_close(l, k) \/ conn_connect(l, k) \/ conn_set_reconnect(l, k)
           \/ conn_ping(l, k) \/ conn_commit_rollback(l, k)
  <2>1. stage # "closed" /\ k \in held /\ TypeOK
    BY <1>2, StateIsOpen DEF ReferenceInv, IInv, conn_close, conn_connect,
       conn_set_reconnect, conn_ping, conn_commit_rollback
  <2>2. /\ UNCHANGED <<stage, heap, held, registry, cursor, res>>
        /\ \/ UNCHANGED frame
           \/ ConvertArguments(l, [NoFrame EXCEPT !.op = "connect", !.conn = k])
    BY <1>2 DEF conn_close, conn_connect, conn_set_reconnect, conn_ping,
       conn_commit_rollback, Rejected, NullMethods, ConvertArguments, real_connect,
       command, lib
  <2>3. SlotsStay /\ CursorsStay  BY <2>2 DEF SlotsStay, CursorsStay, Reading
  <2>4. CallsStay
    <3>1. CASE UNCHANGED frame  BY <3>1 DEF CallsStay
    <3>2. CASE ConvertArguments(l, [NoFrame EXCEPT !.op = "connect", !.conn = k])
      <4>1. frame' = [frame EXCEPT ![l] = Configured(k)]
        BY <3>2 DEF ConvertArguments, Enter, Configured
      <4> DEFINE f == Configured(k)
      <4>2. f.op = "connect" /\ f.conn = k  BY OtherFrames
      <4>3. frame' = [frame EXCEPT ![l] = f]  BY <4>1
      <4> HIDE DEF f
      <4>4. f.op # "execute" /\ \A j \in Conns : f.conn = j => j \in held
        BY <2>1, <4>2
      <4> QED  BY <2>1, <4>3, <4>4, EnterStays
    <3> QED  BY <2>2, <3>1, <3>2
  <2> QED  BY <2>1, <2>2, <2>3, <2>4, CallStep
<1> QED  BY <1>1, <1>2 DEF ConnCall

(* A row is fetched by fetch or fetch_all, or there is none.               *)
LEMMA FetchReference ==
  ASSUME ReferenceInv, IInv', stage # "closed", NEW l \in Levels, NEW c \in Cursors,
         FetchRow(l, c) \/ FetchFirstRow(l, c)
  PROVE  ReferenceInv'
<1>1. IInv /\ TypeOK  BY DEF ReferenceInv, IInv
<1>2. UNCHANGED <<stage, heap, held>>  BY DEF FetchRow, FetchFirstRow
<1>3. CallsStay
  <2>1. CASE Leave(l)  BY <1>1, <2>1, LeaveStays
  <2>2. CASE \E o \in {"fetch", "fetch_all"} : \E i : Enter(l, Fetching(o, c, i))
    <3>1. PICK o \in {"fetch", "fetch_all"} : \E i : Enter(l, Fetching(o, c, i))
      BY <2>2
    <3>2. PICK i : Enter(l, Fetching(o, c, i))  BY <3>1
    <3> DEFINE f == Fetching(o, c, i)
    <3>3. f.op = o /\ f.conn = NULL  BY OtherFrames
    <3>4. frame' = [frame EXCEPT ![l] = f]  BY <3>2 DEF Enter
    <3> HIDE DEF f
    <3>5. f.op # "execute" /\ \A k \in Conns : f.conn # k  BY <3>3, ValuesFacts
    <3> QED  BY <1>1, <3>4, <3>5, EnterStays
  <2> QED  BY <2>1, <2>2 DEF FetchRow, FetchFirstRow, Fetching
<1>4. PICK f \in mysql_fetch_row(res[c], mysql) :
        \/ /\ \/ res' = [res EXCEPT ![c] = f.r]
              \/ res' = [res EXCEPT ![c] = mysql_fetch_lengths(f.r)]
           /\ cursor' = cursor \/ cursor' = [cursor EXCEPT ![c].fields = TRUE]
           /\ registry' = registry
        \/ nullify(c, f.r, f.my)
  BY DEF FetchRow, FetchFirstRow, WithLengths
<1>5. CASE nullify(c, f.r, f.my)
  <2>1. f.r \in MYSQL_RES /\ f.my \in [Conns -> MYSQL]
    BY <1>1, FetchRowType, ValuesFacts DEF TypeOK
  <2>2. SlotsStay /\ CursorsStay  BY <1>1, <1>5, <2>1, NullifyStays
  <2> QED  BY <1>2, <1>3, <2>2, CallStep
<1>6. CASE /\ \/ res' = [res EXCEPT ![c] = f.r]
              \/ res' = [res EXCEPT ![c] = mysql_fetch_lengths(f.r)]
           /\ cursor' = cursor \/ cursor' = [cursor EXCEPT ![c].fields = TRUE]
           /\ registry' = registry
  <2>1. \A d \in Cursors : /\ cursor'[d].my_res = cursor[d].my_res
                           /\ cursor'[d].conn = cursor[d].conn
    <3>1. CASE cursor' = cursor  BY <3>1
    <3>2. CASE cursor' = [cursor EXCEPT ![c].fields = TRUE]
      <4>1. cursor[c] \in Cursor /\ cursor \in [Cursors -> Cursor]  BY <1>1 DEF TypeOK
      <4> DEFINE x == [cursor[c] EXCEPT !.fields = TRUE]
      <4>2. x.my_res = cursor[c].my_res /\ x.conn = cursor[c].conn
        BY <4>1 DEF Cursor
      <4>3. cursor' = [cursor EXCEPT ![c] = x]  BY <3>2
      <4> HIDE DEF x
      <4> QED  BY <4>1, <4>2, <4>3
    <3> QED  BY <1>6, <3>1, <3>2
  <2>2. CursorsStay  BY <1>1, <1>6, <2>1, FetchedStays
  <2>3. SlotsStay  BY <1>6 DEF SlotsStay
  <2> QED  BY <1>2, <1>3, <2>2, <2>3, CallStep
<1> QED  BY <1>4, <1>5, <1>6

LEMMA CursorReference ==
  ASSUME ReferenceInv, IInv', NEW l \in Levels, NEW c \in Cursors, CursorCall(l, c)
  PROVE  ReferenceInv'
<1>1. stage # "closed" /\ IInv /\ TypeOK
  BY StateIsOpen DEF ReferenceInv, IInv, CursorCall, cursor_gc, cursor_fetch, cursor_fetch_all
<1>2. CASE Rejected  BY <1>1, <1>2, QuietStays, CallStep DEF Rejected, lib
<1>3. CASE cursor_gc(l, c)
  <2>1. res[c] \in MYSQL_RES /\ mysql \in [Conns -> MYSQL]  BY <1>1 DEF TypeOK
  <2>2. SlotsStay /\ CursorsStay
    BY <1>1, <1>3, <2>1, NullifyStays DEF cursor_gc, cursor_nullify
  <2>3. UNCHANGED <<stage, heap, held, frame>>  BY <1>3 DEF cursor_gc
  <2>4. CallsStay  BY <2>3 DEF CallsStay
  <2> QED  BY <1>1, <2>2, <2>3, <2>4, CallStep
<1>4. CASE cursor_fetch(l, c) \/ cursor_fetch_all(l, c)
  <2>1. ASSUME NEW o \in {"fetch_opt", "fetch_all_opt"},
               ConvertArguments(l, [NoFrame EXCEPT !.op = o, !.cur = c])
        PROVE  ReferenceInv'
    <3>1. /\ frame' = [frame EXCEPT ![l] = Optional(o, c)]
          /\ UNCHANGED <<stage, heap, held, registry, cursor, res>>
      BY <2>1 DEF ConvertArguments, Enter, Optional, lib
    <3>2. CallsStay
      <4> DEFINE f == Optional(o, c)
      <4>1. f.op = o /\ f.conn = NULL  BY OtherFrames
      <4>2. frame' = [frame EXCEPT ![l] = f]  BY <3>1
      <4> HIDE DEF f
      <4>3. f.op # "execute" /\ \A k \in Conns : f.conn # k  BY <4>1, ValuesFacts
      <4> QED  BY <1>1, <4>2, <4>3, EnterStays
    <3>3. SlotsStay /\ CursorsStay  BY <3>1 DEF SlotsStay, CursorsStay, Reading
    <3> QED  BY <1>1, <3>1, <3>2, <3>3, CallStep
  <2> QED
    BY <1>1, <1>2, <1>4, <2>1, FetchReference DEF cursor_fetch, cursor_fetch_all
<1> QED  BY <1>3, <1>4 DEF CursorCall

(* create_cursor: the connection goes from the call's stack to the slot.   *)
LEMMA CreateCursorReference ==
  ASSUME ReferenceInv, IInv', NEW l \in Levels, create_cursor(l)
  PROVE  ReferenceInv'
<1> DEFINE ref == NextRef(registry)
<1>1. TypeOK /\ RegistrySound /\ ResultOwned /\ FramesSound /\ stage # "closed"
  BY StateIsOpen DEF ReferenceInv, IInv, create_cursor
<1>2. PICK c \in Cursors, k \in Conns : c = frame[l].cur /\ k = frame[l].conn
  BY <1>1 DEF create_cursor, FramesSound, CallSound
<1>3. /\ registry' = luaL_ref(registry, k) /\ lua_setmetatable(c) /\ Leave(l)
      /\ cursor' = [cursor EXCEPT ![c] = [conn |-> ref, fetch_all |-> res[c].stored,
                                          my_res |-> TRUE, fields |-> FALSE]]
      /\ UNCHANGED <<stage, res>> /\ frame[l].op = "execute"
  BY <1>2 DEF create_cursor, Referenced
<1>4. /\ UsedSlots(registry') = UsedSlots(registry) \cup {ref}
      /\ registry'.slot[ref] = k
      /\ \A s \in UsedSlots(registry) : registry'.slot[s] = registry.slot[s]
  <2>1. k \in Values /\ registry \in Registry(Values) /\ FreeListSound(registry)
    BY <1>1, RegistryType, ValuesFacts DEF RegistrySound
  <2> QED  BY <1>3, <2>1, ValuesFacts, RefSound
<1> HIDE DEF ref
<1>5. /\ cursor'[c].conn = ref /\ \A d \in Cursors \ {c} : cursor'[d] = cursor[d]
      /\ ud'[c] = "live" /\ \A o \in Objects \ {c} : ud'[o] = ud[o]
      /\ held' = held \cup {c}
  BY <1>1, <1>3 DEF TypeOK, lua_setmetatable, Objects
<1>6. \A j \in Levels : frame'[j] = frame[j] \/ frame'[j].op = "none"
  BY <1>1, <1>3 DEF TypeOK, Leave, NoFrame
<1>7. \A d \in Cursors, j \in Conns : Reading(d, j)' <=> Reading(d, j)
  BY <1>3 DEF Reading
<1>8. SlotsRight'
  <2>1. ASSUME NEW d \in Cursors, NEW j \in Conns, Reading(d, j)', cursor'[d].my_res
        PROVE  registry'.slot[cursor'[d].conn] = j
    <3>1. CASE d = c
      <4>1. Reading(frame[l].cur, j)  BY <1>2, <1>7, <2>1, <3>1
      <4>2. j = k  BY <1>2, <1>3, <4>1 DEF ReferenceInv, SlotsRight
      <4> QED  BY <1>4, <1>5, <3>1, <4>2
    <3>2. CASE d # c
      <4>1. Reading(d, j) /\ cursor[d].my_res /\ cursor'[d] = cursor[d]
        BY <1>5, <1>7, <2>1, <3>2
      <4>2. cursor[d].conn \in UsedSlots(registry)
        BY <1>1, <4>1 DEF RegistrySound, ResultOwned, Refs
      <4> QED  BY <1>4, <4>1, <4>2 DEF ReferenceInv, SlotsRight
    <3> QED  BY <3>1, <3>2
  <2>2. ASSUME NEW i \in Levels, NEW j \in Conns,
               frame'[i].op = "execute", Reading(frame[i].cur, j)', frame'[i] = frame[i]
        PROVE  frame'[i].conn = j
    <3>1. Reading(frame[i].cur, j)  BY <1>3, <2>2 DEF Reading
    <3> QED  BY <2>2, <3>1 DEF ReferenceInv, SlotsRight
  <2>3. ASSUME NEW i \in Levels, NEW j \in Conns,
               frame'[i].op = "execute", Reading(frame[i].cur, j)'
        PROVE  frame'[i].conn = j
    <3>1. frame'[i] = frame[i]  BY <1>6, <2>3
    <3> QED  BY <2>2, <2>3, <3>1
  <2> QED  BY <2>1, <2>3 DEF SlotsRight
<1>9. Alive'
  <2> SUFFICES ASSUME NEW j \in Conns, Reachable(j)'
               PROVE  /\ ud'[j] \notin {"none", "freed"}
                      /\ stage' = "running" /\ ~Reentrant => ud'[j] = "live"
    BY DEF Alive
  <2>1. j # c /\ ud'[j] = ud[j]  BY <1>5, ObjectsDistinct DEF Objects
  <2>2. Reachable(j)
    <3>1. CASE j \in held'  BY <1>5, <2>1, <3>1 DEF Reachable
    <3>2. CASE \E i \in Levels : ~Idle(i)' /\ j \in {frame'[i].conn, frame'[i].cur}
      BY <1>6, <3>2 DEF Reachable, Idle
    <3>3. CASE \E s \in UsedSlots(registry') : registry'.slot[s] = j
      <4>1. CASE j = k  BY <1>2, <1>3, <4>1 DEF Reachable, Idle
      <4>2. CASE j # k  BY <1>4, <3>3, <4>2 DEF Reachable
      <4> QED  BY <4>1, <4>2
    <3> QED  BY <3>1, <3>2, <3>3 DEF Reachable
  <2> QED  BY <1>1, <1>3, <2>1, <2>2 DEF ReferenceInv, Alive
<1>10. CursorMade'  BY <1>5 DEF ReferenceInv, CursorMade, Objects
<1>11. ClosedState'  BY <1>1, <1>3 DEF ClosedState
<1> QED  BY <1>8, <1>9, <1>10, <1>11 DEF ReferenceInv

(* One turn of fetch_all's loop.                                           *)
LEMMA AllRowReference ==
  ASSUME ReferenceInv, IInv', NEW l \in Levels, fetch_all_row_to_table(l)
  PROVE  ReferenceInv'
<1>1. stage # "closed" /\ IInv /\ TypeOK /\ FramesSound
  BY StateIsOpen DEF ReferenceInv, IInv, fetch_all_row_to_table
<1>2. CASE StaleRow  BY <1>1, <1>2, QuietStays, CallStep DEF StaleRow, lib
<1>3. CASE ~StaleRow
  <2> DEFINE f == frame[l]
  <2>1. PICK c \in Cursors : c = f.cur
    BY <1>1 DEF fetch_all_row_to_table, FramesSound, CallSound
  <2>2. UNCHANGED <<stage, heap, held>> /\ f.op = "fetch_all"
    BY <1>3 DEF fetch_all_row_to_table
  <2>3. PICK g \in mysql_fetch_row(res[c], mysql) :
          \/ /\ Enter(l, [f EXCEPT !.row = g.row, !.tbl = Filled(f)])
             /\ res' = [res EXCEPT ![c] = g.r]
             /\ UNCHANGED <<cursor, registry>>
          \/ nullify(c, g.r, g.my) /\ Leave(l)
    BY <1>3, <2>1 DEF fetch_all_row_to_table
  <2>4. CASE nullify(c, g.r, g.my) /\ Leave(l)
    <3>1. g.r \in MYSQL_RES /\ g.my \in [Conns -> MYSQL]
      BY <1>1, FetchRowType, ValuesFacts DEF TypeOK
    <3>2. SlotsStay /\ CursorsStay  BY <1>1, <2>4, <3>1, NullifyStays
    <3>3. CallsStay  BY <1>1, <2>4, LeaveStays
    <3> QED  BY <1>1, <2>2, <3>2, <3>3, CallStep
  <2>5. CASE /\ Enter(l, [f EXCEPT !.row = g.row, !.tbl = Filled(f)])
             /\ res' = [res EXCEPT ![c] = g.r]
             /\ UNCHANGED <<cursor, registry>>
    <3> DEFINE x == [f EXCEPT !.row = g.row, !.tbl = Filled(f)]
    <3>1. x.op = f.op /\ x.conn = f.conn  BY <1>1 DEF TypeOK, Frame
    <3>2. frame' = [frame EXCEPT ![l] = x]  BY <2>5 DEF Enter
    <3> HIDE DEF x
    <3>3. CallsStay
      <4>1. x.op # "execute" /\ f.op # "none"  BY <2>2, <3>1
      <4> QED  BY <1>1, <3>1, <3>2, <4>1, EnterStays
    <3>4. CursorsStay  BY <1>1, <2>5, FetchedStays
    <3>5. SlotsStay  BY <2>5 DEF SlotsStay
    <3> QED  BY <1>1, <2>2, <3>3, <3>4, <3>5, CallStep
  <2> QED  BY <2>3, <2>4, <2>5
<1> QED  BY <1>2, <1>3

LEMMA ResumeReference ==
  ASSUME ReferenceInv, IInv', NEW l \in Levels, Resume(l)
  PROVE  ReferenceInv'
<1>1. stage # "closed" /\ TypeOK /\ FramesSound
  BY StateIsOpen DEF ReferenceInv, IInv, Resume, connect_converted, create_cursor,
     create_cursor_throws, option_converted, fetch_row_to_table,
     fetch_all_row_to_table, call_throws
<1>2. ASSUME Leave(l), UNCHANGED <<stage, heap, held, registry, cursor, res>>
      PROVE  ReferenceInv'
  <2>1. SlotsStay /\ CursorsStay  BY <1>2 DEF SlotsStay, CursorsStay, Reading
  <2>2. CallsStay  BY <1>1, <1>2, LeaveStays
  <2> QED  BY <1>1, <1>2, <2>1, <2>2, CallStep
<1>3. CASE connect_converted(l) \/ create_cursor_throws(l) \/ call_throws(l)
  BY <1>2, <1>3 DEF connect_converted, real_connect, create_cursor_throws,
     call_throws, lib
<1>4. CASE create_cursor(l)  BY <1>4, CreateCursorReference
<1>5. CASE option_converted(l)
  <2>1. PICK c \in Cursors : c = frame[l].cur
    BY <1>1, <1>5 DEF option_converted, FramesSound, CallSound
  <2>2. CASE NullResult(c)
    BY <1>1, <2>2, QuietStays, CallStep DEF NullResult, lib
  <2> QED  BY <1>1, <1>5, <2>1, <2>2, FetchReference DEF option_converted
<1>6. CASE fetch_row_to_table(l)
  <2>1. CASE StaleRow  BY <1>1, <2>1, QuietStays, CallStep DEF StaleRow, lib
  <2> QED  BY <1>2, <1>6, <2>1 DEF fetch_row_to_table, lib
<1>7. CASE fetch_all_row_to_table(l)  BY <1>7, AllRowReference
<1> QED  BY <1>3, <1>4, <1>5, <1>6, <1>7 DEF Resume

-----------------------------------------------------------------------------
(* The Lua state *)

(* The collector moves an object on: one that can be reached only if it    *)
(* was already to be finalized.                                            *)
LEMMA CollectorReference ==
  ASSUME ReferenceInv, IInv', NEW o \in Objects,
         Drop(o) \/ separatetobefnz(o) \/ sweep(o) \/ Resurrect(o)
  PROVE  ReferenceInv'
<1>1. UNCHANGED <<stage, registry, cursor, res, frame>> /\ TypeOK
  BY DEF Drop, separatetobefnz, sweep, Resurrect, lib, ReferenceInv, IInv
<1>2. SlotsStay /\ CursorsStay /\ CallsStay  BY <1>1, QuietStays
<1>3. SlotsRight'  BY <1>2, SlotsRightStays
<1>4. \A p \in Objects \ {o} : ud'[p] = ud[p] /\ (p \in held' => p \in held)
  BY <1>1 DEF Drop, separatetobefnz, sweep, Resurrect, heap, TypeOK
<1>5. \/ ud'[o] = ud[o] /\ (o \in held' => o \in held)
      \/ ~Reachable(o) /\ held' = held /\ ud[o] # "none" /\ ud'[o] # "none"
      \/ Reentrant /\ ud'[o] = ud[o] /\ ud[o] \in {"tobefnz", "closing", "finalized"}
  BY <1>1 DEF Drop, separatetobefnz, sweep, Resurrect, heap, TypeOK
<1>6. Alive'
  <2> SUFFICES ASSUME NEW k \in Conns, stage' # "closed", Reachable(k)'
               PROVE  /\ ud'[k] \notin {"none", "freed"}
                      /\ stage' = "running" /\ ~Reentrant => ud'[k] = "live"
    BY DEF Alive
  <2>1. k \in Objects  BY DEF Objects
  <2>2. CASE k \in held' => k \in held
    <3>1. Reachable(k)  BY <1>2, <2>2, ReachableStays
    <3>2. ud'[k] = ud[k] \/ (Reentrant /\ ud'[k] = ud[k])
      BY <1>4, <1>5, <2>1, <3>1
    <3> QED  BY <1>1, <3>1, <3>2 DEF ReferenceInv, Alive
  <2>3. CASE ~(k \in held' => k \in held)
    <3>1. k = o /\ Reentrant /\ ud'[k] \in {"tobefnz", "closing", "finalized"}
      BY <1>4, <1>5, <2>1, <2>3
    <3> QED  BY <3>1
  <2> QED  BY <2>2, <2>3
<1>7. CursorMade'
  BY <1>1, <1>4, <1>5 DEF ReferenceInv, CursorMade, Objects
<1>8. ClosedState'
  <2>1. stage = "closed" => UNCHANGED ud
    BY DEF Drop, separatetobefnz, sweep, Resurrect, heap
  <2> QED  BY <1>1, <2>1 DEF ReferenceInv, ClosedState, Idle
<1> QED  BY <1>3, <1>6, <1>7, <1>8 DEF ReferenceInv

(* Only what was found unreachable, or what lua_close moved, is finalized. *)
LEMMA FinalizerReference ==
  ASSUME ReferenceInv, IInv', NEW o \in Objects, NextToFinalize(o),
         ud' = [ud EXCEPT ![o] = "finalized"],
         SlotsStay, CursorsStay, UNCHANGED <<stage, held, frame>>
  PROVE  ReferenceInv'
<1>1. CallsStay  BY DEF CallsStay
<1>2. ud[o] \in {"tobefnz", "closing"}  BY DEF NextToFinalize
<1>3. ud'[o] = "finalized" /\ \A p \in Objects \ {o} : ud'[p] = ud[p]
  BY DEF ReferenceInv, IInv, TypeOK
<1>4. SlotsRight'  BY <1>1, SlotsRightStays
<1>5. Alive'
  <2> SUFFICES ASSUME NEW k \in Conns, stage' # "closed", Reachable(k)'
               PROVE  /\ ud'[k] \notin {"none", "freed"}
                      /\ stage' = "running" /\ ~Reentrant => ud'[k] = "live"
    BY DEF Alive
  <2>1. Reachable(k)  BY <1>1, ReachableStays
  <2> QED  BY <1>2, <1>3, <2>1 DEF ReferenceInv, Alive, Objects
<1>6. CursorMade'
  BY <1>3 DEF ReferenceInv, CursorMade, CursorsStay, Objects
<1>7. ClosedState'
  BY <1>2 DEF ReferenceInv, ClosedState
<1> QED  BY <1>4, <1>5, <1>6, <1>7 DEF ReferenceInv

LEMMA CloseReference ==
  ASSUME ReferenceInv, IInv', lua_close \/ freeallobjects \/ Over \/ UNCHANGED vars
  PROVE  ReferenceInv'
<1>1. UNCHANGED <<registry, cursor, res, frame>> /\ TypeOK
  BY DEF lua_close, freeallobjects, Over, vars, lib, ReferenceInv, IInv
<1>2. SlotsStay /\ CursorsStay /\ CallsStay  BY <1>1, QuietStays
<1>3. SlotsRight'  BY <1>2, SlotsRightStays
<1>4. CASE lua_close
  <2>1. stage' = "closing" /\ UNCHANGED held  BY <1>4 DEF lua_close
  <2>2. \A o \in Objects : ud'[o] = IF ud[o] = "live" THEN "closing" ELSE ud[o]
    BY <1>4 DEF lua_close
  <2>3. stage = "running"  BY <1>4 DEF lua_close
  <2>4. Alive'
    <3> SUFFICES ASSUME NEW k \in Conns, Reachable(k)'
                 PROVE  ud'[k] \notin {"none", "freed"}
      BY <2>1 DEF Alive
    <3>1. Reachable(k)  BY <1>2, <2>1, ReachableStays
    <3> QED  BY <2>2, <2>3, <3>1 DEF ReferenceInv, Alive, Objects
  <2>5. CursorMade'  BY <1>1, <2>2 DEF ReferenceInv, CursorMade, Objects
  <2>6. ClosedState'  BY <2>1 DEF ClosedState
  <2> QED  BY <1>3, <2>4, <2>5, <2>6 DEF ReferenceInv
<1>5. CASE freeallobjects
  <2>1. stage' = "closed" /\ \A l \in Levels : Idle(l)  BY <1>5 DEF freeallobjects
  <2>2. \A o \in Objects : ud'[o] = IF ud[o] = "none" THEN "none" ELSE "freed"
    BY <1>5 DEF freeallobjects
  <2>3. Alive'  BY <2>1 DEF Alive
  <2>4. CursorMade'  BY <1>1, <2>2 DEF ReferenceInv, CursorMade, Objects
  <2>5. ClosedState'  BY <1>1, <2>1, <2>2 DEF ClosedState, Idle
  <2> QED  BY <1>3, <2>3, <2>4, <2>5 DEF ReferenceInv
<1>6. CASE UNCHANGED vars
  <2>1. UNCHANGED <<stage, ud, held>>  BY <1>6 DEF vars, heap
  <2>2. Alive'
    <3> SUFFICES ASSUME NEW k \in Conns, stage' # "closed", Reachable(k)'
                 PROVE  /\ ud'[k] \notin {"none", "freed"}
                        /\ stage' = "running" /\ ~Reentrant => ud'[k] = "live"
      BY DEF Alive
    <3>1. Reachable(k)  BY <1>2, <2>1, ReachableStays
    <3> QED  BY <2>1, <3>1 DEF ReferenceInv, Alive
  <2>3. CursorMade'  BY <1>1, <2>1 DEF ReferenceInv, CursorMade
  <2>4. ClosedState'  BY <1>1, <2>1 DEF ReferenceInv, ClosedState, Idle
  <2> QED  BY <1>3, <2>2, <2>3, <2>4 DEF ReferenceInv
<1> QED  BY <1>4, <1>5, <1>6 DEF Over

-----------------------------------------------------------------------------

LEMMA InitReferenceInv == Init => ReferenceInv
<1> SUFFICES ASSUME Init PROVE ReferenceInv  OBVIOUS
<1>1. IInv  BY InitIInv
<1>2. \A c \in Cursors, k \in Conns : ~Reading(c, k)
  BY DEF Init, Reading, NoResult
<1>3. \A l \in Levels : Idle(l) /\ frame[l].op # "execute"
  BY DEF Init, Idle, NoFrame
<1>4. SlotsRight  BY <1>2, <1>3 DEF SlotsRight
<1>5. Alive
  <2>1. registry = init_registry(MainThread, Globals)  BY DEF Init
  <2>2. \A s \in UsedSlots(registry) : registry.slot[s] \in {MainThread, Globals}
    <3>1. Len(registry.slot) = 2 /\ \A s \in 1..2 : registry.slot[s] \in {MainThread, Globals}
      BY <2>1 DEF init_registry
    <3> QED  BY <3>1 DEF UsedSlots
  <2>3. \A k \in Conns : ~Reachable(k)
    BY <1>3, <2>2, ObjectsDistinct DEF Init, Reachable
  <2> QED  BY <2>3 DEF Alive
<1>6. CursorMade  BY DEF Init, CursorMade, NoCursor
<1>7. ClosedState  BY DEF Init, ClosedState
<1> QED  BY <1>1, <1>4, <1>5, <1>6, <1>7 DEF ReferenceInv

LEMMA StepReferenceInv == ReferenceInv /\ [Next]_vars => ReferenceInv'
<1> SUFFICES ASSUME ReferenceInv, [Next]_vars PROVE ReferenceInv'  OBVIOUS
<1>1. IInv /\ IInv' /\ TypeOK  BY StepIInv DEF ReferenceInv, IInv
<1>2. CASE Script
  BY <1>1, <1>2, CreateReference, ConnReference, CursorReference, ResumeReference
     DEF Script
<1>3. CASE Collector
  <2>1. ASSUME NEW c \in Cursors, GCTM_cursor(c) PROVE ReferenceInv'
    <3>1. res[c] \in MYSQL_RES /\ mysql \in [Conns -> MYSQL]  BY <1>1 DEF TypeOK
    <3>2. SlotsStay /\ CursorsStay
      BY <1>1, <2>1, <3>1, NullifyStays DEF GCTM_cursor, cursor_nullify
    <3> QED
      BY <1>1, <2>1, <3>2, FinalizerReference DEF GCTM_cursor, Objects
  <2>2. ASSUME NEW k \in Conns, GCTM_conn(k) PROVE ReferenceInv'
    <3>1. SlotsStay /\ CursorsStay  BY <2>2, QuietStays DEF GCTM_conn
    <3> QED
      BY <1>1, <2>2, <3>1, FinalizerReference DEF GCTM_conn, Objects
  <2> QED  BY <1>1, <1>3, <2>1, <2>2, CollectorReference DEF Collector
<1>4. CASE lua_close \/ freeallobjects \/ Over \/ UNCHANGED vars
  BY <1>1, <1>4, CloseReference
<1> QED  BY <1>2, <1>3, <1>4 DEF Next

(* While a cursor has a result that is read from a connection, the slot    *)
(* its reference names holds that connection, and the connection's memory  *)
(* is there; without finalizers of the script it is not even to be         *)
(* finalized. So neither mysql_fetch_row nor mysql_free_result follows a   *)
(* MYSQL_RES.handle into a userdata that is gone.                          *)
THEOREM OutlivesReader == Spec => []ConnOutlivesReader
<1>1. ReferenceInv => ConnOutlivesReader
  <2> SUFFICES ASSUME ReferenceInv, NEW c \in Cursors, NEW k \in Conns,
                      Reading(c, k), cursor[c].my_res, ud[c] # "freed"
               PROVE  /\ registry.slot[cursor[c].conn] = k
                      /\ ud[k] \notin {"none", "freed"}
                      /\ stage = "running" /\ ~Reentrant => ud[k] = "live"
    BY DEF ConnOutlivesReader
  <2>1. registry.slot[cursor[c].conn] = k  BY DEF ReferenceInv, SlotsRight
  <2>2. stage # "closed"
    BY DEF ReferenceInv, ClosedState, CursorMade, Objects
  <2>3. cursor[c].conn \in UsedSlots(registry)
    BY DEF ReferenceInv, IInv, RegistrySound, ResultOwned, Refs
  <2>4. Reachable(k)  BY <2>1, <2>3 DEF Reachable
  <2> QED  BY <2>1, <2>2, <2>4 DEF ReferenceInv, Alive
<1> QED  BY <1>1, InitReferenceInv, StepReferenceInv, PTL DEF Spec

-----------------------------------------------------------------------------
(***************************************************************************)
(* How long userdata live, when no function of the script calls the        *)
(* binding from inside a call: resources go before memory, the collector   *)
(* closes no connection that an owned result is read from, and the row     *)
(* that a call is converting stays where it is.                            *)
(*                                                                         *)
(* While the script runs this follows from what can be reached             *)
(* (ReferenceInv). In lua_close everything is finalized, reachable or not, *)
(* and what counts is the order: a cursor was made after the connection it *)
(* reads from (Younger), so it is finalized before.                        *)
(***************************************************************************)

Gone == {"finalized", "freed"}

Ages == \A o \in Objects : age[o] < clock

(* What was finalized has given up its resources.                          *)
ReleasedFirst ==
  /\ \A c \in Cursors : ud[c] \in Gone => ~cursor[c].my_res
  /\ \A k \in Conns : ud[k] \in Gone => closed[k]

Quit == \A k \in Conns : closed[k] => mysql[k].session = "none"

(* lua_close finds the connection of a reader referenced, so that it is    *)
(* not among those that were found unreachable before.                     *)
Younger ==
  \A c \in Cursors, k \in Conns : Reading(c, k) /\ cursor[c].my_res =>
    /\ age[k] < age[c]
    /\ stage # "running" => ud[k] # "tobefnz"

(* lua_close interrupts no call, and leaves nothing but finalizers to run. *)
Closing ==
  stage # "running" => (\A o \in Objects : ud[o] # "live") /\ \A l \in Levels : Idle(l)

(* The call in progress converts a row.                                    *)
RowInHand == frame[1].op \in {"fetch", "fetch_all"}

(* The call in progress, if any, was begun by the script; its cursor is    *)
(* there, with its result, and its row.                                    *)
OneCaller ==
  /\ Idle(2) /\ frame[1].op \notin {"connect", "fetch_opt", "fetch_all_opt"}
  /\ stage = "running" => \A c \in held \cap Cursors : ud[c] = "live"
  /\ RowInHand => /\ ud[frame[1].cur] = "live" /\ cursor[frame[1].cur].my_res
               /\ RowReadable(frame[1])

Lifetime ==
  Ages /\ ReleasedFirst /\ Quit /\ Younger /\ Closing /\ OneCaller /\ fault # "stale_row"

LifetimeInv == ReaderInv /\ ReferenceInv /\ (~Reentrant => Lifetime)

(* What a call does to lifetimes, other than making something: no cursor   *)
(* gets a result, none that is owned starts to read, and what is closed    *)
(* stays closed.                                                           *)
Calm ==
  /\ UNCHANGED <<stage, heap, held>>
  /\ \A c \in Cursors : cursor'[c].my_res => cursor[c].my_res
  /\ \A c \in Cursors, k \in Conns : Reading(c, k)' /\ cursor'[c].my_res => Reading(c, k)
  /\ \A k \in Conns : closed[k] => closed'[k]
  /\ Quit'

LEMMA CalmStep ==
  ASSUME Lifetime, stage = "running", Calm
  PROVE  Ages' /\ ReleasedFirst' /\ Quit' /\ Younger' /\ Closing'
<1>1. Ages'  BY DEF Lifetime, Ages, Calm, heap
<1>2. ReleasedFirst'  BY DEF Lifetime, ReleasedFirst, Calm, heap
<1>3. Younger'  BY DEF Lifetime, Younger, Calm, heap
<1>4. Closing'  BY DEF Closing, Calm
<1> QED  BY <1>1, <1>2, <1>3, <1>4 DEF Calm

-----------------------------------------------------------------------------
(* Closed connections have quit *)

LEMMA OneQuits ==
  ASSUME Quit, TypeOK, NEW k \in Conns, ~closed[k], NEW m,
         mysql' = [mysql EXCEPT ![k] = m], UNCHANGED closed
  PROVE  Quit'
BY DEF Quit, TypeOK

LEMMA CloseQuits ==
  ASSUME Quit, TypeOK, NEW k \in Conns, close_conn(k)
  PROVE  Quit' /\ closed'[k] /\ \A j \in Conns : closed[j] => closed'[j]
<1>1. mysql_close(mysql[k]).session = "none"  BY DEF mysql_close, TypeOK, MYSQL
<1> QED  BY <1>1 DEF close_conn, Quit, TypeOK

(* A fetch, or freeing a result, only touches a connection that waits for  *)
(* rows, and that is not closed.                                           *)
LEMMA FetchQuits ==
  ASSUME Quit, Busy, UNCHANGED closed, NEW r, NEW s,
         mysql \in [Conns -> MYSQL],
         ReadsOn(r, mysql, s, mysql') \/ Ended(r, mysql, s, mysql')
  PROVE  Quit'
<1>1. ASSUME NEW k \in Conns, closed[k] PROVE mysql'[k] = mysql[k]
  <2>1. mysql[k].status # "use_result"  BY <1>1 DEF Busy
  <2> QED  BY <2>1 DEF ReadsOn, Ended
<1> QED  BY <1>1 DEF Quit

LEMMA NullifyQuits ==
  ASSUME Quit, Busy, TypeOK, ResultOwned, UNCHANGED closed, NEW c \in Cursors,
         \/ nullify(c, res[c], mysql)
         \/ \E f \in mysql_fetch_row(res[c], mysql) : nullify(c, f.r, f.my)
  PROVE  Quit'
<1>1. CASE ~cursor[c].my_res
  BY <1>1 DEF nullify, Quit
<1>2. CASE cursor[c].my_res /\ nullify(c, res[c], mysql)
  <2>1. PICK g \in mysql_free_result(res[c], mysql) : mysql' = g.my
    BY <1>2 DEF nullify
  <2>2. Ended(res[c], mysql, g.r, mysql')  BY <2>1, FreeResultEffect DEF TypeOK
  <2> QED  BY <2>2, FetchQuits DEF TypeOK
<1>3. CASE cursor[c].my_res /\ \E f \in mysql_fetch_row(res[c], mysql) : nullify(c, f.r, f.my)
  <2>1. PICK f \in mysql_fetch_row(res[c], mysql) : nullify(c, f.r, f.my)  BY <1>3
  <2>2. PICK g \in mysql_free_result(f.r, f.my) : mysql' = g.my
    BY <1>3, <2>1 DEF nullify
  <2>3. res[c].state = "live"  BY <1>3 DEF ResultOwned
  <2>4. Ended(res[c], mysql, g.r, mysql')  BY <2>2, <2>3, FetchFreeEffect DEF TypeOK
  <2> QED  BY <2>4, FetchQuits DEF TypeOK
<1> QED  BY <1>1, <1>2, <1>3

-----------------------------------------------------------------------------
(* The calls *)

LEMMA OnlyScriptCalls ==
  ASSUME ~Reentrant, NEW l \in Levels, Callable(l)
  PROVE  l = 1 /\ stage = "running" /\ Idle(1) /\ Idle(2)
BY DEF Callable

LEMMA OnlyFirstResumes ==
  ASSUME ~Reentrant, Lifetime, NEW l \in Levels, Resumable(l)
  PROVE  l = 1 /\ stage = "running" /\ ~Idle(1)
BY DEF Resumable, Lifetime, OneCaller, Closing, Levels

(* The call in progress is over, or just began, without a row.             *)
LEMMA NoRow ==
  ASSUME Lifetime, frame'[1].op \in {"none", "execute"}, frame'[2] = frame[2],
         UNCHANGED <<stage, ud, held>>
  PROVE  OneCaller'
BY DEF Lifetime, OneCaller, Idle, RowInHand

LEMMA LeftNoRow ==
  ASSUME Lifetime, TypeOK, Leave(1), UNCHANGED <<stage, ud, held>>
  PROVE  OneCaller'
<1>1. frame'[1].op = "none" /\ frame'[2] = frame[2]
  BY DEF TypeOK, Leave, Levels, NoFrame
<1> QED  BY <1>1, NoRow

LEMMA IdleNoRow ==
  ASSUME Lifetime, Idle(1), UNCHANGED <<stage, ud, held, frame>>
  PROVE  OneCaller'
BY NoRow DEF Idle

LEMMA ExecuteCalm ==
  ASSUME ~Reentrant, ReaderInv, ReferenceInv, Lifetime, NEW l \in Levels, NEW k \in Conns,
         ~closed[k], k \in held, Callable(l), SendQuery(l, k)
  PROVE  Calm /\ OneCaller' /\ fault' = fault
<1>1. TypeOK /\ ResultOwned /\ Quit /\ l = 1 /\ Idle(1)
  BY OnlyScriptCalls DEF ReferenceInv, IInv, Lifetime
<1>2. PICK m : mysql' = [mysql EXCEPT ![k] = m]  BY DEF SendQuery
<1>3. UNCHANGED <<stage, heap, held, cursor, closed, fault>>  BY DEF SendQuery
<1>4. Quit'  BY <1>1, <1>2, <1>3, OneQuits
<1>5. CASE UNCHANGED <<res, frame>>
  <2>1. Calm  BY <1>3, <1>4, <1>5 DEF Calm, Reading
  <2> QED  BY <1>1, <1>3, <1>5, <2>1, IdleNoRow DEF heap
<1>6. CASE \E c \in Cursors, all \in BOOLEAN, n \in 0..MaxRows :
             /\ res[c].state = "none"
             /\ res' = [res EXCEPT ![c] = new_result(k, n, all)]
             /\ Enter(l, [NoFrame EXCEPT !.op = "execute", !.conn = k, !.cur = c])
  <2>1. PICK c \in Cursors, all \in BOOLEAN, n \in 0..MaxRows :
             /\ res[c].state = "none"
             /\ res' = [res EXCEPT ![c] = new_result(k, n, all)]
             /\ Enter(l, [NoFrame EXCEPT !.op = "execute", !.conn = k, !.cur = c])
    BY <1>6
  <2>2. ~cursor[c].my_res  BY <1>1, <2>1 DEF ResultOwned
  <2>3. \A d \in Cursors \ {c} : res'[d] = res[d]  BY <1>1, <2>1 DEF TypeOK
  <2>4. \A d \in Cursors, j \in Conns : Reading(d, j)' /\ cursor'[d].my_res => Reading(d, j)
    BY <1>3, <2>2, <2>3 DEF Reading
  <2>5. Calm  BY <1>3, <1>4, <2>4 DEF Calm
  <2> DEFINE f == Executing(k, c)
  <2>6. frame' = [frame EXCEPT ![1] = f]
    BY <1>1, <2>1 DEF Enter, Executing
  <2>7. f.op = "execute"  BY ExecuteFrame
  <2> HIDE DEF f
  <2>8. OneCaller'
    <3>1. UNCHANGED <<stage, ud, held>>  BY <1>3 DEF heap
    <3>2. frame'[1] = f /\ frame'[2] = frame[2]
      BY <1>1, <2>6 DEF TypeOK, Levels
    <3> QED  BY <2>7, <3>1, <3>2, NoRow
  <2> QED  BY <1>3, <2>5, <2>8
<1> QED  BY <1>5, <1>6 DEF SendQuery

LEMMA ConnCalm ==
  ASSUME ~Reentrant, ReaderInv, ReferenceInv, Lifetime, NEW l \in Levels, NEW k \in Conns,
         ConnCall(l, k)
  PROVE  Calm /\ OneCaller' /\ fault' # "stale_row"
<1>1. /\ TypeOK /\ Quit /\ l = 1 /\ Idle(1) /\ k \in held /\ Callable(l)
      /\ fault # "stale_row"
  BY OnlyScriptCalls DEF ReferenceInv, IInv, Lifetime, ConnCall, conn_close, conn_connect,
     conn_set_reconnect, conn_ping, conn_commit_rollback, conn_execute
<1>2. ASSUME UNCHANGED <<stage, heap, held, cursor, res, frame>>, Quit',
             \A j \in Conns : closed[j] => closed'[j]
      PROVE  Calm /\ OneCaller'
  <2>1. Calm  BY <1>2 DEF Calm, Reading
  <2> QED  BY <1>1, <1>2, <2>1, IdleNoRow DEF heap
<1>3. CASE Rejected \/ NullMethods
  <2>1. Quit'  BY <1>1, <1>3 DEF Rejected, NullMethods, lib, Quit
  <2> QED  BY <1>1, <1>2, <1>3, <2>1 DEF Rejected, NullMethods, lib
<1>4. CASE conn_close(l, k)
  BY <1>1, <1>2, <1>4, CloseQuits DEF conn_close
<1>5. ASSUME ~closed[k], NEW m, mysql' = [mysql EXCEPT ![k] = m],
             UNCHANGED <<stage, heap, held, closed, cursor, res, frame, fault>>
      PROVE  Calm /\ OneCaller' /\ fault' # "stale_row"
  <2>1. Quit'  BY <1>1, <1>5, OneQuits
  <2> QED  BY <1>1, <1>2, <1>5, <2>1
<1>6. CASE conn_connect(l, k)
  <2>1. CASE ~closed[k] /\ real_connect(k) /\ UNCHANGED frame
    <3>1. PICK a \in mysql_real_connect(mysql[k]) : mysql' = [mysql EXCEPT ![k] = a.m]
      BY <2>1 DEF real_connect
    <3> QED  BY <1>5, <2>1, <3>1 DEF real_connect
  <2> QED  BY <1>3, <1>6, <2>1 DEF conn_connect, ConvertArguments
<1>7. CASE conn_set_reconnect(l, k)
  <2>1. CASE ~Rejected
    <3>1. PICK v \in ReconnectValues : mysql' = [mysql EXCEPT ![k].reconnect = v]
      BY <1>7, <2>1 DEF conn_set_reconnect
    <3> DEFINE m == [mysql[k] EXCEPT !.reconnect = v]
    <3>2. mysql' = [mysql EXCEPT ![k] = m]  BY <3>1
    <3> HIDE DEF m
    <3> QED  BY <1>5, <1>7, <2>1, <3>2 DEF conn_set_reconnect
  <2> QED  BY <1>3, <2>1
<1>8. CASE conn_ping(l, k) \/ conn_commit_rollback(l, k)
  <2>1. CASE ~closed[k] /\ command(k)
    <3>1. PICK a \in simple_command(mysql[k]) : mysql' = [mysql EXCEPT ![k] = a.m]
      BY <2>1 DEF command
    <3> QED  BY <1>5, <2>1, <3>1 DEF command
  <2> QED  BY <1>3, <1>8, <2>1 DEF conn_ping, conn_commit_rollback
<1>9. CASE conn_execute(l, k)
  BY <1>1, <1>3, <1>9, ExecuteCalm DEF conn_execute
<1> QED  BY <1>4, <1>6, <1>7, <1>8, <1>9 DEF ConnCall


(* A row that was just fetched is there.                                   *)
LEMMA RowThere ==
  ASSUME NEW r \in MYSQL_RES, r.state = "live", NEW my \in [Conns -> MYSQL],
         NEW f \in mysql_fetch_row(r, my), f.row # 0
  PROVE  /\ f.my = my /\ f.r.state = "live"
         /\ f.r.stored \/ /\ f.r.cur = f.row
                          /\ f.r.handle # NULL /\ my[f.r.handle].status = "use_result"
<1>1. /\ NextRow(r).state = r.state /\ NextRow(r).handle = r.handle
      /\ NextRow(r).cur = r.pos + 1 /\ NextRow(r).stored = r.stored
  BY DEF NextRow, MYSQL_RES
<1>2. /\ f = [row |-> r.pos + 1, r |-> NextRow(r), my |-> my]
      /\ ~r.stored => r.handle # NULL /\ my[r.handle].status = "use_result"
  BY DEF mysql_fetch_row
<1> QED  BY <1>1, <1>2

LEMMA FetchedOne ==
  ASSUME Lifetime, TypeOK, ResultOwned, NEW c \in Cursors, cursor[c].my_res, ud[c] = "live",
         NEW f \in mysql_fetch_row(res[c], mysql), f.row # 0, mysql' = f.my,
         res'[c] \in {f.r, mysql_fetch_lengths(f.r)},
         cursor'[c].my_res, cursor'[c].fields,
         NEW x, x.op \in {"fetch", "fetch_all"}, x.cur = c, x.row = f.row,
         frame'[1] = x, frame'[2] = frame[2], UNCHANGED <<stage, ud, held>>
  PROVE  OneCaller'
<1>2. /\ res[c] \in MYSQL_RES /\ mysql \in [Conns -> MYSQL] /\ res[c].state = "live"
      /\ f.r \in MYSQL_RES
  BY FetchRowType, ValuesFacts DEF TypeOK, ResultOwned
<1> DEFINE r == mysql_fetch_lengths(f.r)
<1>3. r.state = f.r.state /\ r.handle = f.r.handle /\ r.stored = f.r.stored /\ r.cur = f.r.cur
  BY <1>2 DEF mysql_fetch_lengths, MYSQL_RES
<1>4. res'[c] \in {f.r, r}  OBVIOUS
<1> HIDE DEF r
<1>5. /\ f.my = mysql /\ f.r.state = "live"
      /\ f.r.stored \/ /\ f.r.cur = f.row
                       /\ f.r.handle # NULL /\ mysql[f.r.handle].status = "use_result"
  BY <1>2, RowThere
<1>6. RowReadable(x)'  BY <1>3, <1>4, <1>5 DEF RowReadable
<1>7. RowReadable(frame[1])'  BY <1>6 DEF RowReadable
<1> QED  BY <1>7 DEF Lifetime, OneCaller, Idle

LEMMA FetchCalm ==
  ASSUME ReaderInv, ReferenceInv, Lifetime, NEW c \in Cursors, ud[c] = "live",
         FetchRow(1, c) \/ FetchFirstRow(1, c)
  PROVE  Calm /\ OneCaller' /\ fault' # "stale_row"
<1>1. IInv /\ TypeOK /\ Quit /\ Busy /\ ResultOwned /\ fault # "stale_row"
  BY DEF ReferenceInv, IInv, Lifetime, ReaderInv
<1>2. UNCHANGED <<stage, heap, held, closed, fault>> /\ cursor[c].my_res
  BY DEF FetchRow, FetchFirstRow
<1>3. PICK f \in mysql_fetch_row(res[c], mysql) :
        \/ /\ f.row = 0 /\ Leave(1)
           /\ \/ res' = [res EXCEPT ![c] = f.r] /\ mysql' = f.my /\ cursor' = cursor
              \/ nullify(c, f.r, f.my)
        \/ /\ f.row # 0 /\ mysql' = f.my
           /\ res' = [res EXCEPT ![c] = mysql_fetch_lengths(f.r)]
           /\ cursor' = [cursor EXCEPT ![c].fields = TRUE]
           /\ \E o \in {"fetch", "fetch_all"} : Enter(1, Fetching(o, c, f.row))
  BY DEF FetchRow, FetchFirstRow, WithLengths, Fetching
<1>4. ASSUME \/ res' = [res EXCEPT ![c] = f.r]
             \/ res' = [res EXCEPT ![c] = mysql_fetch_lengths(f.r)],
             mysql' = f.my
      PROVE  Quit'
  <2>1. ReadsOn(res[c], mysql, f.r, mysql') \/ Ended(res[c], mysql, f.r, mysql')
    BY <1>1, <1>4, FetchRowEffect DEF TypeOK
  <2> QED  BY <1>1, <1>2, <2>1, FetchQuits DEF TypeOK
<1>5. ASSUME CursorsStay, Quit' PROVE Calm
  BY <1>2, <1>5 DEF CursorsStay, Calm
<1>6. CASE f.row = 0 /\ Leave(1)
  <2>1. OneCaller'
    BY <1>1, <1>2, <1>6, LeftNoRow DEF heap
  <2>2. CASE res' = [res EXCEPT ![c] = f.r] /\ mysql' = f.my /\ cursor' = cursor
    <3>1. CursorsStay  BY <1>1, <2>2, FetchedStays
    <3> QED  BY <1>1, <1>2, <1>4, <1>5, <2>1, <2>2, <3>1
  <2>3. CASE nullify(c, f.r, f.my)
    <3>1. f.r \in MYSQL_RES /\ f.my \in [Conns -> MYSQL]
      BY <1>1, FetchRowType, ValuesFacts DEF TypeOK
    <3>2. CursorsStay  BY <1>1, <2>3, <3>1, NullifyStays
    <3>3. Quit'  BY <1>1, <1>2, <2>3, NullifyQuits
    <3> QED  BY <1>1, <1>2, <1>5, <2>1, <3>2, <3>3
  <2> QED  BY <1>3, <1>6, <2>2, <2>3
<1>7. CASE f.row # 0
  <2>1. PICK o \in {"fetch", "fetch_all"} : Enter(1, Fetching(o, c, f.row))
    BY <1>3, <1>7
  <2>2. /\ mysql' = f.my /\ res' = [res EXCEPT ![c] = mysql_fetch_lengths(f.r)]
        /\ cursor' = [cursor EXCEPT ![c].fields = TRUE]
    BY <1>3, <1>7
  <2> DEFINE x == [cursor[c] EXCEPT !.fields = TRUE]
  <2>3. x.my_res = cursor[c].my_res /\ x.conn = cursor[c].conn /\ x.fields
    BY <1>1 DEF TypeOK, Cursor
  <2>4. cursor' = [cursor EXCEPT ![c] = x]  BY <2>2
  <2> HIDE DEF x
  <2>5. \A d \in Cursors : cursor'[d].my_res = cursor[d].my_res /\ cursor'[d].conn = cursor[d].conn
    BY <1>1, <2>3, <2>4 DEF TypeOK
  <2>6. cursor'[c].fields /\ cursor'[c].my_res
    BY <1>1, <1>2, <2>3, <2>4 DEF TypeOK
  <2>7. CursorsStay  BY <1>1, <2>2, <2>5, FetchedStays
  <2>8. Calm  BY <1>4, <1>5, <2>2, <2>7
  <2>9. f.row \in 0..MaxRows  BY <1>1, FetchRowType, ValuesFacts DEF TypeOK
  <2> DEFINE y == Fetching(o, c, f.row)
  <2>10. y.op = o /\ y.cur = c /\ y.row = f.row  BY <2>9, FetchFrame
  <2>11. frame' = [frame EXCEPT ![1] = y]  BY <2>1 DEF Enter
  <2> HIDE DEF y
  <2>14. frame'[1] = y /\ frame'[2] = frame[2]  BY <1>1, <2>11 DEF TypeOK, Levels
  <2>15. res'[c] = mysql_fetch_lengths(f.r)  BY <1>1, <2>2 DEF TypeOK
  <2>12. UNCHANGED <<stage, ud, held>>  BY <1>2 DEF heap
  <2>13. OneCaller'
    BY <1>1, <1>2, <1>7, <2>2, <2>6, <2>10, <2>12, <2>14, <2>15, FetchedOne
  <2> QED  BY <1>1, <1>2, <2>8, <2>13
<1> QED  BY <1>3, <1>6, <1>7

LEMMA CursorCalm ==
  ASSUME ~Reentrant, ReaderInv, ReferenceInv, Lifetime, NEW l \in Levels, NEW c \in Cursors,
         CursorCall(l, c)
  PROVE  Calm /\ OneCaller' /\ fault' # "stale_row"
<1>1. /\ IInv /\ TypeOK /\ Quit /\ Busy /\ ResultOwned /\ l = 1 /\ Idle(1) /\ c \in held
      /\ stage = "running" /\ Callable(l) /\ fault # "stale_row"
  BY OnlyScriptCalls DEF ReferenceInv, IInv, Lifetime, ReaderInv, CursorCall, cursor_gc,
     cursor_fetch, cursor_fetch_all
<1>2. ud[c] = "live"  BY <1>1 DEF Lifetime, OneCaller
<1>3. ASSUME UNCHANGED <<stage, heap, held, frame>> PROVE OneCaller'
  BY <1>1, <1>3, IdleNoRow DEF heap
<1>4. CASE Rejected
  <2>1. Calm  BY <1>1, <1>4 DEF Calm, Rejected, lib, Quit, Reading
  <2> QED  BY <1>1, <1>3, <1>4, <2>1 DEF Rejected
<1>5. CASE cursor_gc(l, c)
  <2>1. res[c] \in MYSQL_RES /\ mysql \in [Conns -> MYSQL]  BY <1>1 DEF TypeOK
  <2>2. nullify(c, res[c], mysql) /\ UNCHANGED <<stage, heap, held, closed, frame, fault>>
    BY <1>5 DEF cursor_gc, cursor_nullify
  <2>3. CursorsStay  BY <1>1, <2>1, <2>2, NullifyStays
  <2>4. Quit'  BY <1>1, <2>2, NullifyQuits
  <2>5. Calm  BY <2>2, <2>3, <2>4 DEF Calm, CursorsStay
  <2> QED  BY <1>1, <1>3, <2>2, <2>5
<1> QED
  BY <1>1, <1>2, <1>4, <1>5, FetchCalm
  DEF CursorCall, cursor_fetch, cursor_fetch_all, ConvertArguments

(* One turn of fetch_all's loop: the next row is there, or there is none.  *)
LEMMA AllRowCalm ==
  ASSUME ReaderInv, ReferenceInv, Lifetime, fetch_all_row_to_table(1)
  PROVE  Calm /\ OneCaller' /\ fault' # "stale_row"
<1>1. /\ IInv /\ TypeOK /\ Quit /\ Busy /\ ResultOwned /\ FramesSound
      /\ fault # "stale_row" /\ frame[1].op = "fetch_all" /\ OneCaller
  BY DEF ReferenceInv, IInv, Lifetime, ReaderInv, fetch_all_row_to_table
<1> DEFINE x == frame[1]
<1>2. /\ RowReadable(x) /\ UNCHANGED <<stage, heap, held, closed, fault>>
  BY <1>1 DEF fetch_all_row_to_table, OneCaller, RowInHand
<1>3. PICK c \in Cursors : c = x.cur
  BY <1>1 DEF FramesSound, CallSound, Levels
<1>4. ud[c] = "live" /\ cursor[c].my_res /\ cursor[c].fields
  BY <1>1, <1>2, <1>3 DEF OneCaller, RowInHand, RowReadable
<1>5. PICK g \in mysql_fetch_row(res[c], mysql) :
        IF g.row # 0
        THEN /\ Enter(1, [x EXCEPT !.row = g.row, !.tbl = Filled(x)])
             /\ res' = [res EXCEPT ![c] = g.r]
             /\ mysql' = g.my
             /\ UNCHANGED cursor
        ELSE nullify(c, g.r, g.my) /\ Leave(1)
  BY <1>2, <1>3 DEF fetch_all_row_to_table
<1>6. ASSUME CursorsStay, Quit' PROVE Calm
  BY <1>2, <1>6 DEF CursorsStay, Calm
<1>7. CASE g.row # 0
  <2>1. res' = [res EXCEPT ![c] = g.r] /\ mysql' = g.my /\ UNCHANGED cursor
    BY <1>5, <1>7
  <2>2. CursorsStay  BY <1>1, <2>1, FetchedStays
  <2>3. Quit'
    <3>1. ReadsOn(res[c], mysql, g.r, mysql') \/ Ended(res[c], mysql, g.r, mysql')
      BY <1>1, <2>1, FetchRowEffect DEF TypeOK
    <3> QED  BY <1>1, <1>2, <3>1, FetchQuits DEF TypeOK
  <2> DEFINE y == [x EXCEPT !.row = g.row, !.tbl = Filled(x)]
  <2>4. y.op = x.op /\ y.cur = x.cur /\ y.row = g.row
    BY <1>1 DEF TypeOK, Frame, Levels
  <2>5. frame' = [frame EXCEPT ![1] = y]  BY <1>5, <1>7 DEF Enter
  <2> HIDE DEF y
  <2>6. frame'[1] = y /\ frame'[2] = frame[2]  BY <1>1, <2>5 DEF TypeOK, Levels
  <2>7. res'[c] = g.r  BY <1>1, <2>1 DEF TypeOK
  <2>8. UNCHANGED <<stage, ud, held>>  BY <1>2 DEF heap
  <2>9. y.op \in {"fetch", "fetch_all"} /\ y.cur = c  BY <1>1, <1>3, <2>4
  <2>10. OneCaller'
    BY <1>1, <1>4, <1>7, <2>1, <2>4, <2>6, <2>7, <2>8, <2>9, FetchedOne
  <2> QED  BY <1>1, <1>2, <1>6, <2>2, <2>3, <2>10
<1>8. CASE ~(g.row # 0)
  <2>1. nullify(c, g.r, g.my) /\ Leave(1)  BY <1>5, <1>8
  <2>2. g.r \in MYSQL_RES /\ g.my \in [Conns -> MYSQL]
    BY <1>1, FetchRowType, ValuesFacts DEF TypeOK
  <2>3. CursorsStay  BY <1>1, <2>1, <2>2, NullifyStays
  <2>4. Quit'  BY <1>1, <1>2, <2>1, NullifyQuits
  <2>5. OneCaller'  BY <1>1, <1>2, <2>1, LeftNoRow DEF heap
  <2> QED  BY <1>1, <1>2, <1>6, <2>3, <2>4, <2>5
<1> QED  BY <1>7, <1>8

LEMMA ResumeCalm ==
  ASSUME ~Reentrant, ReaderInv, ReferenceInv, Lifetime, NEW l \in Levels, Resume(l),
         ~create_cursor(l)
  PROVE  Calm /\ OneCaller' /\ fault' # "stale_row"
<1>1. Resumable(l)
  BY DEF Resume, connect_converted, create_cursor, create_cursor_throws,
     option_converted, fetch_row_to_table, fetch_all_row_to_table, call_throws
<1>2. l = 1 /\ TypeOK /\ Quit /\ OneCaller /\ fault # "stale_row"
  BY <1>1, OnlyFirstResumes DEF ReferenceInv, IInv, Lifetime
<1>3. ASSUME UNCHANGED <<stage, heap, held, lib, fault>>, Leave(l)
      PROVE  Calm /\ OneCaller' /\ fault' # "stale_row"
  <2>1. Calm  BY <1>2, <1>3 DEF Calm, Quit, Reading, lib
  <2> QED  BY <1>2, <1>3, <2>1, LeftNoRow DEF heap
<1>4. CASE create_cursor_throws(l) \/ call_throws(l)
  BY <1>3, <1>4 DEF create_cursor_throws, call_throws
<1>5. CASE connect_converted(l) \/ option_converted(l)
  BY <1>2, <1>5 DEF OneCaller, connect_converted, option_converted
<1>6. CASE fetch_row_to_table(l)
  <2>1. RowReadable(frame[l])
    BY <1>2, <1>6 DEF OneCaller, RowInHand, fetch_row_to_table
  <2> QED  BY <1>3, <1>6, <2>1 DEF fetch_row_to_table
<1>7. CASE fetch_all_row_to_table(l)  BY <1>2, <1>7, AllRowCalm
<1> QED  BY <1>4, <1>5, <1>6, <1>7 DEF Resume

(* The connection execute holds is older than the cursor it makes.         *)
LEMMA CreateCursorLives ==
  ASSUME ~Reentrant, ReaderInv, ReferenceInv, Lifetime, NEW l \in Levels, create_cursor(l)
  PROVE  Lifetime'
<1>1. /\ TypeOK /\ FramesSound /\ Ages /\ ReleasedFirst /\ Quit /\ Younger /\ OneCaller
      /\ Resumable(l) /\ frame[l].op = "execute" /\ fault # "stale_row" /\ SlotsRight
  BY DEF ReferenceInv, IInv, Lifetime, create_cursor
<1>2. l = 1 /\ stage = "running"  BY <1>1, OnlyFirstResumes
<1>3. PICK c \in Cursors, k \in Conns : c = frame[l].cur /\ k = frame[l].conn
  BY <1>1 DEF FramesSound, CallSound
<1>4. /\ lua_setmetatable(c) /\ Leave(l) /\ UNCHANGED <<stage, closed, mysql, res, fault>>
      /\ \A d \in Cursors \ {c} : cursor'[d] = cursor[d]
  BY <1>1, <1>3 DEF create_cursor, TypeOK
<1>5. /\ ud'[c] = "live" /\ \A o \in Objects \ {c} : ud'[o] = ud[o]
      /\ age'[c] = clock /\ \A o \in Objects \ {c} : age'[o] = age[o]
      /\ clock' = clock + 1 /\ held' = held \cup {c} /\ clock \in Nat
  BY <1>1, <1>4 DEF TypeOK, lua_setmetatable, Objects
<1>6. \A o \in Objects : age[o] \in Nat  BY <1>1 DEF TypeOK
<1>7. Ages'  BY <1>1, <1>5, <1>6 DEF Ages
<1>8. ReleasedFirst'
  BY <1>1, <1>4, <1>5, ObjectsDistinct DEF ReleasedFirst, Gone, Objects
<1>9. Quit'  BY <1>1, <1>4 DEF Quit
<1>10. Younger'
  <2> SUFFICES ASSUME NEW d \in Cursors, NEW j \in Conns, Reading(d, j)', cursor'[d].my_res
               PROVE  age'[j] < age'[d]
    BY <1>2, <1>4 DEF Younger
  <2>1. Reading(d, j) /\ age'[j] = age[j]
    BY <1>4, <1>5, ObjectsDistinct DEF Reading, Objects
  <2>2. CASE d = c  BY <1>1, <1>5, <2>1, <2>2 DEF Ages, Objects
  <2>3. CASE d # c  BY <1>1, <1>4, <1>5, <2>1, <2>3 DEF Younger, Objects
  <2> QED  BY <2>2, <2>3
<1>11. Closing'  BY <1>2, <1>4 DEF Closing
<1>12. OneCaller'
  <2>1. frame'[1].op = "none" /\ frame'[2] = frame[2]
    BY <1>1, <1>2, <1>4 DEF TypeOK, Leave, Levels, NoFrame
  <2> QED  BY <1>1, <1>2, <1>4, <1>5, <2>1 DEF OneCaller, Idle, RowInHand, Objects
<1> QED  BY <1>1, <1>4, <1>7, <1>8, <1>9, <1>10, <1>11, <1>12 DEF Lifetime

(* A new Connection has no reader.                                         *)
LEMMA CreateLives ==
  ASSUME ~Reentrant, ReaderInv, ReferenceInv, Lifetime, NEW l \in Levels, conn_create(l)
  PROVE  Lifetime'
<1>1. /\ TypeOK /\ Ages /\ ReleasedFirst /\ Quit /\ Younger /\ OneCaller /\ Made
      /\ Callable(l) /\ fault # "stale_row"
  BY DEF ReferenceInv, ReaderInv, IInv, Lifetime, conn_create
<1>2. l = 1 /\ stage = "running" /\ Idle(1)  BY <1>1, OnlyScriptCalls
<1>3. PICK k \in Conns :
        /\ ud[k] = "none"
        /\ \/ /\ lua_setmetatable(k)
              /\ closed' = [closed EXCEPT ![k] = FALSE]
              /\ mysql' = [mysql EXCEPT ![k] = mysql_init]
           \/ Rejected
  BY DEF conn_create
<1>4. CASE Rejected
  <2>1. Calm  BY <1>1, <1>4 DEF Calm, Rejected, lib, Quit, Reading
  <2>2. OneCaller'  BY <1>1, <1>2, <1>4, IdleNoRow DEF Rejected, heap
  <2> QED  BY <1>1, <1>2, <1>4, <2>1, <2>2, CalmStep DEF Lifetime, Rejected
<1>5. CASE /\ lua_setmetatable(k)
           /\ closed' = [closed EXCEPT ![k] = FALSE]
           /\ mysql' = [mysql EXCEPT ![k] = mysql_init]
  <2>1. /\ ud'[k] = "live" /\ \A o \in Objects \ {k} : ud'[o] = ud[o]
        /\ age'[k] = clock /\ \A o \in Objects \ {k} : age'[o] = age[o]
        /\ clock' = clock + 1 /\ held' = held \cup {k} /\ clock \in Nat
    BY <1>1, <1>5 DEF TypeOK, lua_setmetatable, Objects
  <2>2. \A o \in Objects : age[o] \in Nat  BY <1>1 DEF TypeOK
  <2>3. UNCHANGED <<stage, cursor, res, frame, fault>>
    BY DEF conn_create, Rejected, lib
  <2>4. Ages'  BY <1>1, <2>1, <2>2 DEF Ages
  <2>5. ReleasedFirst'
    BY <1>1, <1>5, <2>1, <2>3, ObjectsDistinct DEF ReleasedFirst, Gone, Objects, TypeOK
  <2>6. Quit'  BY <1>1, <1>5 DEF Quit, TypeOK
  <2>7. Younger'
    <3> SUFFICES ASSUME NEW d \in Cursors, NEW j \in Conns, Reading(d, j)', cursor'[d].my_res
                 PROVE  age'[j] < age'[d]
      BY <1>2, <2>3 DEF Younger
    <3>1. Reading(d, j) /\ d # k  BY <2>3, ObjectsDistinct DEF Reading
    <3>2. j # k  BY <1>1, <1>3, <3>1 DEF Made
    <3> QED  BY <1>1, <2>1, <2>3, <3>1, <3>2 DEF Younger, Objects
  <2>8. Closing'  BY <1>2, <2>3 DEF Closing
  <2>9. OneCaller'
    BY <1>1, <1>2, <2>1, <2>3, ObjectsDistinct DEF OneCaller, Idle, RowInHand, Objects
  <2> QED  BY <1>1, <2>3, <2>4, <2>5, <2>6, <2>7, <2>8, <2>9 DEF Lifetime
<1> QED  BY <1>3, <1>4, <1>5

(* Script steps.                                                           *)
LEMMA ScriptLives ==
  ASSUME ~Reentrant, ReaderInv, ReferenceInv, Lifetime, Script
  PROVE  Lifetime'
<1>1. ASSUME NEW l \in Levels, Callable(l) \/ Resumable(l),
             Calm, OneCaller', fault' # "stale_row"
      PROVE  Lifetime'
  <2>1. stage = "running"  BY <1>1, OnlyScriptCalls, OnlyFirstResumes
  <2> QED  BY <1>1, <2>1, CalmStep DEF Lifetime
<1>2. ASSUME NEW l \in Levels, NEW k \in Conns, ConnCall(l, k) PROVE Lifetime'
  <2>1. Callable(l)
    BY <1>2 DEF ConnCall, conn_close, conn_connect, conn_set_reconnect, conn_ping,
       conn_commit_rollback, conn_execute
  <2> QED  BY <1>1, <1>2, <2>1, ConnCalm
<1>3. ASSUME NEW l \in Levels, NEW c \in Cursors, CursorCall(l, c) PROVE Lifetime'
  <2>1. Callable(l)
    BY <1>3 DEF CursorCall, cursor_gc, cursor_fetch, cursor_fetch_all
  <2> QED  BY <1>1, <1>3, <2>1, CursorCalm
<1>4. ASSUME NEW l \in Levels, Resume(l) PROVE Lifetime'
  <2>1. Resumable(l)
    BY <1>4 DEF Resume, connect_converted, create_cursor, create_cursor_throws,
       option_converted, fetch_row_to_table, fetch_all_row_to_table, call_throws
  <2> QED  BY <1>1, <1>4, <2>1, ResumeCalm, CreateCursorLives
<1> QED  BY <1>2, <1>3, <1>4, CreateLives DEF Script

-----------------------------------------------------------------------------
(* The collector *)

(* The connection an owned result is read from can be reached.             *)
LEMMA ReaderAlive ==
  ASSUME ReferenceInv, NEW c \in Cursors, NEW k \in Conns, Reading(c, k), cursor[c].my_res,
         stage # "closed"
  PROVE  ud[k] \notin {"none", "freed"} /\ (stage = "running" /\ ~Reentrant => ud[k] = "live")
<1>1. registry.slot[cursor[c].conn] = k  BY DEF ReferenceInv, SlotsRight
<1>2. cursor[c].conn \in UsedSlots(registry)
  BY DEF ReferenceInv, IInv, RegistrySound, ResultOwned, Refs
<1>3. Reachable(k)  BY <1>1, <1>2 DEF Reachable
<1> QED  BY <1>3 DEF ReferenceInv, Alive

(* Unreachable objects are found, and finalized ones freed.                *)
LEMMA SweepLives ==
  ASSUME Lifetime, TypeOK, FramesSound, NEW o \in Objects,
         Drop(o) \/ separatetobefnz(o) \/ sweep(o)
  PROVE  Lifetime'
<1>1. /\ Ages /\ ReleasedFirst /\ Quit /\ Younger /\ OneCaller /\ fault # "stale_row"
      /\ stage = "running"
      /\ UNCHANGED <<stage, age, clock, closed, mysql, cursor, res, frame, fault>>
  BY DEF Lifetime, Drop, separatetobefnz, sweep, lib, heap
<1>2. /\ \A p \in Objects \ {o} : ud'[p] = ud[p]
      /\ \/ ud'[o] = ud[o]
         \/ ud[o] = "live" /\ ~Reachable(o) /\ ud'[o] = "tobefnz"
         \/ ud[o] = "finalized" /\ ud'[o] = "freed"
      /\ held' \subseteq held
  BY DEF TypeOK, Drop, separatetobefnz, sweep, heap
<1>3. Ages'  BY <1>1 DEF Ages
<1>4. ReleasedFirst'  BY <1>1, <1>2 DEF ReleasedFirst, Gone, Objects
<1>5. Quit'  BY <1>1 DEF Quit
<1>6. Younger'  BY <1>1 DEF Younger, Reading
<1>7. Closing'  BY <1>1 DEF Closing
<1>8. OneCaller'
  <2>1. \A c \in held \cap Cursors : ud'[c] = "live"
    BY <1>1, <1>2 DEF OneCaller, Reachable, Objects
  <2>2. RowInHand' => /\ ud'[frame'[1].cur] = "live" /\ cursor'[frame'[1].cur].my_res
                   /\ RowReadable(frame[1])'
    <3> SUFFICES ASSUME RowInHand PROVE ud'[frame[1].cur] = "live" /\ RowReadable(frame[1])'
      BY <1>1 DEF RowInHand, OneCaller
    <3>1. PICK c \in Cursors : c = frame[1].cur
      BY DEF RowInHand, FramesSound, CallSound, Levels
    <3>2. Reachable(c) /\ ud[c] = "live"
      BY <1>1, <3>1 DEF RowInHand, OneCaller, Reachable, Idle, Levels
    <3>3. ud'[c] = "live"  BY <1>2, <3>2 DEF Objects
    <3>4. RowReadable(frame[1])'  BY <1>1 DEF OneCaller, RowReadable
    <3> QED  BY <3>1, <3>3, <3>4
  <2> QED  BY <1>1, <1>2, <2>1, <2>2 DEF OneCaller, Idle
<1> QED  BY <1>1, <1>3, <1>4, <1>5, <1>6, <1>7, <1>8 DEF Lifetime

(* The row of the call in progress outlasts a finalizer of anything else   *)
(* that is not the connection it is read from.                             *)
LEMMA RowOutlasts ==
  ASSUME ReferenceInv, Undisturbed, OneCaller, RowInHand, frame' = frame, stage = "running",
         ~Reentrant, NEW o \in Objects, ud[o] # "live",
         \A c \in Cursors \ {o} : cursor'[c] = cursor[c] /\ res'[c] = res[c],
         \A k \in Conns \ {o} : closed'[k] = closed[k],
         \A p \in Objects \ {o} : ud'[p] = ud[p]
  PROVE  /\ ud'[frame'[1].cur] = "live" /\ cursor'[frame'[1].cur].my_res
         /\ RowReadable(frame[1])'
<1>1. PICK c \in Cursors : c = frame[1].cur
  BY DEF ReferenceInv, IInv, RowInHand, FramesSound, CallSound, Levels
<1>2. ud[c] = "live" /\ cursor[c].my_res /\ RowReadable(frame[1])
  BY <1>1 DEF OneCaller
<1>3. c # o /\ ud'[c] = "live" /\ cursor'[c] = cursor[c] /\ res'[c] = res[c]
  BY <1>2 DEF Objects
<1>4. res[c].state = "live"  BY <1>1, <1>2 DEF RowReadable
<1>5. RowReadable(frame[1])'
  <2>1. CASE res[c].stored  BY <1>1, <1>2, <1>3, <2>1 DEF RowReadable
  <2>2. CASE ~res[c].stored
    <3>1. res[c].handle # NULL /\ res[c].handle \in Conns \cup {NULL}
      BY <1>1, <1>2, <2>2 DEF RowReadable, ReferenceInv, IInv, TypeOK, MYSQL_RES
    <3>2. PICK k \in Conns : k = res[c].handle  BY <3>1
    <3>3. Reading(c, k) /\ mysql[k].status = "use_result"
      BY <1>1, <1>2, <1>4, <2>2, <3>2 DEF Reading, RowReadable
    <3>4. ud[k] = "live"  BY <1>2, <3>3, ReaderAlive
    <3>5. closed'[k] = closed[k]  BY <3>4
    <3>6. Reading(c, k)'  BY <1>3, <3>3 DEF Reading
    <3>7. mysql'[k].status = "use_result"  BY <3>3, <3>5, <3>6 DEF Undisturbed
    <3> QED  BY <1>1, <1>2, <1>3, <3>1, <3>2, <3>7 DEF RowReadable
  <2> QED  BY <2>1, <2>2
<1> QED  BY <1>1, <1>2, <1>3, <1>5

LEMMA FinalizerLives ==
  ASSUME ~Reentrant, ReaderInv, ReferenceInv, Lifetime, [Next]_vars,
         (\E c \in Cursors : GCTM_cursor(c)) \/ (\E k \in Conns : GCTM_conn(k))
  PROVE  Lifetime'
<1>1. /\ TypeOK /\ Ages /\ ReleasedFirst /\ Quit /\ Younger /\ Closing /\ OneCaller
      /\ Busy /\ ResultOwned /\ IInv /\ fault # "stale_row"
  BY DEF Lifetime, ReferenceInv, IInv, ReaderInv
<1>2. Undisturbed  BY StepReaderInv
<1>3. ASSUME NEW o \in Objects, ud[o] # "live", ud' = [ud EXCEPT ![o] = "finalized"],
             UNCHANGED <<stage, age, clock, held, frame, fault>>,
             CursorsStay, Quit', o \in Cursors => ~cursor'[o].my_res,
             o \in Conns => closed'[o],
             \A c \in Cursors \ {o} : cursor'[c] = cursor[c] /\ res'[c] = res[c],
             \A k \in Conns \ {o} : closed'[k] = closed[k]
      PROVE  Lifetime'
  <2>1. ud'[o] = "finalized" /\ \A p \in Objects \ {o} : ud'[p] = ud[p]
    BY <1>1, <1>3 DEF TypeOK
  <2>2. Ages'  BY <1>1, <1>3 DEF Ages
  <2>3. ReleasedFirst'  BY <1>1, <1>3, <2>1 DEF ReleasedFirst, Gone, Objects
  <2>4. Younger'  BY <1>1, <1>3, <2>1 DEF Younger, CursorsStay, Objects
  <2>5. Closing'  BY <1>1, <1>3, <2>1 DEF Closing, Idle
  <2>6. OneCaller'
    <3>1. stage = "running" => \A c \in held \cap Cursors : ud'[c] = "live"
      BY <1>1, <1>3, <2>1 DEF OneCaller, Objects
    <3>2. RowInHand => stage = "running"
      BY <1>1 DEF RowInHand, Closing, Idle, Levels
    <3>3. RowInHand => /\ ud'[frame'[1].cur] = "live" /\ cursor'[frame'[1].cur].my_res
                    /\ RowReadable(frame[1])'
      BY <1>1, <1>2, <1>3, <2>1, <3>2, RowOutlasts
    <3> QED  BY <1>1, <1>3, <3>1, <3>3 DEF OneCaller, Idle, RowInHand
  <2> QED  BY <1>1, <1>3, <2>2, <2>3, <2>4, <2>5, <2>6 DEF Lifetime
<1>4. ASSUME NEW c \in Cursors, GCTM_cursor(c) PROVE Lifetime'
  <2>1. /\ nullify(c, res[c], mysql) /\ ud' = [ud EXCEPT ![c] = "finalized"]
        /\ UNCHANGED <<stage, age, clock, held, closed, frame, fault>>
        /\ ud[c] # "live"
    BY <1>4 DEF GCTM_cursor, cursor_nullify, NextToFinalize
  <2>2. res[c] \in MYSQL_RES /\ mysql \in [Conns -> MYSQL]  BY <1>1 DEF TypeOK
  <2>3. CursorsStay  BY <1>1, <2>1, <2>2, NullifyStays
  <2>4. Quit'  BY <1>1, <2>1, NullifyQuits
  <2>5. /\ ~cursor'[c].my_res
        /\ \A d \in Cursors \ {c} : cursor'[d] = cursor[d] /\ res'[d] = res[d]
    BY <1>1, <2>1, <2>2, NullifyStep
  <2>6. c \in Objects /\ c \notin Conns  BY ObjectsDistinct DEF Objects
  <2> QED  BY <1>3, <2>1, <2>3, <2>4, <2>5, <2>6
<1>5. ASSUME NEW k \in Conns, GCTM_conn(k) PROVE Lifetime'
  <2>1. /\ close_conn(k) /\ ud' = [ud EXCEPT ![k] = "finalized"]
        /\ UNCHANGED <<stage, age, clock, held, cursor, res, frame, fault>>
        /\ ud[k] # "live"
    BY <1>5 DEF GCTM_conn, NextToFinalize
  <2>2. CursorsStay  BY <2>1 DEF CursorsStay, Reading
  <2>3. Quit' /\ closed'[k]  BY <1>1, <2>1, CloseQuits
  <2>4. \A j \in Conns \ {k} : closed'[j] = closed[j]
    BY <1>1, <2>1 DEF close_conn, TypeOK
  <2>5. k \in Objects /\ k \notin Cursors  BY ObjectsDistinct DEF Objects
  <2> QED  BY <1>3, <2>1, <2>2, <2>3, <2>4, <2>5
<1> QED  BY <1>4, <1>5

(* lua_close finds the connections of readers live, and leaves nothing to  *)
(* free that was not finalized.                                            *)
LEMMA CloseLives ==
  ASSUME ~Reentrant, ReferenceInv, Lifetime,
         lua_close \/ freeallobjects \/ Over \/ UNCHANGED vars
  PROVE  Lifetime'
<1>1. /\ TypeOK /\ Ages /\ ReleasedFirst /\ Quit /\ Younger /\ Closing /\ OneCaller
      /\ fault # "stale_row"
  BY DEF Lifetime, ReferenceInv, IInv
<1>2. CASE UNCHANGED vars
  <2>1. UNCHANGED <<stage, ud, age, clock, held, closed, mysql, cursor, res, frame, fault>>
    BY <1>2 DEF vars, heap, lib
  <2>2. Ages' /\ ReleasedFirst' /\ Quit'  BY <1>1, <2>1 DEF Ages, ReleasedFirst, Quit
  <2>3. Younger' /\ Closing'  BY <1>1, <2>1 DEF Younger, Reading, Closing, Idle
  <2>4. OneCaller'  BY <1>1, <2>1 DEF OneCaller, Idle, RowInHand, RowReadable
  <2> QED  BY <1>1, <2>1, <2>2, <2>3, <2>4 DEF Lifetime
<1>3. CASE lua_close \/ freeallobjects
  <2>1. /\ UNCHANGED <<age, clock, closed, mysql, cursor, res, frame, fault>>
        /\ stage' # "running" /\ \A l \in Levels : Idle(l)
    BY <1>3 DEF lua_close, freeallobjects, lib
  <2>2. Ages' /\ Quit'  BY <1>1, <2>1 DEF Ages, Quit
  <2>3. \A o \in Objects : /\ ud'[o] \notin {"live", "tobefnz"} \/ (ud'[o] = ud[o] /\ ud[o] # "live")
                           /\ ud'[o] \in Gone => ud[o] \in Gone
    <3>1. CASE lua_close
      <4>1. \A o \in Objects : ud'[o] = IF ud[o] = "live" THEN "closing" ELSE ud[o]
        BY <3>1 DEF lua_close
      <4> QED  BY <4>1 DEF Gone
    <3>2. CASE freeallobjects
      <4>1. \A o \in Objects : ud[o] \notin {"live", "tobefnz", "closing"}
        BY <1>1, <3>2 DEF freeallobjects, Closing
      <4>2. \A o \in Objects : ud[o] \in Gone \cup {"none"}
        BY <1>1, <4>1 DEF TypeOK, UdState, Gone
      <4> QED  BY <3>2, <4>2 DEF freeallobjects, Gone
    <3> QED  BY <1>3, <3>1, <3>2
  <2>4. ReleasedFirst'  BY <1>1, <2>1, <2>3 DEF ReleasedFirst, Objects
  <2>5. Younger'
    <3> SUFFICES ASSUME NEW c \in Cursors, NEW k \in Conns, Reading(c, k)', cursor'[c].my_res
                 PROVE  age'[k] < age'[c] /\ ud'[k] # "tobefnz"
      BY <2>1 DEF Younger
    <3>1. Reading(c, k) /\ cursor[c].my_res /\ age[k] < age[c]
      BY <1>1, <2>1 DEF Reading, Younger
    <3>2. ud[k] # "tobefnz"
      <4>1. CASE lua_close
        BY <3>1, <4>1, ReaderAlive DEF lua_close
      <4>2. CASE freeallobjects  BY <4>2 DEF freeallobjects, Objects
      <4> QED  BY <1>3, <4>1, <4>2
    <3> QED  BY <2>1, <2>3, <3>1, <3>2 DEF Objects
  <2>6. Closing'  BY <2>1, <2>3 DEF Closing, Idle
  <2>7. OneCaller'  BY <1>1, <2>1 DEF OneCaller, Idle, RowInHand, Levels
  <2> QED  BY <1>1, <2>1, <2>2, <2>4, <2>5, <2>6, <2>7 DEF Lifetime
<1> QED  BY <1>2, <1>3 DEF Over

-----------------------------------------------------------------------------

LEMMA InitLifetime == Init => LifetimeInv
<1> SUFFICES ASSUME Init PROVE LifetimeInv  OBVIOUS
<1>1. ReaderInv /\ ReferenceInv  BY InitReaderInv, InitReferenceInv
<1>2. /\ \A l \in Levels : frame[l].op = "none"
      /\ \A c \in Cursors : ~cursor[c].my_res
  BY DEF Init, NoFrame, NoCursor
<1>3. Ages /\ ReleasedFirst /\ Quit
  BY DEF Init, Ages, ReleasedFirst, Quit, Gone, Objects
<1>4. Younger /\ Closing  BY <1>2 DEF Init, Younger, Closing
<1>5. OneCaller  BY <1>2 DEF Init, OneCaller, Idle, RowInHand, Levels
<1> QED  BY <1>1, <1>3, <1>4, <1>5 DEF Init, LifetimeInv, Lifetime

LEMMA StepLifetime == LifetimeInv /\ [Next]_vars => LifetimeInv'
<1> SUFFICES ASSUME LifetimeInv, [Next]_vars PROVE LifetimeInv'  OBVIOUS
<1>1. ReaderInv /\ ReferenceInv  BY DEF LifetimeInv
<1>2. ReaderInv' /\ ReferenceInv'  BY <1>1, StepReaderInv, StepReferenceInv
<1>3. ASSUME ~Reentrant PROVE Lifetime'
  <2>1. Lifetime /\ TypeOK /\ FramesSound
    BY <1>3 DEF LifetimeInv, ReferenceInv, IInv
  <2>2. CASE Script  BY <1>1, <1>3, <2>1, <2>2, ScriptLives
  <2>3. CASE Collector
    <3>1. ASSUME NEW o \in Objects, Drop(o) \/ separatetobefnz(o) \/ sweep(o) \/ Resurrect(o)
          PROVE  Lifetime'
      BY <1>3, <2>1, <3>1, SweepLives DEF Resurrect
    <3> QED  BY <1>1, <1>3, <2>1, <2>3, <3>1, FinalizerLives DEF Collector
  <2>4. CASE lua_close \/ freeallobjects \/ Over \/ UNCHANGED vars
    BY <1>1, <1>3, <2>1, <2>4, CloseLives
  <2> QED  BY <2>2, <2>3, <2>4 DEF Next
<1> QED  BY <1>2, <1>3 DEF LifetimeInv

LEMMA LifetimeInvariance == Spec => []LifetimeInv
BY InitLifetime, StepLifetime, PTL DEF Spec

(* Without finalizers of the script: the memory of a cursor goes after its *)
(* result and its reference, that of a connection after its session. After *)
(* lua_close no result is left, but for those a memory error orphaned, and *)
(* the registry has only what Lua put there.                               *)
THEOREM ReleasesAll == Spec => []NothingLeaks
<1>1. LifetimeInv => NothingLeaks
  <2> SUFFICES ASSUME ReferenceInv, Lifetime PROVE
        /\ \A c \in Cursors : ud[c] = "freed" => ~cursor[c].my_res
        /\ \A k \in Conns : ud[k] = "freed" => closed[k]
        /\ \A k \in Conns : closed[k] => mysql[k].session = "none"
        /\ stage = "closed" =>
             /\ \A c \in Cursors : res[c].state = "live" => AllocThrows
             /\ UsedSlots(registry) = {1, 2}
    BY DEF NothingLeaks, LifetimeInv
  <2>1. ReleasedFirst /\ Quit  BY DEF Lifetime
  <2>2. ASSUME stage = "closed"
        PROVE  /\ \A c \in Cursors : res[c].state = "live" => AllocThrows
               /\ UsedSlots(registry) = {1, 2}
    <3>1. \A c \in Cursors : ~cursor[c].my_res
      BY <2>1, <2>2 DEF ReferenceInv, ClosedState, CursorMade, ReleasedFirst, Gone, Objects
    <3>2. \A l \in Levels : frame[l].op # "execute"
      BY <2>2 DEF ReferenceInv, ClosedState, Idle
    <3>3. Refs = {}  BY <3>1 DEF ReferenceInv, IInv, ResultOwned, Refs
    <3> QED  BY <3>1, <3>2, <3>3 DEF ReferenceInv, IInv, ResultOwned, RegistrySound
  <2> QED  BY <2>1, <2>2 DEF ReleasedFirst, Quit, Gone
<1> QED  BY <1>1, LifetimeInvariance, PTL

(* Without finalizers of the script: while result_to_table converts a row, *)
(* and the collector runs in every allocation it makes, the bytes of the   *)
(* row and the column types stay where they are.                           *)
THEOREM RowsStay == Spec => []NoStaleRow
<1>1. LifetimeInv => NoStaleRow  BY DEF LifetimeInv, Lifetime, NoStaleRow
<1> QED  BY <1>1, LifetimeInvariance, PTL

(* A connection is finalized by its finalizer.                             *)
LEMMA FinalizedBy ==
  ASSUME IInv, [Next]_vars, NEW k \in Conns, ud[k] # "finalized", ud'[k] = "finalized"
  PROVE  GCTM_conn(k)
<1>1. TypeOK  BY DEF IInv
<1>2. ~UNCHANGED ud  OBVIOUS
<1>3. ASSUME NEW o \in Objects, lua_setmetatable(o) PROVE FALSE
  BY <1>1, <1>3 DEF lua_setmetatable, TypeOK, Objects
<1>4. CASE Script
  <2>1. ASSUME NEW l \in Levels, conn_create(l) PROVE FALSE
    BY <1>2, <1>3, <2>1 DEF conn_create, Rejected, heap, Objects
  <2>2. ASSUME NEW l \in Levels, NEW j \in Conns, ConnCall(l, j) PROVE FALSE
    BY <1>2, <2>2 DEF ConnCall, conn_close, conn_connect, conn_set_reconnect, conn_ping,
       conn_commit_rollback, conn_execute, SendQuery, Rejected, NullMethods,
       ConvertArguments, real_connect, command, heap
  <2>3. ASSUME NEW l \in Levels, NEW c \in Cursors, CursorCall(l, c) PROVE FALSE
    BY <1>2, <2>3 DEF CursorCall, cursor_gc, cursor_fetch, cursor_fetch_all, Rejected,
       ConvertArguments, FetchRow, FetchFirstRow, heap
  <2>4. ASSUME NEW l \in Levels, Resume(l), ~create_cursor(l) PROVE FALSE
    BY <1>2, <2>4 DEF Resume, connect_converted, real_connect, create_cursor_throws,
       option_converted, NullResult, FetchRow, FetchFirstRow, fetch_row_to_table,
       fetch_all_row_to_table, StaleRow, call_throws, heap
  <2>5. ASSUME NEW l \in Levels, create_cursor(l) PROVE FALSE
    <3>1. PICK c \in Cursors : c = frame[l].cur
      BY <2>5 DEF IInv, FramesSound, CallSound, create_cursor
    <3> QED  BY <1>3, <2>5, <3>1 DEF create_cursor, Objects
  <2> QED  BY <1>4, <2>1, <2>2, <2>3, <2>4, <2>5 DEF Script
<1>5. CASE Collector
  <2>1. ASSUME NEW o \in Objects, Drop(o) \/ separatetobefnz(o) \/ sweep(o) \/ Resurrect(o)
        PROVE  FALSE
    BY <1>1, <2>1 DEF Drop, separatetobefnz, sweep, Resurrect, heap, TypeOK, Objects
  <2>2. ASSUME NEW c \in Cursors, GCTM_cursor(c) PROVE FALSE
    BY <1>1, <2>2, ObjectsDistinct DEF GCTM_cursor, TypeOK, Objects
  <2>3. ASSUME NEW j \in Conns, GCTM_conn(j) PROVE j = k
    BY <1>1, <2>3 DEF GCTM_conn, TypeOK, Objects
  <2> QED  BY <1>5, <2>1, <2>2, <2>3 DEF Collector
<1>6. CASE lua_close \/ freeallobjects \/ Over \/ UNCHANGED vars
  BY <1>1, <1>6 DEF lua_close, freeallobjects, Over, vars, heap, TypeOK, Objects
<1> QED  BY <1>4, <1>5, <1>6 DEF Next

(* Without finalizers of the script: no collector step, inside lua_close   *)
(* or before, closes a connection from which an owned result is read.      *)
THEOREM SparesReaders == Spec => CollectorSparesReader
<1>1. ASSUME LifetimeInv, [Next]_vars, NEW k \in Conns,
             ~Reentrant, ud'[k] = "finalized", ~closed[k], closed'[k],
             NEW c \in Cursors, Reading(c, k), cursor[c].my_res
      PROVE  FALSE
  <2>1. /\ ReferenceInv /\ IInv /\ ReleasedFirst /\ Younger /\ Closing
        /\ k \in Objects /\ c \in Objects
    BY <1>1 DEF LifetimeInv, ReferenceInv, Lifetime, Objects
  <2>2. ud[k] # "finalized"  BY <1>1, <2>1 DEF ReleasedFirst, Gone
  <2>3. GCTM_conn(k)  BY <1>1, <2>1, <2>2, FinalizedBy
  <2>4. NextToFinalize(k) /\ ud[k] \in {"tobefnz", "closing"}
    BY <2>3 DEF GCTM_conn, NextToFinalize
  <2>5. stage # "running" /\ stage # "closed"
    BY <1>1, <2>1, <2>4, ReaderAlive DEF ReferenceInv, ClosedState
  <2>6. ud[k] = "closing"  BY <1>1, <2>1, <2>4, <2>5 DEF Younger
  <2>7. \A p \in Objects : ud[p] # "tobefnz" /\ (ud[p] = "closing" => age[p] <= age[k])
    BY <2>4, <2>6 DEF NextToFinalize
  <2>8. ud[c] = "closing"
    <3>1. ud[c] \in UdState  BY <2>1 DEF IInv, TypeOK
    <3>2. ud[c] \notin {"none", "live", "finalized", "freed"}
      BY <1>1, <2>1, <2>5 DEF ReferenceInv, CursorMade, Closing, ReleasedFirst, Gone
    <3> QED  BY <2>1, <2>7, <3>1, <3>2 DEF UdState
  <2>9. age[k] < age[c] /\ age[c] \in Nat /\ age[k] \in Nat
    BY <1>1, <2>1 DEF Younger, IInv, TypeOK
  <2> QED  BY <2>1, <2>7, <2>8, <2>9
<1>2. LifetimeInv /\ [Next]_vars =>
        [\A k \in Conns :
           ~Reentrant /\ ud'[k] = "finalized" /\ ~closed[k] /\ closed'[k]
             => \A c \in Cursors : Reading(c, k) => ~cursor[c].my_res]_vars
  BY <1>1
<1> QED  BY <1>2, LifetimeInvariance, PTL DEF Spec, CollectorSparesReader

=============================================================================
