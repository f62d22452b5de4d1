------------------------------ MODULE LuaMysql ------------------------------
(***************************************************************************)
(* lua_mysql.c: the Connection and Cursor userdata a Lua script works      *)
(* with, inside the Lua state that owns them: the references in the        *)
(* registry, the collector that finalizes userdata in the middle of other  *)
(* calls, and lua_close.                                                   *)
(*                                                                         *)
(* A call that allocates Lua memory while it holds C pointers is split     *)
(* there: it leaves a frame and goes on in a later step, and collector     *)
(* steps, and the finalizers they run, happen in between. frame[1] is the  *)
(* call the script made, frame[2] a call made by a function of the script  *)
(* that runs inside it: a finalizer, or the __index of an argument.        *)
(***************************************************************************)
EXTENDS LuaRef, LibMysql

CONSTANTS
  Cursors,          \* the Cursor userdata there may be, each made once
  MainThread, Globals,      \* the first values of the registry
  Reentrant,        \* whether __gc and __index functions of the script, run
                    \* inside a call of the binding, call the binding
  ReconnectValues,  \* the values the script gives to set_reconnect
  AllocThrows,      \* whether allocating Lua memory may throw: there is none,
                    \* or a finalizer the collector runs raises an error
  MultiResults      \* whether a statement may have more than one result

ASSUME ObjectsDistinct ==
  /\ Conns \cap Cursors = {}
  /\ NULL \notin Conns \cup Cursors
  /\ {MainThread, Globals} \cap Conns = {}

ASSUME ConstantTypes ==
  /\ Reentrant \in BOOLEAN /\ AllocThrows \in BOOLEAN
  /\ MultiResults \in BOOLEAN /\ ReconnectValues \subseteq BOOLEAN
  /\ MaxRows \in Nat

(* What the registry holds is never a number: numbers are free-list links. *)
ASSUME NoNumbers ==
  (Conns \cup {MainThread, Globals}) \cap Nat = {}

VARIABLES
  stage,     \* "running", "closing" (inside lua_close), "closed"
  ud,        \* how far the collector is with each userdata
  age,       \* its place in the list of objects to finalize; clock: the next
  clock,
  held,      \* the userdata the script can reach
  registry,  \* LUA_REGISTRYINDEX, see LuaRef
  closed,    \* Connection.closed
  mysql,     \* Connection.my_conn
  cursor,    \* the Cursor structures
  res,       \* res[c]: the MYSQL_RES made for cursor c
  got,       \* the rows the script got from cursor c, in order
  frame,     \* the calls in progress
  ret,       \* what the last step returned to the script, if anything
  fault      \* the undefined behaviour the program ran into, "none" if none

heap == <<ud, age, clock>>
lib  == <<closed, mysql, cursor, res>>
vars == <<stage, heap, held, registry, lib, got, frame, ret, fault>>

Objects == Conns \cup Cursors

(* "live": it has its metatable and waits in finobj; "tobefnz": found      *)
(* unreachable; "closing": moved to tobefnz by lua_close; "finalized": its *)
(* __gc ran; "freed": its memory is gone.                                  *)
UdState == {"none", "live", "tobefnz", "closing", "finalized", "freed"}

(* my_res: whether the field is not NULL; it then points to res[c].        *)
(* fields: likewise.                                                       *)
Cursor == [conn: {LUA_NOREF} \cup Nat, fetch_all: BOOLEAN,
           my_res: BOOLEAN, fields: BOOLEAN]
NoCursor == [conn |-> LUA_NOREF, fetch_all |-> FALSE,
             my_res |-> FALSE, fields |-> FALSE]

(* A converted row: which row, and by which row's column lengths.          *)
Row == [row: 1..MaxRows, len: 0..MaxRows]

Levels == 1..2
(* op: the call in progress ("connect", "fetch_opt" and "fetch_all_opt"    *)
(* are still converting arguments); conn, cur: the userdata on its stack   *)
(* (for "execute", cur is the cursor it is about to make); row: its        *)
(* MYSQL_ROW; tbl: the table it has filled so far.                         *)
Frame == [op: {"none", "connect", "execute", "fetch_opt", "fetch_all_opt",
               "fetch", "fetch_all"},
          conn: Conns \cup {NULL}, cur: Cursors \cup {NULL},
          row: 0..MaxRows, tbl: Seq(Row)]
NoFrame == [op |-> "none", conn |-> NULL, cur |-> NULL, row |-> 0, tbl |-> <<>>]

(* The answers the script can tell apart: a count of affected rows, a new  *)
(* cursor, one row, all rows, no value from fetch ("end"), no value from   *)
(* execute ("nothing"), an error. "none": not an answer, or no news.       *)
Answer == [val: {"none", "affected", "cursor", "row", "rows", "end",
                 "nothing", "error"},
           on: Conns \cup Cursors \cup {NULL}]
Return(val, o) == ret' = [val |-> val, on |-> o]
Silent == [val |-> "none", on |-> NULL]
Quiet == ret' = Silent
Throw == Return("error", NULL)

TypeOK ==
  /\ stage \in {"running", "closing", "closed"}
  /\ ud \in [Objects -> UdState]
  /\ age \in [Objects -> Nat] /\ clock \in Nat
  /\ held \subseteq Objects
  /\ registry \in [free: Nat,
                   slot: Seq(Conns \cup {MainThread, Globals} \cup Nat)]
  /\ closed \in [Conns -> BOOLEAN]
  /\ mysql \in [Conns -> MYSQL]
  /\ cursor \in [Cursors -> Cursor]
  /\ res \in [Cursors -> MYSQL_RES]
  /\ got \in [Cursors -> Seq(Row)]
  /\ frame \in [Levels -> Frame]
  /\ ret \in Answer
  /\ fault \in {"none", "null_methods", "null_result", "stale_row"}

Init ==
  /\ stage = "running"
  /\ ud = [o \in Objects |-> "none"]
  /\ age = [o \in Objects |-> 0] /\ clock = 1
  /\ held = {}
  /\ registry = init_registry(MainThread, Globals)
  /\ closed = [k \in Conns |-> FALSE]
  /\ mysql = [k \in Conns |-> mysql_init]
  /\ cursor = [c \in Cursors |-> NoCursor]
  /\ res = [c \in Cursors |-> NoResult]
  /\ got = [c \in Cursors |-> <<>>]
  /\ frame = [l \in Levels |-> NoFrame]
  /\ ret = Silent
  /\ fault = "none"

-----------------------------------------------------------------------------
(* Who runs *)

Idle(l) == frame[l].op = "none"

(* Lua code may call the binding: at level 1 the script or, inside         *)
(* lua_close, its finalizers; at level 2 a finalizer, run by a collector   *)
(* step inside the call at level 1, or an __index function that call runs. *)
(* Finalizers do not interrupt each other (GCTM clears gcrunning).         *)
Callable(l) ==
  /\ fault = "none"
  /\ Idle(2)
  /\ \/ l = 1 /\ Idle(1) /\ stage = "running"
     \/ l = 1 /\ Idle(1) /\ stage = "closing" /\ Reentrant
     \/ l = 2 /\ ~Idle(1) /\ stage = "running" /\ Reentrant

(* The call at level l goes on.                                            *)
Resumable(l) ==
  /\ fault = "none"
  /\ ~Idle(l)
  /\ l = 1 => Idle(2)

Enter(l, f) == frame' = [frame EXCEPT ![l] = f]
Leave(l) == frame' = [frame EXCEPT ![l] = NoFrame]

(* lua_setmetatable puts a userdata in the list of objects to finalize,    *)
(* and the script gets it.                                                 *)
lua_setmetatable(o) ==
  /\ ud' = [ud EXCEPT ![o] = "live"]
  /\ age' = [age EXCEPT ![o] = clock]
  /\ clock' = clock + 1
  /\ held' = held \cup {o}

(* An argument is not what the function takes (the connection is closed,   *)
(* for one), or the library call it makes fails; nothing else changed.     *)
Rejected ==
  /\ Throw
  /\ UNCHANGED <<stage, heap, held, registry, lib, got, frame, fault>>

(* The userdata of a call was checked, and functions of the script run     *)
(* while it converts its other arguments: converting a number to a string  *)
(* allocates, and a table may have an __index function.                    *)
ConvertArguments(l, f) ==
  /\ Reentrant /\ l = 1
  /\ Enter(l, f)
  /\ Quiet
  /\ UNCHANGED <<stage, heap, held, registry, lib, got, fault>>

-----------------------------------------------------------------------------
(* Connection *)

conn_create(l) ==
  /\ Callable(l)
  /\ \E k \in Conns :
       /\ ud[k] = "none"
       /\ \/ /\ lua_setmetatable(k)
             /\ closed' = [closed EXCEPT ![k] = FALSE]
             /\ mysql' = [mysql EXCEPT ![k] = mysql_init]
             /\ Quiet
             /\ UNCHANGED <<stage, registry, cursor, res, got, frame, fault>>
          \/ Rejected

(* Mutant of close_conn: the session ends, closed is not set.              *)
Mutant_close_conn(k) ==
  IF closed[k] THEN UNCHANGED <<closed, mysql>>
  ELSE /\ mysql' = [mysql EXCEPT ![k] = mysql_close(@)]
       /\ UNCHANGED closed

close_conn(k) ==
  IF closed[k] THEN UNCHANGED <<closed, mysql>>
  ELSE /\ mysql' = [mysql EXCEPT ![k] = mysql_close(@)]
       /\ closed' = [closed EXCEPT ![k] = TRUE]

conn_close(l, k) ==
  /\ Callable(l) /\ k \in held
  /\ close_conn(k)
  /\ Quiet
  /\ UNCHANGED <<stage, heap, held, registry, cursor, res, got, frame, fault>>

(* Mutant of conn_connect: it ends the session there is and starts anew.   *)
Mutant_conn_connect(l, k) ==
  /\ Callable(l) /\ k \in held /\ ~closed[k]
  /\ \E a \in mysql_real_connect(mysql_close(mysql[k])) :
       mysql' = [mysql EXCEPT ![k] = a.m]
  /\ Quiet
  /\ UNCHANGED <<stage, heap, held, registry, closed, cursor, res, got,
                 frame, fault>>

real_connect(k) ==
  /\ \E a \in mysql_real_connect(mysql[k]) :
       /\ mysql' = [mysql EXCEPT ![k] = a.m]
       /\ IF a.ok THEN Quiet ELSE Throw
  /\ UNCHANGED <<stage, heap, held, registry, closed, cursor, res, got, fault>>

(* Its arguments are the fields of a table, three of them strings.         *)
conn_connect(l, k) ==
  /\ Callable(l) /\ k \in held
  /\ \/ Rejected
     \/ /\ ~closed[k]
        /\ ConvertArguments(l, [NoFrame EXCEPT !.op = "connect", !.conn = k])
     \/ ~closed[k] /\ real_connect(k) /\ UNCHANGED frame

(* closed is not looked at again.                                          *)
connect_converted(l) ==
  /\ Resumable(l) /\ frame[l].op = "connect"
  /\ real_connect(frame[l].conn)
  /\ Leave(l)

(* The other options are in force from the next connect on; this one is    *)
(* read by every command.                                                  *)
conn_set_reconnect(l, k) ==
  /\ Callable(l) /\ k \in held
  /\ \/ Rejected
     \/ /\ ~closed[k]
        /\ \E v \in ReconnectValues :
             mysql' = [mysql EXCEPT ![k].reconnect = v]
        /\ Quiet
        /\ UNCHANGED <<stage, heap, held, registry, closed, cursor, res, got,
                       frame, fault>>

(* The library is called through a table of functions that is not there.   *)
NullMethods ==
  /\ fault' = "null_methods"
  /\ Quiet
  /\ UNCHANGED <<stage, heap, held, registry, lib, got, frame>>

command(k) ==
  /\ \E a \in simple_command(mysql[k]) :
       /\ mysql' = [mysql EXCEPT ![k] = a.m]
       /\ IF a.ok THEN Quiet ELSE Throw
  /\ UNCHANGED <<stage, heap, held, registry, closed, cursor, res, got,
                 frame, fault>>

conn_ping(l, k) ==
  /\ Callable(l) /\ k \in held
  /\ \/ (closed[k] \/ ~mysql[k].methods) /\ Rejected
     \/ ~closed[k] /\ mysql[k].methods /\ command(k)

(* conn_commit and conn_rollback: here, and to the library, the same but   *)
(* for the statement sent.                                                 *)
conn_commit_rollback(l, k) ==
  /\ Callable(l) /\ k \in held
  /\ \/ closed[k] /\ Rejected
     \/ ~closed[k] /\ ~mysql[k].methods /\ NullMethods
     \/ ~closed[k] /\ mysql[k].methods /\ command(k)

-----------------------------------------------------------------------------
(* conn:execute *)

Statement(k) == mysql_real_query(mysql[k], IF MultiResults THEN BOOLEAN ELSE {FALSE})

ReadResult(m, all) ==
  IF all THEN mysql_store_result(m) ELSE mysql_use_result(m, AllocThrows)

(* From the query to create_cursor, which allocates the userdata.          *)
SendQuery(l, k) ==
  \E q \in Statement(k) :
    \/ /\ ~q.cols
       /\ mysql' = [mysql EXCEPT ![k] = q.m]
       /\ IF q.ok THEN Return("affected", k) ELSE Throw
       /\ UNCHANGED <<stage, heap, held, registry, closed, cursor, res, got,
                      frame, fault>>
    \/ /\ q.cols
       /\ \E all \in BOOLEAN, c \in Cursors : \E r \in ReadResult(q.m, all) :
            /\ res[c].state = "none"
            /\ mysql' = [mysql EXCEPT ![k] = r.m]
            /\ IF r.ok
               THEN /\ \E n \in 0..MaxRows :
                         res' = [res EXCEPT ![c] = new_result(k, n, all)]
                    /\ Enter(l, [NoFrame EXCEPT !.op = "execute", !.conn = k,
                                                !.cur = c])
                    /\ Quiet
               ELSE /\ Return("nothing", k)
                    /\ UNCHANGED <<res, frame>>
       /\ UNCHANGED <<stage, heap, held, registry, closed, cursor, got, fault>>

(* The statement has to be a string.                                       *)
conn_execute(l, k) ==
  /\ Callable(l) /\ k \in held
  /\ \/ Rejected
     \/ ~closed[k] /\ ~mysql[k].methods /\ NullMethods
     \/ ~closed[k] /\ mysql[k].methods /\ SendQuery(l, k)

(* What the new cursor refers to: the connection, argument 1 of the call.  *)
(* The mutant's stack index is that of the new userdata.                   *)
Mutant_Referenced(f) == f.cur
Referenced(f) == f.conn

create_cursor(l) ==
  LET c == frame[l].cur
  IN  /\ Resumable(l) /\ frame[l].op = "execute"
      /\ registry' = luaL_ref(registry, Referenced(frame[l]))
      /\ lua_setmetatable(c)
      /\ cursor' = [cursor EXCEPT ![c] =
                      [conn |-> NextRef(registry), fetch_all |-> res[c].stored,
                       my_res |-> TRUE, fields |-> FALSE]]
      /\ Leave(l)
      /\ Return("cursor", c)
      /\ UNCHANGED <<stage, closed, mysql, res, got, fault>>

(* lua_newuserdata or luaL_ref throws: nobody knows the result any more.   *)
create_cursor_throws(l) ==
  /\ AllocThrows
  /\ Resumable(l) /\ frame[l].op = "execute"
  /\ Leave(l)
  /\ Throw
  /\ UNCHANGED <<stage, heap, held, registry, lib, got, fault>>

-----------------------------------------------------------------------------
(* Cursor *)

(* Mutants: conn becomes LUA_REFNIL; conn, or my_res, is not reset.        *)
MutantRefNil_Nullified(cur) == [NoCursor EXCEPT !.fetch_all = cur.fetch_all, !.conn = -1]
MutantConn_Nullified(cur) == [NoCursor EXCEPT !.fetch_all = cur.fetch_all, !.conn = cur.conn]
MutantRes_Nullified(cur) == [cur EXCEPT !.conn = LUA_NOREF]

(* fields is only reset with my_res.                                       *)
Nullified(cur) ==
  [cur EXCEPT !.my_res = FALSE, !.fields = cur.fields /\ ~cur.my_res, !.conn = LUA_NOREF]

(* The mutant keeps the reference.                                         *)
Mutant_Unreferenced(t, cur) == t
Unreferenced(t, cur) == IF cur.conn # LUA_NOREF THEN luaL_unref(t, cur.conn) ELSE t

(* r, my: the cursor's result and the connections as the caller leaves     *)
(* them.                                                                   *)
nullify(c, r, my) ==
  /\ cursor' = [cursor EXCEPT ![c] = Nullified(@)]
  /\ registry' = Unreferenced(registry, cursor[c])
  /\ IF cursor[c].my_res
     THEN \E f \in mysql_free_result(r, my) :
            res' = [res EXCEPT ![c] = f.r] /\ mysql' = f.my
     ELSE UNCHANGED <<res, mysql>>

cursor_nullify(c) == nullify(c, res[c], mysql)

(* Scripts reach it as cur:__gc(), since the metatable is its own __index. *)
cursor_gc(l, c) ==
  /\ Callable(l) /\ c \in held
  /\ cursor_nullify(c)
  /\ Quiet
  /\ UNCHANGED <<stage, heap, held, closed, got, frame, fault>>

(* The mutant asks for the lengths once, as for the fields.                *)
Mutant_WithLengths(c, r) == IF cursor[c].fields THEN r ELSE mysql_fetch_lengths(r)
WithLengths(c, r) == mysql_fetch_lengths(r)

(* From mysql_fetch_row to result_to_table, which allocates.               *)
FetchRow(l, c) ==
  /\ cursor[c].my_res
  /\ \E f \in mysql_fetch_row(res[c], mysql) :
       /\ mysql' = f.my
       /\ IF f.row = 0
          THEN /\ res' = [res EXCEPT ![c] = f.r]
               /\ Leave(l)
               /\ Return("end", c)
               /\ UNCHANGED cursor
          ELSE /\ res' = [res EXCEPT ![c] = WithLengths(c, f.r)]
               /\ cursor' = [cursor EXCEPT ![c].fields = TRUE]
               /\ Enter(l, [NoFrame EXCEPT !.op = "fetch", !.cur = c,
                                           !.row = f.row])
               /\ Quiet
  /\ UNCHANGED <<stage, heap, held, registry, closed, got, fault>>

cursor_fetch(l, c) ==
  /\ Callable(l) /\ c \in held
  /\ \/ ~cursor[c].my_res /\ Rejected
     \/ /\ cursor[c].my_res
        /\ ConvertArguments(l, [NoFrame EXCEPT !.op = "fetch_opt", !.cur = c])
     \/ FetchRow(l, c)

(* What result_to_table reads is there: the column types, and the bytes of *)
(* the row, which a result in memory keeps until it is freed and a result  *)
(* on the socket until the connection is read again or closed.             *)
RowReadable(f) ==
  LET r == res[f.cur]
  IN  /\ cursor[f.cur].fields
      /\ r.state = "live"
      /\ r.stored \/ /\ r.cur = f.row
                     /\ r.handle # NULL /\ mysql[r.handle].status = "use_result"

Converted(f) == [row |-> f.row, len |-> res[f.cur].lens]

StaleRow ==
  /\ fault' = "stale_row"
  /\ Quiet
  /\ UNCHANGED <<stage, heap, held, registry, lib, got, frame>>

fetch_row_to_table(l) ==
  LET f == frame[l]
  IN  /\ Resumable(l) /\ f.op = "fetch"
      /\ \/ ~RowReadable(f) /\ StaleRow
         \/ /\ RowReadable(f)
            /\ got' = [got EXCEPT ![f.cur] = Append(@, Converted(f))]
            /\ Leave(l)
            /\ Return("row", f.cur)
            /\ UNCHANGED <<stage, heap, held, registry, lib, fault>>

(* The first row of fetch_all, and the only call of mysql_fetch_lengths.   *)
FetchFirstRow(l, c) ==
  /\ cursor[c].my_res
  /\ \E f \in mysql_fetch_row(res[c], mysql) :
       IF f.row = 0
       THEN /\ nullify(c, f.r, f.my)
            /\ Leave(l)
            /\ Return("end", c)
       ELSE /\ res' = [res EXCEPT ![c] = mysql_fetch_lengths(f.r)]
            /\ mysql' = f.my
            /\ cursor' = [cursor EXCEPT ![c].fields = TRUE]
            /\ Enter(l, [NoFrame EXCEPT !.op = "fetch_all", !.cur = c,
                                        !.row = f.row])
            /\ Quiet
            /\ UNCHANGED registry
  /\ UNCHANGED <<stage, heap, held, closed, got, fault>>

cursor_fetch_all(l, c) ==
  /\ Callable(l) /\ c \in held
  /\ \/ (~cursor[c].my_res \/ ~cursor[c].fetch_all) /\ Rejected
     \/ /\ cursor[c].my_res /\ cursor[c].fetch_all
        /\ \/ ConvertArguments(l, [NoFrame EXCEPT !.op = "fetch_all_opt", !.cur = c])
           \/ FetchFirstRow(l, c)

(* The library is given the NULL of a cursor that was nullified meanwhile. *)
NullResult(c) ==
  /\ ~cursor[c].my_res
  /\ fault' = "null_result"
  /\ Quiet
  /\ UNCHANGED <<stage, heap, held, registry, lib, got, frame>>

(* my_res is read, but not checked, again.                                 *)
option_converted(l) ==
  LET c == frame[l].cur
  IN  /\ Resumable(l)
      /\ \/ frame[l].op \in {"fetch_opt", "fetch_all_opt"} /\ NullResult(c)
         \/ frame[l].op = "fetch_opt" /\ FetchRow(l, c)
         \/ frame[l].op = "fetch_all_opt" /\ FetchFirstRow(l, c)

(* The table with the row added at rownum++. Mutants: rownum stays 1; it   *)
(* is added twice.                                                         *)
MutantIndex_Filled(f) == <<Converted(f)>>
MutantTwice_Filled(f) == f.tbl \o <<Converted(f), Converted(f)>>
Filled(f) == Append(f.tbl, Converted(f))

(* One turn of its loop; after the last one the cursor is nullified.       *)
fetch_all_row_to_table(l) ==
  LET f == frame[l]
      c == f.cur
  IN  /\ Resumable(l) /\ f.op = "fetch_all"
      /\ \/ ~RowReadable(f) /\ StaleRow
         \/ /\ RowReadable(f)
            /\ \E g \in mysql_fetch_row(res[c], mysql) :
                 IF g.row # 0
                 THEN /\ Enter(l, [f EXCEPT !.row = g.row, !.tbl = Filled(f)])
                      /\ res' = [res EXCEPT ![c] = g.r]
                      /\ mysql' = g.my
                      /\ Quiet
                      /\ UNCHANGED <<cursor, registry, got>>
                 ELSE /\ nullify(c, g.r, g.my)
                      /\ got' = [got EXCEPT ![c] = @ \o Filled(f)]
                      /\ Leave(l)
                      /\ Return("rows", c)
            /\ UNCHANGED <<stage, heap, held, closed, fault>>

(* Converting an argument, lua_createtable, lua_pushlstring or             *)
(* luaL_checkstack throws: the rows already fetched are lost. connect also *)
(* throws when a field it comes to is not a string.                        *)
call_throws(l) ==
  /\ AllocThrows \/ frame[l].op = "connect"
  /\ Resumable(l) /\ frame[l].op # "execute"
  /\ Leave(l)
  /\ Throw
  /\ UNCHANGED <<stage, heap, held, registry, lib, got, fault>>

-----------------------------------------------------------------------------
(* The Lua state *)

(* The script forgets a userdata, or has it only on the stack of the call  *)
(* in progress.                                                            *)
Drop(o) ==
  /\ fault = "none" /\ stage = "running" /\ o \in held
  /\ held' = held \ {o}
  /\ Quiet
  /\ UNCHANGED <<stage, heap, registry, lib, got, frame, fault>>

Reachable(o) ==
  \/ o \in held
  \/ \E l \in Levels : ~Idle(l) /\ o \in {frame[l].conn, frame[l].cur}
  \/ \E s \in UsedSlots(registry) : registry.slot[s] = o

(* The end of a mark phase: an unreachable userdata is to be finalized,    *)
(* or, when it already was, freed.                                         *)
separatetobefnz(o) ==
  /\ fault = "none" /\ stage = "running" /\ Idle(2)
  /\ ud[o] = "live" /\ ~Reachable(o)
  /\ ud' = [ud EXCEPT ![o] = "tobefnz"]
  /\ Quiet
  /\ UNCHANGED <<stage, age, clock, held, registry, lib, got, frame, fault>>

sweep(o) ==
  /\ fault = "none" /\ stage = "running" /\ Idle(2)
  /\ ud[o] = "finalized" /\ ~Reachable(o)
  /\ ud' = [ud EXCEPT ![o] = "freed"]
  /\ Quiet
  /\ UNCHANGED <<stage, age, clock, held, registry, lib, got, frame, fault>>

(* An object of the script that is finalized in the same cycle gives the   *)
(* userdata back.                                                          *)
Resurrect(o) ==
  /\ Reentrant
  /\ fault = "none" /\ Idle(2)
  /\ ud[o] \in {"tobefnz", "closing", "finalized"} /\ o \notin held
  /\ held' = held \cup {o}
  /\ Quiet
  /\ UNCHANGED <<stage, heap, registry, lib, got, frame, fault>>

(* A finalizer may run now: between calls, or inside one at a point where  *)
(* it allocates, but not inside another finalizer.                         *)
FinalizersRun == fault = "none" /\ Idle(2) /\ (stage = "closing" => Idle(1))

(* Mutant of NextToFinalize: older objects first.                          *)
Mutant_NextToFinalize(o) ==
  \/ ud[o] = "tobefnz"
  \/ /\ ud[o] = "closing"
     /\ \A p \in Objects : /\ ud[p] # "tobefnz"
                           /\ ud[p] = "closing" => age[p] >= age[o]

(* lua_close runs what a cycle left over first, then the most recently     *)
(* marked objects before older ones.                                       *)
NextToFinalize(o) ==
  \/ ud[o] = "tobefnz"
  \/ /\ ud[o] = "closing"
     /\ \A p \in Objects : /\ ud[p] # "tobefnz"
                           /\ ud[p] = "closing" => age[p] <= age[o]

GCTM_cursor(c) ==
  /\ FinalizersRun /\ NextToFinalize(c)
  /\ ud' = [ud EXCEPT ![c] = "finalized"]
  /\ cursor_nullify(c)
  /\ Quiet
  /\ UNCHANGED <<stage, age, clock, held, closed, got, frame, fault>>

(* Mutant of GCTM_conn: the object stays in the list it was taken from.    *)
Mutant_GCTM_conn(k) ==
  /\ FinalizersRun /\ NextToFinalize(k)
  /\ close_conn(k)
  /\ Quiet
  /\ UNCHANGED <<stage, heap, held, registry, cursor, res, got, frame, fault>>

GCTM_conn(k) ==
  /\ FinalizersRun /\ NextToFinalize(k)
  /\ ud' = [ud EXCEPT ![k] = "finalized"]
  /\ close_conn(k)
  /\ Quiet
  /\ UNCHANGED <<stage, age, clock, held, registry, cursor, res, got, frame, fault>>

lua_close ==
  /\ fault = "none" /\ stage = "running" /\ \A l \in Levels : Idle(l)
  /\ stage' = "closing"
  /\ ud' = [o \in Objects |-> IF ud[o] = "live" THEN "closing" ELSE ud[o]]
  /\ Quiet
  /\ UNCHANGED <<age, clock, held, registry, lib, got, frame, fault>>

(* No finalizer is pending: all memory of the state goes.                  *)
freeallobjects ==
  /\ fault = "none" /\ stage = "closing" /\ \A l \in Levels : Idle(l)
  /\ \A o \in Objects : ud[o] \notin {"tobefnz", "closing"}
  /\ stage' = "closed"
  /\ ud' = [o \in Objects |-> IF ud[o] = "none" THEN "none" ELSE "freed"]
  /\ held' = {}
  /\ Quiet
  /\ UNCHANGED <<age, clock, registry, lib, got, frame, fault>>

(* The state is closed, or the program is lost.                            *)
Over ==
  /\ stage = "closed" \/ fault # "none"
  /\ UNCHANGED vars

-----------------------------------------------------------------------------

ConnCall(l, k) ==
  \/ conn_close(l, k) \/ conn_connect(l, k) \/ conn_set_reconnect(l, k)
  \/ conn_ping(l, k) \/ conn_commit_rollback(l, k) \/ conn_execute(l, k)

CursorCall(l, c) ==
  cursor_gc(l, c) \/ cursor_fetch(l, c) \/ cursor_fetch_all(l, c)

Resume(l) ==
  \/ connect_converted(l) \/ create_cursor(l) \/ create_cursor_throws(l)
  \/ option_converted(l) \/ fetch_row_to_table(l) \/ fetch_all_row_to_table(l)
  \/ call_throws(l)

Script ==
  \E l \in Levels :
    \/ conn_create(l)
    \/ \E k \in Conns : ConnCall(l, k)
    \/ \E c \in Cursors : CursorCall(l, c)
    \/ Resume(l)

Collector ==
  \/ \E o \in Objects : Drop(o) \/ separatetobefnz(o) \/ sweep(o) \/ Resurrect(o)
  \/ \E c \in Cursors : GCTM_cursor(c)
  \/ \E k \in Conns : GCTM_conn(k)

Next == Script \/ Collector \/ lua_close \/ freeallobjects \/ Over

Spec == Init /\ [][Next]_vars

-----------------------------------------------------------------------------
(* Properties *)

(* c's result is still read from the socket of k.                          *)
Reading(c, k) == res[c].state = "live" /\ res[c].handle = k

Refs == {cursor[c].conn : c \in Cursors} \ {LUA_NOREF}

(* The registry: its free list is sound, the slots in use are Lua's own    *)
(* two and one for each reference a cursor holds, and no two cursors hold  *)
(* the same one. So a reference is given back once (cursor_nullify, from   *)
(* fetch_all, from cur:__gc() and from the collector), and none leaks.     *)
RegistrySound ==
  /\ FreeListSound(registry)
  /\ UsedSlots(registry) = {1, 2} \cup Refs /\ {1, 2} \cap Refs = {}
  /\ \A c, d \in Cursors : cursor[c].conn = cursor[d].conn
                             => c = d \/ cursor[c].conn = LUA_NOREF

(* Results: a cursor with a result has one that was not freed, and holds a *)
(* reference exactly as long; a result without a cursor is on its way to   *)
(* one, unless create_cursor was cut off by a memory error.                *)
ResultOwned ==
  \A c \in Cursors :
    /\ cursor[c].my_res => res[c].state = "live"
    /\ cursor[c].my_res <=> cursor[c].conn # LUA_NOREF
    /\ res[c].state = "live" =>
         \/ cursor[c].my_res
         \/ AllocThrows
         \/ \E l \in Levels : frame[l].op = "execute" /\ frame[l].cur = c

(* MYSQL_RES.handle points into the memory of a Connection userdata: while *)
(* a cursor can still read or free such a result, its own reference is to  *)
(* that connection, which is not freed and, without finalizers of the      *)
(* script, not even on its way to it.                                      *)
ConnOutlivesReader ==
  \A c \in Cursors, k \in Conns :
    Reading(c, k) /\ cursor[c].my_res /\ ud[c] # "freed" =>
      /\ registry.slot[cursor[c].conn] = k
      /\ ud[k] \notin {"none", "freed"}
      /\ stage = "running" /\ ~Reentrant => ud[k] = "live"

(* A connection that is not closed is busy with an unbuffered result       *)
(* exactly while one such result is unread and unfreed, and never with     *)
(* two: neither a lost session, a reconnection, nor the release of another *)
(* cursor makes one result take the rows of another.                       *)
BusyIffReader ==
  \A k \in Conns : ~closed[k] =>
    /\ mysql[k].status = "use_result" <=> \E c \in Cursors : Reading(c, k)
    /\ \A c, d \in Cursors : Reading(c, k) /\ Reading(d, k) => c = d

(* An unbuffered read ends only by a call on its own cursor, by the        *)
(* cursor's finalizer, or by closing the connection: statements, commits,  *)
(* pings and connects on the connection leave it alone.                    *)
ReaderUndisturbed ==
  [][\A c \in Cursors, k \in Conns :
       Reading(c, k) /\ mysql[k].status = "use_result" =>
         \/ /\ Reading(c, k)' /\ mysql'[k].status = "use_result"
            /\ mysql'[k].session = mysql[k].session
         \/ ~Reading(c, k)'
         \/ closed'[k] /\ ~closed[k]]_vars

(* The collector, lua_close included, closes no connection an owned result *)
(* is being read from; only the script does. (Finalizers of the script can *)
(* start a read between the collector's decision and its step.)            *)
CollectorSparesReader ==
  [][\A k \in Conns :
       ~Reentrant /\ ud'[k] = "finalized" /\ ~closed[k] /\ closed'[k]
         => \A c \in Cursors : Reading(c, k) => ~cursor[c].my_res]_vars

(* What result_to_table reads stays there although the collector runs in   *)
(* every allocation it makes (unless a finalizer of the script uses the    *)
(* same connection or cursor meanwhile).                                   *)
NoStaleRow == ~Reentrant => fault # "stale_row"

(* Memory of a userdata goes only after its resources: the cursor's result *)
(* and reference, the connection's session. After lua_close nothing is     *)
(* left, but for results a memory error orphaned.                          *)
NothingLeaks ==
  ~Reentrant =>
    /\ \A c \in Cursors : ud[c] = "freed" => ~cursor[c].my_res
    /\ \A k \in Conns : ud[k] = "freed" => closed[k]
    /\ \A k \in Conns : closed[k] => mysql[k].session = "none"
    /\ stage = "closed" =>
         /\ \A c \in Cursors : res[c].state = "live" => AllocThrows
         /\ UsedSlots(registry) = {1, 2}

(* fetch and fetch_all give no row twice. Without finalizers of the script *)
(* they give the rows in the server's order, and without memory errors     *)
(* either they skip none. (A finalizer that fetches inside a fetch is      *)
(* given the later row first.)                                             *)
RowsInOrder ==
  \A c \in Cursors : \A i \in DOMAIN got[c] :
    /\ \A j \in 1..(i - 1) :
         /\ got[c][j].row # got[c][i].row
         /\ Reentrant \/ got[c][j].row < got[c][i].row
    /\ Reentrant \/ AllocThrows \/ (got[c][i].row = i)

(* When fetch says there are no more rows, or fetch_all returns, the       *)
(* script has every row of a stored result, whatever happened to the       *)
(* connection since execute.                                               *)
StoredResultComplete ==
  [][\A c \in Cursors :
       res[c].stored /\ ret'.on = c /\ ret'.val \in {"end", "rows"}
         => Len(got'[c]) = res[c].rows]_vars

(* fetch converts each row by that row's own column lengths (the cursor is *)
(* still open only if all rows so far came from fetch). With Reentrant it  *)
(* does not: a finalizer of the script that fetches from the same cursor   *)
(* inside a fetch leaves it the lengths of another row.                    *)
FetchOwnLengths ==
  \A c \in Cursors : cursor[c].my_res =>
    \A i \in DOMAIN got[c] : got[c][i].len = got[c][i].row

(* mysql.h:292 says of MYSQL_RES.lengths: "column lengths of current row". *)
(* Every row, then, is to be converted by its own lengths.                 *)
OwnLengths ==
  \A c \in Cursors : \A i \in DOMAIN got[c] : got[c][i].len = got[c][i].row

(* The comment in cursor_fetch on returning nothing: "no more results".    *)
NothingMeansNoMore ==
  \A c \in Cursors : ret.val = "end" /\ ret.on = c /\ res[c].state = "live"
                       => res[c].pos = res[c].rows

(* API.md on execute: "return a `Cursor` object when succeeded" (a count   *)
(* for a statement without columns); a failure is an error.                *)
ExecuteAnswers == ret.val # "nothing"

-----------------------------------------------------------------------------
(* Fairness: a C call goes on after it allocated, and the collector gets   *)
(* to run, as it does while the script allocates and has not stopped it.   *)

Fairness ==
  /\ WF_vars(\E l \in Levels : Resume(l))
  /\ \A o \in Objects : WF_vars(separatetobefnz(o))
  /\ \A c \in Cursors : WF_vars(GCTM_cursor(c))
  /\ \A k \in Conns : WF_vars(GCTM_conn(k))
  /\ WF_vars(freeallobjects)

FairSpec == Spec /\ Fairness

Lost == fault # "none"

(* A script that forgets a cursor without reading it to its end gets the   *)
(* result freed, and with it a connection that takes commands again.       *)
ForgottenCursorReleases ==
  \A c \in Cursors : (cursor[c].my_res /\ c \notin held)
                       ~> (~cursor[c].my_res \/ Lost)

(* Nothing the script holds leads to k.                                    *)
Forgotten(k) ==
  /\ ud[k] = "live" /\ k \notin held
  /\ \A l \in Levels : frame[l].conn # k
  /\ \A c \in held \cap Cursors :
       cursor[c].conn # LUA_NOREF => registry.slot[cursor[c].conn] # k

(* A forgotten connection is closed, although its forgotten cursors refer  *)
(* to it from the registry and have to be finalized first.                 *)
ForgottenConnCloses ==
  \A k \in Conns : Forgotten(k) ~> (closed[k] \/ Lost)

(* lua_close comes to its end, finalizers and all.                         *)
CloseEnds == stage = "closing" ~> (stage = "closed" \/ Lost)

=============================================================================
