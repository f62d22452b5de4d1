------------------------------ MODULE LibMysql ------------------------------
(***************************************************************************)
(* The MySQL C client library, which is not part of the repository: its    *)
(* headers (dep/libmysql) are, and lua_mysql.c calls it. Each operator     *)
(* stands for the call of that name and gives the set of its possible      *)
(* outcomes; what the binding and the Lua collector can tell apart is all  *)
(* that is kept.                                                           *)
(*                                                                         *)
(* A MYSQL structure (mysql.h:242):                                        *)
(*   session    "none": never connected; "up": there is a socket;          *)
(*              "lost": the socket is gone, the host is still known        *)
(*   methods    whether the table of protocol functions has been set, which *)
(*              mysql_real_connect does                                    *)
(*   status     mysql_status (mysql.h:215)                                 *)
(*   more       SERVER_MORE_RESULTS_EXISTS (mysql_com.h:222)               *)
(*   reconnect  automatic reconnection is enabled                          *)
(*                                                                         *)
(* A MYSQL_RES structure (mysql.h:287):                                    *)
(*   state      "none" before it is allocated, "live", "freed"             *)
(*   stored     made by mysql_store_result: all rows are in memory         *)
(*   handle     the MYSQL rows are still read from, NULL if there is none  *)
(*   rows, pos  how many rows the result has, how many were fetched        *)
(*   cur        the row whose bytes the last fetch left readable, 0: none  *)
(*   lens       the row the array of column lengths describes, 0: none     *)
(***************************************************************************)
EXTENDS Naturals

CONSTANTS Conns, MaxRows, NULL

MYSQL == [session: {"none", "up", "lost"}, methods: BOOLEAN,
          status: {"ready", "get_result", "use_result"},
          more: BOOLEAN, reconnect: BOOLEAN]

MYSQL_RES == [state: {"none", "live", "freed"}, stored: BOOLEAN,
              handle: Conns \cup {NULL},
              rows: 0..MaxRows, pos: 0..MaxRows,
              cur: 0..MaxRows, lens: 0..MaxRows]

NoResult == [state |-> "none", stored |-> FALSE, handle |-> NULL,
             rows |-> 0, pos |-> 0, cur |-> 0, lens |-> 0]

-----------------------------------------------------------------------------
(* Connecting and closing *)

mysql_init == [session |-> "none", methods |-> FALSE, status |-> "ready",
               more |-> FALSE, reconnect |-> FALSE]

(* On a connected structure: CR_ALREADY_CONNECTED. A failed attempt leaves *)
(* it without a socket, and without a host to reconnect to.                *)
mysql_real_connect(m) ==
  IF m.session = "up"
  THEN {[ok |-> FALSE, m |-> m]}
  ELSE {[ok |-> TRUE,  m |-> [m EXCEPT !.session = "up", !.methods = TRUE,
                                       !.status = "ready", !.more = FALSE]],
        [ok |-> FALSE, m |-> [m EXCEPT !.session = "none", !.methods = TRUE]]}

(* Quits the session; an unfinished result is forgotten, so the status     *)
(* goes back to ready.                                                     *)
mysql_close(m) == [m EXCEPT !.session = "none", !.status = "ready"]

-----------------------------------------------------------------------------
(* Commands *)

(* The structure a command starts from: itself while there is a socket, a  *)
(* new session if the socket is lost and reconnection is enabled.          *)
Reached(m) ==
  IF m.session = "up" THEN {m}
  ELSE IF m.session = "lost" /\ m.reconnect
       THEN {[m EXCEPT !.session = "up", !.status = "ready", !.more = FALSE]}
       ELSE {}

(* CR_COMMANDS_OUT_OF_SYNC unless the previous answer was read to its end. *)
InSync(m) == m.status = "ready" /\ ~m.more

Sent(m) == {s \in Reached(m) : InSync(s)}

(* A command fails before it is sent, with an error from the server, or    *)
(* because the socket breaks.                                              *)
FailedCommand(m) ==
  {m} \cup Reached(m) \cup {[s EXCEPT !.session = "lost"] : s \in Sent(m)}

(* COM_PING, and the COMMIT and ROLLBACK statements, which have no result. *)
simple_command(m) ==
  [ok: {FALSE}, m: FailedCommand(m)] \cup [ok: {TRUE}, m: Sent(m)]

Answered(s, cols, more) ==
  [s EXCEPT !.status = IF cols THEN "get_result" ELSE "ready", !.more = more]

(* cols: the statement has result columns (mysql_field_count() # 0), to be *)
(* read next. multi: the values SERVER_MORE_RESULTS_EXISTS may take.       *)
Refusals(m) == [ok: {FALSE}, cols: {FALSE}, m: FailedCommand(m)]
Answers(m, multi) ==
  {[ok |-> TRUE, cols |-> c, m |-> Answered(s, c, x)] :
     s \in Sent(m), c \in BOOLEAN, x \in multi}
mysql_real_query(m, multi) == Refusals(m) \cup Answers(m, multi)

-----------------------------------------------------------------------------
(* Results *)

(* Reads all rows, or fails on the way (out of memory, server gone).       *)
mysql_store_result(m) ==
  {[ok |-> TRUE,  m |-> [m EXCEPT !.status = "ready"]],
   [ok |-> FALSE, m |-> [m EXCEPT !.status = "ready"]],
   [ok |-> FALSE, m |-> [m EXCEPT !.status = "ready", !.session = "lost"]]}

(* Leaves the rows on the socket. It can only run out of memory, and then  *)
(* the status stays as it was.                                             *)
mysql_use_result(m, mayFail) ==
  {[ok |-> TRUE, m |-> [m EXCEPT !.status = "use_result"]]} \cup
  (IF mayFail THEN {[ok |-> FALSE, m |-> m]} ELSE {})

new_result(k, n, all) ==
  [NoResult EXCEPT !.state = "live", !.stored = all, !.rows = n,
                   !.handle = IF all THEN NULL ELSE k]

(* The result is over: nothing is read from its connection any more.       *)
AtEnd(r) == [r EXCEPT !.handle = NULL, !.cur = 0]

NextRow(r) == [r EXCEPT !.pos = @ + 1, !.cur = r.pos + 1]

(* row = 0 is a NULL MYSQL_ROW: no more rows or, for a result that is read *)
(* from the socket, an error. my is the table of all MYSQL structures.     *)
mysql_fetch_row(r, my) ==
  IF r.stored
  THEN IF r.pos < r.rows
       THEN {[row |-> r.pos + 1, r |-> NextRow(r), my |-> my]}
       ELSE {[row |-> 0, r |-> [r EXCEPT !.cur = 0], my |-> my]}
  ELSE IF r.handle = NULL
  THEN {[row |-> 0, r |-> r, my |-> my]}
  ELSE IF my[r.handle].status # "use_result"
  THEN {[row |-> 0, r |-> AtEnd(r), my |-> my]}
  ELSE (IF r.pos < r.rows
        THEN {[row |-> r.pos + 1, r |-> NextRow(r), my |-> my]}
        ELSE {[row |-> 0, r |-> AtEnd(r),
               my |-> [my EXCEPT ![r.handle].status = "ready"]]})
       \cup {[row |-> 0, r |-> AtEnd(r),
              my |-> [my EXCEPT ![r.handle].status = "ready",
                                ![r.handle].session = "lost"]]}

(* Fills the array with the lengths of the current row (mysql.h:292). A    *)
(* result read from the socket has them already.                           *)
mysql_fetch_lengths(r) == [r EXCEPT !.lens = r.cur]

(* Frees a result; rows still on the socket are read and thrown away.      *)
mysql_free_result(r, my) ==
  LET freed == [NoResult EXCEPT !.state = "freed"]
  IN  IF r.handle # NULL /\ my[r.handle].status = "use_result"
      THEN {[r |-> freed, my |-> [my EXCEPT ![r.handle].status = "ready"]],
            [r |-> freed, my |-> [my EXCEPT ![r.handle].status = "ready",
                                            ![r.handle].session = "lost"]]}
      ELSE {[r |-> freed, my |-> my]}

=============================================================================
