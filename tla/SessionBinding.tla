--------------------------- MODULE SessionBinding ---------------------------
(***************************************************************************)
(* A connection of Session is one of LuaMysql that the script never        *)
(* forgets, without cursors: the state functions below map each state of   *)
(* Session to one of LuaMysql.                                             *)
(***************************************************************************)
EXTENDS Session

CONSTANTS Conn, NULL, MainThread, Globals       \* as in LuaMysql

(* The structure of LibMysql. Nothing but its outcome is left of a command *)
(* without columns, so it is never waiting for a result.                   *)
MYSQLOf(m) ==
  [session |-> m.session, methods |-> m.methods, status |-> "ready", more |-> FALSE,
   reconnect |-> m.reconnect]

udBar == [k \in {Conn} |-> IF made THEN "live" ELSE "none"]
ageBar == [k \in {Conn} |-> IF made THEN 1 ELSE 0]
clockBar == IF made THEN 2 ELSE 1
heldBar == IF made THEN {Conn} ELSE {}
registryBar == [free |-> 0, slot |-> <<MainThread, Globals>>]
closedBar == [k \in {Conn} |-> closed]
mysqlBar == [k \in {Conn} |-> MYSQLOf(mysql)]
frameBar == [l \in 1..2 |-> [op |-> "none", conn |-> NULL, cur |-> NULL,
                             row |-> 0, tbl |-> <<>>]]
retBar == [val |-> answer, on |-> IF answer = "affected" THEN Conn ELSE NULL]

Binding == INSTANCE LuaMysql WITH
  Conns <- {Conn}, Cursors <- {}, MaxRows <- 0,
  Reentrant <- FALSE, AllocThrows <- FALSE, MultiResults <- FALSE,
  ReconnectValues <- BOOLEAN,
  stage <- "running", ud <- udBar, age <- ageBar, clock <- clockBar, held <- heldBar,
  registry <- registryBar, closed <- closedBar, mysql <- mysqlBar,
  cursor <- [c \in {} |-> 0], res <- [c \in {} |-> 0], got <- [c \in {} |-> 0],
  frame <- frameBar, ret <- retBar

(* What one connection does here, with the server, options and             *)
(* transactions in view, is what LuaMysql and LibMysql allow it to do.     *)
IsBinding == Binding!Spec

=============================================================================
