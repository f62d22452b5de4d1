---------------------------- MODULE CursorStream ----------------------------
(***************************************************************************)
(* A cursor of lua_mysql.c is a row stream: the state functions below map  *)
(* each state of LuaMysql to one of RowStream.                             *)
(***************************************************************************)
EXTENDS LuaMysql

(* A cursor is open while there are rows it may still come by: it has a    *)
(* result, in memory or on the socket. execute has not returned it before  *)
(* my_res is set.                                                          *)
StreamOf(c) ==
  IF cursor[c].my_res /\ (res[c].stored \/ res[c].handle # NULL)
  THEN [state |-> "open", rows |-> res[c].rows, reliable |-> res[c].stored]
  ELSE [state |-> IF cursor[c].my_res \/ res[c].state = "freed"
                  THEN "over" ELSE "none",
        rows |-> 0, reliable |-> FALSE]

GivenOf(c) == [i \in DOMAIN got[c] |-> got[c][i].row]

Said == IF ret.val \in {"cursor", "row", "rows", "end"} THEN ret ELSE Silent

Abstract == INSTANCE RowStream WITH
  Streams <- Cursors, Nobody <- NULL,
  stream <- [c \in Cursors |-> StreamOf(c)],
  given <- [c \in Cursors |-> GivenOf(c)],
  said <- Said

(* A cursor gives the rows of its result from the first on without a gap,  *)
(* by fetch one by one and by fetch_all all that are left, and none after  *)
(* it ended or was closed, although sessions break, are closed and come    *)
(* back, and the collector runs, in between; of a stored result it gives   *)
(* all before it ends. (With functions of the script inside calls, or      *)
(* memory errors, rows may be lost: see RowsInOrder.)                      *)
CursorIsStream == Abstract!Spec

=============================================================================
