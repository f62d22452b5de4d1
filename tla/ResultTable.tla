----------------------------- MODULE ResultTable -----------------------------
(***************************************************************************)
(* The tables a script gets from a cursor: result_to_table makes one of a  *)
(* row, by column name or by position, and fetch_all one of all rows. They *)
(* are filled column by column, and the collector may run at each, since   *)
(* every string is an allocation. Then the script has the table, and       *)
(* assigns to it, goes through it with next and asks for its length.       *)
(***************************************************************************)
EXTENDS LuaTable

CONSTANTS
  Hashes,        \* the hashes strings may have
  MaxCols,       \* bound: columns of a row
  MaxRows,       \* bound: rows of a result
  LLONG_MAX,     \* the largest lua_Integer (and long long)
  INT_MAX,       \* the largest int
  DoubleBits,    \* the bits of a double's significand
  Columns,       \* the columns, each with its name, type and data
  NewValue,      \* what the script assigns
  ScriptData,    \* bound: the data of rows the script goes on with
  MaxAssigns     \* bound: how many assignments it makes

VARIABLES
  tbl,       \* the table
  made,      \* what it is made of: a row by name ("a"), by position ("n"), rows
  size,      \* numcols or num_rows
  phase,     \* "filling", then "script"
  cols,      \* the columns converted, or rows added, so far
  content,   \* the value each key should have
  iter,      \* the traversal under way: its last key, the keys it still owes
  assigns

vars == <<hash, tbl, made, size, phase, cols, content, iter, assigns>>

Keys == IF made = "rows" THEN 1..MaxRows ELSE Names \cup 1..MaxCols

IntegerTypes == {"BIT", "TINY", "SHORT", "INT24", "YEAR", "LONG", "LONGLONG"}
RealTypes == {"DECIMAL", "NEWDECIMAL", "FLOAT", "DOUBLE"}

-----------------------------------------------------------------------------
(* Conversions *)

LLONG_MIN == -LLONG_MAX - 1

(* (int) of a 64-bit number.                                               *)
ToInt(n) == ((n + INT_MAX + 1) % (2 * INT_MAX + 2)) - INT_MAX - 1

(* The text is a number; what is out of range saturates. A BIT column has  *)
(* no text but the bits, here one byte: it reads as a digit if it is the   *)
(* code of one. Mutant: atoi.                                              *)
Mutant_atoll(col) == ToInt(col.data)
atoll(col) ==
  IF col.type = "BIT"
  THEN IF col.data \in 48..57 THEN col.data - 48 ELSE 0
  ELSE IF col.data > LLONG_MAX THEN LLONG_MAX
  ELSE IF col.data < LLONG_MIN THEN LLONG_MIN ELSE col.data

(* Rounds to a significand of DoubleBits bits, to even when in the middle  *)
(* (of numbers one bit longer at most).                                    *)
atof(col) ==
  LET half == col.data \div 2
  IN  IF col.data < 2^DoubleBits \/ col.data % 2 = 0 THEN col.data
      ELSE 2 * (half + (half % 2))

pushvalue(col) ==
  IF col.data = Nil \/ col.type = "NULL" THEN Nil
  ELSE IF col.type \in IntegerTypes THEN atoll(col)
  ELSE IF col.type \in RealTypes THEN atof(col)
  ELSE col.data

lua_createtable(narray, nrec) ==
  IF narray > 0 \/ nrec > 0 THEN luaH_resize(luaH_new, narray, nrec) ELSE luaH_new

(* The table before the first column or row. Mutant: arguments swapped.    *)
Mutant_Created(m, n) ==
  IF m = "a" THEN lua_createtable(n, 0)
  ELSE IF m = "n" THEN lua_createtable(0, n) ELSE lua_createtable(ToInt(n), 0)
Created(m, n) ==
  IF m = "a" THEN lua_createtable(0, n)
  ELSE IF m = "n" THEN lua_createtable(n, 0) ELSE lua_createtable(ToInt(n), 0)

ASSUME SizesAssumption ==
  /\ MaxCols \in Nat /\ MaxRows \in Nat
  /\ Cardinality(Names) + MaxCols + MaxRows <= 2^MAXHBITS
ASSUME NumbersAssumption ==
  Hashes \subseteq Nat /\ LLONG_MAX \in Nat /\ INT_MAX \in Nat
ASSUME ColumnsAssumption ==
  /\ NewValue # Nil
  /\ \A col \in Columns :
       /\ col.name \in Names
       /\ col.type \in IntegerTypes => col.data \in Int \cup {Nil}
       /\ col.type = "NULL" => col.data = Nil

-----------------------------------------------------------------------------

NoTraversal == [on |-> FALSE, key |-> Nil, owes |-> {}]

Init ==
  /\ hash \in [Names -> Hashes]
  /\ \/ made \in {"a", "n"} /\ size \in 0..MaxCols
     \/ made = "rows" /\ size \in 0..MaxRows
  /\ tbl = Created(made, size)
  /\ phase = "filling" /\ cols = <<>>
  /\ content = [k \in Keys |-> Nil]
  /\ iter = NoTraversal
  /\ assigns = 0

Filling == phase = "filling" /\ Len(cols) < size

KeyOf(col) == IF made = "a" THEN col.name ELSE Len(cols) + 1

(* One turn of the loop of result_to_table.                                *)
result_to_table ==
  /\ made \in {"a", "n"} /\ Filling
  /\ \E col \in Columns :
       /\ tbl' = luaH_set(tbl, KeyOf(col), pushvalue(col))
       /\ content' = [content EXCEPT ![KeyOf(col)] = pushvalue(col)]
       /\ cols' = Append(cols, col)
  /\ UNCHANGED <<hash, made, size, phase, iter, assigns>>

(* One turn of the loop of cursor_fetch_all.                               *)
fetch_all_row ==
  /\ made = "rows" /\ Filling
  /\ tbl' = luaH_set(tbl, Len(cols) + 1, NewValue)
  /\ content' = [content EXCEPT ![Len(cols) + 1] = NewValue]
  /\ cols' = Append(cols, NewValue)
  /\ UNCHANGED <<hash, made, size, phase, iter, assigns>>

(* The collector goes through the table; white: the strings it did not     *)
(* find elsewhere until then.                                              *)
Collect ==
  /\ \E white \in SUBSET Names : tbl' = traversestrongtable(tbl, white)
  /\ UNCHANGED <<hash, made, size, phase, cols, content, iter, assigns>>

(* The script has the table.                                               *)
HandOver ==
  /\ phase = "filling" /\ Len(cols) = size
  /\ made # "rows" => \A i \in DOMAIN cols : cols[i].data \in ScriptData
  /\ phase' = "script" /\ cols' = <<>>
  /\ UNCHANGED <<hash, tbl, made, size, content, iter, assigns>>

(* The script assigns to a field; in a traversal, only to one that exists  *)
(* (the manual's rule).                                                    *)
Assign ==
  /\ phase = "script" /\ assigns < MaxAssigns
  /\ \E k \in Keys, v \in {Nil, NewValue} :
       /\ iter.on => content[k] # Nil
       /\ tbl' = luaH_set(tbl, k, v)
       /\ content' = [content EXCEPT ![k] = v]
       /\ iter' = IF v = Nil THEN [iter EXCEPT !.owes = @ \ {k}] ELSE iter
  /\ assigns' = assigns + 1
  /\ UNCHANGED <<hash, made, size, phase, cols>>

Traverse ==
  /\ phase = "script" /\ ~iter.on
  /\ iter' = [on |-> TRUE, key |-> Nil, owes |-> {k \in Keys : content[k] # Nil}]
  /\ UNCHANGED <<hash, tbl, made, size, phase, cols, content, assigns>>

lua_next ==
  /\ iter.on
  /\ LET k == luaH_next(tbl, iter.key)
     IN  iter' = IF k = Nil THEN NoTraversal
                 ELSE [iter EXCEPT !.key = k, !.owes = @ \ {k}]
  /\ UNCHANGED <<hash, tbl, made, size, phase, cols, content, assigns>>

Next ==
  result_to_table \/ fetch_all_row \/ Collect \/ HandOver \/ Assign \/ Traverse \/ lua_next

Spec == Init /\ [][Next]_vars

-----------------------------------------------------------------------------
(* Properties *)

(* The table's shape: luaH_newkey keeps every key where a search finds it, *)
(* also when it moves a colliding node, or takes over a node whose value   *)
(* was erased and whose key the collector may have removed.                *)
TypeOK == TableSound(tbl)

(* A search finds the last value assigned to a key and nothing for any     *)
(* other key, through collisions, rehashing and the collector.             *)
LookupRight == \A k \in Keys : luaH_get(tbl, k) = content[k]

(* What the server sent, as far as lua_Integer can say it.                 *)
Clamped(col) ==
  IF col.data = Nil \/ col.type \notin IntegerTypes THEN col.data
  ELSE IF col.data < LLONG_MIN THEN LLONG_MIN
  ELSE IF col.data > LLONG_MAX THEN LLONG_MAX ELSE col.data

Exact(col) ==
  /\ col.type # "BIT"
  /\ col.type \in RealTypes => col.data < 2^DoubleBits

(* A row's table has, when the script gets it, each column's value         *)
(* as the server sent it: by position, NULL leaving a hole; by name, of    *)
(* columns with one name the last, and nothing if that is NULL. (BIT       *)
(* columns are read as text, which they are not, and decimals of too many  *)
(* digits are rounded; an unsigned number that does not fit saturates.)    *)
ColumnsKept ==
  phase = "filling" =>
    \A i \in DOMAIN cols :
      /\ made = "n" /\ Exact(cols[i]) => luaH_get(tbl, i) = Clamped(cols[i])
      /\ made = "a" /\ Exact(cols[i])
           /\ (\A j \in (i + 1)..Len(cols) : cols[j].name # cols[i].name)
         => luaH_get(tbl, cols[i].name) = Clamped(cols[i])

(* The size given to lua_createtable is enough: filling a row's table      *)
(* never rehashes, so it takes no memory but that of the strings, although *)
(* NULL columns take nodes and the collector removes keys that come again. *)
PresizedEnough ==
  made # "rows" /\ assigns = 0 =>
    /\ Len(tbl.array) = Len(Created(made, size).array)
    /\ Size(tbl) = Size(Created(made, size))

(* A traversal in which fields are erased, with the collector removing     *)
(* their keys under it, goes on where it was: it gives each field that is  *)
(* still there once and ends after the last.                               *)
TraversalRight ==
  iter.on =>
    /\ findindex(tbl, iter.key) # Nowhere
    /\ LET k == luaH_next(tbl, iter.key)
       IN  IF iter.owes = {} THEN k = Nil ELSE k \in iter.owes

(* #t is a border of the table and, of the table of fetch_all, the number  *)
(* of rows in it, whatever (int)num_rows made of their count.              *)
LengthRight ==
  LET n == luaH_getn(tbl)
  IN  /\ n > 0 => content[n] # Nil
      /\ n + 1 \in Keys => content[n + 1] = Nil
      /\ made = "rows" /\ phase = "filling" => n = Len(cols)

=============================================================================
