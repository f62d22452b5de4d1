------------------------------ MODULE RowProofs ------------------------------
(***************************************************************************)
(* The rows a script is given, for results of any length and any number of *)
(* cursors: their order, that none comes twice and, unless calls nest or   *)
(* allocations throw, that none is left out and that each is converted by  *)
(* its own lengths.                                                        *)
(*                                                                         *)
(* The script has not been given all rows that were fetched: those in      *)
(* between are in the calls in progress (Fetched), in the table of         *)
(* fetch_all or about to be converted. The invariant puts them in their    *)
(* place, after the rows given and before the position in the result.      *)
(***************************************************************************)
EXTENDS LuaMysqlProofs

RowsOf(s) == {s[i].row : i \in DOMAIN s}

(* The call at level l has fetched rows of c that the script was not given *)
(* yet: those in its table, and the one it is about to convert.            *)
Holding(l, c) == frame[l].op \in {"fetch", "fetch_all"} /\ frame[l].cur = c
Fetched(l) == RowsOf(frame[l].tbl) \cup {frame[l].row}

(* Any row of S comes before any of T; with finalizers of the script they  *)
(* are at least different rows.                                            *)
Precede(S, T) == \A a \in S, b \in T : a # b /\ (Reentrant \/ a < b)
InOrder(s) ==
  \A i \in DOMAIN s : \A j \in 1..(i - 1) :
    s[j].row # s[i].row /\ (Reentrant \/ s[j].row < s[i].row)

(* The rows of s are those that follow row n.                              *)
Follow(s, n) == \A i \in DOMAIN s : s[i].row = n + i

Live(c) == res[c].state = "live"

(* Nothing was read of a result that was not made.                         *)
NotYet(c) ==
  res[c].state = "none" => got[c] = <<>> /\ \A l \in Levels : ~Holding(l, c)

(* No row is beyond the position in the result, and those that a call      *)
(* holds come after those that were given, in order.                       *)
Ordered(c) ==
  /\ InOrder(got[c])
  /\ Live(c) =>
       /\ res[c].pos <= res[c].rows
       /\ \A n \in RowsOf(got[c]) : n <= res[c].pos
       /\ \A l \in Levels : Holding(l, c) =>
            /\ InOrder(frame[l].tbl)
            /\ Precede(RowsOf(frame[l].tbl), {frame[l].row})
            /\ Precede(RowsOf(got[c]), Fetched(l))
            /\ \A n \in Fetched(l) : n <= res[c].pos
       /\ Holding(1, c) /\ Holding(2, c) => Fetched(1) \cap Fetched(2) = {}

(* Every row up to the position was given, or is held by the only call.    *)
Gapless(c) ==
  ~Reentrant /\ ~AllocThrows =>
    /\ Follow(got[c], 0)
    /\ Live(c) /\ ~Holding(1, c) => res[c].pos = Len(got[c])
    /\ Live(c) /\ Holding(1, c) =>
         /\ Follow(frame[1].tbl, Len(got[c]))
         /\ frame[1].row = Len(got[c]) + Len(frame[1].tbl) + 1
         /\ res[c].pos = frame[1].row

(* While c is read by fetch, its array of lengths is that of the row held. *)
OwnLens(c) ==
  ~Reentrant /\ Live(c) =>
    /\ \A i \in DOMAIN got[c] : got[c][i].len = got[c][i].row
    /\ Holding(1, c) /\ frame[1].op = "fetch" => res[c].lens = frame[1].row

(* The cursor of a call that holds a row was not nullified, or its result  *)
(* is freed.                                                               *)
Owned(c) == Live(c) => \A l \in Levels : Holding(l, c) => cursor[c].my_res

CursorRows(c) == NotYet(c) /\ Owned(c) /\ Ordered(c) /\ Gapless(c) /\ OwnLens(c)

(* Without finalizers of the script there is one call at a time; fetch has *)
(* no table.                                                               *)
Calls ==
  /\ ~Reentrant => Idle(2)
  /\ \A l \in Levels : frame[l].op = "fetch" => frame[l].tbl = <<>>

RowsSound == Calls /\ \A c \in Cursors : CursorRows(c)

RowInv == IInv /\ RowsSound

-----------------------------------------------------------------------------
(* Sequences of rows *)

(* A row that comes after all of them is appended.                         *)
LEMMA AppendInOrder ==
  ASSUME NEW s \in Seq(Row), NEW x \in Row, InOrder(s), Precede(RowsOf(s), {x.row})
  PROVE  /\ Append(s, x) \in Seq(Row) /\ InOrder(Append(s, x))
         /\ RowsOf(Append(s, x)) = RowsOf(s) \cup {x.row}
<1>1. /\ Append(s, x) \in Seq(Row) /\ Len(Append(s, x)) = Len(s) + 1
      /\ DOMAIN s = 1..Len(s) /\ DOMAIN Append(s, x) = 1..(Len(s) + 1)
      /\ Len(s) \in Nat
      /\ \A i \in 1..Len(s) : Append(s, x)[i] = s[i]
      /\ Append(s, x)[Len(s) + 1] = x
  OBVIOUS
<1> DEFINE t == Append(s, x)
<1>2. \A i \in 1..Len(s) : t[i] = s[i] /\ s[i].row \in RowsOf(s)
  BY <1>1 DEF RowsOf
<1> HIDE DEF t
<1>3. InOrder(t)
  <2> SUFFICES ASSUME NEW i \in 1..(Len(s) + 1), NEW j \in 1..(i - 1)
               PROVE  t[j].row # t[i].row /\ (Reentrant \/ t[j].row < t[i].row)
    BY <1>1 DEF InOrder, t
  <2>1. CASE i = Len(s) + 1
    <3>1. j \in 1..Len(s) /\ t[i] = x  BY <1>1, <2>1 DEF t
    <3>2. t[j].row \in RowsOf(s)  BY <1>2, <3>1
    <3> QED  BY <3>1, <3>2 DEF Precede
  <2>2. CASE i # Len(s) + 1
    <3>1. i \in 1..Len(s) /\ j \in 1..Len(s)  BY <1>1, <2>2
    <3>2. t[i] = s[i] /\ t[j] = s[j]  BY <1>2, <3>1
    <3> QED  BY <1>1, <3>1, <3>2 DEF InOrder
  <2> QED  BY <2>1, <2>2
<1>4. RowsOf(t) = RowsOf(s) \cup {x.row}
  <2>1. RowsOf(t) \subseteq RowsOf(s) \cup {x.row}
    <3> SUFFICES ASSUME NEW i \in 1..(Len(s) + 1)
                 PROVE  t[i].row \in RowsOf(s) \cup {x.row}
      BY <1>1 DEF RowsOf, t
    <3>1. i \in 1..Len(s) \/ i = Len(s) + 1  BY <1>1
    <3> QED  BY <1>1, <1>2, <3>1 DEF t
  <2>2. x.row \in RowsOf(t)
    <3>1. Len(s) + 1 \in DOMAIN t /\ t[Len(s) + 1] = x  BY <1>1 DEF t
    <3> QED  BY <3>1 DEF RowsOf
  <2>3. RowsOf(s) \subseteq RowsOf(t)
    <3> SUFFICES ASSUME NEW i \in 1..Len(s) PROVE s[i].row \in RowsOf(t)
      BY <1>1 DEF RowsOf
    <3>1. i \in DOMAIN t /\ t[i] = s[i]  BY <1>1, <1>2 DEF t
    <3> QED  BY <3>1 DEF RowsOf
  <2> QED  BY <2>1, <2>2, <2>3
<1> QED  BY <1>1, <1>3, <1>4 DEF t

(* Rows that come after all of them are appended.                          *)
LEMMA ConcatInOrder ==
  ASSUME NEW s \in Seq(Row), NEW u \in Seq(Row), InOrder(s), InOrder(u),
         Precede(RowsOf(s), RowsOf(u))
  PROVE  InOrder(s \o u)
<1> DEFINE t == s \o u
<1>1. /\ DOMAIN s = 1..Len(s) /\ DOMAIN u = 1..Len(u) /\ Len(s) \in Nat /\ Len(u) \in Nat
      /\ DOMAIN t = 1..(Len(s) + Len(u))
      /\ \A i \in 1..(Len(s) + Len(u)) :
           t[i] = IF i <= Len(s) THEN s[i] ELSE u[i - Len(s)]
  OBVIOUS
<1> HIDE DEF t
<1> SUFFICES ASSUME NEW i \in 1..(Len(s) + Len(u)), NEW j \in 1..(i - 1)
             PROVE  t[j].row # t[i].row /\ (Reentrant \/ t[j].row < t[i].row)
  BY <1>1 DEF InOrder, t
<1>2. j \in 1..(Len(s) + Len(u)) /\ j < i  BY <1>1
<1>3. CASE i <= Len(s)
  <2>1. i \in DOMAIN s /\ t[i] = s[i] /\ t[j] = s[j]  BY <1>1, <1>2, <1>3
  <2> QED  BY <2>1 DEF InOrder
<1>4. CASE i > Len(s) /\ j <= Len(s)
  <2>1. t[i] = u[i - Len(s)] /\ t[j] = s[j]  BY <1>1, <1>2, <1>4
  <2>2. i - Len(s) \in DOMAIN u /\ j \in DOMAIN s  BY <1>1, <1>2, <1>4
  <2>3. t[j].row \in RowsOf(s) /\ t[i].row \in RowsOf(u)  BY <2>1, <2>2 DEF RowsOf
  <2> QED  BY <2>3 DEF Precede
<1>5. CASE j > Len(s)
  <2>1. t[i] = u[i - Len(s)] /\ t[j] = u[j - Len(s)]  BY <1>1, <1>2, <1>5
  <2>2. i - Len(s) \in DOMAIN u /\ j - Len(s) \in 1..((i - Len(s)) - 1)
    BY <1>1, <1>2, <1>5
  <2> QED  BY <2>1, <2>2 DEF InOrder
<1> QED  BY <1>1, <1>2, <1>3, <1>4, <1>5

(* The next row is appended.                                               *)
LEMMA AppendFollows ==
  ASSUME NEW s \in Seq(Row), NEW x \in Row, NEW n \in Nat,
         Follow(s, n), x.row = n + Len(s) + 1
  PROVE  /\ Append(s, x) \in Seq(Row) /\ Follow(Append(s, x), n)
         /\ Len(Append(s, x)) = Len(s) + 1
<1>1. /\ Append(s, x) \in Seq(Row) /\ Len(Append(s, x)) = Len(s) + 1
      /\ DOMAIN s = 1..Len(s) /\ DOMAIN Append(s, x) = 1..(Len(s) + 1)
      /\ Len(s) \in Nat
      /\ \A i \in 1..Len(s) : Append(s, x)[i] = s[i]
      /\ Append(s, x)[Len(s) + 1] = x
  OBVIOUS
<1>2. ASSUME NEW i \in 1..(Len(s) + 1)
      PROVE  Append(s, x)[i].row = n + i
  <2>1. CASE i \in 1..Len(s)  BY <1>1, <2>1 DEF Follow
  <2>2. CASE i = Len(s) + 1  BY <1>1, <2>2
  <2> QED  BY <1>1, <2>1, <2>2
<1> QED  BY <1>1, <1>2 DEF Follow

(* The next rows are appended.                                             *)
LEMMA ConcatFollows ==
  ASSUME NEW s \in Seq(Row), NEW u \in Seq(Row), NEW n \in Nat,
         Follow(s, n), Follow(u, n + Len(s))
  PROVE  Follow(s \o u, n) /\ Len(s \o u) = Len(s) + Len(u)
<1> DEFINE t == s \o u
<1>1. /\ DOMAIN s = 1..Len(s) /\ DOMAIN u = 1..Len(u) /\ Len(s) \in Nat /\ Len(u) \in Nat
      /\ DOMAIN t = 1..(Len(s) + Len(u)) /\ Len(t) = Len(s) + Len(u)
      /\ \A i \in 1..(Len(s) + Len(u)) :
           t[i] = IF i <= Len(s) THEN s[i] ELSE u[i - Len(s)]
  OBVIOUS
<1> HIDE DEF t
<1>2. ASSUME NEW i \in 1..(Len(s) + Len(u)) PROVE t[i].row = n + i
  <2>1. CASE i <= Len(s)
    <3>1. i \in DOMAIN s /\ t[i] = s[i]  BY <1>1, <2>1
    <3> QED  BY <3>1 DEF Follow
  <2>2. CASE i > Len(s)
    <3>1. i - Len(s) \in DOMAIN u /\ t[i] = u[i - Len(s)]  BY <1>1, <2>2
    <3>2. t[i].row = n + Len(s) + (i - Len(s))  BY <3>1 DEF Follow
    <3> QED  BY <1>1, <3>2
  <2> QED  BY <1>1, <2>1, <2>2
<1> QED  BY <1>1, <1>2 DEF Follow, t

-----------------------------------------------------------------------------
(* Steps that give the script no row *)

(* The result of c is as it was, or freed.                                 *)
Kept(c) ==
  \/ res'[c].state = "freed"
  \/ /\ res'[c].state = res[c].state /\ res'[c].pos = res[c].pos
     /\ res'[c].rows = res[c].rows /\ res'[c].lens = res[c].lens
     /\ cursor[c].my_res => cursor'[c].my_res

(* The call at level l is as it was, or does not hold a row of c any more, *)
(* which is lost only by a thrown error.                                   *)
Continues(l, c) ==
  \/ frame'[l] = frame[l]
  \/ ~Holding(l, c)' /\ (~Holding(l, c) \/ AllocThrows)

LEMMA Stay ==
  ASSUME RowInv, NEW c \in Cursors, got'[c] = got[c], Kept(c),
         \A l \in Levels : Continues(l, c)
  PROVE  CursorRows(c)'
<1>1. CursorRows(c)  BY DEF RowInv, RowsSound
<1>2. \A l \in Levels : Holding(l, c)' => Holding(l, c) /\ frame'[l] = frame[l]
  BY DEF Continues, Holding
<1>3. Live(c)' => Live(c) /\ Kept(c) /\ res'[c].state # "freed"
  BY DEF Live, Kept
<1>4. NotYet(c)'
  <2>1. res'[c].state = "none" => res[c].state = "none"  BY DEF Kept
  <2> QED  BY <1>1, <1>2, <2>1 DEF NotYet, CursorRows
<1>5. Owned(c)'  BY <1>1, <1>2, <1>3 DEF Owned, CursorRows, Kept
<1>6. Ordered(c)'
  <2> SUFFICES InOrder(got'[c]) /\
               (Live(c)' =>
                  /\ res'[c].pos <= res'[c].rows
                  /\ \A n \in RowsOf(got'[c]) : n <= res'[c].pos
                  /\ \A l \in Levels : Holding(l, c)' =>
                       /\ InOrder(frame'[l].tbl)
                       /\ Precede(RowsOf(frame'[l].tbl), {frame'[l].row})
                       /\ Precede(RowsOf(got'[c]), Fetched(l)')
                       /\ \A n \in Fetched(l)' : n <= res'[c].pos
                  /\ Holding(1, c)' /\ Holding(2, c)' => Fetched(1)' \cap Fetched(2)' = {})
    BY DEF Ordered
  <2>1. \A l \in Levels : Holding(l, c)' => Fetched(l)' = Fetched(l)
    BY <1>2 DEF Fetched
  <2>2. 1 \in Levels /\ 2 \in Levels  BY DEF Levels
  <2> QED  BY <1>1, <1>2, <1>3, <2>1, <2>2 DEF CursorRows, Ordered, Kept
<1>7. Gapless(c)'
  <2>1. 1 \in Levels  BY DEF Levels
  <2>2. Holding(1, c) /\ ~AllocThrows => Holding(1, c)' /\ frame'[1] = frame[1]
    BY <2>1 DEF Continues, Holding
  <2> QED  BY <1>1, <1>2, <1>3, <2>1, <2>2 DEF CursorRows, Gapless, Kept
<1>8. OwnLens(c)'
  <2>1. 1 \in Levels  BY DEF Levels
  <2> QED  BY <1>1, <1>2, <1>3, <2>1 DEF CursorRows, OwnLens, Kept
<1> QED  BY <1>4, <1>5, <1>6, <1>7, <1>8 DEF CursorRows

(* A call that takes no row may be entered, where one may, and left.       *)
Moves(l) ==
  \/ frame'[l] = frame[l]
  \/ /\ frame'[l].op \notin {"fetch", "fetch_all"}
     /\ frame[l].op \notin {"fetch", "fetch_all"} \/ AllocThrows
     /\ l = 2 /\ ~Reentrant => Idle(2)'

LEMMA StayAll ==
  ASSUME RowInv, UNCHANGED got, \A c \in Cursors : Kept(c),
         \A l \in Levels : Moves(l)
  PROVE  RowsSound'
<1>1. ASSUME NEW c \in Cursors PROVE CursorRows(c)'
  <2>1. \A l \in Levels : Continues(l, c)  BY DEF Moves, Continues, Holding
  <2> QED  BY <2>1, Stay
<1>2. Calls'  BY DEF Calls, Moves, RowInv, RowsSound, Idle, Levels
<1> QED  BY <1>1, <1>2 DEF RowsSound

LEMMA QuietRows ==
  ASSUME RowInv, UNCHANGED <<cursor, res, got, frame>>
  PROVE  RowsSound'
BY StayAll DEF Kept, Moves

(* A call takes its place, or leaves it, and nothing else changes.         *)
LEMMA FrameRows ==
  ASSUME RowInv, UNCHANGED <<got, res>>,
         \A c \in Cursors : cursor[c].my_res => cursor'[c].my_res,
         NEW l \in Levels, NEW f \in Frame, frame' = [frame EXCEPT ![l] = f],
         f.op \notin {"fetch", "fetch_all"},
         frame[l].op \notin {"fetch", "fetch_all"} \/ AllocThrows,
         l = 2 /\ ~Reentrant => f.op = "none"
  PROVE  RowsSound'
<1>1. frame'[l] = f /\ \A j \in Levels \ {l} : frame'[j] = frame[j]
  BY DEF RowInv, IInv, TypeOK
<1>2. \A j \in Levels : Moves(j)  BY <1>1 DEF Moves, Idle
<1>3. \A c \in Cursors : Kept(c)  BY DEF Kept
<1> QED  BY <1>2, <1>3, StayAll

(* A cursor is nullified: its result is freed, if it has one.              *)
LEMMA NullifyRows ==
  ASSUME RowInv, NEW c \in Cursors, NEW r \in MYSQL_RES,
         NEW my \in [Conns -> MYSQL], nullify(c, r, my)
  PROVE  \A d \in Cursors : Kept(d)
<1>1. /\ \A d \in Cursors \ {c} : cursor'[d] = cursor[d] /\ res'[d] = res[d]
      /\ cursor[c].my_res => res'[c].state = "freed"
      /\ ~cursor[c].my_res => res'[c] = res[c]
  BY NullifyStep DEF RowInv
<1> QED  BY <1>1 DEF Kept

-----------------------------------------------------------------------------
(* Fetching *)

(* mysql_fetch_row returns the next row or, at the end of a stored result  *)
(* only, none; it has nothing to do with the array of lengths.             *)
LEMMA FetchRowPos ==
  ASSUME NEW r \in MYSQL_RES, NEW my \in [Conns -> MYSQL], NEW f \in mysql_fetch_row(r, my)
  PROVE  /\ f.r.state = r.state /\ f.r.rows = r.rows /\ f.r.lens = r.lens
         /\ f.row # 0 => /\ f.row = r.pos + 1 /\ f.row <= r.rows
                         /\ f.r.pos = f.row /\ f.r.cur = f.row
         /\ f.row = 0 => f.r.pos = r.pos /\ (r.stored => r.rows <= r.pos)
<1>1. r.pos \in Nat /\ r.rows \in Nat /\ r.pos + 1 # 0  BY ConstantTypes DEF MYSQL_RES
<1>2. /\ AtEnd(r).state = r.state /\ AtEnd(r).rows = r.rows
      /\ AtEnd(r).lens = r.lens /\ AtEnd(r).pos = r.pos
  BY DEF AtEnd, MYSQL_RES
<1>3. /\ NextRow(r).state = r.state /\ NextRow(r).rows = r.rows
      /\ NextRow(r).lens = r.lens /\ NextRow(r).pos = r.pos + 1
      /\ NextRow(r).cur = r.pos + 1
  BY DEF NextRow, MYSQL_RES
<1> DEFINE e == [r EXCEPT !.cur = 0]
<1>4. e.state = r.state /\ e.rows = r.rows /\ e.lens = r.lens /\ e.pos = r.pos
  BY DEF MYSQL_RES
<1>5. \/ r.pos < r.rows /\ f.row = r.pos + 1 /\ f.r = NextRow(r)
      \/ r.stored /\ ~(r.pos < r.rows) /\ f.row = 0 /\ f.r = e
      \/ ~r.stored /\ f.row = 0 /\ f.r \in {r, AtEnd(r)}
  BY DEF mysql_fetch_row
<1> HIDE DEF e
<1> QED  BY <1>1, <1>2, <1>3, <1>4, <1>5

(* A call made now is the only one, or the script's finalizers call too.   *)
LEMMA OneCall ==
  ASSUME RowInv, NEW l \in Levels, Callable(l) \/ Resumable(l), ~Reentrant
  PROVE  l = 1
BY DEF RowInv, RowsSound, Calls, Callable, Resumable, Levels

(* fetch and fetch_all have fetched the next row of c.                     *)
LEMMA EnterRows ==
  ASSUME RowInv, NEW l \in Levels, frame[l].op \notin {"fetch", "fetch_all"},
         ~Reentrant => l = 1,
         NEW c \in Cursors, cursor[c].my_res, NEW o \in {"fetch", "fetch_all"},
         NEW r \in MYSQL_RES, r.state = res[c].state, r.rows = res[c].rows,
         NEW i \in 0..MaxRows, i = res[c].pos + 1, i <= r.rows, r.pos = i, r.lens = i,
         res' = [res EXCEPT ![c] = r],
         cursor' = [cursor EXCEPT ![c].fields = TRUE],
         frame' = [frame EXCEPT ![l] = [NoFrame EXCEPT !.op = o, !.cur = c, !.row = i]],
         UNCHANGED got
  PROVE  RowsSound'
<1> DEFINE F == [NoFrame EXCEPT !.op = o, !.cur = c, !.row = i]
<1>1. TypeOK /\ Calls /\ Live(c) /\ CursorRows(c)
  BY DEF RowInv, IInv, ResultOwned, RowsSound, Live
<1>2. F.op = o /\ F.cur = c /\ F.row = i /\ F.tbl = <<>>  BY DEF NoFrame
<1>3. frame' = [frame EXCEPT ![l] = F]  OBVIOUS
<1> HIDE DEF F
<1>4. frame'[l] = F /\ \A j \in Levels \ {l} : frame'[j] = frame[j]
  BY <1>1, <1>3 DEF TypeOK
<1>5. /\ res'[c] = r /\ cursor'[c].my_res
      /\ \A d \in Cursors \ {c} : res'[d] = res[d] /\ cursor'[d] = cursor[d]
  BY <1>1 DEF TypeOK, Cursor
<1>6. Calls'
  <2>1. ~Reentrant => Idle(2)'  BY <1>1, <1>4 DEF Calls, Idle, Levels
  <2>2. \A j \in Levels : frame'[j].op = "fetch" => frame'[j].tbl = <<>>
    <3>1. frame'[l].tbl = <<>>  BY <1>2, <1>4
    <3>2. \A j \in Levels \ {l} : frame[j].op = "fetch" => frame[j].tbl = <<>>
      BY <1>1 DEF Calls
    <3> QED  BY <1>4, <3>1, <3>2
  <2> QED  BY <2>1, <2>2 DEF Calls
<1>7. ASSUME NEW d \in Cursors, d # c PROVE CursorRows(d)'
  <2>1. Kept(d)  BY <1>5, <1>7 DEF Kept
  <2>2. \A j \in Levels : Continues(j, d)
    BY <1>2, <1>4, <1>7 DEF Continues, Holding
  <2> QED  BY <2>1, <2>2, Stay
<1>8. CursorRows(c)'
  <2>1. ~Holding(l, c) /\ Holding(l, c)'
    BY <1>2, <1>4 DEF Holding
  <2>2. \A j \in Levels \ {l} : /\ Holding(j, c)' <=> Holding(j, c)
                                /\ Fetched(j)' = Fetched(j)
    BY <1>4 DEF Holding, Fetched
  <2>3. Fetched(l)' = {i}
    <3>1. RowsOf(<<>>) = {}  BY DEF RowsOf
    <3> QED  BY <1>2, <1>4, <3>1 DEF Fetched
  <2>4. /\ res[c].pos \in Nat /\ r.rows \in Nat /\ res'[c].pos = i
        /\ \A j \in Levels : Holding(j, c) => \A n \in Fetched(j) : n <= res[c].pos
        /\ \A n \in RowsOf(got[c]) : n <= res[c].pos
    <3>1. \A x \in MYSQL_RES : x.pos \in Nat /\ x.rows \in Nat
      BY ConstantTypes DEF MYSQL_RES
    <3>2. res[c] \in MYSQL_RES  BY <1>1 DEF TypeOK
    <3>3. Ordered(c)  BY <1>1 DEF CursorRows
    <3>4. /\ \A j \in Levels : Holding(j, c) => \A n \in Fetched(j) : n <= res[c].pos
          /\ \A n \in RowsOf(got[c]) : n <= res[c].pos
      BY <1>1, <3>3 DEF Ordered
    <3> QED  BY <1>5, <3>1, <3>2, <3>4
  <2>5. /\ \A n \in RowsOf(got[c]) : n \in Nat
        /\ \A j \in Levels : Holding(j, c) => \A n \in Fetched(j) : n \in Nat
    <3>1. got[c] \in Seq(Row)  BY <1>1 DEF TypeOK
    <3>2. \A j \in Levels : frame[j].row \in Nat /\ frame[j].tbl \in Seq(Row)
      BY <1>1, ConstantTypes DEF TypeOK, Frame
    <3>3. ASSUME NEW s \in Seq(Row), NEW n \in RowsOf(s) PROVE n \in Nat
      <4>1. PICK j \in DOMAIN s : n = s[j].row  BY <3>3 DEF RowsOf
      <4>2. s[j] \in Row  OBVIOUS
      <4> QED  BY <4>1, <4>2, ConstantTypes DEF Row
    <3> QED  BY <3>1, <3>2, <3>3 DEF Fetched
  <2>6. Live(c)' /\ NotYet(c)'  BY <1>1, <1>5 DEF Live, NotYet
  <2>7. Owned(c)'  BY <1>5 DEF Owned
  <2>8. Ordered(c)'
    <3>1. InOrder(got'[c]) BY <1>1 DEF CursorRows, Ordered
    <3>2. res'[c].pos <= res'[c].rows /\ \A n \in RowsOf(got'[c]) : n <= res'[c].pos
      BY <1>5, <2>4, <2>5
    <3>3. ASSUME NEW j \in Levels, Holding(j, c)'
          PROVE  /\ InOrder(frame'[j].tbl)
                 /\ Precede(RowsOf(frame'[j].tbl), {frame'[j].row})
                 /\ Precede(RowsOf(got'[c]), Fetched(j)')
                 /\ \A n \in Fetched(j)' : n <= res'[c].pos
      <4>1. CASE j = l
        <5>1. frame'[j].tbl = <<>>  BY <1>2, <1>4, <4>1
        <5>2. InOrder(<<>>) /\ RowsOf(<<>>) = {}  BY DEF InOrder, RowsOf
        <5>3. Precede(RowsOf(got'[c]), {i})  BY <2>4, <2>5 DEF Precede
        <5> QED  BY <1>5, <2>3, <2>4, <4>1, <5>1, <5>2, <5>3 DEF Precede
      <4>2. CASE j # l
        <5>1. Holding(j, c) /\ Fetched(j)' = Fetched(j) /\ frame'[j] = frame[j]
          BY <1>4, <2>2, <3>3, <4>2
        <5>2. /\ InOrder(frame[j].tbl)
              /\ Precede(RowsOf(frame[j].tbl), {frame[j].row})
              /\ Precede(RowsOf(got[c]), Fetched(j))
          BY <1>1, <5>1 DEF CursorRows, Ordered
        <5>3. \A n \in Fetched(j) : n <= i  BY <2>4, <2>5, <5>1
        <5> QED  BY <2>4, <5>1, <5>2, <5>3
      <4> QED  BY <4>1, <4>2
    <3>4. Holding(1, c)' /\ Holding(2, c)' => Fetched(1)' \cap Fetched(2)' = {}
      <4>1. ASSUME NEW j \in Levels \ {l}, Holding(j, c)'
            PROVE  Fetched(j)' \cap Fetched(l)' = {}
        BY <2>2, <2>3, <2>4, <2>5, <4>1
      <4>2. 1 \in Levels /\ 2 \in Levels /\ l \in {1, 2}  BY DEF Levels
      <4> QED  BY <4>1, <4>2
    <3> QED  BY <3>1, <3>2, <3>3, <3>4 DEF Ordered
  <2>9. Gapless(c)'
    <3>1. ~Reentrant /\ ~AllocThrows => /\ Follow(got[c], 0)
                                        /\ res[c].pos = Len(got[c])
      BY <1>1, <2>1 DEF CursorRows, Gapless
    <3>2. Len(got[c]) \in Nat  BY <1>1 DEF TypeOK
    <3>3. ~Reentrant => /\ Holding(1, c)' /\ frame'[1].row = i
                        /\ frame'[1].tbl = <<>>
      BY <1>2, <1>4, <2>1
    <3>4. Len(<<>>) = 0 /\ Follow(<<>>, Len(got[c]))  BY DEF Follow
    <3>5. ~Reentrant /\ ~AllocThrows => i = Len(got[c]) + 0 + 1  BY <3>1, <3>2
    <3> QED  BY <2>4, <3>1, <3>3, <3>4, <3>5 DEF Gapless
  <2>10. OwnLens(c)'
    <3>1. ~Reentrant => frame'[1] = F  BY <1>4
    <3> QED  BY <1>1, <1>2, <1>5, <3>1 DEF CursorRows, OwnLens
  <2> QED  BY <2>6, <2>7, <2>8, <2>9, <2>10 DEF CursorRows
<1> QED  BY <1>6, <1>7, <1>8 DEF RowsSound

-----------------------------------------------------------------------------
(* Giving rows to the script *)

(* The rows of a sequence are numbers.                                     *)
LEMMA RowNumbers ==
  ASSUME NEW s \in Seq(Row), NEW n \in RowsOf(s)
  PROVE  n \in Nat
<1>1. PICK j \in DOMAIN s : n = s[j].row  BY DEF RowsOf
<1>2. s[j] \in Row  OBVIOUS
<1> QED  BY <1>1, <1>2, ConstantTypes DEF Row

(* What is known of a call that holds a row of a live result.              *)
LEMMA HeldRow ==
  ASSUME RowInv, NEW l \in Levels, frame[l].op \in {"fetch", "fetch_all"},
         NEW c, c = frame[l].cur, Live(c)
  PROVE  /\ c \in Cursors /\ cursor[c].my_res
         /\ got[c] \in Seq(Row) /\ frame[l].tbl \in Seq(Row) /\ frame[l].row \in Nat
         /\ res[c].pos \in Nat
         /\ Converted(frame[l]) \in Row /\ Converted(frame[l]).row = frame[l].row
         /\ Holding(l, c) /\ Ordered(c) /\ Gapless(c) /\ OwnLens(c)
         /\ InOrder(got[c]) /\ InOrder(frame[l].tbl)
         /\ Precede(RowsOf(frame[l].tbl), {frame[l].row})
         /\ Precede(RowsOf(got[c]), Fetched(l))
         /\ \A n \in Fetched(l) : n <= res[c].pos
         /\ \A n \in RowsOf(got[c]) : n <= res[c].pos
         /\ ~Reentrant => l = 1 /\ Idle(2)
<1>1. c \in Cursors /\ frame[l] \in Frame /\ Converted(frame[l]) \in Row
  BY ConvertedType DEF RowInv
<1>2. CursorRows(c) /\ Holding(l, c)
  BY <1>1 DEF RowInv, RowsSound, Holding
<1>3. /\ got[c] \in Seq(Row) /\ frame[l].tbl \in Seq(Row) /\ frame[l].row \in Nat
      /\ res[c] \in MYSQL_RES
  BY <1>1, ConstantTypes DEF RowInv, IInv, TypeOK, Frame
<1>4. res[c].pos \in Nat  BY <1>3, ConstantTypes DEF MYSQL_RES
<1>5. ~Reentrant => l = 1 /\ Idle(2)
  BY DEF RowInv, RowsSound, Calls, Idle, Levels
<1>6. NotYet(c) /\ Owned(c) /\ Ordered(c) /\ Gapless(c) /\ OwnLens(c)
  BY <1>2 DEF CursorRows
<1>7. cursor[c].my_res  BY <1>2, <1>6 DEF Owned
<1>8. Converted(frame[l]).row = frame[l].row  BY DEF Converted
<1>9. /\ InOrder(got[c]) /\ InOrder(frame[l].tbl)
      /\ Precede(RowsOf(frame[l].tbl), {frame[l].row})
      /\ Precede(RowsOf(got[c]), Fetched(l))
      /\ \A n \in Fetched(l) : n <= res[c].pos
      /\ \A n \in RowsOf(got[c]) : n <= res[c].pos
  BY <1>2, <1>6 DEF Ordered
<1> QED  BY <1>1, <1>2, <1>3, <1>4, <1>5, <1>6, <1>7, <1>8, <1>9

(* fetch gives its row.                                                    *)
LEMMA RowToTableRows ==
  ASSUME RowInv, NEW l \in Levels, fetch_row_to_table(l), ~StaleRow
  PROVE  RowsSound'
<1>0. PICK c \in Cursors : c = frame[l].cur
  BY DEF fetch_row_to_table, RowInv, IInv, FramesSound, CallSound
<1> DEFINE x == Converted(frame[l])
<1>1. /\ frame[l].op = "fetch" /\ Live(c)
      /\ got' = [got EXCEPT ![c] = Append(got[c], x)]
      /\ frame' = [frame EXCEPT ![l] = NoFrame]
      /\ UNCHANGED <<cursor, res>>
  BY <1>0 DEF fetch_row_to_table, RowReadable, Live, Leave, lib
<1>2. TypeOK /\ Calls /\ frame[l].tbl = <<>>
  BY <1>1 DEF RowInv, IInv, RowsSound, Calls
<1>3. /\ got[c] \in Seq(Row) /\ frame[l].row \in Nat /\ res[c].pos \in Nat
      /\ x \in Row /\ x.row = frame[l].row /\ x.len = res[c].lens
      /\ Holding(l, c) /\ Ordered(c) /\ Gapless(c) /\ OwnLens(c)
      /\ InOrder(got[c]) /\ Precede(RowsOf(got[c]), Fetched(l))
      /\ \A n \in Fetched(l) : n <= res[c].pos
      /\ \A n \in RowsOf(got[c]) : n <= res[c].pos
      /\ ~Reentrant => l = 1 /\ Idle(2)
  BY <1>0, <1>1, HeldRow DEF Converted
<1> HIDE DEF x
<1>4. /\ got'[c] = Append(got[c], x)
      /\ \A d \in Cursors \ {c} : got'[d] = got[d]
      /\ frame'[l].op = "none" /\ \A j \in Levels \ {l} : frame'[j] = frame[j]
  BY <1>1, <1>2, <1>3 DEF TypeOK, NoFrame
<1>5. Fetched(l) = {x.row}
  <2>1. RowsOf(<<>>) = {}  BY DEF RowsOf
  <2> QED  BY <1>2, <1>3, <2>1 DEF Fetched
<1>6. /\ InOrder(got'[c]) /\ RowsOf(got'[c]) = RowsOf(got[c]) \cup {x.row}
  BY <1>3, <1>4, <1>5, AppendInOrder
<1>7. Calls'  BY <1>2, <1>3, <1>4 DEF Calls, Idle, Levels
<1>8. \A j \in Levels, d \in Cursors :
        /\ Holding(j, d)' => j # l /\ Holding(j, d) /\ frame'[j] = frame[j]
        /\ Continues(j, d) \/ (j = l /\ d = c)
  BY <1>0, <1>4 DEF Holding, Continues
<1>9. ASSUME NEW d \in Cursors, d # c PROVE CursorRows(d)'
  <2>1. Kept(d) /\ got'[d] = got[d]  BY <1>1, <1>4, <1>9 DEF Kept
  <2>2. \A j \in Levels : Continues(j, d)  BY <1>8, <1>9
  <2> QED  BY <2>1, <2>2, Stay
<1>10. CursorRows(c)'
  <2>1. Live(c) /\ Live(c)' /\ NotYet(c)'  BY <1>1 DEF Live, NotYet
  <2>2. Owned(c)'
    <3>1. Owned(c)  BY <1>3 DEF RowInv, RowsSound, CursorRows
    <3> QED  BY <1>1, <1>3, <1>8, <2>1, <3>1 DEF Owned
  <2>3. Ordered(c)'
    <3>1. res'[c].pos <= res'[c].rows  BY <1>1, <1>3, <2>1 DEF Ordered
    <3>2. \A n \in RowsOf(got'[c]) : n <= res'[c].pos
      BY <1>1, <1>3, <1>5, <1>6
    <3>3. ASSUME NEW j \in Levels, Holding(j, c)'
          PROVE  /\ InOrder(frame'[j].tbl)
                 /\ Precede(RowsOf(frame'[j].tbl), {frame'[j].row})
                 /\ Precede(RowsOf(got'[c]), Fetched(j)')
                 /\ \A n \in Fetched(j)' : n <= res'[c].pos
      <4>1. j # l /\ Holding(j, c) /\ frame'[j] = frame[j] /\ Fetched(j)' = Fetched(j)
        BY <1>3, <1>8, <3>3 DEF Fetched
      <4>2. /\ InOrder(frame[j].tbl)
            /\ Precede(RowsOf(frame[j].tbl), {frame[j].row})
            /\ Precede(RowsOf(got[c]), Fetched(j))
            /\ \A n \in Fetched(j) : n <= res[c].pos
            /\ Holding(1, c) /\ Holding(2, c) => Fetched(1) \cap Fetched(2) = {}
        BY <1>3, <2>1, <4>1 DEF Ordered
      <4>3. Reentrant  BY <1>3, <4>1 DEF Holding, Idle, Levels
      <4>4. Fetched(l) \cap Fetched(j) = {}
        <5>1. (l = 1 /\ j = 2) \/ (l = 2 /\ j = 1)  BY <4>1 DEF Levels
        <5> QED  BY <1>3, <4>1, <4>2, <5>1
      <4>5. Precede(RowsOf(got'[c]), Fetched(j))
        BY <1>5, <1>6, <4>2, <4>3, <4>4 DEF Precede
      <4> QED  BY <1>1, <4>1, <4>2, <4>5
    <3>4. ~(Holding(1, c)' /\ Holding(2, c)')  BY <1>3, <1>8 DEF Levels
    <3> QED  BY <1>6, <3>1, <3>2, <3>3, <3>4 DEF Ordered
  <2>4. Gapless(c)'
    <3> SUFFICES ASSUME ~Reentrant, ~AllocThrows
                 PROVE  /\ Follow(got'[c], 0) /\ res[c].pos = Len(got'[c])
                        /\ ~Holding(1, c)'
      BY <1>1 DEF Gapless
    <3>1. l = 1  BY <1>3
    <3>2. /\ Follow(got[c], 0)
          /\ frame[1].row = Len(got[c]) + Len(frame[1].tbl) + 1
          /\ res[c].pos = frame[1].row
      BY <1>3, <2>1, <3>1 DEF Gapless
    <3>3. Len(got[c]) \in Nat /\ Len(frame[1].tbl) = 0
      <4>1. Len(<<>>) = 0  OBVIOUS
      <4> QED  BY <1>2, <1>3, <3>1, <4>1
    <3>4. x.row = 0 + Len(got[c]) + 1 /\ res[c].pos = Len(got[c]) + 1
      BY <1>3, <3>1, <3>2, <3>3
    <3>5. Follow(Append(got[c], x), 0) /\ Len(Append(got[c], x)) = Len(got[c]) + 1
      BY <1>3, <3>2, <3>4, AppendFollows
    <3>6. ~Holding(1, c)'  BY <1>8, <3>1 DEF Levels
    <3> QED  BY <1>4, <3>4, <3>5, <3>6
  <2>5. OwnLens(c)'
    <3> SUFFICES ASSUME ~Reentrant
                 PROVE  /\ \A i \in DOMAIN got'[c] : got'[c][i].len = got'[c][i].row
                        /\ ~Holding(1, c)'
      BY DEF OwnLens
    <3>1. l = 1  BY <1>3
    <3>2. /\ \A i \in DOMAIN got[c] : got[c][i].len = got[c][i].row
          /\ x.len = x.row
      BY <1>1, <1>3, <2>1, <3>1 DEF OwnLens
    <3>3. /\ DOMAIN got'[c] = 1..(Len(got[c]) + 1) /\ DOMAIN got[c] = 1..Len(got[c])
          /\ \A i \in 1..Len(got[c]) : got'[c][i] = got[c][i]
          /\ got'[c][Len(got[c]) + 1] = x /\ Len(got[c]) \in Nat
      BY <1>3, <1>4
    <3> QED  BY <1>3, <1>8, <3>1, <3>2, <3>3 DEF Levels
  <2> QED  BY <2>1, <2>2, <2>3, <2>4, <2>5 DEF CursorRows
<1> QED  BY <1>7, <1>9, <1>10 DEF RowsSound

(* fetch_all goes on to the next row: the one it held is in its table.     *)
LEMMA NextRowRows ==
  ASSUME RowInv, NEW l \in Levels, frame[l].op = "fetch_all",
         NEW c \in Cursors, c = frame[l].cur, Live(c),
         NEW r \in MYSQL_RES, r.state = res[c].state, r.rows = res[c].rows,
         NEW i \in 0..MaxRows, i = res[c].pos + 1, i <= r.rows, r.pos = i,
         res' = [res EXCEPT ![c] = r],
         frame' = [frame EXCEPT ![l] = [frame[l] EXCEPT !.row = i, !.tbl = Filled(frame[l])]],
         UNCHANGED <<cursor, got>>
  PROVE  RowsSound'
<1> DEFINE x == Converted(frame[l])
           t == frame[l].tbl
           u == Append(t, x)
           F == [frame[l] EXCEPT !.row = i, !.tbl = u]
<1>1. TypeOK /\ Calls  BY DEF RowInv, IInv, RowsSound
<1>2. /\ cursor[c].my_res
      /\ got[c] \in Seq(Row) /\ t \in Seq(Row) /\ frame[l].row \in Nat
      /\ res[c].pos \in Nat /\ x \in Row /\ x.row = frame[l].row
      /\ Holding(l, c) /\ Ordered(c) /\ Gapless(c) /\ OwnLens(c)
      /\ InOrder(got[c]) /\ InOrder(t)
      /\ Precede(RowsOf(t), {x.row})
      /\ Precede(RowsOf(got[c]), Fetched(l))
      /\ \A n \in Fetched(l) : n <= res[c].pos
      /\ \A n \in RowsOf(got[c]) : n <= res[c].pos
      /\ ~Reentrant => l = 1 /\ Idle(2)
  BY HeldRow
<1>3. F.op = "fetch_all" /\ F.cur = c /\ F.row = i /\ F.tbl = u
  <2>1. frame[l] \in Frame  BY <1>1 DEF TypeOK
  <2> HIDE DEF u
  <2> QED  BY <2>1 DEF Frame
<1>4. frame' = [frame EXCEPT ![l] = F]  BY DEF Filled
<1>5. Fetched(l) = RowsOf(t) \cup {x.row}  BY <1>2 DEF Fetched
<1> HIDE DEF F, t, x
<1>6. u \in Seq(Row) /\ InOrder(u) /\ RowsOf(u) = RowsOf(t) \cup {x.row}
  BY <1>2, AppendInOrder
<1>7. /\ Len(t) \in Nat /\ Len(u) = Len(t) + 1
      /\ DOMAIN u = 1..(Len(t) + 1) /\ DOMAIN t = 1..Len(t)
      /\ \A j \in 1..Len(t) : u[j] = t[j]
      /\ u[Len(t) + 1] = x
  <2>1. t \in Seq(Row) /\ x \in Row  BY <1>2
  <2> QED  BY <2>1
<1> HIDE DEF u
<1>8. frame'[l] = F /\ \A j \in Levels \ {l} : frame'[j] = frame[j]
  BY <1>1, <1>4 DEF TypeOK
<1>9. res'[c] = r /\ \A d \in Cursors \ {c} : res'[d] = res[d]
  BY <1>1 DEF TypeOK
<1>10. /\ Fetched(l)' = Fetched(l) \cup {i}
       /\ \A j \in Levels \ {l} : Fetched(j)' = Fetched(j)
       /\ \A j \in Levels, d \in Cursors : Holding(j, d)' <=> Holding(j, d)
  <2>1. Fetched(l)' = RowsOf(u) \cup {i}
    <3>1. frame'[l].tbl = u /\ frame'[l].row = i  BY <1>3, <1>8
    <3> QED  BY <3>1 DEF Fetched
  <2>2. Fetched(l)' = Fetched(l) \cup {i}  BY <1>5, <1>6, <2>1
  <2>3. \A j \in Levels \ {l} : Fetched(j)' = Fetched(j)  BY <1>8 DEF Fetched
  <2>4. \A j \in Levels, d \in Cursors : Holding(j, d)' <=> Holding(j, d)
    <3>1. \A d \in Cursors : Holding(l, d)' <=> Holding(l, d)
      BY <1>3, <1>8 DEF Holding
    <3> QED  BY <1>8, <3>1 DEF Holding
  <2> QED  BY <2>2, <2>3, <2>4
<1>11. /\ \A n \in RowsOf(got[c]) : n \in Nat
       /\ \A j \in Levels : \A n \in Fetched(j) : n \in Nat
  <2>1. \A j \in Levels : frame[j].row \in Nat /\ frame[j].tbl \in Seq(Row)
    BY <1>1, ConstantTypes DEF TypeOK, Frame
  <2> QED  BY <1>2, <2>1, RowNumbers DEF Fetched
<1>12. res[c].pos \in Nat /\ i = res[c].pos + 1 /\ i \in Nat
  <2>1. res[c].pos \in Nat  BY <1>2
  <2> QED  BY <2>1
<1>13. Calls'
  <2>1. ~Reentrant => Idle(2)'
    <3>1. ~Reentrant => l = 1 /\ Idle(2)  BY <1>2
    <3> QED  BY <1>8, <3>1 DEF Idle, Levels
  <2>2. \A j \in Levels : frame'[j].op = "fetch" => frame'[j].tbl = <<>>
    BY <1>1, <1>3, <1>8 DEF Calls
  <2> QED  BY <2>1, <2>2 DEF Calls
<1>14. ASSUME NEW d \in Cursors, d # c PROVE CursorRows(d)'
  <2>1. Kept(d)  BY <1>9, <1>14 DEF Kept
  <2>2. \A j \in Levels : Continues(j, d)
    BY <1>2, <1>8, <1>10, <1>14 DEF Continues, Holding
  <2> QED  BY <2>1, <2>2, Stay
<1>15. CursorRows(c)'
  <2>1. Live(c)' /\ NotYet(c)'  BY <1>9 DEF Live, NotYet
  <2>2. Owned(c)'  BY <1>2 DEF Owned
  <2>3. Ordered(c)'
    <3>1. res'[c].pos <= res'[c].rows /\ \A n \in RowsOf(got'[c]) : n <= res'[c].pos
      <4>1. \A n \in RowsOf(got[c]) : n \in Nat /\ n <= res[c].pos
        BY <1>2, <1>11
      <4>2. \A n \in RowsOf(got[c]) : n <= i  BY <1>12, <4>1
      <4> QED  BY <1>9, <4>2
    <3>2. \A j \in Levels : Holding(j, c) => \A n \in Fetched(j) : n <= res[c].pos
      BY <1>2 DEF Ordered
    <3>3. ASSUME NEW j \in Levels, Holding(j, c)'
          PROVE  /\ InOrder(frame'[j].tbl)
                 /\ Precede(RowsOf(frame'[j].tbl), {frame'[j].row})
                 /\ Precede(RowsOf(got'[c]), Fetched(j)')
                 /\ \A n \in Fetched(j)' : n <= res'[c].pos
      <4>1. CASE j = l
        <5>1. \A n \in Fetched(l) : n \in Nat /\ n <= res[c].pos  BY <1>2, <1>11
        <5>2. Precede(RowsOf(u), {i})
          BY <1>12, <1>5, <1>6, <5>1 DEF Precede
        <5>3. Precede(RowsOf(got[c]), Fetched(l) \cup {i})
          <6>1. \A n \in RowsOf(got[c]) : n \in Nat /\ n <= res[c].pos
            BY <1>2, <1>11
          <6>2. \A n \in RowsOf(got[c]) : n < i  BY <1>12, <6>1
          <6>3. Precede(RowsOf(got[c]), Fetched(l))  BY <1>2
          <6> QED  BY <1>12, <6>1, <6>2, <6>3 DEF Precede
        <5>4. \A n \in Fetched(l) \cup {i} : n <= i  BY <1>12, <5>1
        <5> QED  BY <1>3, <1>6, <1>8, <1>9, <1>10, <4>1, <5>2, <5>3, <5>4
      <4>2. CASE j # l
        <5>1. Holding(j, c) /\ Fetched(j)' = Fetched(j) /\ frame'[j] = frame[j]
          BY <1>8, <1>10, <3>3, <4>2
        <5>2. /\ InOrder(frame[j].tbl)
              /\ Precede(RowsOf(frame[j].tbl), {frame[j].row})
              /\ Precede(RowsOf(got[c]), Fetched(j))
          BY <1>2, <5>1 DEF Ordered
        <5>3. \A n \in Fetched(j) : n <= i
          <6>1. \A n \in Fetched(j) : n \in Nat /\ n <= res[c].pos
            BY <1>11, <3>2, <5>1
          <6> QED  BY <1>12, <6>1
        <5> QED  BY <1>9, <5>1, <5>2, <5>3
      <4> QED  BY <4>1, <4>2
    <3>4. ASSUME Holding(1, c)', Holding(2, c)'
          PROVE  Fetched(1)' \cap Fetched(2)' = {}
      <4>1. 1 \in Levels /\ 2 \in Levels /\ l \in {1, 2}  BY DEF Levels
      <4>2. /\ Holding(1, c) /\ Holding(2, c) /\ Fetched(1) \cap Fetched(2) = {}
            /\ \A n \in Fetched(1) \cup Fetched(2) : n \in Nat /\ n <= res[c].pos
        BY <1>2, <1>10, <1>11, <3>2, <3>4, <4>1 DEF Ordered
      <4>3. i \notin Fetched(1) \cup Fetched(2)  BY <1>12, <4>2
      <4> QED  BY <1>10, <4>1, <4>2, <4>3
    <3> QED  BY <1>2, <3>1, <3>3, <3>4 DEF Ordered
  <2>4. Gapless(c)'
    <3> SUFFICES ASSUME ~Reentrant, ~AllocThrows
                 PROVE  /\ Follow(got[c], 0) /\ Holding(1, c)'
                        /\ Follow(u, Len(got[c]))
                        /\ i = Len(got[c]) + Len(u) + 1
      <4>1. ~Reentrant => frame'[1].tbl = u /\ frame'[1].row = i
        BY <1>2, <1>3, <1>8
      <4> QED  BY <1>9, <4>1 DEF Gapless
    <3>1. l = 1 /\ Holding(1, c) /\ Holding(1, c)'  BY <1>2, <1>10
    <3>2. /\ Follow(got[c], 0) /\ Follow(t, Len(got[c]))
          /\ frame[1].row = Len(got[c]) + Len(t) + 1
          /\ res[c].pos = frame[1].row
      BY <1>2, <3>1 DEF Gapless, t
    <3>3. x.row = Len(got[c]) + Len(t) + 1  BY <1>2, <3>1, <3>2
    <3>4. Len(got[c]) \in Nat
      <4>1. got[c] \in Seq(Row)  BY <1>2
      <4> QED  BY <4>1
    <3>5. Follow(u, Len(got[c])) /\ Len(u) = Len(t) + 1
      BY <1>2, <3>2, <3>3, <3>4, AppendFollows DEF u
    <3>6. i = Len(got[c]) + Len(u) + 1
      <4>1. i = x.row + 1  BY <1>2, <3>1, <3>2
      <4>2. PICK p \in Nat, q \in Nat : p = Len(got[c]) /\ q = Len(t)  BY <1>7, <3>4
      <4>3. i = p + q + 1 + 1 /\ Len(u) = q + 1  BY <3>3, <3>5, <4>1, <4>2
      <4>4. i = p + (q + 1) + 1  BY <4>3
      <4> QED  BY <4>2, <4>3, <4>4
    <3> QED  BY <3>1, <3>2, <3>5, <3>6
  <2>5. OwnLens(c)'
    <3>1. ~Reentrant => frame'[1].op = "fetch_all"  BY <1>2, <1>3, <1>8
    <3> QED  BY <1>2, <3>1 DEF OwnLens
  <2> QED  BY <2>1, <2>2, <2>3, <2>4, <2>5 DEF CursorRows
<1> QED  BY <1>13, <1>14, <1>15 DEF RowsSound

(* fetch_all gives its table and nullifies the cursor.                     *)
LEMMA AllRowsGiven ==
  ASSUME RowInv, NEW l \in Levels, frame[l].op = "fetch_all",
         NEW c \in Cursors, c = frame[l].cur, Live(c),
         NEW r \in MYSQL_RES, NEW my \in [Conns -> MYSQL], nullify(c, r, my),
         got' = [got EXCEPT ![c] = got[c] \o Filled(frame[l])],
         frame' = [frame EXCEPT ![l] = NoFrame]
  PROVE  /\ RowsSound'
         /\ ~Reentrant /\ ~AllocThrows => Len(got'[c]) = res[c].pos
<1> DEFINE x == Converted(frame[l])
           t == frame[l].tbl
           u == Append(t, x)
<1>1. TypeOK /\ Calls /\ IInv  BY DEF RowInv, IInv, RowsSound
<1>2. /\ cursor[c].my_res
      /\ got[c] \in Seq(Row) /\ t \in Seq(Row)
      /\ x \in Row /\ x.row = frame[l].row
      /\ Holding(l, c) /\ Ordered(c) /\ Gapless(c)
      /\ InOrder(got[c]) /\ InOrder(t)
      /\ Precede(RowsOf(t), {x.row})
      /\ Precede(RowsOf(got[c]), Fetched(l))
      /\ ~Reentrant => l = 1
  BY HeldRow
<1>3. Fetched(l) = RowsOf(t) \cup {x.row}  BY <1>2 DEF Fetched
<1>4. got' = [got EXCEPT ![c] = got[c] \o u]  BY DEF Filled
<1>5. frame'[l].op = "none" /\ \A j \in Levels \ {l} : frame'[j] = frame[j]
  BY <1>1 DEF TypeOK, NoFrame
<1>6. /\ res'[c].state = "freed" /\ \A d \in Cursors \ {c} : Kept(d)
  BY <1>1, <1>2, NullifyStep DEF Kept
<1> HIDE DEF t, x
<1>7. u \in Seq(Row) /\ InOrder(u) /\ RowsOf(u) = RowsOf(t) \cup {x.row}
  BY <1>2, AppendInOrder
<1>8. /\ Len(t) \in Nat /\ Len(u) = Len(t) + 1
      /\ DOMAIN u = 1..(Len(t) + 1) /\ DOMAIN t = 1..Len(t)
      /\ \A j \in 1..Len(t) : u[j] = t[j]
      /\ u[Len(t) + 1] = x
  <2>1. t \in Seq(Row) /\ x \in Row  BY <1>2
  <2> QED  BY <2>1
<1> HIDE DEF u
<1>9. got'[c] = got[c] \o u /\ \A d \in Cursors \ {c} : got'[d] = got[d]
  BY <1>1, <1>4 DEF TypeOK
<1>10. InOrder(got'[c])
  <2>1. Precede(RowsOf(got[c]), RowsOf(u))  BY <1>2, <1>3, <1>7
  <2>2. InOrder(got[c] \o u)  BY <1>2, <1>7, <2>1, ConcatInOrder
  <2> QED  BY <1>9, <2>2
<1>11. ASSUME ~Reentrant, ~AllocThrows
       PROVE  Follow(got'[c], 0) /\ Len(got'[c]) = res[c].pos
  <2>1. l = 1 /\ Holding(1, c)  BY <1>2, <1>11
  <2>2. /\ Follow(got[c], 0) /\ Follow(t, Len(got[c]))
        /\ frame[1].row = Len(got[c]) + Len(t) + 1
        /\ res[c].pos = frame[1].row
    BY <1>2, <1>11, <2>1 DEF Gapless, t
  <2>3. x.row = Len(got[c]) + Len(t) + 1 /\ res[c].pos = x.row  BY <1>2, <2>1, <2>2
  <2>4. Len(got[c]) \in Nat
    <3>1. got[c] \in Seq(Row)  BY <1>2
    <3> QED  BY <3>1
  <2>5. Follow(u, Len(got[c])) /\ Len(u) = Len(t) + 1
    BY <1>2, <2>2, <2>3, <2>4, AppendFollows DEF u
  <2>6. Follow(u, 0 + Len(got[c]))
    <3>1. 0 + Len(got[c]) = Len(got[c])  BY <2>4
    <3> QED  BY <2>5, <3>1
  <2>7. Follow(got[c] \o u, 0) /\ Len(got[c] \o u) = Len(got[c]) + Len(u)
    <3>1. got[c] \in Seq(Row)  BY <1>2
    <3> QED  BY <1>7, <2>2, <2>6, <3>1, ConcatFollows
  <2>8. Len(got[c]) + Len(u) = x.row
    <3>1. PICK p \in Nat, q \in Nat : p = Len(got[c]) /\ q = Len(t)  BY <1>8, <2>4
    <3>2. x.row = p + q + 1 /\ Len(u) = q + 1  BY <2>3, <2>5, <3>1
    <3>3. x.row = p + (q + 1)  BY <3>2
    <3> QED  BY <3>1, <3>2, <3>3
  <2> QED  BY <1>9, <2>3, <2>7, <2>8
<1>12. Calls'  BY <1>1, <1>5 DEF Calls, Idle, Levels
<1>13. ASSUME NEW d \in Cursors, d # c PROVE CursorRows(d)'
  <2>1. \A j \in Levels : Continues(j, d)
    BY <1>2, <1>5, <1>13 DEF Continues, Holding
  <2> QED  BY <1>6, <1>9, <1>13, <2>1, Stay
<1>14. CursorRows(c)'
  BY <1>6, <1>10, <1>11
     DEF CursorRows, NotYet, Owned, Ordered, Gapless, OwnLens, Live
<1> QED  BY <1>11, <1>12, <1>13, <1>14 DEF RowsSound

-----------------------------------------------------------------------------
(* The steps of the program *)

(* StoredResultComplete, of one step, where it is proved.                  *)
FullAnswers ==
  ~Reentrant /\ ~AllocThrows =>
    \A c \in Cursors :
      res[c].stored /\ ret'.on = c /\ ret'.val \in {"end", "rows"}
        => Len(got'[c]) = res[c].rows

(* A step between the rows, and without an answer about them.              *)
LEMMA OtherSteps ==
  ASSUME RowInv, UNCHANGED <<cursor, res, got, frame>>, ret'.val \notin {"end", "rows"}
  PROVE  RowsSound' /\ FullAnswers
BY QuietRows DEF FullAnswers

LEMMA RejectedRows ==
  ASSUME RowInv, Rejected
  PROVE  RowsSound' /\ FullAnswers
BY OtherSteps DEF Rejected, Throw, Return, lib

(* mysql_fetch_row gave fetch or fetch_all no row: the script has all of a *)
(* stored result.                                                          *)
LEMMA AllGiven ==
  ASSUME RowInv, NEW l \in Levels, frame[l].op \notin {"fetch", "fetch_all"},
         ~Reentrant => l = 1, NEW c \in Cursors, cursor[c].my_res,
         res[c].stored => res[c].rows <= res[c].pos,
         UNCHANGED got, ret'.on = c
  PROVE  FullAnswers
<1>1. Live(c) /\ CursorRows(c) /\ TypeOK
  BY DEF RowInv, IInv, ResultOwned, RowsSound, Live
<1>2. res[c].pos \in Nat /\ res[c].rows \in Nat /\ res[c].pos <= res[c].rows
  <2>1. res[c] \in MYSQL_RES  BY <1>1 DEF TypeOK
  <2>2. res[c].pos <= res[c].rows  BY <1>1 DEF CursorRows, Ordered
  <2> QED  BY <2>1, <2>2, ConstantTypes DEF MYSQL_RES
<1>3. ~Reentrant /\ ~AllocThrows => res[c].pos = Len(got[c])
  <2>1. ~Reentrant => ~Holding(1, c)  BY DEF Holding
  <2> QED  BY <1>1, <2>1 DEF CursorRows, Gapless
<1>4. res[c].stored => res[c].pos = res[c].rows  BY <1>2
<1> QED  BY <1>3, <1>4 DEF FullAnswers

LEMMA FetchRowRows ==
  ASSUME RowInv, NEW l \in Levels, frame[l].op \notin {"fetch", "fetch_all"},
         ~Reentrant => l = 1, NEW c \in Cursors, FetchRow(l, c)
  PROVE  RowsSound' /\ FullAnswers
<1>1. TypeOK /\ res[c] \in MYSQL_RES /\ mysql \in [Conns -> MYSQL]
  BY DEF RowInv, IInv, TypeOK
<1>2. PICK f \in mysql_fetch_row(res[c], mysql) :
        /\ mysql' = f.my
        /\ IF f.row = 0
           THEN /\ res' = [res EXCEPT ![c] = f.r]
                /\ Leave(l)
                /\ Return("end", c)
                /\ UNCHANGED cursor
           ELSE /\ res' = [res EXCEPT ![c] = WithLengths(c, f.r)]
                /\ cursor' = [cursor EXCEPT ![c].fields = TRUE]
                /\ Enter(l, [NoFrame EXCEPT !.op = "fetch", !.cur = c,
                                            !.row = f.row])
                /\ Quiet
  BY DEF FetchRow
<1>3. cursor[c].my_res /\ UNCHANGED got  BY DEF FetchRow
<1>4. /\ f.row \in 0..MaxRows /\ f.r \in MYSQL_RES /\ f.r.state = res[c].state
      /\ f.r.rows = res[c].rows /\ f.r.lens = res[c].lens
      /\ f.row # 0 => /\ f.row = res[c].pos + 1 /\ f.row <= res[c].rows
                      /\ f.r.pos = f.row /\ f.r.cur = f.row
      /\ f.row = 0 => f.r.pos = res[c].pos /\ (res[c].stored => res[c].rows <= res[c].pos)
  BY <1>1, ValuesFacts, FetchRowType, FetchRowPos
<1>5. CASE f.row = 0
  <2>1. /\ res' = [res EXCEPT ![c] = f.r] /\ frame' = [frame EXCEPT ![l] = NoFrame]
        /\ ret'.on = c /\ UNCHANGED cursor
    BY <1>2, <1>5 DEF Leave, Return
  <2>2. \A d \in Cursors : Kept(d)  BY <1>1, <1>4, <1>5, <2>1 DEF Kept, TypeOK
  <2>3. \A j \in Levels : Moves(j)
    BY <1>1, <2>1 DEF Moves, Idle, NoFrame, TypeOK
  <2>4. RowsSound'  BY <1>3, <2>2, <2>3, StayAll
  <2> QED  BY <1>3, <1>4, <1>5, <2>1, <2>4, AllGiven
<1>6. CASE f.row # 0
  <2> DEFINE r == mysql_fetch_lengths(f.r)
  <2>1. /\ res' = [res EXCEPT ![c] = r]
        /\ cursor' = [cursor EXCEPT ![c].fields = TRUE]
        /\ frame' = [frame EXCEPT ![l] = [NoFrame EXCEPT !.op = "fetch", !.cur = c,
                                                         !.row = f.row]]
        /\ ret'.val = "none"
    BY <1>2, <1>6 DEF WithLengths, Enter, Quiet, Silent
  <2>2. r \in MYSQL_RES /\ r.state = res[c].state /\ r.rows = res[c].rows
        /\ r.pos = f.row /\ r.lens = f.row
    BY <1>4, <1>6, FetchLengthsType DEF mysql_fetch_lengths, MYSQL_RES
  <2> HIDE DEF r
  <2>3. RowsSound'  BY <1>3, <1>4, <1>6, <2>1, <2>2, EnterRows
  <2> QED  BY <2>1, <2>3 DEF FullAnswers
<1> QED  BY <1>5, <1>6

LEMMA FetchFirstRowRows ==
  ASSUME RowInv, NEW l \in Levels, frame[l].op \notin {"fetch", "fetch_all"},
         ~Reentrant => l = 1, NEW c \in Cursors, FetchFirstRow(l, c)
  PROVE  RowsSound' /\ FullAnswers
<1>1. TypeOK /\ res[c] \in MYSQL_RES /\ mysql \in [Conns -> MYSQL]
  BY DEF RowInv, IInv, TypeOK
<1>2. PICK f \in mysql_fetch_row(res[c], mysql) :
        IF f.row = 0
        THEN /\ nullify(c, f.r, f.my)
             /\ Leave(l)
             /\ Return("end", c)
        ELSE /\ res' = [res EXCEPT ![c] = mysql_fetch_lengths(f.r)]
             /\ mysql' = f.my
             /\ cursor' = [cursor EXCEPT ![c].fields = TRUE]
             /\ Enter(l, [NoFrame EXCEPT !.op = "fetch_all", !.cur = c,
                                         !.row = f.row])
             /\ Quiet
             /\ UNCHANGED registry
  BY DEF FetchFirstRow
<1>3. cursor[c].my_res /\ UNCHANGED got  BY DEF FetchFirstRow
<1>4. /\ f.row \in 0..MaxRows /\ f.r \in MYSQL_RES /\ f.my \in [Conns -> MYSQL]
      /\ f.r.state = res[c].state /\ f.r.rows = res[c].rows
      /\ f.row # 0 => /\ f.row = res[c].pos + 1 /\ f.row <= res[c].rows
                      /\ f.r.pos = f.row /\ f.r.cur = f.row
      /\ f.row = 0 => (res[c].stored => res[c].rows <= res[c].pos)
  BY <1>1, ValuesFacts, FetchRowType, FetchRowPos
<1>5. CASE f.row = 0
  <2>1. /\ nullify(c, f.r, f.my) /\ frame' = [frame EXCEPT ![l] = NoFrame]
        /\ ret'.on = c
    BY <1>2, <1>5 DEF Leave, Return
  <2>2. \A d \in Cursors : Kept(d)  BY <1>4, <2>1, NullifyRows
  <2>3. \A j \in Levels : Moves(j)
    BY <1>1, <2>1 DEF Moves, Idle, NoFrame, TypeOK
  <2>4. RowsSound'  BY <1>3, <2>2, <2>3, StayAll
  <2> QED  BY <1>3, <1>4, <1>5, <2>1, <2>4, AllGiven
<1>6. CASE f.row # 0
  <2> DEFINE r == mysql_fetch_lengths(f.r)
  <2>1. /\ res' = [res EXCEPT ![c] = r]
        /\ cursor' = [cursor EXCEPT ![c].fields = TRUE]
        /\ frame' = [frame EXCEPT ![l] = [NoFrame EXCEPT !.op = "fetch_all", !.cur = c,
                                                         !.row = f.row]]
        /\ ret'.val = "none"
    BY <1>2, <1>6 DEF Enter, Quiet, Silent
  <2>2. r \in MYSQL_RES /\ r.state = res[c].state /\ r.rows = res[c].rows
        /\ r.pos = f.row /\ r.lens = f.row
    BY <1>4, <1>6, FetchLengthsType DEF mysql_fetch_lengths, MYSQL_RES
  <2> HIDE DEF r
  <2>3. RowsSound'  BY <1>3, <1>4, <1>6, <2>1, <2>2, EnterRows
  <2> QED  BY <2>1, <2>3 DEF FullAnswers
<1> QED  BY <1>5, <1>6

LEMMA AllRowToTableRows ==
  ASSUME RowInv, NEW l \in Levels, fetch_all_row_to_table(l)
  PROVE  RowsSound' /\ FullAnswers
<1>0. PICK c \in Cursors : c = frame[l].cur
  BY DEF fetch_all_row_to_table, RowInv, IInv, FramesSound, CallSound
<1>1. CASE StaleRow
  BY <1>1, OtherSteps DEF StaleRow, Quiet, Silent, lib
<1>2. CASE ~StaleRow
  <2>1. PICK g \in mysql_fetch_row(res[c], mysql) :
          IF g.row # 0
          THEN /\ Enter(l, [frame[l] EXCEPT !.row = g.row, !.tbl = Filled(frame[l])])
               /\ res' = [res EXCEPT ![c] = g.r]
               /\ mysql' = g.my
               /\ Quiet
               /\ UNCHANGED <<cursor, registry, got>>
          ELSE /\ nullify(c, g.r, g.my)
               /\ got' = [got EXCEPT ![c] = got[c] \o Filled(frame[l])]
               /\ Leave(l)
               /\ Return("rows", c)
    BY <1>0, <1>2 DEF fetch_all_row_to_table
  <2>2. frame[l].op = "fetch_all" /\ Live(c)
    BY <1>0, <1>2 DEF fetch_all_row_to_table, RowReadable, Live
  <2>3. res[c] \in MYSQL_RES /\ mysql \in [Conns -> MYSQL]
    BY DEF RowInv, IInv, TypeOK
  <2>4. /\ g.row \in 0..MaxRows /\ g.r \in MYSQL_RES /\ g.my \in [Conns -> MYSQL]
        /\ g.r.state = res[c].state /\ g.r.rows = res[c].rows
        /\ g.row # 0 => /\ g.row = res[c].pos + 1 /\ g.row <= res[c].rows
                        /\ g.r.pos = g.row
        /\ g.row = 0 => (res[c].stored => res[c].rows <= res[c].pos)
    BY <2>3, ValuesFacts, FetchRowType, FetchRowPos
  <2>5. CASE g.row # 0
    <3>1. /\ frame' = [frame EXCEPT ![l] =
                         [frame[l] EXCEPT !.row = g.row, !.tbl = Filled(frame[l])]]
          /\ res' = [res EXCEPT ![c] = g.r]
          /\ UNCHANGED <<cursor, got>> /\ ret'.val = "none"
      BY <2>1, <2>5 DEF Enter, Quiet, Silent
    <3>2. RowsSound'  BY <1>0, <2>2, <2>4, <2>5, <3>1, NextRowRows
    <3> QED  BY <3>1, <3>2 DEF FullAnswers
  <2>6. CASE g.row = 0
    <3>0. /\ nullify(c, g.r, g.my)
          /\ got' = [got EXCEPT ![c] = got[c] \o Filled(frame[l])]
          /\ Leave(l) /\ Return("rows", c)
      BY <2>1, <2>6
    <3>1. frame' = [frame EXCEPT ![l] = NoFrame] /\ ret'.on = c
      BY <3>0 DEF Leave, Return
    <3>2. /\ RowsSound'
          /\ ~Reentrant /\ ~AllocThrows => Len(got'[c]) = res[c].pos
      BY <1>0, <2>2, <2>4, <3>0, <3>1, AllRowsGiven
    <3>3. res[c].pos <= res[c].rows
      BY <2>2 DEF RowInv, RowsSound, CursorRows, Ordered
    <3>4. res[c].stored => res[c].pos = res[c].rows
      <4>1. res[c].pos \in Nat /\ res[c].rows \in Nat
        BY <2>3, ConstantTypes DEF MYSQL_RES
      <4> QED  BY <2>4, <2>6, <3>3, <4>1
    <3> QED  BY <3>1, <3>2, <3>4 DEF FullAnswers
  <2> QED  BY <2>5, <2>6
<1> QED  BY <1>1, <1>2

(* A call is entered to convert its arguments.                             *)
LEMMA ConvertRows ==
  ASSUME RowInv, NEW l \in Levels, Idle(l), NEW f \in Frame,
         f.op \notin {"fetch", "fetch_all"}, ConvertArguments(l, f)
  PROVE  RowsSound' /\ FullAnswers
<1>1. /\ l = 1 /\ frame' = [frame EXCEPT ![l] = f] /\ ret'.val = "none"
      /\ UNCHANGED <<got, res, cursor>>
  BY DEF ConvertArguments, Enter, Quiet, Silent, lib
<1>2. /\ \A c \in Cursors : cursor[c].my_res => cursor'[c].my_res
      /\ frame[l].op \notin {"fetch", "fetch_all"}
      /\ l # 2
  BY <1>1 DEF Idle
<1>3. RowsSound'  BY <1>1, <1>2, FrameRows
<1> QED  BY <1>1, <1>3 DEF FullAnswers

(* fetch and fetch_all, called or with their option converted.             *)
LEMMA FetchRows ==
  ASSUME RowInv, NEW l \in Levels, NEW c \in Cursors,
         cursor_fetch(l, c) \/ cursor_fetch_all(l, c)
  PROVE  RowsSound' /\ FullAnswers
<1>1. /\ Idle(l) /\ frame[l].op \notin {"fetch", "fetch_all"}
      /\ ~Reentrant => l = 1
  BY OneCall DEF cursor_fetch, cursor_fetch_all, Callable, Idle
<1>2. CASE Rejected  BY <1>2, RejectedRows
<1>3. ASSUME NEW o \in {"fetch_opt", "fetch_all_opt"},
             ConvertArguments(l, [NoFrame EXCEPT !.op = o, !.cur = c])
      PROVE  RowsSound' /\ FullAnswers
  <2>1. Optional(o, c) \in Frame  BY OptionFrame
  <2>2. Optional(o, c).op = o  BY DEF Optional, NoFrame
  <2> QED  BY <1>1, <1>3, <2>1, <2>2, ConvertRows DEF Optional
<1>4. CASE FetchRow(l, c)  BY <1>1, <1>4, FetchRowRows
<1>5. CASE FetchFirstRow(l, c)  BY <1>1, <1>5, FetchFirstRowRows
<1> QED  BY <1>2, <1>3, <1>4, <1>5 DEF cursor_fetch, cursor_fetch_all

LEMMA OptionConvertedRows ==
  ASSUME RowInv, NEW l \in Levels, option_converted(l)
  PROVE  RowsSound' /\ FullAnswers
<1>0. PICK c \in Cursors : c = frame[l].cur
  BY DEF option_converted, RowInv, IInv, FramesSound, CallSound
<1>1. frame[l].op \notin {"fetch", "fetch_all"} /\ (~Reentrant => l = 1)
  BY OneCall DEF option_converted
<1>2. CASE NullResult(c)
  BY <1>2, OtherSteps DEF NullResult, Quiet, Silent, lib
<1>3. CASE FetchRow(l, c)  BY <1>1, <1>3, FetchRowRows
<1>4. CASE FetchFirstRow(l, c)  BY <1>1, <1>4, FetchFirstRowRows
<1> QED  BY <1>0, <1>2, <1>3, <1>4 DEF option_converted

(* connect, at once or after it converted its arguments.                   *)
LEMMA ConnectRows ==
  ASSUME RowInv, NEW l \in Levels,
         (\E k \in Conns : conn_connect(l, k)) \/ connect_converted(l)
  PROVE  RowsSound' /\ FullAnswers
<1>1. ASSUME NEW k, real_connect(k)
      PROVE  UNCHANGED <<cursor, res, got>> /\ ret'.val \notin {"end", "rows"}
  BY <1>1 DEF real_connect, Quiet, Silent, Throw, Return
<1>2. ASSUME NEW k \in Conns, conn_connect(l, k)
      PROVE  RowsSound' /\ FullAnswers
  <2>1. CASE Rejected  BY <2>1, RejectedRows
  <2>2. CASE ConvertArguments(l, [NoFrame EXCEPT !.op = "connect", !.conn = k])
    <3>1. Idle(l)  BY <1>2 DEF conn_connect, Callable, Idle
    <3>2. Configured(k) \in Frame  BY ConfigFrame
    <3>3. Configured(k).op = "connect"  BY DEF Configured, NoFrame
    <3> QED  BY <2>2, <3>1, <3>2, <3>3, ConvertRows DEF Configured
  <2>3. CASE real_connect(k) /\ UNCHANGED frame  BY <1>1, <2>3, OtherSteps
  <2> QED  BY <1>2, <2>1, <2>2, <2>3 DEF conn_connect
<1>3. CASE connect_converted(l)
  <2>1. /\ frame[l].op = "connect" /\ real_connect(frame[l].conn)
        /\ frame' = [frame EXCEPT ![l] = NoFrame]
    BY <1>3 DEF connect_converted, Leave
  <2>2. UNCHANGED <<cursor, res, got>> /\ ret'.val \notin {"end", "rows"}
    BY <1>1, <2>1
  <2>3. RowsSound'  BY <2>1, <2>2, NoFrameType, FrameRows
  <2> QED  BY <2>2, <2>3 DEF FullAnswers
<1> QED  BY <1>2, <1>3

(* The other calls of connections: execute makes a result nobody read.     *)
LEMMA ConnRows ==
  ASSUME RowInv, NEW l \in Levels, NEW k \in Conns,
         \/ conn_close(l, k) \/ conn_set_reconnect(l, k) \/ conn_ping(l, k)
         \/ conn_commit_rollback(l, k) \/ conn_execute(l, k)
  PROVE  RowsSound' /\ FullAnswers
<1>1. CASE Rejected  BY <1>1, RejectedRows
<1>2. CASE NullMethods  BY <1>2, OtherSteps DEF NullMethods, Quiet, Silent, lib
<1>3. CASE command(k)
  BY <1>3, OtherSteps DEF command, Quiet, Silent, Throw, Return
<1>4. CASE conn_close(l, k)
  BY <1>4, OtherSteps DEF conn_close, Quiet, Silent
<1>5. CASE conn_set_reconnect(l, k)
  BY <1>1, <1>5, OtherSteps DEF conn_set_reconnect, Quiet, Silent
<1>6. ASSUME SendQuery(l, k), Callable(l)
      PROVE  RowsSound' /\ FullAnswers
  <2>1. CASE UNCHANGED <<cursor, res, got, frame>> /\ ret'.val \notin {"end", "rows"}
    BY <2>1, OtherSteps
  <2>2. ASSUME NEW all \in BOOLEAN, NEW c \in Cursors, NEW n \in 0..MaxRows,
               res[c].state = "none",
               res' = [res EXCEPT ![c] = new_result(k, n, all)],
               Enter(l, [NoFrame EXCEPT !.op = "execute", !.conn = k, !.cur = c]),
               Quiet, UNCHANGED <<cursor, got>>
        PROVE  RowsSound' /\ FullAnswers
    <3> DEFINE F == [NoFrame EXCEPT !.op = "execute", !.conn = k, !.cur = c]
               r == new_result(k, n, all)
    <3>1. TypeOK /\ Calls /\ CursorRows(c) /\ Idle(l) /\ (~Reentrant => l = 1)
      BY <1>6, OneCall DEF RowInv, IInv, RowsSound, Callable
    <3>2. F.op = "execute"  BY DEF NoFrame
    <3>3. /\ r.state = "live" /\ r.pos = 0 /\ r.rows = n
      BY DEF new_result, NoResult
    <3>4. frame' = [frame EXCEPT ![l] = F] /\ res' = [res EXCEPT ![c] = r]
          /\ ret'.val = "none"
      BY <2>2 DEF Enter, Quiet, Silent
    <3> HIDE DEF F, r
    <3>5. /\ frame'[l] = F /\ \A j \in Levels \ {l} : frame'[j] = frame[j]
          /\ res'[c] = r /\ \A d \in Cursors \ {c} : res'[d] = res[d]
      BY <3>1, <3>4 DEF TypeOK
    <3>6. Calls'  BY <3>1, <3>2, <3>5 DEF Calls, Idle, Levels
    <3>7. \A j \in Levels, d \in Cursors : Continues(j, d)
      BY <3>1, <3>2, <3>5 DEF Continues, Holding, Idle
    <3>8. ASSUME NEW d \in Cursors, d # c PROVE CursorRows(d)'
      <4>1. Kept(d) /\ got'[d] = got[d]  BY <2>2, <3>5, <3>8 DEF Kept
      <4> QED  BY <3>7, <4>1, Stay
    <3>9. CursorRows(c)'
      <4>1. got'[c] = <<>> /\ \A j \in Levels : ~Holding(j, c)
        BY <2>2, <3>1 DEF CursorRows, NotYet
      <4>2. \A j \in Levels : ~Holding(j, c)'
        BY <3>2, <3>5, <4>1 DEF Holding
      <4>3. 1 \in Levels /\ n \in Nat  BY ConstantTypes DEF Levels
      <4>4. /\ InOrder(<<>>) /\ RowsOf(<<>>) = {} /\ Follow(<<>>, 0)
            /\ Len(<<>>) = 0 /\ DOMAIN <<>> = {}
        BY DEF InOrder, RowsOf, Follow
      <4>5. NotYet(c)' /\ Owned(c)'  BY <3>3, <3>5, <4>2 DEF NotYet, Owned
      <4>6. Ordered(c)'
        BY <3>3, <3>5, <4>1, <4>2, <4>3, <4>4 DEF Ordered
      <4>7. Gapless(c)'  BY <3>3, <3>5, <4>1, <4>2, <4>3, <4>4 DEF Gapless
      <4>8. OwnLens(c)'  BY <4>1, <4>2, <4>3, <4>4 DEF OwnLens
      <4> QED  BY <4>5, <4>6, <4>7, <4>8 DEF CursorRows
    <3> QED  BY <3>4, <3>6, <3>8, <3>9 DEF RowsSound, FullAnswers
  <2>3. PICK q \in Statement(k) :
          \/ /\ ~q.cols
             /\ mysql' = [mysql EXCEPT ![k] = q.m]
             /\ IF q.ok THEN Return("affected", k) ELSE Throw
             /\ UNCHANGED <<stage, heap, held, registry, closed, cursor, res, got,
                            frame, fault>>
          \/ /\ q.cols
             /\ \E all \in BOOLEAN, c \in Cursors : \E r \in ReadResult(q.m, all) :
                  /\ res[c].state = "none"
                  /\ mysql' = [mysql EXCEPT ![k] = r.m]
                  /\ IF r.ok
                     THEN /\ \E n \in 0..MaxRows :
                               res' = [res EXCEPT ![c] = new_result(k, n, all)]
                          /\ Enter(l, [NoFrame EXCEPT !.op = "execute", !.conn = k,
                                                      !.cur = c])
                          /\ Quiet
                     ELSE /\ Return("nothing", k)
                          /\ UNCHANGED <<res, frame>>
             /\ UNCHANGED <<stage, heap, held, registry, closed, cursor, got, fault>>
    BY <1>6 DEF SendQuery
  <2>4. CASE ~q.cols
    <3>1. /\ UNCHANGED <<cursor, res, got, frame>>
          /\ Return("affected", k) \/ Throw
      BY <2>3, <2>4
    <3>2. ret'.val \notin {"end", "rows"}  BY <3>1 DEF Return, Throw
    <3> QED  BY <2>1, <3>1, <3>2
  <2>5. CASE q.cols
    <3>1. PICK all \in BOOLEAN, c \in Cursors : \E r \in ReadResult(q.m, all) :
            /\ res[c].state = "none"
            /\ mysql' = [mysql EXCEPT ![k] = r.m]
            /\ IF r.ok
               THEN /\ \E n \in 0..MaxRows :
                         res' = [res EXCEPT ![c] = new_result(k, n, all)]
                    /\ Enter(l, [NoFrame EXCEPT !.op = "execute", !.conn = k,
                                                !.cur = c])
                    /\ Quiet
               ELSE /\ Return("nothing", k)
                    /\ UNCHANGED <<res, frame>>
      BY <2>3, <2>5
    <3>2. UNCHANGED <<cursor, got>>  BY <2>3, <2>5
    <3>3. CASE Return("nothing", k) /\ UNCHANGED <<res, frame>>
      BY <2>1, <3>2, <3>3 DEF Return
    <3>4. CASE /\ \E n \in 0..MaxRows : res' = [res EXCEPT ![c] = new_result(k, n, all)]
               /\ Enter(l, [NoFrame EXCEPT !.op = "execute", !.conn = k, !.cur = c])
               /\ Quiet
      BY <2>2, <3>1, <3>2, <3>4
    <3> QED  BY <3>1, <3>3, <3>4
  <2> QED  BY <2>4, <2>5
<1> QED  BY <1>1, <1>2, <1>3, <1>4, <1>5, <1>6
      DEF conn_ping, conn_commit_rollback, conn_execute

(* The calls that neither take nor give a row, and the collector.          *)
LEMMA OtherCallsRows ==
  ASSUME RowInv, NEW l \in Levels,
         \/ conn_create(l) \/ create_cursor(l) \/ create_cursor_throws(l)
         \/ call_throws(l)
  PROVE  RowsSound' /\ FullAnswers
<1>1. CASE conn_create(l)
  <2>1. UNCHANGED <<cursor, res, got, frame>> /\ ret'.val \in {"none", "error"}
    BY <1>1 DEF conn_create, Rejected, Quiet, Silent, Throw, Return, lib
  <2> QED  BY <2>1, OtherSteps
<1>2. CASE create_cursor_throws(l) \/ call_throws(l)
  <2>1. /\ AllocThrows \/ frame[l].op \notin {"fetch", "fetch_all"}
        /\ frame' = [frame EXCEPT ![l] = NoFrame]
        /\ UNCHANGED <<cursor, res, got>> /\ ret'.val = "error"
    BY <1>2 DEF create_cursor_throws, call_throws, Leave, lib, Throw, Return
  <2>2. RowsSound'  BY <2>1, NoFrameType, FrameRows
  <2> QED  BY <2>1, <2>2 DEF FullAnswers
<1>3. CASE create_cursor(l)
  <2>1. PICK c \in Cursors : c = frame[l].cur
    BY <1>3 DEF create_cursor, RowInv, IInv, FramesSound, CallSound
  <2>2. /\ frame[l].op = "execute" /\ frame' = [frame EXCEPT ![l] = NoFrame]
        /\ UNCHANGED <<res, got>> /\ ret'.val = "cursor"
        /\ cursor' = [cursor EXCEPT ![c] =
                        [conn |-> NextRef(registry), fetch_all |-> res[c].stored,
                         my_res |-> TRUE, fields |-> FALSE]]
    BY <1>3, <2>1 DEF create_cursor, Leave, Return
  <2>3. \A d \in Cursors : cursor[d].my_res => cursor'[d].my_res
    BY <2>2 DEF RowInv, IInv, TypeOK
  <2>4. RowsSound'  BY <2>2, <2>3, NoFrameType, FrameRows
  <2> QED  BY <2>2, <2>4 DEF FullAnswers
<1> QED  BY <1>1, <1>2, <1>3

(* cur:__gc(), and the finalizer.                                          *)
LEMMA GCRows ==
  ASSUME RowInv, NEW c \in Cursors, (\E l \in Levels : cursor_gc(l, c)) \/ GCTM_cursor(c)
  PROVE  RowsSound' /\ FullAnswers
<1>1. nullify(c, res[c], mysql) /\ ret'.val = "none" /\ UNCHANGED <<got, frame>>
  BY DEF cursor_gc, GCTM_cursor, cursor_nullify, Quiet, Silent
<1>2. res[c] \in MYSQL_RES /\ mysql \in [Conns -> MYSQL]  BY DEF RowInv, IInv, TypeOK
<1>3. \A d \in Cursors : Kept(d)  BY <1>1, <1>2, NullifyRows
<1>4. RowsSound'  BY <1>1, <1>3, StayAll DEF Moves
<1> QED  BY <1>1, <1>4 DEF FullAnswers

LEMMA CollectorRows ==
  ASSUME RowInv,
         \/ \E o \in Objects : Drop(o) \/ separatetobefnz(o) \/ sweep(o) \/ Resurrect(o)
         \/ \E k \in Conns : GCTM_conn(k)
         \/ lua_close \/ freeallobjects
  PROVE  RowsSound' /\ FullAnswers
<1>1. UNCHANGED <<cursor, res, got, frame>> /\ ret'.val = "none"
  BY DEF Drop, separatetobefnz, sweep, Resurrect, GCTM_conn, lua_close,
         freeallobjects, Quiet, Silent, lib
<1> QED  BY <1>1, OtherSteps

(* fetch gives no answer that ends a result.                               *)
LEMMA RowGiven ==
  ASSUME RowInv, NEW l \in Levels, fetch_row_to_table(l)
  PROVE  RowsSound' /\ FullAnswers
<1>1. CASE StaleRow  BY <1>1, OtherSteps DEF StaleRow, Quiet, Silent, lib
<1>2. CASE ~StaleRow
  <2>1. Return("row", frame[l].cur)  BY <1>2 DEF fetch_row_to_table
  <2>2. ret'.val = "row"  BY <2>1 DEF Return
  <2> QED  BY <1>2, <2>2, RowToTableRows DEF FullAnswers
<1> QED  BY <1>1, <1>2

-----------------------------------------------------------------------------

(* Every step preserves the invariant and, where no call nests and no      *)
(* allocation throws, ends a stored result with all its rows given.        *)
LEMMA StepRowInv == RowInv /\ [Next]_vars => RowInv' /\ (FullAnswers \/ UNCHANGED vars)
<1> SUFFICES ASSUME RowInv, [Next]_vars
             PROVE  RowInv' /\ (FullAnswers \/ UNCHANGED vars)
  OBVIOUS
<1>1. IInv'  BY StepIInv DEF RowInv
<1> SUFFICES RowsSound' /\ (FullAnswers \/ UNCHANGED vars)  BY <1>1 DEF RowInv
<1>2. CASE UNCHANGED vars
  BY <1>2, QuietRows DEF vars, lib
<1>3. CASE Script
  <2>1. PICK l \in Levels :
          \/ conn_create(l)
          \/ \E k \in Conns : ConnCall(l, k)
          \/ \E c \in Cursors : CursorCall(l, c)
          \/ Resume(l)
    BY <1>3 DEF Script
  <2>2. CASE conn_create(l)  BY <2>2, OtherCallsRows
  <2>3. ASSUME NEW k \in Conns, ConnCall(l, k) PROVE RowsSound' /\ FullAnswers
    BY <2>3, ConnectRows, ConnRows DEF ConnCall
  <2>4. ASSUME NEW c \in Cursors, CursorCall(l, c) PROVE RowsSound' /\ FullAnswers
    BY <2>4, GCRows, FetchRows DEF CursorCall
  <2>5. CASE Resume(l)
    BY <2>5, ConnectRows, OtherCallsRows, OptionConvertedRows, RowGiven,
       AllRowToTableRows DEF Resume
  <2> QED  BY <2>1, <2>2, <2>3, <2>4, <2>5
<1>4. CASE Collector  BY <1>4, CollectorRows, GCRows DEF Collector
<1>5. CASE lua_close \/ freeallobjects  BY <1>5, CollectorRows
<1>6. CASE Over  BY <1>2, <1>6 DEF Over
<1> QED  BY <1>2, <1>3, <1>4, <1>5, <1>6 DEF Next

(* Nothing was read yet.                                                   *)
LEMMA InitRowInv == Init => RowInv
<1> SUFFICES ASSUME Init PROVE RowsSound  BY InitIInv DEF RowInv
<1>1. \A c \in Cursors : got[c] = <<>> /\ ~Live(c)
  BY DEF Init, NoResult, Live
<1>2. \A l \in Levels : frame[l].op = "none"  BY DEF Init, NoFrame
<1>3. \A c \in Cursors, l \in Levels : ~Holding(l, c)  BY <1>2 DEF Holding
<1>4. Calls  BY <1>2 DEF Calls, Idle, Levels
<1>5. InOrder(<<>>) /\ Follow(<<>>, 0)  BY DEF InOrder, Follow
<1>6. ASSUME NEW c \in Cursors PROVE CursorRows(c)
  BY <1>1, <1>3, <1>5 DEF CursorRows, NotYet, Owned, Ordered, Gapless, OwnLens
<1> QED  BY <1>4, <1>6 DEF RowsSound

LEMMA RowInvariance == Spec => []RowInv
BY InitRowInv, StepRowInv, PTL DEF Spec

(* fetch and fetch_all give no row twice, whatever the finalizers of the   *)
(* script do; without them the rows come in the server's order, and if     *)
(* allocations do not throw either, without a gap.                         *)
THEOREM RowsSafe == Spec => []RowsInOrder
<1>1. RowInv => RowsInOrder
  <2> SUFFICES ASSUME RowInv, NEW c \in Cursors, NEW i \in DOMAIN got[c]
               PROVE  /\ \A j \in 1..(i - 1) :
                           /\ got[c][j].row # got[c][i].row
                           /\ Reentrant \/ got[c][j].row < got[c][i].row
                      /\ Reentrant \/ AllocThrows \/ (got[c][i].row = i)
    BY DEF RowsInOrder
  <2>1. InOrder(got[c])  BY DEF RowInv, RowsSound, CursorRows, Ordered
  <2>2. Reentrant \/ AllocThrows \/ Follow(got[c], 0)
    BY DEF RowInv, RowsSound, CursorRows, Gapless
  <2>3. 0 + i = i
    <3>1. got[c] \in Seq(Row)  BY DEF RowInv, IInv, TypeOK
    <3> QED  BY <3>1
  <2> QED  BY <2>1, <2>2, <2>3 DEF InOrder, Follow
<1> QED  BY <1>1, RowInvariance, PTL

(* If no finalizer of the script runs inside a call, a cursor that is read *)
(* by fetch has given every row with that row's own lengths, for it asks   *)
(* for them with each row, and nobody moves the cursor on before it has    *)
(* converted the row.                                                      *)
THEOREM LengthsSafe ==
  ASSUME ~Reentrant
  PROVE  Spec => []FetchOwnLengths
<1>1. RowInv => FetchOwnLengths
  <2> SUFFICES ASSUME RowInv, NEW c \in Cursors, cursor[c].my_res,
                      NEW i \in DOMAIN got[c]
               PROVE  got[c][i].len = got[c][i].row
    BY DEF FetchOwnLengths
  <2>1. Live(c)  BY DEF RowInv, IInv, ResultOwned, Live
  <2> QED  BY <2>1 DEF RowInv, RowsSound, CursorRows, OwnLens
<1> QED  BY <1>1, RowInvariance, PTL

(* When fetch says there are no more rows, or fetch_all returns its table, *)
(* the script has every row of a stored result, if its finalizers stay     *)
(* away from the cursor and no allocation throws.                          *)
THEOREM StoredRowsSafe ==
  ASSUME ~Reentrant, ~AllocThrows
  PROVE  Spec => StoredResultComplete
<1>1. RowInv /\ [Next]_vars =>
        [\A c \in Cursors :
           res[c].stored /\ ret'.on = c /\ ret'.val \in {"end", "rows"}
             => Len(got'[c]) = res[c].rows]_vars
  BY StepRowInv DEF FullAnswers
<1> QED  BY <1>1, RowInvariance, PTL DEF Spec, StoredResultComplete
=============================================================================
