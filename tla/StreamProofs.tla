---------------------------- MODULE StreamProofs ----------------------------
(***************************************************************************)
(* That every cursor is a row stream, for results of any length and any    *)
(* number of connections and cursors.                                      *)
(***************************************************************************)
EXTENDS CursorStream, RowProofs

(* One call at a time, and none is cut off by a memory error.              *)
Alone == ~Reentrant /\ ~AllocThrows

(* fetch_all is only given to cursors of stored results, ...               *)
KindRight(c) == cursor[c].my_res /\ cursor[c].fetch_all => res[c].stored

(* ... so a fetch_all in progress works on one; and a result that execute  *)
(* is about to hand over can be read.                                      *)
CallRight(l) ==
  /\ frame[l].op \notin {"connect", "fetch_opt", "fetch_all_opt"}
  /\ \A c \in Cursors : frame[l].cur = c /\ Live(c) =>
       /\ frame[l].op = "fetch_all" => res[c].stored
       /\ frame[l].op = "execute" => res[c].stored \/ res[c].handle # NULL

Kinds ==
  /\ \A c \in Cursors : KindRight(c)
  /\ \A l \in Levels : CallRight(l)

StreamInv == RowInv /\ Kinds

-----------------------------------------------------------------------------
(* Steps of the stream, from what a step does to each cursor *)

News == {"cursor", "row", "rows", "end"}

SameStream(c) == StreamOf(c)' = StreamOf(c) /\ got'[c] = got[c]

LEMMA Unsaid ==
  ASSUME \A c \in Cursors : SameStream(c), ret'.val \notin News
  PROVE  Abstract!Next
<1>1. Said' = Silent  BY DEF Said, News
<1>2. \A c \in Cursors : GivenOf(c)' = GivenOf(c)  BY DEF SameStream, GivenOf
<1>3. Abstract!Silence
  BY <1>1, <1>2 DEF Abstract!Silence, Abstract!Nothing, Silent, SameStream
<1> QED  BY <1>3 DEF Abstract!Next

(* A step that changes the stream of c alone.                              *)
LEMMA OneStream ==
  ASSUME NEW c \in Cursors, \A d \in Cursors \ {c} : SameStream(d),
         NEW s, StreamOf(c)' = s, NEW g, GivenOf(c)' = g
  PROVE  /\ [d \in Cursors |-> StreamOf(d)]' =
              [[d \in Cursors |-> StreamOf(d)] EXCEPT ![c] = s]
         /\ [d \in Cursors |-> GivenOf(d)]' =
              [[d \in Cursors |-> GivenOf(d)] EXCEPT ![c] = g]
<1>1. \A d \in Cursors \ {c} : StreamOf(d)' = StreamOf(d) /\ GivenOf(d)' = GivenOf(d)
  BY DEF SameStream, GivenOf
<1> QED  BY <1>1

(* The rows from the first on, as RowStream has them.                      *)
LEMMA FirstRows ==
  ASSUME NEW s \in Seq(Row), Follow(s, 0)
  PROVE  /\ [i \in DOMAIN s |-> s[i].row] = Abstract!Rows(Len(s))
         /\ Len([i \in DOMAIN s |-> s[i].row]) = Len(s)
<1>1. PICK n \in Nat : n = Len(s) /\ DOMAIN s = 1..n  OBVIOUS
<1>2. \A i \in 1..n : s[i].row = i
  <2>1. \A i \in 1..n : 0 + i = i  OBVIOUS
  <2> QED  BY <1>1, <2>1 DEF Follow
<1>3. [i \in DOMAIN s |-> s[i].row] = [i \in 1..n |-> i]  BY <1>1, <1>2
<1>4. Len([i \in 1..n |-> i]) = n  OBVIOUS
<1> QED  BY <1>1, <1>3, <1>4 DEF Abstract!Rows

(* The rows given are such, before and after a step.                       *)
LEMMA GivenRows ==
  ASSUME StreamInv, StreamInv', Alone, NEW c \in Cursors
  PROVE  /\ Len(GivenOf(c)) = Len(got[c])
         /\ GivenOf(c)' = Abstract!Rows(Len(got'[c]))
<1>1. got[c] \in Seq(Row) /\ Follow(got[c], 0)
  BY DEF StreamInv, RowInv, IInv, TypeOK, RowsSound, CursorRows, Gapless, Alone
<1>2. got'[c] \in Seq(Row) /\ Follow(got'[c], 0)
  BY DEF StreamInv, RowInv, IInv, TypeOK, RowsSound, CursorRows, Gapless, Alone
<1> QED  BY <1>1, <1>2, FirstRows DEF GivenOf

(* The steps of RowStream; s is the stream of c after it.                  *)
LEMMA Opens ==
  ASSUME NEW c \in Cursors, \A d \in Cursors \ {c} : SameStream(d),
         UNCHANGED got, ret'.val = "cursor", ret'.on = c,
         StreamOf(c) = Abstract!None,
         NEW n \in 0..MaxRows, NEW r \in BOOLEAN,
         StreamOf(c)' = [state |-> "open", rows |-> n, reliable |-> r],
         ret' \in Answer
  PROVE  Abstract!Next
<1>1. GivenOf(c)' = GivenOf(c)  BY DEF GivenOf
<1>2. Said' = [val |-> "cursor", on |-> c]  BY DEF Said, Answer
<1>3. /\ [d \in Cursors |-> StreamOf(d)]' =
           [[d \in Cursors |-> StreamOf(d)] EXCEPT
              ![c] = [state |-> "open", rows |-> n, reliable |-> r]]
      /\ [d \in Cursors |-> GivenOf(d)]' =
           [[d \in Cursors |-> GivenOf(d)] EXCEPT ![c] = GivenOf(c)]
  BY <1>1, OneStream
<1>4. [d \in Cursors |-> GivenOf(d)]' = [d \in Cursors |-> GivenOf(d)]
  BY <1>3
<1>5. Abstract!Open(c)  BY <1>2, <1>3, <1>4 DEF Abstract!Open, Abstract!Say
<1> QED  BY <1>5 DEF Abstract!Next

LEMMA Gives ==
  ASSUME StreamInv, StreamInv', Alone, NEW c \in Cursors,
         \A d \in Cursors \ {c} : SameStream(d),
         ret'.val = "row", ret'.on = c, ret' \in Answer,
         StreamOf(c).state = "open", StreamOf(c)' = StreamOf(c),
         Len(got'[c]) = Len(got[c]) + 1, Len(got[c]) < StreamOf(c).rows
  PROVE  Abstract!Next
<1>1. /\ GivenOf(c)' = Abstract!Rows(Len(got'[c]))
      /\ Len(GivenOf(c)) = Len(got[c])
  BY GivenRows
<1>2. Said' = [val |-> "row", on |-> c]  BY DEF Said, Answer
<1>3. /\ [d \in Cursors |-> StreamOf(d)]' =
           [[d \in Cursors |-> StreamOf(d)] EXCEPT ![c] = StreamOf(c)]
      /\ [d \in Cursors |-> GivenOf(d)]' =
           [[d \in Cursors |-> GivenOf(d)] EXCEPT ![c] = Abstract!Rows(Len(got'[c]))]
  BY <1>1, OneStream
<1>4. [d \in Cursors |-> StreamOf(d)]' = [d \in Cursors |-> StreamOf(d)]
  BY <1>3
<1>5. Abstract!GiveNext(c)
  BY <1>1, <1>2, <1>3, <1>4 DEF Abstract!GiveNext, Abstract!Say
<1> QED  BY <1>5 DEF Abstract!Next

LEMMA GivesRest ==
  ASSUME StreamInv, StreamInv', Alone, NEW c \in Cursors,
         \A d \in Cursors \ {c} : SameStream(d),
         ret'.val = "rows", ret'.on = c, ret' \in Answer,
         StreamOf(c).state = "open", StreamOf(c)' = Abstract!Over,
         Len(got'[c]) = StreamOf(c).rows
  PROVE  Abstract!Next
<1>1. GivenOf(c)' = Abstract!Rows(StreamOf(c).rows)  BY GivenRows
<1>2. Said' = [val |-> "rows", on |-> c]  BY DEF Said, Answer
<1>3. /\ [d \in Cursors |-> StreamOf(d)]' =
           [[d \in Cursors |-> StreamOf(d)] EXCEPT ![c] = Abstract!Over]
      /\ [d \in Cursors |-> GivenOf(d)]' =
           [[d \in Cursors |-> GivenOf(d)] EXCEPT ![c] = Abstract!Rows(StreamOf(c).rows)]
  BY <1>1, OneStream
<1>4. Abstract!GiveRest(c)
  BY <1>2, <1>3 DEF Abstract!GiveRest, Abstract!Say
<1> QED  BY <1>4 DEF Abstract!Next

LEMMA Ends ==
  ASSUME StreamInv, StreamInv', Alone, NEW c \in Cursors,
         \A d \in Cursors \ {c} : SameStream(d), UNCHANGED got,
         ret'.val = "end", ret'.on = c, ret' \in Answer,
         StreamOf(c).state \in {"open", "over"},
         StreamOf(c).reliable => Len(got[c]) = StreamOf(c).rows,
         \/ StreamOf(c)' = Abstract!Over
         \/ Len(got[c]) = StreamOf(c).rows /\ StreamOf(c)' = StreamOf(c)
  PROVE  Abstract!Next
<1>1. GivenOf(c)' = GivenOf(c) /\ Len(GivenOf(c)) = Len(got[c])
  <2>1. GivenOf(c)' = GivenOf(c)  BY DEF GivenOf
  <2> QED  BY <2>1, GivenRows
<1>2. Said' = [val |-> "end", on |-> c]  BY DEF Said, Answer
<1>3. PICK s : s = StreamOf(c)'  OBVIOUS
<1>4. /\ [d \in Cursors |-> StreamOf(d)]' =
           [[d \in Cursors |-> StreamOf(d)] EXCEPT ![c] = s]
      /\ [d \in Cursors |-> GivenOf(d)]' =
           [[d \in Cursors |-> GivenOf(d)] EXCEPT ![c] = GivenOf(c)]
  BY <1>1, <1>3, OneStream
<1>5. [d \in Cursors |-> GivenOf(d)]' = [d \in Cursors |-> GivenOf(d)]
  BY <1>4
<1>6. s = StreamOf(c) =>
        [d \in Cursors |-> StreamOf(d)]' = [d \in Cursors |-> StreamOf(d)]
  BY <1>4
<1>7. Abstract!End(c)
  BY <1>1, <1>2, <1>3, <1>4, <1>5, <1>6 DEF Abstract!End, Abstract!Say
<1> QED  BY <1>7 DEF Abstract!Next

LEMMA Closes ==
  ASSUME NEW c \in Cursors, \A d \in Cursors \ {c} : SameStream(d),
         UNCHANGED got, ret'.val \notin News,
         StreamOf(c).state = "open", StreamOf(c)' = Abstract!Over
  PROVE  Abstract!Next
<1>1. GivenOf(c)' = GivenOf(c)  BY DEF GivenOf
<1>2. Said' = Silent  BY DEF Said, News
<1>3. /\ [d \in Cursors |-> StreamOf(d)]' =
           [[d \in Cursors |-> StreamOf(d)] EXCEPT ![c] = Abstract!Over]
      /\ [d \in Cursors |-> GivenOf(d)]' =
           [[d \in Cursors |-> GivenOf(d)] EXCEPT ![c] = GivenOf(c)]
  BY <1>1, OneStream
<1>4. [d \in Cursors |-> GivenOf(d)]' = [d \in Cursors |-> GivenOf(d)]
  BY <1>3
<1>5. Abstract!Close(c)
  BY <1>2, <1>3, <1>4 DEF Abstract!Close, Abstract!Nothing, Silent
<1> QED  BY <1>5 DEF Abstract!Next

-----------------------------------------------------------------------------
(* What a step leaves of the kinds *)

Retained(c) ==
  /\ Live(c)' => /\ Live(c) /\ res'[c].stored = res[c].stored
                 /\ cursor[c].my_res \/ res'[c].handle = res[c].handle
  /\ cursor'[c].my_res => cursor[c].my_res /\ cursor'[c].fetch_all = cursor[c].fetch_all

LEMMA CallStays ==
  ASSUME StreamInv, NEW l \in Levels, frame'[l] = frame[l], \A c \in Cursors : Retained(c)
  PROVE  CallRight(l)'
<1>1. CallRight(l)  BY DEF StreamInv, Kinds
<1>2. ASSUME NEW c \in Cursors, frame'[l].cur = c, Live(c)', frame'[l].op = "execute"
      PROVE  res'[c].stored \/ res'[c].handle # NULL
  <2>1. frame[l].cur = c /\ frame[l].op = "execute"  BY <1>2
  <2>2. ~cursor[c].my_res
    BY <2>1 DEF StreamInv, RowInv, IInv, FramesSound, ResultOwned
  <2>3. /\ Live(c) /\ res'[c].stored = res[c].stored
        /\ res'[c].handle = res[c].handle
    BY <1>2, <2>2 DEF Retained
  <2> QED  BY <1>1, <2>1, <2>3 DEF CallRight
<1>3. ASSUME NEW c \in Cursors, frame'[l].cur = c, Live(c)', frame'[l].op = "fetch_all"
      PROVE  res'[c].stored
  BY <1>1, <1>3 DEF CallRight, Retained
<1> QED  BY <1>1, <1>2, <1>3 DEF CallRight

LEMMA KindsStay ==
  ASSUME StreamInv, RowInv', \A c \in Cursors : Retained(c),
         \A l \in Levels : \/ frame'[l] = frame[l] \/ frame'[l].op \in {"none", "fetch"}
                           \/ CallRight(l)'
  PROVE  Kinds'
<1>1. ASSUME NEW c \in Cursors PROVE KindRight(c)'
  <2>1. cursor'[c].my_res => Live(c)'
    BY DEF RowInv, IInv, ResultOwned, Live
  <2> QED  BY <2>1 DEF KindRight, Retained, StreamInv, Kinds
<1>2. \A l \in Levels : CallRight(l)'
  BY CallStays DEF CallRight
<1> QED  BY <1>1, <1>2 DEF Kinds

(* A step that does nothing a reader would notice.                         *)
LEMMA QuietStream ==
  ASSUME StreamInv, RowInv', UNCHANGED <<cursor, res, got>>, ret'.val \notin News,
         \A l \in Levels : frame'[l] = frame[l] \/ frame'[l].op = "none"
  PROVE  Kinds' /\ Abstract!Next
<1>1. \A c \in Cursors : Retained(c)  BY DEF Retained, Live
<1>2. Kinds'  BY <1>1, KindsStay
<1>3. \A c \in Cursors : SameStream(c)  BY DEF SameStream, StreamOf
<1> QED  BY <1>2, <1>3, Unsaid

LEMMA RejectedStream ==
  ASSUME StreamInv, RowInv', Rejected
  PROVE  Kinds' /\ Abstract!Next
BY QuietStream DEF Rejected, Throw, Return, News, lib

(* A cursor is nullified: its stream is over, if it had a result.          *)
LEMMA NullifyStream ==
  ASSUME StreamInv, RowInv', NEW c \in Cursors, NEW r \in MYSQL_RES,
         NEW my \in [Conns -> MYSQL], nullify(c, r, my),
         \A d \in Cursors \ {c} : got'[d] = got[d],
         \A l \in Levels : frame'[l] = frame[l] \/ frame'[l].op = "none"
  PROVE  /\ Kinds'
         /\ \A d \in Cursors \ {c} : SameStream(d)
         /\ cursor[c].my_res => StreamOf(c)' = Abstract!Over
         /\ ~cursor[c].my_res => StreamOf(c)' = StreamOf(c)
<1>1. /\ \A d \in Cursors \ {c} : cursor'[d] = cursor[d] /\ res'[d] = res[d]
      /\ cursor'[c].my_res = FALSE
      /\ cursor[c].my_res => res'[c].state = "freed"
      /\ ~cursor[c].my_res => res'[c] = res[c]
  BY NullifyStep DEF StreamInv, RowInv
<1>2. \A d \in Cursors : Retained(d)  BY <1>1 DEF Retained, Live
<1>3. Kinds'  BY <1>2, KindsStay
<1>4. \A d \in Cursors \ {c} : SameStream(d)  BY <1>1 DEF SameStream, StreamOf
<1> QED  BY <1>1, <1>3, <1>4 DEF StreamOf, Abstract!Over

(* mysql_fetch_row leaves the kind of the result; a result on the socket   *)
(* is left when there is no row.                                           *)
LEMMA FetchRowKind ==
  ASSUME NEW r \in MYSQL_RES, NEW my \in [Conns -> MYSQL], NEW f \in mysql_fetch_row(r, my)
  PROVE  /\ f.r.stored = r.stored
         /\ f.row # 0 => f.r.handle = r.handle /\ (r.stored \/ r.handle # NULL)
         /\ f.row = 0 => IF r.stored THEN f.r.handle = r.handle ELSE f.r.handle = NULL
<1>1. r.pos + 1 # 0
  <2>1. r.pos \in Nat  BY ConstantTypes DEF MYSQL_RES
  <2> QED  BY <2>1
<1>2. AtEnd(r).stored = r.stored /\ AtEnd(r).handle = NULL
  BY DEF AtEnd, MYSQL_RES
<1>3. NextRow(r).stored = r.stored /\ NextRow(r).handle = r.handle
  BY DEF NextRow, MYSQL_RES
<1> DEFINE e == [r EXCEPT !.cur = 0]
<1>4. e.stored = r.stored /\ e.handle = r.handle  BY DEF MYSQL_RES
<1>5. \/ f.row = r.pos + 1 /\ f.r = NextRow(r) /\ (r.stored \/ r.handle # NULL)
      \/ r.stored /\ f.row = 0 /\ f.r = e
      \/ ~r.stored /\ f.row = 0 /\ f.r = AtEnd(r)
      \/ ~r.stored /\ f.row = 0 /\ f.r = r /\ r.handle = NULL
  BY DEF mysql_fetch_row
<1> HIDE DEF e
<1> QED  BY <1>1, <1>2, <1>3, <1>4, <1>5

-----------------------------------------------------------------------------
(* The steps of the program *)

(* cur:__gc(), and the finalizer.                                          *)
LEMMA GCStream ==
  ASSUME StreamInv, RowInv', NEW c \in Cursors,
         (\E l \in Levels : cursor_gc(l, c)) \/ GCTM_cursor(c)
  PROVE  Kinds' /\ Abstract!Next
<1>1. nullify(c, res[c], mysql) /\ ret'.val = "none" /\ UNCHANGED <<got, frame>>
  BY DEF cursor_gc, GCTM_cursor, cursor_nullify, Quiet, Silent
<1>2. res[c] \in MYSQL_RES /\ mysql \in [Conns -> MYSQL]
  BY DEF StreamInv, RowInv, IInv, TypeOK
<1>3. /\ Kinds' /\ \A d \in Cursors \ {c} : SameStream(d)
      /\ cursor[c].my_res => StreamOf(c)' = Abstract!Over
      /\ ~cursor[c].my_res => StreamOf(c)' = StreamOf(c)
  BY <1>1, <1>2, NullifyStream
<1>4. ret'.val \notin News  BY <1>1 DEF News
<1>5. CASE StreamOf(c).state = "open" /\ StreamOf(c)' = Abstract!Over
  BY <1>1, <1>3, <1>4, <1>5, Closes
<1>6. CASE StreamOf(c)' = StreamOf(c)
  <2>1. \A d \in Cursors : SameStream(d)  BY <1>1, <1>3, <1>6 DEF SameStream
  <2> QED  BY <1>3, <1>4, <2>1, Unsaid
<1>7. cursor[c].my_res /\ StreamOf(c).state # "open" => StreamOf(c) = Abstract!Over
  BY DEF StreamOf, Abstract!Over
<1> QED  BY <1>3, <1>5, <1>6, <1>7

(* fetch and fetch_all are given no row: that is the end of the stream.    *)
LEMMA NoRowStream ==
  ASSUME StreamInv, RowInv', Kinds', Alone, FullAnswers, NEW c \in Cursors,
         cursor[c].my_res, \A d \in Cursors \ {c} : SameStream(d), UNCHANGED got,
         ret'.val = "end", ret'.on = c,
         StreamOf(c)' = Abstract!Over \/ (res[c].stored /\ StreamOf(c)' = StreamOf(c))
  PROVE  Abstract!Next
<1>1. StreamInv' /\ ret' \in Answer  BY DEF StreamInv, RowInv, IInv, TypeOK
<1>2. res[c].stored => Len(got[c]) = res[c].rows  BY DEF FullAnswers, Alone
<1>3. /\ StreamOf(c).state \in {"open", "over"}
      /\ StreamOf(c).reliable => res[c].stored
      /\ res[c].stored => StreamOf(c).rows = res[c].rows
  BY DEF StreamOf
<1> QED  BY <1>1, <1>2, <1>3, Ends

(* From the row fetched to its conversion.                                 *)
LEMMA RowFetched ==
  ASSUME StreamInv, RowInv', NEW l \in Levels, NEW c \in Cursors, cursor[c].my_res,
         NEW r \in MYSQL_RES, r.state = res[c].state, r.stored = res[c].stored,
         r.handle = res[c].handle, r.rows = res[c].rows,
         res' = [res EXCEPT ![c] = r], UNCHANGED got, ret'.val = "none",
         \A d \in Cursors : /\ cursor'[d].my_res = cursor[d].my_res
                            /\ cursor'[d].fetch_all = cursor[d].fetch_all,
         \A j \in Levels \ {l} : frame'[j] = frame[j],
         frame'[l].op = "fetch" \/ CallRight(l)'
  PROVE  Kinds' /\ Abstract!Next
<1>1. res'[c] = r /\ \A d \in Cursors \ {c} : res'[d] = res[d]
  BY DEF StreamInv, RowInv, IInv, TypeOK
<1>2. \A d \in Cursors : Retained(d)  BY <1>1 DEF Retained, Live
<1>3. Kinds'  BY <1>2, KindsStay
<1>4. ASSUME NEW d \in Cursors PROVE SameStream(d)
  <2>1. /\ res'[d].state = res[d].state /\ res'[d].stored = res[d].stored
        /\ res'[d].handle = res[d].handle /\ res'[d].rows = res[d].rows
    BY <1>1
  <2> QED  BY <2>1 DEF SameStream, StreamOf
<1>5. ret'.val \notin News  BY DEF News
<1> QED  BY <1>3, <1>4, <1>5, Unsaid

LEMMA FieldsSet ==
  ASSUME cursor \in [Cursors -> Cursor], NEW c \in Cursors,
         cursor' = [cursor EXCEPT ![c].fields = TRUE]
  PROVE  \A d \in Cursors : /\ cursor'[d].my_res = cursor[d].my_res
                            /\ cursor'[d].fetch_all = cursor[d].fetch_all
<1> DEFINE x == [cursor[c] EXCEPT !.fields = TRUE]
<1>1. x.my_res = cursor[c].my_res /\ x.fetch_all = cursor[c].fetch_all  BY DEF Cursor
<1>2. cursor'[c] = x /\ \A d \in Cursors \ {c} : cursor'[d] = cursor[d]  OBVIOUS
<1> HIDE DEF x
<1> QED  BY <1>1, <1>2

LEMMA FetchRowStream ==
  ASSUME StreamInv, RowInv', Alone, FullAnswers,
         NEW l \in Levels, NEW c \in Cursors, FetchRow(l, c)
  PROVE  Kinds' /\ Abstract!Next
<1>1. TypeOK /\ res[c] \in MYSQL_RES /\ mysql \in [Conns -> MYSQL]
  BY DEF StreamInv, RowInv, IInv, TypeOK
<1>2. PICK f \in mysql_fetch_row(res[c], mysql) :
        /\ mysql' = f.my
        /\ IF f.row = 0
           THEN /\ res' = [res EXCEPT ![c] = f.r]
                /\ Leave(l)
                /\ Return("end", c)
                /\ UNCHANGED cursor
           ELSE /\ res' = [res EXCEPT ![c] = WithLengths(c, f.r)]
                /\ cursor' = [cursor EXCEPT ![c].fields = TRUE]
                /\ Enter(l, [NoFrame EXCEPT !.op = "fetch", !.cur = c,
                                            !.row = f.row])
                /\ Quiet
  BY DEF FetchRow
<1>3. cursor[c].my_res /\ UNCHANGED got  BY DEF FetchRow
<1>4. /\ f.r \in MYSQL_RES /\ f.r.state = res[c].state /\ f.r.rows = res[c].rows
      /\ f.r.stored = res[c].stored
      /\ f.row # 0 => f.r.handle = res[c].handle
      /\ f.row = 0 => IF res[c].stored THEN f.r.handle = res[c].handle
                                       ELSE f.r.handle = NULL
  BY <1>1, ValuesFacts, FetchRowType, FetchRowPos, FetchRowKind
<1>5. CASE f.row = 0
  <2>1. /\ res'[c] = f.r /\ \A d \in Cursors \ {c} : res'[d] = res[d]
        /\ UNCHANGED cursor /\ ret'.val = "end" /\ ret'.on = c
        /\ \A j \in Levels : frame'[j] = frame[j] \/ frame'[j].op = "none"
    BY <1>1, <1>2, <1>5 DEF TypeOK, Leave, Return, NoFrame
  <2>2. \A d \in Cursors : Retained(d)  BY <1>3, <1>4, <2>1 DEF Retained, Live
  <2>3. Kinds'  BY <2>1, <2>2, KindsStay
  <2>4. \A d \in Cursors \ {c} : SameStream(d)
    BY <1>3, <2>1 DEF SameStream, StreamOf
  <2>5. \/ StreamOf(c)' = Abstract!Over
        \/ res[c].stored /\ StreamOf(c)' = StreamOf(c)
    BY <1>3, <1>4, <1>5, <2>1 DEF StreamOf, Abstract!Over
  <2> QED  BY <1>3, <2>1, <2>3, <2>4, <2>5, NoRowStream
<1>6. CASE f.row # 0
  <2> DEFINE r == mysql_fetch_lengths(f.r)
  <2>1. /\ r \in MYSQL_RES /\ r.state = res[c].state /\ r.stored = res[c].stored
        /\ r.handle = res[c].handle /\ r.rows = res[c].rows
    BY <1>4, <1>6 DEF mysql_fetch_lengths, MYSQL_RES
  <2>2. res' = [res EXCEPT ![c] = r] /\ ret'.val = "none"
    BY <1>2, <1>6 DEF WithLengths, Quiet, Silent
  <2>3. \A d \in Cursors : /\ cursor'[d].my_res = cursor[d].my_res
                           /\ cursor'[d].fetch_all = cursor[d].fetch_all
    <3>1. cursor' = [cursor EXCEPT ![c].fields = TRUE]  BY <1>2, <1>6
    <3> QED  BY <1>1, <3>1, FieldsSet DEF TypeOK
  <2>4. /\ frame'[l].op = "fetch"
        /\ \A j \in Levels \ {l} : frame'[j] = frame[j]
    <3> DEFINE F == [NoFrame EXCEPT !.op = "fetch", !.cur = c, !.row = f.row]
    <3>1. F.op = "fetch"  BY DEF NoFrame
    <3>2. frame' = [frame EXCEPT ![l] = F]  BY <1>2, <1>6 DEF Enter
    <3> HIDE DEF F
    <3> QED  BY <1>1, <3>1, <3>2 DEF TypeOK
  <2> HIDE DEF r
  <2> QED  BY <1>3, <2>1, <2>2, <2>3, <2>4, RowFetched
<1> QED  BY <1>5, <1>6

LEMMA FetchFirstRowStream ==
  ASSUME StreamInv, RowInv', Alone, FullAnswers,
         NEW l \in Levels, NEW c \in Cursors, cursor[c].fetch_all, FetchFirstRow(l, c)
  PROVE  Kinds' /\ Abstract!Next
<1>1. TypeOK /\ res[c] \in MYSQL_RES /\ mysql \in [Conns -> MYSQL]
  BY DEF StreamInv, RowInv, IInv, TypeOK
<1>2. PICK f \in mysql_fetch_row(res[c], mysql) :
        IF f.row = 0
        THEN /\ nullify(c, f.r, f.my)
             /\ Leave(l)
             /\ Return("end", c)
        ELSE /\ res' = [res EXCEPT ![c] = mysql_fetch_lengths(f.r)]
             /\ mysql' = f.my
             /\ cursor' = [cursor EXCEPT ![c].fields = TRUE]
             /\ Enter(l, [NoFrame EXCEPT !.op = "fetch_all", !.cur = c,
                                         !.row = f.row])
             /\ Quiet
             /\ UNCHANGED registry
  BY DEF FetchFirstRow
<1>3. cursor[c].my_res /\ UNCHANGED got  BY DEF FetchFirstRow
<1>4. /\ f.r \in MYSQL_RES /\ f.my \in [Conns -> MYSQL]
      /\ f.r.state = res[c].state /\ f.r.rows = res[c].rows
      /\ f.r.stored = res[c].stored
      /\ f.row # 0 => f.r.handle = res[c].handle
  BY <1>1, ValuesFacts, FetchRowType, FetchRowPos, FetchRowKind
<1>5. CASE f.row = 0
  <2>1. /\ nullify(c, f.r, f.my) /\ ret'.val = "end" /\ ret'.on = c
        /\ \A j \in Levels : frame'[j] = frame[j] \/ frame'[j].op = "none"
    BY <1>1, <1>2, <1>5 DEF TypeOK, Leave, Return, NoFrame
  <2>2. /\ Kinds' /\ \A d \in Cursors \ {c} : SameStream(d)
        /\ StreamOf(c)' = Abstract!Over
    BY <1>3, <1>4, <2>1, NullifyStream
  <2> QED  BY <1>3, <2>1, <2>2, NoRowStream
<1>6. CASE f.row # 0
  <2> DEFINE r == mysql_fetch_lengths(f.r)
  <2>1. /\ r \in MYSQL_RES /\ r.state = res[c].state /\ r.stored = res[c].stored
        /\ r.handle = res[c].handle /\ r.rows = res[c].rows
    BY <1>4, <1>6 DEF mysql_fetch_lengths, MYSQL_RES
  <2>2. res' = [res EXCEPT ![c] = r] /\ ret'.val = "none"
    BY <1>2, <1>6 DEF Quiet, Silent
  <2>3. \A d \in Cursors : /\ cursor'[d].my_res = cursor[d].my_res
                           /\ cursor'[d].fetch_all = cursor[d].fetch_all
    <3>1. cursor' = [cursor EXCEPT ![c].fields = TRUE]  BY <1>2, <1>6
    <3> QED  BY <1>1, <3>1, FieldsSet DEF TypeOK
  <2>4. /\ frame'[l].op = "fetch_all" /\ frame'[l].cur = c
        /\ \A j \in Levels \ {l} : frame'[j] = frame[j]
    <3> DEFINE F == [NoFrame EXCEPT !.op = "fetch_all", !.cur = c, !.row = f.row]
    <3>1. F.op = "fetch_all" /\ F.cur = c  BY DEF NoFrame
    <3>2. frame' = [frame EXCEPT ![l] = F]  BY <1>2, <1>6 DEF Enter
    <3> HIDE DEF F
    <3> QED  BY <1>1, <3>1, <3>2 DEF TypeOK
  <2> HIDE DEF r
  <2>5. res'[c].stored
    <3>1. res[c].stored  BY <1>3 DEF StreamInv, Kinds, KindRight
    <3>2. res'[c] = r  BY <1>1, <2>2 DEF TypeOK
    <3> QED  BY <2>1, <3>1, <3>2
  <2>6. CallRight(l)'  BY <2>4, <2>5 DEF CallRight
  <2> QED  BY <1>3, <2>1, <2>2, <2>3, <2>4, <2>6, RowFetched
<1> QED  BY <1>5, <1>6

(* fetch gives its row, the next one of the stream.                        *)
LEMMA RowToTableStream ==
  ASSUME StreamInv, RowInv', Alone, NEW l \in Levels, fetch_row_to_table(l)
  PROVE  Kinds' /\ Abstract!Next
<1>0. PICK c \in Cursors : c = frame[l].cur
  BY DEF fetch_row_to_table, StreamInv, RowInv, IInv, FramesSound, CallSound
<1>1. CASE StaleRow
  BY <1>1, QuietStream DEF StaleRow, Quiet, Silent, News, lib
<1>2. CASE ~StaleRow
  <2>0. /\ frame[l].op = "fetch" /\ RowReadable(frame[l])
        /\ got' = [got EXCEPT ![frame[l].cur] =
                     Append(got[frame[l].cur], Converted(frame[l]))]
        /\ Leave(l) /\ Return("row", frame[l].cur)
        /\ UNCHANGED <<cursor, res>>
    BY <1>2 DEF fetch_row_to_table, lib
  <2>1. /\ frame[l].op = "fetch" /\ Live(c)
        /\ res[c].stored \/ res[c].handle # NULL
        /\ got' = [got EXCEPT ![c] = Append(got[c], Converted(frame[l]))]
        /\ frame' = [frame EXCEPT ![l] = NoFrame]
        /\ ret'.val = "row" /\ ret'.on = c
        /\ UNCHANGED <<cursor, res>>
    BY <1>0, <2>0 DEF RowReadable, Live, Leave, Return
  <2>2. RowInv /\ TypeOK /\ Calls  BY DEF StreamInv, RowInv, IInv, RowsSound
  <2>3. /\ cursor[c].my_res /\ got[c] \in Seq(Row) /\ Converted(frame[l]) \in Row
        /\ Holding(l, c) /\ Ordered(c) /\ Gapless(c) /\ l = 1
    BY <1>0, <2>1, <2>2, HeldRow DEF Alone
  <2>4. \A d \in Cursors : Retained(d)  BY <2>1 DEF Retained, Live
  <2>5. \A j \in Levels : frame'[j] = frame[j] \/ frame'[j].op = "none"
    BY <2>1, <2>2 DEF TypeOK, NoFrame
  <2>6. Kinds'  BY <2>4, <2>5, KindsStay
  <2>7. /\ StreamOf(c).state = "open" /\ StreamOf(c).rows = res[c].rows
        /\ StreamOf(c)' = StreamOf(c)
    BY <2>1, <2>3 DEF StreamOf
  <2>8. got'[c] = Append(got[c], Converted(frame[l]))
        /\ \A d \in Cursors \ {c} : got'[d] = got[d]
    BY <2>1, <2>2 DEF TypeOK
  <2>9. \A d \in Cursors \ {c} : SameStream(d)
    BY <2>1, <2>8 DEF SameStream, StreamOf
  <2>10. PICK n \in Nat : n = Len(got[c])
    <3>1. Len(got[c]) \in Nat  BY <2>3
    <3> QED  BY <3>1
  <2>11. Len(got'[c]) = n + 1  BY <2>3, <2>8, <2>10
  <2>12. n < res[c].rows
    <3>1. frame[l].row = n + Len(frame[l].tbl) + 1 /\ res[c].pos = frame[l].row
      BY <2>1, <2>3, <2>10 DEF Gapless, Alone
    <3>2. frame[l].tbl = <<>>  BY <2>1, <2>2 DEF Calls
    <3>3. Len(<<>>) = 0  OBVIOUS
    <3>4. res[c].pos = n + 1  BY <3>1, <3>2, <3>3
    <3>5. res[c].pos <= res[c].rows  BY <2>1, <2>3 DEF Ordered
    <3>6. res[c].rows \in Nat
      <4>1. res[c] \in MYSQL_RES  BY <2>2 DEF TypeOK
      <4> QED  BY <4>1, ConstantTypes DEF MYSQL_RES
    <3> QED  BY <3>4, <3>5, <3>6
  <2>13. StreamInv' /\ ret' \in Answer
    BY <2>6 DEF StreamInv, RowInv, IInv, TypeOK
  <2> QED  BY <2>1, <2>6, <2>7, <2>9, <2>10, <2>11, <2>12, <2>13, Gives
<1> QED  BY <1>1, <1>2

(* A turn of fetch_all: after the last, it gives the rest of the stream.   *)
LEMMA AllRowToTableStream ==
  ASSUME StreamInv, RowInv', Alone, FullAnswers, NEW l \in Levels,
         fetch_all_row_to_table(l)
  PROVE  Kinds' /\ Abstract!Next
<1>0. PICK c \in Cursors : c = frame[l].cur
  BY DEF fetch_all_row_to_table, StreamInv, RowInv, IInv, FramesSound, CallSound
<1>1. CASE StaleRow
  BY <1>1, QuietStream DEF StaleRow, Quiet, Silent, News, lib
<1>2. CASE ~StaleRow
  <2>1. PICK g \in mysql_fetch_row(res[c], mysql) :
          IF g.row # 0
          THEN /\ Enter(l, [frame[l] EXCEPT !.row = g.row, !.tbl = Filled(frame[l])])
               /\ res' = [res EXCEPT ![c] = g.r]
               /\ mysql' = g.my
               /\ Quiet
               /\ UNCHANGED <<cursor, registry, got>>
          ELSE /\ nullify(c, g.r, g.my)
               /\ got' = [got EXCEPT ![c] = got[c] \o Filled(frame[l])]
               /\ Leave(l)
               /\ Return("rows", c)
    BY <1>0, <1>2 DEF fetch_all_row_to_table
  <2>2. frame[l].op = "fetch_all" /\ Live(c)
    BY <1>0, <1>2 DEF fetch_all_row_to_table, RowReadable, Live
  <2>3. /\ res[c] \in MYSQL_RES /\ mysql \in [Conns -> MYSQL] /\ TypeOK
        /\ RowInv /\ frame[l] \in Frame
    BY DEF StreamInv, RowInv, IInv, TypeOK
  <2>4. /\ g.r \in MYSQL_RES /\ g.my \in [Conns -> MYSQL]
        /\ g.r.state = res[c].state /\ g.r.rows = res[c].rows
        /\ g.r.stored = res[c].stored
        /\ g.row # 0 => g.r.handle = res[c].handle
    BY <2>3, ValuesFacts, FetchRowType, FetchRowPos, FetchRowKind
  <2>5. cursor[c].my_res  BY <1>0, <2>2, <2>3, HeldRow
  <2>6. res[c].stored  BY <1>0, <2>2 DEF StreamInv, Kinds, CallRight
  <2>7. CASE g.row # 0
    <3> DEFINE F == [frame[l] EXCEPT !.row = g.row, !.tbl = Filled(frame[l])]
    <3>1. F.op = "fetch_all" /\ F.cur = c  BY <1>0, <2>2, <2>3 DEF Frame
    <3>2. /\ frame' = [frame EXCEPT ![l] = F] /\ res' = [res EXCEPT ![c] = g.r]
          /\ UNCHANGED <<cursor, got>> /\ ret'.val = "none"
      BY <2>1, <2>7 DEF Enter, Quiet, Silent
    <3> HIDE DEF F
    <3>3. frame'[l] = F /\ \A j \in Levels \ {l} : frame'[j] = frame[j]
      BY <2>3, <3>2 DEF TypeOK
    <3>4. res'[c] = g.r  BY <2>3, <3>2 DEF TypeOK
    <3>5. CallRight(l)'  BY <2>4, <2>6, <3>1, <3>3, <3>4 DEF CallRight
    <3> QED  BY <2>4, <2>5, <2>7, <3>2, <3>3, <3>5, RowFetched DEF StreamInv
  <2>8. CASE g.row = 0
    <3>1. /\ nullify(c, g.r, g.my)
          /\ got' = [got EXCEPT ![c] = got[c] \o Filled(frame[l])]
          /\ Leave(l) /\ Return("rows", c)
      BY <2>1, <2>8
    <3>2. /\ \A j \in Levels : frame'[j] = frame[j] \/ frame'[j].op = "none"
          /\ ret'.val = "rows" /\ ret'.on = c
          /\ \A d \in Cursors \ {c} : got'[d] = got[d]
      BY <2>3, <3>1 DEF TypeOK, Leave, Return, NoFrame
    <3>3. /\ Kinds' /\ \A d \in Cursors \ {c} : SameStream(d)
          /\ StreamOf(c)' = Abstract!Over
      BY <2>4, <2>5, <3>1, <3>2, NullifyStream
    <3>4. StreamOf(c).state = "open" /\ StreamOf(c).rows = res[c].rows
      BY <2>5, <2>6 DEF StreamOf
    <3>5. Len(got'[c]) = res[c].rows  BY <2>6, <3>2 DEF FullAnswers, Alone
    <3>6. StreamInv' /\ ret' \in Answer
      BY <3>3 DEF StreamInv, RowInv, IInv, TypeOK
    <3> QED  BY <3>2, <3>3, <3>4, <3>5, <3>6, GivesRest
  <2> QED  BY <2>7, <2>8
<1> QED  BY <1>1, <1>2

(* execute hands over its cursor: a stream begins.                         *)
LEMMA CreateCursorStream ==
  ASSUME StreamInv, RowInv', NEW l \in Levels, create_cursor(l)
  PROVE  Kinds' /\ Abstract!Next
<1>1. PICK c \in Cursors : c = frame[l].cur
  BY DEF create_cursor, StreamInv, RowInv, IInv, FramesSound, CallSound
<1> DEFINE m == [conn |-> NextRef(registry), fetch_all |-> res[c].stored,
                 my_res |-> TRUE, fields |-> FALSE]
<1>2. /\ frame[l].op = "execute" /\ frame' = [frame EXCEPT ![l] = NoFrame]
      /\ UNCHANGED <<res, got>> /\ ret'.val = "cursor" /\ ret'.on = c
      /\ cursor' = [cursor EXCEPT ![c] = m]
  BY <1>1 DEF create_cursor, Leave, Return
<1>3. TypeOK /\ res[c] \in MYSQL_RES /\ ret' \in Answer
  BY DEF StreamInv, RowInv, IInv, TypeOK
<1>4. /\ Live(c) /\ ~cursor[c].my_res
      /\ res[c].stored \/ res[c].handle # NULL
  <2>1. Live(c) /\ ~cursor[c].my_res
    BY <1>1, <1>2 DEF StreamInv, RowInv, IInv, FramesSound, ResultOwned, Live
  <2> QED  BY <1>1, <1>2, <2>1 DEF StreamInv, Kinds, CallRight
<1>5. m.my_res = TRUE /\ m.fetch_all = res[c].stored  OBVIOUS
<1> HIDE DEF m
<1>6. cursor'[c] = m /\ \A d \in Cursors \ {c} : cursor'[d] = cursor[d]
  BY <1>2, <1>3 DEF TypeOK
<1>7. \A j \in Levels : frame'[j] = frame[j] \/ frame'[j].op = "none"
  BY <1>2, <1>3 DEF TypeOK, NoFrame
<1>8. Kinds'
  <2>1. \A d \in Cursors : KindRight(d)'
    BY <1>2, <1>5, <1>6 DEF KindRight, StreamInv, Kinds
  <2>2. \A j \in Levels : CallRight(j)'
    BY <1>2, <1>7 DEF CallRight, StreamInv, Kinds, Live
  <2> QED  BY <2>1, <2>2 DEF Kinds
<1>9. \A d \in Cursors \ {c} : SameStream(d)
  BY <1>2, <1>6 DEF SameStream, StreamOf
<1>10. StreamOf(c) = Abstract!None  BY <1>4 DEF StreamOf, Live, Abstract!None
<1>11. StreamOf(c)' = [state |-> "open", rows |-> res[c].rows,
                       reliable |-> res[c].stored]
  BY <1>2, <1>4, <1>5, <1>6 DEF StreamOf
<1>12. res[c].rows \in 0..MaxRows /\ res[c].stored \in BOOLEAN
  BY <1>3 DEF MYSQL_RES
<1> QED  BY <1>2, <1>3, <1>8, <1>9, <1>10, <1>11, <1>12, Opens

(* execute makes a result, which is nobody's stream yet.                   *)
LEMMA SendQueryStream ==
  ASSUME StreamInv, RowInv', NEW l \in Levels, NEW k \in Conns, SendQuery(l, k)
  PROVE  Kinds' /\ Abstract!Next
<1>1. CASE UNCHANGED <<cursor, res, got, frame>> /\ ret'.val \notin News
  BY <1>1, QuietStream
<1>2. ASSUME NEW all \in BOOLEAN, NEW c \in Cursors, NEW n \in 0..MaxRows,
             res[c].state = "none",
             res' = [res EXCEPT ![c] = new_result(k, n, all)],
             Enter(l, [NoFrame EXCEPT !.op = "execute", !.conn = k, !.cur = c]),
             Quiet, UNCHANGED <<cursor, got>>
      PROVE  Kinds' /\ Abstract!Next
  <2> DEFINE F == [NoFrame EXCEPT !.op = "execute", !.conn = k, !.cur = c]
             r == new_result(k, n, all)
  <2>1. TypeOK /\ ~cursor[c].my_res /\ CursorRows(c)
    BY <1>2 DEF StreamInv, RowInv, IInv, ResultOwned, RowsSound
  <2>2. F.op = "execute" /\ F.cur = c  BY DEF NoFrame
  <2>3. r.state = "live" /\ (r.stored \/ r.handle # NULL)
    BY ValuesFacts DEF new_result, NoResult
  <2>4. frame' = [frame EXCEPT ![l] = F] /\ res' = [res EXCEPT ![c] = r]
        /\ ret'.val \notin News
    BY <1>2 DEF Enter, Quiet, Silent, News
  <2> HIDE DEF F, r
  <2>5. /\ frame'[l] = F /\ \A j \in Levels \ {l} : frame'[j] = frame[j]
        /\ res'[c] = r /\ \A d \in Cursors \ {c} : res'[d] = res[d]
    BY <2>1, <2>4 DEF TypeOK
  <2>6. \A d \in Cursors : KindRight(d)'
    BY <1>2, <2>1, <2>5 DEF KindRight, StreamInv, Kinds
  <2>7. CallRight(l)'  BY <2>2, <2>3, <2>5 DEF CallRight
  <2>8. ASSUME NEW j \in Levels, j # l PROVE CallRight(j)'
    <3>1. frame'[j] = frame[j] /\ CallRight(j)
      BY <2>5, <2>8 DEF StreamInv, Kinds
    <3>2. frame[j].cur = c => frame[j].op \notin {"fetch_all", "execute"}
      BY <1>2, <2>1
         DEF CursorRows, NotYet, Holding, StreamInv, RowInv, IInv, FramesSound
    <3> QED  BY <2>5, <3>1, <3>2 DEF CallRight, Live
  <2>9. Kinds'  BY <2>6, <2>7, <2>8 DEF Kinds
  <2>10. ASSUME NEW d \in Cursors PROVE SameStream(d)
    <3>1. CASE d = c
      BY <1>2, <2>1, <2>3, <2>5, <3>1 DEF SameStream, StreamOf
    <3>2. CASE d # c  BY <1>2, <2>5, <3>2 DEF SameStream, StreamOf
    <3> QED  BY <3>1, <3>2
  <2> QED  BY <2>4, <2>9, <2>10, Unsaid
<1>3. PICK q \in Statement(k) :
        \/ /\ ~q.cols
           /\ mysql' = [mysql EXCEPT ![k] = q.m]
           /\ IF q.ok THEN Return("affected", k) ELSE Throw
           /\ UNCHANGED <<stage, heap, held, registry, closed, cursor, res, got,
                          frame, fault>>
        \/ /\ q.cols
           /\ \E all \in BOOLEAN, c \in Cursors : \E r \in ReadResult(q.m, all) :
                /\ res[c].state = "none"
                /\ mysql' = [mysql EXCEPT ![k] = r.m]
                /\ IF r.ok
                   THEN /\ \E n \in 0..MaxRows :
                             res' = [res EXCEPT ![c] = new_result(k, n, all)]
                        /\ Enter(l, [NoFrame EXCEPT !.op = "execute", !.conn = k,
                                                    !.cur = c])
                        /\ Quiet
                   ELSE /\ Return("nothing", k)
                        /\ UNCHANGED <<res, frame>>
           /\ UNCHANGED <<stage, heap, held, registry, closed, cursor, got, fault>>
  BY DEF SendQuery
<1>4. CASE ~q.cols
  <2>1. /\ UNCHANGED <<cursor, res, got, frame>>
        /\ Return("affected", k) \/ Throw
    BY <1>3, <1>4
  <2>2. ret'.val \notin News  BY <2>1 DEF Return, Throw, News
  <2> QED  BY <1>1, <2>1, <2>2
<1>5. CASE q.cols
  <2>1. PICK all \in BOOLEAN, c \in Cursors : \E r \in ReadResult(q.m, all) :
          /\ res[c].state = "none"
          /\ mysql' = [mysql EXCEPT ![k] = r.m]
          /\ IF r.ok
             THEN /\ \E n \in 0..MaxRows :
                       res' = [res EXCEPT ![c] = new_result(k, n, all)]
                  /\ Enter(l, [NoFrame EXCEPT !.op = "execute", !.conn = k,
                                              !.cur = c])
                  /\ Quiet
             ELSE /\ Return("nothing", k)
                  /\ UNCHANGED <<res, frame>>
    BY <1>3, <1>5
  <2>2. UNCHANGED <<cursor, got>>  BY <1>3, <1>5
  <2>3. CASE Return("nothing", k) /\ UNCHANGED <<res, frame>>
    BY <1>1, <2>2, <2>3 DEF Return, News
  <2>4. CASE /\ \E n \in 0..MaxRows : res' = [res EXCEPT ![c] = new_result(k, n, all)]
             /\ Enter(l, [NoFrame EXCEPT !.op = "execute", !.conn = k, !.cur = c])
             /\ Quiet
    BY <1>2, <2>1, <2>2, <2>4
  <2> QED  BY <2>1, <2>3, <2>4
<1> QED  BY <1>3, <1>4, <1>5

-----------------------------------------------------------------------------

(* Calls on cursors, whether or not an option is converted first.          *)
LEMMA FetchStream ==
  ASSUME StreamInv, RowInv', Alone, FullAnswers, NEW l \in Levels, NEW c \in Cursors,
         cursor_fetch(l, c) \/ cursor_fetch_all(l, c)
  PROVE  Kinds' /\ Abstract!Next
<1>1. \A f : ~ConvertArguments(l, f)  BY DEF ConvertArguments, Alone
<1>2. CASE Rejected  BY <1>2, RejectedStream
<1>3. CASE FetchRow(l, c)  BY <1>3, FetchRowStream
<1>4. CASE cursor[c].fetch_all /\ FetchFirstRow(l, c)
  BY <1>4, FetchFirstRowStream
<1> QED  BY <1>1, <1>2, <1>3, <1>4 DEF cursor_fetch, cursor_fetch_all

LEMMA ConnStream ==
  ASSUME StreamInv, RowInv', Alone, NEW l \in Levels, NEW k \in Conns, ConnCall(l, k)
  PROVE  Kinds' /\ Abstract!Next
<1>1. CASE Rejected  BY <1>1, RejectedStream
<1>2. CASE NullMethods
  BY <1>2, QuietStream DEF NullMethods, Quiet, Silent, News, lib
<1>3. CASE command(k)
  BY <1>3, QuietStream DEF command, Quiet, Silent, Throw, Return, News
<1>4. CASE conn_close(l, k)
  BY <1>4, QuietStream DEF conn_close, Quiet, Silent, News
<1>5. CASE conn_set_reconnect(l, k)
  BY <1>1, <1>5, QuietStream DEF conn_set_reconnect, Quiet, Silent, News
<1>6. CASE real_connect(k) /\ UNCHANGED frame
  BY <1>6, QuietStream DEF real_connect, Quiet, Silent, Throw, Return, News
<1>7. CASE SendQuery(l, k)  BY <1>7, SendQueryStream
<1>8. \A f : ~ConvertArguments(l, f)  BY DEF ConvertArguments, Alone
<1> QED  BY <1>1, <1>2, <1>3, <1>4, <1>5, <1>6, <1>7, <1>8
      DEF ConnCall, conn_connect, conn_ping, conn_commit_rollback, conn_execute

LEMMA ResumeStream ==
  ASSUME StreamInv, RowInv', Alone, FullAnswers, NEW l \in Levels, Resume(l)
  PROVE  Kinds' /\ Abstract!Next
<1>1. frame[l].op \notin {"connect", "fetch_opt", "fetch_all_opt"}
  BY DEF StreamInv, Kinds, CallRight
<1>2. ~connect_converted(l) /\ ~option_converted(l)
  BY <1>1 DEF connect_converted, option_converted
<1>3. ~create_cursor_throws(l) /\ ~call_throws(l)
  BY <1>1 DEF create_cursor_throws, call_throws, Alone
<1> QED  BY <1>2, <1>3, CreateCursorStream, RowToTableStream, AllRowToTableStream
      DEF Resume

(* conn_create, and the collector but for the finalizer of cursors.        *)
LEMMA OtherStream ==
  ASSUME StreamInv, RowInv',
         \/ \E l \in Levels : conn_create(l)
         \/ \E o \in Objects : Drop(o) \/ separatetobefnz(o) \/ sweep(o) \/ Resurrect(o)
         \/ \E k \in Conns : GCTM_conn(k)
         \/ lua_close \/ freeallobjects
  PROVE  Kinds' /\ Abstract!Next
<1>1. CASE \E l \in Levels : conn_create(l)
  <2>1. UNCHANGED <<cursor, res, got, frame>> /\ ret'.val \in {"none", "error"}
    BY <1>1 DEF conn_create, Rejected, Quiet, Silent, Throw, Return, lib
  <2> QED  BY <2>1, QuietStream DEF News
<1>2. CASE ~\E l \in Levels : conn_create(l)
  <2>1. UNCHANGED <<cursor, res, got, frame>> /\ ret'.val = "none"
    BY <1>2 DEF Drop, separatetobefnz, sweep, Resurrect, GCTM_conn, lua_close,
                freeallobjects, Quiet, Silent, lib
  <2> QED  BY <2>1, QuietStream DEF News
<1> QED  BY <1>1, <1>2

(* Every step of the program is one of the streams, or changes nothing.    *)
LEMMA StepStream ==
  ASSUME Alone
  PROVE  StreamInv /\ [Next]_vars
           => StreamInv' /\ (Abstract!Next \/ UNCHANGED Abstract!vars)
<1> SUFFICES ASSUME StreamInv, [Next]_vars
             PROVE  StreamInv' /\ (Abstract!Next \/ UNCHANGED Abstract!vars)
  OBVIOUS
<1>1. RowInv' /\ (FullAnswers \/ UNCHANGED vars)  BY StepRowInv DEF StreamInv
<1>2. CASE UNCHANGED vars
  <2>1. UNCHANGED <<cursor, res, got, frame, ret>>  BY <1>2 DEF vars, lib
  <2>2. Kinds'
    BY <2>1 DEF StreamInv, Kinds, KindRight, CallRight, Live
  <2>3. UNCHANGED Abstract!vars
    BY <2>1 DEF Abstract!vars, StreamOf, GivenOf, Said
  <2> QED  BY <1>1, <2>2, <2>3 DEF StreamInv
<1>3. CASE FullAnswers /\ Next
  <2> SUFFICES Over \/ (Kinds' /\ Abstract!Next)
    BY <1>1, <1>2 DEF StreamInv, Over
  <2>1. CASE Script
    <3>1. PICK l \in Levels :
            \/ conn_create(l)
            \/ \E k \in Conns : ConnCall(l, k)
            \/ \E c \in Cursors : CursorCall(l, c)
            \/ Resume(l)
      BY <2>1 DEF Script
    <3>2. CASE conn_create(l)  BY <1>1, <3>2, OtherStream
    <3>3. ASSUME NEW k \in Conns, ConnCall(l, k) PROVE Kinds' /\ Abstract!Next
      BY <1>1, <3>3, ConnStream
    <3>4. ASSUME NEW c \in Cursors, CursorCall(l, c) PROVE Kinds' /\ Abstract!Next
      BY <1>1, <1>3, <3>4, GCStream, FetchStream DEF CursorCall
    <3>5. CASE Resume(l)  BY <1>1, <1>3, <3>5, ResumeStream
    <3> QED  BY <3>1, <3>2, <3>3, <3>4, <3>5
  <2>2. CASE Collector
    BY <1>1, <2>2, OtherStream, GCStream DEF Collector
  <2>3. CASE lua_close \/ freeallobjects  BY <1>1, <2>3, OtherStream
  <2> QED  BY <1>3, <2>1, <2>2, <2>3 DEF Next
<1> QED  BY <1>1, <1>2, <1>3

LEMMA InitStream == Init => StreamInv /\ Abstract!Init
<1> SUFFICES ASSUME Init PROVE Kinds /\ Abstract!Init
  BY InitRowInv DEF StreamInv
<1>1. \A c \in Cursors : ~cursor[c].my_res /\ res[c].state = "none" /\ got[c] = <<>>
  BY DEF Init, NoCursor, NoResult
<1>2. \A l \in Levels : frame[l].op = "none"  BY DEF Init, NoFrame
<1>3. Kinds  BY <1>1, <1>2 DEF Kinds, KindRight, CallRight
<1>4. \A c \in Cursors : StreamOf(c) = Abstract!None
  BY <1>1 DEF StreamOf, Abstract!None
<1>5. ASSUME NEW c \in Cursors PROVE GivenOf(c) = <<>>
  <2>1. <<>> \in Seq(Row) /\ Follow(<<>>, 0)  BY DEF Follow
  <2>2. [i \in DOMAIN got[c] |-> got[c][i].row] = Abstract!Rows(Len(<<>>))
    BY <1>1, <2>1, FirstRows
  <2>3. Abstract!Rows(Len(<<>>)) = <<>>  BY DEF Abstract!Rows
  <2> QED  BY <2>2, <2>3 DEF GivenOf
<1>6. Said = Abstract!Nothing  BY DEF Init, Said, Silent, Abstract!Nothing
<1> QED  BY <1>3, <1>4, <1>5, <1>6 DEF Abstract!Init

(* When functions of the script do not call the binding from inside a call *)
(* and allocations do not throw, a cursor is a row stream.                 *)
THEOREM Implements ==
  ASSUME ~Reentrant, ~AllocThrows
  PROVE  Spec => CursorIsStream
<1>1. Alone  BY DEF Alone
<1>2. Init => StreamInv /\ Abstract!Init  BY InitStream
<1>3. StreamInv /\ [Next]_vars => StreamInv' /\ [Abstract!Next]_(Abstract!vars)
  BY <1>1, StepStream
<1> QED  BY <1>2, <1>3, PTL DEF Spec, CursorIsStream, Abstract!Spec

=============================================================================
