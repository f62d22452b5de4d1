----------------------------- MODULE ReaderProofs -----------------------------
(***************************************************************************)
(* Unbuffered results and the connection they are read from, for any       *)
(* number of both: a connection that is not closed waits for rows exactly  *)
(* while one result has them unread, and no call but its own cursor's, and *)
(* close, ends a read.                                                     *)
(*                                                                         *)
(* What makes it inductive is that a connection waiting for rows is in     *)
(* session (Busy): the library then refuses every command, and a second    *)
(* connect, without touching the structure. A new Connection starts with   *)
(* no reader since readers only ever start on one that was made (Made).    *)
(***************************************************************************)
EXTENDS LuaMysqlProofs

Busy ==
  \A k \in Conns :
    /\ mysql[k].status = "use_result" => ~closed[k] /\ mysql[k].session = "up"
    /\ ~closed[k] =>
         /\ mysql[k].status = "use_result" <=> \E c \in Cursors : Reading(c, k)
         /\ \A c, d \in Cursors : Reading(c, k) /\ Reading(d, k) => c = d

Made ==
  /\ \A o \in held : ud[o] # "none"
  /\ \A c \in Cursors, k \in Conns : Reading(c, k) => ud[k] # "none"

ReaderInv == IInv /\ Busy /\ Made

(* What a step does to readers: those there are read on, or end, or their  *)
(* connection is closed; new ones start on a connection the script holds.  *)
Undisturbed ==
  \A c \in Cursors, k \in Conns :
    Reading(c, k) /\ mysql[k].status = "use_result" =>
      \/ /\ Reading(c, k)' /\ mysql'[k].status = "use_result"
         /\ mysql'[k].session = mysql[k].session
      \/ ~Reading(c, k)'
      \/ closed'[k] /\ ~closed[k]

Started ==
  \A c \in Cursors, k \in Conns : Reading(c, k)' => Reading(c, k) \/ k \in held

-----------------------------------------------------------------------------
(* What the library does to a connection that waits for rows *)

(* Neither starts nor ends an unbuffered read.                             *)
Meek(m, n) ==
  \/ n.status = m.status /\ n.session = m.session
  \/ n.status # "use_result" /\ m.status # "use_result"

(* While rows are unread a command finds the library out of sync.          *)
LEMMA CommandMeek ==
  ASSUME NEW m \in MYSQL, m.status = "use_result" => m.session = "up",
         NEW a \in simple_command(m)
  PROVE  Meek(m, a.m)
<1>1. CASE m.status = "use_result"
  <2>1. Reached(m) = {m} /\ Sent(m) = {}  BY <1>1 DEF Reached, Sent, InSync
  <2>2. FailedCommand(m) = {m}  BY <2>1 DEF FailedCommand
  <2>3. a.m = m  BY <2>1, <2>2 DEF simple_command
  <2> QED  BY <2>3 DEF Meek
<1>2. CASE m.status # "use_result"
  <2>1. \A s \in Reached(m) : s.status # "use_result"
    BY <1>2 DEF Reached, MYSQL
  <2>2. \A s \in Sent(m) : s \in MYSQL /\ s.status # "use_result"
    BY <2>1, CommandSets DEF Sent
  <2>3. \A s \in FailedCommand(m) : s.status # "use_result"
    BY <1>2, <2>1, <2>2 DEF FailedCommand, MYSQL
  <2>4. a.m.status # "use_result"  BY <2>2, <2>3 DEF simple_command
  <2> QED  BY <1>2, <2>4 DEF Meek
<1> QED  BY <1>1, <1>2

(* So does a query; one that is answered with columns is in session.       *)
LEMMA QueryMeek ==
  ASSUME NEW m \in MYSQL, m.status = "use_result" => m.session = "up",
         NEW multi \in SUBSET BOOLEAN, NEW q \in mysql_real_query(m, multi)
  PROVE  /\ Meek(m, q.m)
         /\ q.cols => /\ m.status # "use_result" /\ q.m.status # "use_result"
                      /\ q.m.session = "up"
<1>1. /\ \A s \in Sent(m) : s \in MYSQL /\ s.session = "up" /\ s.status = "ready"
      /\ m.status = "use_result" => Sent(m) = {}
  BY CommandSets DEF Sent, InSync, Reached, MYSQL
<1>2. CASE q \in Refusals(m)
  <2>1. q.m \in FailedCommand(m) /\ ~q.cols  BY <1>2 DEF Refusals
  <2> DEFINE a == [ok |-> FALSE, m |-> q.m]
  <2>2. a \in simple_command(m) /\ a.m = q.m  BY <2>1 DEF simple_command
  <2> HIDE DEF a
  <2>3. Meek(m, a.m)  BY <2>2, CommandMeek
  <2> QED  BY <2>1, <2>2, <2>3
<1>3. CASE q \in Answers(m, multi)
  <2>1. PICK s \in Sent(m), c \in BOOLEAN, x \in multi : q.m = Answered(s, c, x)
    BY <1>3 DEF Answers
  <2>2. s \in MYSQL /\ s.session = "up" /\ m.status # "use_result"  BY <1>1
  <2>3. q.m.session = "up" /\ q.m.status # "use_result"
    BY <2>1, <2>2 DEF Answered, MYSQL
  <2> QED  BY <2>2, <2>3 DEF Meek
<1> QED  BY <1>2, <1>3 DEF mysql_real_query

(* connect is refused while there is a session.                            *)
LEMMA ConnectMeek ==
  ASSUME NEW m \in MYSQL, m.status = "use_result" => m.session = "up",
         NEW a \in mysql_real_connect(m)
  PROVE  Meek(m, a.m)
<1>1. CASE m.session = "up"
  <2>1. a.m = m  BY <1>1 DEF mysql_real_connect
  <2> QED  BY <2>1 DEF Meek
<1>2. CASE m.session # "up"
  <2>1. \/ a.m = [m EXCEPT !.session = "up", !.methods = TRUE,
                           !.status = "ready", !.more = FALSE]
        \/ a.m = [m EXCEPT !.session = "none", !.methods = TRUE]
    BY <1>2 DEF mysql_real_connect
  <2>2. a.m.status # "use_result"  BY <1>2, <2>1 DEF MYSQL
  <2> QED  BY <1>2, <2>2 DEF Meek
<1> QED  BY <1>1, <1>2

(* Making a result: only use_result leaves rows unread.                    *)
LEMMA ResultEffect ==
  ASSUME NEW m \in MYSQL, NEW b \in BOOLEAN
  PROVE  /\ \A a \in mysql_store_result(m) : a.m.status # "use_result"
         /\ \A a \in mysql_use_result(m, b) :
              /\ a.ok => a.m.status = "use_result" /\ a.m.session = m.session
              /\ ~a.ok => a.m = m
<1> DEFINE m1 == [m EXCEPT !.status = "ready"]
           m2 == [m EXCEPT !.status = "ready", !.session = "lost"]
           m3 == [m EXCEPT !.status = "use_result"]
<1>1. /\ m1.status = "ready" /\ m2.status = "ready"
      /\ m3.status = "use_result" /\ m3.session = m.session
  BY DEF MYSQL
<1>2. \A a \in mysql_store_result(m) :
        \/ a = [ok |-> TRUE, m |-> m1] \/ a = [ok |-> FALSE, m |-> m1]
        \/ a = [ok |-> FALSE, m |-> m2]
  BY DEF mysql_store_result
<1>3. \A a \in mysql_use_result(m, b) :
        \/ a = [ok |-> TRUE, m |-> m3]
        \/ a = [ok |-> FALSE, m |-> m]
  BY DEF mysql_use_result
<1> HIDE DEF m1, m2, m3
<1> QED  BY <1>1, <1>2, <1>3

-----------------------------------------------------------------------------
(* What the library does to a result *)

Reads(r, k) == r.state = "live" /\ r.handle = k

(* The result r in the table my became s in the table ny: it reads on as   *)
(* before, or it reads from nothing any more, and then its connection, if  *)
(* that was waiting for rows, waits no more.                               *)
ReadsOn(r, my, s, ny) == ny = my /\ s.state = r.state /\ s.handle = r.handle
Ended(r, my, s, ny) ==
  /\ \A k \in Conns : ~Reads(s, k)
  /\ \/ ny = my /\ (r.handle = NULL \/ my[r.handle].status # "use_result")
     \/ /\ r.handle \in Conns /\ my[r.handle].status = "use_result"
        /\ \E m \in MYSQL : m.status # "use_result" /\ ny = [my EXCEPT ![r.handle] = m]

(* The two ways a connection stops waiting for rows.                       *)
Drained(my, k) == [my EXCEPT ![k].status = "ready"]
Broken(my, k) == [my EXCEPT ![k].status = "ready", ![k].session = "lost"]

LEMMA Released ==
  ASSUME NEW my \in [Conns -> MYSQL], NEW k \in Conns, NEW ny,
         ny = Drained(my, k) \/ ny = Broken(my, k)
  PROVE  \E m \in MYSQL : m.status # "use_result" /\ ny = [my EXCEPT ![k] = m]
<1> DEFINE m1 == [my[k] EXCEPT !.status = "ready"]
           m2 == [m1 EXCEPT !.session = "lost"]
<1>1. m1 \in MYSQL /\ m1.status # "use_result"  BY DEF MYSQL
<1>2. CASE ny = Drained(my, k)
  <2>1. ny = [my EXCEPT ![k] = m1]  BY <1>2 DEF Drained
  <2> HIDE DEF m1
  <2> QED  BY <1>1, <2>1
<1>3. CASE ny = Broken(my, k)
  <2>1. ny = [my EXCEPT ![k] = m2]  BY <1>3 DEF Broken
  <2>2. m2 \in MYSQL /\ m2.status # "use_result"
    <3> HIDE DEF m1
    <3> QED  BY <1>1 DEF MYSQL
  <2> HIDE DEF m2
  <2> QED  BY <2>1, <2>2
<1> QED  BY <1>2, <1>3

LEMMA FetchRowEffect ==
  ASSUME NEW r \in MYSQL_RES, NEW my \in [Conns -> MYSQL],
         NEW f \in mysql_fetch_row(r, my)
  PROVE  ReadsOn(r, my, f.r, f.my) \/ Ended(r, my, f.r, f.my)
<1> USE ValuesFacts
<1>1. /\ [r EXCEPT !.cur = 0].state = r.state /\ [r EXCEPT !.cur = 0].handle = r.handle
      /\ NextRow(r).state = r.state /\ NextRow(r).handle = r.handle
      /\ AtEnd(r).handle = NULL
  BY DEF NextRow, AtEnd, MYSQL_RES
<1>2. \A k \in Conns : ~Reads(AtEnd(r), k)  BY <1>1 DEF Reads
<1>3. r.handle # NULL => r.handle \in Conns  BY DEF MYSQL_RES
<1>4. \/ f = [row |-> r.pos + 1, r |-> NextRow(r), my |-> my]
      \/ f = [row |-> 0, r |-> [r EXCEPT !.cur = 0], my |-> my]
      \/ f = [row |-> 0, r |-> r, my |-> my]
      \/ /\ f = [row |-> 0, r |-> AtEnd(r), my |-> my]
         /\ my[r.handle].status # "use_result"
      \/ /\ \/ f = [row |-> 0, r |-> AtEnd(r), my |-> Drained(my, r.handle)]
            \/ f = [row |-> 0, r |-> AtEnd(r), my |-> Broken(my, r.handle)]
         /\ r.handle # NULL /\ my[r.handle].status = "use_result"
  BY DEF mysql_fetch_row, Drained, Broken
<1>5. CASE \/ f = [row |-> r.pos + 1, r |-> NextRow(r), my |-> my]
           \/ f = [row |-> 0, r |-> [r EXCEPT !.cur = 0], my |-> my]
           \/ f = [row |-> 0, r |-> r, my |-> my]
  <2>1. f.my = my /\ f.r \in {NextRow(r), [r EXCEPT !.cur = 0], r}  BY <1>5
  <2>2. f.r.state = r.state /\ f.r.handle = r.handle  BY <1>1, <2>1
  <2> QED  BY <2>1, <2>2 DEF ReadsOn
<1>6. CASE /\ f = [row |-> 0, r |-> AtEnd(r), my |-> my]
           /\ my[r.handle].status # "use_result"
  BY <1>2, <1>6 DEF Ended
<1>7. CASE /\ \/ f = [row |-> 0, r |-> AtEnd(r), my |-> Drained(my, r.handle)]
              \/ f = [row |-> 0, r |-> AtEnd(r), my |-> Broken(my, r.handle)]
           /\ r.handle # NULL /\ my[r.handle].status = "use_result"
  <2>1. r.handle \in Conns  BY <1>3, <1>7
  <2>2. f.my = Drained(my, r.handle) \/ f.my = Broken(my, r.handle)
    BY <1>7
  <2>3. \E m \in MYSQL : m.status # "use_result" /\ f.my = [my EXCEPT ![r.handle] = m]
    BY <2>1, <2>2, Released
  <2>4. f.r = AtEnd(r)  BY <1>7
  <2> QED  BY <1>2, <1>7, <2>1, <2>3, <2>4 DEF Ended
<1> QED  BY <1>4, <1>5, <1>6, <1>7

LEMMA FreeResultEffect ==
  ASSUME NEW r \in MYSQL_RES, NEW my \in [Conns -> MYSQL],
         NEW f \in mysql_free_result(r, my)
  PROVE  Ended(r, my, f.r, f.my)
<1> USE ValuesFacts
<1> DEFINE freed == [NoResult EXCEPT !.state = "freed"]
<1>1. \A k \in Conns : ~Reads(freed, k)  BY DEF Reads, NoResult
<1>2. \/ /\ f = [r |-> freed, my |-> my]
         /\ r.handle = NULL \/ my[r.handle].status # "use_result"
      \/ /\ \/ f = [r |-> freed, my |-> Drained(my, r.handle)]
            \/ f = [r |-> freed, my |-> Broken(my, r.handle)]
         /\ r.handle # NULL /\ my[r.handle].status = "use_result"
  BY DEF mysql_free_result, Drained, Broken
<1> HIDE DEF freed
<1>3. CASE /\ f = [r |-> freed, my |-> my]
           /\ r.handle = NULL \/ my[r.handle].status # "use_result"
  BY <1>1, <1>3 DEF Ended
<1>4. CASE /\ \/ f = [r |-> freed, my |-> Drained(my, r.handle)]
              \/ f = [r |-> freed, my |-> Broken(my, r.handle)]
           /\ r.handle # NULL /\ my[r.handle].status = "use_result"
  <2>1. r.handle \in Conns  BY <1>4 DEF MYSQL_RES
  <2>2. f.my = Drained(my, r.handle) \/ f.my = Broken(my, r.handle)
    BY <1>4
  <2>3. \E m \in MYSQL : m.status # "use_result" /\ f.my = [my EXCEPT ![r.handle] = m]
    BY <2>1, <2>2, Released
  <2>4. f.r = freed  BY <1>4
  <2> QED  BY <1>1, <1>4, <2>1, <2>3, <2>4 DEF Ended
<1> QED  BY <1>2, <1>3, <1>4

(* A fetch and then a free, as at the end of fetch_all.                    *)
LEMMA FetchFreeEffect ==
  ASSUME NEW r \in MYSQL_RES, r.state = "live", NEW my \in [Conns -> MYSQL],
         NEW f \in mysql_fetch_row(r, my), NEW g \in mysql_free_result(f.r, f.my)
  PROVE  Ended(r, my, g.r, g.my)
<1>1. f.r \in MYSQL_RES /\ f.my \in [Conns -> MYSQL] /\ f.r.state = r.state
  BY ValuesFacts, FetchRowType
<1>2. Ended(f.r, f.my, g.r, g.my)  BY <1>1, FreeResultEffect
<1>3. CASE ReadsOn(r, my, f.r, f.my)  BY <1>2, <1>3 DEF ReadsOn, Ended
<1>4. CASE Ended(r, my, f.r, f.my)
  <2>1. f.r.handle \notin Conns  BY <1>1, <1>4 DEF Ended, Reads
  <2>2. g.my = f.my  BY <1>2, <2>1 DEF Ended
  <2> QED  BY <1>2, <1>4, <2>2 DEF Ended
<1> QED  BY <1>3, <1>4, FetchRowEffect

-----------------------------------------------------------------------------
(* What a step of the binding does to readers: each lemma is one way to    *)
(* change connections or results.                                          *)

ReaderStep == Busy' /\ Undisturbed /\ Started

(* Neither.                                                                *)
LEMMA SameReaders ==
  ASSUME Busy, UNCHANGED <<closed, mysql>>,
         \A c \in Cursors : res'[c].state = res[c].state /\ res'[c].handle = res[c].handle
  PROVE  ReaderStep
<1>1. \A c \in Cursors, k \in Conns : Reading(c, k)' <=> Reading(c, k)
  BY DEF Reading
<1>2. Busy'  BY <1>1 DEF Busy
<1>3. Undisturbed  BY <1>1 DEF Undisturbed
<1> QED  BY <1>1, <1>2, <1>3 DEF ReaderStep, Started

(* A command, connect or an option on one connection.                      *)
LEMMA MeekStep ==
  ASSUME Busy, TypeOK, NEW k \in Conns, NEW m, Meek(mysql[k], m),
         mysql' = [mysql EXCEPT ![k] = m], UNCHANGED <<closed, res>>
  PROVE  ReaderStep
<1>1. mysql'[k] = m /\ \A j \in Conns \ {k} : mysql'[j] = mysql[j]
  BY DEF TypeOK
<1>2. \A j \in Conns : /\ mysql'[j].status = "use_result" <=> mysql[j].status = "use_result"
                       /\ mysql[j].status = "use_result"
                            => mysql'[j].session = mysql[j].session
  BY <1>1 DEF Meek
<1>3. \A c \in Cursors, j \in Conns : Reading(c, j)' <=> Reading(c, j)
  BY DEF Reading
<1>4. Busy'  BY <1>2, <1>3 DEF Busy
<1>5. Undisturbed  BY <1>2, <1>3 DEF Undisturbed
<1> QED  BY <1>3, <1>4, <1>5 DEF ReaderStep, Started

(* close: what was read from the connection is not any more.               *)
LEMMA CloseStep ==
  ASSUME Busy, TypeOK, NEW k \in Conns, close_conn(k), UNCHANGED res
  PROVE  ReaderStep
<1>1. CASE closed[k]  BY <1>1, SameReaders DEF close_conn
<1>2. CASE ~closed[k]
  <2>1. closed' = [closed EXCEPT ![k] = TRUE]
        /\ mysql' = [mysql EXCEPT ![k] = mysql_close(mysql[k])]
    BY <1>2 DEF close_conn
  <2>2. mysql_close(mysql[k]).status = "ready"  BY DEF mysql_close, TypeOK, MYSQL
  <2>3. /\ closed'[k] /\ mysql'[k].status = "ready"
        /\ \A j \in Conns \ {k} : mysql'[j] = mysql[j] /\ closed'[j] = closed[j]
    BY <2>1, <2>2 DEF TypeOK
  <2>4. \A c \in Cursors, j \in Conns : Reading(c, j)' <=> Reading(c, j)
    BY DEF Reading
  <2>5. Busy'  BY <2>3, <2>4 DEF Busy
  <2>6. Undisturbed  BY <1>2, <2>3, <2>4 DEF Undisturbed
  <2> QED  BY <2>4, <2>5, <2>6 DEF ReaderStep, Started
<1> QED  BY <1>1, <1>2

(* A row is fetched from the result of c, or the result is freed.          *)
LEMMA ResultStep ==
  ASSUME Busy, TypeOK, NEW c \in Cursors, res[c].state = "live", NEW r,
         res' = [res EXCEPT ![c] = r],
         ReadsOn(res[c], mysql, r, mysql') \/ Ended(res[c], mysql, r, mysql'),
         UNCHANGED closed
  PROVE  ReaderStep
<1>1. res'[c] = r /\ \A d \in Cursors \ {c} : res'[d] = res[d]
  BY DEF TypeOK
<1>2. CASE ReadsOn(res[c], mysql, r, mysql')
  BY <1>1, <1>2, SameReaders DEF ReadsOn
<1>3. CASE Ended(res[c], mysql, r, mysql')
  <2>1. /\ \A j \in Conns : ~Reading(c, j)'
        /\ \A d \in Cursors \ {c}, j \in Conns : Reading(d, j)' <=> Reading(d, j)
    BY <1>1, <1>3 DEF Ended, Reads, Reading
  <2>2. CASE /\ mysql' = mysql
             /\ res[c].handle = NULL \/ mysql[res[c].handle].status # "use_result"
    <3>1. \A j \in Conns : Reading(c, j) => mysql[j].status # "use_result"
      BY <2>2, ValuesFacts DEF Reading
    <3>2. \A j \in Conns : Reading(c, j) => closed[j]  BY <3>1 DEF Busy
    <3>3. Busy'  BY <2>1, <2>2, <3>2 DEF Busy
    <3>4. Undisturbed  BY <2>1, <2>2 DEF Undisturbed
    <3> QED  BY <2>1, <3>3, <3>4 DEF ReaderStep, Started
  <2>3. CASE /\ res[c].handle \in Conns /\ mysql[res[c].handle].status = "use_result"
             /\ \E m \in MYSQL : /\ m.status # "use_result"
                               /\ mysql' = [mysql EXCEPT ![res[c].handle] = m]
    <3>0. PICK k \in Conns : k = res[c].handle  BY <2>3
    <3>1. mysql[k].status = "use_result" /\ ~closed[k] /\ Reading(c, k)
      BY <2>3, <3>0 DEF Busy, Reading
    <3>2. /\ mysql'[k].status # "use_result"
          /\ \A j \in Conns \ {k} : mysql'[j] = mysql[j]
      BY <2>3, <3>0 DEF TypeOK
    <3>3. \A j \in Conns \ {k} : ~Reading(c, j)  BY <3>0 DEF Reading
    <3>4. \A d \in Cursors : ~Reading(d, k)'
      BY <2>1, <3>1 DEF Busy
    <3>5. \A j \in Conns \ {k}, d \in Cursors : Reading(d, j)' <=> Reading(d, j)
      BY <2>1, <3>3
    <3>6. Busy'
      <4> SUFFICES ASSUME NEW j \in Conns
                   PROVE  /\ mysql'[j].status = "use_result"
                               => ~closed'[j] /\ mysql'[j].session = "up"
                          /\ ~closed'[j] =>
                               /\ mysql'[j].status = "use_result"
                                    <=> \E d \in Cursors : Reading(d, j)'
                               /\ \A d, e \in Cursors :
                                    Reading(d, j)' /\ Reading(e, j)' => d = e
        BY DEF Busy
      <4>1. CASE j = k  BY <3>2, <3>4, <4>1
      <4>2. CASE j # k  BY <3>2, <3>5, <4>2 DEF Busy
      <4> QED  BY <4>1, <4>2
    <3>7. Undisturbed  BY <3>2, <3>4, <3>5 DEF Undisturbed
    <3> QED  BY <2>1, <3>6, <3>7 DEF ReaderStep, Started
  <2> QED  BY <1>3, <2>2, <2>3 DEF Ended
<1> QED  BY <1>2, <1>3

(* nullify after a fetch: the two effects are one.                         *)
LEMMA NullifyReaders ==
  ASSUME Busy, TypeOK, ResultOwned, NEW c \in Cursors, nullify(c, res[c], mysql),
         UNCHANGED closed
  PROVE  ReaderStep
<1>1. CASE ~cursor[c].my_res
  BY <1>1, SameReaders DEF nullify
<1>2. CASE cursor[c].my_res
  <2>1. PICK g \in mysql_free_result(res[c], mysql) :
          res' = [res EXCEPT ![c] = g.r] /\ mysql' = g.my
    BY <1>2 DEF nullify
  <2>2. Ended(res[c], mysql, g.r, g.my)  BY FreeResultEffect DEF TypeOK
  <2>3. res[c].state = "live"  BY <1>2 DEF ResultOwned
  <2> QED  BY <2>1, <2>2, <2>3, ResultStep
<1> QED  BY <1>1, <1>2

LEMMA FetchNullifyReaders ==
  ASSUME Busy, TypeOK, ResultOwned, NEW c \in Cursors, 
         NEW f \in mysql_fetch_row(res[c], mysql), nullify(c, f.r, f.my),
         UNCHANGED closed
  PROVE  ReaderStep
<1>1. CASE ~cursor[c].my_res
  BY <1>1, SameReaders DEF nullify
<1>2. CASE cursor[c].my_res
  <2>1. PICK g \in mysql_free_result(f.r, f.my) :
          res' = [res EXCEPT ![c] = g.r] /\ mysql' = g.my
    BY <1>2 DEF nullify
  <2>2. res[c].state = "live"  BY <1>2 DEF ResultOwned
  <2>3. Ended(res[c], mysql, g.r, g.my)  BY <2>2, FetchFreeEffect DEF TypeOK
  <2> QED  BY <2>1, <2>2, <2>3, ResultStep
<1> QED  BY <1>1, <1>2

(* A new result, of a connection that nothing is read from.                *)
LEMMA NewResultStep ==
  ASSUME Busy, TypeOK, NEW k \in Conns, k \in held, ~closed[k],
         mysql[k].status # "use_result", NEW c \in Cursors, res[c].state = "none",
         NEW n, NEW all \in BOOLEAN, NEW m,
         all => m.status # "use_result",
         ~all => m.status = "use_result" /\ m.session = "up",
         mysql' = [mysql EXCEPT ![k] = m],
         res' = [res EXCEPT ![c] = new_result(k, n, all)], UNCHANGED closed
  PROVE  ReaderStep
<1>1. mysql'[k] = m /\ \A j \in Conns \ {k} : mysql'[j] = mysql[j]
  BY DEF TypeOK
<1>2. new_result(k, n, all).state = "live"
      /\ new_result(k, n, all).handle = IF all THEN NULL ELSE k
  BY DEF new_result, NoResult
<1>3. res'[c] = new_result(k, n, all) /\ \A d \in Cursors \ {c} : res'[d] = res[d]
  BY DEF TypeOK
<1>4. /\ \A j \in Conns : Reading(c, j)' <=> ~all /\ j = k
      /\ \A j \in Conns : ~Reading(c, j)
      /\ \A d \in Cursors \ {c}, j \in Conns : Reading(d, j)' <=> Reading(d, j)
  BY <1>2, <1>3, ValuesFacts DEF Reading
<1>5. \A d \in Cursors : ~Reading(d, k)  BY DEF Busy
<1>6. Busy'
  <2> SUFFICES ASSUME NEW j \in Conns
               PROVE  /\ mysql'[j].status = "use_result"
                           => ~closed'[j] /\ mysql'[j].session = "up"
                      /\ ~closed'[j] =>
                           /\ mysql'[j].status = "use_result"
                                <=> \E d \in Cursors : Reading(d, j)'
                           /\ \A d, e \in Cursors :
                                Reading(d, j)' /\ Reading(e, j)' => d = e
    BY DEF Busy
  <2>1. CASE j = k  BY <1>1, <1>4, <1>5, <2>1
  <2>2. CASE j # k
    <3>1. \A d \in Cursors : Reading(d, j)' <=> Reading(d, j)  BY <1>4, <2>2
    <3> QED  BY <1>1, <2>2, <3>1 DEF Busy
  <2> QED  BY <2>1, <2>2
<1>7. Undisturbed  BY <1>1, <1>4, <1>5 DEF Undisturbed
<1>8. Started  BY <1>4 DEF Started
<1> QED  BY <1>6, <1>7, <1>8 DEF ReaderStep

-----------------------------------------------------------------------------
(* The actions *)

(* Nothing happens to connections and results.                             *)
LEMMA IdleStep ==
  ASSUME Busy, UNCHANGED <<closed, mysql, res>>
  PROVE  ReaderStep
BY SameReaders

LEMMA CreateReaders ==
  ASSUME ReaderInv, NEW l \in Levels, conn_create(l)
  PROVE  ReaderStep
<1>1. Busy /\ Made /\ TypeOK  BY DEF ReaderInv, IInv
<1>2. PICK k \in Conns :
        /\ ud[k] = "none"
        /\ \/ /\ closed' = [closed EXCEPT ![k] = FALSE]
              /\ mysql' = [mysql EXCEPT ![k] = mysql_init]
              /\ UNCHANGED res
           \/ Rejected
  BY DEF conn_create
<1>3. CASE Rejected  BY <1>1, <1>3, IdleStep DEF Rejected, lib
<1>4. CASE /\ closed' = [closed EXCEPT ![k] = FALSE]
           /\ mysql' = [mysql EXCEPT ![k] = mysql_init]
           /\ UNCHANGED res
  <2>1. /\ ~closed'[k] /\ mysql'[k].status = "ready"
        /\ \A j \in Conns \ {k} : mysql'[j] = mysql[j] /\ closed'[j] = closed[j]
    BY <1>1, <1>4 DEF TypeOK, mysql_init
  <2>2. \A c \in Cursors : ~Reading(c, k)  BY <1>1, <1>2 DEF Made
  <2>3. \A c \in Cursors, j \in Conns : Reading(c, j)' <=> Reading(c, j)
    BY <1>4 DEF Reading
  <2>4. Busy'
    <3> SUFFICES ASSUME NEW j \in Conns
                 PROVE  /\ mysql'[j].status = "use_result"
                             => ~closed'[j] /\ mysql'[j].session = "up"
                        /\ ~closed'[j] =>
                             /\ mysql'[j].status = "use_result"
                                  <=> \E d \in Cursors : Reading(d, j)'
                             /\ \A d, e \in Cursors :
                                  Reading(d, j)' /\ Reading(e, j)' => d = e
      BY DEF Busy
    <3>1. CASE j = k  BY <2>1, <2>2, <2>3, <3>1
    <3>2. CASE j # k  BY <1>1, <2>1, <2>3, <3>2 DEF Busy
    <3> QED  BY <3>1, <3>2
  <2>5. Undisturbed  BY <2>1, <2>2, <2>3 DEF Undisturbed
  <2> QED  BY <2>3, <2>4, <2>5 DEF ReaderStep, Started
<1> QED  BY <1>2, <1>3, <1>4

LEMMA ConnectReaders ==
  ASSUME ReaderInv, NEW k \in Conns, real_connect(k)
  PROVE  ReaderStep
<1>1. Busy /\ TypeOK  BY DEF ReaderInv, IInv
<1>2. PICK a \in mysql_real_connect(mysql[k]) : mysql' = [mysql EXCEPT ![k] = a.m]
  BY DEF real_connect
<1>3. mysql[k] \in MYSQL /\ (mysql[k].status = "use_result" => mysql[k].session = "up")
  BY <1>1 DEF Busy, TypeOK
<1>4. Meek(mysql[k], a.m)  BY <1>3, ConnectMeek
<1> QED  BY <1>1, <1>2, <1>4, MeekStep DEF real_connect

LEMMA CommandReaders ==
  ASSUME ReaderInv, NEW k \in Conns, command(k)
  PROVE  ReaderStep
<1>1. Busy /\ TypeOK  BY DEF ReaderInv, IInv
<1>2. PICK a \in simple_command(mysql[k]) : mysql' = [mysql EXCEPT ![k] = a.m]
  BY DEF command
<1>3. mysql[k] \in MYSQL /\ (mysql[k].status = "use_result" => mysql[k].session = "up")
  BY <1>1 DEF Busy, TypeOK
<1>4. Meek(mysql[k], a.m)  BY <1>3, CommandMeek
<1> QED  BY <1>1, <1>2, <1>4, MeekStep DEF command

LEMMA ExecuteReaders ==
  ASSUME ReaderInv, NEW l \in Levels, NEW k \in Conns, conn_execute(l, k)
  PROVE  ReaderStep
<1>1. Busy /\ TypeOK  BY DEF ReaderInv, IInv
<1>2. CASE Rejected \/ NullMethods
  BY <1>1, <1>2, IdleStep DEF Rejected, NullMethods, lib
<1>3. CASE SendQuery(l, k) /\ ~closed[k]
  <2>1. PICK q \in Statement(k) :
          \/ /\ ~q.cols
             /\ mysql' = [mysql EXCEPT ![k] = q.m]
             /\ IF q.ok THEN Return("affected", k) ELSE Throw
             /\ UNCHANGED <<stage, heap, held, registry, closed, cursor, res, got,
                            frame, fault>>
          \/ /\ q.cols
             /\ \E all \in BOOLEAN, c \in Cursors : \E r \in ReadResult(q.m, all) :
                  /\ res[c].state = "none"
                  /\ mysql' = [mysql EXCEPT ![k] = r.m]
                  /\ IF r.ok
                     THEN /\ \E n \in 0..MaxRows :
                               res' = [res EXCEPT ![c] = new_result(k, n, all)]
                          /\ Enter(l, [NoFrame EXCEPT !.op = "execute", !.conn = k,
                                                      !.cur = c])
                          /\ Quiet
                     ELSE /\ Return("nothing", k)
                          /\ UNCHANGED <<res, frame>>
             /\ UNCHANGED <<stage, heap, held, registry, closed, cursor, got, fault>>
    BY <1>3 DEF SendQuery
  <2>2. mysql[k] \in MYSQL /\ (mysql[k].status = "use_result" => mysql[k].session = "up")
    BY <1>1 DEF Busy, TypeOK
  <2>3. /\ q.m \in MYSQL /\ Meek(mysql[k], q.m)
        /\ q.cols => /\ mysql[k].status # "use_result" /\ q.m.status # "use_result"
                     /\ q.m.session = "up"
    <3>1. (IF MultiResults THEN BOOLEAN ELSE {FALSE}) \in SUBSET BOOLEAN  OBVIOUS
    <3> QED  BY <2>2, <3>1, QueryType, QueryMeek DEF Statement
  <2>4. CASE mysql' = [mysql EXCEPT ![k] = q.m] /\ UNCHANGED <<closed, res>>
    BY <1>1, <2>3, <2>4, MeekStep
  <2>5. ASSUME q.cols, UNCHANGED closed,
               NEW all \in BOOLEAN, NEW c \in Cursors, NEW r \in ReadResult(q.m, all),
               res[c].state = "none",
               mysql' = [mysql EXCEPT ![k] = r.m],
               r.ok => \E n \in 0..MaxRows :
                         res' = [res EXCEPT ![c] = new_result(k, n, all)],
               ~r.ok => UNCHANGED res
        PROVE  ReaderStep
    <3>1. /\ all => r.m.status # "use_result"
          /\ ~all /\ r.ok => r.m.status = "use_result" /\ r.m.session = "up"
          /\ ~all /\ ~r.ok => r.m = q.m
      BY <2>3, <2>5, ResultEffect, ConstantTypes DEF ReadResult
    <3>2. CASE r.ok
      <4>1. k \in held  BY DEF conn_execute
      <4>2. PICK n \in 0..MaxRows : res' = [res EXCEPT ![c] = new_result(k, n, all)]
        BY <2>5, <3>2
      <4> QED  BY <1>1, <1>3, <2>3, <2>5, <3>1, <3>2, <4>1, <4>2, NewResultStep
    <3>3. CASE ~r.ok
      <4>1. Meek(mysql[k], r.m)  BY <2>3, <2>5, <3>1, <3>3 DEF Meek
      <4> QED  BY <1>1, <2>5, <3>3, <4>1, MeekStep
    <3> QED  BY <3>2, <3>3
  <2> QED  BY <2>1, <2>4, <2>5
<1> QED  BY <1>2, <1>3 DEF conn_execute

(* The calls on a connection.                                              *)
LEMMA ConnReaders ==
  ASSUME ReaderInv, NEW l \in Levels, NEW k \in Conns, ConnCall(l, k)
  PROVE  ReaderStep
<1>1. Busy /\ TypeOK  BY DEF ReaderInv, IInv
<1>2. CASE Rejected \/ NullMethods
  BY <1>1, <1>2, IdleStep DEF Rejected, NullMethods, lib
<1>3. CASE conn_close(l, k)  BY <1>1, <1>3, CloseStep DEF conn_close
<1>4. CASE conn_connect(l, k)
  <2>1. CASE ConvertArguments(l, [NoFrame EXCEPT !.op = "connect", !.conn = k])
    BY <1>1, <2>1, IdleStep DEF ConvertArguments, lib
  <2> QED  BY <1>2, <1>4, <2>1, ConnectReaders DEF conn_connect
<1>5. CASE conn_set_reconnect(l, k)
  <2>1. CASE Rejected  BY <1>2, <2>1
  <2>2. CASE ~Rejected
    <3>1. PICK v \in ReconnectValues : mysql' = [mysql EXCEPT ![k].reconnect = v]
      BY <1>5, <2>2 DEF conn_set_reconnect
    <3> DEFINE m == [mysql[k] EXCEPT !.reconnect = v]
    <3>2. mysql' = [mysql EXCEPT ![k] = m]  BY <3>1
    <3>3. Meek(mysql[k], m)  BY <1>1 DEF Meek, TypeOK, MYSQL
    <3>4. UNCHANGED <<closed, res>>  BY <1>5, <2>2 DEF conn_set_reconnect
    <3> HIDE DEF m
    <3> QED  BY <1>1, <3>2, <3>3, <3>4, MeekStep
  <2> QED  BY <2>1, <2>2
<1>6. CASE conn_ping(l, k)  BY <1>2, <1>6, CommandReaders DEF conn_ping
<1>7. CASE conn_commit_rollback(l, k)
  BY <1>2, <1>7, CommandReaders DEF conn_commit_rollback
<1>8. CASE conn_execute(l, k)  BY <1>8, ExecuteReaders
<1> QED  BY <1>3, <1>4, <1>5, <1>6, <1>7, <1>8 DEF ConnCall

(* The calls on a cursor.                                                  *)
LEMMA FetchReaders ==
  ASSUME ReaderInv, NEW l \in Levels, NEW c \in Cursors,
         FetchRow(l, c) \/ FetchFirstRow(l, c)
  PROVE  ReaderStep
<1>1. Busy /\ TypeOK /\ ResultOwned  BY DEF ReaderInv, IInv
<1>2. res[c].state = "live" /\ UNCHANGED closed
  BY <1>1 DEF FetchRow, FetchFirstRow, ResultOwned
<1>3. PICK f \in mysql_fetch_row(res[c], mysql) :
        \/ /\ mysql' = f.my
           /\ \/ res' = [res EXCEPT ![c] = f.r]
              \/ res' = [res EXCEPT ![c] = mysql_fetch_lengths(f.r)]
        \/ nullify(c, f.r, f.my)
  BY DEF FetchRow, FetchFirstRow, WithLengths
<1>4. CASE nullify(c, f.r, f.my)
  BY <1>1, <1>2, <1>4, FetchNullifyReaders
<1>5. CASE /\ mysql' = f.my
           /\ \/ res' = [res EXCEPT ![c] = f.r]
              \/ res' = [res EXCEPT ![c] = mysql_fetch_lengths(f.r)]
  <2>1. ReadsOn(res[c], mysql, f.r, f.my) \/ Ended(res[c], mysql, f.r, f.my)
    BY <1>1, FetchRowEffect DEF TypeOK
  <2>2. f.r \in MYSQL_RES  BY <1>1, FetchRowType, ValuesFacts DEF TypeOK
  <2> DEFINE r == mysql_fetch_lengths(f.r)
  <2>3. r.state = f.r.state /\ r.handle = f.r.handle
    BY <2>2 DEF mysql_fetch_lengths, MYSQL_RES
  <2>4. res' = [res EXCEPT ![c] = f.r] \/ res' = [res EXCEPT ![c] = r]
    BY <1>5
  <2> HIDE DEF r
  <2>5. ReadsOn(res[c], mysql, r, f.my) \/ Ended(res[c], mysql, r, f.my)
    BY <2>1, <2>3 DEF ReadsOn, Ended, Reads
  <2> QED  BY <1>1, <1>2, <1>5, <2>1, <2>4, <2>5, ResultStep
<1> QED  BY <1>3, <1>4, <1>5

LEMMA CursorReaders ==
  ASSUME ReaderInv, NEW l \in Levels, NEW c \in Cursors, CursorCall(l, c)
  PROVE  ReaderStep
<1>1. Busy /\ TypeOK /\ ResultOwned  BY DEF ReaderInv, IInv
<1>2. CASE Rejected  BY <1>1, <1>2, IdleStep DEF Rejected, lib
<1>3. CASE cursor_gc(l, c)
  BY <1>1, <1>3, NullifyReaders DEF cursor_gc, cursor_nullify
<1>4. CASE cursor_fetch(l, c) \/ cursor_fetch_all(l, c)
  <2>1. ASSUME NEW f, ConvertArguments(l, f) PROVE ReaderStep
    BY <1>1, <2>1, IdleStep DEF ConvertArguments, lib
  <2> QED  BY <1>2, <1>4, <2>1, FetchReaders DEF cursor_fetch, cursor_fetch_all
<1> QED  BY <1>3, <1>4 DEF CursorCall

(* A call goes on.                                                         *)
LEMMA ResumeReaders ==
  ASSUME ReaderInv, NEW l \in Levels, Resume(l)
  PROVE  ReaderStep
<1>1. Busy /\ TypeOK /\ ResultOwned /\ FramesSound  BY DEF ReaderInv, IInv
<1>2. CASE UNCHANGED <<closed, mysql, res>>  BY <1>1, <1>2, IdleStep
<1>3. CASE connect_converted(l)
  <2>1. PICK k \in Conns : k = frame[l].conn
    BY <1>1, <1>3 DEF connect_converted, FramesSound, CallSound
  <2> QED  BY <1>3, <2>1, ConnectReaders DEF connect_converted
<1>4. CASE create_cursor(l)  BY <1>2, <1>4 DEF create_cursor
<1>5. CASE create_cursor_throws(l) \/ call_throws(l)
  BY <1>2, <1>5 DEF create_cursor_throws, call_throws, lib
<1>6. CASE option_converted(l)
  <2>1. PICK c \in Cursors : c = frame[l].cur
    BY <1>1, <1>6 DEF option_converted, FramesSound, CallSound
  <2>2. CASE NullResult(c)  BY <1>2, <2>2 DEF NullResult, lib
  <2> QED  BY <1>6, <2>1, <2>2, FetchReaders DEF option_converted
<1>7. CASE fetch_row_to_table(l)
  BY <1>2, <1>7 DEF fetch_row_to_table, StaleRow, lib
<1>8. CASE fetch_all_row_to_table(l)
  <2>1. CASE StaleRow  BY <1>2, <2>1 DEF StaleRow, lib
  <2>2. CASE ~StaleRow
    <3>1. PICK c \in Cursors : c = frame[l].cur
      BY <1>1, <1>8 DEF fetch_all_row_to_table, FramesSound, CallSound
    <3>2. PICK g \in mysql_fetch_row(res[c], mysql) :
            \/ res' = [res EXCEPT ![c] = g.r] /\ mysql' = g.my
            \/ nullify(c, g.r, g.my)
      BY <1>8, <2>2, <3>1 DEF fetch_all_row_to_table
    <3>3. res[c].state = "live" /\ UNCHANGED closed
      BY <1>8, <2>2, <3>1 DEF fetch_all_row_to_table, RowReadable
    <3>4. ReadsOn(res[c], mysql, g.r, g.my) \/ Ended(res[c], mysql, g.r, g.my)
      BY <1>1, FetchRowEffect DEF TypeOK
    <3> QED  BY <1>1, <3>2, <3>3, <3>4, ResultStep, FetchNullifyReaders
  <2> QED  BY <2>1, <2>2
<1> QED  BY <1>3, <1>4, <1>5, <1>6, <1>7, <1>8 DEF Resume

(* The collector and the end of the Lua state.                             *)
LEMMA CollectorReaders ==
  ASSUME ReaderInv, Collector \/ lua_close \/ freeallobjects \/ Over
  PROVE  ReaderStep
<1>1. Busy /\ TypeOK /\ ResultOwned  BY DEF ReaderInv, IInv
<1>2. CASE UNCHANGED <<closed, mysql, res>>  BY <1>1, <1>2, IdleStep
<1>3. ASSUME NEW o \in Objects, Drop(o) \/ separatetobefnz(o) \/ sweep(o) \/ Resurrect(o)
      PROVE  ReaderStep
  BY <1>2, <1>3 DEF Drop, separatetobefnz, sweep, Resurrect, lib
<1>4. ASSUME NEW c \in Cursors, GCTM_cursor(c) PROVE ReaderStep
  BY <1>1, <1>4, NullifyReaders DEF GCTM_cursor, cursor_nullify
<1>5. ASSUME NEW k \in Conns, GCTM_conn(k) PROVE ReaderStep
  BY <1>1, <1>5, CloseStep DEF GCTM_conn
<1>6. CASE lua_close \/ freeallobjects \/ Over
  BY <1>2, <1>6 DEF lua_close, freeallobjects, Over, vars, lib
<1> QED  BY <1>3, <1>4, <1>5, <1>6 DEF Collector

(* Every step.                                                             *)
LEMMA NextReaders ==
  ASSUME ReaderInv, [Next]_vars
  PROVE  ReaderStep
<1>1. CASE UNCHANGED vars  BY <1>1, IdleStep DEF ReaderInv, vars, lib
<1>2. CASE Script
  BY <1>2, CreateReaders, ConnReaders, CursorReaders, ResumeReaders DEF Script
<1>3. CASE Collector \/ lua_close \/ freeallobjects \/ Over  BY <1>3, CollectorReaders
<1> QED  BY <1>1, <1>2, <1>3 DEF Next

(* No userdata is unmade, and the script only gets ones that were made.    *)
MadeStays ==
  \A o \in Objects : /\ ud[o] # "none" => ud'[o] # "none"
                     /\ o \in held' => o \in held \/ ud'[o] # "none"

LEMMA HeapStep ==
  ASSUME IInv, [Next]_vars
  PROVE  MadeStays
<1>0. TypeOK /\ FramesSound  BY DEF IInv
<1>1. CASE UNCHANGED <<heap, held>>  BY <1>1 DEF MadeStays, heap
<1>2. ASSUME NEW o \in Objects, lua_setmetatable(o) PROVE MadeStays
  BY <1>0, <1>2 DEF lua_setmetatable, MadeStays, TypeOK
<1>3. CASE UNCHANGED vars  BY <1>1, <1>3 DEF vars
<1>4. ASSUME NEW l \in Levels, conn_create(l) PROVE MadeStays
  BY <1>1, <1>2, <1>4 DEF conn_create, Rejected, Objects
<1>5. ASSUME NEW l \in Levels, NEW k \in Conns, ConnCall(l, k) PROVE MadeStays
  <2>1. UNCHANGED <<heap, held>>
    BY <1>5 DEF ConnCall, conn_close, conn_connect, conn_set_reconnect, conn_ping,
       conn_commit_rollback, conn_execute, SendQuery, Rejected, NullMethods,
       ConvertArguments, real_connect, command
  <2> QED  BY <1>1, <2>1
<1>6. ASSUME NEW l \in Levels, NEW c \in Cursors, CursorCall(l, c) PROVE MadeStays
  <2>1. UNCHANGED <<heap, held>>
    BY <1>6 DEF CursorCall, cursor_gc, cursor_fetch, cursor_fetch_all, Rejected,
       ConvertArguments, FetchRow, FetchFirstRow
  <2> QED  BY <1>1, <2>1
<1>7. ASSUME NEW l \in Levels, Resume(l) PROVE MadeStays
  <2>1. CASE create_cursor(l)
    <3>1. PICK c \in Cursors : c = frame[l].cur
      BY <1>0, <2>1 DEF create_cursor, FramesSound, CallSound
    <3> QED  BY <1>2, <2>1, <3>1 DEF create_cursor, Objects
  <2>2. CASE ~create_cursor(l)
    <3>1. UNCHANGED <<heap, held>>
      BY <1>7, <2>2 DEF Resume, connect_converted, real_connect, create_cursor_throws,
         option_converted, NullResult, FetchRow, FetchFirstRow, fetch_row_to_table,
         fetch_all_row_to_table, StaleRow, call_throws
    <3> QED  BY <1>1, <3>1
  <2> QED  BY <2>1, <2>2
<1>8. CASE Collector
  <2>1. ASSUME NEW o \in Objects, Drop(o) \/ separatetobefnz(o) \/ sweep(o) \/ Resurrect(o)
        PROVE  MadeStays
    BY <1>0, <2>1 DEF Drop, separatetobefnz, sweep, Resurrect, heap, MadeStays, TypeOK
  <2>2. ASSUME NEW c \in Cursors, GCTM_cursor(c) PROVE MadeStays
    BY <1>0, <2>2 DEF GCTM_cursor, MadeStays, TypeOK, Objects
  <2>3. ASSUME NEW k \in Conns, GCTM_conn(k) PROVE MadeStays
    BY <1>0, <2>3 DEF GCTM_conn, MadeStays, TypeOK, Objects
  <2> QED  BY <1>8, <2>1, <2>2, <2>3 DEF Collector
<1>9. CASE lua_close \/ freeallobjects \/ Over
  BY <1>0, <1>3, <1>9 DEF lua_close, freeallobjects, Over, MadeStays, TypeOK
<1> QED  BY <1>3, <1>4, <1>5, <1>6, <1>7, <1>8, <1>9 DEF Next, Script

LEMMA InitReaderInv == Init => ReaderInv
<1> SUFFICES ASSUME Init PROVE ReaderInv  OBVIOUS
<1>1. IInv  BY InitIInv
<1>2. \A c \in Cursors, k \in Conns : ~Reading(c, k)
  BY DEF Init, Reading, NoResult
<1>3. Busy
  BY <1>2 DEF Init, Busy, mysql_init
<1>4. Made  BY <1>2 DEF Init, Made
<1> QED  BY <1>1, <1>3, <1>4 DEF ReaderInv

LEMMA StepReaderInv == ReaderInv /\ [Next]_vars => ReaderInv' /\ Undisturbed
<1> SUFFICES ASSUME ReaderInv, [Next]_vars PROVE ReaderInv' /\ Undisturbed  OBVIOUS
<1>1. IInv'  BY StepIInv DEF ReaderInv
<1>2. Busy' /\ Undisturbed /\ Started  BY NextReaders DEF ReaderStep
<1>3. MadeStays  BY HeapStep DEF ReaderInv
<1>4. Made'
  <2>1. held' \subseteq Objects  BY <1>1 DEF IInv, TypeOK
  <2>2. \A o \in held' : ud'[o] # "none"
    BY <1>3, <2>1 DEF MadeStays, ReaderInv, Made
  <2>3. \A c \in Cursors, k \in Conns : Reading(c, k)' => ud'[k] # "none"
    BY <1>2, <1>3 DEF Started, MadeStays, ReaderInv, Made, Objects
  <2> QED  BY <2>2, <2>3 DEF Made
<1> QED  BY <1>1, <1>2, <1>4 DEF ReaderInv

LEMMA ReaderInvariance == Spec => []ReaderInv
BY InitReaderInv, StepReaderInv, PTL DEF Spec

(* However connections are lost and made again, statements sent, results   *)
(* freed and collector steps interleaved: a connection that is not closed  *)
(* waits for rows exactly while one unfreed result has them unread. No     *)
(* result ever takes the rows of another.                                  *)
THEOREM BusyExact == Spec => []BusyIffReader
<1>1. ReaderInv => BusyIffReader  BY DEF ReaderInv, Busy, BusyIffReader
<1> QED  BY <1>1, ReaderInvariance, PTL

(* No statement, commit, ping or connect on a connection, and no collector *)
(* step but the finalizer of the reading cursor or of the connection, ends *)
(* an unbuffered read or replaces its session.                             *)
THEOREM ReadsUndisturbed == Spec => ReaderUndisturbed
<1>1. ReaderInv /\ [Next]_vars =>
        [\A c \in Cursors, k \in Conns :
           Reading(c, k) /\ mysql[k].status = "use_result" =>
             \/ /\ Reading(c, k)' /\ mysql'[k].status = "use_result"
                /\ mysql'[k].session = mysql[k].session
             \/ ~Reading(c, k)'
             \/ closed'[k] /\ ~closed[k]]_vars
  BY StepReaderInv DEF Undisturbed
<1> QED  BY <1>1, ReaderInvariance, PTL DEF Spec, ReaderUndisturbed

=============================================================================
