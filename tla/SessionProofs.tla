---------------------------- MODULE SessionProofs ----------------------------
(***************************************************************************)
(* Proofs about Session, for any statements, seconds, strings and width of *)
(* unsigned int: types, that no part of a transaction is durable before    *)
(* its commit, that commit and rollback mean what they say, that every     *)
(* session has the options the script asked for, and that Session          *)
(* implements LuaMysql.                                                    *)
(***************************************************************************)
EXTENDS SessionBinding, TLAPS

Commands == Stmts \cup {"begin", "autocommit=0", "commit", "rollback", "ping"}
Client == [session: {"none", "up", "lost"}, methods: BOOLEAN,
           reconnect: BOOLEAN, intrans: BOOLEAN, options: Values]
Server == [up: BOOLEAN, begun: BOOLEAN, auto: BOOLEAN,
           pending: SUBSET Stmts, options: Values]

-----------------------------------------------------------------------------
(* The server and the library *)

(* NoSession and a new session are typed; neither is in a transaction.     *)
LEMMA SessionTypes ==
  /\ NoOptions \in Values
  /\ NoSession \in Server /\ ~NoSession.up
  /\ NoSession.pending = {} /\ NoSession.auto
  /\ \A o \in Values :
       /\ NewSession(o) \in Server /\ NewSession(o).up /\ NewSession(o).auto
       /\ NewSession(o).options = o /\ NewSession(o).pending = {}
       /\ ~NewSession(o).begun
<1>1. NoOptions \in Values
  BY DEF NoOptions, Values
<1>2. /\ NoSession \in Server /\ ~NoSession.up
      /\ NoSession.pending = {} /\ NoSession.auto
  BY <1>1 DEF NoSession, Server
<1>3. QED
  BY <1>1, <1>2 DEF NewSession, Server

(* Whatever is executed, the session stays and keeps its options.          *)
LEMMA ExecutedTypes ==
  ASSUME NEW sv \in Server, NEW c \in Commands
  PROVE  /\ Executed(sv, c) \in Server
         /\ Committed(sv, c) \in SUBSET Stmts
         /\ Executed(sv, c).up = sv.up
         /\ Executed(sv, c).options = sv.options
         /\ InTrans(Executed(sv, c)) \in BOOLEAN
<1>1. Executed(sv, c) \in Server
  BY DEF Executed, Server, Transacts
<1>2. Committed(sv, c) \in SUBSET Stmts
  BY DEF Committed, Server, Transacts
<1>3. Executed(sv, c).up = sv.up /\ Executed(sv, c).options = sv.options
  BY DEF Executed
<1>4. InTrans(Executed(sv, c)) \in BOOLEAN
  BY DEF InTrans
<1>5. QED
  BY <1>1, <1>2, <1>3, <1>4

(* A client's structure whose session is lost or regained, or whose status *)
(* is as given.                                                            *)
LEMMA ClientFields ==
  ASSUME NEW m \in Client, NEW b \in BOOLEAN
  PROVE  /\ Lost(m) \in Client /\ Lost(m).session = "lost"
         /\ Lost(m).options = m.options /\ Lost(m).intrans = m.intrans
         /\ Regained(m) \in Client /\ Regained(m).session = "up"
         /\ Regained(m).options = m.options /\ Regained(m).intrans = m.intrans
         /\ WithStatus(m, b) \in Client /\ WithStatus(m, b).intrans = b
         /\ WithStatus(m, b).session = m.session
         /\ WithStatus(m, b).options = m.options
  BY DEF Lost, Regained, WithStatus, Client

(* The three ways a command may go: executed in the session there is; in a *)
(* new one, outside of any transaction; not answered.                      *)
Outcome == [ok: BOOLEAN, m: Client, sv: Server, dur: SUBSET Stmts]

In(sv, c, r) ==
  /\ r.ok /\ r.sv = Executed(sv, c) /\ r.dur = Committed(sv, c)
  /\ r.m.session = "up" /\ r.m.intrans = InTrans(Executed(sv, c))

Here(m, sv, c, r) == sv.up /\ In(sv, c, r)
Anew(m, c, r) == ~m.intrans /\ In(NewSession(m.options), c, r)
Unanswered(m, sv, r) ==
  /\ ~r.ok
  /\ r.sv.up => r.m.session = "up" /\ r.sv.options \in {sv.options, m.options}
  /\ r.sv.up /\ ~sv.up => r.sv.options = m.options
  /\ r.sv.up \/ r.sv = NoSession

LEMMA OutcomeFields ==
  ASSUME NEW m \in Client, NEW sv \in Server, NEW dur \in SUBSET Stmts
  PROVE  /\ Failed(m, sv, dur) \in Outcome /\ ~Failed(m, sv, dur).ok
         /\ Failed(m, sv, dur).m = m /\ Failed(m, sv, dur).sv = sv
         /\ Done(m, sv, dur) \in Outcome /\ Done(m, sv, dur).ok
         /\ Done(m, sv, dur).m = m /\ Done(m, sv, dur).sv = sv
         /\ Done(m, sv, dur).dur = dur
  BY DEF Failed, Done, Outcome

LEMMA ExchangeEffect ==
  ASSUME NEW m \in Client, NEW sv \in Server, NEW c \in Commands,
         m.session = "up", sv.up \/ sv = NoSession,
         NEW r \in Exchange(m, sv, c)
  PROVE  /\ r \in Outcome /\ r.m.options = m.options
         /\ Here(m, sv, c, r) \/ Unanswered(m, sv, r)
<1>1. /\ Executed(sv, c) \in Server /\ InTrans(Executed(sv, c)) \in BOOLEAN
      /\ Committed(sv, c) \in SUBSET Stmts /\ {} \in SUBSET Stmts
      /\ Executed(sv, "rollback") \in Server
      /\ Executed(sv, "rollback").up = sv.up
      /\ Executed(sv, "rollback").options = sv.options
  BY ExecutedTypes DEF Commands
<1>2. NoSession \in Server /\ ~NoSession.up
  BY SessionTypes
<1>3. /\ Lost(m) \in Client /\ Lost(m).options = m.options
  BY ClientFields
<1>4. \/ sv.up /\ r = Done(WithStatus(m, InTrans(Executed(sv, c))), Executed(sv, c),
                          Committed(sv, c))
      \/ sv.up /\ r = Failed(m, sv, {})
      \/ sv.up /\ r = Failed(m, Executed(sv, "rollback"), {})
      \/ r = Failed(Lost(m), NoSession, {})
      \/ sv.up /\ r = Failed(Lost(m), NoSession, Committed(sv, c))
  BY DEF Exchange
<1>5. CASE sv.up /\ r = Done(WithStatus(m, InTrans(Executed(sv, c))), Executed(sv, c),
                            Committed(sv, c))
  <2> DEFINE w == WithStatus(m, InTrans(Executed(sv, c)))
  <2>1. /\ w \in Client /\ w.session = "up" /\ w.options = m.options
        /\ w.intrans = InTrans(Executed(sv, c))
    BY <1>1, ClientFields
  <2> HIDE DEF w
  <2>2. QED
    BY <1>1, <1>5, <2>1, OutcomeFields DEF Here, In, w
<1>6. CASE sv.up /\ r = Failed(m, sv, {})
  <2>1. r \in Outcome /\ ~r.ok /\ r.m = m /\ r.sv = sv
    BY <1>1, <1>6, OutcomeFields
  <2>2. QED
    BY <1>6, <2>1 DEF Unanswered
<1>7. CASE sv.up /\ r = Failed(m, Executed(sv, "rollback"), {})
  <2> DEFINE back == Executed(sv, "rollback")
  <2>1. back \in Server /\ back.up = sv.up /\ back.options = sv.options
    BY <1>1
  <2>2. sv.up /\ r = Failed(m, back, {})
    BY <1>7
  <2> HIDE DEF back
  <2>3. r \in Outcome /\ ~r.ok /\ r.m = m /\ r.sv = back
    BY <1>1, <2>1, <2>2, OutcomeFields
  <2>4. QED
    BY <1>1, <2>1, <2>2, <2>3 DEF Unanswered
<1>8. CASE \/ r = Failed(Lost(m), NoSession, {})
           \/ r = Failed(Lost(m), NoSession, Committed(sv, c))
  <2>1. r \in Outcome /\ ~r.ok /\ r.m = Lost(m) /\ r.sv = NoSession
    BY <1>1, <1>2, <1>3, <1>8, OutcomeFields
  <2>2. QED
    BY <1>2, <1>3, <2>1 DEF Unanswered
<1>9. QED
  BY <1>4, <1>5, <1>6, <1>7, <1>8

(* A command sent again: only outside of a transaction, on a session with  *)
(* the options as they are.                                                *)
LEMMA ResentEffect ==
  ASSUME NEW m \in Client, NEW sv \in Server, NEW c \in Commands,
         m.session # "up", sv = NoSession,
         NEW r \in Resent(m, sv, c)
  PROVE  /\ r \in Outcome /\ r.m.options = m.options
         /\ Anew(m, c, r) \/ Unanswered(m, sv, r)
<1> DEFINE fresh == NewSession(m.options)
<1>1. /\ fresh \in Server /\ fresh.up /\ fresh.options = m.options
      /\ ~sv.up /\ {} \in SUBSET Stmts
  BY SessionTypes DEF Client
<1>2. /\ Regained(m) \in Client /\ Regained(m).session = "up"
      /\ Regained(m).options = m.options
      /\ WithStatus(m, FALSE) \in Client /\ WithStatus(m, FALSE).options = m.options
  BY ClientFields
<1>3. PICK q \in Reconnected(m, sv) : r \in IF q.ok THEN Exchange(q.m, q.sv, c) ELSE {q}
  BY DEF Resent
<1>4. CASE q = Failed(WithStatus(m, FALSE), sv, {})
  <2> DEFINE w == WithStatus(m, FALSE)
  <2>1. w \in Client /\ w.options = m.options /\ q = Failed(w, sv, {})
    BY <1>2, <1>4
  <2> HIDE DEF w
  <2>2. q \in Outcome /\ ~q.ok /\ q.m = w /\ q.sv = sv
    BY <1>1, <2>1, OutcomeFields
  <2>3. r = q
    BY <1>3, <2>2
  <2>4. QED
    BY <2>1, <2>2, <2>3, <1>1 DEF Unanswered
<1>5. CASE q = Failed(m, sv, {})
  <2>1. q \in Outcome /\ ~q.ok /\ q.m = m /\ q.sv = sv
    BY <1>1, <1>5, OutcomeFields
  <2>2. r = q
    BY <1>3, <2>1
  <2>3. QED
    BY <2>1, <2>2, <1>1 DEF Unanswered
<1>6. CASE ~m.intrans /\ q = Done(Regained(m), fresh, {})
  <2>1. r \in Exchange(Regained(m), fresh, c)
    <3>1. q.ok /\ q.m = Regained(m) /\ q.sv = fresh
      BY <1>1, <1>2, <1>6, OutcomeFields
    <3>2. QED
      BY <1>3, <3>1
  <2>2. /\ r \in Outcome /\ r.m.options = m.options
        /\ Here(Regained(m), fresh, c, r) \/ Unanswered(Regained(m), fresh, r)
    <3> HIDE DEF fresh
    <3>1. QED
      BY <2>1, <1>1, <1>2, ExchangeEffect
  <2>3. CASE Here(Regained(m), fresh, c, r)
    BY <2>2, <2>3, <1>6 DEF Here, Anew
  <2>4. CASE Unanswered(Regained(m), fresh, r)
    <3> HIDE DEF fresh
    <3>1. QED
      BY <2>2, <2>4, <1>1, <1>2 DEF Unanswered
  <2>5. QED
    BY <2>2, <2>3, <2>4
<1>7. QED
  BY <1>3, <1>4, <1>5, <1>6 DEF Reconnected, MayReconnect

LEMMA CommandEffect ==
  ASSUME NEW m \in Client, NEW sv \in Server, NEW c \in Commands,
         sv.up => m.session = "up", sv.up \/ sv = NoSession,
         NEW r \in Command(m, sv, c)
  PROVE  /\ r \in Outcome /\ r.m.options = m.options
         /\ Here(m, sv, c, r) \/ Anew(m, c, r) \/ Unanswered(m, sv, r)
<1>1. CASE m.session = "up" /\ r \in Exchange(m, sv, c)
  BY <1>1, ExchangeEffect
<1>2. CASE m.session = "up" /\ r \in Resent(Lost(m), NoSession, c)
  <2>1. /\ Lost(m) \in Client /\ Lost(m).session # "up"
        /\ Lost(m).options = m.options /\ Lost(m).intrans = m.intrans
    BY ClientFields
  <2>2. NoSession \in Server /\ ~NoSession.up
    BY SessionTypes
  <2>3. /\ r \in Outcome /\ r.m.options = m.options
        /\ Anew(Lost(m), c, r) \/ Unanswered(Lost(m), NoSession, r)
    BY <1>2, <2>1, <2>2, ResentEffect
  <2>4. CASE Anew(Lost(m), c, r)
    BY <2>4, <2>3, <2>1 DEF Anew
  <2>5. CASE Unanswered(Lost(m), NoSession, r)
    BY <2>5, <2>3, <2>1, <2>2 DEF Unanswered
  <2>6. QED
    BY <2>3, <2>4, <2>5
<1>3. CASE m.session # "up"
  <2>1. sv = NoSession /\ r \in Resent(m, sv, c)
    BY <1>3 DEF Command
  <2>2. QED
    BY <2>1, <1>3, ResentEffect
<1>4. QED
  BY <1>1, <1>2, <1>3 DEF Command

-----------------------------------------------------------------------------
(* The inductive invariant *)

(* The client knows of every session the server has; without one there is  *)
(* nothing of it.                                                          *)
Linked ==
  /\ server.up => mysql.session = "up"
  /\ server.up \/ server = NoSession

OptionsKept ==
  \A s \in Setters : asked[s] \in Charsets \cup UInts \cup {Unset} =>
    \/ mysql.options[OptionOf(s)] = asked[s]
    \/ s \in doubtful /\ mysql.options[OptionOf(s)] = Unset

(* Each setter has an option of its own.                                   *)
LEMMA OptionOfSetter ==
  ASSUME NEW s \in Setters
  PROVE  OptionOf(s) \in Options /\ \A q \in Setters \ {s} : OptionOf(q) # OptionOf(s)
  BY DEF Setters, OptionOf, Options, Timeouts

(* A transaction the script can rely on is the one the server has, if it   *)
(* still has the session; and the status that keeps the library from       *)
(* reconnecting is set as soon as there is something to lose.              *)
BegunSound ==
  trans.begun /\ ~trans.told =>
    mysql.session = "up" /\ mysql.intrans /\ (server.up => server.begun)

StmtsSound ==
  Reliable =>
    /\ trans.stmts \cap durable = {}
    /\ server.up => trans.stmts \subseteq server.pending
    /\ trans.stmts # {} => mysql.session = "up" /\ mysql.intrans

TransSound == BegunSound /\ StmtsSound

SessionInv == TypeOK /\ Linked /\ OptionsKept /\ TransSound

-----------------------------------------------------------------------------
(* What the script sees of a transaction *)

LEMMA SeenTypes ==
  ASSUME TypeOK, NEW c \in Commands
  PROVE  Seen(c) \in [begun: BOOLEAN, manual: BOOLEAN, stmts: SUBSET Stmts, told: BOOLEAN]
  BY DEF Seen, TypeOK, Restarts, InTransaction

(* An error leaves nothing to rely on.                                     *)
LEMMA ThrowsSound ==
  ASSUME TypeOK, Throws
  PROVE  /\ trans' \in [begun: BOOLEAN, manual: BOOLEAN, stmts: SUBSET Stmts, told: BOOLEAN]
         /\ answer' = "error"
         /\ TransSound'
<1> DEFINE b == trans.begun \/ trans.manual
<1>1. trans' = [trans EXCEPT !.told = b] /\ answer' = "error"
  BY DEF Throws, InTransaction
<1>2. trans = [begun |-> trans.begun, manual |-> trans.manual, stmts |-> trans.stmts,
               told |-> trans.told]
  BY DEF TypeOK
<1>3. b \in BOOLEAN
  BY DEF TypeOK
<1>4. trans' \in [begun: BOOLEAN, manual: BOOLEAN, stmts: SUBSET Stmts, told: BOOLEAN]
  <2> HIDE DEF b
  <2>1. QED
    BY <1>1, <1>3 DEF TypeOK
<1>5. /\ trans'.begun = trans.begun /\ trans'.manual = trans.manual
      /\ trans'.told = b
  <2> HIDE DEF b
  <2>1. QED
    BY <1>1, <1>2
<1>6. ~(trans'.begun /\ ~trans'.told) /\ ~Reliable'
  BY <1>5 DEF Reliable
<1>7. QED
  BY <1>1, <1>4, <1>6 DEF TransSound, BegunSound, StmtsSound

(* The fields of the session after c, and of the transaction as seen then. *)
LEMMA ExecutedFields ==
  ASSUME NEW s \in Server, NEW c \in Commands
  PROVE  LET e == Executed(s, c) IN
         /\ e.up = s.up
         /\ e.begun <=> c = "begin" \/ (s.begun /\ c \notin {"commit", "rollback"})
         /\ e.auto <=> s.auto /\ c # "autocommit=0"
         /\ c \in {"begin", "commit", "rollback"} => e.pending = {}
         /\ c \in {"autocommit=0", "ping"} => e.pending = s.pending
         /\ c \in Stmts => e.pending = IF s.begun \/ ~s.auto THEN s.pending \cup {c}
                                       ELSE s.pending
         /\ InTrans(e) <=> e.begun \/ (~e.auto /\ e.pending # {})
  BY StmtsDistinct DEF Executed, Transacts, InTrans, Server

LEMMA CommittedFields ==
  ASSUME NEW s \in Server, NEW c \in Commands
  PROVE  /\ c \in {"begin", "commit"} => Committed(s, c) = s.pending
         /\ c \in {"autocommit=0", "ping", "rollback"} => Committed(s, c) = {}
         /\ c \in Stmts => Committed(s, c) = IF s.begun \/ ~s.auto THEN {} ELSE {c}
  BY StmtsDistinct DEF Committed, Transacts

LEMMA SeenFields ==
  ASSUME TypeOK, NEW c \in Commands
  PROVE  LET t == Seen(c) IN
         /\ t.begun <=> c = "begin" \/ (trans.begun /\ c \notin {"commit", "rollback"})
         /\ t.manual <=> trans.manual \/ c = "autocommit=0"
         /\ t.told <=> trans.told /\ ~Restarts(c)
         /\ Restarts(c) => t.stmts = {}
         /\ c = "ping" \/ (c = "autocommit=0" /\ trans.begun) => t.stmts = trans.stmts
         /\ c \in Stmts => t.stmts = IF trans.begun \/ trans.manual
                                     THEN trans.stmts \cup {c} ELSE trans.stmts
  BY StmtsDistinct DEF Seen, Restarts, InTransaction

(* A command that was answered, executed in the session s: the one there   *)
(* was, or a new one. If the script could rely on its transaction, and     *)
(* there was something in it, then it was the former.                      *)
LEMMA AnsweredSound ==
  ASSUME TypeOK, Linked, TransSound, NEW c \in Commands, NEW s \in Server, s.up,
         \/ s = server
         \/ ~mysql.intrans /\ s.auto /\ ~s.begun /\ s.pending = {},
         c \in Stmts => c \notin durable,
         mysql'.session = "up", mysql'.intrans = InTrans(Executed(s, c)),
         server' = Executed(s, c), durable' = durable \cup Committed(s, c),
         trans' = Seen(c)
  PROVE  /\ TransSound'
         /\ Reliable /\ c = "commit" => trans.stmts \subseteq durable'
         /\ Reliable /\ c = "rollback" =>
              trans.stmts \cap (durable' \cup server'.pending) = {}
<1>1. /\ server'.up
      /\ server'.begun <=> c = "begin" \/ (s.begun /\ c \notin {"commit", "rollback"})
      /\ server'.auto <=> s.auto /\ c # "autocommit=0"
      /\ c \in {"begin", "commit", "rollback"} => server'.pending = {}
      /\ c \in {"autocommit=0", "ping"} => server'.pending = s.pending
      /\ c \in Stmts => server'.pending = IF s.begun \/ ~s.auto THEN s.pending \cup {c}
                                          ELSE s.pending
      /\ mysql'.intrans <=> server'.begun \/ (~server'.auto /\ server'.pending # {})
  BY ExecutedFields
<1>2. /\ c \in {"begin", "commit"} => durable' = durable \cup s.pending
      /\ c \in {"autocommit=0", "ping", "rollback"} => durable' = durable
      /\ c \in Stmts => durable' = IF s.begun \/ ~s.auto THEN durable
                                   ELSE durable \cup {c}
  BY CommittedFields
<1>3. /\ trans'.begun <=> c = "begin" \/ (trans.begun /\ c \notin {"commit", "rollback"})
      /\ trans'.manual <=> trans.manual \/ c = "autocommit=0"
      /\ trans'.told <=> trans.told /\ ~Restarts(c)
      /\ Restarts(c) => trans'.stmts = {}
      /\ c = "ping" \/ (c = "autocommit=0" /\ trans.begun) => trans'.stmts = trans.stmts
      /\ c \in Stmts => trans'.stmts = IF trans.begun \/ trans.manual
                                       THEN trans.stmts \cup {c} ELSE trans.stmts
  BY SeenFields
<1>4. Reliable /\ trans.begun => s = server /\ mysql.intrans /\ s.begun
  BY DEF TransSound, BegunSound, Reliable
<1>5. Reliable /\ trans.stmts # {} => s = server
  BY DEF TransSound, StmtsSound
<1>6. Reliable => trans.stmts \cap durable = {} /\ (s = server => trans.stmts \subseteq s.pending)
  BY DEF TransSound, StmtsSound
<1>7. CASE Restarts(c)
  <2>1. trans'.stmts = {}
    BY <1>3, <1>7
  <2>2. trans'.begun => c = "begin"
    BY <1>3, <1>7 DEF Restarts
  <2>3. BegunSound'
    BY <1>1, <2>2 DEF BegunSound
  <2>4. StmtsSound'
    BY <2>1 DEF StmtsSound
  <2>5. Reliable /\ c = "commit" => trans.stmts \subseteq durable'
    BY <1>2, <1>5, <1>6
  <2>6. Reliable /\ c = "rollback" => trans.stmts \cap (durable' \cup server'.pending) = {}
    BY <1>1, <1>2, <1>6
  <2>7. QED
    BY <2>3, <2>4, <2>5, <2>6 DEF TransSound
<1>8. CASE ~Restarts(c)
  <2>1. /\ c \in Stmts \/ c = "ping" \/ (c = "autocommit=0" /\ trans.begun)
        /\ c \notin {"begin", "commit", "rollback"}
    BY <1>8 DEF Commands, Restarts
  <2>2. /\ trans'.begun <=> trans.begun
        /\ trans'.told <=> trans.told
    BY <1>3, <1>8, <2>1
  <2>3. Reliable' => Reliable /\ s = server
    <3>1. CASE trans.begun
      BY <3>1, <2>2, <1>4 DEF Reliable
    <3>2. CASE ~trans.begun
      <4>1. c # "autocommit=0"
        BY <2>1, <3>2, StmtsDistinct
      <4>2. Reliable' => ~trans.told /\ trans.manual /\ ~s.auto
        BY <1>1, <1>3, <2>2, <3>2, <4>1 DEF Reliable
      <4>3. QED
        BY <4>2 DEF Reliable
    <3>3. QED
      BY <3>1, <3>2
  <2>4. BegunSound'
    <3>1. trans'.begun /\ ~trans'.told => Reliable /\ trans.begun
      BY <2>2 DEF Reliable
    <3>2. QED
      BY <1>1, <1>4, <2>1, <3>1 DEF BegunSound
  <2>5. ASSUME Reliable'
        PROVE  /\ trans'.stmts \cap durable' = {}
               /\ trans'.stmts \subseteq server'.pending
               /\ trans'.stmts # {} => mysql'.intrans
    <3>1. /\ Reliable /\ s = server /\ trans.stmts \cap durable = {}
          /\ trans.stmts \subseteq s.pending
      BY <2>3, <2>5, <1>6
    <3>2. s.begun \/ ~s.auto
      BY <3>1, <1>4 DEF Reliable
    <3>3. trans.begun \/ trans.manual
      BY <3>1 DEF Reliable
    <3>4. CASE c \in Stmts
      <4>1. /\ trans'.stmts = trans.stmts \cup {c} /\ durable' = durable
            /\ server'.pending = s.pending \cup {c}
        BY <1>1, <1>2, <1>3, <3>2, <3>3, <3>4
      <4>2. server'.begun \/ ~server'.auto
        BY <1>1, <2>1, <3>2
      <4>3. QED
        BY <1>1, <3>1, <3>4, <4>1, <4>2
    <3>5. CASE c \notin Stmts
      <4>1. /\ trans'.stmts = trans.stmts /\ durable' = durable
            /\ server'.pending = s.pending
        BY <1>1, <1>2, <1>3, <2>1, <3>5
      <4>2. server'.begun \/ ~server'.auto
        BY <1>1, <2>1, <3>2
      <4>3. QED
        BY <1>1, <3>1, <4>1, <4>2
    <3>6. QED
      BY <3>4, <3>5
  <2>6. StmtsSound'
    BY <2>5 DEF StmtsSound
  <2>7. QED
    BY <2>1, <2>4, <2>6 DEF TransSound
<1>9. QED
  BY <1>7, <1>8

-----------------------------------------------------------------------------
(* Commands *)

(* A call that sends a command, from the outcome to the next state.        *)
LEMMA CommandSound ==
  ASSUME SessionInv, NEW c \in Commands, NEW a \in {"none", "affected"},
         c \in Stmts => c \notin durable,
         NEW r \in Command(mysql, server, c), Apply(r), Answer(r, c, a)
  PROVE  /\ SessionInv'
         /\ server'.up /\ (~server.up \/ server'.options # server.options) =>
              server'.options = mysql.options
         /\ answer' # "error" /\ Reliable /\ c = "commit" => trans.stmts \subseteq durable'
         /\ answer' # "error" /\ Reliable /\ c = "rollback" =>
              trans.stmts \cap (durable' \cup server'.pending) = {}
<1>1. /\ mysql \in Client /\ server \in Server /\ mysql.options \in Values
      /\ server.up => mysql.session = "up"
      /\ server.up \/ server = NoSession
  BY DEF SessionInv, TypeOK, Linked, Client, Server
<1>2. /\ r \in Outcome /\ r.m.options = mysql.options
      /\ \/ Here(mysql, server, c, r) \/ Anew(mysql, c, r)
         \/ Unanswered(mysql, server, r)
  BY <1>1, CommandEffect
<1>3. /\ mysql' = r.m /\ server' = r.sv /\ durable' = durable \cup r.dur
      /\ closed' = closed /\ made' = made /\ fault' = fault /\ asked' = asked
      /\ doubtful' = doubtful
  BY DEF Apply
<1>4. /\ r.m \in Client /\ r.sv \in Server /\ r.dur \in SUBSET Stmts
  BY <1>2 DEF Outcome
<1>5. OptionsKept'
  BY <1>2, <1>3 DEF SessionInv, OptionsKept
<1>6. ASSUME /\ answer' \in {"none", "affected", "error"}
             /\ trans' \in [begun: BOOLEAN, manual: BOOLEAN, stmts: SUBSET Stmts,
                            told: BOOLEAN]
      PROVE  TypeOK'
  BY <1>3, <1>4, <1>6 DEF SessionInv, TypeOK, Client, Server
<1>7. CASE Here(mysql, server, c, r) \/ Anew(mysql, c, r)
  <2>1. r.ok /\ answer' = a /\ trans' = Seen(c)
    BY <1>7 DEF Here, Anew, In, Answer, Returns
  <2>2. PICK s \in Server :
          /\ s.up /\ In(s, c, r)
          /\ s.options = server.options \/ s.options = mysql.options
          /\ ~server.up => s.options = mysql.options
          /\ \/ s = server
             \/ ~mysql.intrans /\ s.auto /\ ~s.begun /\ s.pending = {}
    <3>1. CASE Here(mysql, server, c, r)
      BY <1>1, <3>1 DEF Here
    <3>2. CASE Anew(mysql, c, r)
      <4> DEFINE n == NewSession(mysql.options)
      <4>1. /\ n \in Server /\ n.up /\ n.auto /\ ~n.begun /\ n.pending = {}
            /\ n.options = mysql.options
        BY <1>1, SessionTypes
      <4>2. ~mysql.intrans /\ In(n, c, r)
        BY <3>2 DEF Anew
      <4> HIDE DEF n
      <4>3. QED
        BY <4>1, <4>2
    <3>3. QED
      BY <1>7, <3>1, <3>2
  <2>3. /\ server' = Executed(s, c) /\ durable' = durable \cup Committed(s, c)
        /\ mysql'.session = "up" /\ mysql'.intrans = InTrans(Executed(s, c))
    BY <2>2, <1>3 DEF In
  <2>4. server'.up /\ server'.options = s.options
    BY <2>2, <2>3, ExecutedTypes
  <2>5. TypeOK
    BY DEF SessionInv
  <2>6. TypeOK'
    BY <1>6, <2>1, <2>5, SeenTypes
  <2>7. /\ TransSound'
        /\ Reliable /\ c = "commit" => trans.stmts \subseteq durable'
        /\ Reliable /\ c = "rollback" =>
             trans.stmts \cap (durable' \cup server'.pending) = {}
    BY <2>1, <2>2, <2>3, AnsweredSound DEF SessionInv
  <2>8. Linked'
    BY <2>3, <2>4 DEF Linked
  <2>9. QED
    BY <1>5, <2>2, <2>4, <2>6, <2>7, <2>8 DEF SessionInv
<1>8. CASE Unanswered(mysql, server, r)
  <2>1. Throws
    BY <1>8 DEF Unanswered, Answer
  <2>2. TypeOK
    BY DEF SessionInv
  <2>3. /\ TransSound' /\ answer' = "error"
        /\ trans' \in [begun: BOOLEAN, manual: BOOLEAN, stmts: SUBSET Stmts, told: BOOLEAN]
    BY <2>1, <2>2, ThrowsSound
  <2>4. TypeOK'
    BY <1>6, <2>3
  <2>5. Linked'
    BY <1>3, <1>8 DEF Linked, Unanswered
  <2>6. server'.up /\ (~server.up \/ server'.options # server.options) =>
          server'.options = mysql.options
    BY <1>3, <1>8 DEF Unanswered
  <2>7. QED
    BY <1>5, <2>3, <2>4, <2>5, <2>6 DEF SessionInv
<1>9. QED
  BY <1>2, <1>7, <1>8

-----------------------------------------------------------------------------
(* The other calls *)

(* What a step may do to a session: it has the options of the client.      *)
Begun == server'.up /\ (~server.up \/ server'.options # server.options) =>
           server'.options = mysql.options

(* A step that leaves the session and the transaction alone.               *)
LEMMA QuietSound ==
  ASSUME SessionInv, UNCHANGED <<server, trans, durable>>, TypeOK',
         mysql'.session = mysql.session, mysql'.intrans = mysql.intrans, OptionsKept'
  PROVE  SessionInv' /\ Begun
<1>1. Reliable' = Reliable
  BY DEF Reliable
<1>2. TransSound'
  BY <1>1 DEF SessionInv, TransSound, BegunSound, StmtsSound
<1>3. Linked'
  BY DEF SessionInv, Linked
<1>4. QED
  BY <1>2, <1>3 DEF SessionInv, Begun

LEMMA NoTransactionSound ==
  ASSUME trans' = NoTransaction
  PROVE  /\ TransSound'
         /\ trans' \in [begun: BOOLEAN, manual: BOOLEAN, stmts: SUBSET Stmts, told: BOOLEAN]
<1>1. ~trans'.begun /\ ~trans'.manual /\ trans'.stmts = {}
  BY DEF NoTransaction
<1>2. TransSound'
  BY <1>1 DEF TransSound, BegunSound, StmtsSound, Reliable
<1>3. QED
  BY <1>2 DEF NoTransaction

LEMMA CreateStep ==
  ASSUME SessionInv, conn_create
  PROVE  SessionInv' /\ Begun
<1>1. TypeOK'
  BY DEF SessionInv, TypeOK, conn_create, Returns
<1>2. OptionsKept'
  BY DEF SessionInv, OptionsKept, conn_create
<1>3. QED
  BY <1>1, <1>2, QuietSound DEF conn_create

(* A call that only throws, and the one that reaches the missing table of  *)
(* functions.                                                              *)
LEMMA ThrowStep ==
  ASSUME SessionInv, Throws,
         UNCHANGED <<closed, made, mysql, server, durable, fault, asked, doubtful>>
  PROVE  SessionInv' /\ Begun
<1>1. TypeOK
  BY DEF SessionInv
<1>2. /\ trans' \in [begun: BOOLEAN, manual: BOOLEAN, stmts: SUBSET Stmts, told: BOOLEAN]
      /\ answer' = "error" /\ TransSound'
  BY <1>1, ThrowsSound
<1>3. TypeOK'
  BY <1>1, <1>2 DEF TypeOK
<1>4. Linked' /\ OptionsKept' /\ Begun
  BY DEF SessionInv, Linked, OptionsKept, Begun
<1>5. QED
  BY <1>2, <1>3, <1>4 DEF SessionInv

LEMMA NullMethodsStep ==
  ASSUME SessionInv, NullMethods
  PROVE  SessionInv' /\ Begun
<1>1. TypeOK'
  BY DEF SessionInv, TypeOK, NullMethods, Returns
<1>2. OptionsKept'
  BY DEF SessionInv, OptionsKept, NullMethods
<1>3. QED
  BY <1>1, <1>2, QuietSound DEF NullMethods

LEMMA CloseStep ==
  ASSUME SessionInv, conn_close
  PROVE  SessionInv' /\ Begun
<1>1. /\ mysql \in Client /\ NoOptions \in Values /\ NoSession \in Server /\ ~NoSession.up
  BY SessionTypes DEF SessionInv, TypeOK, Client
<1>2. /\ mysql' = [mysql EXCEPT !.session = "none", !.options = NoOptions]
      /\ server' = NoSession /\ trans' = NoTransaction
      /\ asked' = NothingAsked /\ doubtful' = {}
  BY DEF conn_close
<1>3. mysql' \in Client /\ mysql'.options = NoOptions
  BY <1>1, <1>2 DEF Client
<1>4. TypeOK'
  <2>1. /\ closed' \in BOOLEAN /\ made' \in BOOLEAN
        /\ durable' \subseteq Stmts /\ fault' \in {"none", "null_methods"}
        /\ answer' = "none"
    BY DEF SessionInv, TypeOK, conn_close, Returns
  <2>2. asked' \in [Setters -> Charsets \cup Seconds \cup {Unset}] /\ doubtful' \subseteq Setters
    BY <1>2 DEF NothingAsked
  <2>3. QED
    BY <1>1, <1>2, <1>3, <2>1, <2>2, NoTransactionSound DEF TypeOK, Client, Server
<1>5. OptionsKept'
  BY <1>2, <1>3, OptionOfSetter DEF OptionsKept, NothingAsked, NoOptions
<1>6. Linked' /\ Begun
  BY <1>1, <1>2 DEF Linked, Begun
<1>7. QED
  BY <1>2, <1>4, <1>5, <1>6, NoTransactionSound DEF SessionInv

LEMMA ReconnectStep ==
  ASSUME SessionInv, conn_set_reconnect
  PROVE  SessionInv' /\ Begun
<1>1. PICK v \in BOOLEAN : mysql' = [mysql EXCEPT !.reconnect = v]
  BY DEF conn_set_reconnect
<1>2. mysql \in Client
  BY DEF SessionInv, TypeOK, Client
<1>3. /\ mysql' \in Client /\ mysql'.session = mysql.session
      /\ mysql'.intrans = mysql.intrans /\ mysql'.options = mysql.options
  BY <1>1, <1>2 DEF Client
<1>4. TypeOK'
  BY <1>3 DEF SessionInv, TypeOK, conn_set_reconnect, Returns, Client
<1>5. OptionsKept'
  BY <1>3 DEF SessionInv, OptionsKept, conn_set_reconnect
<1>6. QED
  BY <1>3, <1>4, <1>5, QuietSound DEF conn_set_reconnect

LEMMA DropStep ==
  ASSUME SessionInv, ServerDrops
  PROVE  SessionInv' /\ Begun
<1>1. /\ NoSession \in Server /\ ~NoSession.up /\ NoSession.auto
  BY SessionTypes
<1>2. server' = NoSession /\ UNCHANGED <<closed, made, mysql, durable, fault, asked, doubtful, trans>>
  BY DEF ServerDrops
<1>3. TypeOK'
  BY <1>1, <1>2 DEF SessionInv, TypeOK, ServerDrops, Returns, Server
<1>4. Reliable' => Reliable
  BY <1>1, <1>2 DEF Reliable
<1>5. TransSound'
  BY <1>1, <1>2, <1>4 DEF SessionInv, TransSound, BegunSound, StmtsSound
<1>6. Linked' /\ OptionsKept' /\ Begun
  BY <1>1, <1>2 DEF SessionInv, Linked, OptionsKept, Begun
<1>7. QED
  BY <1>3, <1>5, <1>6 DEF SessionInv

LEMMA ConnectStep ==
  ASSUME SessionInv, conn_connect
  PROVE  SessionInv' /\ Begun
<1>1. PICK remember \in BOOLEAN :
       \/ /\ mysql.session # "up"
          /\ mysql' = [mysql EXCEPT !.session = "up", !.methods = TRUE, !.intrans = FALSE]
          /\ server' = NewSession(mysql.options)
          /\ trans' = NoTransaction
          /\ Returns("none")
          /\ UNCHANGED doubtful
       \/ /\ mysql.session # "up"
          /\ mysql' = [mysql EXCEPT !.session = "none", !.methods = TRUE,
                         !.options = IF Flags(remember) THEN @ ELSE NoOptions]
          /\ doubtful' = IF remember THEN doubtful ELSE {s \in Setters : asked[s] # Unset}
          /\ Throws
          /\ UNCHANGED server
       \/ /\ mysql.session = "up"
          /\ Throws
          /\ UNCHANGED <<mysql, server, doubtful>>
  BY DEF conn_connect
<1>2. /\ mysql \in Client /\ mysql.options \in Values /\ NoOptions \in Values
      /\ UNCHANGED <<closed, made, durable, fault, asked>>
  BY SessionTypes DEF SessionInv, TypeOK, Client, conn_connect
<1>3. CASE /\ mysql.session # "up"
           /\ mysql' = [mysql EXCEPT !.session = "up", !.methods = TRUE, !.intrans = FALSE]
           /\ server' = NewSession(mysql.options)
           /\ trans' = NoTransaction
           /\ Returns("none")
           /\ UNCHANGED doubtful
  <2>1. /\ mysql' \in Client /\ mysql'.options = mysql.options /\ mysql'.session = "up"
    BY <1>2, <1>3 DEF Client
  <2>2. /\ server' \in Server /\ server'.up /\ server'.options = mysql.options
    BY <1>2, <1>3, SessionTypes
  <2>3. TypeOK'
    BY <1>2, <1>3, <2>1, <2>2, NoTransactionSound
    DEF SessionInv, TypeOK, Returns, Client, Server
  <2>4. OptionsKept' /\ Linked' /\ Begun
    BY <1>2, <1>3, <2>1, <2>2 DEF SessionInv, OptionsKept, Linked, Begun
  <2>5. QED
    BY <1>3, <2>3, <2>4, NoTransactionSound DEF SessionInv
<1>4. CASE /\ mysql.session # "up"
           /\ mysql' = [mysql EXCEPT !.session = "none", !.methods = TRUE,
                          !.options = IF Flags(remember) THEN @ ELSE NoOptions]
           /\ doubtful' = IF remember THEN doubtful ELSE {s \in Setters : asked[s] # Unset}
           /\ Throws
           /\ UNCHANGED server
  <2> DEFINE o == IF remember THEN mysql.options ELSE NoOptions
  <2>1. mysql' = [mysql EXCEPT !.session = "none", !.methods = TRUE, !.options = o]
    BY <1>2, <1>4 DEF Flags, Client
  <2>2. o \in Values
    BY <1>2
  <2>3. /\ mysql' \in Client /\ mysql'.options = o
    <3> HIDE DEF o
    <3>1. QED
      BY <1>2, <2>1, <2>2 DEF Client
  <2>4. ~server.up
    BY <1>4 DEF SessionInv, Linked
  <2>5. /\ trans' \in [begun: BOOLEAN, manual: BOOLEAN, stmts: SUBSET Stmts, told: BOOLEAN]
        /\ answer' = "error" /\ TransSound'
    BY <1>4, ThrowsSound DEF SessionInv
  <2>6. doubtful' \subseteq Setters
    BY <1>4 DEF SessionInv, TypeOK
  <2>7. TypeOK'
    BY <1>2, <1>4, <2>3, <2>5, <2>6 DEF SessionInv, TypeOK, Client
  <2>8. OptionsKept'
    <3>1. CASE remember
      BY <1>2, <1>4, <2>3, <3>1 DEF SessionInv, OptionsKept
    <3>2. CASE ~remember
      <4>1. mysql'.options = NoOptions /\ asked' = asked
            /\ doubtful' = {s \in Setters : asked[s] # Unset}
        BY <1>2, <1>4, <2>3, <3>2
      <4>2. \A s \in Setters : mysql'.options[OptionOf(s)] = Unset
        BY <4>1, OptionOfSetter DEF NoOptions
      <4>3. QED
        BY <4>1, <4>2 DEF OptionsKept
    <3>3. QED
      BY <3>1, <3>2
  <2>9. Linked' /\ Begun
    BY <1>4, <2>4 DEF SessionInv, Linked, Begun
  <2>10. QED
    BY <2>5, <2>7, <2>8, <2>9 DEF SessionInv
<1>5. CASE mysql.session = "up" /\ Throws /\ UNCHANGED <<mysql, server, doubtful>>
  BY <1>2, <1>5, ThrowStep
<1>6. QED
  BY <1>1, <1>3, <1>4, <1>5

(* A timeout arrives as it is if an unsigned int can be that number.       *)
LEMMA ToUnsignedFits ==
  ASSUME NEW n \in Int
  PROVE  ToUnsigned(n) \in UInts /\ (n \in UInts => ToUnsigned(n) = n)
  BY RangePositive DEF ToUnsigned, UInts

LEMMA OptionStep ==
  ASSUME SessionInv, NEW s \in Setters, NEW v \in Charsets \cup UInts, NEW a,
         a \in Charsets \cup Seconds,
         a \in Charsets \cup UInts \cup {Unset} => v = a,
         SetOption(s, a, OptionOf(s), v)
  PROVE  SessionInv' /\ Begun
<1> DEFINE o == OptionOf(s)
           new == [mysql.options EXCEPT ![o] = v]
<1>1. /\ mysql \in Client /\ mysql.options \in Values /\ doubtful \subseteq Setters
      /\ asked \in [Setters -> Charsets \cup Seconds \cup {Unset}]
  BY DEF SessionInv, TypeOK, Client
<1>2. /\ mysql' = [mysql EXCEPT !.options = new]
      /\ asked' = [asked EXCEPT ![s] = a] /\ doubtful' = doubtful \ {s}
      /\ UNCHANGED <<closed, made, server, durable, fault, trans>> /\ answer' = "none"
  BY DEF SetOption, Returns
<1>3. /\ o \in Options /\ \A q \in Setters \ {s} : OptionOf(q) \in Options \ {o}
  BY OptionOfSetter
<1> HIDE DEF o
<1>4. /\ new \in Values /\ new[o] = v
      /\ \A p \in Options \ {o} : new[p] = mysql.options[p]
  BY <1>1, <1>3 DEF Values
<1>5. /\ mysql' \in Client /\ mysql'.options = new
      /\ mysql'.session = mysql.session /\ mysql'.intrans = mysql.intrans
  <2> HIDE DEF new
  <2>1. QED
    BY <1>1, <1>2, <1>4 DEF Client
<1>6. /\ asked' \in [Setters -> Charsets \cup Seconds \cup {Unset}]
      /\ asked'[s] = a /\ \A q \in Setters \ {s} : asked'[q] = asked[q]
      /\ doubtful' \subseteq Setters /\ \A q \in Setters \ {s} : q \in doubtful' <=> q \in doubtful
  BY <1>1, <1>2
<1>7. TypeOK'
  BY <1>2, <1>5, <1>6 DEF SessionInv, TypeOK, Client
<1>8. OptionsKept'
  <2> HIDE DEF new
  <2> SUFFICES ASSUME NEW q \in Setters, asked'[q] \in Charsets \cup UInts \cup {Unset}
               PROVE  \/ mysql'.options[OptionOf(q)] = asked'[q]
                      \/ q \in doubtful' /\ mysql'.options[OptionOf(q)] = Unset
    BY DEF OptionsKept
  <2>1. CASE q = s
    BY <1>4, <1>5, <1>6, <2>1 DEF o
  <2>2. CASE q # s
    BY <1>3, <1>4, <1>5, <1>6, <2>2 DEF SessionInv, OptionsKept
  <2>3. QED
    BY <2>1, <2>2
<1>9. QED
  BY <1>2, <1>5, <1>7, <1>8, QuietSound

TimeoutSetters == {"set_connect_timeout", "set_read_timeout", "set_write_timeout"}

LEMMA TimeoutStep ==
  ASSUME SessionInv, NEW s \in TimeoutSetters, NEW n \in Seconds,
         SetOption(s, n, OptionOf(s), ToUnsigned(n))
  PROVE  SessionInv' /\ Begun
<1>1. n \in Int /\ n \notin Charsets \cup {Unset} /\ s \in Setters
  BY SecondsIntegers, ValuesDistinct DEF Setters, TimeoutSetters
<1>2. /\ ToUnsigned(n) \in UInts
      /\ n \in Charsets \cup UInts \cup {Unset} => ToUnsigned(n) = n
  BY <1>1, ToUnsignedFits
<1> DEFINE v == ToUnsigned(n)
<1> HIDE DEF v
<1>3. SetOption(s, n, OptionOf(s), v) /\ v \in UInts
      /\ (n \in Charsets \cup UInts \cup {Unset} => v = n)
  BY <1>2 DEF v
<1>4. QED
  BY <1>1, <1>3, OptionStep

LEMMA TimeoutsStep ==
  ASSUME SessionInv,
         conn_set_connect_timeout \/ conn_set_read_timeout \/ conn_set_write_timeout
  PROVE  SessionInv' /\ Begun
<1>1. PICK s \in TimeoutSetters, n \in Seconds : SetOption(s, n, OptionOf(s), ToUnsigned(n))
  <2>1. CASE conn_set_connect_timeout
    BY <2>1 DEF conn_set_connect_timeout, OptionOf, TimeoutSetters
  <2>2. CASE conn_set_read_timeout
    BY <2>2 DEF conn_set_read_timeout, OptionOf, TimeoutSetters
  <2>3. CASE conn_set_write_timeout
    BY <2>3 DEF conn_set_write_timeout, OptionOf, TimeoutSetters
  <2>4. QED
    BY <2>1, <2>2, <2>3
<1>2. QED
  BY <1>1, TimeoutStep

LEMMA CharsetStep ==
  ASSUME SessionInv, conn_set_charset
  PROVE  SessionInv' /\ Begun
<1>1. PICK a \in Charsets : SetOption("set_charset", a, OptionOf("set_charset"), a)
  BY DEF conn_set_charset, OptionOf
<1>2. "set_charset" \in Setters
  BY DEF Setters
<1>3. QED
  BY <1>1, <1>2, OptionStep

-----------------------------------------------------------------------------
(* Commands of the script *)

LEMMA ExecuteStep ==
  ASSUME SessionInv, conn_execute
  PROVE  SessionInv' /\ Begun
<1>1. CASE NullMethods
  BY <1>1, NullMethodsStep
<1>2. CASE ~NullMethods
  <2>1. PICK c \in (Stmts \ (durable \cup server.pending \cup trans.stmts))
                      \cup {"begin", "autocommit=0"} :
          \E r \in Command(mysql, server, c) : Apply(r) /\ Answer(r, c, "affected")
    BY <1>2 DEF conn_execute
  <2>2. c \in Commands /\ (c \in Stmts => c \notin durable)
    BY StmtsDistinct DEF Commands
  <2>3. PICK r \in Command(mysql, server, c) : Apply(r) /\ Answer(r, c, "affected")
    BY <2>1
  <2>4. QED
    BY <2>2, <2>3, CommandSound DEF Begun
<1>3. QED
  BY <1>1, <1>2

LEMMA PingStep ==
  ASSUME SessionInv, conn_ping
  PROVE  SessionInv' /\ Begun
<1>1. CASE Throws /\ UNCHANGED <<closed, made, mysql, server, durable, fault, asked, doubtful>>
  BY <1>1, ThrowStep
<1>2. CASE \E r \in Command(mysql, server, "ping") : Apply(r) /\ Answer(r, "ping", "none")
  <2>1. PICK r \in Command(mysql, server, "ping") : Apply(r) /\ Answer(r, "ping", "none")
    BY <1>2
  <2>2. "ping" \in Commands /\ "ping" \notin Stmts
    BY StmtsDistinct DEF Commands
  <2>3. QED
    BY <2>1, <2>2, CommandSound DEF Begun
<1>3. QED
  BY <1>1, <1>2 DEF conn_ping

LEMMA ConcludeStep ==
  ASSUME SessionInv, NEW c \in {"commit", "rollback"}, Conclude(c)
  PROVE  /\ SessionInv' /\ Begun
         /\ Concluded /\ c = "commit" => trans.stmts \subseteq durable'
         /\ Concluded /\ c = "rollback" =>
              trans.stmts \cap (durable' \cup server'.pending) = {}
<1>1. CASE NullMethods
  <2>1. ~Concluded
    BY <1>1 DEF NullMethods, Concluded
  <2>2. QED
    BY <1>1, <2>1, NullMethodsStep
<1>2. CASE ~NullMethods
  <2>1. PICK r \in Command(mysql, server, c) : Apply(r) /\ Answer(r, c, "none")
    BY <1>2 DEF Conclude
  <2>2. c \in Commands /\ c \notin Stmts
    BY StmtsDistinct DEF Commands
  <2>3. QED
    BY <2>1, <2>2, CommandSound DEF Begun, Concluded
<1>3. QED
  BY <1>1, <1>2

-----------------------------------------------------------------------------
(* Theorems *)

LEMMA SessionInit == Init => SessionInv
<1> SUFFICES ASSUME Init PROVE SessionInv
  OBVIOUS
<1>1. /\ NoOptions \in Values /\ NoSession \in Server /\ ~NoSession.up
  BY SessionTypes
<1>2. mysql \in Client /\ mysql.options = NoOptions /\ mysql.session = "none"
  BY <1>1 DEF Init, NewMYSQL, Client
<1>3. TypeOK
  BY <1>1, <1>2 DEF Init, TypeOK, NoTransaction, NothingAsked, Client, Server
<1>4. Linked /\ OptionsKept
  BY <1>1, <1>2, OptionOfSetter DEF Init, Linked, OptionsKept, NothingAsked, NoOptions
<1>5. TransSound
  BY DEF Init, NoTransaction, TransSound, BegunSound, StmtsSound, Reliable
<1>6. QED
  BY <1>3, <1>4, <1>5 DEF SessionInv

SetsOption == \/ conn_set_connect_timeout \/ conn_set_read_timeout \/ conn_set_write_timeout
              \/ conn_set_charset

LEMMA SessionStep == SessionInv /\ [Next]_vars => SessionInv' /\ Begun
<1> SUFFICES ASSUME SessionInv, [Next]_vars PROVE SessionInv' /\ Begun
  OBVIOUS
<1>1. CASE conn_create
  BY <1>1, CreateStep
<1>2. CASE conn_close
  BY <1>2, CloseStep
<1>3. CASE conn_connect
  BY <1>3, ConnectStep
<1>4. CASE Rejected
  BY <1>4, ThrowStep DEF Rejected
<1>5. CASE conn_set_connect_timeout \/ conn_set_read_timeout \/ conn_set_write_timeout
  BY <1>5, TimeoutsStep
<1>6. CASE conn_set_charset
  BY <1>6, CharsetStep
<1>7. CASE conn_set_reconnect
  BY <1>7, ReconnectStep
<1>8. CASE conn_execute
  BY <1>8, ExecuteStep
<1>9. CASE conn_ping
  BY <1>9, PingStep
<1>10. CASE conn_commit
  BY <1>10, ConcludeStep DEF conn_commit
<1>11. CASE conn_rollback
  BY <1>11, ConcludeStep DEF conn_rollback
<1>12. CASE ServerDrops
  BY <1>12, DropStep
<1>13. CASE UNCHANGED vars
  <2>1. TypeOK' /\ OptionsKept'
    BY <1>13 DEF vars, SessionInv, TypeOK, OptionsKept
  <2>2. QED
    BY <1>13, <2>1, QuietSound DEF vars
<1>14. QED
  BY <1>1, <1>2, <1>3, <1>4, <1>5, <1>6, <1>7, <1>8, <1>9, <1>10, <1>11, <1>12, <1>13
  DEF Next

LEMMA SessionInvariant == Spec => []SessionInv
<1>1. SessionInv /\ [Next]_vars => SessionInv'
  BY SessionStep
<1>2. QED
  BY <1>1, SessionInit, PTL DEF Spec

(* The options, the session and the transaction keep their types, whatever *)
(* numbers the script gives as timeouts.                                   *)
THEOREM SessionTyped == Spec => []TypeOK
<1>1. SessionInv => TypeOK
  BY DEF SessionInv
<1>2. QED
  BY <1>1, SessionInvariant, PTL

(* Before its commit no statement of a transaction that the script can     *)
(* rely on is durable, however sessions are lost and regained inside the   *)
(* calls between.                                                          *)
THEOREM TransactionHidden == Spec => []NothingDurableYet
<1>1. SessionInv => NothingDurableYet
  BY DEF SessionInv, TransSound, StmtsSound, NothingDurableYet
<1>2. QED
  BY <1>1, SessionInvariant, PTL

(* A commit without an error made all of the transaction durable, a        *)
(* rollback nothing of it.                                                 *)
THEOREM AnswersHold == Spec => AnswersTrue
<1> DEFINE True == Concluded =>
             /\ conn_commit => trans.stmts \subseteq durable'
             /\ conn_rollback => trans.stmts \cap (durable' \cup server'.pending) = {}
<1>1. SessionInv /\ [Next]_vars => [True]_vars
  <2> SUFFICES ASSUME SessionInv, Concluded
               PROVE  /\ conn_commit => trans.stmts \subseteq durable'
                      /\ conn_rollback => trans.stmts \cap (durable' \cup server'.pending) = {}
    OBVIOUS
  <2>1. ASSUME conn_commit PROVE trans.stmts \subseteq durable'
    BY <2>1, ConcludeStep DEF conn_commit
  <2>2. ASSUME conn_rollback PROVE trans.stmts \cap (durable' \cup server'.pending) = {}
    BY <2>2, ConcludeStep DEF conn_rollback
  <2>3. QED
    BY <2>1, <2>2
<1>2. QED
  BY <1>1, SessionInvariant, PTL DEF Spec, AnswersTrue

(* Every session that begins, also by a reconnection, has what the script  *)
(* gave last to each function that sets an option (a number as far as an   *)
(* unsigned int can be that number), or, if a connect failed since, none.  *)
THEOREM OptionsHold == Spec => OptionsInForce
<1> DEFINE Right == BeginsSession =>
             \A s \in Setters : asked[s] \in Charsets \cup UInts \cup {Unset} =>
               \/ server'.options[OptionOf(s)] = asked[s]
               \/ s \in doubtful /\ server'.options[OptionOf(s)] = Unset
<1>1. SessionInv /\ [Next]_vars => [Right]_vars
  BY SessionStep DEF SessionInv, OptionsKept, Begun, BeginsSession
<1>2. QED
  BY <1>1, SessionInvariant, PTL DEF Spec, OptionsInForce

-----------------------------------------------------------------------------
(* Session implements LuaMysql *)

(* A connection that is not made is as it will be made, and a closed one   *)
(* has no session.                                                         *)
Fresh == ~made => mysql = NewMYSQL /\ ~closed /\ fault = "none"
Quit == closed => mysql.session = "none"
BindingInv == SessionInv /\ Fresh /\ Quit

(* The outcome of a command, as LibMysql has it.                           *)
Allowed(M, r) ==
  IF r.ok THEN MYSQLOf(r.m) \in Binding!Sent(M) ELSE MYSQLOf(r.m) \in Binding!FailedCommand(M)

LEMMA MYSQLFields ==
  ASSUME NEW m \in Client
  PROVE  LET M == MYSQLOf(m) IN
         /\ M \in Binding!MYSQL
         /\ M.session = m.session /\ M.methods = m.methods /\ M.reconnect = m.reconnect
         /\ M.status = "ready" /\ M.more = FALSE
  BY DEF MYSQLOf, Client, Binding!MYSQL

LEMMA SameMYSQL ==
  ASSUME NEW a \in Binding!MYSQL, NEW b \in Binding!MYSQL, a.session = b.session,
         a.methods = b.methods, a.status = b.status, a.more = b.more,
         a.reconnect = b.reconnect
  PROVE  a = b
  BY DEF Binding!MYSQL

(* The fields that LibMysql has too.                                       *)
SameLib(m, n) == m.methods = n.methods /\ m.reconnect = n.reconnect

(* LibMysql gives a structure another session, or none: it is the one of   *)
(* Session for which that happened.                                        *)
LEMMA SessionChanged ==
  ASSUME NEW m \in Client, NEW n \in Client, m.reconnect = n.reconnect
  PROVE  LET M == MYSQLOf(m)
             N == MYSQLOf(n)
         IN  /\ m.methods = n.methods =>
                  /\ [M EXCEPT !.session = n.session] = N
                  /\ [M EXCEPT !.session = n.session, !.status = "ready"] = N
                  /\ [M EXCEPT !.session = n.session, !.status = "ready", !.more = FALSE] = N
             /\ n.methods =>
                  /\ [M EXCEPT !.session = n.session, !.methods = TRUE] = N
                  /\ [M EXCEPT !.session = n.session, !.methods = TRUE, !.status = "ready",
                               !.more = FALSE] = N
<1> DEFINE M == MYSQLOf(m)
           N == MYSQLOf(n)
           s == n.session
           a == [M EXCEPT !.session = s]
           b == [M EXCEPT !.session = s, !.status = "ready"]
           c == [M EXCEPT !.session = s, !.status = "ready", !.more = FALSE]
           d == [M EXCEPT !.session = s, !.methods = TRUE]
           e == [M EXCEPT !.session = s, !.methods = TRUE, !.status = "ready", !.more = FALSE]
<1>1. /\ M \in Binding!MYSQL /\ M.methods = m.methods /\ M.reconnect = m.reconnect
      /\ M.status = "ready" /\ M.more = FALSE
  BY MYSQLFields
<1>2. /\ N \in Binding!MYSQL /\ N.session = s /\ N.methods = n.methods
      /\ N.reconnect = n.reconnect /\ N.status = "ready" /\ N.more = FALSE
  BY MYSQLFields
<1>3. s \in {"none", "up", "lost"} /\ n.methods \in BOOLEAN
  BY DEF Client
<1> HIDE DEF M, N, s
<1>4. /\ a \in Binding!MYSQL /\ a.session = s /\ a.methods = M.methods
      /\ a.status = M.status /\ a.more = M.more /\ a.reconnect = M.reconnect
  BY <1>1, <1>3 DEF Binding!MYSQL
<1>5. /\ b \in Binding!MYSQL /\ b.session = s /\ b.methods = M.methods
      /\ b.status = "ready" /\ b.more = M.more /\ b.reconnect = M.reconnect
  BY <1>1, <1>3 DEF Binding!MYSQL
<1>6. /\ c \in Binding!MYSQL /\ c.session = s /\ c.methods = M.methods
      /\ c.status = "ready" /\ c.more = FALSE /\ c.reconnect = M.reconnect
  BY <1>1, <1>3 DEF Binding!MYSQL
<1>7. /\ d \in Binding!MYSQL /\ d.session = s /\ d.methods = TRUE
      /\ d.status = M.status /\ d.more = M.more /\ d.reconnect = M.reconnect
  BY <1>1, <1>3 DEF Binding!MYSQL
<1>8. /\ e \in Binding!MYSQL /\ e.session = s /\ e.methods = TRUE
      /\ e.status = "ready" /\ e.more = FALSE /\ e.reconnect = M.reconnect
  BY <1>1, <1>3 DEF Binding!MYSQL
<1> HIDE DEF a, b, c, d, e
<1>9. m.methods = n.methods => a = N
  BY <1>1, <1>2, <1>4, SameMYSQL
<1>10. m.methods = n.methods => b = N
  BY <1>1, <1>2, <1>5, SameMYSQL
<1>11. m.methods = n.methods => c = N
  BY <1>1, <1>2, <1>6, SameMYSQL
<1>12. n.methods => d = N
  BY <1>1, <1>2, <1>3, <1>7, SameMYSQL
<1>13. n.methods => e = N
  BY <1>1, <1>2, <1>3, <1>8, SameMYSQL
<1> QED  BY <1>9, <1>10, <1>11, <1>12, <1>13 DEF a, b, c, d, e, M, N, s

LEMMA LibFields ==
  ASSUME NEW m \in Client, NEW b \in BOOLEAN
  PROVE  /\ SameLib(m, Lost(m)) /\ SameLib(m, Regained(m))
         /\ MYSQLOf(WithStatus(m, b)) = MYSQLOf(m)
  BY DEF SameLib, Lost, Regained, WithStatus, MYSQLOf, Client

(* The structure n, with a socket, is one that a command on m starts from. *)
LEMMA SentFrom ==
  ASSUME NEW m \in Client, NEW n \in Client, n.session = "up", SameLib(m, n),
         m.session = "up" \/ (m.session = "lost" /\ m.reconnect)
  PROVE  /\ MYSQLOf(n) \in Binding!Sent(MYSQLOf(m))
         /\ MYSQLOf(n) \in Binding!FailedCommand(MYSQLOf(m))
         /\ MYSQLOf(Lost(n)) \in Binding!FailedCommand(MYSQLOf(m))
<1> DEFINE M == MYSQLOf(m)
           N == MYSQLOf(n)
           L == MYSQLOf(Lost(n))
<1>1. /\ M.session = m.session /\ M.reconnect = m.reconnect
      /\ N.session = "up" /\ N.status = "ready" /\ ~N.more
  BY MYSQLFields
<1>2. N = [M EXCEPT !.session = "up", !.status = "ready", !.more = FALSE]
  <2>1. [M EXCEPT !.session = n.session, !.status = "ready", !.more = FALSE] = N
    BY SessionChanged DEF SameLib
  <2> HIDE DEF M, N
  <2> QED  BY <2>1
<1>3. m.session = "up" => N = M
  BY DEF MYSQLOf, SameLib
<1>4. L = [N EXCEPT !.session = "lost"]
  <2> DEFINE l == Lost(n)
  <2>1. /\ Lost(n) \in Client /\ Lost(n).session = "lost"
        /\ n.methods = Lost(n).methods /\ n.reconnect = Lost(n).reconnect
    BY LibFields, ClientFields DEF SameLib
  <2> HIDE DEF l
  <2>2. [MYSQLOf(n) EXCEPT !.session = l.session] = MYSQLOf(l)
    BY <2>1, SessionChanged DEF l
  <2> QED  BY <2>1, <2>2 DEF l
<1> HIDE DEF M, N, L
<1>5. N \in Binding!Reached(M)
  BY <1>1, <1>2, <1>3 DEF Binding!Reached
<1>6. N \in Binding!Sent(M)
  BY <1>1, <1>5 DEF Binding!Sent, Binding!InSync
<1> QED  BY <1>4, <1>5, <1>6 DEF Binding!FailedCommand, M, N, L

LEMMA ExchangeAllowed ==
  ASSUME NEW m \in Client, NEW n \in Client, n.session = "up", SameLib(m, n),
         m.session = "up" \/ (m.session = "lost" /\ m.reconnect),
         NEW sv \in Server, NEW c \in Commands, NEW r \in Exchange(n, sv, c)
  PROVE  Allowed(MYSQLOf(m), r)
<1> DEFINE b == InTrans(Executed(sv, c))
<1>1. b \in BOOLEAN  BY ExecutedTypes
<1>2. \/ r.ok /\ r.m = WithStatus(n, b)
      \/ ~r.ok /\ r.m \in {n, Lost(n)}
  BY DEF Exchange, Failed, Done
<1> HIDE DEF b
<1>3. MYSQLOf(WithStatus(n, b)) = MYSQLOf(n)  BY <1>1, LibFields
<1> QED  BY <1>2, <1>3, SentFrom DEF Allowed

LEMMA ResentAllowed ==
  ASSUME NEW m \in Client, NEW n \in Client, SameLib(m, n),
         n.session # "up", m.session = "up" \/ n.session = m.session,
         MYSQLOf(n) \in Binding!FailedCommand(MYSQLOf(m)),
         NEW c \in Commands, NEW sv \in Server, NEW r \in Resent(n, sv, c)
  PROVE  Allowed(MYSQLOf(m), r)
<1> DEFINE new == NewSession(n.options)
           w == WithStatus(n, FALSE)
<1>1. PICK q \in Reconnected(n, sv) : r \in IF q.ok THEN Exchange(q.m, q.sv, c) ELSE {q}
  BY DEF Resent
<1>2. /\ SameLib(n, Regained(n)) /\ MYSQLOf(w) = MYSQLOf(n)
      /\ Regained(n) \in Client /\ Regained(n).session = "up" /\ w \in Client
      /\ new \in Server
  BY LibFields, ClientFields, SessionTypes DEF Client
<1>3. \/ q = Failed(w, sv, {})
      \/ q = Failed(n, sv, {})
      \/ MayReconnect(n) /\ q = Done(Regained(n), new, {})
  BY DEF Reconnected
<1> HIDE DEF new, w
<1>4. CASE q = Failed(w, sv, {}) \/ q = Failed(n, sv, {})
  <2>1. ~q.ok /\ q.m \in {w, n}
    BY <1>2, <1>4, OutcomeFields
  <2>2. r = q  BY <1>1, <2>1
  <2> QED  BY <1>2, <2>1, <2>2 DEF Allowed
<1>5. CASE MayReconnect(n) /\ q = Done(Regained(n), new, {})
  <2>1. q.ok /\ q.m = Regained(n) /\ q.sv = new
    BY <1>2, <1>5, OutcomeFields
  <2>2. r \in Exchange(Regained(n), new, c)
    BY <1>1, <2>1
  <2>3. m.session = "up" \/ (m.session = "lost" /\ m.reconnect)
    BY <1>5 DEF MayReconnect, SameLib
  <2>4. SameLib(m, Regained(n))  BY <1>2 DEF SameLib
  <2> QED  BY <1>2, <2>2, <2>3, <2>4, ExchangeAllowed
<1> QED  BY <1>3, <1>4, <1>5

(* Whatever happens to a command, with its resends, LibMysql allows it.    *)
LEMMA CommandAllowed ==
  ASSUME NEW m \in Client, NEW sv \in Server, NEW c \in Commands, NEW r \in Command(m, sv, c)
  PROVE  Allowed(MYSQLOf(m), r)
<1>1. CASE m.session = "up" /\ r \in Exchange(m, sv, c)
  BY <1>1, ExchangeAllowed DEF SameLib
<1>2. CASE m.session = "up" /\ r \in Resent(Lost(m), NoSession, c)
  <2>1. Lost(m) \in Client /\ Lost(m).session = "lost" /\ SameLib(m, Lost(m))
    BY ClientFields, LibFields
  <2>2. MYSQLOf(Lost(m)) \in Binding!FailedCommand(MYSQLOf(m))
    BY <1>2, SentFrom DEF SameLib
  <2>3. NoSession \in Server  BY SessionTypes
  <2> QED  BY <1>2, <2>1, <2>2, <2>3, ResentAllowed
<1>3. CASE m.session # "up" /\ r \in Resent(m, sv, c)
  <2>1. MYSQLOf(m) \in Binding!FailedCommand(MYSQLOf(m))
    BY DEF Binding!FailedCommand
  <2> QED  BY <1>3, <2>1, ResentAllowed DEF SameLib
<1> QED  BY <1>1, <1>2, <1>3 DEF Command

-----------------------------------------------------------------------------
(* The invariant *)

LEMMA BindingInit == Init => BindingInv
  BY SessionInit DEF Init, BindingInv, Fresh, Quit, NewMYSQL

LEMMA BindingStep == BindingInv /\ [Next]_vars => BindingInv'
<1> SUFFICES ASSUME BindingInv, [Next]_vars PROVE BindingInv'
  OBVIOUS
<1>1. SessionInv'  BY SessionStep DEF BindingInv
<1>2. /\ mysql.session \in {"none", "up", "lost"} /\ mysql \in Client
      /\ server.up => mysql.session = "up" /\ ~closed /\ made
  <2>1. mysql \in Client  BY DEF BindingInv, SessionInv, TypeOK, Client
  <2>2. NewMYSQL.session = "none"  BY DEF NewMYSQL
  <2> QED  BY <2>1, <2>2 DEF BindingInv, SessionInv, Linked, Fresh, Quit, Client
<1>3. CASE conn_create
  BY <1>1, <1>3 DEF conn_create, BindingInv, Fresh, Quit
<1>4. CASE conn_close
  <2>1. mysql'.session = "none" /\ made'
    BY <1>2, <1>4 DEF conn_close, Usable, Client
  <2> QED  BY <1>1, <2>1 DEF BindingInv, Fresh, Quit
<1>5. CASE conn_connect \/ SetsOption \/ conn_set_reconnect
           \/ conn_execute \/ conn_ping \/ conn_commit \/ conn_rollback
  <2>1. Open /\ UNCHANGED <<closed, made>>
    <3>1. CASE conn_connect \/ SetsOption \/ conn_set_reconnect
      BY <3>1 DEF conn_connect, SetsOption, conn_set_connect_timeout, conn_set_read_timeout,
                  conn_set_write_timeout, conn_set_charset, conn_set_reconnect, SetOption
    <3>2. CASE conn_execute
      BY <3>2 DEF conn_execute, NullMethods, Apply
    <3>3. CASE conn_ping
      BY <3>3 DEF conn_ping, Apply
    <3>4. CASE conn_commit \/ conn_rollback
      BY <3>4 DEF conn_commit, conn_rollback, Conclude, NullMethods, Apply
    <3> QED  BY <1>5, <3>1, <3>2, <3>3, <3>4
  <2> QED  BY <1>1, <2>1 DEF BindingInv, Fresh, Quit, Open, Usable
<1>6. CASE Rejected \/ ServerDrops \/ UNCHANGED vars
  <2>1. UNCHANGED <<closed, made, mysql, fault>>
    BY <1>6 DEF Rejected, ServerDrops, vars
  <2> QED  BY <1>1, <2>1 DEF BindingInv, Fresh, Quit
<1> QED  BY <1>3, <1>4, <1>5, <1>6 DEF Next, SetsOption

-----------------------------------------------------------------------------
(* Steps *)

(* The script can call the binding; of a call that makes no connection it  *)
(* only sees these state functions change: closed, mysql, ret, fault.      *)
LEMMA Called ==
  ASSUME Usable, made' = made
  PROVE  /\ Binding!Callable(1) /\ Conn \in heldBar
         /\ UNCHANGED <<udBar, ageBar, clockBar, heldBar, registryBar, frameBar>>
<1>1. Binding!Callable(1)
  BY DEF Usable, Binding!Callable, Binding!Idle, frameBar
<1>2. Conn \in heldBar  BY DEF Usable, heldBar
<1>3. UNCHANGED <<udBar, ageBar, clockBar, heldBar, registryBar, frameBar>>
  BY DEF udBar, ageBar, clockBar, heldBar, registryBar, frameBar
<1> QED  BY <1>1, <1>2, <1>3

LEMMA Structure ==
  /\ mysqlBar[Conn] = MYSQLOf(mysql) /\ closedBar[Conn] = closed
  /\ \A M : M = MYSQLOf(mysql') => mysqlBar' = [mysqlBar EXCEPT ![Conn] = M]
  /\ closedBar' = [closedBar EXCEPT ![Conn] = closed']
  /\ MYSQLOf(mysql') = MYSQLOf(mysql) => mysqlBar' = mysqlBar
  /\ closed' = closed => closedBar' = closedBar
<1>1. mysqlBar[Conn] = MYSQLOf(mysql) /\ closedBar[Conn] = closed
  BY DEF mysqlBar, closedBar
<1>2. mysqlBar' = [k \in {Conn} |-> MYSQLOf(mysql')]
  BY DEF mysqlBar, MYSQLOf
<1>3. \A M : M = MYSQLOf(mysql') => mysqlBar' = [mysqlBar EXCEPT ![Conn] = M]
  BY <1>2 DEF mysqlBar
<1>4. closedBar' = [closedBar EXCEPT ![Conn] = closed']
  BY DEF closedBar
<1>5. MYSQLOf(mysql') = MYSQLOf(mysql) => mysqlBar' = mysqlBar
  BY <1>2 DEF mysqlBar
<1>6. closed' = closed => closedBar' = closedBar
  BY DEF closedBar
<1> QED  BY <1>1, <1>3, <1>4, <1>5, <1>6

LEMMA AnswerBinding ==
  /\ answer' = "none" => Binding!Quiet
  /\ answer' = "error" => Binding!Throw
  /\ answer' = "affected" => Binding!Return("affected", Conn)
  BY DEF Binding!Quiet, Binding!Silent, Binding!Throw, Binding!Return, retBar

(* A call on the connection is a step of LuaMysql.                         *)
LEMMA CallStep ==
  ASSUME Binding!ConnCall(1, Conn)
  PROVE  Binding!Next
<1>1. 1 \in Binding!Levels /\ Conn \in {Conn}  BY DEF Binding!Levels
<1> QED  BY <1>1 DEF Binding!Next, Binding!Script

(* Binding!Rejected, of which closed, mysql and fault are no part.         *)
LEMMA RejectedCall ==
  ASSUME Usable, Throws, UNCHANGED <<closed, made, mysql, fault>>
  PROVE  Binding!Rejected
<1>1. Binding!Throw  BY AnswerBinding DEF Throws
<1>2. UNCHANGED <<udBar, ageBar, clockBar, heldBar, registryBar, frameBar>>
  BY Called
<1>3. mysqlBar' = mysqlBar /\ closedBar' = closedBar
  BY Structure
<1> QED  BY <1>1, <1>2, <1>3 DEF Binding!Rejected, Binding!heap, Binding!lib

LEMMA RejectedBinding == ASSUME Rejected PROVE Binding!Next
<1>1. Binding!Rejected  BY RejectedCall DEF Rejected
<1>2. Binding!Callable(1) /\ Conn \in heldBar  BY Called DEF Rejected
<1> QED  BY <1>1, <1>2, CallStep DEF Binding!ConnCall, Binding!conn_connect

LEMMA CreateBinding == ASSUME BindingInv, conn_create PROVE Binding!Next
<1>1. /\ ~made /\ made' /\ answer' = "none" /\ ~closed /\ fault = "none"
      /\ UNCHANGED <<closed, mysql, fault>> /\ mysql = NewMYSQL
  BY DEF conn_create, Returns, BindingInv, Fresh
<1>2. Binding!Callable(1)
  BY <1>1 DEF Binding!Callable, Binding!Idle, frameBar
<1>3. udBar[Conn] = "none" /\ clockBar = 1
  BY <1>1 DEF udBar, clockBar
<1>4. Binding!lua_setmetatable(Conn)
  <2>1. udBar' = [udBar EXCEPT ![Conn] = "live"]
    BY <1>1 DEF udBar
  <2>2. ageBar' = [ageBar EXCEPT ![Conn] = clockBar]
    BY <1>1, <1>3 DEF ageBar
  <2>3. clockBar' = clockBar + 1 /\ heldBar' = heldBar \cup {Conn}
    BY <1>1 DEF clockBar, heldBar
  <2> QED  BY <2>1, <2>2, <2>3 DEF Binding!lua_setmetatable
<1>5. MYSQLOf(mysql) = Binding!mysql_init
  BY <1>1 DEF MYSQLOf, NewMYSQL, Binding!mysql_init
<1>6. MYSQLOf(mysql') = Binding!mysql_init
  BY <1>1, <1>5
<1>7. mysqlBar' = [mysqlBar EXCEPT ![Conn] = Binding!mysql_init]
  BY <1>6, Structure
<1>8. closedBar' = [closedBar EXCEPT ![Conn] = FALSE]
  <2>1. closed' = FALSE
    BY <1>1 DEF BindingInv, SessionInv, TypeOK
  <2> QED  BY <2>1, Structure
<1>9. UNCHANGED <<registryBar, frameBar>> /\ Binding!Quiet
  BY <1>1, AnswerBinding DEF registryBar, frameBar
<1>10. Binding!conn_create(1)
  BY <1>1, <1>2, <1>3, <1>4, <1>7, <1>8, <1>9 DEF Binding!conn_create
<1>11. 1 \in Binding!Levels  BY DEF Binding!Levels
<1> QED  BY <1>10, <1>11 DEF Binding!Next, Binding!Script

LEMMA CloseBinding == ASSUME BindingInv, conn_close PROVE Binding!Next
<1>1. /\ Usable /\ closed' = TRUE /\ answer' = "none" /\ UNCHANGED <<made, fault>>
      /\ mysql' = [mysql EXCEPT !.session = "none", !.options = NoOptions]
  BY DEF conn_close, Returns
<1>2. mysql \in Client /\ NoOptions \in Values
  BY SessionTypes DEF BindingInv, SessionInv, TypeOK, Client
<1>3. /\ mysql' \in Client /\ mysql'.session = "none"
      /\ mysql.methods = mysql'.methods /\ mysql.reconnect = mysql'.reconnect
  BY <1>1, <1>2 DEF Client
<1>4. Binding!close_conn(Conn)
  <2>1. CASE closed
    <3>1. mysql.session = "none"  BY <2>1 DEF BindingInv, Quit
    <3>2. MYSQLOf(mysql') = MYSQLOf(mysql)
      BY <1>3, <3>1 DEF MYSQLOf
    <3> QED  BY <1>1, <2>1, <3>2, Structure DEF Binding!close_conn
  <2>2. CASE ~closed
    <3> DEFINE n == mysql'
    <3>1. n \in Client /\ n.session = "none" /\ mysql.methods = n.methods
          /\ mysql.reconnect = n.reconnect
      BY <1>3
    <3> HIDE DEF n
    <3>2. [MYSQLOf(mysql) EXCEPT !.session = n.session, !.status = "ready"] = MYSQLOf(n)
      BY <1>2, <3>1, SessionChanged
    <3>3. Binding!mysql_close(MYSQLOf(mysql)) = MYSQLOf(n)
      BY <3>1, <3>2 DEF Binding!mysql_close
    <3>4. mysqlBar' = [mysqlBar EXCEPT ![Conn] = Binding!mysql_close(MYSQLOf(mysql))]
      BY <3>3, Structure DEF n
    <3> QED  BY <1>1, <2>2, <3>4, Structure DEF Binding!close_conn
  <2> QED  BY <2>1, <2>2
<1>5. /\ Binding!Callable(1) /\ Conn \in heldBar /\ Binding!Quiet
      /\ UNCHANGED <<udBar, ageBar, clockBar, heldBar, registryBar, frameBar>>
  BY <1>1, Called, AnswerBinding
<1>6. Binding!conn_close(1, Conn)
  BY <1>1, <1>4, <1>5 DEF Binding!conn_close, Binding!heap
<1> QED  BY <1>6, CallStep DEF Binding!ConnCall

LEMMA ConnectBinding == ASSUME BindingInv, conn_connect PROVE Binding!Next
<1>1. mysql \in Client /\ NoOptions \in Values
  BY SessionTypes DEF BindingInv, SessionInv, TypeOK, Client
<1>2. Usable /\ ~closed /\ UNCHANGED <<closed, made, fault>>
  BY DEF conn_connect, Open
<1>3. PICK remember \in BOOLEAN :
       \/ /\ mysql.session # "up"
          /\ mysql' = [mysql EXCEPT !.session = "up", !.methods = TRUE, !.intrans = FALSE]
          /\ server' = NewSession(mysql.options)
          /\ trans' = NoTransaction
          /\ Returns("none")
          /\ UNCHANGED doubtful
       \/ /\ mysql.session # "up"
          /\ mysql' = [mysql EXCEPT !.session = "none", !.methods = TRUE,
                         !.options = IF Flags(remember) THEN @ ELSE NoOptions]
          /\ doubtful' = IF remember THEN doubtful ELSE {s \in Setters : asked[s] # Unset}
          /\ Throws
          /\ UNCHANGED server
       \/ /\ mysql.session = "up"
          /\ Throws
          /\ UNCHANGED <<mysql, server, doubtful>>
  BY DEF conn_connect
<1> DEFINE M == MYSQLOf(mysql)
           N == MYSQLOf(mysql')
<1>4. M.session = mysql.session  BY DEF MYSQLOf
<1>5. \E a \in Binding!mysql_real_connect(M) :
        a.m = N /\ (IF a.ok THEN Binding!Quiet ELSE Binding!Throw)
  <2>1. CASE /\ mysql.session # "up"
             /\ mysql' = [mysql EXCEPT !.session = "up", !.methods = TRUE, !.intrans = FALSE]
             /\ Returns("none")
    <3> DEFINE n == mysql'
    <3>1. /\ n \in Client /\ n.session = "up" /\ n.methods = TRUE
          /\ mysql.reconnect = n.reconnect
      BY <1>1, <2>1 DEF Client
    <3> HIDE DEF n
    <3>2. [M EXCEPT !.session = n.session, !.methods = TRUE, !.status = "ready",
                    !.more = FALSE] = MYSQLOf(n)
      BY <1>1, <3>1, SessionChanged
    <3>3. [M EXCEPT !.session = "up", !.methods = TRUE, !.status = "ready",
                    !.more = FALSE] = N
      BY <3>1, <3>2 DEF n
    <3>4. Binding!Quiet  BY <2>1, AnswerBinding DEF Returns
    <3> HIDE DEF M, N
    <3>5. [ok |-> TRUE, m |-> N] \in Binding!mysql_real_connect(M)
      BY <1>4, <2>1, <3>3 DEF Binding!mysql_real_connect
    <3> QED  BY <3>4, <3>5
  <2>2. CASE /\ mysql.session # "up"
             /\ mysql' = [mysql EXCEPT !.session = "none", !.methods = TRUE,
                            !.options = IF Flags(remember) THEN @ ELSE NoOptions]
             /\ Throws
    <3> DEFINE n == mysql'
               opts == IF Flags(remember) THEN mysql.options ELSE NoOptions
    <3>1. opts \in Values
      BY <1>1 DEF Client
    <3>2. n = [mysql EXCEPT !.session = "none", !.methods = TRUE, !.options = opts]
      BY <2>2
    <3> HIDE DEF n, opts
    <3>3. /\ n \in Client /\ n.session = "none" /\ n.methods = TRUE
          /\ mysql.reconnect = n.reconnect
      BY <1>1, <3>1, <3>2 DEF Client
    <3>4. [M EXCEPT !.session = n.session, !.methods = TRUE] = MYSQLOf(n)
      BY <1>1, <3>3, SessionChanged
    <3>5. [M EXCEPT !.session = "none", !.methods = TRUE] = N
      BY <3>3, <3>4 DEF n
    <3>6. Binding!Throw  BY <2>2, AnswerBinding DEF Throws
    <3> HIDE DEF M, N
    <3>7. [ok |-> FALSE, m |-> N] \in Binding!mysql_real_connect(M)
      BY <1>4, <2>2, <3>5 DEF Binding!mysql_real_connect
    <3> QED  BY <3>6, <3>7
  <2>3. CASE mysql.session = "up" /\ Throws /\ mysql' = mysql
    <3>1. N = M  BY <2>3
    <3>2. Binding!Throw  BY <2>3, AnswerBinding DEF Throws
    <3> HIDE DEF M, N
    <3>3. [ok |-> FALSE, m |-> M] \in Binding!mysql_real_connect(M)
      BY <1>4, <2>3 DEF Binding!mysql_real_connect
    <3> QED  BY <3>1, <3>2, <3>3
  <2> QED  BY <1>3, <2>1, <2>2, <2>3
<1>6. /\ Binding!Callable(1) /\ Conn \in heldBar
      /\ UNCHANGED <<udBar, ageBar, clockBar, heldBar, registryBar, frameBar>>
  BY <1>2, Called
<1>7. /\ mysqlBar[Conn] = M /\ ~closedBar[Conn] /\ closedBar' = closedBar
      /\ mysqlBar' = [mysqlBar EXCEPT ![Conn] = N]
  BY <1>2, Structure
<1> HIDE DEF M, N
<1>8. PICK a \in Binding!mysql_real_connect(mysqlBar[Conn]) :
        a.m = N /\ (IF a.ok THEN Binding!Quiet ELSE Binding!Throw)
  BY <1>5, <1>7
<1>9. mysqlBar' = [mysqlBar EXCEPT ![Conn] = a.m]
  BY <1>7, <1>8
<1>10. Binding!real_connect(Conn)
  BY <1>2, <1>6, <1>7, <1>8, <1>9 DEF Binding!real_connect, Binding!heap
<1> QED  BY <1>6, <1>7, <1>10, CallStep DEF Binding!ConnCall, Binding!conn_connect

(* A step that leaves LibMysql's structure as it is, setting an option, or *)
(* the server's.                                                           *)
LEMMA NoNewsBinding ==
  ASSUME BindingInv, Usable, ~closed, answer' = "none", UNCHANGED <<closed, made, fault>>,
         NEW v \in BOOLEAN, mysql'.reconnect = v, mysql' \in Client,
         mysql'.session = mysql.session, mysql'.methods = mysql.methods
  PROVE  Binding!Next
<1> DEFINE M == MYSQLOf(mysql)
           N == MYSQLOf(mysql')
           W == [M EXCEPT !.reconnect = v]
<1>1. mysql \in Client  BY DEF BindingInv, SessionInv, TypeOK, Client
<1>2. /\ M \in Binding!MYSQL /\ M.session = mysql.session /\ M.methods = mysql.methods
      /\ M.status = "ready" /\ M.more = FALSE
  BY <1>1, MYSQLFields
<1>3. /\ N \in Binding!MYSQL /\ N.session = mysql.session /\ N.methods = mysql.methods
      /\ N.status = "ready" /\ N.more = FALSE /\ N.reconnect = v
  <2> DEFINE n == mysql'
  <2>1. n \in Client  OBVIOUS
  <2> HIDE DEF n
  <2>2. LET L == MYSQLOf(n) IN
         /\ L \in Binding!MYSQL
         /\ L.session = n.session /\ L.methods = n.methods /\ L.reconnect = n.reconnect
         /\ L.status = "ready" /\ L.more = FALSE
    BY <2>1, MYSQLFields
  <2> QED  BY <2>2 DEF n
<1> HIDE DEF M, N
<1>4. /\ W \in Binding!MYSQL /\ W.session = M.session /\ W.methods = M.methods
      /\ W.status = M.status /\ W.more = M.more /\ W.reconnect = v
  BY <1>2 DEF Binding!MYSQL
<1> HIDE DEF W
<1>5. W = N  BY <1>2, <1>3, <1>4, SameMYSQL
<1>6. /\ mysqlBar[Conn] = M /\ ~closedBar[Conn] /\ closedBar' = closedBar
      /\ mysqlBar' = [mysqlBar EXCEPT ![Conn] = W]
  BY <1>5, Structure DEF M, N
<1>7. mysqlBar' = [mysqlBar EXCEPT ![Conn].reconnect = v]
  BY <1>6 DEF W
<1>8. /\ Binding!Callable(1) /\ Conn \in heldBar /\ Binding!Quiet
      /\ UNCHANGED <<udBar, ageBar, clockBar, heldBar, registryBar, frameBar>>
  BY Called, AnswerBinding
<1>9. Binding!conn_set_reconnect(1, Conn)
  BY <1>6, <1>7, <1>8 DEF Binding!conn_set_reconnect, Binding!heap
<1> QED  BY <1>9, CallStep DEF Binding!ConnCall

LEMMA OptionBinding ==
  ASSUME BindingInv, SetsOption
  PROVE  Binding!Next
<1>1. PICK s, o, v, a : SetOption(s, a, o, v)
  BY DEF SetsOption, conn_set_connect_timeout, conn_set_read_timeout, conn_set_write_timeout,
         conn_set_charset
<1>2. Open  BY <1>1 DEF SetOption
<1>3. /\ Usable /\ ~closed /\ answer' = "none" /\ UNCHANGED <<closed, made, fault>>
      /\ mysql' = [mysql EXCEPT !.options[o] = v]
  BY <1>1, <1>2 DEF Open, SetOption, Returns
<1>4. mysql \in Client /\ mysql' \in Client
  <2>1. SessionInv'
    BY SessionStep DEF BindingInv, SetsOption, Next
  <2> QED  BY <2>1 DEF BindingInv, SessionInv, TypeOK, Client
<1>5. /\ mysql'.session = mysql.session /\ mysql'.methods = mysql.methods
      /\ mysql'.reconnect = mysql.reconnect /\ mysql.reconnect \in BOOLEAN
  BY <1>3, <1>4 DEF Client
<1> QED  BY <1>3, <1>4, <1>5, NoNewsBinding

LEMMA ReconnectBinding == ASSUME BindingInv, conn_set_reconnect PROVE Binding!Next
<1>1. PICK v \in BOOLEAN : mysql' = [mysql EXCEPT !.reconnect = v]
  BY DEF conn_set_reconnect
<1>2. mysql \in Client
  BY DEF BindingInv, SessionInv, TypeOK, Client
<1>3. /\ mysql' \in Client /\ mysql'.session = mysql.session
      /\ mysql'.methods = mysql.methods /\ mysql'.reconnect = v
  BY <1>1, <1>2 DEF Client
<1>4. /\ Usable /\ ~closed /\ answer' = "none" /\ UNCHANGED <<closed, made, fault>>
  BY DEF conn_set_reconnect, Open, Returns
<1> QED  BY <1>3, <1>4, NoNewsBinding

(* The server breaks the session, which LibMysql does not see.             *)
LEMMA DropBinding == ASSUME BindingInv, ServerDrops PROVE Binding!Next
<1>1. mysql \in Client
  BY DEF BindingInv, SessionInv, TypeOK, Client
<1>2. /\ server.up /\ fault = "none" /\ answer' = "none"
      /\ UNCHANGED <<closed, made, mysql, fault>>
  BY DEF ServerDrops, Returns
<1>3. mysql.session = "up" /\ NewMYSQL.session = "none"
  BY <1>2 DEF BindingInv, SessionInv, Linked, NewMYSQL
<1>4. Usable /\ ~closed
  BY <1>2, <1>3 DEF BindingInv, Fresh, Quit, Usable
<1>5. mysql.reconnect \in BOOLEAN  BY <1>1 DEF Client
<1> QED  BY <1>1, <1>2, <1>4, <1>5, NoNewsBinding

-----------------------------------------------------------------------------
(* Commands *)

LEMMA NullMethodsBinding ==
  ASSUME Usable, NullMethods
  PROVE  Binding!NullMethods
<1>1. /\ fault' = "null_methods" /\ answer' = "none" /\ UNCHANGED <<closed, made, mysql>>
  BY DEF NullMethods, Returns
<1>2. /\ UNCHANGED <<udBar, ageBar, clockBar, heldBar, registryBar, frameBar>>
  BY <1>1, Called
<1>3. mysqlBar' = mysqlBar /\ closedBar' = closedBar
  BY <1>1, Structure
<1>4. Binding!Quiet  BY <1>1, AnswerBinding
<1> QED  BY <1>1, <1>2, <1>3, <1>4 DEF Binding!NullMethods, Binding!heap, Binding!lib

(* The outcome r of a command, as LibMysql sees it.                        *)
LEMMA AppliedBinding ==
  ASSUME BindingInv, Open, NEW c \in Commands, NEW r \in Command(mysql, server, c), Apply(r)
  PROVE  /\ Allowed(mysqlBar[Conn], r)
         /\ mysqlBar' = [mysqlBar EXCEPT ![Conn] = MYSQLOf(r.m)]
         /\ ~closedBar[Conn] /\ mysqlBar[Conn].methods = mysql.methods
         /\ Binding!Callable(1) /\ Conn \in heldBar
         /\ UNCHANGED <<udBar, ageBar, clockBar, heldBar, registryBar, closedBar, frameBar,
                        fault>>
<1>1. mysql \in Client /\ server \in Server
  BY DEF BindingInv, SessionInv, TypeOK, Client, Server
<1>2. mysql' = r.m /\ UNCHANGED <<closed, made, fault>> /\ Usable /\ ~closed
  BY DEF Apply, Open
<1>3. Allowed(MYSQLOf(mysql), r)  BY <1>1, CommandAllowed
<1>4. MYSQLOf(mysql).methods = mysql.methods  BY <1>1, MYSQLFields
<1>5. MYSQLOf(mysql') = MYSQLOf(r.m)  BY <1>2
<1>6. mysqlBar' = [mysqlBar EXCEPT ![Conn] = MYSQLOf(r.m)]
  BY <1>5, Structure
<1> QED  BY <1>2, <1>3, <1>4, <1>6, Structure, Called

(* ping, commit and rollback: a command without a result.                  *)
LEMMA CommandBinding ==
  ASSUME BindingInv, Open, NEW c \in {"ping", "commit", "rollback"},
         NEW r \in Command(mysql, server, c), Apply(r), Answer(r, c, "none")
  PROVE  Binding!command(Conn)
<1> DEFINE N == MYSQLOf(r.m)
<1>1. /\ Allowed(mysqlBar[Conn], r)
      /\ mysqlBar' = [mysqlBar EXCEPT ![Conn] = N]
      /\ UNCHANGED <<udBar, ageBar, clockBar, heldBar, registryBar, closedBar, frameBar,
                     fault>>
  BY AppliedBinding DEF Commands
<1> HIDE DEF N
<1>2. CASE r.ok
  <2>1. [ok |-> TRUE, m |-> N] \in Binding!simple_command(mysqlBar[Conn])
    BY <1>1, <1>2 DEF Allowed, Binding!simple_command, N
  <2>2. Binding!Quiet
    BY <1>2, AnswerBinding DEF Answer, Returns
  <2> QED  BY <1>1, <2>1, <2>2 DEF Binding!command, Binding!heap
<1>3. CASE ~r.ok
  <2>1. [ok |-> FALSE, m |-> N] \in Binding!simple_command(mysqlBar[Conn])
    BY <1>1, <1>3 DEF Allowed, Binding!simple_command, N
  <2>2. Binding!Throw
    BY <1>3, AnswerBinding DEF Answer, Throws
  <2> QED  BY <1>1, <2>1, <2>2 DEF Binding!command, Binding!heap
<1> QED  BY <1>2, <1>3

LEMMA PingBinding == ASSUME BindingInv, conn_ping PROVE Binding!Next
<1>1. /\ Open /\ Usable /\ mysql \in Client
  BY DEF conn_ping, Open, BindingInv, SessionInv, TypeOK, Client
<1>2. CASE /\ ~mysql.methods /\ Throws
           /\ UNCHANGED <<closed, made, mysql, server, durable, fault, asked, doubtful>>
  <2>1. ~mysqlBar[Conn].methods
    BY <1>1, <1>2, Structure, MYSQLFields
  <2>2. Binding!Rejected /\ Binding!Callable(1) /\ Conn \in heldBar
    BY <1>1, <1>2, RejectedCall, Called
  <2> QED  BY <2>1, <2>2, CallStep DEF Binding!ConnCall, Binding!conn_ping
<1>3. CASE /\ mysql.methods
           /\ \E r \in Command(mysql, server, "ping") : Apply(r) /\ Answer(r, "ping", "none")
  <2>1. PICK r \in Command(mysql, server, "ping") : Apply(r) /\ Answer(r, "ping", "none")
    BY <1>3
  <2>2. Binding!command(Conn)
    BY <1>1, <2>1, CommandBinding
  <2>3. /\ Binding!Callable(1) /\ Conn \in heldBar /\ ~closedBar[Conn]
        /\ mysqlBar[Conn].methods
    BY <1>1, <1>3, <2>1, AppliedBinding DEF Commands
  <2> QED  BY <2>2, <2>3, CallStep DEF Binding!ConnCall, Binding!conn_ping
<1> QED  BY <1>2, <1>3 DEF conn_ping

LEMMA ConcludeBinding ==
  ASSUME BindingInv, NEW c \in {"commit", "rollback"}, Conclude(c)
  PROVE  Binding!Next
<1>1. /\ Open /\ Usable /\ mysql \in Client /\ ~closed
  BY DEF Conclude, Open, BindingInv, SessionInv, TypeOK, Client
<1>2. CASE ~mysql.methods /\ NullMethods
  <2>1. ~mysqlBar[Conn].methods /\ ~closedBar[Conn]
    BY <1>1, <1>2, Structure, MYSQLFields
  <2>2. Binding!NullMethods /\ Binding!Callable(1) /\ Conn \in heldBar
    BY <1>1, <1>2, NullMethodsBinding, Called DEF NullMethods
  <2> QED  BY <2>1, <2>2, CallStep DEF Binding!ConnCall, Binding!conn_commit_rollback
<1>3. CASE /\ mysql.methods
           /\ \E r \in Command(mysql, server, c) : Apply(r) /\ Answer(r, c, "none")
  <2>1. PICK r \in Command(mysql, server, c) : Apply(r) /\ Answer(r, c, "none")
    BY <1>3
  <2>2. Binding!command(Conn)
    BY <1>1, <2>1, CommandBinding
  <2>3. /\ Binding!Callable(1) /\ Conn \in heldBar /\ ~closedBar[Conn]
        /\ mysqlBar[Conn].methods
    BY <1>1, <1>3, <2>1, AppliedBinding DEF Commands
  <2> QED  BY <2>2, <2>3, CallStep DEF Binding!ConnCall, Binding!conn_commit_rollback
<1> QED  BY <1>2, <1>3 DEF Conclude

(* LibMysql's answer to a statement without columns, whose status is all   *)
(* there is to it.                                                         *)
LEMMA AnsweredMYSQL ==
  ASSUME NEW m \in Client
  PROVE  Binding!Answered(MYSQLOf(m), FALSE, FALSE) = MYSQLOf(m)
<1> DEFINE M == MYSQLOf(m)
           A == [M EXCEPT !.status = IF FALSE THEN "get_result" ELSE "ready", !.more = FALSE]
<1>1. M \in Binding!MYSQL /\ M.status = "ready" /\ M.more = FALSE
  BY MYSQLFields
<1> HIDE DEF M
<1>2. /\ A \in Binding!MYSQL /\ A.session = M.session /\ A.methods = M.methods
      /\ A.status = "ready" /\ A.more = FALSE /\ A.reconnect = M.reconnect
  BY <1>1 DEF Binding!MYSQL
<1> HIDE DEF A
<1>3. A = M  BY <1>1, <1>2, SameMYSQL
<1> QED  BY <1>3 DEF A, M, Binding!Answered

LEMMA AnswersMember ==
  ASSUME NEW M, NEW t \in Binding!Sent(M)
  PROVE  [ok |-> TRUE, cols |-> FALSE, m |-> Binding!Answered(t, FALSE, FALSE)]
           \in Binding!Answers(M, {FALSE})
<1> DEFINE F(e, c, x) == [ok |-> TRUE, cols |-> c, m |-> Binding!Answered(e, c, x)]
           no == FALSE
           only == {no}
<1>1. no \in BOOLEAN /\ no \in only  OBVIOUS
<1> HIDE DEF no, only
<1>2. Binding!Answers(M, only) = {F(e, c, x) : e \in Binding!Sent(M), c \in BOOLEAN, x \in only}
  BY DEF Binding!Answers
<1>3. F(t, no, no) \in Binding!Answers(M, only)
  <2> HIDE DEF F
  <2> QED  BY <1>1, <1>2
<1> QED  BY <1>3, Zenon DEF no, only

LEMMA ExecuteBinding == ASSUME BindingInv, conn_execute PROVE Binding!Next
<1>1. /\ Open /\ Usable /\ mysql \in Client /\ server \in Server /\ ~closed
  BY DEF conn_execute, Open, BindingInv, SessionInv, TypeOK, Client, Server
<1>2. CASE ~mysql.methods /\ NullMethods
  <2>1. ~mysqlBar[Conn].methods /\ ~closedBar[Conn]
    BY <1>1, <1>2, Structure, MYSQLFields
  <2>2. Binding!NullMethods /\ Binding!Callable(1) /\ Conn \in heldBar
    BY <1>1, <1>2, NullMethodsBinding, Called DEF NullMethods
  <2> QED  BY <2>1, <2>2, CallStep DEF Binding!ConnCall, Binding!conn_execute
<1>3. CASE /\ mysql.methods
           /\ \E c \in (Stmts \ (durable \cup server.pending \cup trans.stmts))
                         \cup {"begin", "autocommit=0"} :
                \E r \in Command(mysql, server, c) :
                  Apply(r) /\ Answer(r, c, "affected")
  <2>1. PICK c \in Commands : \E r \in Command(mysql, server, c) :
                                Apply(r) /\ Answer(r, c, "affected")
    BY <1>3 DEF Commands
  <2>2. PICK r \in Command(mysql, server, c) : Apply(r) /\ Answer(r, c, "affected")
    BY <2>1
  <2> DEFINE N == MYSQLOf(r.m)
  <2>3. /\ Allowed(mysqlBar[Conn], r) /\ ~closedBar[Conn] /\ mysqlBar[Conn].methods
        /\ mysqlBar' = [mysqlBar EXCEPT ![Conn] = N]
        /\ Binding!Callable(1) /\ Conn \in heldBar
        /\ UNCHANGED <<udBar, ageBar, clockBar, heldBar, registryBar, closedBar, frameBar,
                       fault>>
    BY <1>1, <1>3, <2>2, AppliedBinding
  <2>4. r.m \in Client
    BY <1>1, <2>2, CommandEffect DEF BindingInv, SessionInv, Linked, Outcome
  <2>5. Binding!Answered(N, FALSE, FALSE) = N
    BY <2>4, AnsweredMYSQL
  <2> HIDE DEF N
  <2>6. Binding!SendQuery(1, Conn)
    <3>1. CASE r.ok
      <4> DEFINE q == [ok |-> TRUE, cols |-> FALSE, m |-> N]
      <4>1. N \in Binding!Sent(mysqlBar[Conn])
        BY <2>3, <3>1 DEF Allowed, N
      <4>2. [ok |-> TRUE, cols |-> FALSE, m |-> Binding!Answered(N, FALSE, FALSE)]
              \in Binding!Answers(mysqlBar[Conn], {FALSE})
        BY <4>1, AnswersMember
      <4>3. q \in Binding!Statement(Conn)
        BY <2>5, <4>2 DEF Binding!Statement, Binding!mysql_real_query
      <4>4. Binding!Return("affected", Conn)
        BY <2>2, <3>1, AnswerBinding DEF Answer, Returns
      <4>5. q.ok /\ ~q.cols /\ q.m = N  OBVIOUS
      <4> HIDE DEF q
      <4> QED  BY <2>3, <4>3, <4>4, <4>5 DEF Binding!SendQuery, Binding!heap
    <3>2. CASE ~r.ok
      <4> DEFINE q == [ok |-> FALSE, cols |-> FALSE, m |-> N]
      <4>1. N \in Binding!FailedCommand(mysqlBar[Conn])
        BY <2>3, <3>2 DEF Allowed, N
      <4>2. q \in Binding!Statement(Conn)
        BY <4>1 DEF Binding!Statement, Binding!mysql_real_query, Binding!Refusals
      <4>3. Binding!Throw
        BY <2>2, <3>2, AnswerBinding DEF Answer, Throws
      <4>4. ~q.ok /\ ~q.cols /\ q.m = N  OBVIOUS
      <4> HIDE DEF q
      <4> QED  BY <2>3, <4>2, <4>3, <4>4 DEF Binding!SendQuery, Binding!heap
    <3> QED  BY <3>1, <3>2
  <2> QED  BY <2>3, <2>6, CallStep DEF Binding!ConnCall, Binding!conn_execute
<1> QED  BY <1>2, <1>3 DEF conn_execute

-----------------------------------------------------------------------------
(* The refinement *)

LEMMA InitBinding == Init => Binding!Init
<1> SUFFICES ASSUME Init PROVE Binding!Init
  OBVIOUS
<1>1. MYSQLOf(mysql) = Binding!mysql_init
  BY DEF Init, MYSQLOf, NewMYSQL, Binding!mysql_init
<1>2. /\ udBar = [k \in {Conn} |-> "none"] /\ ageBar = [k \in {Conn} |-> 0] /\ clockBar = 1
      /\ heldBar = {} /\ closedBar = [k \in {Conn} |-> FALSE]
  BY DEF Init, udBar, ageBar, clockBar, heldBar, closedBar
<1>3. mysqlBar = [k \in {Conn} |-> Binding!mysql_init]
  BY <1>1 DEF mysqlBar
<1>4. registryBar = Binding!init_registry(MainThread, Globals)
  BY DEF registryBar, Binding!init_registry
<1>5. frameBar = [l \in Binding!Levels |-> Binding!NoFrame]
  BY DEF frameBar, Binding!Levels, Binding!NoFrame
<1>6. retBar = Binding!Silent /\ fault = "none"
  BY DEF Init, retBar, Binding!Silent
<1> QED
  BY <1>2, <1>3, <1>4, <1>5, <1>6 DEF Binding!Init, Binding!Objects

LEMMA StepBinding == BindingInv /\ [Next]_vars => [Binding!Next]_(Binding!vars)
<1> SUFFICES ASSUME BindingInv, [Next]_vars PROVE [Binding!Next]_(Binding!vars)
  OBVIOUS
<1>1. CASE conn_create  BY <1>1, CreateBinding
<1>2. CASE conn_close  BY <1>2, CloseBinding
<1>3. CASE conn_connect  BY <1>3, ConnectBinding
<1>4. CASE Rejected  BY <1>4, RejectedBinding
<1>5. CASE SetsOption  BY <1>5, OptionBinding
<1>6. CASE conn_set_reconnect  BY <1>6, ReconnectBinding
<1>7. CASE conn_execute  BY <1>7, ExecuteBinding
<1>8. CASE conn_ping  BY <1>8, PingBinding
<1>9. CASE conn_commit  BY <1>9, ConcludeBinding DEF conn_commit
<1>10. CASE conn_rollback  BY <1>10, ConcludeBinding DEF conn_rollback
<1>11. CASE ServerDrops  BY <1>11, DropBinding
<1>12. CASE UNCHANGED vars
  <2>1. UNCHANGED <<closed, made, mysql, answer, fault>>
    BY <1>12 DEF vars
  <2>2. UNCHANGED <<udBar, ageBar, clockBar, heldBar, registryBar, frameBar, retBar>>
    BY <2>1 DEF udBar, ageBar, clockBar, heldBar, registryBar, frameBar, retBar
  <2>3. mysqlBar' = mysqlBar /\ closedBar' = closedBar
    BY <2>1, Structure
  <2> QED  BY <2>1, <2>2, <2>3 DEF Binding!vars, Binding!heap, Binding!lib
<1> QED
  BY <1>1, <1>2, <1>3, <1>4, <1>5, <1>6, <1>7, <1>8, <1>9, <1>10, <1>11, <1>12
  DEF Next, SetsOption

(* With the server, the options and the transactions in view, a connection *)
(* does nothing that LuaMysql and its model of the client library do not   *)
(* allow.                                                                  *)
THEOREM SessionIsBinding == Spec => IsBinding
<1>1. Spec => []BindingInv
  BY BindingInit, BindingStep, PTL DEF Spec
<1>2. QED
  BY <1>1, InitBinding, StepBinding, PTL DEF Spec, IsBinding, Binding!Spec

=============================================================================
