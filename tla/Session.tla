------------------------------- MODULE Session -------------------------------
(***************************************************************************)
(* One connection of lua_mysql.c with the server behind it: the options    *)
(* the script sets, which a session takes when it begins; transactions,    *)
(* which the server gives up when the session breaks; and automatic        *)
(* reconnection, which replaces one session by another inside a call. Only *)
(* statements without columns are sent; LuaMysql has the others.           *)
(*                                                                         *)
(* What the client library does (the operators marked so) is taken from    *)
(* its manual and headers, in more detail than in LibMysql; SessionBinding *)
(* says that it does nothing LibMysql does not allow.                      *)
(***************************************************************************)
EXTENDS Integers, FiniteSets

CONSTANTS
  Stmts,          \* the statements that change data, each executed once
  Seconds,        \* the integers the script gives for timeouts
  Charsets,       \* the strings it gives to set_charset
  UIntRange,      \* the number of values of an unsigned int
  MaxSetters,     \* the bound on how many of the setters the script calls
  Unset           \* an option that was not set

ASSUME RangePositive == UIntRange \in Nat \ {0}
ASSUME SecondsIntegers == Seconds \subseteq Int
ASSUME StmtsDistinct ==
  Stmts \cap {"begin", "autocommit=0", "commit", "rollback", "ping"} = {}
ASSUME ValuesDistinct == Seconds \cap (Charsets \cup {Unset}) = {}

VARIABLES
  closed,     \* Connection.closed
  made,       \* the connection has been created
  mysql,      \* Connection.my_conn
  server,     \* the server's side of the session
  durable,    \* the statements whose changes are committed
  answer,     \* what the last call returned
  fault,      \* as in LuaMysql
  asked,      \* what the script gave last to each function that sets an option
  doubtful,   \* those it called before a connect failed, and not since
  trans       \* the transaction under way, as the script sees it

vars == <<closed, made, mysql, server, durable, answer, fault, asked, doubtful, trans>>

Timeouts == {"MYSQL_OPT_CONNECT_TIMEOUT", "MYSQL_OPT_READ_TIMEOUT", "MYSQL_OPT_WRITE_TIMEOUT"}
Options == Timeouts \cup {"MYSQL_SET_CHARSET_NAME"}
NoOptions == [o \in Options |-> Unset]

(* The script's functions that set them.                                   *)
Setters == {"set_connect_timeout", "set_read_timeout", "set_write_timeout", "set_charset"}
NothingAsked == [s \in Setters |-> Unset]

(* session, methods, reconnect: see LibMysql. intrans: the last answer had *)
(* SERVER_STATUS_IN_TRANS (mysql_com.h:220). options: set by mysql_options.*)
NewMYSQL == [session |-> "none", methods |-> FALSE, reconnect |-> FALSE,
             intrans |-> FALSE, options |-> NoOptions]

(* up: the server still has the session. begun: START TRANSACTION is in    *)
(* force; auto: autocommit is on. pending: what is not committed yet.      *)
(* options: those the session was begun with.                              *)
NoSession == [up |-> FALSE, begun |-> FALSE, auto |-> TRUE, pending |-> {},
              options |-> NoOptions]
NewSession(opts) == [up |-> TRUE, begun |-> FALSE, auto |-> TRUE, pending |-> {},
                     options |-> opts]

(* begun: by START TRANSACTION; manual: the script has set autocommit off. *)
(* told: an error was raised since the transaction began.                  *)
NoTransaction == [begun |-> FALSE, manual |-> FALSE, stmts |-> {}, told |-> FALSE]

Init ==
  /\ closed = FALSE /\ made = FALSE
  /\ mysql = NewMYSQL
  /\ server = NoSession
  /\ durable = {}
  /\ answer = "none"
  /\ fault = "none"
  /\ asked = NothingAsked /\ doubtful = {}
  /\ trans = NoTransaction

-----------------------------------------------------------------------------
(* The server *)

InTrans(sv) == sv.begun \/ (~sv.auto /\ sv.pending # {})

(* Statements outside of a transaction are committed one by one.           *)
Transacts(sv, c) == c \in Stmts /\ (sv.begun \/ ~sv.auto)

(* The session after c, and what becomes durable.                          *)
Executed(sv, c) ==
  [up |-> sv.up,
   begun |-> c = "begin" \/ (sv.begun /\ c \notin {"commit", "rollback"}),
   auto |-> sv.auto /\ c # "autocommit=0",
   pending |-> IF c \in {"begin", "commit", "rollback"} THEN {}
               ELSE IF Transacts(sv, c) THEN sv.pending \cup {c} ELSE sv.pending,
   options |-> sv.options]

Committed(sv, c) ==
  IF c \in {"begin", "commit"} THEN sv.pending
  ELSE IF c \in Stmts /\ ~Transacts(sv, c) THEN {c} ELSE {}

-----------------------------------------------------------------------------
(* The client library: commands. An outcome has ok, the client's structure *)
(* m, the server's session sv, and what became durable.                    *)

Lost(m) == [m EXCEPT !.session = "lost"]
Regained(m) == [m EXCEPT !.session = "up"]
WithStatus(m, b) == [m EXCEPT !.intrans = b]

Failed(m, sv, dur) == [ok |-> FALSE, m |-> m, sv |-> sv, dur |-> dur]
Done(m, sv, dur) == [ok |-> TRUE, m |-> m, sv |-> sv, dur |-> dur]

(* One request and its answer. The server may refuse the statement, and    *)
(* then may have rolled back the whole transaction (a deadlock; errors do  *)
(* not carry the status); it may break the session before it executes the  *)
(* statement or after.                                                     *)
Exchange(m, sv, c) ==
  IF ~sv.up THEN {Failed(Lost(m), NoSession, {})}
  ELSE {Done(WithStatus(m, InTrans(Executed(sv, c))), Executed(sv, c), Committed(sv, c)),
        Failed(m, sv, {}),
        Failed(m, Executed(sv, "rollback"), {}),
        Failed(Lost(m), NoSession, {}),
        Failed(Lost(m), NoSession, Committed(sv, c))}

(* mysql_reconnect, on a structure whose socket is gone. In the middle of  *)
(* a transaction it refuses, once: the caller is to notice. It takes the   *)
(* options as they are now.                                                *)
MayReconnect(m) == m.session = "lost" /\ m.reconnect /\ ~m.intrans

Reconnected(m, sv) ==
  IF ~MayReconnect(m) THEN {Failed(WithStatus(m, FALSE), sv, {})}
  ELSE {Failed(m, sv, {}), Done(Regained(m), NewSession(m.options), {})}

Resent(m, sv, c) ==
  UNION {IF r.ok THEN Exchange(r.m, r.sv, c) ELSE {r} : r \in Reconnected(m, sv)}

(* A command is sent again on a new session if there is no socket, or if   *)
(* writing to it fails (not if reading the answer does).                   *)
Command(m, sv, c) ==
  IF m.session = "up"
  THEN Exchange(m, sv, c) \cup Resent(Lost(m), NoSession, c)
  ELSE Resent(m, sv, c)

-----------------------------------------------------------------------------
(* Calls of the script *)

Usable == made /\ fault = "none"
(* Mutant of Open: closed is not checked.                                  *)
Mutant_Open == Usable
Open == Usable /\ ~closed

InTransaction == trans.begun \/ trans.manual

Throws == answer' = "error" /\ trans' = [trans EXCEPT !.told = InTransaction]
Returns(a) == answer' = a

(* The connection is closed, another argument is not what the function     *)
(* takes, or mysql_options fails.                                          *)
Rejected ==
  /\ Usable
  /\ Throws
  /\ UNCHANGED <<closed, made, mysql, server, durable, fault, asked, doubtful>>

conn_create ==
  /\ ~made
  /\ made' = TRUE
  /\ Returns("none")
  /\ UNCHANGED <<closed, mysql, server, durable, fault, asked, doubtful, trans>>

(* The options are freed with the session.                                 *)
conn_close ==
  /\ Usable
  /\ closed' = TRUE
  /\ mysql' = [mysql EXCEPT !.session = "none", !.options = NoOptions]
  /\ server' = NoSession
  /\ asked' = NothingAsked /\ doubtful' = {}
  /\ trans' = NoTransaction
  /\ Returns("none")
  /\ UNCHANGED <<made, durable, fault>>

(* Mutant of Flags: client_flag is not passed on.                          *)
Mutant_Flags(remember) == FALSE
(* Whether client_flag has CLIENT_REMEMBER_OPTIONS (mysql_com.h:172).      *)
Flags(remember) == remember

(* A session begins with the options set so far. When that fails they are  *)
(* dropped, unless they are to be remembered; reconnect is none of them.   *)
conn_connect ==
  /\ Open
  /\ \E remember \in BOOLEAN :
       \/ /\ mysql.session # "up"
          /\ mysql' = [mysql EXCEPT !.session = "up", !.methods = TRUE, !.intrans = FALSE]
          /\ server' = NewSession(mysql.options)
          /\ trans' = NoTransaction
          /\ Returns("none")
          /\ UNCHANGED doubtful
       \/ /\ mysql.session # "up"
          /\ mysql' = [mysql EXCEPT !.session = "none", !.methods = TRUE,
                         !.options = IF Flags(remember) THEN @ ELSE NoOptions]
          /\ doubtful' = IF remember THEN doubtful ELSE {s \in Setters : asked[s] # Unset}
          /\ Throws
          /\ UNCHANGED server
       \/ /\ mysql.session = "up"
          /\ Throws
          /\ UNCHANGED <<mysql, server, doubtful>>
  /\ UNCHANGED <<closed, made, durable, fault, asked>>

(* Mutant of ToUnsigned: no conversion.                                    *)
Mutant_ToUnsigned(n) == n
(* (unsigned int) of a lua_Integer.                                        *)
ToUnsigned(n) == n % UIntRange

(* setter, called with a, has mysql_options set an option to v.            *)
SetOption(setter, a, option, v) ==
  /\ Open
  /\ Cardinality({s \in Setters : asked[s] # Unset} \cup {setter}) <= MaxSetters
  /\ mysql' = [mysql EXCEPT !.options[option] = v]
  /\ asked' = [asked EXCEPT ![setter] = a]
  /\ doubtful' = doubtful \ {setter}
  /\ Returns("none")
  /\ UNCHANGED <<closed, made, server, durable, fault, trans>>

conn_set_connect_timeout ==
  \E n \in Seconds :
    SetOption("set_connect_timeout", n, "MYSQL_OPT_CONNECT_TIMEOUT", ToUnsigned(n))

(* Mutant of conn_set_read_timeout: the option of conn_set_write_timeout.  *)
Mutant_conn_set_read_timeout ==
  \E n \in Seconds :
    SetOption("set_read_timeout", n, "MYSQL_OPT_WRITE_TIMEOUT", ToUnsigned(n))

conn_set_read_timeout ==
  \E n \in Seconds :
    SetOption("set_read_timeout", n, "MYSQL_OPT_READ_TIMEOUT", ToUnsigned(n))

conn_set_write_timeout ==
  \E n \in Seconds :
    SetOption("set_write_timeout", n, "MYSQL_OPT_WRITE_TIMEOUT", ToUnsigned(n))

(* Also as conn_set_protocol and conn_set_compress do.                     *)
conn_set_charset ==
  \E s \in Charsets : SetOption("set_charset", s, "MYSQL_SET_CHARSET_NAME", s)

conn_set_reconnect ==
  /\ Open
  /\ \E v \in BOOLEAN : mysql' = [mysql EXCEPT !.reconnect = v]
  /\ Returns("none")
  /\ UNCHANGED <<closed, made, server, durable, fault, asked, doubtful, trans>>

(* The library is called through a table of functions that is not there.   *)
NullMethods ==
  /\ fault' = "null_methods"
  /\ Returns("none")
  /\ UNCHANGED <<closed, made, mysql, server, durable, asked, doubtful, trans>>

(* Answered without an error, c ends the script's transaction and begins   *)
(* another one, if only in that autocommit is off.                         *)
Restarts(c) ==
  c \in {"begin", "commit", "rollback"} \/ (c = "autocommit=0" /\ ~trans.begun)

(* The script's view of its transaction after c was answered.              *)
Seen(c) ==
  [begun |-> c = "begin" \/ (trans.begun /\ c \notin {"commit", "rollback"}),
   manual |-> trans.manual \/ c = "autocommit=0",
   stmts |-> IF Restarts(c) THEN {}
             ELSE IF c \in Stmts /\ InTransaction THEN trans.stmts \cup {c} ELSE trans.stmts,
   told |-> trans.told /\ ~Restarts(c)]

(* Mutant of Answer: what the library returned is not looked at.           *)
Mutant_Answer(r, c, a) == Returns(a) /\ trans' = Seen(c)
Answer(r, c, a) == IF r.ok THEN Returns(a) /\ trans' = Seen(c) ELSE Throws

Apply(r) ==
  /\ mysql' = r.m
  /\ server' = r.sv
  /\ durable' = durable \cup r.dur
  /\ UNCHANGED <<closed, made, fault, asked, doubtful>>

conn_execute ==
  /\ Open
  /\ \/ ~mysql.methods /\ NullMethods
     \/ /\ mysql.methods
        /\ \E c \in (Stmts \ (durable \cup server.pending \cup trans.stmts))
                      \cup {"begin", "autocommit=0"} :
             \E r \in Command(mysql, server, c) :
               Apply(r) /\ Answer(r, c, "affected")

conn_ping ==
  /\ Open
  /\ \/ /\ ~mysql.methods
        /\ Throws
        /\ UNCHANGED <<closed, made, mysql, server, durable, fault, asked, doubtful>>
     \/ /\ mysql.methods
        /\ \E r \in Command(mysql, server, "ping") :
             Apply(r) /\ Answer(r, "ping", "none")

Conclude(c) ==
  /\ Open
  /\ \/ ~mysql.methods /\ NullMethods
     \/ /\ mysql.methods
        /\ \E r \in Command(mysql, server, c) : Apply(r) /\ Answer(r, c, "none")

conn_commit == Conclude("commit")
conn_rollback == Conclude("rollback")

-----------------------------------------------------------------------------

(* The server is restarted, or has waited long enough; the client does not *)
(* know yet.                                                               *)
ServerDrops ==
  /\ server.up /\ fault = "none"
  /\ server' = NoSession
  /\ Returns("none")
  /\ UNCHANGED <<closed, made, mysql, durable, fault, asked, doubtful, trans>>

Next ==
  \/ conn_create \/ conn_close \/ conn_connect \/ Rejected
  \/ conn_set_connect_timeout \/ conn_set_read_timeout \/ conn_set_write_timeout
  \/ conn_set_charset \/ conn_set_reconnect
  \/ conn_execute \/ conn_ping \/ conn_commit \/ conn_rollback
  \/ ServerDrops

Spec == Init /\ [][Next]_vars

-----------------------------------------------------------------------------
(* Properties *)

UInts == 0..(UIntRange - 1)
Values == [Options -> Charsets \cup UInts \cup {Unset}]

TypeOK ==
  /\ closed \in BOOLEAN /\ made \in BOOLEAN
  /\ mysql \in [session: {"none", "up", "lost"}, methods: BOOLEAN,
                reconnect: BOOLEAN, intrans: BOOLEAN, options: Values]
  /\ server \in [up: BOOLEAN, begun: BOOLEAN, auto: BOOLEAN,
                 pending: SUBSET Stmts, options: Values]
  /\ durable \subseteq Stmts
  /\ answer \in {"none", "affected", "error"}
  /\ fault \in {"none", "null_methods"}
  /\ asked \in [Setters -> Charsets \cup Seconds \cup {Unset}]
  /\ doubtful \subseteq Setters
  /\ trans \in [begun: BOOLEAN, manual: BOOLEAN, stmts: SUBSET Stmts, told: BOOLEAN]

(* The script can rely on its transaction: no call raised an error since   *)
(* it began. If it is one of autocommit being off, the session has to be   *)
(* the one where that was set: between two transactions a reconnection     *)
(* puts a new session, with autocommit on, in its place without an error.  *)
Reliable == ~trans.told /\ (trans.begun \/ (trans.manual /\ ~server.auto))

(* While it can, none of its statements is durable: a session lost between *)
(* two of them is never replaced behind the script's back, where the rest  *)
(* would be committed one by one.                                          *)
NothingDurableYet == Reliable => trans.stmts \cap durable = {}

(* If it can, commit returning without an error means that all its         *)
(* statements are durable, rollback that none is nor will be. (A commit    *)
(* that raised an error may have been executed or not.)                    *)
Concluded == Reliable /\ answer' # "error" /\ fault' = "none"

AnswersTrue ==
  [][Concluded =>
       /\ conn_commit => trans.stmts \subseteq durable'
       /\ conn_rollback => trans.stmts \cap (durable' \cup server'.pending) = {}]_vars

BeginsSession == server'.up /\ (~server.up \/ server'.options # server.options)

(* The option in which what the script gave to a setter should end up.     *)
OptionOf(setter) ==
  CASE setter = "set_connect_timeout" -> "MYSQL_OPT_CONNECT_TIMEOUT"
    [] setter = "set_read_timeout" -> "MYSQL_OPT_READ_TIMEOUT"
    [] setter = "set_write_timeout" -> "MYSQL_OPT_WRITE_TIMEOUT"
    [] setter = "set_charset" -> "MYSQL_SET_CHARSET_NAME"

(* A session, begun by connect or by a reconnection inside another call,   *)
(* has each option as the script gave it last to the function named after  *)
(* it, and none it did not ask for: also one set after the session it      *)
(* replaces began, and one set before a failed connect that was to         *)
(* remember the options. After a failed connect that was not, an option    *)
(* may be unset, but has no other value. (A number of seconds that no      *)
(* unsigned int can be arrives as another one.)                            *)
OptionsInForce ==
  [][BeginsSession =>
       \A s \in Setters : asked[s] \in Charsets \cup UInts \cup {Unset} =>
         \/ server'.options[OptionOf(s)] = asked[s]
         \/ s \in doubtful /\ server'.options[OptionOf(s)] = Unset]_vars

(* API.md:47-53 says of set_write_timeout: "The timeout in seconds for     *)
(* each attempt to read from the server", and of set_read_timeout: "The    *)
(* timeout in seconds for each attempt to write to the server."            *)
TimeoutsAsDocumented ==
  [][BeginsSession /\ doubtful = {} =>
       /\ asked["set_write_timeout"] \in UInts =>
            server'.options["MYSQL_OPT_READ_TIMEOUT"] = asked["set_write_timeout"]
       /\ asked["set_read_timeout"] \in UInts =>
            server'.options["MYSQL_OPT_WRITE_TIMEOUT"] = asked["set_read_timeout"]]_vars

=============================================================================
