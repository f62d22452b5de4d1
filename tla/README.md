# Verification of lua-mysql

TLA+ models of lua-mysql, a Lua 5.3 binding of the MySQL C client library, with
the TLC configurations that check them and proofs that TLAPS checks.

The program's own code is one file, `src/src/lua_mysql.c`. It is short, but it
joins three machines that know nothing of each other: the script, which calls
methods in any order; the Lua collector, which finalizes userdata in the middle
of other calls; and the client library, whose `MYSQL` and `MYSQL_RES` structures
point into each other's memory and follow a protocol with a server that may go
away. The models are about what holds between the three, and about the two parts
of Lua the binding leans on: its tables and its collector.

Tools: `tlc -config X.cfg M` with `M` one of `MCLuaMysql`, `MCResultTable`,
`MCSession`, `MCLuaGC` (the table of runs says which), `tlapm XProofs.tla`.

## Inventory

| component | state | operations | what makes it correct |
|---|---|---|---|
| Connection (`lua_mysql.c` 26-30, 224-470) | `closed`, the `MYSQL` structure inside the userdata | create, connect, close, the `set_` options, ping, execute, commit, rollback, escape, `__gc` | the session ends once; no command disturbs an open unbuffered result; the structure outlives every result that points to it |
| Cursor (33-40, 47-221) | the registry reference `conn`, `my_res`, `fields`, `fetch_all`, `numcols` | create_cursor, fetch, fetch_all, numrows, `__gc`; all ends go through cursor_nullify | the result is freed once, the reference given back once; rows in order, each by its own lengths, none lost without an error |
| Lua references (`lauxlib.c` 525-562) | the registry's slots and free list | luaL_ref, luaL_unref | a slot in use is never handed out |
| Lua collector and lua_close (`lgc.c`, `lapi.c`, `lstate.c`) | colors, gray lists, allgc, finobj, tobefnz, the place of the sweep | mark, barriers, atomic phase, sweep, finalizers, full collections; everything at lua_close | nothing reachable is freed or finalized, garbage is found; connections go after the cursors that use them |
| Lua tables (`ltable.c`) | array part, nodes, `lastfree` | create, get, set, rehash, next, length | a key set is found, a traversal is not lost |
| MySQL client library (headers in `dep/libmysql`) | `MYSQL`, `MYSQL_RES` | the calls of the binding | external, taken as its manual and headers have it |
| Row conversion (100-154, 210-218) | the table being filled | pushvalue, result_to_table, the loop of fetch_all | a column becomes the value the server sent, under its name or number |
| Connection options (356-440) | options inside `MYSQL` | the `set_` functions, the flags of connect | in force in every session begun after |
| Transactions (334-354) | the status in `MYSQL`; the server's session | commit, rollback | no error means done; nothing is durable before |
| Module loading (481-581) | the metatables in the registry | luaopen_luamysql | may be asked for twice |
| escape, printing | none | escape, `__tostring` | - |

**Interaction.** The script holds Connection and Cursor userdata. A cursor holds
its connection only through an integer in the registry (`luaL_ref`); its
`MYSQL_RES.handle` is a plain pointer into the Connection userdata. The
collector reads the registry to decide what is reachable, and runs `conn_gc`
(the same function as `close`) and `cursor_gc`, which call the library and
change the registry. The library changes the structure a connection and its
unbuffered result share.

**What is hard.** There is one thread, but no call is atomic: every allocation
of Lua memory may run finalizers, of this binding or of the script, and may
throw. `create_cursor` allocates while it alone knows a result;
`result_to_table` allocates for every column while it holds a row and an array
of lengths that the library may release. `lua_close` finalizes everything,
referenced or not. Sessions are lost at any command or row and may be replaced
by automatic reconnection. Half of the errors of the library look like the end
of a result. `PROJECT.json` lists the hazards line by line.

## Modules

The binding:

- **LuaRef**: the registry as a record of its slots and its free-list head;
  `luaL_ref`, `luaL_unref`, and `FreeListSound`. A `nil` link reads as 0, as
  `lua_tointeger` does.
- **LibMysql**: the client library. An operator per call gives the set of
  possible outcomes: what happens to the session, the status
  (`mysql.h:215`), pending results, the position in a result, and which row the
  length array describes. Errors may happen wherever a socket or memory is
  used. Payloads, error texts and time are left out.
- **LuaMysql**: the binding in a Lua state. One action per method and per
  collector step; `Script`, `Collector`, `lua_close` and `freeallobjects` make up
  `Next`.
- **RowStream**: the abstract specification of what a cursor promises its
  reader; **CursorStream** states that LuaMysql implements it.
- **ResultTable** on **LuaTable**: what the two row calls hand to the script.
  LuaTable has `ltable.c` as operators on a record (array part, nodes,
  `lastfree`); ResultTable fills a table column by column or row by row,
  with the conversions of `pushvalue`, and then lets the script use it.
- **Session**: one connection with its options, its transaction and the
  server's side of the session, so with more than LuaMysql has of all three;
  **SessionBinding** states that it implements LuaMysql.

Lua's collector:

- **LuaGC**: `lgc.c` step by step, on the kinds of objects this library makes.
- **Finalization**: what a library may rely on, as an abstract specification;
  LuaGC implements it (`KeepsPromise`).
- **ObjectList**: what is left of a linked list of objects, for both.

**MCLuaMysql, MCResultTable, MCSession, MCLuaGC** and `MC*.cfg` are the
instances. **LuaMysqlProofs** (which begins with LuaRef and LibMysql),
**SessionProofs** (with SessionBinding) and **TableProofs** (LuaTable and
ResultTable) are the proofs about each, **CollectorProofs** those about LuaGC; **ReaderProofs** (unbuffered reads) and **RowProofs** (the rows
given) build on LuaMysqlProofs, **LifetimeProofs** (references, reachability,
finalizers and `lua_close`) on ReaderProofs, **StreamProofs** (the refinement of RowStream) on RowProofs.

How LuaMysql corresponds to the code:

| model | code |
|---|---|
| `mysql[k]`, `closed[k]` | the fields of a `Connection` |
| `cursor[c]`, `res[c]` | a `Cursor` and the `MYSQL_RES` made for it |
| `registry` | `LUA_REGISTRYINDEX` |
| `ud`, `age`, `held` | the collector's lists and marks, the order userdata were marked in, what the script can reach |
| `frame[1]`, `frame[2]` | the C call in progress, and the one a function of the script makes inside it |
| `ret`, `got` | what the last call returned; all rows a cursor gave (a history) |
| `fault` | undefined behaviour the program ran into: the library called without its function table or with a NULL result, a row read after it was released. Nothing happens afterwards |

Three methods are split where they allocate while they hold C pointers:
`execute` before `create_cursor`; `fetch` before `result_to_table`; `fetch_all`
before each one. In between, `frame` remembers what the C stack does, and
collector steps interleave. With `Reentrant`, functions of the script call the
binding there too, at level 2: its `__gc` functions, which do not nest since
`GCTM` stops the collector.

`connect`, `fetch` and `fetch_all` check their userdata and then convert their
other arguments, which runs functions of the script as well: a config table may
have an `__index` function, and a number given as option is converted to a
string, which allocates. With `Reentrant` these calls may stop there
(`ConvertArguments`) and go on later (`connect_converted`, `option_converted`) with
what they checked before. `execute` converts too, but looks at nothing it checked
except `closed`, and what a script does in its gap (close, or another command)
makes the library refuse the statement, or is as if it had been done before the
call; it is not split.

All other methods are one step. A method that ends in `LMYSQL_THROW`
or a failed argument check, on an open connection too, is the disjunct `Throw` or
`Rejected`; it changes nothing.

The script is the most general one: any method on any userdata it holds at any
time, including `cur:__gc()` and `conn:__gc()`, which it can call because each
metatable is its own `__index`. It may forget a userdata at any moment (`Drop`).

Constants: `Conns`, `Cursors` (each made at most once), `MaxRows`;
`Reentrant`, `AllocThrows`, `MultiResults`, `ReconnectValues` switch
behaviours that a run may do without.

**The row tables.** `tbl` is a table of `ltable.c`, `content` what it should hold.
`result_to_table` and `fetch_all_row` are one turn of their loops; `Collect` is
the collector passing over the table at an allocation and removing keys whose
entries are nil. After `HandOver` the script assigns, traverses with `next` and
takes the length. Strings are hashed with a random seed, so the hashes are any
function, chosen in `Init`; two names may have one hash, or the same main
position. Numbers have as many bits as constants say, so that what does not fit
occurs.

**The session.** `mysql` has the options and the last status the server sent,
`server` the other side: whether it still has the session, autocommit, what is
not committed, and the options it began with. A command is an exchange that may
break before or after the server executes it, or be refused, with the
transaction rolled back or not. When there is no socket, or writing to it fails,
`mysql_reconnect` may replace the session in the middle of the call.
`set_connect_timeout`, `set_read_timeout`, `set_write_timeout` and `set_charset` each
set an option of their own (`SetOption`). `trans` and `asked` record what the script
was told and what it gave last to each of these four functions, which is all it can
judge by; `doubtful` has those it called before a connect failed and not since: without
CLIENT_REMEMBER_OPTIONS the library then forgets the options, and nobody says so.

**The collector.** `g` is `global_State` with the colors; the three lists keep
their order, gray lists are sets, and `sweepgc` points to a list or to the
`next` field of an object, since the program moves objects between lists
during a sweep. Each `singlestep` is an action; the program's actions (allocate,
set a metatable, store, erase, read, forget) come between any two, finalizers
after any but in the pause, as `luaC_step` has it. How far a step goes is not
modelled: any number of single steps is a possible step. `garbage` records what
nothing referred to when the cycle began, whatever its color, and `leftover` what of
it was black then (finding 4).

## Runs

| run | instance | what it asks |
|---|---|---|
| `lifecycle` | 2 connections, 1 cursor, up to 3 rows, reconnection | `TypeOK`; `ConnOutlivesReader`: the connection an owned unbuffered result reads from is alive and is the one the cursor's reference names; `CollectorSparesReader`: no collector step closes it; `NothingLeaks`; `RowsInOrder`, `FetchOwnLengths`, `StoredResultComplete`; `CursorIsStream`, the refinement |
| `cursors` | 1 connection, 2 cursors, up to 2 rows, several results, reconnection on and off | `RegistrySound`, `ResultOwned`; `BusyIffReader`: the handle waits for rows exactly while one result has them unread; `ReaderUndisturbed`: only its own cursor, its finalizer or close ends a read; `NoStaleRow`; `RowsInOrder` with several results |
| `adverse` | 1 connection, 1 cursor, 2 rows, functions of the script inside calls, allocations that throw | the safety properties again |
| `liveness` | 1 connection, 2 cursors, `FairSpec` | `ForgottenCursorReleases`, `ForgottenConnCloses`, `CloseEnds` |
| `result_table` (MCResultTable) | 3 names, 3 columns or 9 rows, 3 assignments | `LookupRight`, `ColumnsKept`, `PresizedEnough`, `TraversalRight`, `LengthRight`; `TypeOK` is the shape of the hash part |
| `session` (MCSession) | 2 statements, any 2 of the 4 functions that set an option, reconnection on and off | `NothingDurableYet`, `AnswersTrue`, `OptionsInForce`; `IsBinding`, the refinement |
| `collector` (MCLuaGC) | 2 userdata | `HeapSound`, `NothingDangles`, `CycleCollects`, `PassedOverOnce`; `KeepsPromise`, the refinement |
| `finding_*` | the least that shows it | the five findings below |

**Three refinements.** `CursorIsStream` (run `lifecycle`): as seen by a script, a
cursor gives the rows of its result from the first on without a gap, and a stored
result ends only after its last. Sessions, the registry, lengths and the
collector do not show through. `IsBinding` (run `session`): every step of Session is one that LuaMysql
and LibMysql allow, so what Session adds are details of the same program and
not another one. `KeepsPromise` (run `collector`): LuaMysql takes for granted
that userdata are finalized only when unreachable, freed only after that, and at
`lua_close` finalized from the last marked to the first. That is Finalization,
and LuaGC shows that `lgc.c` keeps it.

**Bounds.** Two connections are enough to tell a reference to the right one from
one to another; two cursors are the least that can share or contend for
a connection, a slot or a result, and to fill and reuse the free list. One row
has a first fetch, an end and the errors of both; order and lengths need two,
which `cursors` has, and a middle row three, which `lifecycle` has. A statement with several
results is sent in `cursors` only; the refinement, which `lifecycle` checks without them, is proved
with them. Each cursor identity is used once, so every run
ends in a closed state; slots of the registry are reused all the same. The
adverse run has one cursor: two make it longer than a routine check should be. Symmetry is
used for sets of interchangeable values and in safety runs only.

In `result_table` the hashes are 0, 2 and 3: with four nodes three different main
positions, or the same one; with two nodes 0 and 2 collide as well. Three columns make a
four-node hash part with one node to spare; nine rows make the array of
`fetch_all` outgrow its first size several times, from any presize, since
`num_rows` is cut to 2 bits. Three assignments suffice to erase two
keys and insert again into a dead node. `lua_Integer` has 3 bits and the data includes a number
that does not fit; a real's significand has 2. In `session`, `UIntRange` = 4
with the arguments -1 and 1: one that fits, and one that wraps. A script calls at most
`MaxSetters` = 2 of the four setters, any two and as often as it likes, which is enough to
confuse one option with another; the proof is for every `MaxSetters`. Two statements are the least
of which one may be durable and the other not. In `collector`, two userdata can
be in the same list, one being swept and the other moved; `SweepMax` = 1 stops the
sweep after every object.

**Fairness** (`FairSpec`): a C call goes on after an allocation; the collector
finds an unreachable userdata and runs its finalizer eventually, as it does in a
script that keeps allocating and has not stopped it; `lua_close` goes on to free
memory. No fairness is assumed of the script or the server. Since library calls
end in one step, a server that never answers is outside of these properties.

## Findings

1. `fetch_all` asks for the column lengths once (line 208) and converts every
   row with those of the first. `mysql.h:292` says of the array "column
   lengths of current row". (`finding_lengths`)
2. `fetch` takes every NULL row for "no more results" (line 169), also when the
   session broke or was closed in the middle of an unbuffered result.
   (`finding_fetch`)
3. `execute` returns nothing, and raises nothing, when reading the result of a
   successful query fails (line 331); `API.md:90` promises a cursor "when
   succeeded", and the call's other failures are errors. (`finding_execute`)

4. `luaC_step` runs finalizers in every state but the pause, also while the list
   `tobefnz` is swept; `udata2finalize` (`lgc.c:774`) then moves the object at
   which the sweep is to `allgc`, the sweep goes on there, and the rest of
   `tobefnz` stays black. `lgc.h:57`: "The invariant is restored when sweep ends
   and all objects are white again." (`finding_sweep`) A black object is skipped
   by the next mark phase. This binding's userdata refer to nothing but their
   metatable, which the registry holds, so nothing reachable is endangered (`NothingDangles`).
   But garbage that is black when a cycle begins is taken for marked and not found by that
   cycle: `CycleCollects` excepts it (`leftover`). The sweep of the same cycle turns it white,
   and the cycle after finds it: `PassedOverOnce`. So userdata, and what they hold, are finalized
   a cycle late.
5. `API.md:47-53` describes `set_write_timeout` as the timeout to read from the server and
   `set_read_timeout` as the one to write; the code (lines 398, 411) sets what the names say.
   (`finding_timeouts`) The manual should be corrected, not the code.

`execute`, `commit` and `rollback` before the first `connect` reach the library
with no function table, which only `ping` checks (447). The model marks this as a
fault and stops; whether it crashes is the library's business.

## Proofs

For all values of the constants it is proved that

- `TypeCorrect`: `Spec => []TypeOK` (LuaMysqlProofs)
- `RegistrySafe`: `Spec => []RegistrySound` (LuaMysqlProofs)
- `ResultsSafe`: `Spec => []ResultOwned` (LuaMysqlProofs)
- `BusyExact`: `Spec => []BusyIffReader` (ReaderProofs)
- `ReadsUndisturbed`: `Spec => ReaderUndisturbed` (ReaderProofs)
- `OutlivesReader`: `Spec => []ConnOutlivesReader` (LifetimeProofs)
- `ReleasesAll`: `Spec => []NothingLeaks`, `RowsStay`: `Spec => []NoStaleRow`, and
  `SparesReaders`: `Spec => CollectorSparesReader`; the three properties themselves except
  functions of the script that call the binding from inside a call (LifetimeProofs)
- `RowsSafe`: `Spec => []RowsInOrder`; `LengthsSafe`: `Spec => []FetchOwnLengths`, which assumes
  that functions of the script do not call the binding from inside a call (`~Reentrant`);
  if they do it is false; and `StoredRowsSafe`: `Spec => StoredResultComplete`, which assumes the
  same and that allocations do not throw (RowProofs)
- `Implements`: `Spec => CursorIsStream`, under the two assumptions of `StoredRowsSafe` (StreamProofs)
- `SessionTyped`, `TransactionHidden`, `AnswersHold`, `OptionsHold`: the four properties
  of Session, and `SessionIsBinding`: `Spec => IsBinding`, the refinement (SessionProofs)
- `HeapIsSound`: `Spec => []HeapSound`, `DanglesNothing`: `Spec => []NothingDangles`,
  `CollectsGarbage`: `Spec => CycleCollects` and `PromiseKept`: `Spec => KeepsPromise`,
  the refinement of Finalization, for LuaGC (CollectorProofs)
- the six properties of ResultTable, for names with any hashes and any number of
  columns, rows and assignments: `TypeCorrect`: `Spec => []TypeOK`,
  `LookupCorrect`: `Spec => []LookupRight`, `ColumnsCorrect`: `Spec => []ColumnsKept`,
  `PresizingCorrect`: `Spec => []PresizedEnough`, `TraversalCorrect`:
  `Spec => []TraversalRight` and `LengthCorrect`: `Spec => []LengthRight` (TableProofs)

That is every property the passing runs check except liveness and `PassedOverOnce`. The proofs use the
assumptions of the modules, which TLC evaluates on each instance: identities are distinct, switches are
Boolean, and connections and Lua's own registry values are not numbers (the free
list consists of numbers); in Session, that the five commands are not among the
statements, the numbers given for timeouts are not character sets or the mark of an option not set, and an unsigned int has at least one value; in LuaGC, that a sweep goes over at least
one object; in ResultTable, that strings are not numbers and not nil (`KeysAssumption`),
hashes are not negative (they are unsigned), what the script assigns is not nil, a column of an
integer type has an integer or NULL, and there are no more names, columns and rows than
2^MAXHBITS: `setnodevector` raises "table overflow" for more, which is not modelled
(`SizesAssumption`).

**References and results.** Neither property is inductive. `luaL_unref` does damage unless the reference
it is given is in use, which is what `RegistrySound` says of all cursors at
once. `create_cursor` gives a result to a new cursor: it keeps `ResultOwned` only
if the result in its frame is live, unowned and in no other frame. That is
`FramesSound`, and `SendQuery` establishes it since a cursor not yet made refers
to nothing (`Unmade`). The invariant is

    IInv == TypeOK /\ RegistrySound /\ ResultOwned /\ FramesSound /\ Unmade

Its step lemma has a case per action. Most actions touch none of the four and
follow from `QuietStep`; the ends of cursors from `NullifyStep` and
`NullifySafe`; calls that go on from `FrameStep`. The registry itself is dealt
with first: `RefSound` and `UnrefSound` say which slots are in use
after the call and that the free list stays sound, for every registry.
The types of the outcomes of each library call are there too.

**Unbuffered reads.** `ReaderInv == IInv /\ Busy /\ Made`. `Busy` is
`BusyIffReader` with what makes the library refuse every command: a connection
that waits for rows has its session and was not closed. The lemmas `CommandMeek`,
`QueryMeek` and `ConnectMeek` say that such a connection passes through a call
unchanged; `FetchRowEffect` and `FreeResultEffect` that a result either reads on
as before or lets go of its connection, which then waits no more. `Made` says
that readers, and the script, only have connections that were made, so that
`conn_create`, which resets the structure, has no reader. Each step lemma proves the
invariant and the action property together (`ReaderStep`).

**What a result points into.**
`ReferenceInv == IInv /\ SlotsRight /\ Alive /\ CursorMade /\ ClosedState`.
`SlotsRight` relates three things that the code keeps apart: the pointer in
the result, the reference in the cursor, and the value in the registry; before
there is a cursor, the stack of `execute` stands for the slot. `Alive` says that what can be
reached was not freed and, without finalizers of the script, is not being
finalized: `sweep` and `separatetobefnz` take only unreachable userdata, and a
step that adds to what can be reached adds only what is on the stack or new.
`ClosedState` is what `freeallobjects` leaves. Most steps fill no slot, start no
read and enter no call but on what the script holds (`SlotsStay`, `CursorsStay`,
`CallsStay`), and `CallStep` says that is enough. `create_cursor` and the
collector's steps have lemmas of their own.

**Lifetimes.** `LifetimeInv == ReaderInv /\ ReferenceInv /\ (~Reentrant => Lifetime)`.
While the script runs, what is finalized was unreachable, and `ReferenceInv` says
that a reader's connection is not. In `lua_close` reachability counts for
nothing: every userdata is finalized, those found unreachable before first, the
others from the youngest to the oldest. `Younger` is what saves the readers there: a cursor
is marked after the connection it reads from, and that connection is not among
those found unreachable before. So `NextToFinalize` cannot be the connection while
the cursor has its result (`CloseLives`, `FinalizedBy`). `ReleasedFirst` and `Quit` say that what
was finalized has given back its resources; `Closing` that `lua_close` finds no call
in progress. `OneCaller` is about the row in hand: without calls inside calls there
is one frame, its cursor is on the stack, so it is reachable and keeps its result
(`RowOutlasts`). Calls that make nothing are `Calm`, and `CalmStep` says that is enough.

**Rows.** `RowInv == IInv /\ RowsSound`. What was given says too little about a
step, because rows travel: between the rows given and the position in the result
there are those of the calls in progress, in the table of `fetch_all` and in the
`MYSQL_ROW` that waits for its conversion. `Ordered` puts the three in this order,
of two calls on one cursor too; `Gapless` says that there are no others when there
is one call and no memory error; `OwnLens` that the array of lengths is that of the
row `fetch` holds; `Owned` that the cursor of a call that holds a row was not
nullified meanwhile. The lemma `Stay` says that a step that gives and fetches no
row of a cursor keeps all that, and most actions follow from it; `EnterRows`,
`RowToTableRows` and `NextRowRows` treat the others: a first row, a row converted, a
next row asked for. `AllGiven` is the end of a stored result.

**The stream.** For each step of RowStream a lemma (`Opens`, `Gives`, `GivesRest`,
`Ends`, `Closes`, `Unsaid`) says which changes of one cursor's stream make a step of
LuaMysql that one. `StreamInv == RowInv /\ Kinds` is what the refinement needs in addition
to the rows: only a cursor of a stored result is read by `fetch_all`, and a result
that `execute` is about to hand over can be read. The lemmas on the program's steps
show which of the stream's steps each is; `StepStream` puts them together.

**Transactions.** `SessionInv == TypeOK /\ Linked /\ OptionsKept /\ TransSound`.
The danger is a session that is lost with statements in it and replaced where the
rest would be committed one by one. What prevents it is one bit: the library does
not reconnect when the last answer said that a transaction is open.
`TransSound` (`BegunSound`, `StmtsSound`) says that bit is set whenever the script,
in a transaction it can rely on, has something to lose, and that the
server then either has all of its statements pending or is gone. The lemma
`CommandEffect` reduces a command, with its resends, to three outcomes: it was
done by the session that was there, it was done by a new one, or it was not
answered. `AnsweredSound` and `CommandSound` treat each; an error sets `told`,
after which nothing is claimed until the next transaction. `Linked` says that a server
that has the session is one the client is connected to, `OptionsKept` that for each
function that sets an option, what the script gave it last is what the structure holds
under that option, or nothing is if the function is in `doubtful`.

**Session implements LuaMysql.** `BindingInv == SessionInv /\ Fresh /\ Quit` adds that
nothing is connected before it is made or after it is closed: without `Quit` closing twice
would be no step of LuaMysql, where the second `conn:close` changes nothing. The
heart is `CommandAllowed`: whatever a command does with its resends (refused, sent,
broken off, reconnected and sent again, broken off again) is one of the outcomes
LibMysql has for it. A server that drops the session is no step of LuaMysql's structure:
it does as little as setting reconnect to the value it has (`NoNewsBinding`).

**The collector.** What LuaGC claims of a heap is not inductive: `TriColor` speaks of
one phase only, and in `NothingDangles` nothing says why the next sweep spares what
the program holds. `IInv` in CollectorProofs adds what the collector believes
between two of its steps. `Heap`: the lists are apart, what is dead is in `allgc`
and where the sweep has still to go (`Unswept`; it is what makes the detour of
`luaC_checkfinalizer` around the object at `sweepgc` necessary), the pointer of the
sweep is in the list that the phase sweeps, and while it marks, the main thread waits in gray or
grayagain. `Marking` is the tri-color invariant and `Lives` that nothing the
program can come by is dead or free, which is weaker than not white: white objects
die only in `atomic`, where the colors are exchanged. So one lemma is about `atomic`
alone: what the stack, the registry, the weak table and `tobefnz` lead to is marked
when the whites are exchanged. All other functions are shown to spare whatever was
not dead before (`Spares`). `Kept`, which stands for the deletions from linked
lists, is dealt with first: it counts positions (`Ranks`), since the library's own
operator takes another one as its argument and cannot be reasoned about. The
lemma `PropagatesUntilEmpty` justifies `propagateall`, which
visits the four objects that can be gray in one order instead of looping: nothing
gray is left.

**LuaGC implements Finalization.** The mapping reads a userdata's state off the lists it
is in (`Fate`), and the order of `lua_close` off `finobj`. The refinement needs
`Promised` in addition: what is in `finobj` or `tobefnz` has its metatable, so nothing
is marked for finalization twice. No function but `atomic`, `luaC_checkfinalizer`,
`GCTM` and `lua_close` changes these two lists or brings anything back (`Leaves`): the sweeps
there only walk, since nothing dead is in them. Of these, `atomic` is the one that matters.
`AtomicSends`: it moves exactly the white userdata of `finobj` to the end of `tobefnz`, and neither
the stack nor the registry nor a weak entry still holds them. Each step of the collector
is then a step `separate`, `sweep` or a stutter of Finalization (`IsSeparate`, `IsSweep`).

**A cycle collects.** `Unmarked` says that what was garbage when the cycle began and not
left black by the sweep before (`Unmarkable`) is
unreachable while the collector marks, and white unless it waits in `tobefnz`.
The danger is the opposite of the tri-color invariant's: a barrier, or a userdata put into a
table that was visited, might mark garbage. The lemmas `ReallyMarksOnly` to
`PropagatesAllOnly` say that marking marks nothing that neither the stack nor the
registry holds, and the program gets at nothing that it could not come by. In `atomic` the garbage
is then what `AtomicCollects` leaves behind: in `tobefnz` or of the color that is swept.

**Tables.** `TypeOK` of ResultTable says that a search finds every live node, and no more;
no insertion keeps that by itself. What does is `Sound`: free nodes are
below `lastfree` and bare (`FreeRight`); no node follows two, and none itself
(`LinksRight`); the main position of a key is taken by a key that is in its own, and leads
to the key (`HomesRight`); of the nodes with one key only the first is alive (`FirstsRight`), since a
node whose value was erased stays in its chain when its key comes
again elsewhere; a dead key has no value and no key is in both parts (`KeysRight`).
What a node leads to (`Reach`) is defined without recursion, as what is in every set that
the node is in and the links do not leave. `SearchIs` then says what a search finds: the first
of the places asked for. It rests on `WalkComes`: as many turns as there are nodes come to
everything that can be reached, or two of them came to the same node.

The three ways of `luaH_newkey` have a lemma each (`InsertsInPlace`, `InsertsAfter`,
`InsertsMoving`), and two lemmas on links alone (`LinkAfter`, `LinkMove`) carry the last two. `Assigned`
says what they have in common: the key has the value, all other keys have what
they had, and one node more at most is in use. `ResizeKeeps` counts: the new hash
part has as many nodes as keys are moved to it, each takes one at most, and while one is free,
`getfreepos`, which never looks twice, finds it. `RehashKeeps` adds that
`computesizes` leaves room for the new key. So `luaH_set` does what it should, whatever
the hashes (`SetIs`). The collector and overwriting leave keys and links as they are (`SameKeys`).

`TableInv == TypesRight /\ ValuesRight /\ FilledRight /\ RoomRight /\ IterRight`.
`ValuesRight` is `LookupRight` for every key there is with `Sound`.
`FilledRight` relates the content to the columns pushed so far. `RoomRight` counts nodes in
use against columns converted: that is why a row's table is never rehashed, NULL columns, which
take a node too, included. `IterRight` strengthens `TraversalRight`: the keys owed are those that have
their place behind the traversal's. Places do not change when values are erased or keys die
(`PlaceSame`), and a traversal allows no other assignment. `LengthIs` shows that both searches of
`luaH_getn` end, at a border: each turn of the doubling finds another
node (`DoubleEnds`), each turn of the binary search brings its ends closer.

Loops and chains are recursive functions here, and the lemmas `Induct` and `InductTo` have a set in
place of the induction theorems' predicate; a set of numbers that is
not empty has a smallest, since < is well-founded on them.

Only model-checked: liveness (`ForgottenCursorReleases`, `ForgottenConnCloses`,
`CloseEnds`), since fairness is defined by ENABLED, which the prover cannot reason about; and
`PassedOverOnce`, which needs another invariant than the one proved, about where black
userdata are in the lists while a sweep that was misled goes on.
The properties of the findings do not hold.

## Not modelled

- `escape` (a buffer of its own and a pure conversion by the library) and module
  loading (straight-line code that runs once per Lua state, before any object
  exists). `numrows` and `__tostring` change nothing. `set_compress` and
  `set_protocol` set an option in the same way as the four functions in Session.
- A function of the script that runs inside a call is not itself interrupted by
  another one: two levels of calls, not more.
- The very first `luaL_unref` of a Lua state adds a key to the registry and
  could throw; it does not here.
- In LuaMysql the mark phase is one step per userdata that is unreachable at that
  step, and the collector never stops half way; LuaGC has the steps. LuaGC leaves
  out weak keys, upvalues, closures, prototypes, strings and coroutines (the
  binding makes none and never yields), the debt that says when to step, and
  collections that a finalizer asks for inside `lua_close`. The argument of a
  finalizer stays on the stack until it is popped. A full or emergency collection is
  interrupted by nothing but its finalizers. Under these, "garbage is collected
  eventually" is stated for one cycle (`CycleCollects`), or two (`PassedOverOnce`).
- In LuaTable, keys that are reals, sizes near the limits of `int` (`MAXASIZE`),
  and the branch of `unbound_search` for lengths beyond them.
- Most of the repository by lines is third-party: the rest of the vendored Lua
  interpreter (parser, virtual machine, standard libraries) and the headers of
  the client library, whose code is not there. The models cover
  `lua_mysql.c` and the parts of Lua its correctness rests on; they leave the
  rest alone, which is why the mapped share of all lines is small.

## Plan

1. Done: LuaRef, LibMysql, LuaMysql, their runs and proofs.
2. Done: RowStream, ResultTable, Session and its proofs, LuaGC and Finalization.
3. A run on what a script that calls the binding from inside a call can spoil,
   with what is promised all the same.
4. `ModuleLoad`: loading twice, and loading that fails half way.
5. Done: proofs of `CollectorSparesReader`, `NothingLeaks`, `NoStaleRow`, of the
   refinement `IsBinding`, and of the four properties of LuaGC.
6. Done: LuaTable with recursive functions in place of RECURSIVE operators, and
   the proofs of ResultTable's invariants.
