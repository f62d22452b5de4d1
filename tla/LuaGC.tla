------------------------------- MODULE LuaGC -------------------------------
(***************************************************************************)
(* lgc.c: the incremental collector of Lua 5.3, on the objects that a C    *)
(* library with userdata has: the main thread and its stack, the registry, *)
(* the metatable with the finalizer, which the registry holds, a table of  *)
(* the script with weak values, as caches are, and the userdata.           *)
(*                                                                         *)
(* White objects were not reached yet in this cycle, gray ones are to be   *)
(* traversed, black ones were. There are two whites: when the collector    *)
(* sweeps, an object that has the other one is dead.                       *)
(***************************************************************************)
EXTENDS Integers, FiniteSets, ObjectList

CONSTANTS
  Udata, MainThread, Registry, Metatable, WeakTable,
  SweepMax        \* GCSWEEPMAX, how many objects one step sweeps

ASSUME SweepsSome == SweepMax \in Nat \ {0}

VARIABLES
  g,        \* global_State, and the colors of all objects
  ref,      \* what each table holds
  meta,     \* the userdata that have the metatable
  stack,    \* what the main thread's stack holds
  stage,    \* "running", "closing" (inside lua_close), "closed"
  garbage,  \* the userdata nothing referred to when the cycle began (a history)
  leftover  \* those of them that were black then

vars == <<g, ref, meta, stack, stage, garbage, leftover>>

Tables == {Registry, Metatable, WeakTable}
Objects == Udata \cup Tables \cup {MainThread}
Lists == {"allgc", "finobj", "tobefnz"}

ASSUME ObjectsDiffer ==
  /\ Cardinality(Tables \cup {MainThread}) = 4
  /\ Udata \cap (Tables \cup {MainThread}) = {}
  /\ Objects \cap (Lists \cup {"NULL"}) = {}

White == {"white0", "white1"}
other(w) == IF w = "white0" THEN "white1" ELSE "white0"
Free == {o \in Objects : g.color[o] = "free"}

(* gray, grayagain: the objects linked there. allgc, finobj, tobefnz: the  *)
(* lists every object is in, but for the main thread. sweepgc: a pointer   *)
(* to a list, or to the next field of an object; or NULL. full: what a     *)
(* full collection under way has still to do.                              *)
Init ==
  /\ g = [gcstate |-> "pause", currentwhite |-> "white0",
          color |-> [o \in Objects |-> IF o \in Udata THEN "free" ELSE "white0"],
          gray |-> {}, grayagain |-> {},
          allgc |-> <<WeakTable, Metatable, Registry>>, finobj |-> <<>>, tobefnz |-> <<>>,
          sweepgc |-> "NULL", full |-> "no", emergency |-> FALSE]
  /\ ref = [t \in Tables |-> IF t = Registry THEN {Metatable, WeakTable} ELSE {}]
  /\ meta = {} /\ stack = {}
  /\ stage = "running"
  /\ garbage = {} /\ leftover = {}

issweepphase(h) == h.gcstate \in {"swpallgc", "swpfinobj", "swptobefnz", "swpend"}
keepinvariant(h) == h.gcstate \in {"propagate", "atomic"}
iswhite(h, o) == h.color[o] \in White
isblack(h, o) == h.color[o] = "black"
makewhite(h, o) == [h EXCEPT !.color[o] = h.currentwhite]

-----------------------------------------------------------------------------
(* Marking *)

(* Userdata turn black, and their metatable is marked; others wait in gray.*)
reallymarkobject(h, S) ==
  LET white == {o \in S : iswhite(h, o)}
      metas == {t \in {Metatable} : iswhite(h, t) /\ white \cap meta # {}}
      grays == (white \ Udata) \cup metas
  IN  [h EXCEPT !.gray = @ \cup grays,
                !.color = [o \in Objects |-> IF o \in grays THEN "gray"
                                             ELSE IF o \in white THEN "black" ELSE @[o]]]

restartcollection(h) ==
  reallymarkobject([h EXCEPT !.gray = {}, !.grayagain = {}],
                   {MainThread, Registry} \cup ToSet(h.tobefnz))

(* The thread, and the weak table, stay gray; both are visited again in    *)
(* the atomic phase. (There the weak table goes to the list weak.)         *)
propagatemark(h, o) ==
  LET next == [h EXCEPT !.gray = @ \ {o}]
      again == IF h.gcstate = "propagate" \/ o = MainThread THEN {o} ELSE {}
  IN  IF o = MainThread THEN reallymarkobject([next EXCEPT !.grayagain = @ \cup again], stack)
      ELSE IF o = WeakTable THEN [next EXCEPT !.grayagain = @ \cup again]
      ELSE reallymarkobject([next EXCEPT !.color[o] = "black"], ref[o])

(* The order makes no difference, and in this one nothing is left: what is *)
(* traversed last refers to nothing that waits in gray.                    *)
visited(h, o) == IF o \in h.gray THEN propagatemark(h, o) ELSE h
propagateall(h) ==
  visited(visited(visited(visited(h, MainThread), Registry), Metatable), WeakTable)

Whites(h) == {o \in Objects : iswhite(h, o)}

(* Mutant of separatetobefnz: they go to its front.                        *)
Mutant_separatetobefnz(h, all) ==
  LET go == IF all THEN Objects ELSE Whites(h)
  IN  [h EXCEPT !.tobefnz = Kept(h.finobj, go) \o @, !.finobj = Kept(@, Objects \ go)]

(* All userdata, or those not marked, go to the end of tobefnz.            *)
separatetobefnz(h, all) ==
  LET go == IF all THEN Objects ELSE Whites(h)
  IN  [h EXCEPT !.tobefnz = @ \o Kept(h.finobj, go), !.finobj = Kept(@, Objects \ go)]

(* The end of the mark phase. cleared: the entries that the weak table     *)
(* loses, before the finalizers can bring their values back.               *)
Marked(h) ==
  LET marked == propagateall(h)
      roots == reallymarkobject([marked EXCEPT !.gcstate = "insideatomic"],
                                {MainThread, Registry})
  IN  propagateall([propagateall(roots) EXCEPT !.gray = marked.grayagain])

cleared(h) == {v \in ref[WeakTable] : iswhite(Marked(h), v)}

(* Mutant of atomic: white is not flipped.                                 *)
Mutant_atomic(h) ==
  LET sep == separatetobefnz(Marked(h), FALSE)
  IN  propagateall(reallymarkobject(sep, ToSet(sep.tobefnz)))

atomic(h) ==
  LET sep == separatetobefnz(Marked(h), FALSE)
      all == propagateall(reallymarkobject(sep, ToSet(sep.tobefnz)))
  IN  [all EXCEPT !.currentwhite = other(@)]

-----------------------------------------------------------------------------
(* Sweeping *)

(* The objects from a pointer on, in whichever list that points into now.  *)
Following(h, p) ==
  IF p \in Lists THEN h[p]
  ELSE LET l == CHOOSE l \in Lists : p \in ToSet(h[l])
           i == CHOOSE i \in DOMAIN h[l] : h[l][i] = p
       IN  SubSeq(h[l], i + 1, Len(h[l]))

Unlinked(h, O) == [h EXCEPT !.allgc = Kept(@, Objects \ O), !.finobj = Kept(@, Objects \ O),
                            !.tobefnz = Kept(@, Objects \ O)]

Dead(h) == {o \in Objects : h.color[o] = other(h.currentwhite)}

(* It goes over the next objects, count at most. Dead ones are freed, the  *)
(* others turn white, and the pointer moves on to the last of these.       *)
sweeplist(h, count) ==
  LET next == Following(h, h.sweepgc)
      part == SubSeq(next, 1, IF count < Len(next) THEN count ELSE Len(next))
      dead == ToSet(part) \cap Dead(h)
      live == Kept(part, Objects \ dead)
  IN  [Unlinked(h, dead) EXCEPT
         !.color = [o \in Objects |-> IF o \in dead THEN "free"
                                      ELSE IF o \in ToSet(part) THEN h.currentwhite ELSE @[o]],
         !.sweepgc = IF Len(next) <= count THEN "NULL"
                     ELSE IF live = <<>> THEN @ ELSE Last(live)]

(* On to the first live object, or to the end of the list.                 *)
sweeptolive(h) ==
  LET next == Following(h, h.sweepgc)
      live == Kept(next, Objects \ Dead(h))
  IN  sweeplist(h, IF live = <<>> THEN Len(next)
                   ELSE CHOOSE i \in DOMAIN next : next[i] = Head(live))

entersweep(h) == sweeptolive([h EXCEPT !.gcstate = "swpallgc", !.sweepgc = "allgc"])

(* Mutant of sweepstep: whatever is left to sweep.                         *)
Mutant_sweepstep(h, nextstate, nextlist) ==
  LET s == IF h.sweepgc = "NULL" THEN h ELSE sweeplist(h, SweepMax)
  IN  [s EXCEPT !.gcstate = nextstate, !.sweepgc = nextlist]

(* When nothing is left to sweep, the next state and its list.             *)
sweepstep(h, nextstate, nextlist) ==
  LET s == IF h.sweepgc = "NULL" THEN h ELSE sweeplist(h, SweepMax)
  IN  IF s.sweepgc # "NULL" THEN s
      ELSE [s EXCEPT !.gcstate = nextstate, !.sweepgc = nextlist]

-----------------------------------------------------------------------------
(* Barriers, and what the program does *)

(* A black object o is made to refer to v: forward, v is marked; back, the *)
(* table o is to be visited again.                                         *)
luaC_barrier(h, o, v) ==
  IF ~(isblack(h, o) /\ iswhite(h, v)) THEN h
  ELSE IF keepinvariant(h) THEN reallymarkobject(h, {v}) ELSE makewhite(h, o)

(* Mutant of luaC_barrierback: none.                                       *)
Mutant_luaC_barrierback(h, o, v) == h
luaC_barrierback(h, o, v) ==
  IF ~(isblack(h, o) /\ iswhite(h, v)) THEN h
  ELSE [h EXCEPT !.color[o] = "gray", !.grayagain = @ \cup {o}]

(* Mutant of luaC_checkfinalizer: the sweep stays where it is.             *)
Mutant_luaC_checkfinalizer(h, o) ==
  IF o \in ToSet(h.finobj) \cup ToSet(h.tobefnz) THEN h
  ELSE LET w == IF issweepphase(h) THEN makewhite(h, o) ELSE h
       IN  [Unlinked(w, {o}) EXCEPT !.finobj = <<o>> \o @]

(* A userdata that gets a finalizer moves to finobj. If it is the one the  *)
(* sweep is to go on after, the sweep goes ahead to the next live object.  *)
luaC_checkfinalizer(h, o) ==
  IF o \in ToSet(h.finobj) \cup ToSet(h.tobefnz) THEN h
  ELSE LET w == IF issweepphase(h) THEN makewhite(h, o) ELSE h
           s == IF issweepphase(h) /\ h.sweepgc = o THEN sweeptolive(w) ELSE w
       IN  [Unlinked(s, {o}) EXCEPT !.finobj = <<o>> \o @]

(* Lua code runs, or C code: between the steps of the collector, not       *)
(* inside a full collection except in its finalizers, and in lua_close     *)
(* only in finalizers.                                                     *)
Runs ==
  /\ stage \in {"running", "closing"}
  /\ g.full # "no" => g.gcstate = "callfin" /\ ~g.emergency

luaC_newobj ==
  /\ Runs
  /\ \E o \in Udata :
       /\ g.color[o] = "free"
       /\ g' = [makewhite(g, o) EXCEPT !.allgc = <<o>> \o @]
       /\ stack' = stack \cup {o}
  /\ UNCHANGED <<ref, meta, stage, garbage, leftover>>

lua_setmetatable ==
  /\ Runs
  /\ \E o \in stack :
       LET h == luaC_checkfinalizer(luaC_barrier(g, o, Metatable), o)
       IN  /\ g' = h
           /\ meta' = {u \in meta \cup {o} : h.color[u] # "free"}
  /\ UNCHANGED <<ref, stack, stage, garbage, leftover>>

(* luaL_ref, or a field of the weak table; luaL_unref, or nil.             *)
lua_rawset ==
  /\ Runs
  /\ \E t \in {Registry, WeakTable}, v \in stack :
       /\ ref' = [ref EXCEPT ![t] = @ \cup {v}]
       /\ g' = luaC_barrierback(g, t, v)
  /\ UNCHANGED <<meta, stack, stage, garbage, leftover>>

erase ==
  /\ Runs
  /\ \E t \in {Registry, WeakTable} :
       \E v \in ref[t] \cap Udata : ref' = [ref EXCEPT ![t] = @ \ {v}]
  /\ UNCHANGED <<g, meta, stack, stage, garbage, leftover>>

lua_rawget ==
  /\ Runs
  /\ \E t \in {Registry, WeakTable} :
       \E v \in (ref[t] \cap Udata) \ stack : stack' = stack \cup {v}
  /\ UNCHANGED <<g, ref, meta, stage, garbage, leftover>>

lua_pop ==
  /\ Runs
  /\ \E v \in stack : stack' = stack \ {v}
  /\ UNCHANGED <<g, ref, meta, stage, garbage, leftover>>

(* What the program can come by.                                           *)
Reachable == Udata \cap (stack \cup ref[Registry] \cup ref[WeakTable])

-----------------------------------------------------------------------------
(* The collector's steps *)

(* A finalizer starts, with the userdata as its argument; what it does is  *)
(* up to it.                                                               *)
udata2finalize(h) ==
  LET o == Head(h.tobefnz)
      back == [h EXCEPT !.tobefnz = Tail(@), !.allgc = <<o>> \o @]
  IN  IF issweepphase(h) THEN makewhite(back, o) ELSE back

(* In every state but pause luaC_step runs a few finalizers after its      *)
(* steps.                                                                  *)
GCTM ==
  /\ g.tobefnz # <<>>
  /\ \/ stage = "closing"
     \/ stage = "running" /\ g.full = "no" /\ g.gcstate # "pause"
     \/ stage = "running" /\ g.gcstate = "callfin" /\ ~g.emergency
  /\ g' = udata2finalize(g)
  /\ stack' = stack \cup {Head(g.tobefnz)}
  /\ garbage' = garbage \ {Head(g.tobefnz)}
  /\ leftover' = leftover \ {Head(g.tobefnz)}
  /\ UNCHANGED <<ref, meta, stage>>

Steps(h) ==
  CASE h.gcstate = "pause" ->
         {[restartcollection(h) EXCEPT !.gcstate = "propagate"]}
    [] h.gcstate = "propagate" ->
         {LET p == propagatemark(h, o)
          IN  IF p.gray = {} THEN [p EXCEPT !.gcstate = "atomic"] ELSE p : o \in h.gray}
    [] h.gcstate = "atomic" -> {entersweep(atomic(h))}
    [] h.gcstate = "swpallgc" -> {sweepstep(h, "swpfinobj", "finobj")}
    [] h.gcstate = "swpfinobj" -> {sweepstep(h, "swptobefnz", "tobefnz")}
    [] h.gcstate = "swptobefnz" -> {sweepstep(h, "swpend", "NULL")}
    [] h.gcstate = "swpend" -> {[makewhite(h, MainThread) EXCEPT !.gcstate = "callfin"]}
    [] h.gcstate = "callfin" ->
         IF h.tobefnz = <<>> \/ h.emergency THEN {[h EXCEPT !.gcstate = "pause"]} ELSE {}

(* A full collection ends the cycle it finds and then makes another one.   *)
Followed(h) ==
  IF h.gcstate # "pause" \/ g.full = "no" THEN h
  ELSE IF g.full = "finish" THEN [h EXCEPT !.full = "collect"]
  ELSE [h EXCEPT !.full = "no", !.emergency = FALSE]

singlestep ==
  /\ stage = "running"
  /\ \E h \in Steps(g) :
       /\ g' = Followed(h)
       /\ meta' = {o \in meta : h.color[o] # "free"}
  /\ ref' = IF g.gcstate = "atomic" THEN [ref EXCEPT ![WeakTable] = @ \ cleared(g)] ELSE ref
  /\ IF g.gcstate = "pause"
     THEN /\ garbage' = Udata \ (Reachable \cup Free)
          /\ leftover' = {o \in garbage' : isblack(g, o)}
     ELSE UNCHANGED <<garbage, leftover>>
  /\ UNCHANGED <<stack, stage>>

(* In the mark phase it gives up the cycle: everything is swept, and as    *)
(* white has not changed nothing dies. An emergency collection, when       *)
(* memory is short, runs no finalizers.                                    *)
luaC_fullgc ==
  /\ stage = "running" /\ g.full = "no"
  /\ \E e \in BOOLEAN :
       g' = [IF keepinvariant(g) THEN entersweep(g) ELSE g
             EXCEPT !.full = IF g.gcstate = "pause" THEN "collect" ELSE "finish",
                    !.emergency = e]
  /\ garbage' = {}
  /\ UNCHANGED <<ref, meta, stack, stage, leftover>>

(* luaC_freeallobjects, when lua_close calls it and when it has called all *)
(* finalizers.                                                             *)
lua_close ==
  /\ stage = "running" /\ g.full = "no"
  /\ stage' = "closing"
  /\ g' = separatetobefnz(g, TRUE)
  /\ stack' = {} /\ garbage' = {} /\ leftover' = {}
  /\ UNCHANGED <<ref, meta>>

freeallobjects ==
  /\ stage = "closing" /\ g.tobefnz = <<>>
  /\ stage' = "closed"
  /\ g' = [g EXCEPT !.color = [o \in Objects |-> "free"], !.allgc = <<>>, !.finobj = <<>>]
  /\ ref' = [t \in Tables |-> {}] /\ meta' = {} /\ stack' = {}
  /\ UNCHANGED <<garbage, leftover>>

Closed == stage = "closed" /\ UNCHANGED vars

Program == luaC_newobj \/ lua_setmetatable \/ lua_rawset \/ erase \/ lua_rawget \/ lua_pop

Next ==
  \/ Program \/ GCTM \/ singlestep \/ luaC_fullgc
  \/ lua_close \/ freeallobjects \/ Closed

Spec == Init /\ [][Next]_vars

-----------------------------------------------------------------------------
(* Properties *)

TypeOK ==
  /\ g.color \in [Objects -> White \cup {"gray", "black", "free"}]
  /\ g.sweepgc \in Objects \cup Lists \cup {"NULL"}
  /\ stack \subseteq Udata /\ meta \subseteq Udata
  /\ garbage \subseteq Udata /\ leftover \subseteq Udata

(* Every object is in one list, once.                                      *)
ListsSound ==
  LET all == g.allgc \o g.finobj \o g.tobefnz
  IN  IsInjective(all) /\ ToSet(all) = Objects \ (Free \cup {MainThread})

(* While the collector marks, no table it has visited refers to an object  *)
(* it has not marked, and what is gray is linked where it will be visited. *)
TriColor ==
  stage = "running" /\ keepinvariant(g) =>
    /\ \A t \in Tables : isblack(g, t) => \A v \in ref[t] : ~iswhite(g, v)
    /\ \A o \in Objects : g.color[o] = "gray" <=> o \in g.gray \cup g.grayagain
    /\ g.gray \cap g.grayagain = {}

(* The collector's own invariants survive what the program does between    *)
(* its steps: a userdata that moves to another list while that it is in is *)
(* being swept, one that gets a reference in a table visited before.       *)
HeapSound == TypeOK /\ ListsSound /\ TriColor

(* Nothing that the program can still come by was freed: neither from the  *)
(* stack, the registry or the weak table, nor as the argument of a         *)
(* finalizer. The program may have moved the only reference from a table   *)
(* not yet visited to one that was.                                        *)
NothingDangles ==
  stage # "closed" =>
    (stack \cup (UNION {ref[t] : t \in Tables}) \cup meta \cup ToSet(g.tobefnz)) \cap Free = {}

(* What nothing referred to when the cycle began is found by it: at the    *)
(* end of the mark phase it is dead or waits for its finalizer, although   *)
(* the program ran, and userdata moved between lists, in between. Except   *)
(* what was black already: the sweep before was misled by a finalizer run  *)
(* in it (see AllWhite), and the mark phase takes that for marked.         *)
CycleCollects ==
  [][g.gcstate = "atomic" /\ g'.gcstate = "swpallgc" /\ garbage' # {} =>
       \A o \in garbage \ leftover :
         \/ o \in ToSet(g'.tobefnz)
         \/ g'.color[o] \in {"free", other(g'.currentwhite)}]_vars

(* No userdata is passed over in this way twice in a row: the sweep of the *)
(* cycle that took it for marked turns it white, even if a full collection *)
(* gave that cycle up, so that the next cycle finds it. Unless it waits    *)
(* for its finalizer.                                                      *)
PassedOverOnce ==
  [][g.gcstate = "pause" /\ g'.gcstate = "propagate" =>
       leftover \cap leftover' \subseteq ToSet(g.tobefnz)]_vars

(* lgc.h:57 says of the tri-color invariant: "The invariant is restored    *)
(* when sweep ends and all objects are white again."                       *)
AllWhite ==
  stage = "running" /\ g.gcstate = "pause" =>
    \A o \in Objects : g.color[o] \in {g.currentwhite, "free"}

(* How far a userdata is on its way from its metatable to its finalizer.   *)
Fate(o) ==
  IF g.color[o] = "free" THEN "none"
  ELSE IF o \in ToSet(g.tobefnz) THEN "pending"
  ELSE IF o \in ToSet(g.finobj) THEN "live"
  ELSE IF o \in meta THEN "finalized" ELSE "new"

Promise == INSTANCE Finalization WITH
  state <- [o \in Udata |-> Fate(o)],
  marked <- g.finobj,
  pending <- g.tobefnz,
  reachable <- Reachable

(* This is what LuaMysql takes for granted: userdata are finalized only    *)
(* when the program cannot reach them, freed only after that, and in       *)
(* lua_close finalized from the last one marked to the first.              *)
KeepsPromise == Promise!Spec

=============================================================================
