---------------------------- MODULE Finalization ----------------------------
(***************************************************************************)
(* What a C library may rely on from the Lua collector for its userdata:   *)
(* one that the program can reach is neither finalized nor freed; one      *)
(* that it cannot is finalized before it is freed; lua_close finalizes all *)
(* that are left, those found unreachable before first, then the others    *)
(* from the last one that got its metatable to the first.                  *)
(***************************************************************************)
EXTENDS ObjectList

CONSTANT Udata

VARIABLES
  state,      \* of each userdata; "new" until it has its metatable
  marked,     \* the live ones, the last that got it first
  pending,    \* those waiting for their finalizer, in its order
  reachable,  \* those the program can reach
  stage       \* "running", "closing" (inside lua_close), "closed"

State == {"none", "new", "live", "pending", "finalized"}

Init ==
  /\ state = [o \in Udata |-> "none"]
  /\ marked = <<>> /\ pending = <<>>
  /\ reachable = {}
  /\ stage = "running"

Create(o) ==
  /\ state[o] = "none"
  /\ state' = [state EXCEPT ![o] = "new"]
  /\ reachable' = reachable \cup {o}
  /\ UNCHANGED <<marked, pending, stage>>

(* Those that cannot be reached and have no finalizer to run may be freed  *)
(* in the step.                                                            *)
Becomes(new) ==
  \E F \in SUBSET {o \in Udata : state[o] \in {"new", "finalized"} /\ o \notin reachable'} :
    state' = [o \in Udata |-> IF o \in F THEN "none" ELSE new[o]]

(* lua_setmetatable, also of a userdata that was finalized.                *)
Mark(o) ==
  /\ o \in reachable /\ state[o] \in {"new", "finalized"}
  /\ Becomes([state EXCEPT ![o] = "live"])
  /\ marked' = <<o>> \o marked
  /\ UNCHANGED <<pending, reachable, stage>>

(* The program forgets some.                                               *)
Forget ==
  /\ reachable' \subseteq reachable
  /\ UNCHANGED <<state, marked, pending, stage>>

(* At the end of a mark phase: some that cannot be reached any more.       *)
Separate ==
  /\ stage = "running"
  /\ reachable' \subseteq reachable
  /\ \E S \in SUBSET (ToSet(marked) \ reachable') :
       /\ marked' = Kept(marked, Udata \ S)
       /\ pending' = pending \o Kept(marked, S)
       /\ Becomes([o \in Udata |-> IF o \in S THEN "pending" ELSE state[o]])
  /\ UNCHANGED stage

(* The finalizer has the userdata as its argument.                         *)
Finalize ==
  /\ pending # <<>>
  /\ state' = [state EXCEPT ![Head(pending)] = "finalized"]
  /\ pending' = Tail(pending)
  /\ reachable' = reachable \cup {Head(pending)}
  /\ UNCHANGED <<marked, stage>>

(* lua_close.                                                              *)
Close ==
  /\ stage = "running"
  /\ stage' = "closing"
  /\ state' = [o \in Udata |-> IF state[o] = "live" THEN "pending" ELSE state[o]]
  /\ marked' = <<>>
  /\ pending' = pending \o marked
  /\ reachable' \subseteq reachable

Closed ==
  /\ stage = "closing" /\ pending = <<>>
  /\ stage' = "closed"
  /\ state' = [o \in Udata |-> "none"]
  /\ marked' = <<>> /\ reachable' = {}
  /\ UNCHANGED pending

Next ==
  \/ \E o \in Udata : Create(o) \/ Mark(o)
  \/ Forget \/ Separate \/ Finalize \/ Close \/ Closed

Spec == Init /\ [][Next]_<<state, marked, pending, reachable, stage>>

=============================================================================
