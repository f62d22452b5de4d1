------------------------------- MODULE LuaRef -------------------------------
(***************************************************************************)
(* The reference system of the Lua auxiliary library (lauxlib.c), which    *)
(* the binding uses to keep a connection alive for as long as a cursor on  *)
(* it is: luaL_ref stores a value in the registry under a fresh integer,   *)
(* luaL_unref gives the integer back.                                      *)
(*                                                                         *)
(* The registry's array part is the record t:                              *)
(*   t.slot  the values t[1..n]; n is lua_rawlen(t)                        *)
(*   t.free  t[0], the head of the free list (nil reads as 0).             *)
(* A free slot holds the index of the next free slot, 0 at the end; a slot *)
(* in use holds the value stored there, which is never a number here.      *)
(***************************************************************************)
EXTENDS Integers, Sequences

LUA_NOREF == -2

(* lstate.c fills slots 1 and 2 with the main thread and the globals.      *)
init_registry(mainthread, globals) ==
  [free |-> 0, slot |-> <<mainthread, globals>>]

(* The integer luaL_ref is about to return.                                *)
NextRef(t) == IF t.free # 0 THEN t.free ELSE Len(t.slot) + 1

luaL_ref(t, v) ==
  IF t.free # 0
  THEN [free |-> t.slot[t.free], slot |-> [t.slot EXCEPT ![t.free] = v]]
  ELSE [free |-> 0, slot |-> Append(t.slot, v)]

(* A plausible slip in luaL_unref: the freed slot is linked to itself.     *)
Mutant_luaL_unref(t, ref) ==
  IF ref >= 0
  THEN [free |-> ref, slot |-> [t.slot EXCEPT ![ref] = ref]]
  ELSE t

luaL_unref(t, ref) ==
  IF ref >= 0
  THEN [free |-> ref, slot |-> [t.slot EXCEPT ![ref] = t.free]]
  ELSE t

-----------------------------------------------------------------------------

IsFree(t, s) == t.slot[s] \in Nat
FreeSlots(t) == {s \in 1..Len(t.slot) : IsFree(t, s)}
UsedSlots(t) == (1..Len(t.slot)) \ FreeSlots(t)

(***************************************************************************)
(* The free list is sound: its head and every link lead to a free slot or  *)
(* to the end, and no two of them lead to the same place, so a slot that   *)
(* is handed out is on no list any more.                                   *)
(***************************************************************************)
FreeListSound(t) ==
  /\ t.free \in FreeSlots(t) \cup {0}
  /\ \A s \in FreeSlots(t) : t.slot[s] \in FreeSlots(t) \cup {0}
  /\ \A s \in FreeSlots(t) : t.slot[s] # t.free
  /\ \A r, s \in FreeSlots(t) : t.slot[r] = t.slot[s] => r = s

=============================================================================
