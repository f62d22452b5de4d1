------------------------------ MODULE RowStream ------------------------------
(***************************************************************************)
(* What a script may rely on when it reads a cursor, whatever the          *)
(* connection, the library and the collector do meanwhile: it is given the *)
(* rows one by one, from the first on and without a gap, or all that are   *)
(* left at once; after that, or once the cursor is closed, never another.  *)
(* A reliable stream (a stored result) is not said to end before its last  *)
(* row was given; any other one may be cut short.                          *)
(***************************************************************************)
EXTENDS Naturals, Sequences

CONSTANTS Streams, MaxRows, Nobody

VARIABLES
  stream,    \* stream[s]: its state, how many rows it has, and of what kind
  given,     \* given[s]: the rows the script was given, in order
  said       \* what the script has just been told, and of which stream

Stream == [state: {"none", "open", "over"}, rows: 0..MaxRows, reliable: BOOLEAN]
None == [state |-> "none", rows |-> 0, reliable |-> FALSE]
Over == [state |-> "over", rows |-> 0, reliable |-> FALSE]

Nothing == [val |-> "none", on |-> Nobody]
Say(val, s) == said' = [val |-> val, on |-> s]

(* The rows from the first to the n-th.                                    *)
Rows(n) == [i \in 1..n |-> i]

Init ==
  /\ stream = [s \in Streams |-> None]
  /\ given = [s \in Streams |-> <<>>]
  /\ said = Nothing

Open(s) ==
  /\ stream[s] = None
  /\ \E n \in 0..MaxRows, r \in BOOLEAN :
       stream' = [stream EXCEPT ![s] = [state |-> "open", rows |-> n, reliable |-> r]]
  /\ Say("cursor", s)
  /\ UNCHANGED given

GiveNext(s) ==
  /\ stream[s].state = "open" /\ Len(given[s]) < stream[s].rows
  /\ given' = [given EXCEPT ![s] = Rows(Len(@) + 1)]
  /\ Say("row", s)
  /\ UNCHANGED stream

GiveRest(s) ==
  /\ stream[s].state = "open"
  /\ given' = [given EXCEPT ![s] = Rows(stream[s].rows)]
  /\ stream' = [stream EXCEPT ![s] = Over]
  /\ Say("rows", s)

(* There are no more rows, or, of a stream that is not reliable, no more   *)
(* can be had. A stream that gave all its rows may stay open.              *)
End(s) ==
  /\ stream[s].state \in {"open", "over"}
  /\ stream[s].reliable => Len(given[s]) = stream[s].rows
  /\ \/ stream' = [stream EXCEPT ![s] = Over]
     \/ Len(given[s]) = stream[s].rows /\ UNCHANGED stream
  /\ Say("end", s)
  /\ UNCHANGED given

(* The cursor is closed, or forgotten.                                     *)
Close(s) ==
  /\ stream[s].state = "open"
  /\ stream' = [stream EXCEPT ![s] = Over]
  /\ said' = Nothing
  /\ UNCHANGED given

Silence ==
  /\ said' = Nothing
  /\ UNCHANGED <<stream, given>>

Next ==
  \/ \E s \in Streams : Open(s) \/ GiveNext(s) \/ GiveRest(s) \/ End(s) \/ Close(s)
  \/ Silence

vars == <<stream, given, said>>

Spec == Init /\ [][Next]_vars

=============================================================================
