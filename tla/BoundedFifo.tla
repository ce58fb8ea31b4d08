---------------------------- MODULE BoundedFifo ----------------------------
(***************************************************************************)
(* What a client of queue.h may rely on: a first-in first-out store of at  *)
(* most Size values.  A put on a full queue is refused and changes         *)
(* nothing; a get on an empty queue is refused, changes nothing and says   *)
(* nothing about the value field it returns.                               *)
(***************************************************************************)
EXTENDS Naturals, Sequences

CONSTANTS
  Value,   \* the values stored (uint8_t)
  Size     \* the capacity

VARIABLES
  items,   \* the stored values, oldest first
  reply    \* what the last call returned

vars == <<items, reply>>

Reply == [op : {"put"}, ok : BOOLEAN]
           \cup [op : {"get"}, ok : BOOLEAN, value : Value]
           \cup [op : {"get_size"}, value : Value]
           \cup [op : {"none"}]

TypeOK == items \in Seq(Value) /\ Len(items) <= Size /\ reply \in Reply

Init == items = << >> /\ reply = [op |-> "none"]

Put(v) ==
  /\ items' = IF Len(items) < Size THEN Append(items, v) ELSE items
  /\ reply' = [op |-> "put", ok |-> Len(items) < Size]

Get ==
  \/ /\ items # << >>
     /\ items' = Tail(items)
     /\ reply' = [op |-> "get", ok |-> TRUE, value |-> Head(items)]
  \/ /\ items = << >>
     /\ UNCHANGED items
     /\ \E v \in Value : reply' = [op |-> "get", ok |-> FALSE, value |-> v]

\* The queries of queue.h change nothing; which number a size query reports
\* is not promised here (see CircularQueue, queue_get_size).
GetSize ==
  /\ UNCHANGED items
  /\ \E v \in Value : reply' = [op |-> "get_size", value |-> v]

Next == (\E v \in Value : Put(v)) \/ Get \/ GetSize

Spec == Init /\ [][Next]_vars
=============================================================================
