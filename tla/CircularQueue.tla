--------------------------- MODULE CircularQueue ---------------------------
(***************************************************************************)
(* src/queue.c: the circular buffer the interrupt controller keeps its     *)
(* requests in.  The struct's fields are the variables; reply is what the  *)
(* last call returned to its caller.                                       *)
(***************************************************************************)
EXTENDS Integers, Sequences

CONSTANTS
  QUEUE_SIZE,  \* the queue_size given to queue_create
  BYTE         \* the number of values of a uint8_t (256)

ASSUME QueueAssumption == QUEUE_SIZE \in Nat \ {0} /\ BYTE \in Nat \ {0}

VARIABLES data, head, tail, num_elements_in_queue, reply

queue == <<data, head, tail, num_elements_in_queue>>
vars == <<data, head, tail, num_elements_in_queue, reply>>

uint8 == 0 .. BYTE - 1
Index == 0 .. QUEUE_SIZE - 1

\* queue_create for a size of at least 1 (size 0 yields NULL and no queue).
queue_create ==
  /\ data = [i \in Index |-> 0]
  /\ head = 0 /\ tail = 0 /\ num_elements_in_queue = 0
  /\ reply = [op |-> "none"]

queue_is_empty == num_elements_in_queue = 0

\* Variants: off by one in either direction.
queue_is_full_late == num_elements_in_queue > QUEUE_SIZE
queue_is_full_early == num_elements_in_queue = QUEUE_SIZE - 1

queue_is_full == num_elements_in_queue = QUEUE_SIZE

queue_put(value) ==
  \/ /\ ~queue_is_full
     /\ data' = [data EXCEPT ![tail] = value]
     /\ tail' = (tail + 1) % QUEUE_SIZE
     /\ num_elements_in_queue' = num_elements_in_queue + 1
     /\ reply' = [op |-> "put", ok |-> TRUE]
     /\ UNCHANGED head
  \/ /\ queue_is_full
     /\ reply' = [op |-> "put", ok |-> FALSE]
     /\ UNCHANGED queue

\* The value field of an unsuccessful get is never assigned: any byte.
queue_get ==
  \/ /\ ~queue_is_empty
     /\ num_elements_in_queue' = num_elements_in_queue - 1
     /\ reply' = [op |-> "get", ok |-> TRUE, value |-> data[head]]
     /\ head' = (head + 1) % QUEUE_SIZE
     /\ UNCHANGED <<data, tail>>
  \/ /\ queue_is_empty
     /\ \E garbage \in uint8 :
          reply' = [op |-> "get", ok |-> FALSE, value |-> garbage]
     /\ UNCHANGED queue

\* The size_t capacity goes through a uint8_t return type.
queue_get_size ==
  /\ reply' = [op |-> "get_size", value |-> QUEUE_SIZE % BYTE]
  /\ UNCHANGED queue

Next == (\E value \in uint8 : queue_put(value)) \/ queue_get \/ queue_get_size

Spec == queue_create /\ [][Next]_vars
-----------------------------------------------------------------------------
\* The n values stored in array d from slot h on, oldest first.
Stored(d, h, n) == [i \in 1 .. n |-> d[(h + (i - 1)) % QUEUE_SIZE]]

\* The values in the queue: the refinement mapping.
Items == Stored(data, head, num_elements_in_queue)

Fifo == INSTANCE BoundedFifo WITH items <- Items, Value <- uint8,
                                  Size <- QUEUE_SIZE

\* The fields stay in range and the tail is always num_elements_in_queue slots
\* after the head, through every wrap-around of either index (queue.c:69, :86).
TypeOK ==
  /\ data \in [Index -> uint8]
  /\ head \in Index /\ tail \in Index
  /\ num_elements_in_queue \in 0 .. QUEUE_SIZE

TailFollowsHead == tail = (head + num_elements_in_queue) % QUEUE_SIZE

IndexInv == TypeOK /\ TailFollowsHead

\* Every call of queue_put and queue_get behaves as the bounded FIFO's, for
\* any sequence of calls: order kept, nothing lost, overwritten or invented.
RefinesFifo == Fifo!Spec
=============================================================================
