------------------------ MODULE CircularQueueProofs ------------------------
(***************************************************************************)
(* The circular queue for every capacity and every set of stored bytes:    *)
(* the indices stay where they belong, and the queue is a bounded FIFO.    *)
(***************************************************************************)
EXTENDS CircularQueue, SequenceTheorems, TLAPS

USE QueueAssumption DEF QueueAssumption

(* An index that has moved at most one lap wraps at most once. *)
LEMMA WrapOnce ==
  ASSUME NEW k \in 0 .. 2 * QUEUE_SIZE - 1
  PROVE  k % QUEUE_SIZE = IF k < QUEUE_SIZE THEN k ELSE k - QUEUE_SIZE
OBVIOUS

(* A slot of the queue is an index of the array, whatever lap it is on. *)
LEMMA SlotInRange ==
  ASSUME NEW h \in Index, NEW k \in 0 .. QUEUE_SIZE
  PROVE  (h + k) % QUEUE_SIZE \in Index
BY DEF Index

(* Slots less than a lap apart are different: a put never hits a stored
   value. *)
LEMMA SlotsDiffer ==
  ASSUME NEW h \in Index, NEW n \in 0 .. QUEUE_SIZE - 1, NEW k \in 0 .. n - 1
  PROVE  (h + k) % QUEUE_SIZE # (h + n) % QUEUE_SIZE
BY WrapOnce DEF Index

(* The slot after a slot, and the slots seen from a head one further on. *)
LEMMA NextSlot ==
  ASSUME NEW h \in Index, NEW k \in 0 .. QUEUE_SIZE - 1
  PROVE  /\ (((h + k) % QUEUE_SIZE) + 1) % QUEUE_SIZE = (h + (k + 1)) % QUEUE_SIZE
         /\ (((h + 1) % QUEUE_SIZE) + k) % QUEUE_SIZE = (h + (k + 1)) % QUEUE_SIZE
<1>1. \A j \in 0 .. 2 * QUEUE_SIZE - 1 :
        j % QUEUE_SIZE = IF j < QUEUE_SIZE THEN j ELSE j - QUEUE_SIZE
  BY WrapOnce
<1>2. PICK next \in Nat : next = h + (k + 1)
  BY DEF Index
<1>3. next % QUEUE_SIZE = IF next < QUEUE_SIZE THEN next ELSE next - QUEUE_SIZE
  BY <1>1, <1>2 DEF Index
<1>4. (((h + k) % QUEUE_SIZE) + 1) % QUEUE_SIZE = next % QUEUE_SIZE
  <2>1. (h + k) % QUEUE_SIZE = IF h + k < QUEUE_SIZE THEN h + k
                               ELSE (h + k) - QUEUE_SIZE
    BY <1>1 DEF Index
  <2>2. PICK j \in 0 .. QUEUE_SIZE : j = ((h + k) % QUEUE_SIZE) + 1
    BY <2>1 DEF Index
  <2> QED
    BY <1>1, <1>2, <1>3, <2>1, <2>2 DEF Index
<1>5. (((h + 1) % QUEUE_SIZE) + k) % QUEUE_SIZE = next % QUEUE_SIZE
  <2>1. (h + 1) % QUEUE_SIZE = IF h + 1 < QUEUE_SIZE THEN h + 1 ELSE 0
    BY <1>1 DEF Index
  <2>2. PICK j \in 0 .. 2 * QUEUE_SIZE - 1 : j = ((h + 1) % QUEUE_SIZE) + k
    BY <2>1 DEF Index
  <2> QED
    BY <1>1, <1>2, <1>3, <2>1, <2>2 DEF Index
<1> QED
  BY <1>2, <1>4, <1>5
-----------------------------------------------------------------------------
(* The fields keep their ranges and the tail follows the head, through any
   number of wrap-arounds (queue.c:63-90). *)
THEOREM IndexInvariant == Spec => []IndexInv
<1>1. queue_create => IndexInv
  BY WrapOnce DEF queue_create, IndexInv, TypeOK, TailFollowsHead, Index, uint8
<1>2. IndexInv /\ [Next]_vars => IndexInv'
  <2> SUFFICES ASSUME IndexInv, [Next]_vars PROVE IndexInv'
    OBVIOUS
  <2>1. ASSUME NEW value \in uint8, queue_put(value) PROVE IndexInv'
    <3>1. CASE queue_is_full
      BY <2>1, <3>1 DEF queue_put, queue_is_full, queue, IndexInv, TypeOK,
                        TailFollowsHead
    <3>2. CASE ~queue_is_full
      <4>1. num_elements_in_queue + 1 \in 0 .. QUEUE_SIZE
        BY <3>2 DEF queue_is_full, IndexInv, TypeOK
      <4>2. tail' \in Index
        BY <2>1, <3>2, SlotInRange DEF queue_put, queue_is_full, IndexInv, TypeOK
      <4>3. data' \in [Index -> uint8]
        BY <2>1, <3>2 DEF queue_put, IndexInv, TypeOK
      <4>4. tail' = (head + (num_elements_in_queue + 1)) % QUEUE_SIZE
        <5>1. num_elements_in_queue \in 0 .. QUEUE_SIZE - 1
          BY <3>2 DEF queue_is_full, IndexInv, TypeOK
        <5>2. tail' = (((head + num_elements_in_queue) % QUEUE_SIZE) + 1) % QUEUE_SIZE
          BY <2>1, <3>2 DEF queue_put, IndexInv, TailFollowsHead
        <5> QED
          BY <5>1, <5>2, NextSlot DEF IndexInv, TypeOK
      <4> QED
        BY <2>1, <3>2, <4>1, <4>2, <4>3, <4>4
        DEF queue_put, queue_is_full, IndexInv, TypeOK, TailFollowsHead
    <3> QED BY <3>1, <3>2
  <2>2. CASE queue_get
    <3>1. CASE queue_is_empty
      BY <2>2, <3>1 DEF queue_get, queue_is_empty, queue, IndexInv, TypeOK,
                        TailFollowsHead
    <3>2. CASE ~queue_is_empty
      <4>1. PICK k \in 0 .. QUEUE_SIZE - 1 : num_elements_in_queue = k + 1
        <5>1. /\ num_elements_in_queue - 1 \in 0 .. QUEUE_SIZE - 1
              /\ num_elements_in_queue = (num_elements_in_queue - 1) + 1
          BY <3>2 DEF queue_is_empty, IndexInv, TypeOK
        <5> QED BY <5>1
      <4>2. head' \in Index /\ num_elements_in_queue' = k
        BY <2>2, <3>2, <4>1, SlotInRange DEF queue_get, IndexInv, TypeOK
      <4>3. tail' = (head' + k) % QUEUE_SIZE
        BY <2>2, <3>2, <4>1, NextSlot
        DEF queue_get, IndexInv, TypeOK, TailFollowsHead
      <4>4. /\ data' \in [Index -> uint8] /\ tail' \in Index
            /\ k \in 0 .. QUEUE_SIZE
        BY <2>2, <3>2, <4>1 DEF queue_get, IndexInv, TypeOK
      <4> QED
        BY <4>2, <4>3, <4>4 DEF IndexInv, TypeOK, TailFollowsHead
    <3> QED BY <3>1, <3>2
  <2>3. CASE queue_get_size
    BY <2>3 DEF queue_get_size, queue, IndexInv, TypeOK, TailFollowsHead
  <2>4. CASE UNCHANGED vars
    BY <2>4 DEF vars, IndexInv, TypeOK, TailFollowsHead
  <2> QED
    BY <2>1, <2>2, <2>3, <2>4 DEF Next
<1> QED
  BY <1>1, <1>2, PTL DEF Spec
-----------------------------------------------------------------------------
(* The stored values are a sequence of bytes, one per element counted. *)
LEMMA StoredIsASeq ==
  ASSUME NEW d \in [Index -> uint8], NEW h \in Index,
         NEW n \in 0 .. QUEUE_SIZE
  PROVE  /\ Stored(d, h, n) \in Seq(uint8)
         /\ Len(Stored(d, h, n)) = n
         /\ \A i \in 1 .. n :
              Stored(d, h, n)[i] = d[(h + (i - 1)) % QUEUE_SIZE]
<1>1. \A i \in 1 .. n : (h + (i - 1)) % QUEUE_SIZE \in Index
  BY SlotInRange
<1>2. Stored(d, h, n) \in [1 .. n -> uint8]
  BY <1>1 DEF Stored
<1> QED
  BY <1>2 DEF Stored

(* Writing the slot after the last stored value appends to the sequence. *)
LEMMA PutAppends ==
  ASSUME NEW d \in [Index -> uint8], NEW h \in Index,
         NEW n \in 0 .. QUEUE_SIZE - 1, NEW value \in uint8
  PROVE  Stored([d EXCEPT ![(h + n) % QUEUE_SIZE] = value], h, n + 1)
           = Append(Stored(d, h, n), value)
<1> DEFINE d2 == [d EXCEPT ![(h + n) % QUEUE_SIZE] = value]
           s == Stored(d, h, n)
           t == Stored(d2, h, n + 1)
<1>1. (h + n) % QUEUE_SIZE \in Index
  BY SlotInRange
<1>2. d2 \in [Index -> uint8] /\ n \in 0 .. QUEUE_SIZE /\ n + 1 \in 0 .. QUEUE_SIZE
  BY <1>1
<1>3. /\ s \in Seq(uint8) /\ Len(s) = n
      /\ \A i \in 1 .. n : s[i] = d[(h + (i - 1)) % QUEUE_SIZE]
  BY <1>2, StoredIsASeq
<1>4. /\ t \in Seq(uint8) /\ Len(t) = n + 1
      /\ \A i \in 1 .. n + 1 : t[i] = d2[(h + (i - 1)) % QUEUE_SIZE]
  <2> HIDE DEF d2
  <2> QED BY <1>2, StoredIsASeq
<1>5. ASSUME NEW i \in 1 .. n + 1 PROVE t[i] = Append(s, value)[i]
  <2>1. CASE i = n + 1
    <3>1. d2[(h + n) % QUEUE_SIZE] = value
      BY <1>1
    <3>2. Append(s, value)[n + 1] = value
      BY <1>3, AppendProperties
    <3>3. i \in 1 .. n + 1 /\ i - 1 = n
      BY <2>1
    <3> HIDE DEF d2, t, s
    <3> QED
      BY <1>4, <2>1, <3>1, <3>2, <3>3
  <2>2. CASE i # n + 1
    <3>1. i \in 1 .. n /\ i - 1 \in 0 .. n - 1
      BY <2>2
    <3>2. (h + (i - 1)) % QUEUE_SIZE # (h + n) % QUEUE_SIZE
      BY <3>1, SlotsDiffer
    <3>3. (h + (i - 1)) % QUEUE_SIZE \in Index
      BY <3>1, SlotInRange
    <3>4. d2[(h + (i - 1)) % QUEUE_SIZE] = d[(h + (i - 1)) % QUEUE_SIZE]
      BY <3>2, <3>3
    <3>5. Append(s, value)[i] = s[i]
      BY <1>3, <3>1, AppendProperties
    <3> HIDE DEF d2, t, s
    <3> QED
      BY <1>3, <1>4, <3>1, <3>4, <3>5
  <2> QED BY <2>1, <2>2
<1>6. Append(s, value) \in Seq(uint8) /\ Len(Append(s, value)) = n + 1
  BY <1>3, AppendProperties
<1> HIDE DEF d2, s, t
<1>7. t = Append(s, value)
  BY <1>4, <1>5, <1>6, SeqEqual
<1> QED
  BY <1>7 DEF d2, s, t

(* Moving the head one slot on takes the first stored value away. *)
LEMMA GetTakesHead ==
  ASSUME NEW d \in [Index -> uint8], NEW h \in Index,
         NEW n \in 1 .. QUEUE_SIZE
  PROVE  /\ Stored(d, h, n) # << >>
         /\ Head(Stored(d, h, n)) = d[h]
         /\ Stored(d, (h + 1) % QUEUE_SIZE, n - 1) = Tail(Stored(d, h, n))
<1> DEFINE s == Stored(d, h, n)
           next == (h + 1) % QUEUE_SIZE
           t == Stored(d, next, n - 1)
<1>1. next \in Index /\ n \in 0 .. QUEUE_SIZE /\ n - 1 \in 0 .. QUEUE_SIZE
  BY SlotInRange
<1>2. /\ s \in Seq(uint8) /\ Len(s) = n
      /\ \A i \in 1 .. n : s[i] = d[(h + (i - 1)) % QUEUE_SIZE]
  BY <1>1, StoredIsASeq
<1>3. /\ t \in Seq(uint8) /\ Len(t) = n - 1
      /\ \A i \in 1 .. n - 1 : t[i] = d[(next + (i - 1)) % QUEUE_SIZE]
  <2> HIDE DEF next
  <2> QED BY <1>1, StoredIsASeq
<1>4. s # << >> /\ Head(s) = d[h]
  <2>1. s[1] = d[(h + (1 - 1)) % QUEUE_SIZE]
    BY <1>2
  <2>2. (h + (1 - 1)) % QUEUE_SIZE = h
    BY WrapOnce DEF Index
  <2> HIDE DEF s
  <2> QED BY <1>2, <2>1, <2>2
<1>5. /\ Tail(s) \in Seq(uint8) /\ Len(Tail(s)) = n - 1
      /\ \A i \in 1 .. n - 1 : Tail(s)[i] = s[i + 1]
  <2> HIDE DEF s
  <2> QED BY <1>2, <1>4, HeadTailProperties
<1>6. ASSUME NEW i \in 1 .. n - 1 PROVE t[i] = Tail(s)[i]
  <2>1. i - 1 \in 0 .. QUEUE_SIZE - 1 /\ i + 1 \in 1 .. n /\ (i + 1) - 1 = (i - 1) + 1
    OBVIOUS
  <2>2. (next + (i - 1)) % QUEUE_SIZE = (h + ((i + 1) - 1)) % QUEUE_SIZE
    BY <2>1, NextSlot
  <2> HIDE DEF s, t, next
  <2> QED
    BY <1>2, <1>3, <1>5, <2>1, <2>2
<1> HIDE DEF s, t, next
<1>7. t = Tail(s)
  BY <1>3, <1>5, <1>6, SeqEqual
<1> QED
  BY <1>4, <1>7 DEF s, t, next
-----------------------------------------------------------------------------
(* Every call of the queue's functions is a call of the bounded FIFO's, for
   every capacity: order kept, nothing lost, overwritten or invented
   (queue.c:63-90). *)
THEOREM RefinesBoundedFifo == Spec => RefinesFifo
<1>1. queue_create => Fifo!Init
  <2> SUFFICES ASSUME queue_create PROVE Fifo!Init
    OBVIOUS
  <2>1. data \in [Index -> uint8] /\ head \in Index
    BY DEF queue_create, Index, uint8
  <2>2. Items \in Seq(uint8) /\ Len(Items) = 0
    BY <2>1, StoredIsASeq DEF queue_create, Items
  <2>3. Items = << >>
    BY <2>2, EmptySeq
  <2> QED
    BY <2>3 DEF queue_create, Fifo!Init
<1>2. IndexInv /\ [Next]_vars => [Fifo!Next]_(Fifo!vars)
  <2> SUFFICES ASSUME IndexInv, [Next]_vars PROVE [Fifo!Next]_(Fifo!vars)
    OBVIOUS
  <2>0. /\ data \in [Index -> uint8] /\ head \in Index
        /\ num_elements_in_queue \in 0 .. QUEUE_SIZE
        /\ Items \in Seq(uint8) /\ Len(Items) = num_elements_in_queue
    BY StoredIsASeq DEF IndexInv, TypeOK, Items
  <2>1. ASSUME NEW value \in uint8, queue_put(value) PROVE Fifo!Put(value)
    <3>1. CASE queue_is_full
      <4>1. Items' = Items
        BY <2>1, <3>1 DEF queue_put, queue, Items
      <4>2. (Len(Items) < QUEUE_SIZE) = FALSE
        BY <2>0, <3>1 DEF queue_is_full
      <4>3. reply' = [op |-> "put", ok |-> FALSE]
        BY <2>1, <3>1 DEF queue_put
      <4> QED
        BY <4>1, <4>2, <4>3 DEF Fifo!Put
    <3>2. CASE ~queue_is_full
      <4>1. num_elements_in_queue \in 0 .. QUEUE_SIZE - 1
        BY <2>0, <3>2 DEF queue_is_full
      <4>2. Items' = Append(Items, value)
        BY <2>0, <2>1, <3>2, <4>1, PutAppends
        DEF queue_put, IndexInv, TailFollowsHead, Items
      <4>3. (Len(Items) < QUEUE_SIZE) = TRUE
        BY <2>0, <4>1
      <4>4. reply' = [op |-> "put", ok |-> TRUE]
        BY <2>1, <3>2 DEF queue_put
      <4> QED
        BY <4>2, <4>3, <4>4 DEF Fifo!Put
    <3> QED BY <3>1, <3>2
  <2>2. CASE queue_get
    <3>1. CASE queue_is_empty
      <4>1. Items = << >>
        BY <2>0, <3>1, EmptySeq DEF queue_is_empty
      <4> QED
        BY <2>2, <3>1, <4>1
        DEF queue_get, queue_is_empty, queue, Items, Fifo!Get, Fifo!Next
    <3>2. CASE ~queue_is_empty
      <4>1. num_elements_in_queue \in 1 .. QUEUE_SIZE
        BY <2>0, <3>2 DEF queue_is_empty
      <4>2. Items # << >> /\ Head(Items) = data[head] /\ Items' = Tail(Items)
        BY <2>0, <2>2, <3>2, <4>1, GetTakesHead DEF queue_get, Items
      <4> QED
        BY <2>2, <3>2, <4>2 DEF queue_get, Fifo!Get, Fifo!Next
    <3> QED BY <3>1, <3>2
  <2>3. CASE queue_get_size
    <3>1. QUEUE_SIZE % BYTE \in uint8
      BY DEF uint8
    <3> QED
      BY <2>3, <3>1 DEF queue_get_size, queue, Items, Fifo!GetSize, Fifo!Next
  <2>4. CASE UNCHANGED vars
    BY <2>4 DEF vars, Items, Fifo!vars
  <2> QED
    BY <2>1, <2>2, <2>3, <2>4 DEF Next, Fifo!Next
<1> QED
  BY <1>1, <1>2, IndexInvariant, PTL
  DEF Spec, RefinesFifo, Fifo!Spec
=============================================================================
