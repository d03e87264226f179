----------------------------- MODULE RingBuffer -----------------------------
(***************************************************************************)
(* lib/ringbuffer.c: the ring of lines behind the console.  An item is     *)
(* what its slot holds once memcpy is done.                                *)
(***************************************************************************)
EXTENDS Integers, Sequences

CONSTANTS
  Size,         \* msg_buffer.size (24)
  Item,         \* what a slot may hold
  Zeroed        \* a slot nothing was written to

ASSUME RingAssumption == Size \in Nat \ {0, 1} /\ Zeroed \in Item

VARIABLES
  head, tail,   \* the oldest and the newest item, or -1
  data

ring == <<head, tail, data>>

Slots == 0..(Size - 1)

(* head and tail after one more item, which goes to the new tail: the first *)
(* time, until it gets full for the first time, the regular case            *)
Place(h, t) ==
  IF h = t /\ h = -1 THEN <<0, 0>>
  ELSE IF h = 0 /\ t < Size - 1 THEN <<h, t + 1>>
  ELSE <<(h + 1) % Size, (t + 1) % Size>>

(* how many items ringbuffer_for_each visits: from head to tail, or from    *)
(* head all the way round to head; and which slot the i-th one is           *)
Visited(h, t) ==
  IF h = -1 \/ t = -1 THEN 0
  ELSE IF t > h THEN t - h + 1
  ELSE IF t < h THEN Size
  ELSE 1

Slot(h, i) == IF h + i - 1 < Size THEN h + i - 1 ELSE h + i - 1 - Size

ringbuffer_for_each(h, t, d) == [i \in 1..Visited(h, t) |-> d[Slot(h, i)]]

ringbuffer_init == head = -1 /\ tail = -1 /\ data = [i \in Slots |-> Zeroed]

ringbuffer_put(item) ==
  LET p == Place(head, tail)
  IN  /\ head' = p[1] /\ tail' = p[2]
      /\ data' = [data EXCEPT ![p[2]] = item]

RingNext == \E item \in Item : ringbuffer_put(item)
RingSpec == ringbuffer_init /\ [][RingNext]_ring

(* head and tail stay inside the array, and they are as far apart as the     *)
(* loop of ringbuffer_for_each needs: empty, filling up from slot 0, or full *)
(* with the head right after the tail.                                       *)
RingOK ==
  /\ data \in [Slots -> Item]
  /\ \/ head = -1 /\ tail = -1
     \/ head = 0 /\ tail \in Slots
     \/ head \in 1..(Size - 1) /\ tail = head - 1

Log == INSTANCE LastLines WITH lines <- ringbuffer_for_each(head, tail, data)

(* The ring implements the log: what ringbuffer_for_each visits is always    *)
(* the last Size lines that were put, in order.                              *)
Implements == Log!Spec
=============================================================================
