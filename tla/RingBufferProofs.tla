-------------------------- MODULE RingBufferProofs --------------------------
(***************************************************************************)
(* The ring of any size keeps its indexes in range and implements the log  *)
(* of the last lines; and of all the places where a printk can interrupt   *)
(* another one, only ringbuffer_put itself harms the ring.                 *)
(***************************************************************************)
EXTENDS PrintkRace, TLAPS

(* The step of an index round the ring, as ringbuffer_put computes it: one   *)
(* up, or from the last slot to the first.                                   *)
LEMMA Round ==
  ASSUME NEW k \in Slots
  PROVE  (k + 1) % Size = IF k = Size - 1 THEN 0 ELSE k + 1
BY RingAssumption DEF Slots

(* What ringbuffer_put does to an empty ring, to one that is filling up and  *)
(* to a full one, once RingOK says that there are no other cases.            *)
LEMMA PutCases ==
  ASSUME RingOK, NEW x \in Item, ringbuffer_put(x)
  PROVE  /\ tail' \in Slots /\ data' = [data EXCEPT ![tail'] = x]
         /\ \/ head = -1 /\ tail = -1 /\ head' = 0 /\ tail' = 0
            \/ head = 0 /\ tail \in Slots /\ tail < Size - 1 /\ head' = 0 /\ tail' = tail + 1
            \/ head = 0 /\ tail = Size - 1 /\ head' = 1 /\ tail' = 0
            \/ /\ head \in 1..(Size - 1) /\ tail = head - 1
               /\ tail' = head
               /\ head' = IF head = Size - 1 THEN 0 ELSE head + 1
<1>1. CASE head = -1 /\ tail = -1
  BY <1>1, RingAssumption DEF ringbuffer_put, Place, Slots
<1>2. CASE head = 0 /\ tail \in Slots /\ tail < Size - 1
  BY <1>2, RingAssumption DEF ringbuffer_put, Place, Slots
<1>3. CASE head = 0 /\ tail = Size - 1
  <2>1. (head + 1) % Size = 1 /\ (tail + 1) % Size = 0
    BY <1>3, Round, RingAssumption DEF Slots
  <2> QED
    BY <2>1, <1>3, RingAssumption DEF ringbuffer_put, Place, Slots
<1>4. CASE head \in 1..(Size - 1) /\ tail = head - 1
  <2>1. /\ (head + 1) % Size = IF head = Size - 1 THEN 0 ELSE head + 1
        /\ (tail + 1) % Size = head
    BY <1>4, Round, RingAssumption DEF Slots
  <2> QED
    BY <2>1, <1>4, RingAssumption DEF ringbuffer_put, Place, Slots
<1> QED
  BY <1>1, <1>2, <1>3, <1>4, RingAssumption DEF RingOK, Slots

(* RingOK holds in every state of a ring of any size: ringbuffer_put writes  *)
(* inside the array, and never leaves head and tail in a position from which *)
(* ringbuffer_for_each would run past the tail.                              *)
THEOREM RingSafe == RingSpec => []RingOK
<1>1. ringbuffer_init => RingOK
  BY RingAssumption DEF ringbuffer_init, RingOK
<1>2. RingOK /\ [RingNext]_ring => RingOK'
  <2> SUFFICES ASSUME RingOK, [RingNext]_ring PROVE RingOK'
    OBVIOUS
  <2>1. CASE UNCHANGED ring
    BY <2>1 DEF RingOK, ring
  <2>2. CASE RingNext
    <3>1. PICK x \in Item : ringbuffer_put(x)
      BY <2>2 DEF RingNext
    <3>2. data' \in [Slots -> Item]
      BY <3>1, PutCases DEF RingOK
    <3> QED
      BY <3>1, <3>2, PutCases, RingAssumption DEF RingOK, Slots
  <2> QED
    BY <2>1, <2>2
<1> QED
  BY <1>1, <1>2, PTL DEF RingSpec

Shown == ringbuffer_for_each(head, tail, data)

(* How many items ringbuffer_for_each visits in a ring that is as RingOK     *)
(* says, and where it finds them: what it shows is a sequence of that length. *)
LEMMA ShownFacts ==
  ASSUME RingOK
  PROVE  /\ Visited(head, tail) \in 0..Size
         /\ Shown = [k \in 1..Visited(head, tail) |-> data[Slot(head, k)]]
         /\ Len(Shown) = Visited(head, tail)
         /\ \A k \in 1..Visited(head, tail) : Slot(head, k) \in Slots
<1>1. Visited(head, tail) \in 0..Size
  BY RingAssumption DEF RingOK, Visited, Slots
<1>2. Shown = [k \in 1..Visited(head, tail) |-> data[Slot(head, k)]]
  BY DEF Shown, ringbuffer_for_each
<1>3. Len(Shown) = Visited(head, tail)
  BY <1>1, <1>2
<1>4. \A k \in 1..Visited(head, tail) : Slot(head, k) \in Slots
  BY RingAssumption DEF RingOK, Visited, Slots, Slot
<1> QED
  BY <1>1, <1>2, <1>3, <1>4

(* One more item: what is shown afterwards is what was shown before, the     *)
(* oldest line dropped if the ring was full, and the new line at the end.    *)
LEMMA PutPushes ==
  ASSUME RingOK, RingOK', NEW x \in Item, ringbuffer_put(x)
  PROVE  Shown' = Log!Push(Shown, x)
<1> DEFINE n == Visited(head, tail)
           m == Visited(head', tail')
<1>1. /\ n \in 0..Size /\ Len(Shown) = n
      /\ Shown = [k \in 1..n |-> data[Slot(head, k)]]
      /\ \A k \in 1..n : Slot(head, k) \in Slots
  BY ShownFacts
<1>2. Shown' = [k \in 1..m |-> data'[Slot(head', k)]]
  BY DEF Shown, ringbuffer_for_each
<1>3. tail' \in Slots /\ data' = [data EXCEPT ![tail'] = x] /\ data \in [Slots -> Item]
  BY PutCases DEF RingOK
<1>4. CASE n < Size
  <2>1. m = n + 1 /\ Slot(head', m) = tail'
    BY <1>4, PutCases, RingAssumption DEF Visited, Slot, Slots
  <2>2. \A k \in 1..n : Slot(head', k) = Slot(head, k) /\ Slot(head', k) # tail'
    BY <1>4, PutCases, RingAssumption DEF Visited, Slot, Slots
  <2>3. Log!Push(Shown, x) = [k \in 1..(n + 1) |-> IF k = n + 1 THEN x ELSE Shown[k]]
    BY <1>1, <1>4 DEF Log!Push
  <2>4. \A k \in 1..(n + 1) : data'[Slot(head', k)] = IF k = n + 1 THEN x ELSE Shown[k]
    <3> HIDE DEF n, m
    <3> QED BY <1>1, <1>3, <2>1, <2>2
  <2> HIDE DEF n, m
  <2> QED
    BY <1>2, <2>1, <2>3, <2>4
<1>5. CASE n = Size
  <2>1. m = Size /\ Slot(head', Size) = tail'
    BY <1>5, PutCases, RingAssumption DEF Visited, Slot, Slots
  <2>2. \A k \in 1..(Size - 1) : Slot(head', k) = Slot(head, k + 1) /\ Slot(head', k) # tail'
    BY <1>5, PutCases, RingAssumption DEF Visited, Slot, Slots
  <2>3. Log!Push(Shown, x) = [k \in 1..Size |-> IF k = Size THEN x ELSE Shown[k + 1]]
    BY <1>1, <1>5, RingAssumption DEF Log!Push
  <2>4. \A k \in 1..Size : data'[Slot(head', k)] = IF k = Size THEN x ELSE Shown[k + 1]
    <3> HIDE DEF n, m
    <3> QED BY <1>1, <1>3, <1>5, <2>1, <2>2, RingAssumption
  <2> HIDE DEF n, m
  <2> QED
    BY <1>2, <2>1, <2>3, <2>4
<1> QED
  BY <1>1, <1>4, <1>5, RingAssumption

(* The ring of any size implements the log of the last Size lines.           *)
THEOREM RingImplementsLog == RingSpec => Implements
<1>1. ringbuffer_init => Log!Init
  BY DEF ringbuffer_init, Log!Init, ringbuffer_for_each, Visited
<1>2. RingOK /\ RingOK' /\ [RingNext]_ring => [Log!Next]_Shown
  <2> SUFFICES ASSUME RingOK, RingOK', [RingNext]_ring PROVE [Log!Next]_Shown
    OBVIOUS
  <2>1. CASE UNCHANGED ring
    BY <2>1 DEF ring, Shown, ringbuffer_for_each, Visited, Slot
  <2>2. CASE RingNext
    <3>1. PICK x \in Item : ringbuffer_put(x)
      BY <2>2 DEF RingNext
    <3>2. Shown' = Log!Push(Shown, x)
      BY <3>1, PutPushes
    <3> QED
      BY <3>2 DEF Log!Next, Shown
  <2> QED
    BY <2>1, <2>2
<1> QED
  BY <1>1, <1>2, RingSafe, PTL DEF RingSpec, Implements, Log!Spec, Shown
-----------------------------------------------------------------------------
(* printk interrupted by printk *)

(* Where kmain is inside ringbuffer_put, and what it has read and decided    *)
(* there is still so: a full ring is one whose head follows its tail.        *)
Full == Whole /\ (head = 0 => tail = Size - 1)
InPut ==
  /\ pc = "test_tail" => Whole /\ head = 0
  /\ pc \in {"fill_read", "fill_write"} => head = 0 /\ tail \in 0..(Size - 2)
  /\ pc = "fill_write" => tmp = tail
  /\ pc \in {"head_read", "head_write"} => Full
  /\ pc = "head_write" => tmp = head
  /\ pc \in {"tail_read", "tail_write"} => tail \in Slots /\ head = (((tail + 1) % Size) + 1) % Size
  /\ pc \in {"tail_write", "copy"} => tmp = tail

(* The inductive invariant behind WholeUnlessPutHit.                         *)
RaceInv ==
  /\ DOMAIN data = 0..Size
  /\ ~hit => /\ data[Size] = Zeroed
             /\ pc \notin Put \ {"test_head", "slot_read", "copy"} => Whole
             /\ InPut

(* A put that is not interrupted keeps the ring whole, and its slot inside   *)
(* the array.                                                                *)
LEMMA PlaceWhole ==
  ASSUME Whole
  PROVE  LET p == Place(head, tail)
         IN  /\ p[2] \in Slots
             /\ \/ p[1] = 0
                \/ p[1] \in 1..(Size - 1) /\ p[2] = p[1] - 1
<1>1. CASE head = 0 /\ tail \in Slots /\ tail < Size - 1
  BY <1>1, RingAssumption DEF Place, Slots
<1>2. CASE head = 0 /\ tail = Size - 1
  <2>1. (head + 1) % Size = 1 /\ (tail + 1) % Size = 0
    BY <1>2, Round, RingAssumption DEF Slots
  <2> QED
    BY <2>1, <1>2, RingAssumption DEF Place, Slots
<1>3. CASE head \in 1..(Size - 1) /\ tail = head - 1
  <2>1. /\ (head + 1) % Size = IF head = Size - 1 THEN 0 ELSE head + 1
        /\ (tail + 1) % Size = head
    BY <1>3, Round, RingAssumption DEF Slots
  <2> QED
    BY <2>1, <1>3, RingAssumption DEF Place, Slots
<1> QED
  BY <1>1, <1>2, <1>3, RingAssumption DEF Whole, Slots

(* The first state of the race, with any ring that earlier messages left.    *)
LEMMA RaceInit == Init => RaceInv
BY RingAssumption DEF Init, RaceInv, InPut, Full, Whole, Put, Slots

(* kmain before and after ringbuffer_put leaves the ring alone.              *)
LEMMA OutsideStep ==
  ASSUME RaceInv,
         \/ memset_buffer \/ vsnprintf \/ cut_line \/ draw_first_row \/ draw_start \/ draw_line
         \/ draw_row_write \/ draw_again \/ draw_above_head \/ draw_up_to_tail
         \/ draw_again_wrapped \/ draw_below_head \/ draw_up_to_head \/ set_cursor
  PROVE  RaceInv'
<1>1. /\ UNCHANGED <<ring, hit>>
      /\ pc \notin Put
      /\ pc' \notin Put \ {"test_head"}
  BY DEF Put, Goto, memset_buffer, vsnprintf, cut_line, draw_first_row, draw_start, draw_line,
         draw_row_write, draw_again, draw_above_head, draw_up_to_tail, draw_again_wrapped,
         draw_below_head, draw_up_to_head, set_cursor
<1> QED BY <1>1 DEF RaceInv, InPut, Full, Whole, Put, ring

(* The tests and the reads of ringbuffer_put: each finds what the next write *)
(* relies on.                                                                *)
LEMMA PutReads ==
  ASSUME RaceInv, put_test_head \/ put_test_tail \/ put_fill_read \/ put_head_read \/ put_tail_read
                  \/ put_slot_read
  PROVE  RaceInv'
<1>1. CASE put_test_head
  <2>1. /\ UNCHANGED <<ring, hit>> /\ pc = "test_head"
        /\ pc' = IF head = 0 THEN "test_tail" ELSE "head_read"
    BY <1>1 DEF put_test_head, Goto
  <2> QED BY <2>1 DEF RaceInv, InPut, Full, Whole, Put, ring
<1>2. CASE put_test_tail
  <2>1. /\ UNCHANGED <<ring, hit>> /\ pc = "test_tail"
        /\ pc' = IF tail < Size - 1 THEN "fill_read" ELSE "head_read"
    BY <1>2 DEF put_test_tail, Goto
  <2>2. ~hit => Whole /\ head = 0 /\ tail \in 0..(Size - 1)
    BY <2>1, RingAssumption DEF RaceInv, InPut, Whole, Slots
  <2> QED BY <2>1, <2>2, RingAssumption DEF RaceInv, InPut, Full, Whole, Put, ring
<1>3. CASE put_fill_read \/ put_head_read
  BY <1>3 DEF RaceInv, InPut, Full, Whole, Put, ring, Goto, put_fill_read, put_head_read
<1>4. CASE put_tail_read \/ put_slot_read
  BY <1>4 DEF RaceInv, InPut, Full, Whole, Put, ring, Goto, put_tail_read, put_slot_read
<1> QED BY <1>1, <1>2, <1>3, <1>4

(* The writes of ringbuffer_put: between the one of the head and the one of  *)
(* the tail the ring is not whole, after the last it is.                     *)
LEMMA PutWrites ==
  ASSUME RaceInv, put_fill_write \/ put_head_write \/ put_tail_write \/ put_copy
  PROVE  RaceInv'
<1>1. CASE put_fill_write
  BY <1>1, RingAssumption DEF put_fill_write, RaceInv, InPut, Whole, Put, Slots, Goto, local
<1>2. CASE put_head_write
  <2>1. DOMAIN data' = 0..Size /\ data' = data /\ pc = "head_write" /\ pc' = "tail_read" /\ hit' = hit
    BY <1>2 DEF put_head_write, Goto, RaceInv
  <2>2. ASSUME ~hit PROVE tail' \in Slots /\ head' = (((tail' + 1) % Size) + 1) % Size
    <3>1. Full /\ tmp = head /\ head' = (head + 1) % Size /\ tail' = tail
      BY <1>2, <2>1, <2>2 DEF put_head_write, RaceInv, InPut
    <3>2. tail \in Slots /\ (tail + 1) % Size = head
      BY <3>1, Round, RingAssumption DEF Full, Whole, Slots
    <3> QED BY <3>1, <3>2
  <2> QED
    BY <2>1, <2>2 DEF RaceInv, InPut, Put
<1>3. CASE put_tail_write
  <2>1. DOMAIN data' = 0..Size /\ data' = data /\ pc = "tail_write" /\ pc' = "slot_read" /\ hit' = hit
    BY <1>3 DEF put_tail_write, Goto, RaceInv
  <2>2. ASSUME ~hit PROVE Whole'
    <3>1. /\ tail \in Slots /\ tail' = (tail + 1) % Size /\ head' = head
          /\ head = (((tail + 1) % Size) + 1) % Size
      BY <1>3, <2>1, <2>2 DEF put_tail_write, RaceInv, InPut
    <3>2. tail' \in Slots /\ tail' = IF tail = Size - 1 THEN 0 ELSE tail + 1
      BY <3>1, Round, RingAssumption DEF Slots
    <3>3. head' = IF tail' = Size - 1 THEN 0 ELSE tail' + 1
      BY <3>1, <3>2, Round
    <3> QED BY <3>2, <3>3, RingAssumption DEF Whole, Slots
  <2> QED
    BY <2>1, <2>2 DEF RaceInv, InPut, Put
<1>4. CASE put_copy
  <2>1. /\ data' = [data EXCEPT ![tmp] = line] /\ head' = head /\ tail' = tail
        /\ pc = "copy" /\ pc' = "draw" /\ hit' = hit
    BY <1>4 DEF put_copy, Goto
  <2>2. ~hit => tmp \in Slots
    BY <2>1, RingAssumption DEF RaceInv, InPut, Whole, Slots
  <2>3. DOMAIN data' = 0..Size /\ (~hit => data'[Size] = Zeroed)
    BY <2>1, <2>2, RingAssumption DEF RaceInv, Slots
  <2> QED
    BY <2>1, <2>3 DEF RaceInv, InPut, Whole, Put
<1> QED
  BY <1>1, <1>2, <1>3, <1>4

(* The printk of a handler: a whole put on a ring that is whole, unless it   *)
(* comes while kmain is inside ringbuffer_put.                               *)
LEMMA IrqStep ==
  ASSUME RaceInv, handle_irq
  PROVE  RaceInv'
<1> DEFINE p == Place(head, tail)
<1>1. /\ head' = p[1] /\ tail' = p[2] /\ data' = [data EXCEPT ![p[2]] = HMessage]
      /\ hit' = (hit \/ pc \in Put) /\ pc' = pc
  BY DEF handle_irq
<1>2. DOMAIN data' = 0..Size
  BY <1>1 DEF RaceInv
<1>3. CASE hit'
  BY <1>2, <1>3 DEF RaceInv
<1>4. CASE ~hit'
  <2>1. ~hit /\ pc \notin Put /\ Whole
    BY <1>1, <1>4 DEF RaceInv
  <2>2. /\ p[2] \in Slots
        /\ p[1] = 0 \/ (p[1] \in 1..(Size - 1) /\ p[2] = p[1] - 1)
    BY <2>1, PlaceWhole
  <2> HIDE DEF p
  <2>3. Whole' /\ data'[Size] = Zeroed
    BY <1>1, <2>1, <2>2, RingAssumption DEF Whole, RaceInv, Slots
  <2> QED
    BY <1>1, <1>2, <2>1, <2>3 DEF RaceInv, InPut, Put
<1> QED
  BY <1>3, <1>4

(* For a ring of any size, any two messages and any number of interrupts:    *)
(* as long as no handler prints while kmain is inside ringbuffer_put, head   *)
(* and tail are as ringbuffer_for_each needs them, and memcpy writes inside  *)
(* the array.                                                                *)
THEOREM OnlyPutIsCritical == Spec => []WholeUnlessPutHit
<1>1. RaceInv /\ [Next]_vars => RaceInv'
  <2> SUFFICES ASSUME RaceInv, [Next]_vars PROVE RaceInv'
    OBVIOUS
  <2>1. CASE printk
    BY <2>1, OutsideStep, PutReads, PutWrites DEF printk
  <2>2. CASE handle_irq
    BY <2>2, IrqStep
  <2>3. CASE UNCHANGED vars
    BY <2>3 DEF vars, ring, local, RaceInv, InPut, Full, Whole
  <2> QED BY <2>1, <2>2, <2>3 DEF Next
<1>2. RaceInv => WholeUnlessPutHit
  BY DEF RaceInv, WholeUnlessPutHit, Put
<1> QED
  BY <1>1, <1>2, RaceInit, PTL DEF Spec
=============================================================================
