----------------------------- MODULE PrintkRace -----------------------------
(***************************************************************************)
(* printk called by kmain with interrupts on (main.c:60 and 66,            *)
(* spurious.c:19, keyboard.c:34) while the handlers of the keyboard and of *)
(* spurious interrupts call printk too.  The two share the static buffer   *)
(* of printk.c, the ring of lines and the row of vga_console.c.  A handler *)
(* runs with interrupts off, so its printk is one step; the one of kmain   *)
(* can be interrupted between any two accesses to head, tail and row: a    *)
(* read-modify-write is two accesses, and so is the comparison of two of   *)
(* them (the build does not optimise).  Clearing the buffer and copying a  *)
(* line into its slot are one step each: what a handler stores meanwhile   *)
(* is in another slot, or is formatted over before it is read.             *)
(*                                                                         *)
(* The ring is not empty any more, so the tests for -1 (ringbuffer.c:21    *)
(* and 38) are always false.  Left out: the characters on the screen,      *)
(* which the next printk draws again, and the serial line, which only      *)
(* reads the buffer.                                                       *)
(***************************************************************************)
EXTENDS RingBuffer, FiniteSets

CONSTANTS
  KMessage, HMessage,   \* what kmain and a handler print: one line each
  Rows,                 \* VGA_MAX_ROWS
  MaxIrqs,              \* bound: interrupts
  RowCap                \* bound: row counts up to here

ASSUME RaceAssumption == Size = Rows - 1 /\ RowCap > 2 * Rows

VARIABLES
  buffer,       \* printk.c's static buffer
  row, cursor,  \* vga_console.c's row, the row of the caret
  pc,           \* where kmain is in its printk
  i, line,      \* its index into the buffer, the line it has put together
  tmp, idx,     \* what it has read of a variable it will write, the index of for_each
  hit,          \* whether a handler ran while kmain was inside ringbuffer_put
  irqs          \* interrupts so far

local == <<i, line, tmp, idx>>
vars == <<ring, buffer, row, cursor, pc, local, hit, irqs>>

Put == {"test_head", "test_tail", "fill_read", "fill_write",
        "head_read", "head_write", "tail_read", "tail_write", "slot_read", "copy"}
update_cursor(r) == IF r = Rows THEN r - 1 ELSE IF r = 0 THEN r + 1 ELSE r
Capped(r) == IF r > RowCap THEN RowCap ELSE r

(* the ring holds the messages of the boot; data[Size] is what lies behind  *)
(* the array                                                                *)
Init ==
  /\ \/ head = 0 /\ tail \in Slots
     \/ head \in 1..(Size - 1) /\ tail = head - 1
  /\ data = [s \in 0..Size |-> Zeroed]
  /\ buffer = <<>> /\ row = Visited(head, tail) /\ cursor = update_cursor(row)
  /\ pc = "idle" /\ i = 1 /\ line = <<>> /\ tmp = 0 /\ idx = 0
  /\ hit = FALSE /\ irqs = 0
-----------------------------------------------------------------------------
(* The printk of kmain *)

Goto(from, to) == pc = from /\ pc' = to /\ UNCHANGED <<hit, irqs>>

memset_buffer ==
  /\ Goto("idle", "format")
  /\ buffer' = <<>> /\ i' = 1 /\ line' = <<>>
  /\ UNCHANGED <<ring, row, cursor, tmp, idx>>

(* vsnprintf stores one character; it counts them itself *)
vsnprintf ==
  /\ Goto("format", IF i = Len(KMessage) THEN "cut" ELSE "format")
  /\ buffer' = [k \in 1..(IF Len(buffer) > i THEN Len(buffer) ELSE i) |->
                  IF k = i THEN KMessage[k] ELSE IF k \in DOMAIN buffer THEN buffer[k] ELSE "NUL"]
  /\ i' = IF i = Len(KMessage) THEN 1 ELSE i + 1
  /\ UNCHANGED <<ring, row, cursor, line, tmp, idx>>

(* write_console takes one character of the buffer *)
cut_line ==
  /\ Goto("cut", IF i = Len(KMessage) THEN "test_head" ELSE "cut")
  /\ line' = Append(line, IF i \in DOMAIN buffer THEN buffer[i] ELSE "NUL")
  /\ i' = i + 1
  /\ UNCHANGED <<ring, buffer, row, cursor, tmp, idx>>

put_test_head ==
  /\ Goto("test_head", IF head = 0 THEN "test_tail" ELSE "head_read")
  /\ UNCHANGED <<ring, buffer, row, cursor, local>>

put_test_tail ==
  /\ Goto("test_tail", IF tail < Size - 1 THEN "fill_read" ELSE "head_read")
  /\ UNCHANGED <<ring, buffer, row, cursor, local>>

(* tail++ *)
put_fill_read ==
  /\ Goto("fill_read", "fill_write") /\ tmp' = tail
  /\ UNCHANGED <<ring, buffer, row, cursor, i, line, idx>>

put_fill_write ==
  /\ Goto("fill_write", "slot_read") /\ tail' = tmp + 1
  /\ UNCHANGED <<head, data, buffer, row, cursor, local>>

put_head_read ==
  /\ Goto("head_read", "head_write") /\ tmp' = head
  /\ UNCHANGED <<ring, buffer, row, cursor, i, line, idx>>

put_head_write ==
  /\ Goto("head_write", "tail_read") /\ head' = (tmp + 1) % Size
  /\ UNCHANGED <<tail, data, buffer, row, cursor, local>>

put_tail_read ==
  /\ Goto("tail_read", "tail_write") /\ tmp' = tail
  /\ UNCHANGED <<ring, buffer, row, cursor, i, line, idx>>

(* a plausible bug: the tail is not taken round *)
put_tail_write_straight ==
  /\ Goto("tail_write", "slot_read") /\ tail' = tmp + 1
  /\ UNCHANGED <<head, data, buffer, row, cursor, local>>

put_tail_write ==
  /\ Goto("tail_write", "slot_read") /\ tail' = (tmp + 1) % Size
  /\ UNCHANGED <<head, data, buffer, row, cursor, local>>

(* memcpy(buf->data[buf->tail], ...) *)
put_slot_read ==
  /\ Goto("slot_read", "copy") /\ tmp' = tail
  /\ UNCHANGED <<ring, buffer, row, cursor, i, line, idx>>

put_copy ==
  /\ Goto("copy", "draw") /\ data' = [data EXCEPT ![tmp] = line]
  /\ UNCHANGED <<head, tail, buffer, row, cursor, local>>

draw_first_row ==
  /\ Goto("draw", "first") /\ row' = 0
  /\ UNCHANGED <<ring, buffer, cursor, local>>

draw_start ==
  /\ Goto("first", "line") /\ idx' = head
  /\ UNCHANGED <<ring, buffer, row, cursor, i, line, tmp>>

(* write_line_to_dma draws in the row, and row++ *)
draw_line ==
  /\ Goto("line", "row_write") /\ tmp' = row /\ idx' = (idx % Size) + 1
  /\ UNCHANGED <<ring, buffer, row, cursor, i, line>>

draw_row_write ==
  /\ Goto("row_write", "again") /\ row' = Capped(tmp + 1)
  /\ UNCHANGED <<ring, buffer, cursor, local>>

(* while ((tail > head && idx <= tail) || (tail < head && idx != head)): up *)
(* to six reads, each of what head or tail is by then                       *)
draw_again ==
  /\ Goto("again", "above_head") /\ tmp' = tail
  /\ UNCHANGED <<ring, buffer, row, cursor, i, line, idx>>

draw_above_head ==
  /\ Goto("above_head", IF tmp > head THEN "up_to_tail" ELSE "again_wrapped")
  /\ UNCHANGED <<ring, buffer, row, cursor, local>>

draw_up_to_tail ==
  /\ Goto("up_to_tail", IF idx <= tail THEN "line" ELSE "again_wrapped")
  /\ UNCHANGED <<ring, buffer, row, cursor, local>>

draw_again_wrapped ==
  /\ Goto("again_wrapped", "below_head") /\ tmp' = tail
  /\ UNCHANGED <<ring, buffer, row, cursor, i, line, idx>>

draw_below_head ==
  /\ Goto("below_head", IF tmp < head THEN "up_to_head" ELSE "cursor")
  /\ UNCHANGED <<ring, buffer, row, cursor, local>>

(* a plausible bug: the loop waits for the tail to come by *)
draw_up_to_head_tail ==
  /\ Goto("up_to_head", IF idx # tail THEN "line" ELSE "cursor")
  /\ UNCHANGED <<ring, buffer, row, cursor, local>>

draw_up_to_head ==
  /\ Goto("up_to_head", IF idx # head THEN "line" ELSE "cursor")
  /\ UNCHANGED <<ring, buffer, row, cursor, local>>

set_cursor ==
  /\ Goto("cursor", "idle") /\ cursor' = update_cursor(row)
  /\ UNCHANGED <<ring, buffer, row, local>>

printk ==
  \/ memset_buffer \/ vsnprintf \/ cut_line
  \/ put_test_head \/ put_test_tail \/ put_fill_read \/ put_fill_write
  \/ put_head_read \/ put_head_write \/ put_tail_read \/ put_tail_write
  \/ put_slot_read \/ put_copy
  \/ draw_first_row \/ draw_start \/ draw_line \/ draw_row_write
  \/ draw_again \/ draw_above_head \/ draw_up_to_tail
  \/ draw_again_wrapped \/ draw_below_head \/ draw_up_to_head \/ set_cursor
-----------------------------------------------------------------------------
(* a whole printk inside a handler *)
handle_irq ==
  LET p == Place(head, tail)
  IN  /\ irqs < MaxIrqs /\ irqs' = irqs + 1
      /\ hit' = (hit \/ pc \in Put)
      /\ buffer' = HMessage
      /\ head' = p[1] /\ tail' = p[2] /\ data' = [data EXCEPT ![p[2]] = HMessage]
      /\ row' = Visited(p[1], p[2]) /\ cursor' = update_cursor(row')
      /\ UNCHANGED <<pc, local>>

Next == printk \/ handle_irq

(* the processor goes on with kmain after an interrupt *)
Spec == Init /\ [][Next]_vars /\ WF_vars(printk)
-----------------------------------------------------------------------------
(* Properties *)

Whole ==
  \/ head = 0 /\ tail \in Slots
  \/ head \in 1..(Size - 1) /\ tail = head - 1

(* The critical section is ringbuffer_put and nothing else: if no handler    *)
(* prints while kmain is inside it, the ring stays as ringbuffer_for_each    *)
(* needs it, wherever else kmain is interrupted, and nothing is written      *)
(* behind the array.                                                         *)
WholeUnlessPutHit == ~hit => (pc \notin Put => Whole) /\ data[Size] = Zeroed

(* Then every printk of kmain comes to an end as well, although the handlers *)
(* move head and tail under the loop of ringbuffer_for_each.                 *)
ReturnsUnlessPutHit == (pc = "draw" /\ ~hit) ~> (pc = "idle" \/ hit)

(* The loop of ringbuffer_for_each goes "until gets to tail" or, on a ring   *)
(* that has wrapped, "until gets to head" (ringbuffer.c:49): it ends, and    *)
(* printk returns, whenever a handler prints.                                *)
PrintkReturns == pc = "draw" ~> pc = "idle"
=============================================================================
