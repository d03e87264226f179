------------------------------ MODULE Console ------------------------------
(***************************************************************************)
(* The console as printk.c, vga_console.c, ringbuffer.c and serial.c make  *)
(* it: printk sends a message through the log level, cuts it into lines,   *)
(* puts the lines in the ring, draws the ring on the screen and sends the  *)
(* message over the serial line.  Here a printk runs undisturbed, as it    *)
(* does before the interrupt lines are unmasked, in a handler and in a     *)
(* system call; module PrintkRace has the ones that are interrupted.       *)
(*                                                                         *)
(* A message is what vsnprintf leaves in the buffer, a sequence of         *)
(* characters without the NUL.                                             *)
(***************************************************************************)
EXTENDS RingBuffer, SequencesExt, FiniteSetsExt

CONSTANTS
  Cols, Rows,   \* VGA_MAX_COLS (80), VGA_MAX_ROWS (25); Size is Rows - 1
  Messages,     \* what the kernel prints
  Levels,       \* of those messages, ERR = 0 to DEBUG = 3
  MaxPrints     \* bound: messages printed

VARIABLES
  logging_level,
  screen,       \* characters by row and column
  cursor,       \* the row of the caret
  port,         \* whether the serial chip passes its own test
  initialised,  \* serial.c's flag
  wire,         \* what went out on the serial line
  prints        \* how many messages were printed

vars == <<ring, logging_level, screen, cursor, port, initialised, wire, prints>>

NUL == "NUL"
NL == "NL"
Blank == [r \in 0..(Rows - 1) |-> [c \in 0..(Cols - 1) |-> " "]]
-----------------------------------------------------------------------------
(* write_console: a line ends at a newline or when it is full *)
Feed(w, c) ==
  LET line == IF c # NL THEN Append(w.line, c) ELSE w.line
  IN  IF c = NL \/ Len(line) = Cols - 1
      THEN [line |-> <<>>, out |-> Append(w.out, line)]
      ELSE [line |-> line, out |-> w.out]

Cut(msg) ==
  LET w == FoldLeft(Feed, [line |-> <<>>, out |-> <<>>], msg)
  IN  IF w.line # <<>> THEN Append(w.out, w.line) ELSE w.out

(* memcpy of a line and its NUL over what the slot held *)
Overlay(slot, line) ==
  [i \in DOMAIN slot |-> IF i <= Len(line) THEN line[i]
                         ELSE IF i = Len(line) + 1 THEN NUL ELSE slot[i]]

PutLine(r, line) ==
  LET p == Place(r.head, r.tail)
  IN  [head |-> p[1], tail |-> p[2], data |-> [r.data EXCEPT ![p[2]] = Overlay(@, line)]]

(* a plausible bug: the rest of the row is left as it was *)
DrawNoClear(scr, row, slot) ==
  LET n == Min({i \in DOMAIN slot : i > 1 /\ slot[i] = NUL}) - 1
  IN  [scr EXCEPT ![row] = [c \in DOMAIN @ |-> IF c < n THEN slot[c + 1] ELSE @[c]]]

(* write_line_to_dma: the first character whatever it is, then up to the    *)
(* next NUL, then blanks up to the last but one column                      *)
Draw(scr, row, slot) ==
  LET n == Min({i \in DOMAIN slot : i > 1 /\ slot[i] = NUL}) - 1
  IN  [scr EXCEPT ![row] = [c \in DOMAIN @ |-> IF c < n THEN slot[c + 1]
                                               ELSE IF c < Cols - 1 THEN " " ELSE @[c]]]

DrawAll(scr, items) ==
  FoldLeft(LAMBDA s, i : Draw(s, i - 1, items[i]), scr, [i \in DOMAIN items |-> i])

update_cursor(row) == IF row = Rows THEN row - 1 ELSE IF row = 0 THEN 1 ELSE row

(* a plausible bug: no newline after the message *)
write_string_serial_joined(msg) == wire' = IF initialised THEN wire \o msg ELSE wire

write_string_serial(msg) == wire' = IF initialised THEN wire \o msg \o <<NL>> ELSE wire
-----------------------------------------------------------------------------
(* kmain up to init_serial: printk_init, vga_console_init and clear_console. *)
(* The chip is found faulty, and then set in normal operation all the same.  *)
init_serial(chip) == port = chip /\ initialised = TRUE

Init ==
  /\ ringbuffer_init
  /\ logging_level = 1
  /\ screen = Blank /\ cursor = update_cursor(0)
  /\ \E chip \in {"ok", "faulty"} : init_serial(chip)
  /\ wire = <<>> /\ prints = 0

Silent(level) == level > logging_level

write_console(msg) ==
  LET r == FoldLeft(PutLine, [head |-> head, tail |-> tail, data |-> data], Cut(msg))
      items == ringbuffer_for_each(r.head, r.tail, r.data)
  IN  /\ head' = r.head /\ tail' = r.tail /\ data' = r.data
      /\ screen' = DrawAll(screen, items)
      /\ cursor' = update_cursor(Len(items))

printk(level, msg) ==
  /\ prints < MaxPrints /\ prints' = prints + 1
  /\ IF Silent(level) THEN UNCHANGED <<ring, screen, cursor, wire>>
     ELSE write_console(msg) /\ write_string_serial(msg)
  /\ UNCHANGED <<logging_level, port, initialised>>

Next == \E level \in Levels, msg \in Messages : printk(level, msg)

Spec == Init /\ [][Next]_vars
-----------------------------------------------------------------------------
(* Properties *)

(* the string in a slot, up to the first NUL *)
Str(slot) == SubSeq(slot, 1, Min({i \in DOMAIN slot : slot[i] = NUL}) - 1)

Glyph(c) == IF c = NUL THEN " " ELSE c

(* "previous content could've been bigger so clean up the rest of the line":  *)
(* after a printk every row of the screen is a line of the log and blanks,    *)
(* whatever longer line was in that row, or in that slot of the ring, before. *)
(* A NUL shows as a blank.  Rows of empty lines are excepted: they show what  *)
(* the slot held behind the NUL.                                              *)
ScreenShowsLog ==
  LET items == ringbuffer_for_each(head, tail, data)
  IN  \A r \in 0..(Rows - 1) :
        LET line == IF r < Len(items) THEN Str(items[r + 1]) ELSE <<>>
        IN  r >= Len(items) \/ line # <<>> =>
              \A c \in 0..(Cols - 1) :
                Glyph(screen[r][c]) = IF c < Len(line) THEN line[c + 1] ELSE " "

NonEmpty(lines) == SelectSeq(lines, LAMBDA line : line # <<>>)

(* The screen and the serial line agree: the lines in the ring are the last  *)
(* ones that anybody reading the serial line would see, cut at the width of  *)
(* the screen, empty ones aside.  Neither drops, joins or reorders a message. *)
ScreenIsTailOfWire ==
  LET all == NonEmpty(Cut(wire))
      items == ringbuffer_for_each(head, tail, data)
      shown == NonEmpty([i \in DOMAIN items |-> Str(items[i])])
  IN  IsSuffix(shown, all)
=============================================================================
