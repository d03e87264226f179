----------------------------- MODULE MCLibrary -----------------------------
(***************************************************************************)
(* One call of one of the routines that the kernel's boot relies on and    *)
(* that share no state with each other: qsort (module Sort), vsnprintf     *)
(* (Format), the integer helpers (IntMath), a few calls of printk that are *)
(* not interrupted (Console), and the reading of the clock in rtc_init and *)
(* rtc_init_curr_time (Clock), during which the chip runs on.  The         *)
(* variables of the routines that are not called stay 0.                   *)
(***************************************************************************)
EXTENDS Integers, Sequences

CONSTANTS
  MaxLength, Keys,                                                \* Sort
  Items, MaxItems, BufSize, TmpSize, Space, IntBits, LongBits,    \* Format
  Bits, MaxExp,                                                   \* IntMath
  Size, Item, Zeroed, Cols, Rows, Messages, Levels, MaxPrints,    \* Console
  Starts, MaxUpdates                                              \* Clock

VARIABLES
  call,                                                           \* the routine called
  a, calls, i, j, pc,                                             \* Sort
  items, fmt, args, buf, read_chars, done,                        \* Format, and i
  value, e, p, y, exp,                                            \* IntMath, and pc
  head, tail, data, logging_level, screen, cursor, port,
  initialised, wire, prints,                                      \* Console
  time, mode, regs, uip, ripple, updates, ret, shown, unixtime    \* Clock, and pc

sortVars == <<a, calls, j>>
formatVars == <<items, fmt, args, buf, read_chars, done>>
mathVars == <<value, e, p, y, exp>>
consoleVars == <<head, tail, data, logging_level, screen, cursor, port, initialised, wire, prints>>
clockVars == <<time, mode, regs, uip, ripple, updates, ret, shown, unixtime>>
vars == <<call, i, pc, sortVars, formatVars, mathVars, consoleVars, clockVars>>

Qsort == INSTANCE Sort
Printf == INSTANCE Format
Math == INSTANCE IntMath
Screen == INSTANCE Console
Rtc == INSTANCE Clock
-----------------------------------------------------------------------------
NoSort == a = 0 /\ calls = 0 /\ j = 0
NoFormat == items = 0 /\ fmt = 0 /\ args = 0 /\ buf = 0 /\ read_chars = 0 /\ done = 0
NoMath == value = 0 /\ e = 0 /\ p = 0 /\ y = 0 /\ exp = 0
NoConsole ==
  /\ head = 0 /\ tail = 0 /\ data = 0 /\ logging_level = 0 /\ screen = 0 /\ cursor = 0
  /\ port = 0 /\ initialised = 0 /\ wire = 0 /\ prints = 0
NoClock ==
  /\ time = 0 /\ mode = 0 /\ regs = 0 /\ uip = 0 /\ ripple = 0 /\ updates = 0
  /\ ret = 0 /\ shown = 0 /\ unixtime = 0

Init ==
  \/ call = "qsort" /\ Qsort!Init /\ NoFormat /\ NoMath /\ NoConsole /\ NoClock
  \/ call = "vsnprintf" /\ Printf!Init /\ pc = 0 /\ NoSort /\ NoMath /\ NoConsole /\ NoClock
  \/ call = "upow" /\ Math!Init /\ i = 0 /\ NoSort /\ NoFormat /\ NoConsole /\ NoClock
  \/ call = "printk" /\ Screen!Init /\ i = 0 /\ pc = 0 /\ NoSort /\ NoFormat /\ NoMath /\ NoClock
  \/ call = "rtc_init" /\ Rtc!Init /\ i = 0 /\ NoSort /\ NoFormat /\ NoMath /\ NoConsole

qsort == call = "qsort" /\ Qsort!Next /\ UNCHANGED <<call, formatVars, mathVars, consoleVars, clockVars>>
vsnprintf ==
  call = "vsnprintf" /\ Printf!Next /\ UNCHANGED <<call, pc, sortVars, mathVars, consoleVars, clockVars>>
upow ==
  call = "upow" /\ Math!upow /\ UNCHANGED <<call, i, sortVars, formatVars, consoleVars, clockVars>>
printk ==
  call = "printk" /\ Screen!Next /\ UNCHANGED <<call, i, pc, sortVars, formatVars, mathVars, clockVars>>

ClockOnly == call = "rtc_init" /\ UNCHANGED <<call, i, sortVars, formatVars, mathVars, consoleVars>>
rtc_init == ClockOnly /\ Rtc!kmain
update_begin == ClockOnly /\ Rtc!update_begin
update_continue == ClockOnly /\ Rtc!update_continue

Next == qsort \/ vsnprintf \/ upow \/ printk \/ rtc_init \/ update_begin \/ update_continue

(* the processor goes on with the call, and the chip with an update it began *)
Spec == Init /\ [][Next]_vars /\ WF_vars(qsort \/ rtc_init) /\ WF_vars(update_continue)
-----------------------------------------------------------------------------
(* The scans of partition never leave the part of the array they work on.    *)
ScansInside == call = "qsort" => Qsort!ScansInside

(* qsort sorts: the same elements, in the order of their keys.               *)
Sorted == call = "qsort" => Qsort!Sorted

(* What vsnprintf stores is the text that a supported format and its         *)
(* arguments stand for.                                                      *)
Rendered == call = "vsnprintf" => Printf!Rendered

(* The helpers of lib/math compute what their callers take them for.         *)
HelpersExact == call = "upow" => Math!HelpersExact

(* After a printk every row of the screen is a line of the log and blanks.   *)
ScreenShowsLog == call = "printk" => Screen!ScreenShowsLog

(* The lines in the ring are the last ones that went over the serial line.   *)
ScreenIsTailOfWire == call = "printk" => Screen!ScreenIsTailOfWire

(* cmos_read_rtc returns one moment the chip showed while it was called, but *)
(* for some hours of a chip that counts twelve of them.                      *)
ReadingIsAMoment == call = "rtc_init" => Rtc!ReadingIsAMoment

(* Up to the 25th of a month rtc_init keeps the Unix time of that moment.    *)
UnixTimeExact == call = "rtc_init" => Rtc!UnixTimeExact

(* qsort returns, with equal keys too, on which both scans stop, and so do   *)
(* the two readings of the clock, although every update sends the reader     *)
(* back to wait: the boot does not hang in mem_init or in rtc_init.          *)
CallsReturn == <>(call \in {"qsort", "rtc_init"} => pc = "done")
-----------------------------------------------------------------------------
(* Formats.  int has 5 bits and long 8.                                      *)
Arg(n, s) == [num |-> n, str |-> s]
NoArg == Arg(0, <<>>)
Char(c) == [kind |-> "char", chr |-> c, prec |-> <<>>, length |-> 0, arg |-> NoArg]
Conversion(prec, l, c, arg) == [kind |-> "spec", chr |-> c, prec |-> prec, length |-> l, arg |-> arg]
Bad == [kind |-> "bad", chr |-> "z", prec |-> <<>>, length |-> 0, arg |-> NoArg]
Abc == Arg(0, <<"a", "b", "c">>)

MCItems ==
  {Char("z"), Char("x"), Char("TAB"), Bad, Conversion(<<>>, 0, "%", NoArg), Conversion(<<>>, 0, "c", Abc),
   Conversion(<<>>, 0, "s", Abc), Conversion(<<".", "2">>, 0, "s", Abc),
   Conversion(<<".", "1", "2">>, 0, "s", Abc), Conversion(<<>>, 0, "s", NoArg),
   Conversion(<<".", "9">>, 0, "p", Arg(200, <<>>))}
  \cup {Conversion(<<>>, l, c, Arg(n, <<>>)) : l \in 0..2, c \in {"u", "x", "o"}, n \in {0, 10, 255}}
  \cup {Conversion(<<>>, l, "d", Arg(n, <<>>)) : l \in 0..2, n \in {0, 10, 176, 246}}
  \cup {Conversion(<<".", w>>, l, c, Arg(n, <<>>)) :
          w \in {"1", "2"}, l \in {0, 2}, c \in {"u", "d"}, n \in {10, 246}}

(* Messages: one short line; one that is cut; two lines; a newline at the    *)
(* end, and at the start.                                                    *)
MCMessages ==
  {<<"a">>, <<"a", "b", "b", "a", "b">>, <<"b", "NL", "a", "b">>, <<"b", "b", "NL">>,
   <<"NL", "a">>}
MCLine == [1..(Cols + 1) -> {"NUL", " ", "a", "b"}]
MCZeroLine == [c \in 1..(Cols + 1) |-> "NUL"]

(* Moments before which much rolls over, in every mode, and every month of a *)
(* leap year and of others.                                                  *)
Moment(yr, mo, d, h, mi, s) ==
  [second |-> s, minute |-> mi, hour |-> h, day |-> d, month |-> mo, year |-> yr]
At(times, modes) == {[time |-> t, bin |-> m.bin, fmt24 |-> m.fmt24] : t \in times, m \in modes}

MCStarts ==
  At({Moment(21, 12, 31, 23, 59, 59), Moment(24, 2, 28, 23, 59, 59), Moment(99, 9, 9, 19, 59, 58)},
     [bin : BOOLEAN, fmt24 : {TRUE}])
  \cup At({Moment(yr, mo, d, 0, 0, 9) : yr \in {0, 23, 96}, mo \in 1..12, d \in {1, 25}},
           {[bin |-> FALSE, fmt24 |-> TRUE]})
  \cup At({Moment(21, 12, 24, h, 59, 59) : h \in {9, 11, 22}}, [bin : BOOLEAN, fmt24 : {FALSE}])
=============================================================================
