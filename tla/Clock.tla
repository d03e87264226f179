------------------------------- MODULE Clock -------------------------------
(***************************************************************************)
(* The real-time clock: cmos_read_rtc, which reads the chip register by    *)
(* register while the chip goes on counting, and the two callers in kmain, *)
(* rtc_init and rtc_init_curr_time, which turn the reading into Unix time. *)
(*                                                                         *)
(* The chip is the MC146818 the code is written for: before an update it   *)
(* raises the update-in-progress bit, long enough for a reader that saw    *)
(* the bit clear to read one register; then it advances the registers one  *)
(* by one, the seconds first.  A moment is the record of the six numbers   *)
(* the registers stand for.  Unix time is <<days since 2000, milliseconds  *)
(* of the day>>, as 64-bit milliseconds are beyond TLC's integers; the     *)
(* constant of cmos.h adds the days before 2000.                           *)
(***************************************************************************)
EXTENDS Integers, Sequences, Folds

CONSTANTS
  Starts,       \* the moments and modes [time, bin, fmt24] the chip may start with
  MaxUpdates    \* bound: updates of the chip (less than a minute)

VARIABLES
  time,         \* the moment the chip shows, once an update is complete
  mode,         \* status register B: binary or BCD, 24 or 12 hours
  regs,         \* the registers
  uip,          \* update in progress
  ripple,       \* registers the update has advanced
  updates,      \* updates so far
  pc, ret,      \* cmos_read_rtc: the step, and the bytes read
  shown,        \* the moments of the chip since the call began
  unixtime      \* rtc_startup_unixtime and rtc_curr_unixtime

chip == <<time, mode, regs, uip, ripple, updates>>
vars == <<chip, pc, ret, shown, unixtime>>

Fields == <<"second", "minute", "hour", "day", "month", "year">>
Field == {Fields[i] : i \in DOMAIN Fields}
-----------------------------------------------------------------------------
(* The calendar and the chip (external) *)

Leap(y) == y % 4 = 0 /\ (y % 100 # 0 \/ y % 400 = 0)
DaysIn(m, y) == IF m = 2 THEN (IF Leap(2000 + y) THEN 29 ELSE 28)
                ELSE IF m \in {4, 6, 9, 11} THEN 30 ELSE 31

(* t one second later: the fields below the first that does not roll over   *)
(* start anew                                                               *)
After(t) ==
  LET last == [second |-> 59, minute |-> 59, hour |-> 23, day |-> DaysIn(t.month, t.year),
               month |-> 12, year |-> 99]
      first == [f \in Field |-> IF f \in {"day", "month"} THEN 1 ELSE 0]
      carry(i) == \A j \in 1..(i - 1) : t[Fields[j]] = last[Fields[j]]
  IN  [f \in Field |-> LET i == CHOOSE i \in DOMAIN Fields : Fields[i] = f
                       IN  IF ~carry(i) THEN t[f] ELSE IF carry(i + 1) THEN first[f] ELSE t[f] + 1]

BCD(n) == 16 * (n \div 10) + (n % 10)

(* the bytes a moment is kept as *)
Raw(t, m) ==
  LET digits(n) == IF m.bin THEN n ELSE BCD(n)
      twelve == IF t.hour % 12 = 0 THEN 12 ELSE t.hour % 12
      hour == IF m.fmt24 THEN digits(t.hour)
              ELSE digits(twelve) + (IF t.hour >= 12 THEN 128 ELSE 0)
  IN  [f \in Field |-> IF f = "hour" THEN hour ELSE digits(t[f])]

update_begin ==
  /\ ~uip /\ updates < MaxUpdates
  /\ uip' = TRUE /\ ripple' = 0 /\ updates' = updates + 1
  /\ UNCHANGED <<time, mode, regs, pc, ret, shown, unixtime>>

update_register ==
  /\ uip /\ ripple < Len(Fields)
  /\ ripple = 0 => pc # "second"
  /\ regs' = [regs EXCEPT ![Fields[ripple + 1]] = Raw(After(time), mode)[Fields[ripple + 1]]]
  /\ ripple' = ripple + 1
  /\ UNCHANGED <<time, mode, uip, updates, pc, ret, shown, unixtime>>

update_end ==
  /\ uip /\ ripple = Len(Fields)
  /\ uip' = FALSE /\ time' = After(time) /\ shown' = shown \cup {time'}
  /\ UNCHANGED <<mode, regs, ripple, updates, pc, ret, unixtime>>
-----------------------------------------------------------------------------
(* cmos_read_rtc *)

BCD_TO_BIN(bcd) == (bcd \div 16) * 10 + (bcd % 16)

(* BCD_TO_BIN(hour) | (hour & CMOS_HOUR_PM_MASK) *)
bcd_hour(hour) ==
  IF hour >= 128 /\ BCD_TO_BIN(hour) < 128 THEN BCD_TO_BIN(hour) + 128 ELSE BCD_TO_BIN(hour)

(* what follows the loop *)
convert(r, m) ==
  LET b == [f \in Field |-> IF m.bin THEN r[f]
                            ELSE IF f = "hour" THEN bcd_hour(r[f]) ELSE BCD_TO_BIN(r[f])]
  IN  IF ~m.fmt24 /\ b.hour >= 128 THEN [b EXCEPT !.hour = (b.hour - 128 + 12) % 24] ELSE b

wait_tick ==
  /\ pc \in {"rtc_init", "rtc_init_curr_time", "wait"} /\ ~uip
  /\ pc' = "second"
  /\ shown' = IF pc = "wait" THEN shown ELSE {time}
  /\ UNCHANGED <<chip, ret, unixtime>>

read_register ==
  \E i \in DOMAIN Fields :
    /\ pc = Fields[i]
    /\ ret' = [ret EXCEPT ![Fields[i]] = regs[Fields[i]]]
    /\ pc' = IF i = Len(Fields) THEN "again" ELSE Fields[i + 1]
    /\ UNCHANGED <<chip, shown, unixtime>>

(* a plausible bug: what was read is taken as it is *)
read_again_never == pc = "again" /\ pc' = "convert" /\ UNCHANGED <<chip, ret, shown, unixtime>>

read_again ==
  /\ pc = "again"
  /\ pc' = IF ret.second = regs.second THEN "convert" ELSE "wait"
  /\ UNCHANGED <<chip, ret, shown, unixtime>>
-----------------------------------------------------------------------------
(* rtc_covert_to_unixtime *)

MsecDay == 24 * 60 * 60 * 1000
INT_MAX == 2147483647
month == <<0, 31, 59, 90, 120, 151, 181, 212, 243, 273, 304, 334>>

is_leap_year(year) ==
  IF year % 400 = 0 THEN TRUE ELSE IF year % 100 = 0 THEN FALSE ELSE year % 4 = 0

(* RTC_MILLISEC_IN_DAY * (day - 1) is a product of ints: past INT_MAX it is  *)
(* 2^32 too low, which is 49 days, 17:02:47.296                              *)
day_msecs(n) == IF n <= INT_MAX \div MsecDay THEN <<n, 0>>
                ELSE <<n - 50, MsecDay - 61367296>>

(* a plausible bug: the leap day is added from February on *)
leap_day_early(now) == IF now.month >= 2 /\ is_leap_year(2000 + now.year) THEN 1 ELSE 0

leap_day(now) == IF now.month > 2 /\ is_leap_year(2000 + now.year) THEN 1 ELSE 0

rtc_covert_to_unixtime(now) ==
  LET years == MapThenFoldSet(+, 0, LAMBDA i : IF is_leap_year(2000 + i) THEN 366 ELSE 365,
                              LAMBDA s : CHOOSE i \in s : TRUE, 0..(now.year - 1))
      d == day_msecs(now.day - 1)
      ms == d[2] + 1000 * (60 * (60 * now.hour + now.minute) + now.second)
  IN  <<years + month[now.month] + leap_day(now) + d[1] + ms \div MsecDay, ms % MsecDay>>

(* the rest of rtc_init and of rtc_init_curr_time *)
set_unixtime ==
  /\ pc = "convert"
  /\ unixtime' = Append(unixtime, rtc_covert_to_unixtime(convert(ret, mode)))
  /\ pc' = IF unixtime = <<>> THEN "rtc_init_curr_time" ELSE "done"
  /\ ret' = [f \in Field |-> 0] /\ UNCHANGED <<chip, shown>>

Init ==
  /\ \E s \in Starts : /\ time = s.time /\ mode = [bin |-> s.bin, fmt24 |-> s.fmt24]
                       /\ regs = Raw(time, mode)
  /\ uip = FALSE /\ ripple = 0 /\ updates = 0
  /\ pc = "rtc_init" /\ ret = [f \in Field |-> 0]
  /\ shown = {} /\ unixtime = <<>>

(* the chip completes an update it began *)
update_continue == update_register \/ update_end

kmain == wait_tick \/ read_register \/ read_again \/ set_unixtime

Next == update_begin \/ update_continue \/ kmain

ClockSpec == Init /\ [][Next]_vars
-----------------------------------------------------------------------------
(* Properties *)

Reading == convert(ret, mode)

(* The hours of a chip that counts twelve which convert gets wrong: noon and *)
(* midnight, which it takes for each other, and in BCD all of the afternoon, *)
(* since BCD_TO_BIN counts the PM bit as eight tens.                         *)
Misread(t, m) == ~m.fmt24 /\ (t.hour % 12 = 0 \/ (~m.bin /\ t.hour >= 12))

(* What cmos_read_rtc has read when its loop ends are the registers of one   *)
(* moment that the chip showed during the call, however the updates fall     *)
(* between the reads ("ensure that we got that as part of a single tick").   *)
(* And it returns that moment, whatever the mode of the registers is, but    *)
(* for the hours above.                                                      *)
ReadingIsAMoment ==
  pc = "convert" => \E t \in shown : ret = Raw(t, mode) /\ (Misread(t, mode) \/ Reading = t)

(* days since 2000, by the lengths of the months *)
DayNumber(t) ==
  365 * t.year + (t.year + 3) \div 4 + t.day - 1
  + MapThenFoldSet(+, 0, LAMBDA m : DaysIn(m, t.year), LAMBDA s : CHOOSE m \in s : TRUE,
                   1..(t.month - 1))

Exact(t) ==
  rtc_covert_to_unixtime(t) = <<DayNumber(t), 1000 * (60 * (60 * t.hour + t.minute) + t.second)>>

(* Up to the 25th of a month, what rtc_init keeps is the Unix time of a      *)
(* moment, in every month of leap years and others.                          *)
UnixTimeExact == pc = "convert" /\ Reading.day <= 25 => Exact(Reading)
=============================================================================
