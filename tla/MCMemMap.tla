----------------------------- MODULE MCMemMap -----------------------------
(* Memory maps of a few dozen bytes: the first "megabyte" has 4 of them, a *)
(* page 2, and the kernel is loaded at 8.                                  *)
EXTENDS MemMap

MCKernelEnds == {9, 11}

(* Ranges above the first megabyte; each is usable, reserved, ACPI data or *)
(* (HOLE) not in the list at all.                                          *)
HOLE == 0
Ranges == <<<<4, 14>>, <<14, 18>>, <<18, 32>>, <<32, 36>>, <<44, 48>>>>
Low == <<Entry(0, 3, USABLE), Entry(3, 1, RESERVED)>>

High(types, ranges) ==
  SelectSeq([i \in 1..Len(ranges) |->
               Entry(ranges[i][1], ranges[i][2] - ranges[i][1], types[i])],
            LAMBDA e : e.type # HOLE)

(* Usable memory starts where another region ends. *)
NoHoleBefore(s) ==
  \A i \in 1..Len(s) : s[i].type = USABLE =>
    s[i].base_addr = FirstMb \/ \E j \in 1..Len(s) : End(s[j]) = s[i].base_addr

Typings == {t \in [1..5 -> {HOLE, USABLE, RESERVED, 3}] :
              /\ t[1] = USABLE \/ t[2] = USABLE
              /\ \E i \in 4..5 : t[i] # HOLE}

(* In ascending order, and with the last region first. *)
MCBiosMaps ==
  LET highs == {s \in {High(t, Ranges) : t \in Typings} : Len(s) >= 2 /\ NoHoleBefore(s)}
  IN  {Low \o s : s \in highs} \cup {<<Last(s)>> \o Low \o Front(s) : s \in highs}

(* A PC with 32 bytes of memory as QEMU reports it: the last 2 are         *)
(* reserved, and so is the BIOS ROM far above.                             *)
QemuMaps == {Low \o <<Entry(4, 26, USABLE), Entry(30, 2, RESERVED), Entry(44, 4, RESERVED)>>}
=============================================================================
