------------------------------ MODULE MCBuddy ------------------------------
(* Instances of Buddy for TLC: sixteen bytes in blocks of two. *)
EXTENDS Buddy

rg(b, l) == [base_addr |-> b, length |-> l]

(* Byte 0 is reserved in every map, as mem_reserve_first_mb makes it.  The *)
(* lists have lengths that are not multiples of a block, regions off the   *)
(* alignment of their size, a region past the end of the content region,   *)
(* and overlapping regions.                                                *)
MCReservedMaps ==
  {<<rg(0, 2)>>,
   <<rg(0, 3), rg(6, 4)>>,
   <<rg(0, 1), rg(2, 13)>>,
   <<rg(0, 6), rg(8, 1), rg(14, 4)>>,
   <<rg(0, 4), rg(2, 2)>>,
   <<rg(0, 2), rg(0, 8)>>,
   <<rg(0, 2), rg(8, 4), rg(8, 4)>>,
   <<rg(0, 5), rg(6, 8)>>}
MCRequests == {1, 2, 3, 5, 8}
=============================================================================
