-------------------------------- MODULE Sort --------------------------------
(***************************************************************************)
(* qsort, which the memory map is sorted with: shuffle, and then quicksort *)
(* with the first element as the pivot, one comparison a step.  An element *)
(* is <<key, identity>>; cmp looks at the key.  rand is any number.  calls *)
(* holds the arguments lo and hi of the calls of sort that are still to be *)
(* made, the next one last.  Indexes start at 0, as in the code.           *)
(***************************************************************************)
EXTENDS Integers, Sequences

CONSTANTS
  MaxLength,    \* bound: num_elems
  Keys          \* bound: keys of the elements

VARIABLES a, calls, i, j, pc

vars == <<a, calls, i, j, pc>>

num_elems == Len(a)
Key(x) == a[x + 1][1]
this_call == calls[Len(calls)]
other_calls == SubSeq(calls, 1, Len(calls) - 1)
lo == this_call[1]
hi == this_call[2]

(* a plausible bug: only one of the two is written *)
EXCH_one(x, y) == a' = [a EXCEPT ![x + 1] = a[y + 1]]

EXCH(x, y) == a' = [a EXCEPT ![x + 1] = a[y + 1], ![y + 1] = a[x + 1]]

Init ==
  /\ \E n \in 0..MaxLength : \E k \in [1..n -> Keys] : a = [x \in 1..n |-> <<k[x], x>>]
  /\ calls = <<>> /\ i = 0 /\ j = 0 /\ pc = "qsort"

(* the sanity check of qsort *)
qsort ==
  /\ pc = "qsort"
  /\ pc' = IF num_elems < 2 THEN "done" ELSE "shuffle"
  /\ UNCHANGED <<a, calls, i, j>>

(* a plausible bug: the loop does not advance *)
shuffle_stuck ==
  /\ pc = "shuffle" /\ i < num_elems
  /\ \E rand \in 0..(num_elems - 2) : EXCH(i, (rand % (num_elems - 1)) + 1)
  /\ UNCHANGED <<calls, i, j, pc>>

(* one turn of the loop of shuffle; its i is i *)
shuffle ==
  /\ pc = "shuffle" /\ i < num_elems
  /\ \E rand \in 0..(num_elems - 2) : EXCH(i, (rand % (num_elems - 1)) + 1)
  /\ i' = i + 1
  /\ UNCHANGED <<calls, j, pc>>

shuffled ==
  /\ pc = "shuffle" /\ i = num_elems
  /\ calls' = <<<<0, num_elems - 1>>>> /\ pc' = "sort" /\ i' = 0
  /\ UNCHANGED <<a, j>>

partition_start ==
  /\ pc = "sort" /\ calls # <<>> /\ hi > lo
  /\ i' = lo /\ j' = hi + 1 /\ pc' = "scan_i"
  /\ UNCHANGED <<a, calls>>

(* the base case of sort *)
sort_return ==
  /\ pc = "sort" /\ calls # <<>> /\ hi <= lo
  /\ calls' = other_calls
  /\ UNCHANGED <<a, i, j, pc>>

qsort_return ==
  /\ pc = "sort" /\ calls = <<>>
  /\ pc' = "done"
  /\ UNCHANGED <<a, calls, i, j>>

(* a plausible bug: the scan does not stop at hi *)
scan_i_past ==
  /\ pc = "scan_i"
  /\ i' = i + 1
  /\ pc' = IF Key(i') < Key(lo) THEN "scan_i" ELSE "scan_j"
  /\ UNCHANGED <<a, calls, j>>

scan_i ==
  /\ pc = "scan_i"
  /\ i' = i + 1
  /\ pc' = IF Key(i') < Key(lo) /\ i' # hi THEN "scan_i" ELSE "scan_j"
  /\ UNCHANGED <<a, calls, j>>

scan_j ==
  /\ pc = "scan_j"
  /\ j' = j - 1
  /\ pc' = IF Key(lo) < Key(j') /\ j' # lo THEN "scan_j" ELSE "cross"
  /\ UNCHANGED <<a, calls, i>>

partition_exchange ==
  /\ pc = "cross" /\ i < j
  /\ EXCH(i, j) /\ pc' = "scan_i"
  /\ UNCHANGED <<calls, i, j>>

(* the two calls at the end of sort; size_t does not allow 0 - 1 *)
sort_halves == <<<<j + 1, hi>>>> \o (IF j > 0 THEN <<<<lo, j - 1>>>> ELSE <<>>)

partition_end ==
  /\ pc = "cross" /\ i >= j
  /\ EXCH(lo, j)
  /\ calls' = other_calls \o sort_halves /\ pc' = "sort" /\ i' = 0 /\ j' = 0

Next ==
  \/ qsort \/ shuffle \/ shuffled \/ partition_start \/ sort_return \/ qsort_return
  \/ scan_i \/ scan_j \/ partition_exchange \/ partition_end

SortSpec == Init /\ [][Next]_vars
-----------------------------------------------------------------------------
(* Properties *)

(* The scans of partition compare elements of their own part of the array    *)
(* only: neither runs past an end of it, nor j below 0, which size_t cannot  *)
(* hold.                                                                     *)
ScansInside ==
  /\ pc = "scan_i" => i + 1 \in lo..hi
  /\ pc = "scan_j" => j - 1 \in lo..hi

(* qsort sorts: the same elements in the order of their keys.                *)
Sorted ==
  pc = "done" =>
    /\ \A x, y \in DOMAIN a : x < y => a[x][1] <= a[y][1]
    /\ {a[x][2] : x \in DOMAIN a} = DOMAIN a
=============================================================================
