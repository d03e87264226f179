----------------------------- MODULE LastLines -----------------------------
(***************************************************************************)
(* What the console promises to remember: the last Size lines, oldest      *)
(* first.                                                                  *)
(***************************************************************************)
EXTENDS Integers, Sequences

CONSTANTS Size, Item

VARIABLE lines

(* one line more; the oldest goes when there is no room *)
Push(log, x) ==
  IF Len(log) < Size
  THEN [i \in 1..(Len(log) + 1) |-> IF i = Len(log) + 1 THEN x ELSE log[i]]
  ELSE [i \in 1..Size |-> IF i = Size THEN x ELSE log[i + 1]]

Init == lines = <<>>
Next == \E x \in Item : lines' = Push(lines, x)
Spec == Init /\ [][Next]_lines
=============================================================================
