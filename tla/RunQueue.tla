----------------------------- MODULE RunQueue -----------------------------
(***************************************************************************)
(* What the list of the scheduler promises: a queue to whose end a task is *)
(* added once, and whose head is moved to the end when it is chosen.        *)
(***************************************************************************)
EXTENDS Sequences

CONSTANT Member

VARIABLE queue

Init == queue = <<>>

Add == \E t \in Member : /\ \A i \in DOMAIN queue : queue[i] # t
                         /\ queue' = Append(queue, t)

Rotate == queue # <<>> /\ queue' = Append(Tail(queue), Head(queue))

Spec == Init /\ [][Add \/ Rotate]_queue
=============================================================================
