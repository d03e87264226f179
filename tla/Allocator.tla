----------------------------- MODULE Allocator -----------------------------
(***************************************************************************)
(* What the kernel's memory allocator promises to the callers of kmalloc   *)
(* and kfree, without the buddy tree: bytes that are handed out belong to  *)
(* one caller, and the bytes set aside at boot to none.                    *)
(***************************************************************************)
EXTENDS Integers

CONSTANTS Space,      \* the addresses that are managed
          Requests    \* the sizes asked for

VARIABLES live,       \* <<ptr, bytes>> handed out and not yet given back
          keep,       \* the bytes never to be handed out
          down        \* the kernel stopped

vars == <<live, keep, down>>

BytesOf(a) == a[1]..(a[1] + a[2] - 1)
Taken == UNION {BytesOf(a) : a \in live}

Init == live = {} /\ keep \subseteq Space /\ down = FALSE

Alloc(bytes) ==
  /\ ~down
  /\ \E ptr \in Space : /\ BytesOf(<<ptr, bytes>>) \subseteq Space \ (keep \cup Taken)
                        /\ live' = live \cup {<<ptr, bytes>>}
  /\ UNCHANGED <<keep, down>>

Free(a) ==
  /\ ~down /\ a \in live
  /\ live' = live \ {a}
  /\ UNCHANGED <<keep, down>>

Halt == ~down /\ down' = TRUE /\ UNCHANGED <<live, keep>>

Next ==
  \/ \E bytes \in Requests : Alloc(bytes)
  \/ \E a \in live : Free(a)
  \/ Halt

Spec == Init /\ [][Next]_vars
=============================================================================
