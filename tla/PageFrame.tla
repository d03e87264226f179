----------------------------- MODULE PageFrame -----------------------------
(***************************************************************************)
(* The database of the frames that page tables are made of                 *)
(* (mm/pageframe.c): a list of free frames and one of used frames, both    *)
(* linked through the same nodes.  A list is the sequence of the addresses *)
(* in its nodes, first node first.                                         *)
(***************************************************************************)
EXTENDS Integers, Sequences, Functions

(* every frame is put in front of the ones before it *)
pageframe_init(frames) ==
  [free |-> [i \in 1..Len(frames) |-> frames[Len(frames) + 1 - i]], used |-> <<>>]

(* a plausible bug: the frame is not linked into the used list *)
pageframe_alloc_lost(pfdb) == [free |-> Tail(pfdb.free), used |-> pfdb.used]

(* the head of the free list becomes the head of the used list *)
pageframe_alloc(pfdb) ==
  [free |-> Tail(pfdb.free), used |-> <<Head(pfdb.free)>> \o pfdb.used]

(* the first node with the address is unlinked, wherever it is, and put in *)
(* front of the free list                                                  *)
delete_node(list, frame) ==
  LET i == CHOOSE j \in DOMAIN list : list[j] = frame /\ \A k \in 1..(j-1) : list[k] # frame
  IN  SubSeq(list, 1, i - 1) \o SubSeq(list, i + 1, Len(list))

pageframe_free(pfdb, frame) ==
  [free |-> <<frame>> \o pfdb.free, used |-> delete_node(pfdb.used, frame)]

(* The two lists of a database share out the frames it was made of: every   *)
(* frame of S is in exactly one of them, once.                             *)
Split(pfdb, S) ==
  /\ IsInjective(pfdb.free) /\ IsInjective(pfdb.used)
  /\ Range(pfdb.free) \cap Range(pfdb.used) = {}
  /\ Range(pfdb.free) \cup Range(pfdb.used) = S
=============================================================================
