----------------------------- MODULE TaskList -----------------------------
(***************************************************************************)
(* The linked list of the run queue (task/scheduler.c), pointer by pointer. *)
(* A node has the next field that kmalloc happened to leave in it until the *)
(* code writes it.                                                          *)
(***************************************************************************)
EXTENDS Integers, Sequences, FiniteSets

CONSTANTS Node,   \* the task_list_t that kmalloc returns
          NULL

VARIABLES tasks,      \* run_queue.tasks, the head of the list
          next,       \* the next field of every node
          allocated   \* the nodes in use

vars == <<tasks, next, allocated>>

N == Cardinality(Node)

Init ==
  /\ tasks = NULL
  /\ next \in [Node -> Node \cup {NULL}]
  /\ allocated = {}

(* find list's tail: the walk from node h, N steps of it at most *)
TailFrom(h, nx) ==
  LET tmp[k \in 0..N] == IF k = 0 THEN h
                         ELSE IF nx[tmp[k - 1]] = NULL THEN tmp[k - 1]
                         ELSE nx[tmp[k - 1]]
  IN  tmp[N]

(* Faulty variant: the element goes behind the tail and keeps its next field. *)
move_end_unterminated(head, nx, element) == [nx EXCEPT ![TailFrom(head, nx)] = element]

move_end_of_list(head, nx, element) ==
  [nx EXCEPT ![TailFrom(head, nx)] = element, ![element] = NULL]

(* a node taken from the heap, with its next field cleared *)
NewNode(n) == n \notin allocated /\ allocated' = allocated \cup {n}
Cleared(n) == [next EXCEPT ![n] = NULL]

scheduler_init(n) ==
  /\ tasks = NULL /\ NewNode(n)
  /\ next' = Cleared(n)
  /\ tasks' = n

scheduler_add(n) ==
  /\ tasks # NULL /\ NewNode(n)
  /\ next' = move_end_of_list(tasks, Cleared(n), n)
  /\ UNCHANGED tasks

(* The head is moved to the end, unless it is alone. *)
schedule ==
  /\ tasks # NULL /\ next[tasks] # NULL
  /\ tasks' = next[tasks]
  /\ next' = move_end_of_list(next[tasks], next, tasks)
  /\ UNCHANGED allocated

-----------------------------------------------------------------------------
(* The nodes from the head on, to the one that is followed by none, are those *)
(* of q.                                                                      *)
Reads(q) ==
  /\ tasks = IF q = <<>> THEN NULL ELSE q[1]
  /\ \A k \in DOMAIN q : next[q[k]] = IF k = Len(q) THEN NULL ELSE q[k + 1]
=============================================================================
