-------------------------- MODULE SchedulerOnList --------------------------
(***************************************************************************)
(* The scheduler of module Scheduler, whose run queue is a sequence of      *)
(* pids, in step with the linked list of module TaskList that the code      *)
(* keeps it in.  The node of a task is called by its pid.                   *)
(***************************************************************************)
EXTENDS Scheduler

VARIABLES
  head,       \* run_queue.tasks
  next,       \* the next field of every node
  allocated   \* the nodes in use

listVars == <<head, next, allocated>>

List == INSTANCE TaskList WITH Node <- Task, tasks <- head

(* kmain's calls of scheduler_init and scheduler_add change the list. *)
kmain_on_list ==
  /\ kmain
  /\ \/ pc = "scheduler_init" /\ List!scheduler_init(1)
     \/ pc = "scheduler_add" /\ List!scheduler_add(find_free_pid)
     \/ pc \notin {"scheduler_init", "scheduler_add"} /\ UNCHANGED listVars

(* A switch moves the head of the list to the end, unless it is alone. *)
timer_on_list ==
  /\ timer_interrupt
  /\ IF curr' # curr /\ next[head] # NULL THEN List!schedule ELSE UNCHANGED listVars

others_on_list ==
  /\ \/ user_step
     \/ keyboard_interrupt \/ lpt1_interrupt \/ spurious_interrupt
     \/ \E line \in Lines : Raise(line)
  /\ UNCHANGED listVars

ListSpec ==
  /\ Init /\ List!Init
  /\ [][kmain_on_list \/ timer_on_list \/ others_on_list]_<<vars, listVars>>
  /\ Fairness
-----------------------------------------------------------------------------
(* The pointer updates of scheduler_add and schedule lose no node and close  *)
(* no cycle: whatever kmalloc left in the nodes, the list read from its head *)
(* on is the queue of tasks, in its order.                                   *)
ListIsQueue == List!Reads(tasks)
=============================================================================
