----------------------------- MODULE Scheduler -----------------------------
(***************************************************************************)
(* The kernel's concurrency: kmain (main.c) from the point where it has     *)
(* enabled interrupts, the interrupt controller (arch/pic.c), the handlers  *)
(* of timer, keyboard and spurious interrupts (interrupt/idt.c), the        *)
(* scheduler (task/scheduler.c) and the context switch (task/process.c).    *)
(*                                                                         *)
(* Every IDT entry is an interrupt gate: a handler runs with interrupts off *)
(* and is one step, during which devices may only latch requests.  The run  *)
(* queue is the sequence of the pids in its list (see module TaskList).     *)
(***************************************************************************)
EXTENDS Integers, Sequences, FiniteSetsExt

CONSTANTS
  NTasks,     \* the processes kmain creates (99)
  Slice,      \* ticks between two forced switches (10)
  Wrap,       \* jiffies is counted modulo Wrap (2^64)
  Words,      \* bound: the values a task register may take
  MaxShifts   \* bound: the doublings until loops_per_jiffy is 0

ASSUME SchedulerAssumption ==
  /\ NTasks \in Nat \ {0} /\ Slice \in Nat \ {0} /\ Wrap \in Nat \ {0}
  /\ Words \in Nat \ {0} /\ MaxShifts \in Nat

VARIABLES
  pc,           \* the next step of kmain
  ticks,        \* calibrate_delay: its local variable
  shifts,       \* calibrate_delay: how often loops_per_jiffy was doubled
  cpu,          \* the context the processor executes
  space,        \* CR3 and the kernel stack of the TSS, by the pid they belong to
  irr, isr, imr,  \* the controller: lines latched, in service and masked
  jiffies,
  initialised, tasks, curr, need_resched,  \* the scheduler
  ctx,          \* the context saved in each task_struct_t
  work,         \* history: the context each task had when it last ran
  halted        \* a BUG_ON fired

kmainVars == <<pc, ticks, shifts>>
picVars == <<irr, isr, imr>>
rqVars == <<initialised, tasks, curr, need_resched>>
vars == <<kmainVars, cpu, space, picVars, jiffies, rqVars, ctx, work, halted>>

-----------------------------------------------------------------------------
Timer == 0
Keyboard == 1
Lpt1 == 7
Lines == {Timer, Keyboard, Lpt1}

NULL == 0                 \* no task; as the owner of a context, kmain
Task == 1..NTasks
Word == 0..(Words - 1)
Context == [owner : {NULL} \cup Task, regs : Word, rip : Word, rsp : Word, intr : BOOLEAN]

(* what the processor starts with when it executes for the first time *)
Fresh(t) == [owner |-> t, regs |-> 0, rip |-> 0, rsp |-> 0, intr |-> TRUE]
Zeroed == [owner |-> NULL, regs |-> 0, rip |-> 0, rsp |-> 0, intr |-> FALSE]

Init ==
  /\ pc = "spurious_irq_enable" /\ ticks = 0 /\ shifts = 0
  /\ cpu = Fresh(NULL)
  /\ space = [cr3 |-> NULL, rsp0 |-> NULL]
  /\ irr = {} /\ isr = {} /\ imr = Lines
  /\ jiffies = 0
  /\ initialised = FALSE /\ tasks = <<>> /\ curr = NULL /\ need_resched = FALSE
  /\ ctx = [t \in Task |-> Zeroed]
  /\ work = [t \in Task |-> Zeroed]
  /\ halted = FALSE
-----------------------------------------------------------------------------
(* kmain *)

Kmain(from, to) == pc = from /\ pc' = to /\ cpu.owner = NULL /\ ~halted

(* interrupts off, unmask, interrupts on *)
irq_enable(line, from, to) ==
  /\ Kmain(from, to)
  /\ imr' = imr \ {line}
  /\ cpu' = [cpu EXCEPT !.intr = TRUE]
  /\ UNCHANGED <<ticks, shifts, space, irr, isr, jiffies, rqVars, ctx, work, halted>>

spurious_irq_enable == irq_enable(Lpt1, "spurious_irq_enable", "keyboard_enable")
keyboard_enable == irq_enable(Keyboard, "keyboard_enable", "pit_enable")
pit_enable == irq_enable(Timer, "pit_enable", "calibrate_delay")

(* calibrate_delay: double, wait for a tick, run the delay loop; ticks goes  *)
(* out of scope at the end.  jiffies is not volatile, but the build does not *)
(* optimise, so every read of it is a read of memory.                        *)
calibrate_read ==
  /\ Kmain("calibrate_delay", IF shifts = MaxShifts THEN "disable_interrupts" ELSE "wait")
  /\ shifts' = IF shifts = MaxShifts THEN shifts ELSE shifts + 1
  /\ ticks' = IF shifts = MaxShifts THEN 0 ELSE jiffies
  /\ UNCHANGED <<cpu, space, picVars, jiffies, rqVars, ctx, work, halted>>

calibrate_wait ==
  /\ Kmain("wait", "delay") /\ ticks # jiffies
  /\ ticks' = jiffies
  /\ UNCHANGED <<shifts, cpu, space, picVars, jiffies, rqVars, ctx, work, halted>>

calibrate_loop ==
  /\ Kmain("delay", IF ticks # jiffies THEN "disable_interrupts" ELSE "calibrate_delay")
  /\ ticks' = 0
  /\ UNCHANGED <<shifts, cpu, space, picVars, jiffies, rqVars, ctx, work, halted>>

(* Faulty variants, here and below, show that the properties can fail:       *)
(* interrupts left as they are,                                             *)
set_interrupts_not(on, from, to) ==
  /\ Kmain(from, to)
  /\ UNCHANGED <<ticks, shifts, cpu, space, picVars, jiffies, rqVars, ctx, work, halted>>

set_interrupts(on, from, to) ==
  /\ Kmain(from, to)
  /\ cpu' = [cpu EXCEPT !.intr = on]
  /\ UNCHANGED <<ticks, shifts, space, picVars, jiffies, rqVars, ctx, work, halted>>

(* the first pid not taken; none is ever given back *)
find_free_pid == Len(tasks) + 1

create_process(t) ==
  /\ ctx' = [ctx EXCEPT ![t] = Fresh(t)]
  /\ work' = [work EXCEPT ![t] = Fresh(t)]

AfterAdd(n) == IF n = NTasks THEN "enable_interrupts" ELSE "scheduler_add"

scheduler_init ==
  /\ Kmain("scheduler_init", AfterAdd(1))
  /\ halted' = (tasks # <<>>)
  /\ create_process(1)
  /\ tasks' = <<1>> /\ initialised' = TRUE
  /\ UNCHANGED <<ticks, shifts, cpu, space, picVars, jiffies, curr, need_resched>>

scheduler_add ==
  /\ Kmain("scheduler_add", AfterAdd(find_free_pid))
  /\ create_process(find_free_pid)
  /\ tasks' = Append(tasks, find_free_pid)
  /\ UNCHANGED <<ticks, shifts, cpu, space, picVars, jiffies, initialised, curr, need_resched, halted>>

kmain ==
  \/ spurious_irq_enable \/ keyboard_enable \/ pit_enable
  \/ calibrate_read \/ calibrate_wait \/ calibrate_loop
  \/ set_interrupts(FALSE, "disable_interrupts", "scheduler_init")
  \/ scheduler_init \/ scheduler_add
  \/ set_interrupts(TRUE, "enable_interrupts", "hlt")
-----------------------------------------------------------------------------
(* Devices and user programs *)

Raise(line) ==
  /\ line \notin irr
  /\ irr' = irr \cup {line}
  /\ UNCHANGED <<kmainVars, cpu, space, isr, imr, jiffies, rqVars, ctx, work, halted>>

user_step ==
  /\ cpu.owner # NULL /\ ~halted
  /\ \E f \in {"regs", "rip", "rsp"} : cpu' = [cpu EXCEPT ![f] = (@ + 1) % Words]
  /\ work' = [work EXCEPT ![cpu.owner] = cpu']
  /\ UNCHANGED <<kmainVars, space, picVars, jiffies, rqVars, ctx, halted>>
-----------------------------------------------------------------------------
(* The interrupt controller: fixed priorities, and an end-of-interrupt      *)
(* command that clears the line in service with the highest one.            *)

Deliverable(line) ==
  /\ cpu.intr /\ ~halted
  /\ line \in irr \ imr
  /\ \A other \in (irr \ imr) \cup isr : line <= other
  /\ line \notin isr

(* an interrupt that is not acknowledged, *)
pic_no_eoi(s) == s
pic_send_eoi(s) == IF s = {} THEN s ELSE s \ {Min(s)}
pic_mask_irq(s, line) == s \cup {line}
pic_unmask_irq(s, line) == s \ {line}
-----------------------------------------------------------------------------
(* The scheduler *)

scheduler_tick(now) ==
  need_resched \/ (initialised /\ (curr = NULL \/ now % Slice = 0))

(* a register not saved, *)
switch_without_rsp(next) ==
  /\ ctx' = IF curr = NULL THEN ctx ELSE [ctx EXCEPT ![curr] = [cpu EXCEPT !.rsp = ctx[curr].rsp]]
  /\ cpu' = ctx[next]
  /\ space' = [cr3 |-> next, rsp0 |-> next]

(* The registers that the processor and the vector's entry code push on the  *)
(* stack, and that its exit code pops.                                       *)
int_frame == cpu

launch_process(task) == space' = [cr3 |-> task, rsp0 |-> task]

(* The interrupted context is saved in the task_struct_t of curr, if any,    *)
(* and that of next is what the interrupt returns to.                        *)
process_context_switch(next) ==
  /\ ctx' = IF curr = NULL THEN ctx ELSE [ctx EXCEPT ![curr] = int_frame]
  /\ int_frame' = ctx[next]
  /\ launch_process(next)

NothingElseToRun == tasks = <<>> \/ (curr # NULL /\ Len(tasks) = 1)

(* a request that stays, a task that is swapped with the next one only, or   *)
(* one that is dropped from the list.                                        *)
schedule_again ==
  IF NothingElseToRun
  THEN need_resched' = TRUE /\ UNCHANGED <<tasks, curr, cpu, ctx, space>>
  ELSE /\ tasks' = IF Len(tasks) > 1 THEN Append(Tail(tasks), Head(tasks)) ELSE tasks
       /\ curr' = Head(tasks)
       /\ need_resched' = TRUE
       /\ process_context_switch(Head(tasks))
schedule_second ==
  IF NothingElseToRun
  THEN need_resched' = TRUE /\ UNCHANGED <<tasks, curr, cpu, ctx, space>>
  ELSE /\ tasks' = <<tasks[2], tasks[1]>> \o Tail(Tail(tasks))
       /\ curr' = Head(tasks)
       /\ need_resched' = FALSE
       /\ process_context_switch(Head(tasks))
schedule_drop ==
  IF NothingElseToRun
  THEN need_resched' = TRUE /\ UNCHANGED <<tasks, curr, cpu, ctx, space>>
  ELSE /\ tasks' = IF Len(tasks) > 1 THEN Tail(tasks) ELSE tasks
       /\ curr' = Head(tasks)
       /\ need_resched' = FALSE
       /\ process_context_switch(Head(tasks))

schedule ==
  IF NothingElseToRun
  THEN need_resched' = TRUE /\ UNCHANGED <<tasks, curr, cpu, ctx, space>>
  ELSE /\ tasks' = IF Len(tasks) > 1 THEN Append(Tail(tasks), Head(tasks)) ELSE tasks
       /\ curr' = Head(tasks)
       /\ need_resched' = FALSE
       /\ process_context_switch(Head(tasks))

(* The handlers.  Returning from the interrupt restores the context, and     *)
(* with it the interrupt flag.                                               *)
timer_interrupt ==
  /\ Deliverable(Timer)
  /\ irr' = irr \ {Timer}
  /\ imr' = pic_unmask_irq(pic_mask_irq(imr, Timer), Timer)
  /\ isr' = pic_send_eoi(isr \cup {Timer})
  /\ jiffies' = (jiffies + 1) % Wrap
  /\ IF scheduler_tick(jiffies')
     THEN schedule /\ halted' = ~initialised
     ELSE UNCHANGED <<tasks, curr, need_resched, cpu, ctx, space, halted>>
  /\ UNCHANGED <<kmainVars, initialised, work>>

(* the handler unmasks the keyboard's line before and after *)
keyboard_interrupt ==
  /\ Deliverable(Keyboard)
  /\ irr' = irr \ {Keyboard}
  /\ imr' = pic_unmask_irq(pic_unmask_irq(imr, Keyboard), Keyboard)
  /\ isr' = pic_send_eoi(isr \cup {Keyboard})
  /\ UNCHANGED <<kmainVars, cpu, space, jiffies, rqVars, ctx, work, halted>>

spurious_handle_irq(s) == IF Lpt1 \in s THEN pic_send_eoi(s) ELSE s

lpt1_interrupt ==
  /\ Deliverable(Lpt1)
  /\ irr' = irr \ {Lpt1}
  /\ imr' = pic_unmask_irq(pic_mask_irq(imr, Lpt1), Lpt1)
  /\ isr' = spurious_handle_irq(isr \cup {Lpt1})
  /\ UNCHANGED <<kmainVars, cpu, space, jiffies, rqVars, ctx, work, halted>>

(* A line that is open withdrew its request: the controller delivers the     *)
(* vector of line 7 without putting it in service.                           *)
spurious_interrupt ==
  /\ cpu.intr /\ ~halted
  /\ imr # Lines
  /\ imr' = pic_unmask_irq(pic_mask_irq(imr, Lpt1), Lpt1)
  /\ isr' = spurious_handle_irq(isr)
  /\ UNCHANGED <<kmainVars, cpu, space, irr, jiffies, rqVars, ctx, work, halted>>

interrupt_handler == timer_interrupt \/ keyboard_interrupt \/ lpt1_interrupt \/ spurious_interrupt

Next == kmain \/ user_step \/ interrupt_handler \/ \E line \in Lines : Raise(line)

Spec == Init /\ [][Next]_vars

(* The timer chip never stops; a pending timer interrupt has the highest     *)
(* priority; kmain runs between two interrupts, more often than the counter  *)
(* wraps around.                                                             *)
Fairness == WF_vars(Raise(Timer)) /\ WF_vars(timer_interrupt) /\ SF_vars(kmain)
-----------------------------------------------------------------------------
(* Type correctness of the state of kmain, controller and scheduler. *)
Steps == {"spurious_irq_enable", "keyboard_enable", "pit_enable", "calibrate_delay", "wait",
          "delay", "disable_interrupts", "scheduler_init", "scheduler_add",
          "enable_interrupts", "hlt"}
TypeOK ==
  /\ pc \in Steps /\ ticks \in 0..(Wrap - 1) /\ shifts \in 0..MaxShifts
  /\ cpu \in Context
  /\ space \in [cr3 : {NULL} \cup Task, rsp0 : {NULL} \cup Task]
  /\ irr \subseteq Lines /\ isr \subseteq Lines /\ imr \subseteq Lines
  /\ jiffies \in 0..(Wrap - 1)
  /\ initialised \in BOOLEAN /\ need_resched \in BOOLEAN /\ halted \in BOOLEAN
  /\ tasks \in Seq(Task) /\ curr \in {NULL} \cup Task
  /\ ctx \in [Task -> Context] /\ work \in [Task -> Context]

(* A task never notices that it was interrupted: whoever ran in between, it  *)
(* goes on with all the registers it had, and what is in the task_struct_t   *)
(* of a task that waits is what it will go on with.                          *)
ContextsKept ==
  \A t \in Task : IF t = curr THEN cpu = work[t] ELSE ctx[t] = work[t]

(* The address space and the kernel stack are those of the task that runs:   *)
(* the next interrupt does not write its frame on another task's stack.      *)
SpaceOfCurr == cpu.owner = curr /\ space = [cr3 |-> curr, rsp0 |-> curr]

(* Rotating the list loses and repeats no task and keeps their cyclic order, *)
(* and the task that runs is the last one: it is served after all others.    *)
Succ(t) == IF t = NTasks THEN 1 ELSE t + 1
RoundRobin ==
  pc = "hlt" =>
    /\ Len(tasks) = NTasks
    /\ \A i \in 1..(NTasks - 1) : tasks[i + 1] = Succ(tasks[i])
    /\ curr # NULL => tasks[NTasks] = curr

(* Whenever an interrupt can arrive, none is in service and the lines that   *)
(* kmain has enabled are open: no handler leaves its own line blocked.       *)
Enabled ==
  IF pc = "spurious_irq_enable" THEN {}
  ELSE IF pc = "keyboard_enable" THEN {Lpt1}
  ELSE IF pc = "pit_enable" THEN {Lpt1, Keyboard}
  ELSE Lines
LinesOpen == cpu.intr => isr = {} /\ imr \cap Enabled = {}

(* The timer runs while kmain is still starting the scheduler; the BUG_ONs   *)
(* of schedule and scheduler_init never fire.                                *)
NeverHalts == ~halted

(* A task that got the processor keeps it until a tick that is a multiple of *)
(* Slice: a reschedule request does not outlive the switch it caused.        *)
TimeSlice == [][curr # NULL /\ curr' # curr => jiffies' % Slice = 0]_vars

(* The inductive invariant behind the properties above: what kmain has done  *)
(* at each of its steps, with interrupts off while it fills the run queue,   *)
(* and that the contexts in the queue belong to their tasks.                 *)
Filling == pc \in {"scheduler_init", "scheduler_add", "enable_interrupts"}
Filled == pc \in {"enable_interrupts", "hlt"}
QueueInv ==
  /\ initialised <=> tasks # <<>>
  /\ tasks # <<>> => Filled \/ pc = "scheduler_add"
  /\ pc = "scheduler_add" => Len(tasks) \in 1..(NTasks - 1)
  /\ pc = "scheduler_add" => \A i \in 1..Len(tasks) : tasks[i] = i
  /\ Filled => /\ Len(tasks) = NTasks
               /\ \A i \in 1..(NTasks - 1) : tasks[i + 1] = Succ(tasks[i])
               /\ Succ(tasks[NTasks]) = tasks[1]
  /\ curr # NULL => pc = "hlt" /\ tasks[NTasks] = curr
  /\ need_resched => curr # NULL /\ NTasks = 1
OwnersInv ==
  /\ pc = "scheduler_add" => \A t \in 1..Len(tasks) : ctx[t].owner = t
  /\ Filled => \A t \in Task : ctx[t].owner = t
IInv ==
  /\ TypeOK /\ ContextsKept /\ SpaceOfCurr /\ ~halted
  /\ isr = {} /\ imr \cap Enabled = {}
  /\ Filling => ~cpu.intr
  /\ QueueInv /\ OwnersInv

(* The run queue is used as the queue of module RunQueue: tasks enter it     *)
(* once, and only its head moves.                                            *)
Queue == INSTANCE RunQueue WITH Member <- Task, queue <- tasks
QueueContract == Queue!Spec

(* The boot ends, and from then on every task runs again and again.          *)
AllRun == \A t \in Task : []<>(curr = t)
=============================================================================
