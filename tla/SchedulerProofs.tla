-------------------------- MODULE SchedulerProofs --------------------------
(***************************************************************************)
(* The scheduler keeps the contexts, the address space and the cyclic order *)
(* of its tasks, for any number of them and any slice, and its list of      *)
(* nodes is the queue of tasks.                                             *)
(***************************************************************************)
EXTENDS SchedulerOnList, FiniteSetTheorems, WellFoundedInduction, TLAPS

(* A nonempty set of natural numbers has the minimum that Min picks.        *)
LEMMA MinFact ==
  ASSUME NEW S, S \subseteq Nat, S # {}
  PROVE  Min(S) \in S /\ \A y \in S : Min(S) <= y
<1>1. PICK x \in S : \A y \in S : <<y, x>> \notin OpToRel(<, Nat)
  BY NatLessThanWellFounded, WFMin, Zenon
<1>2. \A y \in S : ~(y < x)
  BY <1>1 DEF OpToRel
<1>3. \A y \in S : x <= y
  BY <1>2, S \subseteq Nat
<1> QED BY <1>3 DEF Min

USE DEF NULL, Timer, Keyboard, Lpt1, Lines, int_frame, launch_process, find_free_pid,
        spurious_irq_enable, keyboard_enable, pit_enable

(* pic_send_eoi after one line was put in service: none is left.            *)
LEMMA EoiClears == \A line \in Lines : pic_send_eoi({line}) = {}
<1>1. TAKE line \in Lines
<1>2. Min({line}) = line
  BY DEF Min
<1> QED BY <1>2 DEF pic_send_eoi

(* kmain's first state satisfies the invariant.                             *)
LEMMA InitInv == Init => IInv
<1> SUFFICES ASSUME Init PROVE IInv
  OBVIOUS
<1> USE SchedulerAssumption DEF Init
<1>1. Zeroed \in Context /\ Fresh(NULL) \in Context
  BY DEF Zeroed, Fresh, Context, Word
<1>2. TypeOK
  <2>1. pc \in Steps /\ ticks \in 0..(Wrap - 1) /\ shifts \in 0..MaxShifts /\ jiffies \in 0..(Wrap - 1)
    BY DEF Steps
  <2>2. cpu \in Context /\ space \in [cr3 : {NULL} \cup Task, rsp0 : {NULL} \cup Task]
    BY <1>1
  <2>3. irr \subseteq Lines /\ isr \subseteq Lines /\ imr \subseteq Lines
    OBVIOUS
  <2>4. tasks \in Seq(Task) /\ curr \in {NULL} \cup Task
    OBVIOUS
  <2>5. ctx \in [Task -> Context] /\ work \in [Task -> Context]
    BY <1>1
  <2>6. initialised \in BOOLEAN /\ need_resched \in BOOLEAN /\ halted \in BOOLEAN
    BY Zenon
  <2> QED BY <2>1, <2>2, <2>3, <2>4, <2>5, <2>6 DEF TypeOK
<1>3. ContextsKept /\ SpaceOfCurr
  BY DEF ContextsKept, SpaceOfCurr, Fresh, Task
<1>4. imr \cap Enabled = {}
  BY DEF Enabled
<1>5. QueueInv /\ OwnersInv /\ (Filling => ~cpu.intr)
  BY DEF QueueInv, OwnersInv, Filled, Filling
<1> QED BY <1>2, <1>3, <1>4, <1>5 DEF IInv

(* Enabling a line keeps the invariant: it only opens the line.             *)
LEMMA EnableStep ==
  ASSUME IInv, NEW line \in Lines, NEW from, NEW to, irq_enable(line, from, to),
         <<line, from, to>> \in {<<Lpt1, "spurious_irq_enable", "keyboard_enable">>,
                                 <<Keyboard, "keyboard_enable", "pit_enable">>,
                                 <<Timer, "pit_enable", "calibrate_delay">>}
  PROVE  IInv'
<1> USE DEF irq_enable, Kmain, IInv
<1>1. cpu' \in Context /\ cpu'.owner = cpu.owner
  BY Zenon DEF TypeOK, Context
<1>2. TypeOK'
  BY <1>1 DEF TypeOK, Steps, rqVars
<1>3. curr = NULL
  BY DEF SpaceOfCurr
<1>4. ContextsKept' /\ SpaceOfCurr'
  BY <1>1, <1>3 DEF ContextsKept, SpaceOfCurr, Task, rqVars
<1>5. (imr \cap Enabled)' = {}
  BY DEF Enabled
<1>6. QueueInv' /\ OwnersInv' /\ (Filling => ~cpu.intr)'
  BY DEF QueueInv, OwnersInv, Filled, Filling, rqVars
<1> QED BY <1>2, <1>4, <1>5, <1>6

(* calibrate_delay touches nothing but its own counters.                    *)
LEMMA CalibrateStep ==
  ASSUME IInv, calibrate_read \/ calibrate_wait \/ calibrate_loop
  PROVE  IInv'
<1> USE DEF calibrate_read, calibrate_wait, calibrate_loop, Kmain, IInv
<1>1. TypeOK'
  <2>1. pc' \in Steps
    BY DEF Steps
  <2>2. ticks' \in 0..(Wrap - 1) /\ shifts' \in 0..MaxShifts
    BY SchedulerAssumption DEF TypeOK
  <2> QED BY <2>1, <2>2, Zenon DEF TypeOK, rqVars, picVars
<1>2. ContextsKept' /\ SpaceOfCurr'
  BY DEF ContextsKept, SpaceOfCurr, rqVars
<1>3. (imr \cap Enabled)' = {}
  BY DEF Enabled, picVars
<1>4. QueueInv' /\ OwnersInv' /\ (Filling => ~cpu.intr)'
  BY DEF QueueInv, OwnersInv, Filled, Filling, rqVars
<1> QED BY <1>1, <1>2, <1>3, <1>4 DEF picVars

(* disable_interrupts and enable_interrupts around the filling of the queue. *)
LEMMA FlagStep ==
  ASSUME IInv, \/ set_interrupts(FALSE, "disable_interrupts", "scheduler_init")
               \/ set_interrupts(TRUE, "enable_interrupts", "hlt")
  PROVE  IInv'
<1> USE DEF set_interrupts, Kmain, IInv
<1>1. cpu' \in Context /\ cpu'.owner = cpu.owner
  <2>1. PICK on \in BOOLEAN : cpu' = [cpu EXCEPT !.intr = on]
    BY Zenon
  <2>2. cpu \in Context
    BY DEF TypeOK
  <2> QED BY ONLY <2>1, <2>2 DEF Context
<1>2. TypeOK'
  BY <1>1 DEF TypeOK, Steps, rqVars, picVars
<1>3. curr = NULL
  BY DEF SpaceOfCurr
<1>4. ContextsKept' /\ SpaceOfCurr'
  BY <1>1, <1>3 DEF ContextsKept, SpaceOfCurr, Task, rqVars
<1>5. (imr \cap Enabled)' = {}
  BY DEF Enabled, picVars
<1>6. (Filling => ~cpu.intr)'
  BY DEF Filling, TypeOK, Context
<1>7. QueueInv' /\ OwnersInv'
  BY DEF QueueInv, OwnersInv, Filled, rqVars
<1> QED BY <1>2, <1>4, <1>5, <1>6, <1>7 DEF picVars

(* A context made by create_process has the type of one.                    *)
LEMMA FreshContext == \A t \in Task : Fresh(t) \in Context /\ Fresh(t).owner = t
BY SchedulerAssumption DEF Fresh, Context, Word

(* scheduler_init puts the first process in the queue.                      *)
LEMMA InitStep == ASSUME IInv, scheduler_init PROVE IInv'
<1> USE DEF scheduler_init, Kmain, IInv
<1>1. 1 \in Task /\ tasks = <<>> /\ curr = NULL
  BY SchedulerAssumption DEF Task, QueueInv, SpaceOfCurr, Filled
<1>2. tasks' \in Seq(Task) /\ Len(tasks') = 1 /\ tasks'[1] = 1 /\ tasks' # <<>>
  BY <1>1
<1>3. pc' = (IF NTasks = 1 THEN "enable_interrupts" ELSE "scheduler_add")
  BY DEF AfterAdd
<1>4. ctx' = [ctx EXCEPT ![1] = Fresh(1)] /\ work' = [work EXCEPT ![1] = Fresh(1)]
  BY DEF create_process
<1>5. TypeOK'
  <2>1. ctx' \in [Task -> Context] /\ work' \in [Task -> Context]
    BY <1>1, <1>4, FreshContext DEF TypeOK
  <2>2. pc' \in Steps
    BY <1>3 DEF Steps
  <2>3. halted' = FALSE
    BY <1>1, Zenon
  <2> QED BY <1>2, <2>1, <2>2, <2>3 DEF TypeOK, picVars
<1>6. ContextsKept' /\ SpaceOfCurr'
  BY <1>1, <1>4 DEF ContextsKept, SpaceOfCurr, Task, TypeOK
<1>7. (imr \cap Enabled)' = {} /\ isr' = {} /\ (Filling => ~cpu.intr)' /\ ~halted'
  BY <1>1, <1>3, Zenon DEF Enabled, picVars, Filling
<1>8. QueueInv'
  BY <1>1, <1>2, <1>3, SchedulerAssumption DEF QueueInv, Filled, Succ
<1>9. OwnersInv'
  BY <1>1, <1>2, <1>3, <1>4, FreshContext, SchedulerAssumption DEF OwnersInv, Filled, Task, TypeOK
<1> QED BY <1>5, <1>6, <1>7, <1>8, <1>9

(* scheduler_add appends the process with the next pid.                     *)
LEMMA AddStep == ASSUME IInv, scheduler_add PROVE IInv'
<1> USE DEF scheduler_add, Kmain, IInv
<1> DEFINE n == Len(tasks) + 1
<1>1. n \in Task /\ n > 1 /\ n <= NTasks /\ curr = NULL /\ tasks \in Seq(Task)
  BY SchedulerAssumption DEF Task, QueueInv, SpaceOfCurr, Filled, TypeOK
<1>2. \A i \in 1..Len(tasks) : tasks[i] = i
  BY DEF QueueInv
<1>3. tasks' \in Seq(Task) /\ Len(tasks') = n /\ \A i \in 1..n : tasks'[i] = i
  BY <1>1, <1>2
<1>4. tasks' # <<>>
  BY <1>1, <1>3
<1>5. pc' = (IF NTasks = n THEN "enable_interrupts" ELSE "scheduler_add")
  BY DEF AfterAdd
<1>6. ctx' = [ctx EXCEPT ![n] = Fresh(n)] /\ work' = [work EXCEPT ![n] = Fresh(n)]
  BY DEF create_process
<1>7. TypeOK'
  <2>1. ctx' \in [Task -> Context] /\ work' \in [Task -> Context]
    BY <1>1, <1>6, FreshContext DEF TypeOK
  <2>2. pc' \in Steps
    BY <1>5 DEF Steps
  <2> QED BY <1>3, <2>1, <2>2 DEF TypeOK, picVars
<1> HIDE DEF n
<1>8. ContextsKept' /\ SpaceOfCurr'
  BY <1>1, <1>6 DEF ContextsKept, SpaceOfCurr, Task, TypeOK
<1>9. (imr \cap Enabled)' = {} /\ isr' = {} /\ (Filling => ~cpu.intr)' /\ ~halted'
  BY <1>5 DEF Enabled, picVars, Filling
<1>10. QueueInv'
  <2>1. initialised' /\ curr' = NULL /\ ~need_resched'
    BY <1>1 DEF QueueInv, n
  <2>2. pc' = "scheduler_add" => n < NTasks
    BY <1>1, <1>5, SchedulerAssumption DEF Task
  <2>3. n \in Nat
    BY <1>1 DEF Task
  <2>4. CASE pc' = "scheduler_add"
    BY <1>1, <1>3, <1>4, <2>1, <2>2, <2>3, <2>4, SchedulerAssumption DEF QueueInv, Filled
  <2>5. CASE pc' = "enable_interrupts" /\ n = NTasks
    BY <1>1, <1>3, <1>4, <2>1, <2>3, <2>5, SchedulerAssumption DEF QueueInv, Filled, Succ
  <2> QED BY <1>5, <2>4, <2>5
<1>11. OwnersInv'
  <2>1. \A t \in 1..n : ctx'[t].owner = t
    <3>1. \A t \in 1..Len(tasks) : ctx[t].owner = t
      BY DEF OwnersInv
    <3>2. \A t \in 1..n : t \in Task /\ (t = n \/ t \in 1..Len(tasks))
      BY <1>1, SchedulerAssumption DEF Task, n
    <3> QED BY <1>1, <1>6, <3>1, <3>2, FreshContext DEF TypeOK
  <2> QED BY <1>3, <1>5, <2>1, SchedulerAssumption DEF OwnersInv, Filled, Task
<1> QED BY <1>7, <1>8, <1>9, <1>10, <1>11

(* A task executes: only its own context changes.                           *)
LEMMA UserStep == ASSUME IInv, user_step PROVE IInv'
<1> USE DEF user_step, IInv
<1>1. PICK f \in {"regs", "rip", "rsp"} : cpu' = [cpu EXCEPT ![f] = (@ + 1) % Words]
  BY Zenon
<1>2. cpu \in Context /\ cpu.owner \in Task /\ cpu.owner = curr
  BY DEF TypeOK, Context, SpaceOfCurr
<1>3. \A w \in Word : (w + 1) % Words \in Word
  BY SchedulerAssumption DEF Word
<1>4. cpu' \in Context /\ cpu'.owner = cpu.owner /\ cpu'.intr = cpu.intr
  <2>1. CASE f = "regs"
    BY <1>1, <1>2, <1>3, <2>1 DEF Context
  <2>2. CASE f = "rip"
    BY <1>1, <1>2, <1>3, <2>2 DEF Context
  <2>3. CASE f = "rsp"
    BY <1>1, <1>2, <1>3, <2>3 DEF Context
  <2> QED BY <2>1, <2>2, <2>3
<1>5. work' = [work EXCEPT ![curr] = cpu']
  BY <1>2
<1>6. TypeOK'
  BY <1>2, <1>4, <1>5 DEF TypeOK, kmainVars, picVars, rqVars
<1>7. ContextsKept' /\ SpaceOfCurr'
  BY <1>2, <1>4, <1>5 DEF ContextsKept, SpaceOfCurr, TypeOK, rqVars
<1>8. (imr \cap Enabled)' = {} /\ isr' = {} /\ (Filling => ~cpu.intr)' /\ ~halted'
  BY <1>4 DEF Enabled, picVars, kmainVars, Filling
<1>9. QueueInv' /\ OwnersInv'
  BY DEF QueueInv, OwnersInv, Filled, kmainVars, rqVars
<1> QED BY <1>6, <1>7, <1>8, <1>9

(* A step that changes the controller alone keeps the invariant if it leaves *)
(* no line in service and closes none.                                      *)
LEMMA ControllerStep ==
  ASSUME IInv, UNCHANGED <<kmainVars, cpu, space, jiffies, rqVars, ctx, work, halted>>,
         irr' \subseteq Lines, isr' = {}, imr' \subseteq imr
  PROVE  IInv'
<1> USE DEF IInv, kmainVars, rqVars
<1>1. TypeOK'
  BY DEF TypeOK
<1>2. ContextsKept' /\ SpaceOfCurr'
  BY DEF ContextsKept, SpaceOfCurr
<1>3. (imr \cap Enabled)' = {}
  BY DEF Enabled
<1>4. QueueInv' /\ OwnersInv' /\ (Filling => ~cpu.intr)'
  BY DEF QueueInv, OwnersInv, Filled, Filling
<1> QED BY <1>1, <1>2, <1>3, <1>4

(* Devices and the handlers of keyboard, printer port and spurious           *)
(* interrupts are such steps.                                               *)
LEMMA DeviceStep ==
  ASSUME IInv, \/ keyboard_interrupt \/ lpt1_interrupt \/ spurious_interrupt
               \/ \E line \in Lines : Raise(line)
  PROVE  IInv'
<1>0. irr \subseteq Lines /\ isr = {}
  BY DEF IInv, TypeOK
<1>1. CASE keyboard_interrupt
  BY <1>0, <1>1, EoiClears, ControllerStep DEF keyboard_interrupt, pic_unmask_irq
<1>2. CASE lpt1_interrupt
  BY <1>0, <1>2, EoiClears, ControllerStep
  DEF lpt1_interrupt, pic_unmask_irq, pic_mask_irq, spurious_handle_irq
<1>3. CASE spurious_interrupt
  BY <1>0, <1>3, ControllerStep
  DEF spurious_interrupt, pic_unmask_irq, pic_mask_irq, spurious_handle_irq
<1>4. CASE \E line \in Lines : Raise(line)
  BY <1>0, <1>4, ControllerStep DEF Raise
<1> QED BY <1>1, <1>2, <1>3, <1>4

(* What a tick leaves alone in every case.                                  *)
LEMMA TickFrame ==
  ASSUME IInv, timer_interrupt
  PROVE  /\ isr' = {} /\ imr' \subseteq imr /\ irr' \subseteq Lines
         /\ jiffies' \in 0..(Wrap - 1)
         /\ pc' = pc /\ ticks' = ticks /\ shifts' = shifts
         /\ initialised' = initialised /\ work' = work
         /\ ~Filling
<1> USE DEF timer_interrupt, IInv
<1>1. isr' = {}
  BY EoiClears
<1>2. imr' \subseteq imr /\ irr' \subseteq Lines
  BY DEF pic_unmask_irq, pic_mask_irq, TypeOK
<1>3. jiffies' \in 0..(Wrap - 1)
  BY SchedulerAssumption DEF TypeOK
<1>4. ~Filling
  BY DEF Deliverable
<1> QED BY <1>1, <1>2, <1>3, <1>4 DEF kmainVars

(* schedule is called only after scheduler_init, and with a full queue.     *)
LEMMA TickReady ==
  ASSUME IInv, timer_interrupt, scheduler_tick(jiffies')
  PROVE  /\ initialised /\ pc = "hlt" /\ Len(tasks) = NTasks /\ tasks # <<>>
         /\ schedule /\ halted' = FALSE
<1> USE DEF IInv
<1>1. initialised
  BY DEF scheduler_tick, QueueInv, Filled
<1>2. pc = "hlt"
  BY <1>1, TickFrame, Zenon DEF QueueInv, Filled, Filling
<1> QED BY <1>1, <1>2, Zenon DEF QueueInv, Filled, timer_interrupt

(* Moving the head of the full queue to its end keeps the cyclic order.     *)
LEMMA RotationFacts ==
  ASSUME NEW q \in Seq(Task), Len(q) = NTasks, NTasks > 1,
         \A i \in 1..(NTasks - 1) : q[i + 1] = Succ(q[i]),
         Succ(q[NTasks]) = q[1],
         NEW r, r = Append(Tail(q), Head(q))
  PROVE  /\ r \in Seq(Task) /\ Len(r) = NTasks /\ r # <<>>
         /\ \A i \in 1..(NTasks - 1) : r[i + 1] = Succ(r[i])
         /\ r[NTasks] = q[1] /\ Succ(r[NTasks]) = r[1]
<1>1. NTasks \in Nat /\ q # <<>>
  BY SchedulerAssumption
<1>2. Head(q) = q[1] /\ Head(q) \in Task
  BY <1>1
<1>3. Tail(q) \in Seq(Task) /\ Len(Tail(q)) = NTasks - 1
  BY <1>1
<1>4. \A i \in 1..(NTasks - 1) : Tail(q)[i] = q[i + 1]
  BY <1>1
<1>5. r \in Seq(Task) /\ Len(r) = NTasks
  BY <1>1, <1>2, <1>3
<1>6. r[NTasks] = q[1] /\ \A i \in 1..(NTasks - 1) : r[i] = q[i + 1]
  BY <1>1, <1>2, <1>3, <1>4
<1>7. \A i \in 1..(NTasks - 1) : r[i + 1] = Succ(r[i])
  <2> TAKE i \in 1..(NTasks - 1)
  <2>1. CASE i = NTasks - 1
    BY <1>1, <1>6, <2>1
  <2>2. CASE i # NTasks - 1
    <3>1. i + 1 \in 1..(NTasks - 1) /\ r[i + 1] = q[i + 1 + 1] /\ r[i] = q[i + 1]
      BY <1>1, <1>6, <2>2
    <3> QED BY <3>1
  <2> QED BY <2>1, <2>2
<1>8. Succ(r[NTasks]) = r[1]
  BY <1>1, <1>6
<1>9. r # <<>>
  BY <1>1, <1>5
<1> QED BY <1>5, <1>6, <1>7, <1>8, <1>9

(* The tick that switches: the queue rotates, the context of the running     *)
(* task is saved and that of the first one restored.                        *)
LEMMA SwitchStep ==
  ASSUME IInv, timer_interrupt, scheduler_tick(jiffies'), ~NothingElseToRun
  PROVE  IInv'
<1> USE DEF IInv
<1> DEFINE t == Head(tasks)
<1>1. /\ tasks' = (IF Len(tasks) > 1 THEN Append(Tail(tasks), t) ELSE tasks)
      /\ curr' = t /\ need_resched' = FALSE /\ process_context_switch(t)
  BY TickReady, Zenon DEF schedule
<1>2. /\ tasks \in Seq(Task) /\ Len(tasks) = NTasks /\ tasks # <<>> /\ pc = "hlt" /\ initialised
      /\ \A i \in 1..(NTasks - 1) : tasks[i + 1] = Succ(tasks[i])
      /\ Succ(tasks[NTasks]) = tasks[1]
  BY TickReady, Zenon DEF TypeOK, QueueInv, Filled
<1>3. t \in Task /\ t = tasks[1]
  BY <1>2
<1>4. t # curr
  <2>1. CASE curr = NULL
    BY <1>3, <2>1 DEF Task
  <2>2. CASE curr # NULL
    <3>1. NTasks > 1 /\ tasks[NTasks] = curr /\ Succ(curr) = t
      BY <1>2, <1>3, <2>2, SchedulerAssumption DEF NothingElseToRun, QueueInv
    <3>2. curr \in Task
      BY <2>2 DEF TypeOK
    <3> QED BY <3>1, <3>2, SchedulerAssumption DEF Succ, Task
  <2> QED BY <2>1, <2>2
<1> HIDE DEF t
<1>5. ctx[t].owner = t /\ ctx[t] = work[t] /\ ctx[t] \in Context
  BY <1>2, <1>3, <1>4 DEF OwnersInv, Filled, ContextsKept, TypeOK
<1>6. /\ ctx' = (IF curr = NULL THEN ctx ELSE [ctx EXCEPT ![curr] = cpu])
      /\ cpu' = ctx[t] /\ space' = [cr3 |-> t, rsp0 |-> t]
  BY <1>1 DEF process_context_switch
<1>7. /\ tasks' \in Seq(Task) /\ Len(tasks') = NTasks /\ tasks' # <<>>
      /\ \A i \in 1..(NTasks - 1) : tasks'[i + 1] = Succ(tasks'[i])
      /\ tasks'[NTasks] = t /\ Succ(tasks'[NTasks]) = tasks'[1]
  <2>1. CASE NTasks > 1
    BY <1>1, <1>2, <1>3, <2>1, RotationFacts DEF t
  <2>2. CASE NTasks = 1
    BY <1>1, <1>2, <1>3, <2>2
  <2> QED BY <2>1, <2>2, SchedulerAssumption
<1>8. ctx' \in [Task -> Context]
  BY <1>6 DEF TypeOK
<1>9. TypeOK'
  <2>1. space' \in [cr3 : {NULL} \cup Task, rsp0 : {NULL} \cup Task]
    BY <1>3, <1>6
  <2>2. imr' \subseteq Lines /\ isr' \subseteq Lines /\ halted' = FALSE
    BY TickFrame, TickReady, Zenon DEF TypeOK
  <2> QED BY <1>1, <1>3, <1>5, <1>6, <1>7, <1>8, <2>1, <2>2, TickFrame, Zenon DEF TypeOK
<1>10. ContextsKept'
  <2>0. work' = work /\ ctx \in [Task -> Context]
    BY TickFrame DEF TypeOK
  <2>1. \A u \in Task : IF u = curr THEN cpu = work[u] ELSE ctx[u] = work[u]
    BY DEF ContextsKept
  <2>2. cpu' = work'[t]
    BY <1>5, <1>6, <2>0
  <2>3. \A u \in Task : u # t => ctx'[u] = work'[u]
    <3> SUFFICES ASSUME NEW u \in Task, u # t PROVE ctx'[u] = work[u]
      BY <2>0
    <3>1. CASE u = curr
      BY <1>6, <2>0, <2>1, <3>1 DEF Task
    <3>2. CASE u # curr
      BY <1>6, <2>0, <2>1, <3>2
    <3> QED BY <3>1, <3>2
  <2> QED BY ONLY <1>1, <2>2, <2>3 DEF ContextsKept
<1>11. SpaceOfCurr'
  BY <1>1, <1>5, <1>6 DEF SpaceOfCurr
<1>12. OwnersInv'
  BY <1>2, <1>6, TickFrame, Zenon DEF OwnersInv, Filled, SpaceOfCurr, TypeOK
<1>13. QueueInv'
  BY <1>1, <1>2, <1>7, TickFrame, Zenon DEF QueueInv, Filled
<1>14. (imr \cap Enabled)' = {} /\ (Filling => ~cpu.intr)'
  BY TickFrame DEF Enabled, Filling
<1> QED BY <1>9, <1>10, <1>11, <1>12, <1>13, <1>14, TickFrame, TickReady, Zenon

(* A tick keeps the invariant, whether it switches or not.                  *)
LEMMA TimerStep == ASSUME IInv, timer_interrupt PROVE IInv'
<1> USE DEF IInv
<1>1. CASE scheduler_tick(jiffies') /\ ~NothingElseToRun
  BY <1>1, SwitchStep
<1>2. CASE ~scheduler_tick(jiffies') \/ NothingElseToRun
  <2>1. /\ UNCHANGED <<tasks, curr, cpu, ctx, space>> /\ halted' = FALSE
        /\ \/ need_resched' = need_resched
           \/ need_resched' = TRUE /\ curr # NULL /\ NTasks = 1
    <3>1. CASE ~scheduler_tick(jiffies')
      BY <3>1 DEF timer_interrupt
    <3>2. CASE scheduler_tick(jiffies')
      BY <1>2, <3>2, TickReady, Zenon DEF schedule, NothingElseToRun
    <3> QED BY <3>1, <3>2, Zenon
  <2>2. TypeOK'
    BY <2>1, TickFrame, Zenon DEF TypeOK
  <2>3. ContextsKept' /\ SpaceOfCurr'
    BY <2>1, TickFrame DEF ContextsKept, SpaceOfCurr
  <2>4. (imr \cap Enabled)' = {} /\ (Filling => ~cpu.intr)'
    BY TickFrame DEF Enabled, Filling
  <2>5. QueueInv' /\ OwnersInv'
    BY <2>1, TickFrame DEF QueueInv, OwnersInv, Filled
  <2> QED BY <2>1, <2>2, <2>3, <2>4, <2>5, TickFrame
<1> QED BY <1>1, <1>2

(* Every step of kmain, a task, a device or a handler keeps the invariant.  *)
LEMMA NextInv == IInv /\ [Next]_vars => IInv'
<1> SUFFICES ASSUME IInv, [Next]_vars PROVE IInv'
  OBVIOUS
<1>1. CASE kmain
  <2>1. CASE irq_enable(Lpt1, "spurious_irq_enable", "keyboard_enable")
    BY <2>1, EnableStep
  <2>2. CASE irq_enable(Keyboard, "keyboard_enable", "pit_enable")
    BY <2>2, EnableStep
  <2>3. CASE irq_enable(Timer, "pit_enable", "calibrate_delay")
    BY <2>3, EnableStep
  <2>4. CASE calibrate_read \/ calibrate_wait \/ calibrate_loop
    BY <2>4, CalibrateStep
  <2>5. CASE \/ set_interrupts(FALSE, "disable_interrupts", "scheduler_init")
             \/ set_interrupts(TRUE, "enable_interrupts", "hlt")
    BY <2>5, FlagStep, Zenon
  <2>6. CASE scheduler_init \/ scheduler_add
    BY <2>6, InitStep, AddStep
  <2> QED BY <1>1, <2>1, <2>2, <2>3, <2>4, <2>5, <2>6, ZenonT(60) DEF kmain
<1>2. CASE user_step
  BY <1>2, UserStep
<1>3. CASE interrupt_handler \/ \E line \in Lines : Raise(line)
  BY <1>3, TimerStep, DeviceStep DEF interrupt_handler
<1>4. CASE UNCHANGED vars
  BY <1>4 DEF vars, kmainVars, picVars, rqVars, IInv, TypeOK, ContextsKept, SpaceOfCurr,
              Enabled, Filling, QueueInv, OwnersInv, Filled
<1> QED BY <1>1, <1>2, <1>3, <1>4 DEF Next

(* The invariant holds in every reachable state of kernel and tasks.        *)
THEOREM Invariance == Spec => []IInv
BY InitInv, NextInv, PTL DEF Spec

(* Every task goes on with the registers it was interrupted with, for any   *)
(* number of tasks and any interleaving of ticks and other interrupts.      *)
THEOREM ContextsAlwaysKept == Spec => []ContextsKept
<1>1. IInv => ContextsKept
  BY DEF IInv
<1> QED BY <1>1, Invariance, PTL

(* CR3 and the kernel stack of the TSS belong to the task that runs.        *)
THEOREM SpaceAlwaysOfCurr == Spec => []SpaceOfCurr
<1>1. IInv => SpaceOfCurr
  BY DEF IInv
<1> QED BY <1>1, Invariance, PTL

(* The queue keeps all tasks in their cyclic order, the running one last.   *)
THEOREM AlwaysRoundRobin == Spec => []RoundRobin
<1>1. IInv => RoundRobin
  BY DEF IInv, QueueInv, Filled, RoundRobin
<1> QED BY <1>1, Invariance, PTL

(* No handler leaves a line in service or an enabled line masked.           *)
THEOREM LinesAlwaysOpen == Spec => []LinesOpen
<1>1. IInv => LinesOpen
  BY DEF IInv, LinesOpen
<1> QED BY <1>1, Invariance, PTL

(* The BUG_ONs of scheduler.c never fire, although the timer runs before     *)
(* the scheduler is initialised.                                            *)
THEOREM BugsNeverFire == Spec => []NeverHalts
<1>1. IInv => NeverHalts
  BY DEF IInv, NeverHalts
<1> QED BY <1>1, Invariance, PTL

(* A task loses the processor only at a tick that is a multiple of Slice.   *)
THEOREM SliceKept == Spec => TimeSlice
<1>1. IInv /\ [Next]_vars => [curr # NULL /\ curr' # curr => jiffies' % Slice = 0]_vars
  <2> SUFFICES ASSUME IInv, Next, curr # NULL, curr' # curr PROVE jiffies' % Slice = 0
    OBVIOUS
  <2>1. cpu.owner # NULL /\ tasks # <<>>
    BY SchedulerAssumption DEF IInv, SpaceOfCurr, QueueInv, Filled
  <2>2. timer_interrupt
    BY <2>1 DEF Next, kmain, irq_enable, calibrate_read, calibrate_wait, calibrate_loop, Kmain,
                set_interrupts, scheduler_init, scheduler_add, user_step, interrupt_handler,
                keyboard_interrupt, lpt1_interrupt, spurious_interrupt, Raise, rqVars
  <2>3. scheduler_tick(jiffies')
    BY <2>2 DEF timer_interrupt
  <2>4. ~need_resched
    <3>1. need_resched => NothingElseToRun
      BY <2>2, <2>3, TickReady DEF IInv, QueueInv, NothingElseToRun
    <3>2. ~NothingElseToRun
      BY <2>2, <2>3, TickReady, Zenon DEF schedule
    <3> QED BY <3>1, <3>2
  <2> QED BY <2>3, <2>4 DEF scheduler_tick
<1> QED BY <1>1, Invariance, PTL DEF Spec, TimeSlice

(* The scheduler uses its list as a queue: each process is added once, and   *)
(* a switch moves the head to the end.                                      *)
THEOREM QueueRefinement == Spec => QueueContract
<1>1. Init => Queue!Init
  BY DEF Init, Queue!Init
<1>2. IInv /\ [Next]_vars => [Queue!Add \/ Queue!Rotate]_tasks
  <2> SUFFICES ASSUME IInv, Next, tasks' # tasks PROVE Queue!Add \/ Queue!Rotate
    BY DEF vars, rqVars
  <2>1. CASE scheduler_init
    <3>1. tasks = <<>> /\ 1 \in Task /\ tasks' = <<1>>
      BY <2>1, SchedulerAssumption DEF scheduler_init, Kmain, IInv, QueueInv, Filled, Task
    <3>2. tasks' = Append(tasks, 1)
      BY <3>1
    <3>3. DOMAIN tasks = {}
      BY <3>1
    <3> QED BY <3>1, <3>2, <3>3 DEF Queue!Add
  <2>2. CASE scheduler_add
    <3> DEFINE n == Len(tasks) + 1
    <3>1. /\ tasks \in Seq(Task) /\ n \in Task /\ tasks' = Append(tasks, n)
          /\ \A i \in 1..Len(tasks) : tasks[i] = i
      BY <2>2, SchedulerAssumption DEF scheduler_add, Kmain, IInv, QueueInv, Task, TypeOK
    <3>2. \A i \in DOMAIN tasks : tasks[i] # n
      BY <3>1
    <3> QED BY <3>1, <3>2 DEF Queue!Add
  <2>3. CASE timer_interrupt
    <3>1. scheduler_tick(jiffies')
      BY <2>3 DEF timer_interrupt
    <3>2. tasks # <<>> /\ schedule
      BY <2>3, <3>1, TickReady
    <3> QED BY <3>2 DEF schedule, Queue!Rotate
  <2> QED BY <2>1, <2>2, <2>3
      DEF Next, kmain, irq_enable, calibrate_read, calibrate_wait, calibrate_loop,
          set_interrupts, user_step, interrupt_handler,
          keyboard_interrupt, lpt1_interrupt, spurious_interrupt, Raise, rqVars
<1> QED BY <1>1, <1>2, Invariance, PTL DEF Spec, QueueContract, Queue!Spec
-----------------------------------------------------------------------------
(* The list *)

(* One round of the walk to the tail, for the whole walk f at once.          *)
Walk(f, h, nx) ==
  [k \in 0..List!N |-> IF k = 0 THEN h ELSE IF nx[f[k - 1]] = NULL THEN f[k - 1] ELSE nx[f[k - 1]]]

(* The nodes of q are linked in their order, and the last one ends the list. *)
Linked(q, nx) ==
  \A k \in DOMAIN q : nx[q[k]] = IF k = Len(q) THEN NULL ELSE q[k + 1]

(* There are as many nodes as tasks.                                         *)
LEMMA NodeCount == List!N = NTasks
<1>1. NTasks \in Int /\ 1 \in Int /\ ~(1 > NTasks) /\ NTasks - 1 + 1 = NTasks
  BY SchedulerAssumption
<1>2. Cardinality(1..NTasks) = IF 1 > NTasks THEN 0 ELSE NTasks - 1 + 1
  BY ONLY <1>1, FS_Interval
<1>3. List!N = Cardinality(1..NTasks)
  BY DEF List!N, Task, List!Cardinality, Cardinality, IsFiniteSet, List!IsFiniteSet
<1> QED
  BY ONLY <1>1, <1>2, <1>3

(* move_end_of_list finds the tail of a list that ends.                      *)
LEMMA WalkEnds ==
  ASSUME NEW q \in Seq(Task), Len(q) \in 1..NTasks, NEW nx, Linked(q, nx)
  PROVE  List!TailFrom(q[1], nx) = q[Len(q)]
<1> DEFINE m == Len(q)
           at == [k \in 0..NTasks |-> q[IF k < m THEN k + 1 ELSE m]]
<1>1. NTasks \in Nat \ {0} /\ m \in 1..NTasks
  BY SchedulerAssumption
<1>2. \A k \in 1..m : q[k] \in Task /\ q[k] # NULL
  BY <1>1 DEF Task
<1>3. \A k \in 1..m : nx[q[k]] = IF k = m THEN NULL ELSE q[k + 1]
  BY <1>1 DEF Linked
<1> HIDE DEF m
<1>4. at = Walk(at, q[1], nx)
  <2>1. ASSUME NEW k \in 0..NTasks
        PROVE  at[k] = IF k = 0 THEN q[1] ELSE IF nx[at[k - 1]] = NULL THEN at[k - 1] ELSE nx[at[k - 1]]
    <3>1. CASE k = 0
      BY <1>1, <3>1
    <3>2. CASE k > 0 /\ k < m
      <4>1. at[k - 1] = q[k] /\ at[k] = q[k + 1] /\ k \in 1..m /\ k + 1 \in 1..m
        BY <1>1, <3>2
      <4> HIDE DEF at
      <4> QED
        BY <1>2, <1>3, <3>2, <4>1
    <3>3. CASE k > 0 /\ k >= m
      <4>1. at[k - 1] = q[m] /\ at[k] = q[m] /\ m \in 1..m
        BY <1>1, <3>3
      <4> HIDE DEF at
      <4> QED
        BY <1>3, <3>3, <4>1
    <3> QED
      BY <1>1, <3>1, <3>2, <3>3
  <2> HIDE DEF at
  <2>2. Walk(at, q[1], nx) = [k \in 0..NTasks |-> at[k]]
    BY <2>1, NodeCount DEF Walk
  <2> QED
    BY <2>2, Zenon DEF at
<1>5. ASSUME NEW f, f = Walk(f, q[1], nx)
      PROVE  f[NTasks] = q[m]
  <2> DEFINE Bad == {k \in 0..NTasks : f[k] # at[k]}
  <2>1. CASE Bad = {}
    <3>1. f[NTasks] = at[NTasks]
      <4>1. NTasks \in 0..NTasks
        BY <1>1
      <4> HIDE DEF at
      <4> QED
        BY <2>1, <4>1
    <3>2. at[NTasks] = q[m]
      BY <1>1
    <3> QED
      BY <3>1, <3>2
  <2>2. CASE Bad # {}
    <3>1. PICK k \in Bad : \A j \in Bad : k <= j
      <4>1. Bad \subseteq Nat
        BY <1>1
      <4> HIDE DEF Bad
      <4> QED
        BY <2>2, <4>1, MinFact, Zenon
    <3>2. k \in 0..NTasks /\ f[k] # at[k]
      OBVIOUS
    <3> HIDE DEF at
    <3>3. /\ f[k] = IF k = 0 THEN q[1] ELSE IF nx[f[k - 1]] = NULL THEN f[k - 1] ELSE nx[f[k - 1]]
          /\ at[k] = IF k = 0 THEN q[1] ELSE IF nx[at[k - 1]] = NULL THEN at[k - 1] ELSE nx[at[k - 1]]
      BY <1>4, <1>5, <3>2, NodeCount, Zenon DEF Walk
    <3>4. k # 0
      BY <3>2, <3>3
    <3>5. k - 1 \in 0..NTasks /\ k - 1 < k
      BY <1>1, <3>2, <3>4
    <3>6. f[k - 1] = at[k - 1]
      BY <3>1, <3>2, <3>5
    <3> QED
      BY <3>2, <3>3, <3>6
  <2> QED
    BY <2>1, <2>2
<1>6. List!TailFrom(q[1], nx) = (CHOOSE f : f = Walk(f, q[1], nx))[NTasks]
  BY NodeCount DEF List!TailFrom, Walk
<1>7. PICK f : f = Walk(f, q[1], nx) /\ f = CHOOSE g : g = Walk(g, q[1], nx)
  BY <1>4
<1> QED
  BY <1>5, <1>6, <1>7, Zenon DEF m

(* No task is twice in q.                                                    *)
Distinct(q) == \A i, j \in DOMAIN q : i # j => q[i] # q[j]

(* The list nx links holds the tasks of q, each of them once.                *)
WellLinked(q, nx) ==
  q \in Seq(Task) /\ Distinct(q) /\ nx \in [Task -> {NULL} \cup Task] /\ Linked(q, nx)

(* The node n can go behind such a list.                                     *)
Movable(q, nx, n) ==
  /\ WellLinked(q, nx) /\ Len(q) \in 1..NTasks
  /\ n \in Task /\ \A k \in DOMAIN q : q[k] # n

(* move_end_of_list puts a node behind a list that does not have it.         *)
LEMMA MovedToEnd ==
  ASSUME NEW q, NEW nx, NEW n, Movable(q, nx, n),
         NEW r, r = Append(q, n),
         NEW ny, ny = List!move_end_of_list(q[1], nx, n)
  PROVE  WellLinked(r, ny) /\ r # <<>> /\ r[1] = q[1]
<1> USE DEF Movable, WellLinked
<1>1. PICK m : m = Len(q)
  OBVIOUS
<1>2. NTasks \in Nat \ {0} /\ m \in 1..NTasks /\ m \in Nat \ {0}
  BY <1>1, SchedulerAssumption
<1>3. \A k \in 1..m : q[k] \in Task /\ q[k] # n
  BY <1>1
<1>4. \A k \in 1..m : nx[q[k]] = IF k = m THEN NULL ELSE q[k + 1]
  BY <1>1 DEF Linked
<1>5. \A j, k \in 1..m : j # k => q[j] # q[k]
  BY <1>1 DEF Distinct
<1>6. ny = [nx EXCEPT ![q[m]] = n, ![n] = NULL]
  BY <1>1, WalkEnds, Zenon DEF List!move_end_of_list
<1>7. /\ r \in Seq(Task) /\ Len(r) = m + 1 /\ r[m + 1] = n
      /\ \A k \in 1..m : r[k] = q[k]
  BY <1>1, <1>2
<1>8. DOMAIN r = 1..(m + 1) /\ r # <<>> /\ r[1] = q[1]
  BY <1>2, <1>7
<1>9. q[m] \in Task /\ q[m] # n
  BY <1>2, <1>3
<1>10. ny \in [Task -> {NULL} \cup Task]
  BY <1>6, <1>9
<1>11. Distinct(r)
  <2> SUFFICES ASSUME NEW i \in 1..(m + 1), NEW j \in 1..(m + 1), i < j PROVE r[i] # r[j]
    BY <1>2, <1>8 DEF Distinct
  <2>1. i \in 1..m /\ (j \in 1..m \/ j = m + 1)
    BY <1>2
  <2> QED
    BY <1>3, <1>5, <1>7, <2>1
<1>12. Linked(r, ny)
  <2> SUFFICES ASSUME NEW k \in 1..(m + 1)
               PROVE  ny[r[k]] = IF k = m + 1 THEN NULL ELSE r[k + 1]
    BY <1>7, <1>8 DEF Linked
  <2>1. CASE k = m + 1
    <3>1. ny[n] = NULL
      BY <1>6, <1>9
    <3> QED
      BY <1>7, <2>1, <3>1
  <2>2. CASE k = m
    <3>1. r[k] = q[m] /\ r[k + 1] = n /\ k # m + 1
      BY <1>2, <1>7, <2>2
    <3>2. ny[q[m]] = n
      BY <1>6, <1>9
    <3> QED
      BY <3>1, <3>2
  <2>3. CASE k \in 1..(m - 1)
    <3>1. k \in 1..m /\ k + 1 \in 1..m /\ k # m /\ k # m + 1 /\ m \in 1..m
      BY <1>2, <2>3
    <3>2. q[k] \in Task /\ q[k] # n /\ q[k] # q[m]
      BY <1>3, <1>5, <3>1
    <3>3. ny[q[k]] = nx[q[k]]
      BY <1>6, <3>2
    <3> QED
      BY <1>4, <1>7, <3>1, <3>3
  <2>4. k = m + 1 \/ k = m \/ k \in 1..(m - 1)
    BY <1>2
  <2> QED
    BY <2>1, <2>2, <2>3, <2>4, Zenon
<1> QED
  BY <1>7, <1>8, <1>10, <1>11, <1>12

(* What holds of the list beside the scheduler's own invariant.              *)
ListInv ==
  /\ next \in [Task -> {NULL} \cup Task]
  /\ Distinct(tasks)
  /\ ListIsQueue

(* The two ways to say that the list is the queue.                           *)
LEMMA ReadsLinked ==
  ListIsQueue <=> head = (IF tasks = <<>> THEN NULL ELSE tasks[1]) /\ Linked(tasks, next)
BY DEF ListIsQueue, List!Reads, Linked

(* scheduler_init makes a list of one node.                                  *)
LEMMA ListInitStep ==
  ASSUME IInv, ListInv, scheduler_init, List!scheduler_init(1)
  PROVE  ListInv'
<1>1. 1 \in Task /\ tasks' = <<1>> /\ head' = 1 /\ next' = [next EXCEPT ![1] = NULL]
  BY SchedulerAssumption DEF scheduler_init, List!scheduler_init, List!Cleared, Task
<1>2. Len(tasks') = 1 /\ DOMAIN tasks' = {1} /\ tasks'[1] = 1 /\ tasks' # <<>>
  BY <1>1
<1>3. next' \in [Task -> {NULL} \cup Task] /\ next'[1] = NULL
  BY <1>1 DEF ListInv
<1>4. Distinct(tasks')
  BY <1>2 DEF Distinct
<1>5. ListIsQueue'
  BY <1>1, <1>2, <1>3 DEF ListIsQueue, List!Reads
<1> QED
  BY <1>3, <1>4, <1>5 DEF ListInv

(* scheduler_add appends a node whose next field it has cleared.             *)
LEMMA ListAddStep ==
  ASSUME IInv, ListInv, scheduler_add, List!scheduler_add(find_free_pid)
  PROVE  ListInv'
<1>1. PICK n : n = find_free_pid
  OBVIOUS
<1>2. /\ tasks \in Seq(Task) /\ Len(tasks) \in 1..(NTasks - 1)
      /\ \A k \in 1..Len(tasks) : tasks[k] = k
  BY DEF IInv, TypeOK, QueueInv, scheduler_add, Kmain
<1>3. n = Len(tasks) + 1 /\ n \in Task /\ Len(tasks) \in 1..NTasks /\ NTasks \in Nat
  BY <1>1, <1>2, SchedulerAssumption DEF Task
<1>4. \A k \in DOMAIN tasks : tasks[k] # n /\ tasks[k] \in Task
  BY <1>2, <1>3
<1>5. PICK nx : nx = [next EXCEPT ![n] = NULL]
  BY Zenon
<1>6. nx \in [Task -> {NULL} \cup Task] /\ \A t \in Task : t # n => nx[t] = next[t]
  BY <1>3, <1>5 DEF ListInv
<1>7. Linked(tasks, nx)
  BY <1>4, <1>6, ReadsLinked DEF ListInv, Linked
<1>8. tasks # <<>> /\ head = tasks[1]
  BY <1>2, ReadsLinked DEF ListInv
<1>9. tasks' = Append(tasks, n) /\ next' = List!move_end_of_list(tasks[1], nx, n) /\ head' = tasks[1]
  BY <1>1, <1>5, <1>8 DEF scheduler_add, List!scheduler_add, List!Cleared
<1>10. WellLinked(tasks', next') /\ tasks' # <<>> /\ tasks'[1] = tasks[1]
  <2>1. Movable(tasks, nx, n)
    BY <1>2, <1>3, <1>4, <1>6, <1>7 DEF ListInv, Movable, WellLinked
  <2> QED
    BY ONLY <1>9, <2>1, MovedToEnd, Zenon
<1> QED
  BY <1>9, <1>10 DEF ListInv, WellLinked, ListIsQueue, List!Reads, Linked

(* schedule moves the head behind the tail, which the second node leads to.  *)
LEMMA ListRotates ==
  ASSUME ListInv, tasks \in Seq(Task), Len(tasks) \in 2..NTasks, List!schedule,
         tasks' = Append(Tail(tasks), Head(tasks))
  PROVE  ListInv'
<1>1. PICK q, t : q = Tail(tasks) /\ t = Head(tasks)
  BY Zenon
<1>2. PICK m : m = Len(tasks)
  OBVIOUS
<1>3. NTasks \in Nat /\ m \in 2..NTasks /\ m \in Nat /\ tasks # <<>>
  BY <1>2, SchedulerAssumption
<1>4. /\ q \in Seq(Task) /\ Len(q) = m - 1 /\ t = tasks[1] /\ t \in Task
      /\ \A k \in 1..(m - 1) : q[k] = tasks[k + 1]
  BY <1>1, <1>2, <1>3
<1>5. Len(q) \in 1..NTasks /\ DOMAIN q = 1..(m - 1) /\ DOMAIN tasks = 1..m
  BY <1>2, <1>3, <1>4
<1>6. /\ \A i, j \in 1..m : i # j => tasks[i] # tasks[j]
      /\ \A k \in 1..m : next[tasks[k]] = IF k = m THEN NULL ELSE tasks[k + 1]
      /\ head = tasks[1]
  BY <1>2, <1>3, <1>5, ReadsLinked, Zenon DEF ListInv, Distinct, Linked
<1>7. \A k \in 1..(m - 1) : k + 1 \in 1..m /\ k + 1 # 1 /\ 1 \in 1..m
  BY <1>3
<1>8. \A k \in DOMAIN q : q[k] # t
  BY <1>4, <1>5, <1>6, <1>7
<1>9. Distinct(q)
  <2> SUFFICES ASSUME NEW i \in 1..(m - 1), NEW j \in 1..(m - 1), i # j PROVE q[i] # q[j]
    BY <1>5 DEF Distinct
  <2>1. i + 1 \in 1..m /\ j + 1 \in 1..m /\ i + 1 # j + 1
    BY <1>3
  <2> QED
    BY <1>4, <1>6, <2>1
<1>10. Linked(q, next)
  <2> SUFFICES ASSUME NEW k \in 1..(m - 1)
               PROVE  next[q[k]] = IF k = m - 1 THEN NULL ELSE q[k + 1]
    BY <1>4, <1>5 DEF Linked
  <2>1. q[k] = tasks[k + 1] /\ k + 1 \in 1..m /\ (k + 1 = m <=> k = m - 1)
    BY <1>3, <1>4
  <2>2. CASE k = m - 1
    BY <1>6, <2>1, <2>2
  <2>3. CASE k # m - 1
    <3>1. k + 1 \in 1..(m - 1)
      BY <1>3, <2>3
    <3> QED
      BY <1>4, <1>6, <2>1, <2>3, <3>1
  <2> QED
    BY <2>2, <2>3
<1>11. head' = q[1] /\ next' = List!move_end_of_list(q[1], next, t) /\ tasks' = Append(q, t)
  <2>1. 1 \in 1..m /\ 1 # m /\ 1 \in 1..(m - 1)
    BY <1>3
  <2>2. next[head] = q[1] /\ head = t
    BY <1>4, <1>6, <2>1
  <2> QED
    BY <1>1, <2>2 DEF List!schedule
<1>12. WellLinked(tasks', next') /\ tasks' # <<>> /\ tasks'[1] = q[1]
  <2>1. Movable(q, next, t)
    BY <1>4, <1>5, <1>8, <1>9, <1>10 DEF ListInv, Movable, WellLinked
  <2> QED
    BY ONLY <1>11, <2>1, MovedToEnd, Zenon
<1> QED
  BY <1>11, <1>12 DEF ListInv, WellLinked, ListIsQueue, List!Reads, Linked

(* A step that leaves list and queue alone.                                  *)
LEMMA ListUnmoved ==
  ASSUME ListInv, UNCHANGED listVars, tasks' = tasks
  PROVE  ListInv'
BY DEF ListInv, listVars, ListIsQueue, List!Reads, Distinct

(* A tick that switches moves the head of the list exactly when it moves     *)
(* that of the queue: the next field of the head is NULL when it is alone.   *)
LEMMA ListTimerStep ==
  ASSUME IInv, ListInv, timer_on_list
  PROVE  ListInv'
<1>1. timer_interrupt /\ tasks \in Seq(Task) /\ NTasks \in Nat \ {0}
  BY SchedulerAssumption DEF timer_on_list, IInv, TypeOK
<1>2. CASE ~scheduler_tick(jiffies') \/ NothingElseToRun
  <2>1. tasks' = tasks /\ curr' = curr
    BY <1>1, <1>2 DEF timer_interrupt, schedule
  <2> QED
    BY <2>1, ListUnmoved DEF timer_on_list
<1>3. CASE scheduler_tick(jiffies') /\ ~NothingElseToRun
  <2>1. /\ pc = "hlt" /\ Len(tasks) = NTasks /\ tasks # <<>>
        /\ tasks' = (IF Len(tasks) > 1 THEN Append(Tail(tasks), Head(tasks)) ELSE tasks)
        /\ curr' = Head(tasks)
    BY <1>1, <1>3, TickReady DEF schedule
  <2>2. DOMAIN tasks = 1..NTasks /\ Head(tasks) = tasks[1] /\ head = tasks[1]
    BY <1>1, <2>1, ReadsLinked DEF ListInv
  <2>3. next[head] = IF NTasks = 1 THEN NULL ELSE tasks[2]
    <3>1. 1 \in DOMAIN tasks
      BY <1>1, <2>2
    <3> QED
      BY <2>1, <2>2, <3>1, ReadsLinked DEF ListInv, Linked
  <2>4. CASE NTasks = 1
    <3>1. tasks' = tasks
      BY <2>1, <2>4
    <3> QED
      BY <2>3, <2>4, <3>1, ListUnmoved DEF timer_on_list
  <2>5. CASE NTasks # 1
    <3>1. 1 \in 1..NTasks /\ 2 \in 1..NTasks /\ NTasks \in 1..NTasks
      BY <1>1, <2>5
    <3>2. tasks[1] \in Task /\ tasks[2] \in Task
      BY <1>1, <2>2, <3>1
    <3>3. curr' # curr
      <4>1. curr = NULL \/ curr = tasks[NTasks]
        BY DEF IInv, QueueInv
      <4>2. tasks[1] # tasks[NTasks]
        BY <2>2, <2>5, <3>1 DEF ListInv, Distinct
      <4> QED
        BY <2>1, <2>2, <3>2, <4>1, <4>2 DEF Task
    <3>4. next[head] # NULL
      BY <2>3, <2>5, <3>2 DEF Task
    <3>5. List!schedule
      BY <3>3, <3>4 DEF timer_on_list
    <3>6. Len(tasks) \in 2..NTasks /\ Len(tasks) > 1
      BY <1>1, <2>1, <2>5
    <3> QED
      BY <1>1, <2>1, <3>5, <3>6, ListRotates
  <2> QED
    BY <2>4, <2>5
<1> QED
  BY <1>2, <1>3

(* Every step of kmain, the timer and the rest of the system.                *)
LEMMA ListStep ==
  ASSUME IInv, ListInv,
         [kmain_on_list \/ timer_on_list \/ others_on_list]_<<vars, listVars>>
  PROVE  ListInv' /\ [Next]_vars
<1>1. CASE kmain_on_list
  <2>1. kmain /\ Next
    BY <1>1 DEF kmain_on_list, Next
  <2>2. CASE pc = "scheduler_init"
    <3>1. scheduler_init /\ List!scheduler_init(1)
      BY <1>1, <2>1, <2>2, Zenon DEF kmain_on_list, kmain, irq_enable, calibrate_read, calibrate_wait,
         calibrate_loop, set_interrupts, scheduler_add, Kmain
    <3> QED
      BY <2>1, <3>1, ListInitStep, SMTT(60)
  <2>3. CASE pc = "scheduler_add"
    <3>1. scheduler_add /\ List!scheduler_add(find_free_pid)
      BY <1>1, <2>1, <2>3, Zenon DEF kmain_on_list, kmain, irq_enable, calibrate_read, calibrate_wait,
         calibrate_loop, set_interrupts, scheduler_init, Kmain
    <3> QED
      BY <2>1, <3>1, ListAddStep, SMTT(60)
  <2>4. CASE pc \notin {"scheduler_init", "scheduler_add"}
    <3>1. tasks' = tasks /\ UNCHANGED listVars
      BY <1>1, <2>1, <2>4, Zenon DEF kmain_on_list, kmain, irq_enable, calibrate_read, calibrate_wait,
         calibrate_loop, set_interrupts, scheduler_init, scheduler_add, Kmain, rqVars
    <3> QED
      BY <2>1, <3>1, ListUnmoved, SMTT(60)
  <2> QED
    BY <2>2, <2>3, <2>4
<1>2. CASE timer_on_list
  BY <1>2, ListTimerStep DEF timer_on_list, Next, interrupt_handler
<1>3. CASE others_on_list
  <2>1. tasks' = tasks /\ UNCHANGED listVars /\ Next
    BY <1>3, Zenon DEF others_on_list, user_step, keyboard_interrupt, lpt1_interrupt,
       spurious_interrupt, Raise, rqVars, Next, interrupt_handler
  <2> QED
    BY <2>1, ListUnmoved, SMTT(60)
<1>4. CASE UNCHANGED <<vars, listVars>>
  <2>1. tasks' = tasks /\ UNCHANGED listVars /\ UNCHANGED vars
    BY <1>4 DEF vars, rqVars
  <2> QED
    BY <2>1, ListUnmoved
<1> QED
  BY <1>1, <1>2, <1>3, <1>4

(* The pointer updates of scheduler_add and schedule keep the list that the  *)
(* next fields make equal to the queue, for any number of tasks and whatever *)
(* kmalloc left in the nodes.                                                *)
THEOREM ListIsAlwaysQueue == ListSpec => []ListIsQueue
<1>1. Init /\ List!Init => IInv /\ ListInv
  <2> SUFFICES ASSUME Init, List!Init PROVE ListInv
    BY InitInv
  <2>1. tasks = <<>> /\ head = NULL /\ next \in [Task -> {NULL} \cup Task] /\ DOMAIN tasks = {}
    BY DEF Init, List!Init
  <2> QED
    BY <2>1 DEF ListInv, Distinct, ListIsQueue, List!Reads
<1>2. /\ IInv /\ ListInv
      /\ [kmain_on_list \/ timer_on_list \/ others_on_list]_<<vars, listVars>>
      => IInv' /\ ListInv'
  BY ListStep, NextInv
<1>3. ListInv => ListIsQueue
  BY DEF ListInv
<1> QED
  BY <1>1, <1>2, <1>3, PTL DEF ListSpec
=============================================================================
