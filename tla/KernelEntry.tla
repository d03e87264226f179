---------------------------- MODULE KernelEntry ----------------------------
(***************************************************************************)
(* The ways from a process into the kernel and back: the SYSCALL           *)
(* instruction (syscall/init.c, syscall.asm, and the stub of libc that     *)
(* executes it) and the interrupt vectors (vectors.asm, idt.c), with the   *)
(* registers and the stacks they go through.                               *)
(*                                                                         *)
(* cpu.rip says which of those pieces of code is to run next, so that what *)
(* is saved and restored as rip takes the processor back to it.  A stack   *)
(* is the sequence of the words on it, the last one on top; rsp is         *)
(* 1000 * stack + words.  The registers hold recognisable numbers.  What   *)
(* schedule decides is left open: any tick may switch to the next task     *)
(* (module Scheduler has the rest of it).                                  *)
(***************************************************************************)
EXTENDS Integers, Sequences, Functions, FiniteSets

CONSTANTS
  Tasks,        \* bound: the processes, 1..n, in the order schedule takes them
  Vectors,      \* bound: the vectors that are raised
  MaxTicks,     \* bound: timer interrupts
  TickMs        \* milliseconds of a tick

VARIABLES
  cpu,          \* the registers, flags and selectors
  stk,          \* the stacks: 0 of the system calls, t of task t in the kernel
  curr,         \* this_rq()->curr
  ctx,          \* the context saved in each task_struct_t
  now,          \* rtc_curr_unixtime
  want          \* what each process expects to find in the registers

vars == <<cpu, stk, curr, ctx, now, want>>

(* the selectors of gdt_segments.h *)
KernelCode == 8
KernelData == 16
UserData == 24
UserCode == 32

(* the descriptors of gdt64.asm that they select, but the one of the TSS *)
GDT64 == [s \in {8, 16, 24, 32} |-> [code |-> s \in {8, 32}, dpl |-> IF s < 24 THEN 0 ELSE 3]]

(* pushaq, from the first register pushed to the last, and registers_64_t,  *)
(* from the lowest address                                                  *)
pushaq == <<"rax", "rbx", "rcx", "rdx", "rbp", "rdi", "rsi",
            "r8", "r9", "r10", "r11", "r12", "r13", "r14", "r15">>
registers_64_t == <<"r15", "r14", "r13", "r12", "r11", "r10", "r9", "r8",
                    "rsi", "rdi", "rbp", "rdx", "rcx", "rbx", "rax">>
GPR == Range(pushaq)
CallerSaved == {"rcx", "rdx", "rsi", "rdi", "r8", "r9", "r10", "r11"}
sys_ctrl_regs_t == <<"cr8", "cr4", "cr3", "cr2", "cr0">>

(* interrupt_stack_frame_t, from the lowest address *)
interrupt_stack_frame_t ==
  sys_ctrl_regs_t \o registers_64_t \o
  <<"trap_number", "error_code", "rip", "cs", "rflags", "rsp", "ss">>

(* the values of a structure whose first member is on top of a stack *)
Struct(fields, stack, n) ==
  [f \in Range(fields) |-> stack[n - (CHOOSE i \in DOMAIN fields : fields[i] = f) + 1]]

Rsp(s, n) == 1000 * s + n
Stack(rsp) == rsp \div 1000
Words(rsp) == rsp % 1000
UserStack(t) == Rsp(100 + t, 0)
KernelImage == 4607                      \* the word the kernel's ELF image starts with
junk == 9999

(* values of rip: the code of a process, and that of the kernel *)
user == 1
call == 2
leave_ret == 3
syscall_entry_ip == 4
syscall_handler_ip == 5
syscall_exit_ip == 6
interrupt_handler_ip == 7
restore_state_ip == 8
halt == 9
fatal == 10
vector_ip(v) == 100 + v

(* rflags: DF is 1, IF is 2 *)
Interruptible(f) == f >= 2
Clear(f, mask) ==
  2 * ((f \div 2) * (1 - (mask \div 2))) + (f % 2) * (1 - (mask % 2))

NR == [read |-> 0, write |-> 1, getpid |-> 39, time |-> 201]
Served == {NR.write, NR.getpid, NR.time}             \* and libc calls no other
InUser == cpu.cs % 4 = 3
-----------------------------------------------------------------------------
(* syscall_init *)

(* a plausible bug: SYSRET is thought to add 8 for the code *)
MSR_STAR_user_8 == UserCode - 8

MSR_STAR_user == UserCode - 16
MSR_STAR_kernel == KernelCode
MSR_LSTAR == syscall_entry_ip

(* a plausible bug: interrupts are left on *)
MSR_FMASK_DF == 1

MSR_FMASK == 3

(* create_process *)
Fresh(t) ==
  [gpr |-> [r \in GPR |-> 0], rip |-> user, rsp |-> UserStack(t), rflags |-> 2,
   cs |-> UserCode + 3, ss |-> UserData + 3]

Init ==
  /\ ctx = [t \in Tasks |-> Fresh(t)] /\ want = ctx
  /\ curr = 1 /\ cpu = Fresh(1)
  /\ stk = [s \in {0} \cup Tasks |-> <<>>]
  /\ now = 0
-----------------------------------------------------------------------------
(* The process *)

(* it computes, and then calls syscall() of libc, whose frame pointer lets  *)
(* it find its stack again.  Any argument that the call has may be 0        *)
Arguments(nr) == IF nr = NR.write THEN {"rdi", "rsi"} ELSE {}
user_step(nr, df, zero) ==
  LET reg(r) == 50 * curr + (CHOOSE i \in DOMAIN pushaq : pushaq[i] = r)
      regs == [r \in GPR |-> IF r = "rax" THEN nr ELSE IF r = "rbp" THEN cpu.rsp
                             ELSE IF r \in zero THEN 0 ELSE reg(r)]
  IN  /\ InUser /\ cpu.rip = user
      /\ cpu' = [cpu EXCEPT !.gpr = regs, !.rip = call, !.rflags = IF df THEN 3 ELSE 2]
      /\ want' = [want EXCEPT ![curr] = cpu']
      /\ UNCHANGED <<stk, curr, ctx, now>>

(* what a system call is for *)
Result(nr) == CASE nr = NR.write -> cpu.gpr["rsi"]
                [] nr = NR.getpid -> curr
                [] nr = NR.time -> now \div 1000

(* the SYSCALL instruction *)
syscall ==
  /\ InUser /\ cpu.rip = call
  /\ cpu' = [cpu EXCEPT !.gpr["rcx"] = leave_ret, !.gpr["r11"] = cpu.rflags,
                        !.rip = MSR_LSTAR, !.rflags = Clear(@, MSR_FMASK),
                        !.cs = MSR_STAR_kernel, !.ss = MSR_STAR_kernel + 8]
  /\ want' = [want EXCEPT ![curr].gpr["rax"] = Result(cpu.gpr["rax"]),
                          ![curr].gpr["rcx"] = leave_ret, ![curr].gpr["r11"] = cpu.rflags,
                          ![curr].rip = leave_ret]
  /\ UNCHANGED <<stk, curr, ctx, now>>

(* the end of syscall() of libc: leave, ret *)
leave ==
  /\ InUser /\ cpu.rip = leave_ret
  /\ cpu' = [cpu EXCEPT !.rsp = cpu.gpr["rbp"], !.rip = user]
  /\ want' = [want EXCEPT ![curr].rip = user]
  /\ UNCHANGED <<stk, curr, ctx, now>>
-----------------------------------------------------------------------------
(* System calls *)

(* n words of stack s and then these *)
Pushed(s, n, words) == SubSeq(stk[s], 1, n) \o words

(* push rsp goes to the stack of the process; then mov rsp, pushaq *)
syscall_entry ==
  /\ cpu.rip = syscall_entry_ip
  /\ stk' = [stk EXCEPT ![0] = Pushed(0, 0, [i \in DOMAIN pushaq |-> cpu.gpr[pushaq[i]]])]
  /\ cpu' = [cpu EXCEPT !.rsp = Rsp(0, Len(pushaq)), !.rip = syscall_handler_ip]
  /\ UNCHANGED <<curr, ctx, now, want>>

(* BUG_ON(length == 0 || string == NULL).  Otherwise the text goes through a  *)
(* buffer of kmalloc to printk, which leaves no trace in the registers (the   *)
(* heap is in Buddy and Paging, printk in Console)                            *)
sys_write_bug(regs) == regs["rsi"] = 0 \/ regs["rdi"] = 0
sys_write(regs) == regs["rsi"]
sys_getpid == curr
sys_time == now \div 1000

(* fatal() for any other number.  fatal and BUG_ON stop the kernel *)
syscall_handler ==
  LET regs == Struct(registers_64_t, stk[0], Words(cpu.rsp))
      ret == CASE regs["rax"] = NR.write -> sys_write(regs)
               [] regs["rax"] = NR.getpid -> sys_getpid
               [] regs["rax"] = NR.time -> sys_time
               [] OTHER -> junk
      stops == regs["rax"] \notin Served \/ (regs["rax"] = NR.write /\ sys_write_bug(regs))
  IN  /\ cpu.rip = syscall_handler_ip
      /\ cpu' = [cpu EXCEPT !.gpr = [r \in GPR |-> IF r = "rax" THEN ret
                                                   ELSE IF r \in CallerSaved THEN junk ELSE @[r]],
                            !.rip = IF stops THEN fatal ELSE syscall_exit_ip]
      /\ UNCHANGED <<stk, curr, ctx, now, want>>

(* a plausible bug: rdi and rsi are popped in the order of their names *)
exit_pops_swapped == <<"r15", "r14", "r13", "r12", "r11", "r10", "r9", "r8",
                       "rdi", "rsi", "rbp", "rdx", "rcx", "rbx">>

exit_pops == <<"r15", "r14", "r13", "r12", "r11", "r10", "r9", "r8",
               "rsi", "rdi", "rbp", "rdx", "rcx", "rbx">>

(* the pops, add rsp 8, pop rsp, sysret.  The last pop takes the word above  *)
(* the start of the stack, where the image of the kernel begins              *)
syscall_exit ==
  LET n == Words(cpu.rsp)
      saved == Struct(exit_pops, stk[0], n)
      left == n - Len(exit_pops) - 1
      regs == [r \in GPR |-> IF r = "rax" THEN cpu.gpr["rax"] ELSE saved[r]]
  IN  /\ cpu.rip = syscall_exit_ip
      /\ cpu' = [gpr |-> regs, rip |-> regs["rcx"], rflags |-> regs["r11"],
                 rsp |-> IF left = 0 THEN KernelImage ELSE stk[0][left],
                 cs |-> MSR_STAR_user + 16 + 3, ss |-> MSR_STAR_user + 8 + 3]
      /\ stk' = [stk EXCEPT ![0] = SubSeq(@, 1, left)]
      /\ UNCHANGED <<curr, ctx, now, want>>
-----------------------------------------------------------------------------
(* Interrupts and exceptions *)

HardwareErrorCode == {8, 10, 11, 12, 13, 14, 17, 21}

(* idt_init: interrupt gates (type 1110b) for the exceptions and three lines *)
idt64_table ==
  [v \in (0..8) \cup (10..14) \cup (16..21) \cup {32, 33, 39} |->
     [offset |-> vector_ip(v), target_selector |-> KernelCode, type |-> 14]]

(* the processes are numbered from 1 on, and only vectors with a gate are    *)
(* raised                                                                    *)
ASSUME EntryAssumption ==
  /\ Cardinality(Tasks) \in Nat \ {0} /\ Tasks = 1..Cardinality(Tasks)
  /\ Vectors \subseteq DOMAIN idt64_table
  /\ MaxTicks \in Nat /\ TickMs \in Nat

(* the numbers that have a name in exception_strs *)
exception_strs == 0..21

(* the processor goes through the gate, an interrupt gate turns interrupts  *)
(* off; on the stack of TSS.rsp0 if it comes from a process                 *)
interrupt(v) ==
  LET gate == idt64_table[v]
      s == IF InUser THEN curr ELSE Stack(cpu.rsp)
      n == IF InUser THEN 0 ELSE Words(cpu.rsp)
      words == <<cpu.ss, cpu.rsp, cpu.rflags, cpu.cs, cpu.rip>> \o
               (IF v \in HardwareErrorCode THEN <<junk>> ELSE <<>>)
  IN  /\ cpu.rip \in user..syscall_exit_ip
      /\ IF v >= 32 THEN Interruptible(cpu.rflags) ELSE InUser
      /\ v = 32 => now < MaxTicks * TickMs
      /\ stk' = [stk EXCEPT ![s] = Pushed(s, n, words)]
      /\ cpu' = [cpu EXCEPT !.rsp = Rsp(s, n + Len(words)), !.ss = 0,
                            !.rflags = Clear(@, IF gate.type = 14 THEN 2 ELSE 0),
                            !.cs = gate.target_selector, !.rip = gate.offset]
      /\ UNCHANGED <<curr, ctx, now, want>>

(* a plausible bug: vector 17 is taken for one without an error code *)
errorcode_present_few == {8, 10, 11, 12, 13, 14, 21}

(* the vectors that use vector_interrupt_errorcode_present_save_state *)
errorcode_present == {8, 10, 11, 12, 13, 14, 17, 21}

(* what is in the control registers does not matter here *)
sys_ctrl_regs == [i \in DOMAIN sys_ctrl_regs_t |-> junk]

(* the stub saves everything and clears DF before it calls C *)
vector_save_state ==
  LET v == cpu.rip - vector_ip(0)
      s == Stack(cpu.rsp)
      words == (IF v \in errorcode_present THEN <<v>> ELSE <<0, v>>) \o
               [i \in DOMAIN pushaq |-> cpu.gpr[pushaq[i]]] \o sys_ctrl_regs
  IN  /\ v \in Vectors
      /\ stk' = [stk EXCEPT ![s] = Pushed(s, Words(cpu.rsp), words)]
      /\ cpu' = [cpu EXCEPT !.rsp = @ + Len(words), !.rflags = Clear(@, 1),
                            !.rip = interrupt_handler_ip]
      /\ UNCHANGED <<curr, ctx, now, want>>

Frame == Struct(interrupt_stack_frame_t, stk[Stack(cpu.rsp)], Words(cpu.rsp))

(* the frame as the members of interrupt_stack_frame_t say, on the stack *)
Stored(f) ==
  LET s == stk[Stack(cpu.rsp)]
      n == Words(cpu.rsp)
      len == Len(interrupt_stack_frame_t)
  IN  [k \in DOMAIN s |-> IF k > n - len /\ k <= n THEN f[interrupt_stack_frame_t[n - k + 1]] ELSE s[k]]

SuccTask(t) == IF t = Cardinality(Tasks) THEN 1 ELSE t + 1

(* schedule, unless there is nothing else to run: the frame goes to the      *)
(* task, the one of the next task into the frame, and launch_process moves   *)
(* TSS.rsp0 along with curr                                                  *)
schedule ==
  LET f == Frame
      next == ctx[SuccTask(curr)]
  IN  /\ SuccTask(curr) # curr
      /\ ctx' = [ctx EXCEPT ![curr] = [gpr |-> [r \in GPR |-> f[r]], rip |-> f["rip"], rsp |-> f["rsp"],
                                       rflags |-> f["rflags"], cs |-> f["cs"], ss |-> f["ss"]]]
      /\ curr' = SuccTask(curr)
      /\ stk' = [stk EXCEPT ![Stack(cpu.rsp)] =
                   Stored([x \in DOMAIN f |-> IF x \in GPR THEN next.gpr[x]
                             ELSE IF x \in {"rip", "rsp", "rflags", "cs", "ss"} THEN next[x] ELSE f[x]])]

Called(ip) == cpu' = [cpu EXCEPT !.gpr = [r \in GPR |-> IF r \in CallerSaved \cup {"rax"} THEN junk ELSE @[r]],
                                 !.rip = ip]

interrupt_handler ==
  LET trap == Frame["trap_number"]
  IN  /\ cpu.rip = interrupt_handler_ip
      /\ \/ /\ trap = 32 /\ now' = now + TickMs
            /\ schedule \/ UNCHANGED <<stk, curr, ctx>>
            /\ Called(restore_state_ip)
         \/ /\ trap \in {33, 39}
            /\ Called(restore_state_ip) /\ UNCHANGED <<stk, curr, ctx, now>>
         \/ /\ trap \notin {32, 33, 39}              \* coredump, and halt for ever
            /\ Called(halt) /\ UNCHANGED <<stk, curr, ctx, now>>
      /\ UNCHANGED want

(* 40 bytes, the registers, and 16 bytes *)
skipped == Len(sys_ctrl_regs_t) + Len(registers_64_t) + 2

(* vector_interrupt_restore_state, iretq *)
vector_restore_state ==
  LET s == stk[Stack(cpu.rsp)]
      n == Words(cpu.rsp)
      regs == Struct(sys_ctrl_regs_t \o registers_64_t, s, n)
      iret == Struct(<<"rip", "cs", "rflags", "rsp", "ss">>, s, n - skipped)
  IN  /\ cpu.rip = restore_state_ip
      /\ cpu' = [x \in DOMAIN cpu |-> IF x = "gpr" THEN [r \in GPR |-> regs[r]] ELSE iret[x]]
      /\ stk' = [stk EXCEPT ![Stack(cpu.rsp)] = SubSeq(@, 1, n - skipped - 5)]
      /\ UNCHANGED <<curr, ctx, now, want>>

Next ==
  \/ \E nr \in Served, df \in BOOLEAN : \E zero \in SUBSET Arguments(nr) : user_step(nr, df, zero)
  \/ syscall \/ leave
  \/ syscall_entry \/ syscall_handler \/ syscall_exit
  \/ \E v \in Vectors : interrupt(v)
  \/ vector_save_state \/ interrupt_handler \/ vector_restore_state

Spec == Init /\ [][Next]_vars
-----------------------------------------------------------------------------
(* Properties *)

(* SYSCALL and SYSRET compute selectors from the bases in MSR_STAR, the gates *)
(* and create_process name theirs, and IRETQ takes what is on the stack: cs   *)
(* always selects code and ss data (or nothing, in the kernel) of the         *)
(* privilege level the processor is at.                                       *)
SelectorsFit ==
  LET cpl == cpu.cs % 4
      fits(s, code) == s \in DOMAIN GDT64 /\ GDT64[s] = [code |-> code, dpl |-> cpl]
  IN  /\ fits(cpu.cs - cpl, TRUE)
      /\ fits(cpu.ss - cpl, FALSE) \/ (cpl = 0 /\ cpu.ss = 0)

SameBut(c, w, skip) ==
  \A x \in {"gpr", "rip", "rsp", "rflags", "cs", "ss"} \ skip : c[x] = w[x]

(* Every process has the processor to itself: whenever it runs, and in the   *)
(* context that is saved for it while it does not, its registers, flags and  *)
(* selectors are what its own instructions and the results of its system     *)
(* calls made them, whichever interrupts, system calls and switches came     *)
(* between.  The one exception is rsp between SYSRET and the end of libc's   *)
(* syscall().                                                                *)
OwnProcessor ==
  \A t \in Tasks :
    LET c == IF t = curr THEN cpu ELSE ctx[t]
    IN  (t = curr => InUser) => SameBut(c, want[t], IF c.rip = leave_ret THEN {"rsp"} ELSE {})

(* A C function is entered with interrupts off and, as the System V ABI      *)
(* wants it, with the direction flag clear, whatever the process did to its  *)
(* flags.                                                                    *)
FlagsInC ==
  cpu.rip \in {syscall_handler_ip, interrupt_handler_ip} => cpu.rflags = 0

(* interrupt_handler finds the number of the vector in trap_number, and what *)
(* it interrupted in the rest of the frame, although only some exceptions    *)
(* push an error code.  exception_strs has a name for every trap that ends   *)
(* in the coredump.                                                          *)
FrameUniform ==
  /\ cpu.rip = interrupt_handler_ip =>
       Frame["trap_number"] \in Vectors /\ Frame["cs"] = UserCode + 3 /\ Frame["ss"] = UserData + 3
  /\ cpu.rip = halt => Frame["trap_number"] \in exception_strs
=============================================================================
