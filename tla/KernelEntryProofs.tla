------------------------- MODULE KernelEntryProofs -------------------------
(***************************************************************************)
(* Every process has the processor to itself, for any number of processes,  *)
(* whichever vectors are raised.                                            *)
(***************************************************************************)
EXTENDS KernelEntry, TLAPS

(* A set of registers, flags and selectors. *)
Context == [gpr : [GPR -> Int], rip : Int, rsp : Int, rflags : Int, cs : Int, ss : Int]

(* What a process may expect to find: it is in one of the three places of    *)
(* user code, before SYSCALL it has put a number in rax that is served, and  *)
(* until syscall() of libc ends rbp remembers its stack.                     *)
Expected(w) ==
  /\ w \in Context
  /\ w.rip \in {user, call, leave_ret} /\ w.rflags \in {2, 3}
  /\ w.cs = UserCode + 3 /\ w.ss = UserData + 3
  /\ w.rip = call => w.gpr["rax"] \in Served
  /\ w.rip # user => w.gpr["rbp"] = w.rsp
  /\ w.rip = leave_ret => w.gpr["rcx"] = leave_ret /\ w.gpr["r11"] = w.rflags

(* The context c is what the process expects. *)
Agrees(c, w) ==
  /\ c \in Context
  /\ c.gpr = w.gpr /\ c.rip = w.rip /\ c.rflags = w.rflags /\ c.cs = w.cs /\ c.ss = w.ss
  /\ c.rip # leave_ret => c.rsp = w.rsp

(* The context the processor had before it went through a gate, and the one  *)
(* in the frame that interrupt_handler is given.                             *)
Entered ==
  LET s == stk[curr]
  IN  [gpr |-> cpu.gpr, rip |-> s[5], rsp |-> s[2], rflags |-> s[3], cs |-> s[4], ss |-> s[1]]
Interrupted ==
  [gpr |-> [r \in GPR |-> Frame[r]], rip |-> Frame["rip"], rsp |-> Frame["rsp"],
   rflags |-> Frame["rflags"], cs |-> Frame["cs"], ss |-> Frame["ss"]]

TypeOK ==
  /\ cpu \in Context /\ curr \in Tasks /\ now \in Nat
  /\ stk \in [{0} \cup Tasks -> Seq(Int)]
  /\ ctx \in [Tasks -> Context] /\ want \in [Tasks -> Context]

(* The processor runs the code of the current process ... *)
UserInv ==
  cpu.rip \in {user, call, leave_ret} => Agrees(cpu, want[curr])

(* ... or it is between SYSCALL and SYSRET, with the result the process      *)
(* waits for still to be computed, or in rax, or stopped for good, ...       *)
Asked ==
  /\ cpu.gpr["rax"] \in Served /\ want[curr].gpr["rax"] = Result(cpu.gpr["rax"])
  /\ \A r \in GPR \ {"rax"} : cpu.gpr[r] = want[curr].gpr[r]
CallInv ==
  /\ cpu.rip \in {syscall_entry_ip, syscall_handler_ip, syscall_exit_ip, fatal} =>
       cpu.cs = KernelCode /\ cpu.ss = KernelData /\ cpu.rflags = 0 /\ want[curr].rip = leave_ret
  /\ cpu.rip = syscall_entry_ip => Asked
  /\ cpu.rip = syscall_handler_ip =>
       Asked /\ cpu.rsp = Rsp(0, 15) /\ stk[0] = [k \in 1..15 |-> cpu.gpr[pushaq[k]]]
  /\ cpu.rip = syscall_exit_ip =>
       /\ cpu.gpr["rax"] = want[curr].gpr["rax"]
       /\ cpu.rsp = Rsp(0, 15) /\ Len(stk[0]) = 15
       /\ \A k \in 2..15 : stk[0][k] = want[curr].gpr[pushaq[k]]

(* ... or in the stub of a vector, with what the processor pushed on the     *)
(* kernel stack of the process, ...                                          *)
VectorInv ==
  \A v \in Vectors : cpu.rip = vector_ip(v) =>
    /\ cpu.cs = KernelCode /\ cpu.ss = 0 /\ cpu.rflags \in {0, 1}
    /\ Len(stk[curr]) = (IF v \in errorcode_present THEN 6 ELSE 5)
    /\ cpu.rsp = Rsp(curr, Len(stk[curr]))
    /\ Agrees(Entered, want[curr])

(* ... or it handles an interrupt, with the whole frame on a kernel stack.   *)
HandlerInv ==
  /\ cpu.rip \in {interrupt_handler_ip, restore_state_ip, halt} =>
       /\ cpu.cs = KernelCode /\ cpu.ss = 0 /\ cpu.rflags = 0
       /\ \E s \in Tasks : cpu.rsp = Rsp(s, 27) /\ Len(stk[s]) = 27
       /\ Agrees(Interrupted, want[curr])
  /\ cpu.rip = interrupt_handler_ip => Frame["trap_number"] \in Vectors
  /\ cpu.rip = halt => Frame["trap_number"] \in exception_strs

Places ==
  {user, call, leave_ret, syscall_entry_ip, syscall_handler_ip, syscall_exit_ip,
   fatal, interrupt_handler_ip, restore_state_ip, halt} \cup {vector_ip(v) : v \in Vectors}

(* The inductive invariant. *)
IInv ==
  /\ TypeOK /\ cpu.rip \in Places
  /\ \A t \in Tasks : Expected(want[t])
  /\ \A t \in Tasks \ {curr} : Agrees(ctx[t], want[t])
  /\ UserInv /\ CallInv /\ VectorInv /\ HandlerInv
-----------------------------------------------------------------------------
(* Structures on a stack *)

Distinct(fields) == \A j, k \in DOMAIN fields : fields[j] = fields[k] => j = k

(* A member of a structure is found as far below the top as its place in the *)
(* structure says.                                                           *)
LEMMA StructAt ==
  ASSUME NEW fields, Distinct(fields), NEW k \in DOMAIN fields, NEW stack, NEW n
  PROVE  Struct(fields, stack, n)[fields[k]] = stack[n - k + 1]
<1>1. (CHOOSE i \in DOMAIN fields : fields[i] = fields[k]) = k
  BY DEF Distinct
<1>2. fields[k] \in Range(fields)
  BY DEF Range
<1> QED
  BY <1>1, <1>2, Zenon DEF Struct

(* registers_64_t is what pushaq leaves on the stack, and syscall_entry pops *)
(* all of it but rax.                                                        *)
LEMMA Registers ==
  /\ DOMAIN pushaq = 1..15 /\ DOMAIN registers_64_t = 1..15 /\ DOMAIN exit_pops = 1..14
  /\ Len(pushaq) = 15 /\ Len(registers_64_t) = 15 /\ Len(exit_pops) = 14
  /\ \A k \in 1..15 : registers_64_t[k] = pushaq[16 - k]
  /\ \A k \in 1..14 : exit_pops[k] = pushaq[16 - k]
  /\ pushaq[1] = "rax"
<1>1. /\ DOMAIN pushaq = 1..15 /\ DOMAIN registers_64_t = 1..15 /\ DOMAIN exit_pops = 1..14
      /\ Len(pushaq) = 15 /\ Len(registers_64_t) = 15 /\ Len(exit_pops) = 14 /\ pushaq[1] = "rax"
  BY DEF pushaq, registers_64_t, exit_pops
<1>2. \A k \in 1..15 : registers_64_t[k] = pushaq[16 - k]
  BY DEF pushaq, registers_64_t
<1>3. \A k \in 1..14 : exit_pops[k] = pushaq[16 - k]
  BY DEF pushaq, exit_pops
<1> QED
  BY <1>1, <1>2, <1>3

(* No register is pushed twice.                                              *)
LEMMA PushedOnce == Distinct(pushaq)
BY DEF pushaq, Distinct

(* Three pieces of a stack, or of a structure, one after the other.          *)
LEMMA ConcatTwo ==
  ASSUME NEW S, NEW a \in Seq(S), NEW b \in Seq(S), NEW ab, ab = a \o b
  PROVE  /\ ab \in Seq(S) /\ Len(ab) = Len(a) + Len(b)
         /\ \A k \in 1..Len(a) : ab[k] = a[k]
         /\ \A k \in 1..Len(b) : ab[Len(a) + k] = b[k]
OBVIOUS

LEMMA ConcatThree ==
  ASSUME NEW S, NEW a \in Seq(S), NEW b \in Seq(S), NEW c \in Seq(S), NEW abc, abc = (a \o b) \o c
  PROVE  /\ abc \in Seq(S) /\ Len(abc) = Len(a) + Len(b) + Len(c)
         /\ \A k \in 1..Len(a) : abc[k] = a[k]
         /\ \A k \in 1..Len(b) : abc[Len(a) + k] = b[k]
         /\ \A k \in 1..Len(c) : abc[Len(a) + Len(b) + k] = c[k]
<1> PICK ab : ab = a \o b
  BY Zenon
<1>1. /\ ab \in Seq(S) /\ Len(ab) = Len(a) + Len(b)
      /\ \A k \in 1..Len(a) : ab[k] = a[k]
      /\ \A k \in 1..Len(b) : ab[Len(a) + k] = b[k]
  BY ConcatTwo
<1>2. ab \in Seq(S) /\ abc = ab \o c
  BY <1>1
<1>3. /\ abc \in Seq(S) /\ Len(abc) = Len(ab) + Len(c)
      /\ \A k \in 1..Len(ab) : abc[k] = ab[k]
      /\ \A k \in 1..Len(c) : abc[Len(ab) + k] = c[k]
  BY ONLY <1>2, c \in Seq(S), ConcatTwo
<1>4. \A k \in 1..Len(b) : Len(a) + k \in 1..Len(ab)
  BY <1>1
<1>5. \A k \in 1..Len(a) : k \in 1..Len(ab)
  BY <1>1
<1> QED
  BY <1>1, <1>3, <1>4, <1>5

(* interrupt_stack_frame_t: the control registers, what pushaq pushed, the   *)
(* number and the error code, and what the processor pushed.                 *)
LEMMA FrameLayout ==
  LET frame == interrupt_stack_frame_t
  IN  /\ Len(frame) = 27 /\ DOMAIN frame = 1..27
      /\ \A k \in 1..15 : frame[5 + k] = pushaq[16 - k]
      /\ frame[21] = "trap_number" /\ frame[23] = "rip" /\ frame[24] = "cs"
      /\ frame[25] = "rflags" /\ frame[26] = "rsp" /\ frame[27] = "ss"
      /\ Distinct(frame)
<1> DEFINE low == <<"trap_number", "error_code", "rip", "cs", "rflags", "rsp", "ss">>
           Names == GPR \cup {"cr8", "cr4", "cr3", "cr2", "cr0", "trap_number", "error_code",
                              "rip", "cs", "rflags", "rsp", "ss"}
<1> PICK frame : frame = interrupt_stack_frame_t
  OBVIOUS
<1>1. /\ sys_ctrl_regs_t \in Seq(Names) /\ Len(sys_ctrl_regs_t) = 5
      /\ low \in Seq(Names) /\ Len(low) = 7
  BY DEF sys_ctrl_regs_t
<1>2. registers_64_t \in Seq(Names) /\ Len(registers_64_t) = 15
  BY DEF registers_64_t, GPR, pushaq, Range
<1>3. frame = (sys_ctrl_regs_t \o registers_64_t) \o low
  BY DEF interrupt_stack_frame_t
<1>4. /\ Len(frame) = 27 /\ DOMAIN frame = 1..27
      /\ \A k \in 1..5 : frame[k] = sys_ctrl_regs_t[k]
      /\ \A k \in 1..15 : frame[5 + k] = registers_64_t[k]
      /\ \A k \in 1..7 : frame[20 + k] = low[k]
  <2> PICK S, a, b, c : S = Names /\ a = sys_ctrl_regs_t /\ b = registers_64_t /\ c = low
    BY Zenon
  <2>1. a \in Seq(S) /\ b \in Seq(S) /\ c \in Seq(S) /\ frame = (a \o b) \o c
    BY <1>1, <1>2, <1>3
  <2>2. /\ frame \in Seq(S) /\ Len(frame) = Len(a) + Len(b) + Len(c)
        /\ \A k \in 1..Len(a) : frame[k] = a[k]
        /\ \A k \in 1..Len(b) : frame[Len(a) + k] = b[k]
        /\ \A k \in 1..Len(c) : frame[Len(a) + Len(b) + k] = c[k]
    BY ONLY <2>1, ConcatThree
  <2>3. Len(a) = 5 /\ Len(b) = 15 /\ Len(c) = 7
    BY <1>1, <1>2
  <2>4. /\ Len(frame) = 27 /\ DOMAIN frame = 1..27
        /\ \A k \in 1..5 : frame[k] = a[k]
        /\ \A k \in 1..15 : frame[5 + k] = b[k]
        /\ \A k \in 1..7 : frame[20 + k] = c[k]
    BY ONLY <2>2, <2>3
  <2> QED
    BY <2>4
<1>5. /\ frame[1] = "cr8" /\ frame[2] = "cr4" /\ frame[3] = "cr3" /\ frame[4] = "cr2" /\ frame[5] = "cr0"
      /\ frame[6] = "r15" /\ frame[7] = "r14" /\ frame[8] = "r13" /\ frame[9] = "r12" /\ frame[10] = "r11"
      /\ frame[11] = "r10" /\ frame[12] = "r9" /\ frame[13] = "r8" /\ frame[14] = "rsi" /\ frame[15] = "rdi"
      /\ frame[16] = "rbp" /\ frame[17] = "rdx" /\ frame[18] = "rcx" /\ frame[19] = "rbx" /\ frame[20] = "rax"
      /\ frame[21] = "trap_number" /\ frame[22] = "error_code" /\ frame[23] = "rip" /\ frame[24] = "cs"
      /\ frame[25] = "rflags" /\ frame[26] = "rsp" /\ frame[27] = "ss"
  BY <1>4 DEF sys_ctrl_regs_t, registers_64_t
<1>6. Distinct(frame)
  BY <1>4, <1>5 DEF Distinct
<1> QED
  BY <1>4, <1>5, <1>6, Registers

(* The registers are the ones that pushaq pushes.                            *)
LEMMA Named ==
  /\ \A r \in GPR : \E k \in 1..15 : r = pushaq[k]
  /\ \A k \in 1..15 : pushaq[k] \in GPR
  /\ \A k \in 2..15 : pushaq[k] # "rax"
  /\ {"rax", "rbp", "rcx", "r11", "rsi"} \subseteq GPR
  /\ CallerSaved \subseteq GPR \ {"rax"}
  /\ GPR \cap {"rip", "rsp", "rflags", "cs", "ss", "trap_number"} = {}
<1>1. GPR = {pushaq[k] : k \in 1..15}
  BY Registers DEF GPR, Range
<1>2. \A k \in 2..15 : pushaq[k] # "rax"
  BY DEF pushaq
<1>3. /\ pushaq[1] = "rax" /\ pushaq[2] = "rbx" /\ pushaq[3] = "rcx" /\ pushaq[4] = "rdx"
      /\ pushaq[5] = "rbp" /\ pushaq[6] = "rdi" /\ pushaq[7] = "rsi" /\ pushaq[8] = "r8"
      /\ pushaq[9] = "r9" /\ pushaq[10] = "r10" /\ pushaq[11] = "r11" /\ pushaq[12] = "r12"
      /\ pushaq[13] = "r13" /\ pushaq[14] = "r14" /\ pushaq[15] = "r15"
  BY DEF pushaq
<1>4. \A k \in 1..15 : pushaq[k] \notin {"rip", "rsp", "rflags", "cs", "ss", "trap_number"}
  BY <1>3
<1>5. \A k \in 1..15 : pushaq[k] \in GPR
  BY <1>1
<1>6. /\ "rax" \in GPR /\ "rbp" \in GPR /\ "rcx" \in GPR /\ "r11" \in GPR /\ "rsi" \in GPR
      /\ "rdx" \in GPR /\ "rdi" \in GPR /\ "r8" \in GPR /\ "r9" \in GPR /\ "r10" \in GPR
  BY <1>3, <1>5
<1> QED
  BY <1>1, <1>2, <1>4, <1>5, <1>6 DEF CallerSaved

(* rsp tells the stack and how much is on it.                                *)
LEMMA RspParts ==
  ASSUME NEW s \in Nat, NEW n \in 0..999
  PROVE  Stack(Rsp(s, n)) = s /\ Words(Rsp(s, n)) = n
BY DEF Stack, Words, Rsp

(* The context in a frame that is the whole of a stack.                      *)
FrameOf(q) == Struct(interrupt_stack_frame_t, q, 27)
ContextOf(q) ==
  [gpr |-> [r \in GPR |-> FrameOf(q)[r]], rip |-> FrameOf(q)["rip"], rsp |-> FrameOf(q)["rsp"],
   rflags |-> FrameOf(q)["rflags"], cs |-> FrameOf(q)["cs"], ss |-> FrameOf(q)["ss"]]

(* Where the members of the frame are on the stack.                          *)
LEMMA FrameMembers ==
  ASSUME NEW q
  PROVE  /\ \A k \in 1..15 : FrameOf(q)[pushaq[k]] = q[7 + k]
         /\ FrameOf(q)["trap_number"] = q[7] /\ FrameOf(q)["rip"] = q[5] /\ FrameOf(q)["cs"] = q[4]
         /\ FrameOf(q)["rflags"] = q[3] /\ FrameOf(q)["rsp"] = q[2] /\ FrameOf(q)["ss"] = q[1]
         /\ DOMAIN FrameOf(q) = Range(interrupt_stack_frame_t)
<1>1. \A k \in 1..27 : FrameOf(q)[interrupt_stack_frame_t[k]] = q[27 - k + 1]
  BY FrameLayout, StructAt DEF FrameOf
<1>2. \A k \in 1..27 : FrameOf(q)[interrupt_stack_frame_t[k]] = q[28 - k]
  BY <1>1
<1>3. \A k \in 1..15 : FrameOf(q)[pushaq[k]] = q[7 + k]
  <2> TAKE k \in 1..15
  <2>1. interrupt_stack_frame_t[5 + (16 - k)] = pushaq[16 - (16 - k)]
    BY FrameLayout
  <2>2. interrupt_stack_frame_t[21 - k] = pushaq[k]
    BY <2>1
  <2>3. FrameOf(q)[interrupt_stack_frame_t[21 - k]] = q[28 - (21 - k)]
    BY <1>2
  <2> QED
    BY <2>2, <2>3
<1>4. DOMAIN FrameOf(q) = Range(interrupt_stack_frame_t)
  BY DEF FrameOf, Struct
<1>5. /\ FrameOf(q)[interrupt_stack_frame_t[21]] = q[7] /\ FrameOf(q)[interrupt_stack_frame_t[23]] = q[5]
      /\ FrameOf(q)[interrupt_stack_frame_t[24]] = q[4] /\ FrameOf(q)[interrupt_stack_frame_t[25]] = q[3]
      /\ FrameOf(q)[interrupt_stack_frame_t[26]] = q[2] /\ FrameOf(q)[interrupt_stack_frame_t[27]] = q[1]
  BY <1>2
<1> QED
  BY <1>3, <1>4, <1>5, FrameLayout

(* The frame of interrupt_handler is on the stack that rsp names, before and *)
(* after a step.                                                             *)
LEMMA FrameHere ==
  ASSUME NEW s \in Nat, cpu.rsp = Rsp(s, 27)
  PROVE  Frame = FrameOf(stk[s]) /\ Interrupted = ContextOf(stk[s])
<1>1. Stack(cpu.rsp) = s /\ Words(cpu.rsp) = 27
  BY RspParts, SMTT(60)
<1>2. Frame = FrameOf(stk[s])
  BY <1>1 DEF Frame, FrameOf
<1> QED
  BY <1>2 DEF Interrupted, ContextOf

LEMMA FrameThere ==
  ASSUME NEW s \in Nat, cpu'.rsp = Rsp(s, 27)
  PROVE  Frame' = FrameOf(stk'[s]) /\ Interrupted' = ContextOf(stk'[s])
<1>1. Stack(cpu'.rsp) = s /\ Words(cpu'.rsp) = 27
  BY RspParts
<1>2. Frame' = FrameOf(stk'[s])
  BY <1>1 DEF Frame, FrameOf
<1> QED
  BY <1>2 DEF Interrupted, ContextOf

(* The numbers of the processes and of the vectors, and the places of the    *)
(* kernel's code that rip names.                                             *)
LEMMA Numbers ==
  /\ Vectors \subseteq 0..39 /\ Tasks \subseteq Nat \ {0} /\ 1 \in Tasks
  /\ \A t \in Tasks : SuccTask(t) \in Tasks
  /\ \A v \in Vectors : vector_ip(v) >= 100
<1>1. DOMAIN idt64_table \subseteq 0..39
  BY DEF idt64_table
<1>2. Cardinality(Tasks) \in Nat
  BY EntryAssumption
<1>3. \A t \in Tasks : t \in Nat \ {0} /\ t <= Cardinality(Tasks)
  BY EntryAssumption, <1>2
<1>4. Cardinality(Tasks) >= 1
  BY EntryAssumption, <1>2, <1>3
<1>5. Vectors \subseteq 0..39
  BY EntryAssumption, <1>1, Zenon
<1>6. \A k \in 1..Cardinality(Tasks) : k \in Tasks
  BY EntryAssumption
<1>7. \A t \in Tasks : SuccTask(t) \in Tasks
  BY <1>2, <1>3, <1>4, <1>6 DEF SuccTask
<1>8. \A v \in Vectors : vector_ip(v) >= 100
  BY <1>5 DEF vector_ip
<1> QED
  BY <1>2, <1>3, <1>4, <1>5, <1>6, <1>7, <1>8

-----------------------------------------------------------------------------
(* Where a step ends *)

Others == /\ \A t \in Tasks : Expected(want[t])
          /\ \A t \in Tasks \ {curr} : Agrees(ctx[t], want[t])

(* Of the four cases of the invariant only the one that rip is in matters.   *)
LEMMA InProcess ==
  ASSUME TypeOK', Others', cpu'.rip \in {user, call, leave_ret}, Agrees(cpu', want'[curr'])
  PROVE  IInv'
<1>1. cpu'.rip \in {1, 2, 3}
  BY DEF user, call, leave_ret
<1>2. \A v \in Vectors : cpu'.rip # vector_ip(v)
  BY <1>1, Numbers
<1>3. UserInv' /\ VectorInv'
  BY <1>2 DEF UserInv, VectorInv
<1>4. CallInv' /\ HandlerInv'
  BY <1>1 DEF CallInv, HandlerInv, syscall_entry_ip, syscall_handler_ip, syscall_exit_ip, fatal,
     interrupt_handler_ip, restore_state_ip, halt
<1> QED
  BY <1>3, <1>4 DEF IInv, Others, Places

LEMMA InCall ==
  ASSUME TypeOK', Others', CallInv',
         cpu'.rip \in {syscall_entry_ip, syscall_handler_ip, syscall_exit_ip, fatal}
  PROVE  IInv'
<1>1. cpu'.rip \in {4, 5, 6, 10}
  BY DEF syscall_entry_ip, syscall_handler_ip, syscall_exit_ip, fatal
<1>2. \A v \in Vectors : cpu'.rip # vector_ip(v)
  BY <1>1, Numbers
<1>3. UserInv' /\ VectorInv'
  BY <1>1, <1>2 DEF UserInv, VectorInv, user, call, leave_ret
<1>4. HandlerInv'
  BY <1>1 DEF HandlerInv, interrupt_handler_ip, restore_state_ip, halt
<1> QED
  BY <1>3, <1>4 DEF IInv, Others, Places

LEMMA InStub ==
  ASSUME TypeOK', Others', VectorInv', NEW v \in Vectors, cpu'.rip = vector_ip(v)
  PROVE  IInv'
BY Numbers DEF IInv, Others, UserInv, CallInv, HandlerInv, Places, user, call, leave_ret,
   syscall_entry_ip, syscall_handler_ip, syscall_exit_ip, fatal, interrupt_handler_ip,
   restore_state_ip, halt

LEMMA InHandler ==
  ASSUME TypeOK', Others', HandlerInv',
         cpu'.rip \in {interrupt_handler_ip, restore_state_ip, halt}
  PROVE  IInv'
<1>1. cpu'.rip \in {7, 8, 9}
  BY DEF interrupt_handler_ip, restore_state_ip, halt
<1>2. \A v \in Vectors : cpu'.rip # vector_ip(v)
  BY <1>1, Numbers
<1>3. UserInv' /\ VectorInv'
  BY <1>1, <1>2 DEF UserInv, VectorInv, user, call, leave_ret
<1>4. CallInv'
  BY <1>1 DEF CallInv, syscall_entry_ip, syscall_handler_ip, syscall_exit_ip, fatal
<1> QED
  BY <1>3, <1>4 DEF IInv, Others, Places

(* create_process gives every process a context it may expect.               *)
LEMMA InitIInv == Init => IInv
<1> SUFFICES ASSUME Init PROVE IInv
  OBVIOUS
<1>1. \A t \in Tasks : Expected(Fresh(t)) /\ Agrees(Fresh(t), Fresh(t))
  BY Numbers, Named DEF Fresh, Expected, Agrees, Context, user, call, leave_ret, UserCode, UserData, UserStack, Rsp
<1>2. \A t \in Tasks : want[t] = Fresh(t) /\ ctx[t] = Fresh(t)
  BY DEF Init
<1>3. cpu = Fresh(1) /\ curr = 1 /\ cpu.rip = user
  BY DEF Init, Fresh
<1>4. TypeOK
  <2>1. \A t \in Tasks : Fresh(t) \in Context
    BY <1>1 DEF Agrees
  <2> QED
    BY <2>1, <1>3, Numbers DEF Init, TypeOK
<1>5. cpu.rip \in Places /\ UserInv
  BY <1>1, <1>2, <1>3, Numbers DEF Places, UserInv
<1>6. CallInv /\ VectorInv /\ HandlerInv
  BY <1>3, Numbers DEF CallInv, VectorInv, HandlerInv, user, syscall_entry_ip, syscall_handler_ip, syscall_exit_ip,
     fatal, interrupt_handler_ip, restore_state_ip, halt
<1> QED
  BY <1>1, <1>2, <1>4, <1>5, <1>6 DEF IInv

-----------------------------------------------------------------------------
(* The process and its system calls *)

(* What the process computes is what it expects.                             *)
LEMMA UserStep ==
  ASSUME IInv, NEW nr \in Served, NEW df \in BOOLEAN, NEW zero \in SUBSET Arguments(nr),
         user_step(nr, df, zero)
  PROVE  IInv'
<1>1. Agrees(cpu, want[curr]) /\ Expected(want[curr]) /\ curr \in Tasks
  BY DEF IInv, TypeOK, UserInv, user_step
<1>2. \A r \in GPR : (CHOOSE i \in DOMAIN pushaq : pushaq[i] = r) \in Int
  BY Named, Registers
<1>3. /\ cpu' \in Context /\ cpu'.rip = call /\ cpu'.rflags \in {2, 3} /\ cpu'.cs = cpu.cs
      /\ cpu'.ss = cpu.ss /\ cpu'.rsp = cpu.rsp /\ cpu'.gpr["rax"] = nr /\ cpu'.gpr["rbp"] = cpu.rsp
  <2> DEFINE reg(r) == 50 * curr + (CHOOSE i \in DOMAIN pushaq : pushaq[i] = r)
             regs == [r \in GPR |-> IF r = "rax" THEN nr ELSE IF r = "rbp" THEN cpu.rsp
                                    ELSE IF r \in zero THEN 0 ELSE reg(r)]
  <2>1. nr \in Int /\ curr \in Int /\ cpu.rsp \in Int /\ cpu \in Context
    BY <1>1, Numbers DEF Served, NR, Agrees, Context
  <2>2. \A r \in GPR : reg(r) \in Int
    <3> SUFFICES ASSUME NEW r \in GPR PROVE reg(r) \in Int
      OBVIOUS
    <3>1. PICK k \in Int : k = CHOOSE i \in DOMAIN pushaq : pushaq[i] = r
      BY <1>2, Zenon
    <3>2. reg(r) = 50 * curr + k
      BY <3>1, Zenon
    <3> HIDE DEF reg
    <3> QED BY <2>1, <3>2
  <2>3. regs \in [GPR -> Int] /\ regs["rax"] = nr /\ regs["rbp"] = cpu.rsp
    <3> HIDE DEF reg
    <3> QED BY <2>1, <2>2, Named
  <2> HIDE DEF regs
  <2>4. cpu' = [gpr |-> regs, rip |-> call, rsp |-> cpu.rsp, rflags |-> IF df THEN 3 ELSE 2,
                cs |-> cpu.cs, ss |-> cpu.ss]
    BY <2>1, Zenon DEF user_step, Context, regs
  <2> QED
    BY <2>1, <2>3, <2>4 DEF Context, call
<1>4. Expected(cpu') /\ Agrees(cpu', cpu')
  BY <1>1, <1>3 DEF Expected, Agrees, user, call, leave_ret
<1>5. want' = [want EXCEPT ![curr] = cpu'] /\ UNCHANGED <<stk, curr, ctx, now>>
  BY DEF user_step
<1>6. want'[curr] = cpu' /\ \A t \in Tasks \ {curr} : want'[t] = want[t]
  BY <1>1, <1>5 DEF IInv, TypeOK
<1>7. TypeOK'
  BY <1>3, <1>5 DEF IInv, TypeOK
<1>8. Others'
  BY <1>4, <1>5, <1>6 DEF IInv, Others
<1> QED
  BY <1>3, <1>4, <1>5, <1>6, <1>7, <1>8, InProcess

(* A result is a number, and the same for the same rsi, curr and clock.      *)
LEMMA ResultKept ==
  ASSUME TypeOK, NEW nr \in Served
  PROVE  /\ Result(nr) \in Int
         /\ cpu'.gpr["rsi"] = cpu.gpr["rsi"] /\ UNCHANGED <<curr, now>> => Result(nr)' = Result(nr)
<1>1. cpu.gpr["rsi"] \in Int /\ curr \in Int /\ now \div 1000 \in Int
  BY Named, Numbers DEF TypeOK, Context
<1>2. nr = 1 \/ nr = 39 \/ nr = 201
  BY DEF Served, NR
<1> QED
  BY <1>1, <1>2 DEF Result, NR

(* Registers that are set hold numbers.                                      *)
LEMMA SetRegs ==
  ASSUME NEW g \in [GPR -> Int], NEW x \in Int, NEW y \in Int, NEW z \in Int
  PROVE  /\ [g EXCEPT !["rcx"] = x, !["r11"] = y] \in [GPR -> Int]
         /\ [g EXCEPT !["rax"] = z, !["rcx"] = x, !["r11"] = y] \in [GPR -> Int]
<1>1. [g EXCEPT !["rcx"] = x, !["r11"] = y]
        = [r \in GPR |-> IF r = "r11" THEN y ELSE IF r = "rcx" THEN x ELSE g[r]]
  BY Zenon
<1>2. [g EXCEPT !["rax"] = z, !["rcx"] = x, !["r11"] = y]
        = [r \in GPR |-> IF r = "r11" THEN y ELSE IF r = "rcx" THEN x ELSE IF r = "rax" THEN z ELSE g[r]]
  BY Zenon
<1> QED
  BY <1>1, <1>2, Zenon

(* SYSCALL takes the process to syscall_entry with interrupts off, and from  *)
(* then on it expects the result.                                            *)
LEMMA SyscallStep ==
  ASSUME IInv, syscall
  PROVE  IInv'
<1> DEFINE w == want[curr]
           c == want'[curr]
<1>1. Agrees(cpu, w) /\ Expected(w) /\ curr \in Tasks /\ TypeOK /\ cpu.rip = call
  BY DEF IInv, TypeOK, UserInv, syscall
<1>2. UNCHANGED <<stk, curr, ctx, now>>
  BY DEF syscall
<1>3. cpu.gpr["rax"] \in Served /\ w.gpr["rbp"] = w.rsp /\ w.rflags \in {2, 3}
  BY <1>1 DEF Agrees, Expected, user, call
<1>4. Result(cpu.gpr["rax"]) \in Int
  BY <1>1, <1>3, ResultKept
<1>5. /\ cpu' \in Context /\ cpu'.rip = syscall_entry_ip /\ cpu'.rflags = 0
      /\ cpu'.cs = KernelCode /\ cpu'.ss = KernelData
      /\ cpu'.gpr = [cpu.gpr EXCEPT !["rcx"] = leave_ret, !["r11"] = cpu.rflags]
  <2>1. Clear(cpu.rflags, MSR_FMASK) = 0
    <3>1. cpu.rflags = 2 \/ cpu.rflags = 3
      BY <1>1, <1>3 DEF Agrees
    <3> QED
      BY <3>1 DEF Clear, MSR_FMASK
  <2>2. cpu \in Context
    BY <1>1 DEF TypeOK
  <2>3. cpu' = [gpr |-> [cpu.gpr EXCEPT !["rcx"] = leave_ret, !["r11"] = cpu.rflags],
                rip |-> MSR_LSTAR, rsp |-> cpu.rsp, rflags |-> 0, cs |-> 8, ss |-> 16]
    <3>1. DOMAIN cpu' = DOMAIN cpu /\ \A x \in DOMAIN cpu : cpu'[x] =
            CASE x = "gpr" -> [cpu.gpr EXCEPT !["rcx"] = leave_ret, !["r11"] = cpu.rflags]
              [] x = "rip" -> MSR_LSTAR [] x = "rflags" -> Clear(cpu.rflags, MSR_FMASK)
              [] x = "cs" -> MSR_STAR_kernel [] x = "ss" -> MSR_STAR_kernel + 8
              [] x = "rsp" -> cpu.rsp
      BY <2>2, Zenon DEF syscall, Context
    <3>2. MSR_STAR_kernel = 8
      BY DEF MSR_STAR_kernel, KernelCode
    <3>3. DOMAIN cpu = {"gpr", "rip", "rsp", "rflags", "cs", "ss"}
      BY <2>2 DEF Context
    <3>4. cpu' = [x \in DOMAIN cpu' |-> cpu'[x]]
      BY Zenon DEF syscall
    <3> QED
      BY <2>1, <3>1, <3>2, <3>3, <3>4
  <2>4. [cpu.gpr EXCEPT !["rcx"] = leave_ret, !["r11"] = cpu.rflags] \in [GPR -> Int]
    BY <2>2, SetRegs DEF Context, leave_ret
  <2> QED
    BY <2>2, <2>3, <2>4 DEF Context, MSR_LSTAR, syscall_entry_ip, KernelCode, KernelData
<1>6. /\ c \in Context /\ c.rip = leave_ret /\ c.rsp = w.rsp /\ c.rflags = w.rflags /\ c.cs = w.cs /\ c.ss = w.ss
      /\ c.gpr = [w.gpr EXCEPT !["rax"] = Result(cpu.gpr["rax"]), !["rcx"] = leave_ret, !["r11"] = cpu.rflags]
      /\ \A t \in Tasks \ {curr} : want'[t] = want[t]
      /\ want' \in [Tasks -> Context]
  <2> DEFINE regs == [w.gpr EXCEPT !["rax"] = Result(cpu.gpr["rax"]), !["rcx"] = leave_ret, !["r11"] = cpu.rflags]
  <2>1. w \in Context /\ cpu \in Context /\ want \in [Tasks -> Context]
    BY <1>1 DEF TypeOK
  <2>2. regs \in [GPR -> Int]
    <3>1. w.gpr \in [GPR -> Int] /\ cpu.rflags \in Int /\ leave_ret \in Int
      BY <2>1 DEF Context, leave_ret
    <3> QED
      BY <1>4, <3>1, SetRegs
  <2>3. c = [gpr |-> regs, rip |-> leave_ret, rsp |-> w.rsp, rflags |-> w.rflags, cs |-> w.cs, ss |-> w.ss]
    BY <1>1, <2>1, Zenon DEF syscall, Context
  <2>4. \A t \in Tasks \ {curr} : want'[t] = want[t]
    BY <2>1 DEF syscall
  <2>5. c \in Context
    <3> HIDE DEF regs
    <3> QED BY <2>1, <2>2, <2>3 DEF Context, leave_ret
  <2>6. want' \in [Tasks -> Context]
    <3>1. DOMAIN want' = Tasks
      BY <2>1 DEF syscall
    <3>2. want' = [t \in Tasks |-> want'[t]]
      BY <2>1, <3>1, Zenon DEF syscall
    <3>3. \A t \in Tasks : want'[t] \in Context
      BY <2>1, <2>4, <2>5
    <3> QED
      BY <3>2, <3>3
  <2> QED
    BY <2>3, <2>4, <2>5, <2>6
<1>7. Expected(c)
  BY <1>1, <1>3, <1>6, Named DEF Expected, Agrees, Context, user, call, leave_ret
<1>8. TypeOK'
  BY <1>2, <1>5, <1>6 DEF IInv, TypeOK
<1>9. Others'
  BY <1>2, <1>6, <1>7 DEF IInv, Others
<1>10. Asked'
  <2>1. cpu.gpr = w.gpr /\ cpu.gpr \in [GPR -> Int]
    BY <1>1 DEF Agrees, Context
  <2>2. \A r \in GPR \ {"rax"} : cpu'.gpr[r] = c.gpr[r]
    BY <1>5, <1>6, <2>1, Named
  <2>3. cpu'.gpr["rax"] = cpu.gpr["rax"] /\ cpu'.gpr["rsi"] = cpu.gpr["rsi"]
    BY <1>5, <2>1, Named
  <2>4. c.gpr["rax"] = Result(cpu.gpr["rax"])
    BY <1>6, <2>1, Named
  <2>5. Result(cpu.gpr["rax"])' = Result(cpu.gpr["rax"])
    BY <1>1, <1>2, <1>3, <2>3, ResultKept DEF Result
  <2> QED
    BY <1>2, <1>3, <2>2, <2>3, <2>4, <2>5 DEF Asked
<1>11. CallInv'
  BY <1>2, <1>5, <1>6, <1>10 DEF CallInv, syscall_entry_ip, syscall_handler_ip, syscall_exit_ip
<1> QED
  BY <1>5, <1>8, <1>9, <1>11, InCall

(* syscall() of libc finds its stack in rbp.                                 *)
LEMMA LeaveStep ==
  ASSUME IInv, leave
  PROVE  IInv'
<1> DEFINE w == want[curr]
<1>1. Agrees(cpu, w) /\ Expected(w) /\ curr \in Tasks /\ TypeOK /\ cpu.rip = leave_ret
  BY DEF IInv, TypeOK, UserInv, leave
<1>2. UNCHANGED <<stk, curr, ctx, now>>
  BY DEF leave
<1>3. /\ cpu' \in Context /\ cpu'.gpr = cpu.gpr /\ cpu'.rip = user /\ cpu'.rflags = cpu.rflags
      /\ cpu'.cs = cpu.cs /\ cpu'.ss = cpu.ss /\ cpu'.rsp = w.rsp
  <2>1. cpu \in Context /\ w \in Context /\ cpu.gpr["rbp"] = w.rsp
    BY <1>1 DEF Agrees, Expected, user, leave_ret
  <2>2. cpu' = [gpr |-> cpu.gpr, rip |-> user, rsp |-> w.rsp, rflags |-> cpu.rflags, cs |-> cpu.cs, ss |-> cpu.ss]
    BY <2>1, Zenon DEF leave, Context
  <2> QED
    BY <2>1, <2>2 DEF Context, user
<1>4. /\ want'[curr] \in Context /\ want'[curr].rip = user /\ want'[curr].rsp = w.rsp
      /\ want'[curr].gpr = w.gpr /\ want'[curr].rflags = w.rflags
      /\ want'[curr].cs = w.cs /\ want'[curr].ss = w.ss
      /\ \A t \in Tasks \ {curr} : want'[t] = want[t]
      /\ want' \in [Tasks -> Context]
  <2>1. w \in Context /\ want \in [Tasks -> Context]
    BY <1>1 DEF TypeOK
  <2>2. want' = [want EXCEPT ![curr] = [w EXCEPT !.rip = user]]
    BY DEF leave
  <2>3. [w EXCEPT !.rip = user]
          = [gpr |-> w.gpr, rip |-> user, rsp |-> w.rsp, rflags |-> w.rflags, cs |-> w.cs, ss |-> w.ss]
    BY <2>1 DEF Context
  <2>4. [w EXCEPT !.rip = user] \in Context
    BY <2>1, <2>3 DEF Context, user
  <2> QED
    BY <1>1, <2>1, <2>2, <2>3, <2>4
<1>5. Expected(want'[curr]) /\ Agrees(cpu', want'[curr])
  BY <1>1, <1>3, <1>4 DEF Expected, Agrees, user, call, leave_ret
<1>6. TypeOK'
  BY <1>2, <1>3, <1>4 DEF IInv, TypeOK
<1>7. Others'
  BY <1>2, <1>4, <1>5 DEF IInv, Others
<1> QED
  BY <1>2, <1>3, <1>5, <1>6, <1>7, InProcess

(* syscall_entry leaves the registers on the stack of the system calls.      *)
LEMMA EntryStep ==
  ASSUME IInv, syscall_entry
  PROVE  IInv'
<1> DEFINE q == [k \in DOMAIN pushaq |-> cpu.gpr[pushaq[k]]]
<1>1. TypeOK /\ curr \in Tasks /\ cpu.rip = syscall_entry_ip /\ CallInv
  BY DEF IInv, TypeOK, syscall_entry
<1>2. UNCHANGED <<curr, ctx, now, want>>
  BY DEF syscall_entry
<1>3. q = [k \in 1..15 |-> cpu.gpr[pushaq[k]]] /\ q \in Seq(Int) /\ Len(q) = 15
  BY <1>1, Registers, Named, SMTT(60) DEF TypeOK, Context
<1>4. stk' = [stk EXCEPT ![0] = q]
  <2>1. SubSeq(stk[0], 1, 0) = << >>
    BY <1>1 DEF TypeOK
  <2>2. SubSeq(stk[0], 1, 0) \o q = q
    BY <1>3, <2>1
  <2> QED
    BY <2>2, Zenon DEF syscall_entry, Pushed
<1>5. cpu' = [gpr |-> cpu.gpr, rip |-> syscall_handler_ip, rsp |-> Rsp(0, 15),
              rflags |-> cpu.rflags, cs |-> cpu.cs, ss |-> cpu.ss]
  BY <1>1, Registers, Zenon DEF syscall_entry, TypeOK, Context
<1> HIDE DEF q
<1>6. TypeOK'
  <2>1. cpu' \in Context
    BY <1>1, <1>5 DEF TypeOK, Context, syscall_handler_ip, Rsp
  <2>2. stk' \in [{0} \cup Tasks -> Seq(Int)]
    BY <1>1, <1>3, <1>4 DEF TypeOK
  <2> QED
    BY <1>1, <1>2, <2>1, <2>2 DEF TypeOK
<1>7. Others'
  BY <1>2 DEF IInv, Others
<1>8. Asked'
  <2>1. Asked
    BY <1>1 DEF CallInv
  <2>2. Result(cpu.gpr["rax"])' = Result(cpu.gpr["rax"])
    BY <1>2, <1>5, Zenon DEF Result
  <2> QED
    BY <1>2, <1>5, <2>1, <2>2 DEF Asked
<1>9. stk'[0] = q
  BY <1>1, <1>4 DEF TypeOK
<1>10. CallInv'
  BY <1>1, <1>2, <1>3, <1>5, <1>8, <1>9 DEF CallInv, syscall_entry_ip, syscall_handler_ip, syscall_exit_ip
<1> QED
  BY <1>5, <1>6, <1>7, <1>10, InCall

(* registers_64_t reads what syscall_entry pushed, whatever the order.       *)
LEMMA SavedRegs ==
  ASSUME NEW q
  PROVE  /\ \A k \in 1..15 : Struct(registers_64_t, q, 15)[pushaq[k]] = q[k]
         /\ \A k \in 2..15 : Struct(exit_pops, q, 15)[pushaq[k]] = q[k]
<1>1. Distinct(registers_64_t) /\ Distinct(exit_pops)
  BY Registers, PushedOnce DEF Distinct
<1>2. ASSUME NEW k \in 1..15
      PROVE  Struct(registers_64_t, q, 15)[pushaq[k]] = q[k]
  <2>1. 16 - k \in DOMAIN registers_64_t /\ registers_64_t[16 - k] = pushaq[16 - (16 - k)]
    BY Registers
  <2>2. Struct(registers_64_t, q, 15)[registers_64_t[16 - k]] = q[15 - (16 - k) + 1]
    BY <1>1, <2>1, StructAt
  <2>3. 16 - (16 - k) = k /\ 15 - (16 - k) + 1 = k
    OBVIOUS
  <2> QED
    BY <2>1, <2>2, <2>3
<1>3. ASSUME NEW k \in 2..15
      PROVE  Struct(exit_pops, q, 15)[pushaq[k]] = q[k]
  <2>1. 16 - k \in DOMAIN exit_pops /\ exit_pops[16 - k] = pushaq[16 - (16 - k)]
    BY Registers
  <2>2. Struct(exit_pops, q, 15)[exit_pops[16 - k]] = q[15 - (16 - k) + 1]
    BY <1>1, <2>1, StructAt
  <2>3. 16 - (16 - k) = k /\ 15 - (16 - k) + 1 = k
    OBVIOUS
  <2> QED
    BY <2>1, <2>2, <2>3
<1> QED
  BY <1>2, <1>3

(* syscall_handler computes the result that the process expects.             *)
LEMMA HandlerStep ==
  ASSUME IInv, syscall_handler
  PROVE  IInv'
<1> DEFINE regs == Struct(registers_64_t, stk[0], Words(cpu.rsp))
           nr == cpu.gpr["rax"]
           ret == CASE regs["rax"] = NR.write -> sys_write(regs)
                    [] regs["rax"] = NR.getpid -> sys_getpid
                    [] regs["rax"] = NR.time -> sys_time
                    [] OTHER -> junk
           stops == regs["rax"] \notin Served \/ (regs["rax"] = NR.write /\ sys_write_bug(regs))
           ip == IF stops THEN fatal ELSE syscall_exit_ip
           g == [r \in GPR |-> IF r = "rax" THEN ret ELSE IF r \in CallerSaved THEN junk ELSE cpu.gpr[r]]
<1>1. TypeOK /\ curr \in Tasks /\ cpu.rip = syscall_handler_ip /\ CallInv
  BY DEF IInv, TypeOK, syscall_handler
<1>2. UNCHANGED <<stk, curr, ctx, now, want>>
  BY DEF syscall_handler
<1>3. Asked /\ cpu.rsp = Rsp(0, 15) /\ stk[0] = [k \in 1..15 |-> cpu.gpr[pushaq[k]]]
  BY <1>1 DEF CallInv
<1>4. Words(cpu.rsp) = 15
  BY <1>3, RspParts
<1>5. \A k \in 1..15 : regs[pushaq[k]] = cpu.gpr[pushaq[k]]
  <2>1. \A k \in 1..15 : Struct(registers_64_t, stk[0], 15)[pushaq[k]] = stk[0][k]
    BY SavedRegs, Zenon
  <2>2. \A k \in 1..15 : stk[0][k] = cpu.gpr[pushaq[k]]
    BY <1>3
  <2> QED
    BY <1>4, <2>1, <2>2
<1>6. \A r \in GPR : regs[r] = cpu.gpr[r]
  BY <1>5, Named
<1>7. regs["rax"] = nr /\ regs["rsi"] = cpu.gpr["rsi"] /\ nr \in Served
  BY <1>3, <1>6, Named DEF Asked
<1>8. ret = Result(nr)
  <2>1. nr = 1 \/ nr = 39 \/ nr = 201
    BY <1>7 DEF Served, NR
  <2> HIDE DEF regs, nr
  <2> QED
    BY <1>7, <2>1 DEF NR, sys_write, sys_getpid, sys_time, Result
<1>9. cpu' = [gpr |-> g, rip |-> ip, rsp |-> cpu.rsp,
              rflags |-> cpu.rflags, cs |-> cpu.cs, ss |-> cpu.ss]
  <2>1. cpu' = [cpu EXCEPT !.gpr = g, !.rip = ip]
    BY Zenon DEF syscall_handler
  <2> HIDE DEF g, ip
  <2> QED
    BY <1>1, <2>1, Zenon DEF TypeOK, Context
<1>10. g \in [GPR -> Int] /\ g["rax"] = want[curr].gpr["rax"]
  <2>1. ret \in Int
    BY <1>1, <1>7, <1>8, ResultKept, SMTT(60)
  <2>2. ret = want[curr].gpr["rax"]
    BY <1>3, <1>8 DEF Asked
  <2> HIDE DEF ret
  <2> QED
    BY <1>1, <2>1, <2>2, Named DEF TypeOK, Context, junk
<1>11. ip \in {fatal, syscall_exit_ip}
  OBVIOUS
<1> HIDE DEF g, ip
<1>12. TypeOK'
  <2>1. cpu \in Context
    BY <1>1 DEF TypeOK
  <2>2. cpu' \in Context
    BY <1>9, <1>10, <1>11, <2>1 DEF Context, syscall_exit_ip, fatal
  <2> QED
    BY <1>1, <1>2, <2>2 DEF TypeOK
<1>13. Others'
  BY <1>2 DEF IInv, Others
<1>14. \A k \in 2..15 : stk'[0][k] = want'[curr'].gpr[pushaq[k]]
  BY <1>2, <1>3, Named DEF Asked
<1>15. Len(stk'[0]) = 15
  BY <1>1, <1>2, <1>3, SMTT(60) DEF TypeOK
<1>16. CallInv'
  <2>1. cpu.cs = KernelCode /\ cpu.ss = KernelData /\ cpu.rflags = 0 /\ want[curr].rip = leave_ret
    BY <1>1 DEF CallInv
  <2>2. /\ cpu'.cs = KernelCode /\ cpu'.ss = KernelData /\ cpu'.rflags = 0 /\ want'[curr'].rip = leave_ret
        /\ cpu'.gpr["rax"] = want'[curr'].gpr["rax"] /\ cpu'.rsp = Rsp(0, 15) /\ cpu'.rip = ip
    BY <1>2, <1>3, <1>9, <1>10, <2>1
  <2>3. ip # syscall_entry_ip /\ ip # syscall_handler_ip
    BY <1>11 DEF syscall_entry_ip, syscall_handler_ip, syscall_exit_ip, fatal
  <2> QED
    BY <1>14, <1>15, <2>2, <2>3 DEF CallInv
<1> QED
  BY <1>9, <1>11, <1>12, <1>13, <1>16, InCall

(* SYSRET finds the process as it expects to be found, but for rsp.          *)
LEMMA ExitStep ==
  ASSUME IInv, syscall_exit
  PROVE  IInv'
<1> DEFINE w == want[curr]
           saved == Struct(exit_pops, stk[0], Words(cpu.rsp))
           regs == [r \in GPR |-> IF r = "rax" THEN cpu.gpr["rax"] ELSE saved[r]]
<1>1. TypeOK /\ curr \in Tasks /\ cpu.rip = syscall_exit_ip /\ CallInv /\ Expected(w)
  BY SMTT(60) DEF IInv, TypeOK, syscall_exit
<1>2. UNCHANGED <<curr, ctx, now, want>>
  BY SMTT(60) DEF syscall_exit
<1>3. /\ cpu.gpr["rax"] = w.gpr["rax"] /\ cpu.rsp = Rsp(0, 15) /\ w.rip = leave_ret
      /\ \A k \in 2..15 : stk[0][k] = w.gpr[pushaq[k]]
  BY <1>1, SMTT(60) DEF CallInv, syscall_exit_ip
<1>4. Words(cpu.rsp) = 15
  BY <1>3, RspParts
<1>5. \A k \in 2..15 : saved[pushaq[k]] = w.gpr[pushaq[k]]
  <2>1. \A k \in 2..15 : Struct(exit_pops, stk[0], 15)[pushaq[k]] = stk[0][k]
    BY SavedRegs, Zenon
  <2> QED
    BY <1>3, <1>4, <2>1
<1>6. \A r \in GPR : r # "rax" => saved[r] = w.gpr[r]
  <2> SUFFICES ASSUME NEW r \in GPR, r # "rax" PROVE saved[r] = w.gpr[r]
    OBVIOUS
  <2>1. PICK k \in 1..15 : r = pushaq[k]
    BY Named
  <2>2. k \in 2..15
    BY <2>1, Registers
  <2> QED
    BY <1>5, <2>1, <2>2
<1>7. w \in Context /\ w.gpr \in [GPR -> Int]
  BY <1>1 DEF Expected, Context
<1>8. regs = w.gpr
  <2> HIDE DEF saved
  <2> QED BY <1>3, <1>6, <1>7, SMTT(60)
<1>9. regs["rcx"] = leave_ret /\ regs["r11"] = w.rflags
  BY <1>1, <1>3, <1>8 DEF Expected
<1>10. Words(cpu.rsp) - Len(exit_pops) - 1 = 0
  BY <1>4, Registers
<1>11. cpu' = [gpr |-> w.gpr, rip |-> leave_ret, rflags |-> w.rflags, rsp |-> KernelImage, cs |-> 35, ss |-> 27]
  BY <1>8, <1>9, <1>10 DEF syscall_exit, MSR_STAR_user, UserCode
<1>12. stk' = [stk EXCEPT ![0] = SubSeq(stk[0], 1, 0)]
  BY <1>10, Zenon DEF syscall_exit
<1>13. Agrees(cpu', w)
  <2>1. cpu' \in Context
    BY <1>7, <1>11 DEF Context, KernelImage, leave_ret
  <2>2. w.cs = 35 /\ w.ss = 27
    BY <1>1 DEF Expected, UserCode, UserData
  <2> QED
    BY <1>3, <1>11, <2>1, <2>2 DEF Agrees
<1>14. TypeOK'
  <2>1. SubSeq(stk[0], 1, 0) \in Seq(Int)
    BY <1>1 DEF TypeOK
  <2>2. stk' \in [{0} \cup Tasks -> Seq(Int)]
    BY <1>1, <1>12, <2>1 DEF TypeOK
  <2> QED
    BY <1>1, <1>2, <1>13, <2>2 DEF TypeOK, Agrees
<1>15. Others'
  BY <1>2 DEF IInv, Others
<1> QED
  BY <1>2, <1>11, <1>13, <1>14, <1>15, InProcess
-----------------------------------------------------------------------------
(* Interrupts *)

(* Only a process is interrupted: in the kernel interrupts are off, and no   *)
(* exception is raised there.                                                *)
LEMMA OnlyProcesses ==
  ASSUME IInv, NEW v \in Vectors, interrupt(v)
  PROVE  /\ cpu.rip \in {user, call, leave_ret} /\ InUser /\ Agrees(cpu, want[curr])
<1>1. cpu.rip \in {user, call, leave_ret, syscall_entry_ip, syscall_handler_ip, syscall_exit_ip}
  BY DEF interrupt, user, call, leave_ret, syscall_entry_ip, syscall_handler_ip, syscall_exit_ip
<1>2. CASE cpu.rip \in {syscall_entry_ip, syscall_handler_ip, syscall_exit_ip}
  <2>1. cpu.cs = 8 /\ cpu.rflags = 0
    BY <1>2 DEF IInv, CallInv, KernelCode
  <2> QED
    BY <2>1 DEF interrupt, InUser, Interruptible
<1>3. CASE cpu.rip \in {user, call, leave_ret}
  <2>1. Agrees(cpu, want[curr]) /\ Expected(want[curr])
    BY <1>3 DEF IInv, UserInv, TypeOK
  <2>2. cpu.cs = 35
    BY <2>1 DEF Agrees, Expected, UserCode
  <2> QED
    BY <1>3, <2>1, <2>2 DEF InUser
<1> QED
  BY <1>1, <1>2, <1>3

(* The processor leaves the context of the process on its kernel stack,      *)
(* under an error code if the vector has one.                                *)
LEMMA InterruptStep ==
  ASSUME IInv, NEW v \in Vectors, interrupt(v)
  PROVE  IInv'
<1> DEFINE five == <<cpu.ss, cpu.rsp, cpu.rflags, cpu.cs, cpu.rip>>
           words == five \o (IF v \in HardwareErrorCode THEN <<junk>> ELSE <<>>)
<1>1. TypeOK /\ curr \in Tasks /\ InUser /\ Agrees(cpu, want[curr]) /\ Expected(want[curr])
  BY OnlyProcesses DEF IInv, TypeOK
<1>2. UNCHANGED <<curr, ctx, now, want>>
  BY DEF interrupt
<1>3. cpu.rflags \in {2, 3} /\ cpu \in Context
  BY <1>1 DEF Agrees, Expected
<1>4. /\ words \in Seq(Int) /\ Len(words) = (IF v \in errorcode_present THEN 6 ELSE 5)
      /\ words[1] = cpu.ss /\ words[2] = cpu.rsp /\ words[3] = cpu.rflags
      /\ words[4] = cpu.cs /\ words[5] = cpu.rip
  <2>1. five \in Seq(Int) /\ Len(five) = 5
    BY <1>3 DEF Context
  <2>2. HardwareErrorCode = errorcode_present /\ junk \in Int
    BY DEF HardwareErrorCode, errorcode_present, junk
  <2>3. /\ five[1] = cpu.ss /\ five[2] = cpu.rsp /\ five[3] = cpu.rflags
        /\ five[4] = cpu.cs /\ five[5] = cpu.rip
    OBVIOUS
  <2>4. PICK a, b, ab : a = five /\ b = (IF v \in HardwareErrorCode THEN <<junk>> ELSE <<>>) /\ ab = a \o b
    BY Zenon
  <2>5. b \in Seq(Int) /\ Len(b) = (IF v \in errorcode_present THEN 1 ELSE 0)
    BY <2>2, <2>4
  <2>6. a \in Seq(Int) /\ Len(a) = 5 /\ ab = a \o b
    BY <2>1, <2>4
  <2>7. ab \in Seq(Int) /\ Len(ab) = Len(a) + Len(b) /\ \A k \in 1..Len(a) : ab[k] = a[k]
    <3>1. a \in Seq(Int) /\ b \in Seq(Int) /\ ab = a \o b
      BY <2>5, <2>6
    <3> QED
      BY ONLY <3>1, ConcatTwo
  <2> QED
    BY <2>3, <2>4, <2>5, <2>6, <2>7
<1> HIDE DEF words
<1>5. stk' = [stk EXCEPT ![curr] = words]
  <2>1. SubSeq(stk[curr], 1, 0) = << >>
    BY <1>1 DEF TypeOK
  <2>2. SubSeq(stk[curr], 1, 0) \o words = words
    BY <1>4, <2>1
  <2> QED
    BY <1>1, <2>2, Zenon DEF interrupt, Pushed, words
<1>6. cpu' = [gpr |-> cpu.gpr, rip |-> vector_ip(v), rsp |-> Rsp(curr, Len(words)),
              rflags |-> Clear(cpu.rflags, 2), cs |-> KernelCode, ss |-> 0]
  <2>1. idt64_table[v] = [offset |-> vector_ip(v), target_selector |-> KernelCode, type |-> 14]
    BY EntryAssumption DEF idt64_table
  <2>2. 0 + Len(words) = Len(words)
    BY <1>4
  <2>3. cpu' = [cpu EXCEPT !.rsp = Rsp(curr, Len(words)), !.ss = 0, !.rflags = Clear(cpu.rflags, 2),
                           !.cs = KernelCode, !.rip = vector_ip(v)]
    BY <1>1, <2>1, <2>2 DEF interrupt, words
  <2> QED
    BY <1>3, <2>3, Zenon DEF Context
<1>7. Clear(cpu.rflags, 2) \in {0, 1}
  <2>1. cpu.rflags = 2 \/ cpu.rflags = 3
    BY <1>3
  <2> QED
    BY <2>1 DEF Clear
<1>8. stk'[curr] = words
  BY <1>1, <1>5 DEF TypeOK
<1>9. TypeOK'
  <2>1. Rsp(curr, Len(words)) \in Int /\ vector_ip(v) \in Int
    BY <1>1, <1>4, Numbers DEF Rsp, vector_ip
  <2>2. cpu' \in Context
    BY <1>3, <1>6, <1>7, <2>1 DEF Context, KernelCode
  <2>3. stk' \in [{0} \cup Tasks -> Seq(Int)]
    BY <1>1, <1>4, <1>5 DEF TypeOK
  <2> QED
    BY <1>1, <1>2, <2>2, <2>3 DEF TypeOK
<1>10. Others'
  BY <1>2, SMTT(60) DEF IInv, Others
<1>11. Entered' = [gpr |-> cpu.gpr, rip |-> cpu.rip, rsp |-> cpu.rsp, rflags |-> cpu.rflags,
                   cs |-> cpu.cs, ss |-> cpu.ss]
  BY <1>2, <1>4, <1>6, <1>8, SMTT(60) DEF Entered
<1>12. Agrees(Entered', want'[curr'])
  <2>1. Entered' \in Context
    BY <1>3, <1>11 DEF Context
  <2> QED
    BY <1>1, <1>2, <1>11, <2>1 DEF Agrees
<1>13. VectorInv'
  <2> SUFFICES ASSUME NEW x \in Vectors, cpu'.rip = vector_ip(x)
               PROVE  /\ cpu'.cs = KernelCode /\ cpu'.ss = 0 /\ cpu'.rflags \in {0, 1}
                      /\ Len(stk'[curr']) = (IF x \in errorcode_present THEN 6 ELSE 5)
                      /\ cpu'.rsp = Rsp(curr', Len(stk'[curr']))
                      /\ Agrees(Entered', want'[curr'])
    BY DEF VectorInv
  <2>1. x = v
    BY <1>6, Numbers DEF vector_ip
  <2> QED
    BY <1>2, <1>4, <1>6, <1>7, <1>8, <1>12, <2>1, Zenon
<1> QED
  BY <1>6, <1>9, <1>10, <1>13, InStub

(* The context in a frame, word by word.                                     *)
LEMMA ContextAt ==
  ASSUME NEW q \in Seq(Int), NEW g \in [GPR -> Int], \A k \in 1..15 : q[7 + k] = g[pushaq[k]]
  PROVE  ContextOf(q) = [gpr |-> g, rip |-> q[5], rsp |-> q[2], rflags |-> q[3], cs |-> q[4], ss |-> q[1]]
<1>1. ASSUME NEW k \in 1..15
      PROVE  FrameOf(q)[pushaq[k]] = g[pushaq[k]]
  <2>1. FrameOf(q)[pushaq[k]] = q[7 + k]
    BY FrameMembers, Zenon
  <2> QED
    BY <2>1, Zenon
<1>2. ASSUME NEW r \in GPR
      PROVE  FrameOf(q)[r] = g[r]
  <2>1. PICK k \in 1..15 : r = pushaq[k]
    BY Named
  <2> QED
    BY <1>1, <2>1, Zenon
<1>3. [r \in GPR |-> FrameOf(q)[r]] = g
  BY <1>2, Zenon
<1> QED
  BY <1>3, FrameMembers, Zenon DEF ContextOf

(* What the processor pushes for a vector, and what the stub pushes then.    *)
Hardware(v) == IF v \in errorcode_present THEN 6 ELSE 5
Software(v, g) ==
  (IF v \in errorcode_present THEN <<v>> ELSE <<0, v>>) \o
  [k \in DOMAIN pushaq |-> g[pushaq[k]]] \o sys_ctrl_regs
Complete(f, q, words, v, g) ==
  /\ f \in Seq(Int) /\ Len(f) = 27 /\ Len(words) = 27 - Len(q)
  /\ \A k \in 1..5 : f[k] = q[k]
  /\ f[7] = v /\ \A k \in 1..15 : f[7 + k] = g[pushaq[k]]

(* The stub completes the frame: whether the processor pushed an error code  *)
(* or the stub did, the number is the seventh word.                          *)
LEMMA SavedFrame ==
  ASSUME NEW v \in Int, NEW q \in Seq(Int), NEW g \in [GPR -> Int], NEW f,
         Len(q) = Hardware(v), NEW words, words = Software(v, g), f = q \o words
  PROVE  Complete(f, q, words, v, g)
<1>1. PICK a, b, c : /\ a = (IF v \in errorcode_present THEN <<v>> ELSE <<0, v>>)
                     /\ b = [k \in 1..15 |-> g[pushaq[k]]]
                     /\ c = sys_ctrl_regs
  BY Zenon
<1>2. a \in Seq(Int) /\ Len(a) = 7 - Len(q) /\ a[7 - Len(q)] = v
  BY <1>1 DEF Hardware
<1>3. b \in Seq(Int) /\ Len(b) = 15
  <2>1. \A k \in 1..15 : g[pushaq[k]] \in Int
    BY Named, Zenon
  <2> QED
    BY <1>1, <2>1
<1>4. c \in Seq(Int) /\ Len(c) = 5
  <2>1. sys_ctrl_regs = [i \in 1..5 |-> junk]
    BY DEF sys_ctrl_regs, sys_ctrl_regs_t
  <2>2. sys_ctrl_regs \in Seq(Int) /\ Len(sys_ctrl_regs) = 5
    BY <2>1 DEF junk
  <2> QED
    BY <1>1, <2>2
<1>5. words = (a \o b) \o c
  BY <1>1, Registers DEF Software
<1>6. /\ words \in Seq(Int) /\ Len(words) = Len(a) + Len(b) + Len(c)
      /\ \A k \in 1..Len(a) : words[k] = a[k]
      /\ \A k \in 1..Len(b) : words[Len(a) + k] = b[k]
  <2>1. a \in Seq(Int) /\ b \in Seq(Int) /\ c \in Seq(Int) /\ words = (a \o b) \o c
    BY <1>2, <1>3, <1>4, <1>5
  <2> QED
    BY ONLY <2>1, ConcatThree
<1>7. /\ f \in Seq(Int) /\ Len(f) = Len(q) + Len(words)
      /\ \A k \in 1..Len(q) : f[k] = q[k]
      /\ \A k \in 1..Len(words) : f[Len(q) + k] = words[k]
  <2>1. q \in Seq(Int) /\ words \in Seq(Int) /\ f = q \o words
    BY <1>6
  <2> QED
    BY ONLY <2>1, ConcatTwo
<1>8. Len(q) = 5 \/ Len(q) = 6
  BY DEF Hardware
<1>9. Len(words) = 27 - Len(q) /\ Len(f) = 27
  <2>1. Len(a) = 7 - Len(q) /\ Len(b) = 15 /\ Len(c) = 5 /\ Len(words) = Len(a) + Len(b) + Len(c)
        /\ Len(f) = Len(q) + Len(words)
    BY <1>2, <1>3, <1>4, <1>6, <1>7
  <2> QED
    BY ONLY <1>8, <2>1
<1>10. \A k \in 1..5 : f[k] = q[k]
  BY <1>7, <1>8
<1>11. f[7] = v
  <2>1. 7 - Len(q) \in 1..Len(a) /\ 7 - Len(q) \in 1..Len(words)
    BY <1>2, <1>8, <1>9
  <2>2. words[7 - Len(q)] = v /\ f[Len(q) + (7 - Len(q))] = words[7 - Len(q)]
    BY <1>2, <1>6, <1>7, <2>1, Zenon
  <2>3. Len(q) + (7 - Len(q)) = 7
    BY <1>8
  <2> QED
    BY <2>2, <2>3, Zenon
<1>12. ASSUME NEW k \in 1..15
       PROVE  f[7 + k] = g[pushaq[k]]
  <2>1. words[(7 - Len(q)) + k] = b[k]
    BY <1>2, <1>3, <1>6, Zenon
  <2>2. (7 - Len(q)) + k \in 1..Len(words)
    <3>1. (Len(q) = 5 /\ Len(words) = 22) \/ (Len(q) = 6 /\ Len(words) = 21)
      BY <1>8, <1>9
    <3>2. PICK n, m : n = Len(q) /\ m = Len(words)
      BY Zenon
    <3>3. (n = 5 /\ m = 22) \/ (n = 6 /\ m = 21)
      BY <3>1, <3>2, SMTT(60)
    <3>4. (7 - n) + k \in 1..m
      BY ONLY <3>3, k \in 1..15
    <3> QED
      BY <3>2, <3>4
  <2>3. f[Len(q) + ((7 - Len(q)) + k)] = words[(7 - Len(q)) + k]
    BY <1>7, <2>2, Zenon
  <2>4. Len(q) + ((7 - Len(q)) + k) = 7 + k
    BY <1>8
  <2> QED
    BY <1>1, <2>1, <2>3, <2>4, Zenon
<1> QED
  BY <1>7, <1>9, <1>10, <1>11, <1>12, Zenon DEF Complete

(* The stub hands interrupt_handler the context of the process.              *)
LEMMA StubStep ==
  ASSUME IInv, vector_save_state
  PROVE  IInv'
<1> DEFINE v == cpu.rip - vector_ip(0)
           w == want[curr]
           q == stk[curr]
           words == (IF v \in errorcode_present THEN <<v>> ELSE <<0, v>>) \o
                    [i \in DOMAIN pushaq |-> cpu.gpr[pushaq[i]]] \o sys_ctrl_regs
           f == q \o words
<1>1. TypeOK /\ curr \in Tasks /\ curr \in Nat /\ cpu \in Context /\ q \in Seq(Int) /\ v \in Vectors
  BY Numbers DEF IInv, TypeOK, vector_save_state
<1>2. UNCHANGED <<curr, ctx, now, want>>
  BY DEF vector_save_state
<1>3. cpu.rip = vector_ip(v) /\ v \in Int
  BY <1>1, Numbers DEF vector_ip, Context
<1>4. /\ cpu.cs = KernelCode /\ cpu.ss = 0 /\ cpu.rflags \in {0, 1}
      /\ Len(q) = (IF v \in errorcode_present THEN 6 ELSE 5)
      /\ cpu.rsp = Rsp(curr, Len(q)) /\ Agrees(Entered, w)
  BY <1>1, <1>3 DEF IInv, VectorInv
<1>5. Stack(cpu.rsp) = curr /\ Words(cpu.rsp) = Len(q)
  <2> PICK n : n = Len(q)
    BY Zenon
  <2>1. n = 5 \/ n = 6
    BY <1>4
  <2>2. n \in 0..999
    BY ONLY <2>1
  <2>3. cpu.rsp = Rsp(curr, n) /\ curr \in Nat
    BY <1>1, <1>4
  <2>4. Stack(cpu.rsp) = curr /\ Words(cpu.rsp) = n
    BY ONLY <2>2, <2>3 DEF Rsp, Stack, Words
  <2> QED
    BY <2>4
<1> HIDE DEF v
<1>6. /\ f \in Seq(Int) /\ Len(f) = 27 /\ Len(words) = 27 - Len(q)
      /\ \A k \in 1..5 : f[k] = q[k]
      /\ f[7] = v /\ \A k \in 1..15 : f[7 + k] = cpu.gpr[pushaq[k]]
  <2>1. cpu.gpr \in [GPR -> Int]
    BY <1>1, SMTT(60) DEF Context
  <2>2. PICK p, g, ws, x : p = q /\ g = cpu.gpr /\ ws = words /\ x = f
    BY Zenon
  <2>3. p \in Seq(Int) /\ g \in [GPR -> Int] /\ v \in Int /\ Len(p) = Hardware(v)
    BY <1>1, <1>3, <1>4, <2>1, <2>2 DEF Hardware
  <2>4. ws = Software(v, g) /\ x = p \o ws
    BY <2>2 DEF Software
  <2>5. Complete(x, p, ws, v, g)
    BY ONLY <2>3, <2>4, SavedFrame, Zenon
  <2> QED
    BY <2>2, <2>5, Zenon DEF Complete
<1>7. stk' = [stk EXCEPT ![curr] = f]
  <2>1. SubSeq(q, 1, Len(q)) = q
    BY <1>1
  <2> QED
    BY <1>5, <2>1, Zenon DEF vector_save_state, Pushed, v
<1> HIDE DEF f
<1>8. cpu' = [gpr |-> cpu.gpr, rip |-> interrupt_handler_ip, rsp |-> Rsp(curr, 27), rflags |-> 0,
              cs |-> KernelCode, ss |-> 0]
  <2>1. Clear(cpu.rflags, 1) = 0
    <3>1. cpu.rflags = 0 \/ cpu.rflags = 1
      BY <1>4
    <3> QED
      BY <3>1 DEF Clear
  <2>2. cpu' = [cpu EXCEPT !.rsp = cpu.rsp + Len(words), !.rflags = Clear(cpu.rflags, 1),
                           !.rip = interrupt_handler_ip]
    BY DEF vector_save_state, v
  <2>3. cpu.rsp + Len(words) = Rsp(curr, 27)
    <3>1. Len(q) = 5 \/ Len(q) = 6
      BY <1>4
    <3>2. Len(words) = 27 - Len(q) /\ cpu.rsp = 1000 * curr + Len(q) /\ curr \in Nat
      BY <1>1, <1>4, <1>6 DEF Rsp
    <3> HIDE DEF words, q
    <3> QED
      BY <3>1, <3>2 DEF Rsp
  <2> HIDE DEF words
  <2> QED
    BY <1>1, <1>4, <2>1, <2>2, <2>3, Zenon DEF Context
<1>9. stk'[curr] = f
  BY <1>1, <1>7 DEF TypeOK
<1>10. TypeOK'
  <2>1. cpu' \in Context
    BY <1>1, <1>8 DEF Context, KernelCode, interrupt_handler_ip, Rsp
  <2>2. stk' \in [{0} \cup Tasks -> Seq(Int)]
    BY <1>1, <1>6, <1>7 DEF TypeOK
  <2> QED
    BY <1>1, <1>2, <2>1, <2>2 DEF TypeOK
<1>11. Others'
  BY <1>2 DEF IInv, Others
<1>12. cpu'.rsp = Rsp(curr, 27)
  BY <1>8
<1>13. Frame' = FrameOf(f) /\ Interrupted' = ContextOf(f)
  BY <1>1, <1>9, <1>12, FrameThere
<1>14. Interrupted' = Entered
  <2>1. ContextOf(f) = [gpr |-> cpu.gpr, rip |-> f[5], rsp |-> f[2], rflags |-> f[3], cs |-> f[4], ss |-> f[1]]
    BY <1>1, <1>6, ContextAt, Zenon DEF Context
  <2>2. f[1] = q[1] /\ f[2] = q[2] /\ f[3] = q[3] /\ f[4] = q[4] /\ f[5] = q[5]
    <3>1. \A k \in 1..5 : f[k] = q[k]
      BY <1>6, SMTT(60)
    <3> HIDE DEF q
    <3> QED
      BY <3>1
  <2> QED
    BY <1>13, <2>1, <2>2 DEF Entered
<1>15. Frame'["trap_number"] = v
  BY <1>6, <1>13, FrameMembers, Zenon
<1>16. HandlerInv'
  BY <1>1, <1>2, <1>4, <1>6, <1>8, <1>9, <1>12, <1>14, <1>15 DEF HandlerInv, interrupt_handler_ip, restore_state_ip, halt
<1> QED
  BY <1>8, <1>10, <1>11, <1>16, InHandler

(* A frame that is written member by member reads back as it was written.    *)
LEMMA WrittenFrame ==
  ASSUME NEW f, NEW q, q = [k \in 1..27 |-> f[interrupt_stack_frame_t[28 - k]]]
  PROVE  \A x \in Range(interrupt_stack_frame_t) : FrameOf(q)[x] = f[x]
<1> SUFFICES ASSUME NEW x \in Range(interrupt_stack_frame_t) PROVE FrameOf(q)[x] = f[x]
  OBVIOUS
<1>1. PICK j \in 1..27 : x = interrupt_stack_frame_t[j]
  BY FrameLayout DEF Range
<1>2. FrameOf(q)[interrupt_stack_frame_t[j]] = q[27 - j + 1]
  BY FrameLayout, StructAt DEF FrameOf
<1>3. 27 - j + 1 \in 1..27 /\ 28 - (27 - j + 1) = j
  OBVIOUS
<1>4. q[27 - j + 1] = f[interrupt_stack_frame_t[28 - (27 - j + 1)]]
  BY <1>3
<1> QED
  BY <1>1, <1>2, <1>3, <1>4

(* The names in the frame.                                                   *)
LEMMA FrameNames ==
  GPR \cup {"rip", "rsp", "rflags", "cs", "ss"} \subseteq Range(interrupt_stack_frame_t)
<1>1. \A k \in 1..27 : interrupt_stack_frame_t[k] \in Range(interrupt_stack_frame_t)
  BY FrameLayout DEF Range
<1>2. ASSUME NEW r \in GPR
      PROVE  r \in Range(interrupt_stack_frame_t)
  <2>1. PICK k \in 1..15 : r = pushaq[k]
    BY Named
  <2>2. 16 - k \in 1..15 /\ 5 + (16 - k) \in 1..27 /\ 16 - (16 - k) = k
    OBVIOUS
  <2>3. interrupt_stack_frame_t[5 + (16 - k)] = pushaq[16 - (16 - k)]
    BY <2>2, FrameLayout
  <2> QED
    BY <1>1, <2>1, <2>2, <2>3
<1>3. /\ interrupt_stack_frame_t[23] \in Range(interrupt_stack_frame_t)
      /\ interrupt_stack_frame_t[24] \in Range(interrupt_stack_frame_t)
      /\ interrupt_stack_frame_t[25] \in Range(interrupt_stack_frame_t)
      /\ interrupt_stack_frame_t[26] \in Range(interrupt_stack_frame_t)
      /\ interrupt_stack_frame_t[27] \in Range(interrupt_stack_frame_t)
  BY <1>1, SMTT(60)
<1> QED
  BY <1>2, <1>3, FrameLayout

(* schedule puts the context of the next process in the frame.               *)
Exchanged(f, c) ==
  [x \in DOMAIN f |-> IF x \in GPR THEN c.gpr[x]
                      ELSE IF x \in {"rip", "rsp", "rflags", "cs", "ss"} THEN c[x] ELSE f[x]]

LEMMA ExchangedFrame ==
  ASSUME NEW c \in Context, NEW q \in Seq(Int), Len(q) = 27,
         NEW p, p = [k \in 1..27 |-> Exchanged(FrameOf(q), c)[interrupt_stack_frame_t[28 - k]]]
  PROVE  p \in Seq(Int) /\ Len(p) = 27 /\ ContextOf(p) = c
<1> DEFINE e == Exchanged(FrameOf(q), c)
<1>1. DOMAIN FrameOf(q) = Range(interrupt_stack_frame_t)
  BY FrameMembers, SMTT(60)
<1>2. \A r \in GPR : e[r] = c.gpr[r]
  BY <1>1, FrameNames, SMTT(60) DEF Exchanged
<1>3. e["rip"] = c.rip /\ e["rsp"] = c.rsp /\ e["rflags"] = c.rflags /\ e["cs"] = c.cs /\ e["ss"] = c.ss
  BY <1>1, FrameNames, Named, ZenonT(60) DEF Exchanged
<1>4. ASSUME NEW k \in 1..27
      PROVE  e[interrupt_stack_frame_t[28 - k]] \in Int
  <2>1. PICK j \in 1..27 : j = 28 - k
    OBVIOUS
  <2>2. PICK x : x = interrupt_stack_frame_t[j]
    OBVIOUS
  <2>3. x \in Range(interrupt_stack_frame_t)
    BY <2>2, FrameLayout, Zenon DEF Range
  <2>4. FrameOf(q)[x] = q[27 - j + 1]
    <3>1. Distinct(interrupt_stack_frame_t) /\ j \in DOMAIN interrupt_stack_frame_t
      BY FrameLayout
    <3>2. Struct(interrupt_stack_frame_t, q, 27)[interrupt_stack_frame_t[j]] = q[27 - j + 1]
      BY ONLY <3>1, StructAt
    <3> QED
      BY <2>2, <3>2 DEF FrameOf
  <2>5. 27 - j + 1 \in 1..27
    BY ONLY j \in 1..27
  <2>6. FrameOf(q)[x] \in Int
    <3>1. \A i \in 1..27 : q[i] \in Int
      <4>1. \A i \in 1..Len(q) : q[i] \in Int
        BY ONLY q \in Seq(Int), SMTT(60)
      <4> QED
        BY <4>1, Zenon
    <3> QED
      BY <2>4, <2>5, <3>1, Zenon
  <2>7. e[x] = (IF x \in GPR THEN c.gpr[x]
                ELSE IF x \in {"rip", "rsp", "rflags", "cs", "ss"} THEN c[x] ELSE FrameOf(q)[x])
    BY <1>1, <2>3 DEF Exchanged
  <2>8. c.gpr \in [GPR -> Int] /\ c["rip"] \in Int /\ c["rsp"] \in Int /\ c["rflags"] \in Int
        /\ c["cs"] \in Int /\ c["ss"] \in Int
    BY DEF Context
  <2> HIDE DEF e
  <2>9. e[x] \in Int
    BY ONLY <2>6, <2>7, <2>8
  <2> QED
    BY <2>1, <2>2, <2>9
<1>5. p \in Seq(Int) /\ Len(p) = 27
  <2>1. \A k \in 1..27 : e[interrupt_stack_frame_t[28 - k]] \in Int
    BY <1>4, Zenon
  <2>2. p = [k \in 1..27 |-> e[interrupt_stack_frame_t[28 - k]]]
    OBVIOUS
  <2> HIDE DEF e
  <2>3. p \in [1..27 -> Int]
    BY <2>1, <2>2, Zenon
  <2> QED
    BY <2>3
<1>6. \A x \in Range(interrupt_stack_frame_t) : FrameOf(p)[x] = e[x]
  <2>1. PICK d : d = e
    BY Zenon
  <2>2. p = [k \in 1..27 |-> d[interrupt_stack_frame_t[28 - k]]]
    BY <2>1
  <2>3. \A x \in Range(interrupt_stack_frame_t) : FrameOf(p)[x] = d[x]
    BY ONLY <2>2, WrittenFrame, Zenon
  <2> QED
    BY <2>1, <2>3, Zenon
<1>7. \A r \in GPR : FrameOf(p)[r] = c.gpr[r]
  BY <1>2, <1>6, FrameNames, Zenon
<1>8. /\ FrameOf(p)["rip"] = c.rip /\ FrameOf(p)["rsp"] = c.rsp /\ FrameOf(p)["rflags"] = c.rflags
      /\ FrameOf(p)["cs"] = c.cs /\ FrameOf(p)["ss"] = c.ss
  BY <1>3, <1>6, FrameNames, Zenon
<1>9. [r \in GPR |-> FrameOf(p)[r]] = c.gpr
  BY <1>7, ZenonT(60) DEF Context
<1>10. ContextOf(p) = [gpr |-> c.gpr, rip |-> c.rip, rsp |-> c.rsp, rflags |-> c.rflags, cs |-> c.cs, ss |-> c.ss]
  BY <1>8, <1>9, Zenon DEF ContextOf
<1> QED
  BY <1>5, <1>10 DEF Context

(* The handler is a C function: it leaves some registers as they may be.     *)
LEMMA AfterCall ==
  ASSUME cpu \in Context, NEW ip \in Int, Called(ip)
  PROVE  /\ cpu' \in Context /\ cpu'.rip = ip /\ cpu'.rsp = cpu.rsp /\ cpu'.rflags = cpu.rflags
         /\ cpu'.cs = cpu.cs /\ cpu'.ss = cpu.ss
<1> DEFINE g == [r \in GPR |-> IF r \in CallerSaved \cup {"rax"} THEN junk ELSE cpu.gpr[r]]
<1>1. g \in [GPR -> Int]
  BY DEF Context, junk
<1>2. cpu' = [cpu EXCEPT !.gpr = g, !.rip = ip]
  BY DEF Called
<1> HIDE DEF g
<1>3. cpu' = [gpr |-> g, rip |-> ip, rsp |-> cpu.rsp, rflags |-> cpu.rflags, cs |-> cpu.cs, ss |-> cpu.ss]
  BY <1>2, Zenon DEF Context
<1> QED
  BY <1>1, <1>3 DEF Context

(* If schedule does not switch, the frame stays as it is.                    *)
LEMMA HandledHere ==
  ASSUME IInv, cpu.rip = interrupt_handler_ip, NEW ip \in {restore_state_ip, halt}, Called(ip),
         UNCHANGED <<stk, curr, ctx, want>>, now' \in Nat,
         ip = halt => Frame["trap_number"] \in exception_strs
  PROVE  IInv'
<1>1. /\ TypeOK /\ cpu.cs = KernelCode /\ cpu.ss = 0 /\ cpu.rflags = 0 /\ Agrees(Interrupted, want[curr])
      /\ \E s \in Tasks : cpu.rsp = Rsp(s, 27) /\ Len(stk[s]) = 27
  BY DEF IInv, HandlerInv
<1>2. /\ cpu' \in Context /\ cpu'.rip = ip /\ cpu'.rsp = cpu.rsp /\ cpu'.rflags = cpu.rflags
      /\ cpu'.cs = cpu.cs /\ cpu'.ss = cpu.ss
  BY <1>1, AfterCall DEF TypeOK, restore_state_ip, halt
<1>3. Frame' = Frame
  BY <1>2 DEF Frame
<1>4. Interrupted' = Interrupted
  BY <1>3 DEF Interrupted
<1>5. TypeOK'
  BY <1>1, <1>2 DEF TypeOK
<1>6. Others'
  BY SMTT(60) DEF IInv, Others
<1>7. HandlerInv'
  <2>1. \E s \in Tasks : cpu'.rsp = Rsp(s, 27) /\ Len(stk'[s]) = 27
    BY <1>1, <1>2
  <2>2. ip # interrupt_handler_ip
    BY DEF interrupt_handler_ip, restore_state_ip, halt
  <2> QED
    BY <1>1, <1>2, <1>3, <1>4, <2>1, <2>2, SMTT(60) DEF HandlerInv
<1> QED
  BY <1>2, <1>5, <1>6, <1>7, InHandler

(* If it does, what the process needs to go on is in its context, and the    *)
(* frame is the one of the next process.                                     *)
LEMMA Switched ==
  ASSUME IInv, cpu.rip = interrupt_handler_ip, schedule, Called(restore_state_ip),
         UNCHANGED want, now' \in Nat
  PROVE  IInv'
<1> DEFINE c == ctx[SuccTask(curr)]
           next == SuccTask(curr)
<1>1. /\ TypeOK /\ cpu.cs = KernelCode /\ cpu.ss = 0 /\ cpu.rflags = 0 /\ Agrees(Interrupted, want[curr])
      /\ \E s \in Tasks : cpu.rsp = Rsp(s, 27) /\ Len(stk[s]) = 27
  BY DEF IInv, HandlerInv
<1>2. PICK s \in Tasks : cpu.rsp = Rsp(s, 27) /\ Len(stk[s]) = 27
  BY <1>1, SMTT(60)
<1>3. curr \in Tasks /\ next \in Tasks /\ next # curr /\ c \in Context /\ s \in Nat /\ stk[s] \in Seq(Int)
  BY <1>1, Numbers, SMTT(60) DEF TypeOK, schedule
<1>4. Stack(cpu.rsp) = s /\ Words(cpu.rsp) = 27
  BY <1>2, <1>3, RspParts, SMTT(60)
<1>5. Frame = FrameOf(stk[s])
  BY <1>2, <1>3, FrameHere
<1> DEFINE p == [k \in 1..27 |-> Exchanged(FrameOf(stk[s]), c)[interrupt_stack_frame_t[28 - k]]]
<1>6. p \in Seq(Int) /\ Len(p) = 27 /\ ContextOf(p) = c
  <2>1. PICK d, q, x : d = c /\ q = stk[s] /\ x = p
    BY Zenon
  <2>2. /\ d \in Context /\ q \in Seq(Int) /\ Len(q) = 27
        /\ x = [k \in 1..27 |-> Exchanged(FrameOf(q), d)[interrupt_stack_frame_t[28 - k]]]
    BY <1>2, <1>3, <2>1
  <2>3. x \in Seq(Int) /\ Len(x) = 27 /\ ContextOf(x) = d
    BY ONLY <2>2, ExchangedFrame, ZenonT(60)
  <2> QED
    BY <2>1, <2>3, ZenonT(60)
<1>7. stk' = [stk EXCEPT ![s] = p]
  <2>1. \A f : Stored(f) = [k \in DOMAIN stk[s] |-> IF k > 27 - 27 /\ k <= 27
                                    THEN f[interrupt_stack_frame_t[27 - k + 1]] ELSE stk[s][k]]
    BY <1>4, FrameLayout DEF Stored
  <2>2. DOMAIN stk[s] = 1..27
    BY <1>2, <1>3, SMTT(60)
  <2>3. Stored(Exchanged(FrameOf(stk[s]), c)) = p
    <3>1. PICK e : e = Exchanged(FrameOf(stk[s]), c)
      OBVIOUS
    <3>2. \A k \in 1..27 : k > 27 - 27 /\ k <= 27 /\ 27 - k + 1 = 28 - k
      OBVIOUS
    <3>3. Stored(e) = [k \in 1..27 |-> IF k > 27 - 27 /\ k <= 27
                         THEN e[interrupt_stack_frame_t[27 - k + 1]] ELSE stk[s][k]]
      BY <2>1, <2>2
    <3>4. Stored(e) = [k \in 1..27 |-> e[interrupt_stack_frame_t[28 - k]]]
      BY ONLY <3>2, <3>3, SMTT(60)
    <3> QED
      BY <3>1, <3>4
  <2>4. stk' = [stk EXCEPT ![s] = Stored(Exchanged(FrameOf(stk[s]), c))]
    BY <1>4, <1>5 DEF schedule, Exchanged
  <2> QED
    BY <2>3, <2>4
<1> HIDE DEF p
<1>8. stk'[s] = p
  BY <1>1, <1>2, <1>7, SMTT(60) DEF TypeOK
<1>9. ctx' = [ctx EXCEPT ![curr] = Interrupted] /\ curr' = next
  BY DEF schedule, Interrupted
<1>10. /\ cpu' \in Context /\ cpu'.rip = restore_state_ip /\ cpu'.rsp = cpu.rsp /\ cpu'.rflags = cpu.rflags
       /\ cpu'.cs = cpu.cs /\ cpu'.ss = cpu.ss
  BY <1>1, AfterCall DEF TypeOK, restore_state_ip
<1>11. Interrupted' = c
  <2>1. cpu'.rsp = Rsp(s, 27)
    BY <1>2, <1>10
  <2>2. Interrupted' = ContextOf(stk'[s])
    BY <1>3, <2>1, FrameThere
  <2> QED
    BY <1>6, <1>8, <2>2
<1>12. TypeOK'
  <2>1. Interrupted \in Context
    BY <1>1 DEF Agrees
  <2>2. ctx' \in [Tasks -> Context]
    BY <1>1, <1>9, <2>1 DEF TypeOK
  <2>3. stk' \in [{0} \cup Tasks -> Seq(Int)]
    BY <1>1, <1>6, <1>7 DEF TypeOK
  <2> QED
    BY <1>1, <1>3, <1>9, <1>10, <2>2, <2>3, SMTT(60) DEF TypeOK
<1>13. Others'
  <2>1. ASSUME NEW t \in Tasks \ {next}
        PROVE  Agrees(ctx'[t], want[t])
    <3>1. CASE t = curr
      BY <1>1, <1>9, <3>1 DEF TypeOK
    <3>2. CASE t # curr
      BY <1>1, <1>9, <3>2 DEF TypeOK, IInv
    <3> QED
      BY <3>1, <3>2
  <2> QED
    BY <1>9, <2>1, SMTT(60) DEF IInv, Others
<1>14. Agrees(c, want[next])
  BY <1>3, Zenon DEF IInv
<1>15. HandlerInv'
  <2>1. cpu'.rsp = Rsp(s, 27) /\ Len(stk'[s]) = 27
    BY <1>2, <1>6, <1>8, <1>10
  <2>2. Agrees(Interrupted', want'[curr'])
    BY <1>9, <1>11, <1>14
  <2>3. restore_state_ip # interrupt_handler_ip /\ restore_state_ip # halt
    BY DEF interrupt_handler_ip, restore_state_ip, halt
  <2> QED
    BY <1>1, <1>2, <1>10, <2>1, <2>2, <2>3 DEF HandlerInv
<1> QED
  BY <1>10, <1>12, <1>13, <1>15, InHandler, SMTT(60)

(* interrupt_handler, whichever the interrupt.                               *)
LEMMA InterruptHandlerStep ==
  ASSUME IInv, interrupt_handler
  PROVE  IInv'
<1> DEFINE trap == Frame["trap_number"]
<1>1. trap \in Vectors /\ now \in Nat /\ cpu.rip = interrupt_handler_ip /\ UNCHANGED want
  BY DEF interrupt_handler, IInv, HandlerInv, TypeOK
<1>2. now + TickMs \in Nat
  BY <1>1, EntryAssumption
<1>3. trap \notin {32, 33, 39} => trap \in exception_strs
  <2>1. trap \in (0..8) \cup (10..14) \cup (16..21) \cup {32, 33, 39}
    BY <1>1, EntryAssumption, Zenon DEF idt64_table
  <2> HIDE DEF trap
  <2> QED
    BY <2>1 DEF exception_strs
<1> HIDE DEF trap
<1>4. \/ now' \in Nat /\ schedule /\ Called(restore_state_ip)
      \/ now' \in Nat /\ UNCHANGED <<stk, curr, ctx>> /\ Called(restore_state_ip)
      \/ now' \in Nat /\ UNCHANGED <<stk, curr, ctx>> /\ Called(halt) /\ trap \in exception_strs
  BY <1>1, <1>2, <1>3 DEF interrupt_handler, trap
<1>5. CASE now' \in Nat /\ schedule /\ Called(restore_state_ip)
  BY <1>1, <1>5, Switched
<1>6. CASE now' \in Nat /\ UNCHANGED <<stk, curr, ctx>> /\ Called(restore_state_ip)
  <2>1. restore_state_ip # halt
    BY DEF restore_state_ip, halt
  <2> QED
    BY <1>1, <1>6, <2>1, HandledHere
<1>7. CASE now' \in Nat /\ UNCHANGED <<stk, curr, ctx>> /\ Called(halt) /\ trap \in exception_strs
  BY <1>1, <1>7, HandledHere, SMTT(60) DEF trap
<1> QED
  BY <1>4, <1>5, <1>6, <1>7, SMTT(60)

(* What the restoring stub pops are the first members of the frame.          *)
LEMMA RestoredRegs ==
  ASSUME NEW q
  PROVE  /\ \A k \in 1..15 : Struct(sys_ctrl_regs_t \o registers_64_t, q, 27)[pushaq[k]] = q[7 + k]
         /\ LET iret == Struct(<<"rip", "cs", "rflags", "rsp", "ss">>, q, 5)
            IN  iret["rip"] = q[5] /\ iret["cs"] = q[4] /\ iret["rflags"] = q[3]
                /\ iret["rsp"] = q[2] /\ iret["ss"] = q[1]
<1>1. PICK S, a, b, ab : /\ S = GPR \cup {"cr8", "cr4", "cr3", "cr2", "cr0"}
                         /\ a = sys_ctrl_regs_t /\ b = registers_64_t /\ ab = a \o b
  BY Zenon
<1>2. a \in Seq(S) /\ Len(a) = 5 /\ \A k \in 1..5 : a[k] \in {"cr8", "cr4", "cr3", "cr2", "cr0"}
  BY <1>1 DEF sys_ctrl_regs_t
<1>3. b \in Seq(S) /\ Len(b) = 15
  <2>1. b = [k \in 1..15 |-> pushaq[16 - k]]
    BY <1>1, Registers DEF registers_64_t
  <2>2. \A k \in 1..15 : pushaq[16 - k] \in S
    BY <1>1, Named
  <2> QED
    BY <2>1, <2>2
<1>4. /\ ab \in Seq(S) /\ Len(ab) = Len(a) + Len(b)
      /\ \A k \in 1..Len(a) : ab[k] = a[k]
      /\ \A k \in 1..Len(b) : ab[Len(a) + k] = b[k]
  <2>1. a \in Seq(S) /\ b \in Seq(S) /\ ab = a \o b
    BY <1>1, <1>2, <1>3
  <2> QED
    BY ONLY <2>1, ConcatTwo
<1>5. /\ DOMAIN ab = 1..20
      /\ \A k \in 1..5 : ab[k] = a[k]
      /\ \A k \in 1..15 : ab[5 + k] = pushaq[16 - k]
  <2>1. Len(ab) = 20 /\ ab \in Seq(S)
    BY <1>2, <1>3, <1>4
  <2>2. DOMAIN ab = 1..20
    BY ONLY <2>1
  <2>3. \A k \in 1..15 : ab[5 + k] = b[k]
    BY <1>2, <1>3, <1>4, Zenon
  <2>4. \A k \in 1..15 : b[k] = pushaq[16 - k]
    BY <1>1, Registers, SMTT(60)
  <2>5. \A k \in 1..5 : ab[k] = a[k]
    BY <1>2, <1>4
  <2> QED
    BY ONLY <2>2, <2>3, <2>4, <2>5
<1>6. \A k \in 6..20 : ab[k] = pushaq[21 - k]
  <2> TAKE k \in 6..20
  <2>1. k - 5 \in 1..15 /\ 5 + (k - 5) = k /\ 16 - (k - 5) = 21 - k
    OBVIOUS
  <2>2. ab[5 + (k - 5)] = pushaq[16 - (k - 5)]
    BY <1>5, <2>1
  <2> QED
    BY <2>1, <2>2
<1>7. \A j \in 1..15, k \in 1..5 : pushaq[j] # a[k]
  BY <1>1, SMTT(60) DEF pushaq, sys_ctrl_regs_t
<1>8. Distinct(ab)
  <2> SUFFICES ASSUME NEW j \in 1..20, NEW k \in 1..20, ab[j] = ab[k] PROVE j = k
    BY <1>5 DEF Distinct
  <2>1. CASE j \in 1..5 /\ k \in 1..5
    <3>1. a[1] = "cr8" /\ a[2] = "cr4" /\ a[3] = "cr3" /\ a[4] = "cr2" /\ a[5] = "cr0"
      BY <1>1 DEF sys_ctrl_regs_t
    <3>2. a[j] = a[k]
      BY <1>5, <2>1
    <3> QED
      BY ONLY <2>1, <3>1, <3>2
  <2>2. CASE j \in 1..5 /\ k \in 6..20
    <3>1. ab[j] = a[j] /\ ab[k] = pushaq[21 - k] /\ 21 - k \in 1..15
      BY <1>5, <1>6, <2>2
    <3> QED
      BY <1>7, <2>2, <3>1, Zenon
  <2>3. CASE j \in 6..20 /\ k \in 1..5
    <3>1. ab[k] = a[k] /\ ab[j] = pushaq[21 - j] /\ 21 - j \in 1..15
      BY <1>5, <1>6, <2>3
    <3> QED
      BY <1>7, <2>3, <3>1
  <2>4. CASE j \in 6..20 /\ k \in 6..20
    <3>1. pushaq[21 - j] = pushaq[21 - k] /\ 21 - j \in 1..15 /\ 21 - k \in 1..15
      BY <1>6, <2>4
    <3>2. 21 - j = 21 - k
      BY <3>1, PushedOnce, Registers DEF Distinct
    <3> QED
      BY <2>4, <3>2
  <2> QED
    BY <2>1, <2>2, <2>3, <2>4
<1>9. ASSUME NEW k \in 1..15
      PROVE  Struct(ab, q, 27)[pushaq[k]] = q[7 + k]
  <2>1. 21 - k \in 6..20 /\ 21 - (21 - k) = k /\ 27 - (21 - k) + 1 = 7 + k
    OBVIOUS
  <2>2. ab[21 - k] = pushaq[21 - (21 - k)] /\ 21 - k \in DOMAIN ab
    BY <1>5, <1>6, <2>1
  <2>3. Struct(ab, q, 27)[ab[21 - k]] = q[27 - (21 - k) + 1]
    BY ONLY <1>8, <2>2, StructAt
  <2> QED
    BY <2>1, <2>2, <2>3
<1>10. PICK f : f = <<"rip", "cs", "rflags", "rsp", "ss">>
  BY Zenon
<1>11. Distinct(f) /\ DOMAIN f = 1..5 /\ f[1] = "rip" /\ f[2] = "cs" /\ f[3] = "rflags" /\ f[4] = "rsp" /\ f[5] = "ss"
  BY <1>10 DEF Distinct
<1>12. \A k \in 1..5 : Struct(f, q, 5)[f[k]] = q[5 - k + 1]
  BY <1>11, StructAt
<1>13. /\ Struct(f, q, 5)[f[1]] = q[5] /\ Struct(f, q, 5)[f[2]] = q[4] /\ Struct(f, q, 5)[f[3]] = q[3]
       /\ Struct(f, q, 5)[f[4]] = q[2] /\ Struct(f, q, 5)[f[5]] = q[1]
  BY <1>12
<1> QED
  BY <1>1, <1>9, <1>10, <1>11, <1>13

(* IRETQ takes the processor back to the process, or to the next one.        *)
LEMMA RestoreStep ==
  ASSUME IInv, vector_restore_state
  PROVE  IInv'
<1> DEFINE q == stk[Stack(cpu.rsp)]
           regs == Struct(sys_ctrl_regs_t \o registers_64_t, q, 27)
           iret == Struct(<<"rip", "cs", "rflags", "rsp", "ss">>, q, 5)
<1>1. /\ TypeOK /\ cpu \in Context /\ cpu.rip = restore_state_ip /\ Agrees(Interrupted, want[curr])
      /\ \E s \in Tasks : cpu.rsp = Rsp(s, 27) /\ Len(stk[s]) = 27
  BY SMTT(60) DEF IInv, HandlerInv, vector_restore_state, TypeOK
<1>2. UNCHANGED <<curr, ctx, now, want>>
  BY DEF vector_restore_state
<1>3. PICK s \in Tasks : cpu.rsp = Rsp(s, 27) /\ Len(stk[s]) = 27
  BY <1>1
<1>4. s \in Nat /\ Stack(cpu.rsp) = s /\ Words(cpu.rsp) = 27 /\ q \in Seq(Int)
  <2>1. s \in Nat /\ stk[s] \in Seq(Int)
    BY <1>1, <1>3, Numbers, SMTT(60) DEF TypeOK
  <2>2. Stack(cpu.rsp) = s /\ Words(cpu.rsp) = 27
    BY <1>3, <2>1, RspParts
  <2> QED
    BY <2>1, <2>2
<1>5. skipped = 22
  BY Registers DEF skipped, sys_ctrl_regs_t
<1>6. Interrupted = ContextOf(q)
  BY <1>3, <1>4, FrameHere
<1>7. \A r \in GPR : regs[r] = FrameOf(q)[r]
  <2> SUFFICES ASSUME NEW r \in GPR PROVE regs[r] = FrameOf(q)[r]
    OBVIOUS
  <2>1. PICK k \in 1..15 : r = pushaq[k]
    BY Named, SMTT(60)
  <2>2. regs[pushaq[k]] = q[7 + k] /\ FrameOf(q)[pushaq[k]] = q[7 + k]
    BY RestoredRegs, FrameMembers, Zenon
  <2> QED
    BY <2>1, <2>2
<1>8. /\ iret["rip"] = FrameOf(q)["rip"] /\ iret["cs"] = FrameOf(q)["cs"] /\ iret["rflags"] = FrameOf(q)["rflags"]
      /\ iret["rsp"] = FrameOf(q)["rsp"] /\ iret["ss"] = FrameOf(q)["ss"]
  <2>1. /\ iret["rip"] = q[5] /\ iret["cs"] = q[4] /\ iret["rflags"] = q[3]
        /\ iret["rsp"] = q[2] /\ iret["ss"] = q[1]
    BY RestoredRegs, ZenonT(60)
  <2>2. /\ FrameOf(q)["rip"] = q[5] /\ FrameOf(q)["cs"] = q[4] /\ FrameOf(q)["rflags"] = q[3]
        /\ FrameOf(q)["rsp"] = q[2] /\ FrameOf(q)["ss"] = q[1]
    BY FrameMembers
  <2> HIDE DEF iret, q
  <2> QED
    BY <2>1, <2>2
<1>9. cpu' = [x \in DOMAIN cpu |-> IF x = "gpr" THEN [r \in GPR |-> regs[r]] ELSE iret[x]]
  <2>1. 27 - skipped = 5
    BY <1>5
  <2> QED
    BY <1>4, <2>1 DEF vector_restore_state
<1>10. [r \in GPR |-> regs[r]] = [r \in GPR |-> FrameOf(q)[r]]
  BY <1>7, SMTT(60)
<1>11. cpu' = ContextOf(q)
  <2>1. DOMAIN cpu = {"gpr", "rip", "rsp", "rflags", "cs", "ss"}
    BY <1>1 DEF Context
  <2> HIDE DEF regs, iret, q
  <2> QED
    BY <1>8, <1>9, <1>10, <2>1 DEF ContextOf
<1>12. Agrees(cpu', want'[curr'])
  BY <1>1, <1>2, <1>6, <1>11, SMTT(60)
<1>13. TypeOK'
  <2>1. stk' = [stk EXCEPT ![s] = SubSeq(stk[s], 1, 0)]
    BY <1>4, <1>5 DEF vector_restore_state
  <2>2. SubSeq(stk[s], 1, 0) \in Seq(Int)
    BY <1>4
  <2>3. stk' \in [{0} \cup Tasks -> Seq(Int)]
    BY <1>1, <2>1, <2>2, SMTT(60) DEF TypeOK
  <2> QED
    BY <1>1, <1>2, <1>12, <2>3, SMTT(60) DEF TypeOK, Agrees
<1>14. Others'
  BY <1>2, SMTT(60) DEF IInv, Others
<1>15. cpu'.rip \in {user, call, leave_ret}
  BY <1>1, <1>2, <1>12, <1>14, SMTT(60) DEF Agrees, Others, Expected, TypeOK
<1> QED
  BY <1>12, <1>13, <1>14, <1>15, InProcess, SMTT(60)
-----------------------------------------------------------------------------
(* The theorems *)

LEMMA StutterIInv ==
  ASSUME IInv, UNCHANGED vars
  PROVE  IInv'
BY ZenonT(60) DEF IInv, TypeOK, UserInv, CallInv, Asked, Result, VectorInv, HandlerInv, Entered, Interrupted, Frame, vars

(* The strengthening of the properties is inductive.                         *)
LEMMA Inductive == Spec => []IInv
<1>1. Init => IInv
  BY InitIInv
<1>2. IInv /\ [Next]_vars => IInv'
  <2> SUFFICES ASSUME IInv, [Next]_vars PROVE IInv'
    OBVIOUS
  <2>1. CASE UNCHANGED vars
    BY <2>1, StutterIInv
  <2>2. CASE \E nr \in Served, df \in BOOLEAN : \E zero \in SUBSET Arguments(nr) : user_step(nr, df, zero)
    BY <2>2, UserStep
  <2>3. CASE syscall
    BY <2>3, SyscallStep
  <2>4. CASE leave
    BY <2>4, LeaveStep
  <2>5. CASE syscall_entry
    BY <2>5, EntryStep
  <2>6. CASE syscall_handler
    BY <2>6, HandlerStep
  <2>7. CASE syscall_exit
    BY <2>7, ExitStep
  <2>8. CASE \E v \in Vectors : interrupt(v)
    BY <2>8, InterruptStep
  <2>9. CASE vector_save_state
    BY <2>9, StubStep
  <2>10. CASE interrupt_handler
    BY <2>10, InterruptHandlerStep
  <2>11. CASE vector_restore_state
    BY <2>11, RestoreStep
  <2> QED
    BY <2>1, <2>2, <2>3, <2>4, <2>5, <2>6, <2>7, <2>8, <2>9, <2>10, <2>11 DEF Next
<1> QED
  BY <1>1, <1>2, PTL DEF Spec

(* Which selectors the processor holds follows from which code it runs.      *)
LEMMA Selectors ==
  ASSUME IInv
  PROVE  /\ cpu.rip \in {user, call, leave_ret} =>
              cpu.cs = 35 /\ cpu.ss = 27 /\ Agrees(cpu, want[curr])
         /\ cpu.rip \notin {user, call, leave_ret} => cpu.cs = 8 /\ cpu.ss \in {0, 16}
<1>1. CASE cpu.rip \in {user, call, leave_ret}
  <2>1. Agrees(cpu, want[curr]) /\ Expected(want[curr])
    BY <1>1 DEF IInv, UserInv, TypeOK
  <2> QED
    BY <1>1, <2>1 DEF Agrees, Expected, UserCode, UserData
<1>2. CASE cpu.rip \in {syscall_entry_ip, syscall_handler_ip, syscall_exit_ip, fatal}
  <2>1. cpu.cs = 8 /\ cpu.ss = 16
    BY <1>2 DEF IInv, CallInv, KernelCode, KernelData
  <2> QED
    BY <1>2, <2>1, SMTT(60)
       DEF user, call, leave_ret, syscall_entry_ip, syscall_handler_ip, syscall_exit_ip, fatal
<1>3. CASE cpu.rip \in {interrupt_handler_ip, restore_state_ip, halt}
  <2>1. cpu.cs = 8 /\ cpu.ss = 0
    BY <1>3 DEF IInv, HandlerInv, KernelCode
  <2> QED
    BY <1>3, <2>1 DEF user, call, leave_ret, interrupt_handler_ip, restore_state_ip, halt
<1>4. CASE \E v \in Vectors : cpu.rip = vector_ip(v)
  <2>1. cpu.cs = 8 /\ cpu.ss = 0
    BY <1>4 DEF IInv, VectorInv, KernelCode
  <2>2. cpu.rip >= 100
    BY <1>4, Numbers
  <2> QED
    BY <2>1, <2>2, SMTT(60) DEF user, call, leave_ret
<1>5. cpu.rip \in Places
  BY DEF IInv
<1> QED
  BY <1>1, <1>2, <1>3, <1>4, <1>5 DEF Places

(* The descriptors, one by one.                                              *)
LEMMA Descriptors ==
  /\ DOMAIN GDT64 = {8, 16, 24, 32}
  /\ GDT64[8] = [code |-> TRUE, dpl |-> 0] /\ GDT64[16] = [code |-> FALSE, dpl |-> 0]
  /\ GDT64[24] = [code |-> FALSE, dpl |-> 3] /\ GDT64[32] = [code |-> TRUE, dpl |-> 3]
<1>1. \A x \in {8, 16, 24, 32} : GDT64[x] = [code |-> x \in {8, 32}, dpl |-> IF x < 24 THEN 0 ELSE 3]
  BY DEF GDT64
<1>2. /\ (8 \in {8, 32}) = TRUE /\ (16 \in {8, 32}) = FALSE
      /\ (24 \in {8, 32}) = FALSE /\ (32 \in {8, 32}) = TRUE
  OBVIOUS
<1>3. /\ (IF 8 < 24 THEN 0 ELSE 3) = 0 /\ (IF 16 < 24 THEN 0 ELSE 3) = 0
      /\ (IF 24 < 24 THEN 0 ELSE 3) = 3 /\ (IF 32 < 24 THEN 0 ELSE 3) = 3
  OBVIOUS
<1>4. DOMAIN GDT64 = {8, 16, 24, 32}
  BY DEF GDT64
<1> QED
  BY <1>1, <1>2, <1>3, <1>4, Zenon

(* SYSCALL, SYSRET, the gates and IRETQ always leave selectors that fit the  *)
(* privilege level (syscall_init, idt_init, create_process).                 *)
THEOREM SelectorsAlwaysFit == Spec => []SelectorsFit
<1>1. IInv => SelectorsFit
  <2> SUFFICES ASSUME IInv PROVE SelectorsFit
    OBVIOUS
  <2>1. CASE cpu.cs = 35 /\ cpu.ss = 27
    <3>1. cpu.cs % 4 = 3 /\ cpu.cs - 3 = 32 /\ cpu.ss - 3 = 24
      BY <2>1
    <3> QED
      BY <3>1, Descriptors, Zenon DEF SelectorsFit
  <2>2. CASE cpu.cs = 8 /\ cpu.ss \in {0, 16}
    <3>1. cpu.cs % 4 = 0 /\ cpu.cs - 0 = 8 /\ (cpu.ss = 0 \/ cpu.ss - 0 = 16)
      BY <2>2
    <3> QED
      BY <3>1, Descriptors, Zenon DEF SelectorsFit
  <2> QED
    BY <2>1, <2>2, Selectors
<1> QED
  BY <1>1, Inductive, PTL

(* Whatever interrupts, system calls and switches come between, a process    *)
(* finds its registers as it left them (pushaq, popaq, the pops of           *)
(* syscall_entry, process_context_swtich).                                   *)
THEOREM ProcessorIsOwn == Spec => []OwnProcessor
<1>1. IInv => OwnProcessor
  <2> SUFFICES ASSUME IInv, NEW t \in Tasks, NEW c, c = (IF t = curr THEN cpu ELSE ctx[t]), t = curr => InUser
               PROVE  SameBut(c, want[t], IF c.rip = leave_ret THEN {"rsp"} ELSE {})
    BY DEF OwnProcessor
  <2>1. Agrees(c, want[t])
    <3>1. CASE t = curr
      <4>1. cpu.rip \in {user, call, leave_ret}
        BY <3>1, Selectors DEF InUser
      <4> QED
        BY <3>1, <4>1, Selectors
    <3>2. CASE t # curr
      BY <3>2 DEF IInv
    <3> QED
      BY <3>1, <3>2
  <2>2. c.gpr = want[t].gpr /\ c.rip = want[t].rip /\ c.rflags = want[t].rflags /\ c.cs = want[t].cs
        /\ c.ss = want[t].ss /\ (c.rip # leave_ret => c.rsp = want[t].rsp)
    BY <2>1, SMTT(60) DEF Agrees
  <2> QED
    BY <2>2 DEF SameBut
<1> QED
  BY <1>1, Inductive, PTL

(* syscall_handler and interrupt_handler are entered with IF and DF clear    *)
(* (MSR_FMASK, the interrupt gates and cld).                                 *)
THEOREM FlagsAreClearInC == Spec => []FlagsInC
<1>1. IInv => FlagsInC
  BY SMTT(60) DEF IInv, CallInv, HandlerInv, FlagsInC
<1> QED
  BY <1>1, Inductive, PTL

(* interrupt_handler finds the same members whether or not there is an error *)
(* code (vector_interrupt_errorcode_present_save_state and its counterpart). *)
THEOREM FrameIsUniform == Spec => []FrameUniform
<1>1. IInv => FrameUniform
  <2> SUFFICES ASSUME IInv PROVE FrameUniform
    OBVIOUS
  <2>1. ASSUME cpu.rip = interrupt_handler_ip
        PROVE  Frame["cs"] = UserCode + 3 /\ Frame["ss"] = UserData + 3
    <3>1. Agrees(Interrupted, want[curr]) /\ Expected(want[curr])
      BY <2>1, SMTT(60) DEF IInv, HandlerInv, TypeOK
    <3>2. Interrupted.cs = UserCode + 3 /\ Interrupted.ss = UserData + 3
      BY <3>1 DEF Agrees, Expected
    <3> QED
      BY <3>2, SMTT(60) DEF Interrupted
  <2> QED
    BY <2>1 DEF IInv, HandlerInv, FrameUniform
<1> QED
  BY <1>1, Inductive, PTL
=============================================================================
