-------------------------------- MODULE Boot --------------------------------
(***************************************************************************)
(* The boot loader, from the jump of the BIOS into the first sector to the *)
(* call of kmain: mbr.asm, loader.asm and the routines they include, and   *)
(* start.asm.  BIOS, disk, A20 gate and processor may fail in every way    *)
(* the code looks at.                                                      *)
(*                                                                         *)
(* Memory is the sequence of the writes to it, each with the bytes         *)
(* lo..hi-1 and what was put there, numbered by 512-byte blocks from num   *)
(* on (for data from the disk these are sectors).  Interrupts are on in    *)
(* real mode, so the BIOS takes a key before the loader can see it; with   *)
(* the keyboard disabled the controller raises none.  Of the screen only   *)
(* the last message is kept.                                               *)
(***************************************************************************)
EXTENDS Integers, Sequences, FiniteSetsExt

CONSTANTS
  Entries,      \* bound: how many memory regions the BIOS may report
  StackUse,     \* bound: bytes of stack in use
  BssStart, BssSize    \* _BSS_START as a physical address, _BSS_SIZE

VARIABLES
  pc,           \* the routine that runs next
  env,          \* what this machine can do
  log,          \* the writes to memory
  eax, ecx, edx, ebx, di,
  a20,          \* whether address line 20 is on
  step, kbc,    \* the command of .attempt2 that is next; the keyboard controller
  mode,         \* real, protected or long
  msg           \* the message that was displayed last

vars == <<pc, env, log, eax, ecx, edx, ebx, di, a20, step, kbc, mode, msg>>
list == <<ebx, di>>
regs == <<eax, ecx, edx, list>>
gate == <<a20, step, kbc>>

(* const.asm and mem.asm; the sectors are those of raw_disk.sh *)
LoaderBlocks == 5
KernelBlocks == 152
UserBlocks == 20
MaxBlocksPerOp == 127
MbrTop == 31744                                      \* 0x7c00
LoaderTop == 32256                                   \* 0x7e00
E820Start_short == LoaderTop + (LoaderBlocks - 1) * 512    \* a plausible bug: the loader has grown
E820Start == LoaderTop + LoaderBlocks * 512          \* 0x8800
E820End == E820Start + 4 * 512
KernelStart == E820End                               \* 0x9000
UserStart == KernelStart + KernelBlocks * 512        \* 0x1c000
KernelNew == 2097152                                 \* 0x200000
PagingStart == 131072                                \* 0x20000
PDPE == PagingStart + 4096                           \* 0x21000
PDE == PDPE + 4096                                   \* 0x22000
PagingEnd == PDE + 64 * 4096
LoaderSector == 1
KernelSector == 6
UserSector == 158

(* the end of a table of n entries, after its counter *)
e820_table(n) == E820Start + 8 + 20 * n

(* The BIOS reports some entries, all of which fit into the table, the stack  *)
(* does not reach down to the drive number at address 0, and .bss is in the  *)
(* moved kernel or behind it.                                                *)
ASSUME BootAssumption ==
  /\ \A n \in Entries : n \in Nat \ {0} /\ e820_table(n) <= E820End
  /\ StackUse \in Nat /\ StackUse < MbrTop
  /\ BssStart \in Nat /\ BssStart >= KernelNew /\ BssSize \in Nat \ {0}

Write(lo, hi, what, num) == [lo |-> lo, hi |-> hi, what |-> what, num |-> num]

(* what the byte at address a is *)
Value(a) ==
  LET on == {n \in DOMAIN log : log[n].lo <= a /\ a < log[n].hi}
      w == log[Max(on)]
  IN  IF on = {} THEN <<"unknown", 0>> ELSE <<w.what, w.num + (a - w.lo) \div 512>>

(* the bytes lo..hi-1 are what one write of `what', from num on, put there:   *)
(* it is enough to look where some write begins or ends                       *)
Holds(lo, hi, what, num) ==
  LET edges == {lo, hi - 1} \cup UNION {{log[n].lo - 1, log[n].lo, log[n].hi - 1, log[n].hi} : n \in DOMAIN log}
  IN  \A a \in edges : lo <= a /\ a < hi => Value(a) = <<what, num + (a - lo) \div 512>>

Blocks(a, n, sector) == Holds(a, a + 512 * n, "disk", sector)

Goto(from, to) == pc = from /\ pc' = to
-----------------------------------------------------------------------------
(* Messages, in each of the three modes *)

display_string(m) == msg' = m
pm_display_string(m) == msg' = m
lm_display_string(m) == msg' = m

(* a message and endless_loop *)
Stop(m) == pc' = "halt" /\ display_string(m)
-----------------------------------------------------------------------------
(* mbr.asm.  BIOS.Drive.Id is the byte at address 0 *)

Init ==
  /\ pc = "mbr" /\ mode = "real"
  /\ env \in [ext : BOOLEAN, e820 : BOOLEAN, entries : Entries, works : SUBSET (1..3), cpuid : BOOLEAN, long : BOOLEAN]
  /\ a20 \in BOOLEAN
  /\ log = <<Write(MbrTop, MbrTop + 512, "disk", 0)>>
  /\ eax = 0 /\ ecx = 0 /\ edx = 0 /\ ebx = 0 /\ di = 0
  /\ step = 1 /\ kbc = [ibf |-> "", obf |-> FALSE, port |-> FALSE, keys |-> TRUE]
  /\ msg = ""

(* start, and bios_check_extensions_present *)
mbr_start ==
  /\ pc = "mbr"
  /\ log' = log \o <<Write(MbrTop - StackUse, MbrTop, "stack", 0), Write(0, 1, "drive", 0)>>
  /\ display_string(IF env.ext THEN "extension" ELSE "no extension")
  /\ pc' = IF env.ext THEN "read_loader" ELSE "halt"
  /\ UNCHANGED <<env, regs, gate, mode>>

(* where the segment:offset of the disk address packet points to *)
DAP(addr) == 16 * (((addr \div 65536) * 4096) % 65536) + (addr % 65536)

(* bios_extended_read_sectors_from_drive *)
read_sectors(addr, n, lba) ==
  /\ Value(0) = <<"drive", 0>>
  /\ log' = Append(log, Write(DAP(addr), DAP(addr) + 512 * n, "disk", lba))

(* and its pusha and popa, of 16 bits: eax >> 16 << 12 keeps 4 bits above    *)
after_popa(r) == (r % 65536) + 65536 * ((r \div 65536) \div 16)

read_error ==
  /\ pc \in {"read_loader", "read_kernel", "read_userprog"}
  /\ Stop("read error")
  /\ UNCHANGED <<env, log, regs, gate, mode>>

read_loader ==
  /\ Goto("read_loader", "loader")
  /\ read_sectors(LoaderTop, LoaderBlocks, LoaderSector)
  /\ UNCHANGED <<env, regs, gate, mode, msg>>
-----------------------------------------------------------------------------
(* loader.asm in real mode *)

loader_start ==
  /\ Goto("loader", "e820")
  /\ log' = log \o <<Write(LoaderTop - StackUse, LoaderTop, "stack", 0), Write(0, 1, "drive", 0)>>
  /\ display_string("second stage")
  /\ UNCHANGED <<env, regs, gate, mode>>

(* bios_e820_memory_map.  External: called with ebx = k, the BIOS puts the   *)
(* k-th entry at buf, and sets ebx for the next call, 0 after the last entry *)
query(k, buf) ==
  /\ ebx' = IF k + 1 < env.entries THEN k + 1 ELSE 0
  /\ di' = buf
Entry(k, buf) == Write(buf, buf + 20, "entry", k)

Zeros == Write(E820Start, E820End, "zero", 0)

first_memory_entry ==
  /\ Goto("e820", "e820_loop") /\ env.e820
  /\ log' = log \o <<Zeros, Entry(0, E820Start + 8)>>
  /\ query(0, E820Start + 8)
  /\ UNCHANGED <<env, eax, ecx, edx, gate, mode, msg>>

(* the first call may find the function missing *)
e820_not_supported ==
  /\ pc = "e820" /\ ~env.e820
  /\ log' = Append(log, Zeros) /\ Stop("no e820")
  /\ UNCHANGED <<env, regs, gate, mode>>

(* .loop.  The counter is in memory, and counts the entry before *)
inc_counter == Write(E820Start, E820Start + 4, "count", Value(E820Start)[2] + 1)

(* a plausible bug: the BIOS is expected to move the buffer pointer *)
next_memory_entry_fixed ==
  /\ pc = "e820_loop" /\ ebx # 0 /\ UNCHANGED pc
  /\ log' = log \o <<inc_counter, Entry(ebx, di)>>
  /\ query(ebx, di)
  /\ UNCHANGED <<env, eax, ecx, edx, gate, mode, msg>>

next_memory_entry ==
  LET buf == (di + 20) % 65536
  IN  /\ pc = "e820_loop" /\ ebx # 0 /\ UNCHANGED pc
      /\ log' = log \o <<inc_counter, Entry(ebx, buf)>>
      /\ query(ebx, buf)
      /\ UNCHANGED <<env, eax, ecx, edx, gate, mode, msg>>

(* a later call may fail, or come back without the signature *)
e820_error ==
  /\ pc = "e820_loop" /\ ebx # 0
  /\ log' = Append(log, inc_counter) /\ Stop("e820 error")
  /\ UNCHANGED <<env, regs, gate, mode>>

e820_done ==
  /\ Goto("e820_loop", "A20") /\ ebx = 0
  /\ log' = Append(log, inc_counter)
  /\ UNCHANGED <<env, regs, gate, mode, msg>>

(* enable_A20.  test_A20 writes 0x00 to 0:0x500 and 0xff to 0xffff:0x510,    *)
(* which is the same byte if the line is off                                 *)
test_A20 == (IF a20 THEN 0 ELSE 255) # 255

A20_done ==
  /\ pc \in {"A20", "A20_1", "A20_2", "A20_3"} /\ test_A20
  /\ pc' = "read_kernel" /\ display_string("A20")
  /\ eax' = KernelStart /\ ecx' = KernelSector /\ edx' = KernelBlocks
  /\ UNCHANGED <<env, log, list, gate, mode>>

A20_failed ==
  /\ pc = "A20_3" /\ ~test_A20
  /\ Stop("A20 error")
  /\ UNCHANGED <<env, log, regs, gate, mode>>

(* by the BIOS *)
attempt1 ==
  /\ Goto("A20", "A20_1") /\ ~test_A20
  /\ a20' = (1 \in env.works)
  /\ UNCHANGED <<env, log, regs, step, kbc, mode, msg>>

(* a plausible bug: the data are sent before the controller took the command *)
attempt2_hasty == <<"wait1", "ad", "wait1", "d0", "wait2", "in", "wait1", "d1", "data", "wait1", "ae", "wait1">>

(* a plausible bug: the answer is awaited where there is none *)
attempt2_answer ==
  <<"wait1", "ad", "wait1", "d0", "wait2", "in", "wait1", "d1", "wait2", "data", "wait1", "ae", "wait1">>

(* by the keyboard controller *)
attempt2_commands ==
  <<"wait1", "ad", "wait1", "d0", "wait2", "in", "wait1", "d1", "wait1", "data", "wait1", "ae", "wait1">>

attempt2 ==
  LET c == attempt2_commands[step]
  IN  /\ pc \in {"A20_1", "attempt2"} /\ (pc = "A20_1" => ~test_A20)
      /\ c = "wait1" => kbc.ibf = ""
      /\ c = "wait2" => kbc.obf
      /\ kbc' = CASE c \in {"wait1", "wait2"} -> kbc
                  [] c = "in" -> [kbc EXCEPT !.obf = FALSE]
                  [] OTHER -> [kbc EXCEPT !.ibf = c]
      /\ IF step < Len(attempt2_commands)
         THEN pc' = "attempt2" /\ step' = step + 1
         ELSE pc' = "A20_2" /\ step' = 1
      /\ UNCHANGED <<env, log, regs, a20, mode, msg>>

(* external: the controller takes the byte in its input buffer.  After the   *)
(* command d1 a byte goes to the output port, whose bit 1 is the line        *)
controller ==
  /\ kbc.ibf # ""
  /\ kbc' = [ibf |-> "", obf |-> kbc.obf \/ kbc.ibf = "d0", port |-> kbc.ibf = "d1",
             keys |-> IF kbc.ibf \in {"ad", "ae"} THEN kbc.ibf = "ae" ELSE kbc.keys]
  /\ a20' = (a20 \/ (kbc.ibf = "data" /\ kbc.port /\ 2 \in env.works))
  /\ UNCHANGED <<pc, env, log, regs, step, mode, msg>>

(* by port 0x92 *)
attempt3 ==
  /\ Goto("A20_2", "A20_3") /\ ~test_A20
  /\ a20' = (3 \in env.works)
  /\ UNCHANGED <<env, log, regs, step, kbc, mode, msg>>

(* the loop of read_kernel_from_disk, and its rest *)
read_kernel ==
  /\ pc = "read_kernel" /\ edx > MaxBlocksPerOp
  /\ read_sectors(eax, MaxBlocksPerOp, ecx)
  /\ eax' = after_popa(eax) + MaxBlocksPerOp * 512
  /\ ecx' = ecx + MaxBlocksPerOp /\ edx' = edx - MaxBlocksPerOp
  /\ UNCHANGED <<pc, env, list, gate, mode, msg>>

read_remainder ==
  /\ Goto("read_kernel", "read_userprog") /\ edx <= MaxBlocksPerOp
  /\ read_sectors(eax, edx, ecx) /\ display_string("kernel")
  /\ eax' = after_popa(eax)
  /\ UNCHANGED <<env, ecx, edx, list, gate, mode>>

(* 20 blocks are a remainder from the start *)
read_userprog_from_disk ==
  /\ Goto("read_userprog", "cpu") /\ UserBlocks <= MaxBlocksPerOp
  /\ read_sectors(UserStart, UserBlocks, UserSector) /\ display_string("user")
  /\ eax' = after_popa(UserStart) /\ ecx' = UserSector /\ edx' = UserBlocks
  /\ UNCHANGED <<env, list, gate, mode>>

cpu_supports_64_bit_mode ==
  /\ pc = "cpu"
  /\ IF ~env.cpuid THEN Stop("no cpuid") /\ UNCHANGED regs
     ELSE IF ~env.long THEN Stop("no 64-bit") /\ UNCHANGED regs
     ELSE pc' = "enter_protected" /\ display_string("64-bit") /\ eax' = 0 /\ edx' = 0 /\ UNCHANGED <<ecx, list>>
  /\ UNCHANGED <<env, log, gate, mode>>

enter_protected_mode ==
  /\ Goto("enter_protected", "protected") /\ mode' = "protected"
  /\ display_string("protected mode")
  /\ UNCHANGED <<env, log, regs, gate>>
-----------------------------------------------------------------------------
(* protectedmode.asm *)

protected_mode_boot ==
  /\ Goto("protected", "move_kernel")
  /\ pm_display_string("protected")
  /\ UNCHANGED <<env, log, regs, gate, mode>>

pm_move_kernel ==
  /\ Goto("move_kernel", "clean_memory")
  /\ log' = Append(log, Write(KernelNew, KernelNew + 512 * KernelBlocks,
                              IF Blocks(KernelStart, KernelBlocks, KernelSector) THEN "disk" ELSE "junk", KernelSector))
  /\ UNCHANGED <<env, regs, gate, mode, msg>>

MiB == 1048576

(* the k-th entry of the 64 page directories, in MiB: eax has 32 bits *)
pde(k) == (2 * k) % 4096

(* where the k-th 2 MiB of the lower and of the upper half are, in MiB: PML4 *)
(* entries 0 and 256 point to the same table                                 *)
Translated(k) == pde(k)

pm_setup_page_tables ==
  /\ Goto("clean_memory", "enter_long")
  /\ log' = log \o <<Write(PagingStart, PagingEnd, "zero", 0),
                     Write(PagingStart, PagingStart + 8, "pml4", 0), Write(PagingStart + 2048, PagingStart + 2056, "pml4", 0),
                     Write(PDPE, PDPE + 8 * 64, "pdpe", 0),
                     Write(PDE, PDE + 8 * 512 * 64, "pde", 0)>>
  /\ pm_display_string("pages built")
  /\ UNCHANGED <<env, regs, gate, mode>>

pm_enter_long_mode ==
  /\ Goto("enter_long", "long_mode_boot") /\ mode' = "long"
  /\ UNCHANGED <<env, log, regs, gate, msg>>

(* the stack is below the kernel *)
long_mode_boot ==
  /\ Goto("long_mode_boot", "kernel_entry")
  /\ log' = Append(log, Write(KernelNew - StackUse, KernelNew, "stack", 0))
  /\ lm_display_string("long mode")
  /\ UNCHANGED <<env, regs, gate, mode>>

(* start.asm: descriptors and task state are data of the kernel *)
kernel_entry ==
  /\ Goto("kernel_entry", "kmain")
  /\ log' = Append(log, Write(BssStart, BssStart + BssSize, "zero", 0))
  /\ UNCHANGED <<env, regs, gate, mode, msg>>

Code ==
  \/ mbr_start \/ read_loader \/ read_error \/ loader_start
  \/ first_memory_entry \/ e820_not_supported \/ next_memory_entry \/ e820_error \/ e820_done
  \/ A20_done \/ A20_failed \/ attempt1 \/ attempt2 \/ attempt3
  \/ read_kernel \/ read_remainder \/ read_userprog_from_disk
  \/ cpu_supports_64_bit_mode \/ enter_protected_mode
  \/ protected_mode_boot \/ pm_move_kernel \/ pm_setup_page_tables \/ pm_enter_long_mode
  \/ long_mode_boot \/ kernel_entry

(* the processor runs on, and the controller takes what it is sent *)
Spec == Init /\ [][Code \/ controller]_vars /\ WF_vars(Code) /\ WF_vars(controller)
-----------------------------------------------------------------------------
Errors == {"no extension", "read error", "no e820", "e820 error", "A20 error", "no cpuid", "no 64-bit"}

(* The code that runs is the code that was loaded: nothing the boot stages   *)
(* write (stacks, memory map, disk reads, page tables) touches the first     *)
(* sector before the jump out of it, the loader before the jump to the       *)
(* kernel, or the moved kernel.                                              *)
CodeIntact ==
  /\ pc \in {"mbr", "read_loader"} => Blocks(MbrTop, 1, 0)
  /\ pc \notin {"mbr", "read_loader", "halt", "kernel_entry", "kmain"} => Blocks(LoaderTop, LoaderBlocks, LoaderSector)
  /\ pc \in {"clean_memory", "enter_long", "long_mode_boot", "kernel_entry"} => Blocks(KernelNew, KernelBlocks, KernelSector)

(* kmain finds what the loader prepared for it: every entry the BIOS         *)
(* reported in its place, with their number before them, the user program,   *)
(* cleared BSS, and page tables no later step wrote into, with the kernel    *)
(* and its stack where the tables say.  The keyboard works again after       *)
(* .attempt2, and its controller has taken all commands.                     *)
Handover ==
  pc = "kmain" =>
    /\ mode = "long" /\ a20
    /\ kbc.keys /\ kbc.ibf = "" /\ ~kbc.obf
    /\ Value(E820Start) = <<"count", env.entries>>
    /\ \A n \in 0..(env.entries - 1) : \A b \in {0, 19} : Value(E820Start + 8 + 20 * n + b) = <<"entry", n>>
    /\ Blocks(UserStart, UserBlocks, UserSector)
    /\ Value(BssStart)[1] = "zero" /\ Value(BssStart + BssSize - 1)[1] = "zero"
    /\ Value(PagingStart) = <<"pml4", 0>> /\ Value(PagingStart + 256 * 8) = <<"pml4", 0>>
    /\ Holds(PDE, PagingEnd, "pde", 0)
    /\ Translated(0) = 0 /\ MiB * Translated(1) = KernelNew

(* The loader gives up for the reason it prints, and only if the machine     *)
(* gives it that reason: no way to switch A20 on is left untried.            *)
HaltsForAReason ==
  pc = "halt" =>
    /\ msg \in Errors
    /\ msg = "no extension" => ~env.ext
    /\ msg = "no e820" => ~env.e820
    /\ msg = "A20 error" => env.works = {}
    /\ msg = "no cpuid" => ~env.cpuid
    /\ msg = "no 64-bit" => env.cpuid /\ ~env.long

(* The boot ends in kmain or in a message, whatever the machine can do: no   *)
(* wait of .attempt2 lasts.                                                  *)
BootEnds == <>(pc \in {"kmain", "halt"})
=============================================================================
