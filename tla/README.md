# AlmeidaOS: TLA+ models and proofs

AlmeidaOS is a 64-bit x86 operating system in C and NASM. It boots from a BIOS,
builds its memory management from the BIOS memory map, enables the timer and the
keyboard, creates 99 user processes and schedules them round-robin; the processes
enter the kernel again by `syscall`. It has one processor, and interrupt handlers
and system calls run with interrupts off.

This directory keeps TLA+ models of its parts beside the code, the TLC
configurations that check them on small instances, and TLAPS proofs of the
properties that matter most for every size.

## The parts of the system

| Part | Code | Module |
| --- | --- | --- |
| Boot sector, loader, entry of the kernel | `src/boot`, `include/boot`, `kernel/start.asm` | `Boot` |
| Physical memory map, `mm_init` up to `kmem_init` | `arch/mem.c`, `mm/init.c` | `MemMap` |
| Buddy allocator and its start by `kmem_init` | `mm/buddy.c`, `mm/kmem.c` | `Buddy` |
| Contract of `kmalloc` and `kfree` | `mm/kmem.c` | `Allocator` |
| Page frames | `mm/pageframe.c` | `PageFrame` |
| Page tables, rest of `mm_init`, `kmalloc`'s mappings, address spaces of processes | `mm/page.c`, `mm/pagetable.c`, `mm/kmem.c`, `task/process.c` | `Paging` |
| `kmain` from the first unmasked interrupt, delay calibration | `main.c`, `time/delay.c` | `Scheduler` |
| Interrupt controller; timer, keyboard and spurious handlers | `interrupt`, `arch/pic.c`, `arch/pit.c`, `device/keyboard.c` | `Scheduler` |
| Scheduler, context switch, pids | `task` | `Scheduler` |
| Linked list of the run queue, and what it promises | `task/scheduler.c` | `TaskList`, `SchedulerOnList`, `RunQueue` |
| System calls, interrupt vectors, selectors | `syscall`, `interrupt/vectors.asm`, `gdt64.asm`, `src/libc` | `KernelEntry` |
| Ring buffer of the console, and what it promises | `lib/ringbuffer.c` | `RingBuffer`, `LastLines` |
| `printk`, screen and serial line | `lib/printk.c`, `video/vga_console.c`, `device/serial.c` | `Console` |
| `printk` interrupted by `printk` | the same | `PrintkRace` |
| CMOS clock and Unix time | `arch/cmos.c`, `time/rtc.c` | `Clock` |
| `qsort` with `shuffle` | `lib/qsort.c`, `lib/shuffle.c` | `Sort` |
| `vsnprintf`, numbers to text | `lib/vsnprintf.c`, `lib/string.c` | `Format` |
| Integer helpers | `lib/math` | `IntMath` |
| Core dump, CPU features | `debug`, `arch/cpu.c`, `arch/msr.c` | not modelled |

How they interact: the boot loader leaves the BIOS list in memory; `mem_init`
cleans it, `mm_init` takes the kernel's stack, image and buddy header out of it;
`kmem_init` pre-allocates every reserved region of it in the buddy tree; from then on
`kmalloc` serves page tables, processes, stacks and the scheduler's list nodes, and
maps what it hands out. `kmain` then opens the interrupt lines one by one, calibrates
the delay loop against the timer, and fills the run queue with interrupts off. The
first tick after that switches to the first task, and `kmain` never runs again.
Everything prints through one `printk`, also the handlers.

## Modules

### Boot

All steps from the first sector to the call of `kmain`, in real, protected and long
mode. Memory is the list `log` of the writes to it, so that what lies at an address is
what was written there last; `pc` is the routine that runs, `msg` the last message; of the
screen, rows and cursor are left out. The loop over the BIOS's memory map takes a step for each
entry, with `ebx` (the continuation value) and `di` (the buffer pointer, 16 bits) as the code
has them and the counter in memory. `env` is
what the machine can do: which extension, disk read, A20 method or processor feature
is missing. The keyboard controller is an actor of its own (`kbc`): it takes a command
from its input buffer and puts an answer in its output buffer, while the loader polls.

### MemMap

State: `mem_region` is the array up to `num_entries`, `phys_mem_stat` the two
counters, `granted` what `mem_alloc_region` has returned, `pc` the next call of
`mm_init`. `mem_alloc_region` is the whole function: cut the range out of its entry,
append it as reserved, then sort, merge and squash (`Tidy`), then the counter, with
the early return when the range is a whole entry. `qsort` shuffles its input, so
entries with the same base come out in any order: `mem_region'` is any element
of `Tidy`. `combine_mergeable_regions` runs to one entry behind the last, which is zero.

### Buddy, Allocator

State: `slot` is the header array, as a function of the node `<<order, index>>`; a
zeroed slot is `"EMPTY"`. `live` is what `buddy_alloc` has returned and nobody has
freed. `reserved`, `cur_pos` and `calls` are the progress of `kmem_init`: the list
`mem_list_entries` walks, and the stack of `buddy_pre_alloc` calls still to execute,
because that function calls itself twice. `halted` is a `BUG_ON`.

| Code | Definition |
| --- | --- |
| `buddy_init` | `Init` |
| `mem_proc_handler`, `kmem_init` | `mem_proc_handler`, `kmem_init` |
| `buddy_pre_alloc` | `PreAllocBreakUp`, `PreAllocDone`, `PreAllocOverlap`, `PreAllocFit`, `PreAllocBug`, one per way out of the function |
| `buddy_alloc` | `buddy_alloc`, and `AllocBug` for its `BUG_ON(!found)` |
| `buddy_free` with `find_slot_by_addr` | `buddy_free`, with the `BUG_ON`s as `Freeable` |
| `goto_porder_idx`, `buddy_calc_header_space` | the same names; `HeaderLayout` says that they place the pairs apart |

The loops that split a block down and merge buddies up are `SplitDown` and
`MergeUp`: they give the array after the whole loop. The code's loops look at one
slot of each order, on the path to one address, which is what `NodeAt` names.

`Allocator` is the contract: an allocation returns bytes that nobody has and that
are not set aside; a free gives back one allocation; the kernel may stop.
`KmallocContract` says that `Buddy` implements it, with the accepted reserved regions
as the bytes set aside.

### PageFrame, Paging

`mem` holds the page tables by the page they are stored in, `pgt` the table and the
frame lists of the kernel and of each process, `live` and `held` the blocks taken from the
allocator, `bug` the `BUG_ON` that fired. The C functions are operators on the record of
that memory (`page_alloc`, `paging_contiguous_map`, `page_free`, `kmalloc`, ...), and the
actions are the steps of `mm_init`, `create_process`, `launch_process` (a change of CR3) and the
`kmalloc` and `kfree` of any other code. `SpecFree` also has `page_free`, which nothing in
the kernel calls. The blocks `buddy_alloc` may choose are made deterministic: the lowest. Its
request is rounded up to a power of two, at most `2^MaxOrder` pages.

### Scheduler, TaskList, SchedulerOnList, RunQueue

`Scheduler` has three kinds of actors. `kmain` steps through `pc`. User tasks change
any of their registers (`user_step`). Devices latch requests (`Raise`), and the
controller delivers the open one with the highest priority when the processor
accepts interrupts. Every IDT entry is an interrupt gate, so a handler runs with interrupts off
and is one action, with all that it calls: `timer_interrupt` is the dispatch in
`interrupt_handler`, `pit_timer_handle_irq`, `scheduler_tick`, the end of interrupt,
`schedule` with the context switch, and the unmasking.

State: `cpu` is the context the processor executes, and inside a handler the frame on
the stack (`int_frame`). It has the registers in three parts (`regs`, `rip`, `rsp`) and the
interrupt flag, the part of `rflags` that matters here; `owner` says whose program it is, which stands for
`cs`, `ss` and the code behind `rip`. `ctx` is what the `task_struct_t`s hold, `space` the pair of
CR3 and TSS stack, `irr`, `isr` and `imr` the controller's registers. `work` is a history
variable: the context each task had when it last executed. It appears in no guard.

| Code | Definition |
| --- | --- |
| `kmain`, lines 53 to 85 | `kmain`, one disjunct per call |
| `calibrate_delay` | `calibrate_read`, `calibrate_wait`, `calibrate_loop`: between them a tick may come |
| `interrupt_handler` | `timer_interrupt`, `keyboard_interrupt`, `lpt1_interrupt`, `spurious_interrupt`; exceptions stop the kernel and are in `KernelEntry` |
| `schedule`, `process_context_swtich`, `launch_process` | `schedule`, `process_context_switch`, `launch_process` |

`jiffies` is read by `kmain` and written by a handler and is not volatile. The build
has no optimisation flag (`scripts/config.mk`), so the waiting loop reads memory each
time; the model says the same. With optimisation the loop could be compiled to one
that never ends.

`Scheduler` holds the run queue as a sequence and is shown to use it as the queue of
`RunQueue`. `TaskList` has the pointers: `move_end_of_list`, `scheduler_init`, `scheduler_add` and
the part of `schedule` that moves the head, with arbitrary former contents in fresh nodes.
`SchedulerOnList` runs the two in step: each action of `Scheduler` that touches the queue is
joined with what the code does to the list.

### KernelEntry

The registers, flags, selectors and stacks on the way into the kernel and back, for two
processes. `cpu.rip` names the code that runs next, so that what is popped as `rip` decides
where the processor goes on. The system call path is `syscall` (the instruction),
`syscall_entry`, `syscall_handler`, `syscall_exit` and `leave` (the end of libc's stub); the interrupt path
is `interrupt` (what the processor pushes), `vector_save_state`, `interrupt_handler` and
`vector_restore_state`. What `schedule` decides is left open: any tick may switch, if there is
another process to switch to. `sys_write` stops the kernel for a null argument (`BUG_ON`), and
otherwise returns the length; its `kmalloc`, `printk` and `kfree` leave no trace in the registers
and are in `Buddy`, `Paging` and `Console`.

### RingBuffer, LastLines, Console, PrintkRace

`RingBuffer` has `ringbuffer_put` and `ringbuffer_for_each`; `LastLines` is the log of the last
lines that it promises to be. `Console` is built on it: a `printk` is one step, that filters by
level, cuts the message into lines, puts them into the ring, draws the ring and sends the message
over the serial line. `PrintkRace` takes the same code one access to shared memory at a time (each read of head and
tail in the loop's condition is a step), while
the keyboard's and the spurious handler's `printk` may come between any two; such a handler runs with
interrupts off and is one step.

### Clock, Sort, Format, IntMath, MCLibrary

`Clock` is `cmos_read_rtc` reading register by register, against a chip that begins an
update at any time and then advances its registers one by one. `Sort` is `qsort`, one
comparison a step. `Format` is `vsnprintf`, one item a step; what a format stands for is
stated by `Meaning`, which does not look at its characters. `IntMath` is `round.c`, `ilog2.c` and `upow.c`
bit by bit, against the definitions that `Buddy` and `MemMap` use in their place.

These and `Console` share no state in the kernel. `MCLibrary` puts them side by side in one
specification, whose variable `call` says which of them runs.

### PagingTrees and the modules named Proofs

`BuddyProofs` has minima and maxima of sets of numbers, then the geometry of the tree of blocks, then the
invariant action by action. `SchedulerProofs` has the invariant of `Scheduler`, what follows from
it, and the linked list of `SchedulerOnList`. `PagingTrees` has what the operations of `Paging` do to
page tables and frame databases, stated of any memory they work on; `PagingProofs` has the
invariant of `Paging` and the steps of the kernel. `RingBufferProofs` shows that the ring is consistent and implements
`LastLines`, and what an interrupted `printk` does to it. `KernelEntryProofs` and `BootProofs` prove
the safety properties of `KernelEntry` and `Boot`, `LibraryProofs` those of `Sort` and, of `Clock`, that
a reading is one moment.

## Runs

| Run | Specification | Shows |
| --- | --- | --- |
| `buddy` | `MCBuddy` | ownership, shape of the header, end of the recursion, contract of `kmalloc`, over every sequence of calls |
| `memmap` | `MCMemMap` | soundness of the map through every step of `mm_init`, and that the kernel's own memory reaches `kmem_init` as reserved |
| `memmap_qemu` | `MCMemMap` | finding: merging reserved regions across a hole loses the end of the second |
| `sched` | `MCScheduler` | contexts, order of the tasks, controller and time slices under every interleaving |
| `sched_live` | `SchedulerOnList` | the linked list is the queue; the boot ends and every task runs again and again |
| `paging` | `MCPaging` | every address space shows what it should, while processes are created and memory is allocated and freed |
| `paging_free` | `MCPaging` | finding: `page_free` releases tables that are still needed |
| `kernel_entry` | `MCKernelEntry` | registers, flags, selectors and frames through system calls, interrupts and task switches |
| `printk_race` | `MCPrintkRace` | what an interrupted `printk` can and cannot do |
| `printk_race_return` | `MCPrintkRace` | finding: an interrupted `printk` may never return |
| `boot` | `MCBoot` | the loader on every machine: nothing is overwritten before its use, it stops only for a reason, it hands over all the kernel needs |
| `library` | `MCLibrary` | `qsort`, `vsnprintf`, integer helpers, uninterrupted `printk`, and the reading of the clock |

`buddy`. `HeaderLayout`: the slots in use have places of their own in the flat header
array. `LiveDisjoint`: live allocations never overlap. `Canonical`: the header depends
on the used blocks alone, so free buddies are merged, nothing leaks and nothing stale
stays. `HaltsOnlyWhenFull`: after the boot, a call of `buddy_alloc` stops the kernel
only when every aligned block of the order of that very request has memory in use, and
`buddy_free` of a live address never does. `KmemInitReturns`: the recursion ends.
`KmallocContract`: refinement of `Allocator`. `IInv`: the inductive invariant of the
proofs; it contains the type of the state, that no nested `buddy_pre_alloc` call leaves
the content region (`CallsFit`), where its loop would not end, and that accepted reserved
regions stay untouched.

`memmap`. `UsableIsFree`: nothing becomes usable that the BIOS did not report so, or
that was handed out. `SortedApart`: entries stay sorted and apart and add up to the
total computed at first. `KernelCovered`: when `kmem_init` is called, stack, image,
buddy header and first megabyte lie in regions it pre-allocates.

`sched`. `ContextsKept`: a task that runs has the registers it had when it last ran, and
a task that waits has them saved. `RoundRobin`: the queue has every task once, in cyclic
order, the running one at its end. `TimeSlice`: a running task is replaced only at a
multiple of the slice. `QueueContract`: refinement of `RunQueue`. `IInv`: the inductive
invariant, from which the proofs also derive `SpaceOfCurr` (CR3, the TSS stack and the
executing program belong to the same task), `LinesOpen` (when an interrupt can arrive,
none is in service and every enabled line is open) and `NeverHalts` (no `BUG_ON` fires, though
the timer ticks before the queue exists). `sched_live`: `ListIsQueue`, the list read from
its head is the queue, and `AllRun`.

`paging`. `FramesAreTables`: the frames in use are the tables reachable from the root,
each once. `LiveMapped`: what `kmalloc` gave out is mapped in every address space, also in
those of processes created before. `UserHalfExact`: a process sees its text, its own stack
and nothing else below the kernel's half, and its frames suffice. `EntriesKept`: no step
changes a present entry, which is why the code needs no TLB invalidation.

`kernel_entry`. `SelectorsFit`: the selectors that SYSCALL and SYSRET compute select
descriptors of the right kind and privilege. `OwnProcessor`: a process that executes finds its
own registers, flags and selectors, and after a call the result in `rax`, whatever came between; the stack
pointer is excepted between SYSRET and the end of libc's stub (see below).
`FlagsInC`: C code runs with the direction flag clear and interrupts off. `FrameUniform`: the
handler finds every field of the frame in its place, for vectors with and without error code.

`printk_race`. Unless a handler prints while the interrupted `printk` is inside
`ringbuffer_put`, head and tail of the ring stay as `ringbuffer_for_each` needs them and nothing
is written behind the array (`WholeUnlessPutHit`), and the interrupted `printk` returns (`ReturnsUnlessPutHit`).

`boot`. `CodeIntact`: what the processor is about to execute is what was loaded there.
`HaltsForAReason`: the loader stops only with a message that is true of the machine.
`Handover`: `kmain` is called in long mode with kernel, user program, every entry of the memory
map and their number, and page tables in place, A20 on, the keyboard enabled. `BootEnds`: the loader does not hang.

`library`. `ScansInside`, `Sorted`: `qsort` stays inside its part of the array and
sorts. `Rendered`: the output of `vsnprintf` is what the format stands for. `HelpersExact`: the
helpers agree with their definitions. `ScreenShowsLog`: rows of the screen are lines of the
log and blanks. `ScreenIsTailOfWire`: the ring holds the last lines that went over the serial line.
`ReadingIsAMoment`: what `cmos_read_rtc` reads are the registers of one moment of the chip, and it
returns that moment but for the hours it misreads (see below). `UnixTimeExact`:
its Unix time is that of the calendar. `CallsReturn`: `qsort` and the clock readings return.

### Bounds

`buddy`: sixteen bytes in blocks of two, four orders, so that a block can be split three
times and merged back three times; requests of 1, 2, 3, 5 and 8 bytes hit every
order that a request can have, with and without rounding. The eight reserved lists have
odd lengths, regions across the middle of a block, a region past the end, overlapping
and repeated ones. Byte 0 is reserved in every list, as `mem_reserve_first_mb` makes it;
`buddy_free` takes the address 0 for a null pointer.

`memmap`: the first megabyte has 4 bytes, a page 2, the smallest block 16. Above
it are five ranges, each usable, reserved, ACPI or absent, listed in ascending order or with the
last first. That gives entries that touch and that do not, requests at the start,
in the middle, at the end and equal to an entry, and machines without room for the
header. Three restrictions keep known deviations out of the passing run: usable memory
starts where another region ends (a hole before it may hide it behind a merged
reserved region), the last BIOS entry is not low memory, and usable regions start at a page.

`sched`: three tasks, the least number for which a cyclic order can be wrong; slices of
two ticks; registers of two values, so that a register that is not saved shows; two
doublings in the calibration, so that it ends both ways. The counter wraps at an odd
number, as 2^64 is no multiple of 10 either. `sched_live` has registers of one value,
since its properties do not depend on them, a counter that wraps at five, so that whole
and shortened slices alternate, and any former contents of the nodes.

`paging`: eight entries a table instead of 512, pages of 32 bytes, 64 pages of memory, which are
the largest block of the allocator (`MaxOrder` is 6). All
four levels are used, tables of the last level fill up, two processes are created, and
requests of less than a page, of three and of eight pages come before, between and after. At 32 pages the kernel's
frames run out (see below).

`kernel_entry`: two processes and three ticks, so that a process is switched away inside its
stub and comes back; vectors with and without error code, timer, keyboard and spurious.
`printk_race`: a ring of three lines in every fill level, four interrupts. `boot`: 1, 3 and
102 memory regions, of which the last fills the space in front of
the kernel to the byte; addresses and sizes are the real ones.

`library`: arrays of up to five elements with three keys and every outcome of the shuffle; two
format items of some sixty, ints of 5 and longs of 8 bits; words of 8 bits; four calls of `printk` with
five messages on a screen of four columns and four rows, of which the ring fills three; the 1st and the 25th of
every month, and moments before second, minute, hour, day, month and year roll over, in BCD and binary, in 12- and 24-hour mode, and two updates of the chip.

### Fairness

`KmemInitReturns` assumes weak fairness of `kmem_init`: the boot path runs on the only
processor, and no interrupt is unmasked before `mm_init` has returned.

`AllRun` assumes weak fairness of the timer's request, since the chip runs in rate
generator mode and never stops, and of its delivery, since line 0 has the highest
priority. It assumes strong fairness of `kmain`: while it waits for a tick, its loop reads
`jiffies` far more often than the counter wraps. Nothing is assumed of the other lines or of user
programs.

`ReturnsUnlessPutHit` and `PrintkReturns` assume weak fairness of the interrupted `printk`: only
finitely many interrupts come, and every handler returns. `BootEnds` assumes it of the loader's code and of the keyboard
controller. `CallsReturn` assumes it of the call, and that the chip completes an update it began;
the number of updates during a reading is bounded, as one second is long against six register reads.
No other property needs fairness.

## Proofs

`BuddyProofs` proves, for every `MinOrder`, `MaxOrder`, set of requests and list of
reserved regions:

| Theorem | Statement |
| --- | --- |
| `Invariance` | `Spec => []IInv` |
| `TypeCorrect` | `Spec => []TypeOK` |
| `CallsAlwaysFit` | `Spec => []CallsFit` |
| `NoDoubleAlloc` | `Spec => []LiveDisjoint` |
| `ReservedNeverAllocated` | `Spec => []PreAllocatedKept` |
| `Refinement` | `Spec => KmallocContract` |
| `HeaderFits` | `Spec => []HeaderLayout` |
| `AlwaysCanonical` | `Spec => []Canonical` |
| `StopsOnlyWhenFull` | `Spec => HaltsOnlyWhenFull` |

Assumptions, all in `Buddy` and evaluated by TLC: the orders are naturals; requests are
between one byte and the content length (`buddy_alloc` halts on others); regions are not
empty and start at a multiple of the smallest block; byte 0 is in an accepted region, as
`mem_reserve_first_mb` makes it; and the laws of powers of two
that the provers cannot derive (`2^k` is positive, `2^k = 2^j * 2^(k-j)`).

`LiveDisjoint` is not inductive: that two allocations are apart follows from their
being different used leaves of a tree. `BlocksInv`, the first part of `IInv`, says so. `Rooted`: every slot in use
lies below SPLIT slots only, so two used blocks are never nested. `LiveUsed`: each
live allocation starts a used block large enough for it. `ReservedHeld`: each byte
of an accepted region is in a used block that nothing live is in, or in a call that is still
to be executed. `CallsFit` makes the descent of `buddy_pre_alloc` find its block. A
split keeps the tree rooted because it only writes below a free node, and a merge because
what it removes is below the node it frees; the section of
`BuddyProofs` on the tree has both facts.

`Canonical` looks at the array between calls only and is not inductive either: while
`buddy_pre_alloc` is on its way down, there are SPLIT slots with nothing used below. The second part of
`IInv` allows for that. `Filled`: the root and both halves of a SPLIT slot are in use.
`SplitInUse`: a SPLIT slot has a used block below it, or a pending call starts in it. With no
call pending the two determine each slot from the used ones. A step of `buddy_pre_alloc` keeps
`SplitInUse` because it splits only towards the base of its call, and leaves either a used block or another call there.
A merge keeps it because it stops only at a sibling that is not free, so that what is SPLIT above
has a used block on the side of that sibling. `HaltsOnlyWhenFull` follows: `buddy_free` finds the slot of
every live pointer, which is not 0 since byte 0 is reserved, and `buddy_alloc` finds no slot only if each block of
that order is used, has a used block below, or lies in a used one. Where a paper proof would go by
induction over the orders, these take the least or greatest order with a property (`MinFact`, `MaxFact`).

`SchedulerProofs` proves, for every number of tasks, slice, counter width and number of
register values:

| Theorem | Statement |
| --- | --- |
| `Invariance` | `Spec => []IInv` |
| `ContextsAlwaysKept` | `Spec => []ContextsKept` |
| `SpaceAlwaysOfCurr` | `Spec => []SpaceOfCurr` |
| `AlwaysRoundRobin` | `Spec => []RoundRobin` |
| `LinesAlwaysOpen` | `Spec => []LinesOpen` |
| `BugsNeverFire` | `Spec => []NeverHalts` |
| `SliceKept` | `Spec => TimeSlice` |
| `QueueRefinement` | `Spec => QueueContract` |
| `ListIsAlwaysQueue` | `ListSpec => []ListIsQueue` (of `SchedulerOnList`) |

The only assumption is that the constants are numbers, positive where they must be. The
invariant adds what each step of `kmain` has achieved. The queue is `1, 2, 3, ...` while
it is filled, and interrupts are off then, so no tick can see it half full. Afterwards
the last task is followed by the first, which makes the cyclic order survive a rotation.
The saved contexts belong to their tasks, which gives `SpaceOfCurr` after a switch. And
`need_resched` survives a handler only if there is a single task, which gives `TimeSlice`.

For the list, the invariant adds that no task is queued twice. Then the walk of
`move_end_of_list` to the node without a successor ends at the last task of the queue (`TailFrom` is a
recursive function; the proof takes the least step at which it would leave the queue), and linking a node
behind it changes no other link. That `ListIsQueue` also says where the list ends is what makes the rotation in
`schedule` safe: the node it moves still points into the list until it is cleared.

`RingBufferProofs` proves, for every size of the ring from two on and every set of items:

| Theorem | Statement |
| --- | --- |
| `RingSafe` | `RingSpec => []RingOK`: empty, filling up from slot 0, or full with the head right after the tail |
| `RingImplementsLog` | `RingSpec => Implements`: the items visited from head to tail are the log of `LastLines` |
| `OnlyPutIsCritical` | `Spec => []WholeUnlessPutHit` (of `PrintkRace`) |

`RingOK` is inductive as it stands; the refinement needs it to know which slot the next item
replaces, namely none or the oldest. For `PrintkRace` the invariant (`RaceInv`) says, while no handler has
printed inside `ringbuffer_put`, what head, tail and the value read last are at each access of
that function; a handler's own put, which is not interrupted, keeps the ring whole. The bound on the
number of interrupts plays no part.

`KernelEntryProofs` proves, for every number of processes, set of vectors and length of a
tick:

| Theorem | Statement |
| --- | --- |
| `SelectorsAlwaysFit` | `Spec => []SelectorsFit` |
| `ProcessorIsOwn` | `Spec => []OwnProcessor` |
| `FlagsAreClearInC` | `Spec => []FlagsInC` |
| `FrameIsUniform` | `Spec => []FrameUniform` |

Assumed: processes are numbered from 1, and only vectors with a gate are raised. `IInv` says for each place
`cpu.rip` can be at where the registers of the interrupted process are: in the processor; for a system call on
the stack at 0, fifteen words in the order of `pushaq`; after a gate five or six words on the
process's kernel stack; in the handler a frame of 27 words. There they agree with what the process
expects (`want`), except for the stack pointer before `leave`, and so do the saved contexts of all
others. Lemmas about `Struct` find a member of the C structures by its place on the stack, and about `Stored`
that what `schedule` stores into the frame is what the pops take out.

`BootProofs` proves, for every machine, depth of the stacks, number of memory regions and place of
`.bss`:

| Theorem | Statement |
| --- | --- |
| `CodeAlwaysIntact` | `Spec => []CodeIntact` |
| `HaltsOnlyForAReason` | `Spec => []HaltsForAReason` |
| `HandoverComplete` | `Spec => []Handover` |

Assumed: the memory map ends before the kernel, stacks are shallower than 31 KiB, and `.bss` is not below the moved
kernel. The invariant has three parts besides the types. `Memory`: from the step on that fills it to its
last use, each region (sector, loader, map, both parts of the kernel, user program, page tables, `.bss`) has a
write in `log` that no later write overlaps (`Kept`); so a step is checked by comparing the bounds of what it writes with
those of the regions, and `KeptHolds` turns a kept region into what is read from it. In the loop over the memory map
`Stored` says that the entries so far are kept, each in its slot, and that the counter in memory is one behind them
(`CounterIn`); slots do not overlap (`SlotsApart`), so a new entry disturbs none. `MapIn` is the same of the complete map. The kernel is read in two parts, of
127 and 25 blocks; `Memory` has the registers in between, and `KernelHolds` joins the parts. `Gate`: before each command of
`.attempt2` the keyboard controller is in one of two states, as it has taken the last byte or not, and an attempt that
failed could not have worked. That the line is never switched off again gives A20 at the handover.
`HaltsForAReason` is inductive together with `Gate`.

`PagingProofs` proves, for every size of memory, of tables and of pages, every place of the kernel, of text
and of stack, every number of processes and every sequence of requests:

| Theorem | Statement |
| --- | --- |
| `EntriesNeverReplaced` | `Spec => EntriesKept` |
| `LiveMemoryMapped` | `Spec => []LiveMapped` |
| `FramesExact` | `Spec => []FramesAreTables` |

Assumed (`PagingAssumption`): a table has an even number of entries, more than two; the kernel's image and the allocator's header
lie in memory; memory is no larger than the largest block and than what one entry of the root covers;
text and stack of a process end below the kernel's half. Nothing is assumed of the number of frames: where they run
out, `page_alloc` stops the kernel, as in the code.

None of the three is inductive. That an entry is found again on the next walk needs that no two paths share a
table, and that a new table is empty needs that no free frame is in use. The proof gives each table
a label, `<<t, level, prefix>>`: its address space, its level, and the addresses it covers. `Tree` says that labels
exist such that no two tables have the same one (`Labels`), that each present entry leads to the
table labelled one level down and, in a last table of the kernel, maps the page that `va` puts there
(`Down`), that each table but a root is pointed to (`Parents`), and that a frame database has the tables of its address
space as used and empty tables as free (`Lists`). A step of `Descend` labels the frame it takes; all else
stays. The induction over the loop of `paging_contiguous_map` takes the least turn that would break the claim.

`PagingInv` adds three things. `Homes`: the tables lie in blocks that nobody frees, so that `kmalloc` never returns the
page of a table and `paging_init` clears none. `Mappings`: which blocks are mapped after each step of `mm_init`, and
from then on all live ones, in the kernel's tables; and each root has the same entry for physical memory (`SameTop`). The last is why a
process sees what `kmalloc` maps later: memory fits in one entry of the root, which is present before the first process copies it and which
`page_alloc` never replaces. `Order`: the kernel's tables are in use only after `mm_init`.

`LibraryProofs` proves, for arrays of every length with any integers as keys, and for a clock that starts at any moment of the
century in any mode:

| Theorem | Statement |
| --- | --- |
| `AlwaysSorted` | `SortSpec => []Sorted` |
| `ScansStayInside` | `SortSpec => []ScansInside` |
| `ReadsOneMoment` | `ClockSpec => []ReadingIsAMoment` |

`Sorted`, `ScansInside` and `ReadingIsAMoment` are those of `Sort` and `Clock`; the run `library` checks them through the definitions
of the same names in `MCLibrary`, which add the call they are about. The assumptions are in the theorems: the longest array has a length, keys are integers; the chip
starts at a date of the calendar (`Moment`), and less than a minute of updates falls into the two calls (`MaxUpdates` is below 60: after a minute the
second is the same again, and the check at the end of the loop would not notice).

For `qsort`, `SortInv` says that the calls still to be made are for disjoint parts of the array, and that any two elements
are in order unless one call is for both (`InOrder`); with no call left the array is sorted. Inside `partition`
it says what the scans have passed: nothing above the pivot left of `i`, nothing below it from `j` on. That is also what
stops the scan from the right at the pivot itself, and that from the left at `hi`. An exchange inside a part keeps `InOrder` since
no other call is for any element of it.

For the clock, `ClockInv` relates each register read to the number of updates that had advanced it by then (`ReadSince`):
the seconds are read first and compared last, so if they are equal, no update advanced them in between, because fewer than 60
did; and since an update advances the seconds before all others, and does not begin to between the test of the
update bit and the first read, every other register read is of the same moment.

Model-checked only: liveness under fairness, which the provers do not do
(`KmemInitReturns`, `AllRun`, `ReturnsUnlessPutHit`, `BootEnds`, `CallsReturn`); what is defined by folds,
recursive operators or bit operations, which would need induction over data: the properties of `MemMap`, `Console`, `Format`
and `IntMath`, and `UnixTimeExact`; and `UserHalfExact` of `Paging`, which
depends on how text and stack lie in the tables (that four frames are enough is true of the addresses that
`create_process` uses, not of all).

## Findings

1. `mem.c:104` merges two reserved regions across a hole by adding their lengths. The
   merged region ends before the second one did, or beyond the content region,
   where `kmem_init` skips it. `memmap_qemu` has the map of a PC under QEMU.
2. `page.c:148`: `is_pagetable_empty` reads the first byte 512 times, so `page_free` gives back
   tables that other pages need. `paging_free`. Nothing calls `page_free` yet.
3. `ringbuffer.c:27`: `tail` is tested at line 25 and incremented here. If a handler's `printk`
   puts the last line that fits in between, `tail` becomes the size of the ring: the line is copied
   behind the array (line 33), and `idx <= tail` (line 46) is true of every index, so the loop of
   `ringbuffer_for_each` does not end. `printk_race_return`.

Further deviations met while modelling. The models have the code's behaviour; a property
excepts the case, or the instance avoids it, as said:

| Code | What it does | Where it is excepted |
| --- | --- | --- |
| `mem.c:161` | the loop that drops low memory does not reach the last BIOS entry | `MCBiosMaps` |
| `mem.c:306` | an aligned start is computed and the unaligned one is used | `MCBiosMaps` |
| `page.c:44` | the upper levels are not rounded up in the estimate of tables; the kernel's frames can run out | `Pages` in `MCPaging.cfg` |
| `syscall.asm:48` | `rsp` is popped from the kernel's stack although it was pushed on the process's; libc's stub restores it from `rbp` | `OwnProcessor` |
| `vga_console.c:88` | an empty line shows what the slot held behind the NUL | `ScreenShowsLog` |
| `vga_console.c:55` | a handler's `printk` during a drawing lets the row pass the last one, which `update_cursor` does not clip | no property about the cursor |
| `serial.c:31` | a chip that fails the self test is used all the same | none needed: `initialised` is true in both cases |
| `cmos.c:80` | `BCD_TO_BIN` counts the PM bit of a 12-hour chip in BCD as eight tens, so the hours of the afternoon are wrong | `ReadingIsAMoment` (`Misread`) |
| `cmos.c:87` | noon and midnight of a 12-hour chip are taken for each other | `ReadingIsAMoment` (`Misread`) |
| `rtc.c:77` | from the 26th on, the milliseconds of the days overflow an int | `UnixTimeExact` |
| `vsnprintf.c:248` | the case label is the `||` of four constants, so a precision does not pad numbers | `Supported` |
| `string.c:123` | the absolute value of a long long is taken as an int | `Supported` |
| `vsnprintf.c:348` | a type letter right after a conversion makes it an error | `Supported` |
| `vsnprintf.c:101` | output longer than the buffer: the length returned, and `buf_size - read_chars`, run past it | `Rendered` |
| `second_stage_loader.asm:400` | the entries of the memory map are stored without a bound | `BootAssumption`: at most 102 |
| `protectedmode.asm:341` | the identity map of 64 GiB repeats the first 4, as addresses are added in 32 bits | `Handover` looks at the first 4 MiB |
| `realmode.asm:101` | the upper half of `eax` is lost, though the comment says no register is | harmless for the addresses in use |
| `rand.c:34` | `RAND_MOD` has no parentheses | `rand` is any number in `Sort` |

## Not modelled

- Core dump and CPU features: straight-line reads and output, after the kernel has
  stopped or before anything depends on them.
- `pic_init` and `pit_init`: fixed sequences of port writes, whose effect (vectors, rate) the models start from. `ndelay` and `udelay`: a
  division and a loop.
- Exhaustion of the pid table: 99 processes are created and none ends, so the 1024 pids are never used up.
- `rand` and `extract_bit_chunk`: pure arithmetic. `rand`'s range is all that `shuffle` needs.
- String functions that nothing calls, and those of libc, which only build the text a process prints.
- The capacity of the array of memory regions (102), which BIOS lists do not approach.
- Region bases that are no multiple of the smallest block: `buddy_pre_alloc` rounds the two halves to
  overlapping ranges and does not end on them; `mem.c` makes regions page by page.
- Flags of page table entries other than present and user, caches and TLB: `EntriesKept` is why the last does not matter.
- The TSS descriptor and port-level details of VGA and serial chip.
