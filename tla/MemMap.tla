------------------------------ MODULE MemMap ------------------------------
(***************************************************************************)
(* The physical memory map (arch/mem.c) from the list the BIOS returns to  *)
(* the reserved regions handed to kmem_init, in the order mm_init           *)
(* (mm/init.c) makes the calls: mem_init, mem_alloc_region for the kernel's *)
(* stack and image, mem_alloc_amount for the buddy header.                  *)
(*                                                                         *)
(* The array is the sequence of its num_entries entries.  What is behind   *)
(* them is zero: the boot loader clears it and squash_mem_regions moves    *)
(* zeroed entries there.                                                   *)
(***************************************************************************)
EXTENDS Integers, SequencesExt, FiniteSetsExt

CONSTANTS
  BiosMaps,       \* the lists that INT 15h, EAX=E820h may return
  KernelEnds,     \* the possible ends of the kernel image
  FirstMb,        \* 0x100000
  PageSize,       \* PAGE_SIZE
  KernelStart,    \* the physical address the kernel image is loaded at
  StackSize,      \* STACK_SIZE
  SmallestBlock,  \* BUDDY_ALLOC_SMALLEST_BLOCK
  SlotSize        \* sizeof(buddy_slot_t)

VARIABLES
  mem_region,     \* the entries of mem_blocks
  phys_mem_stat,  \* total and free memory
  pc,             \* the next call of mm_init
  granted,        \* the regions returned by mem_alloc_region, by purpose
  bios,           \* the list the BIOS returned
  kernel_end,     \* kernel_virt_end_addr
  halted          \* a BUG_ON fired

vars == <<mem_region, phys_mem_stat, pc, granted, bios, kernel_end, halted>>

-----------------------------------------------------------------------------
EMPTY == 0
USABLE == 1
RESERVED == 2

Entry(base, length, type) == [base_addr |-> base, length |-> length, type |-> type]
Zero == Entry(0, 0, EMPTY)
End(e) == e.base_addr + e.length
BytesOf(e) == e.base_addr..(End(e) - 1)
Usable(s) == {i \in 1..Len(s) : s[i].type = USABLE}

round_up_po2(n, p) == ((n + p - 1) \div p) * p

TopBit == 30   \* bound: of the 64-bit powers of two, those TLC can represent
flp2(n) == Max({p \in {2^k : k \in 0..TopBit} : p <= n})

mem_is_entry_empty(e) == e.length = 0 /\ e.type = EMPTY

TotalLength(s) == FoldLeft(LAMBDA n, e : n + e.length, 0, s)

calc_phys_memory_stats(s) ==
  [avail |-> TotalLength(s), free |-> TotalLength(SelectSeq(s, LAMBDA e : e.type = USABLE))]

(* Faulty variants, here and below, show that the properties can fail: no    *)
(* sorting at all,                                                           *)
qsort_left_out(s) == {s}

(* All results of sorting s by base address: qsort shuffles first, so      *)
(* entries of the same base come out in any order.                         *)
qsort(s) ==
  LET Lowest(S) == {i \in S : \A j \in S : s[i].base_addr <= s[j].base_addr}
      sorted[S \in SUBSET (1..Len(s))] ==
        IF S = {} THEN {<<>>}
        ELSE UNION {{<<s[i]>> \o t : t \in sorted[S \ {i}]} : i \in Lowest(S)}
  IN  sorted[1..Len(s)]

(* One round of combine_mergeable_regions: the entry at ptr_1 against the  *)
(* one at p; a merged entry is zeroed, else ptr_1 moves on.                *)
CombineStep(st, p) ==
  LET e == st.s[st.ptr_1]
      rg_1 == IF e.type > USABLE THEN [e EXCEPT !.type = RESERVED] ELSE e
      rg_2 == st.s[p]
      merge == \/ End(rg_1) >= rg_2.base_addr /\ rg_1.type = rg_2.type
               \/ rg_1.type > USABLE /\ rg_2.type > USABLE
      kept == [st.s EXCEPT ![st.ptr_1] = rg_1]
  IN  IF merge
      THEN [st EXCEPT !.s = [kept EXCEPT ![st.ptr_1].length = @ + rg_2.length, ![p] = Zero]]
      ELSE [s |-> kept, ptr_1 |-> p]

(* ptr_2 runs up to and including num_entries, the zero behind the array. *)
combine_mergeable_regions(s) ==
  IF Len(s) < 2 THEN s
  ELSE SubSeq(FoldLeft(CombineStep, [s |-> Append(s, Zero), ptr_1 |-> 1],
                       [i \in 1..Len(s) |-> i + 1]).s, 1, Len(s))

squash_mem_regions(s) ==
  IF Len(s) < 2 THEN s ELSE SelectSeq(s, LAMBDA e : ~mem_is_entry_empty(e))

Tidy(s) == {squash_mem_regions(combine_mergeable_regions(t)) : t \in qsort(s)}
-----------------------------------------------------------------------------
Init ==
  /\ bios \in BiosMaps
  /\ kernel_end \in KernelEnds
  /\ mem_region = bios
  /\ phys_mem_stat = [avail |-> 0, free |-> 0]
  /\ pc = "mem_init"
  /\ granted = {}
  /\ halted = FALSE

(* one byte too few of low memory reserved, *)
mem_reserve_first_mb_short(s) ==
  Append([i \in 1..Len(s) |-> IF i < Len(s) /\ End(s[i]) - 1 < FirstMb THEN Zero ELSE s[i]],
         Entry(0, FirstMb - 1, RESERVED))

mem_reserve_first_mb(s) ==
  Append([i \in 1..Len(s) |-> IF i < Len(s) /\ End(s[i]) - 1 < FirstMb THEN Zero ELSE s[i]],
         Entry(0, FirstMb, RESERVED))

mem_init ==
  /\ pc = "mem_init" /\ ~halted
  /\ mem_region' \in Tidy(mem_reserve_first_mb(mem_region))
  /\ phys_mem_stat' = calc_phys_memory_stats(mem_region')
  /\ pc' = "K_STACK"
  /\ UNCHANGED <<granted, bios, kernel_end, halted>>

(* BUG_ON: the machine stops. *)
Bug == halted' = TRUE /\ UNCHANGED <<mem_region, phys_mem_stat, pc, granted, bios, kernel_end>>

(* The entries that hold the whole range and are usable. *)
Holding(start, end) ==
  {i \in Usable(mem_region) : start >= mem_region[i].base_addr /\ end <= End(mem_region[i])}

(* or the rest of a cut entry ending where it did before. *)
CarveKeepsEnd(s, i, start, end) ==
  IF start = s[i].base_addr THEN [s EXCEPT ![i] = Entry(end, @.length, USABLE)]
  ELSE IF end = End(s[i]) THEN [s EXCEPT ![i].length = @ - (end - start)]
  ELSE Append([s EXCEPT ![i].length = start - s[i].base_addr], Entry(end, End(s[i]) - end, USABLE))

(* The array after start..end is cut out of entry i. *)
Carve(s, i, start, end) ==
  LET req_length == end - start
  IN  IF start = s[i].base_addr
      THEN [s EXCEPT ![i] = Entry(end, @.length - req_length, USABLE)]
      ELSE IF end = End(s[i])
      THEN [s EXCEPT ![i].length = @ - req_length]
      ELSE Append([s EXCEPT ![i].length = start - s[i].base_addr],
                  Entry(end, End(s[i]) - end, USABLE))

mem_alloc_region(purpose, start, end) ==
  /\ end > start /\ Holding(start, end) # {}
  /\ granted' = granted \cup {[purpose |-> purpose, region |-> Entry(start, end - start, RESERVED)]}
  /\ LET i == Min(Holding(start, end))
         whole == start = mem_region[i].base_addr /\ end = End(mem_region[i])
     IN  \/ /\ whole
            /\ mem_region' = [mem_region EXCEPT ![i].type = RESERVED]
            /\ UNCHANGED phys_mem_stat
         \/ /\ ~whole
            /\ mem_region' \in Tidy(Append(Carve(mem_region, i, start, end),
                                           Entry(start, end - start, RESERVED)))
            /\ phys_mem_stat' = [phys_mem_stat EXCEPT !.free = @ - (end - start)]
  /\ UNCHANGED <<bios, kernel_end, halted>>

(* mem_alloc_amount: the first usable entry in which length bytes fit from *)
(* the first aligned address on.                                           *)
Eligible(length, align) ==
  {i \in Usable(mem_region) :
     round_up_po2(mem_region[i].base_addr, align) + length <= End(mem_region[i])}

mem_alloc_amount(purpose, length, align) ==
  /\ length > 0 /\ Eligible(length, align) # {}
  /\ LET base == mem_region[Min(Eligible(length, align))].base_addr
     IN  mem_alloc_region(purpose, base, base + length)
-----------------------------------------------------------------------------
(* mm_init *)

StackRange == <<KernelStart - StackSize, round_up_po2(KernelStart, PageSize)>>
ElfRange == <<KernelStart, round_up_po2(kernel_end, PageSize)>>

reserve_kernel_stack ==
  /\ pc = "K_STACK" /\ ~halted
  /\ mem_alloc_region("K_STACK", StackRange[1], StackRange[2])
  /\ pc' = "K_ELF"

reserve_kernel_elf ==
  /\ pc = "K_ELF" /\ ~halted
  /\ mem_alloc_region("K_ELF", ElfRange[1], ElfRange[2])
  /\ pc' = "K_BUDDY_H"

total_kern_space == flp2(phys_mem_stat.avail)
buddy_calc_header_space == 2 * (total_kern_space \div SmallestBlock) * SlotSize

buddy_allocator_setup ==
  /\ pc = "K_BUDDY_H" /\ ~halted
  /\ mem_alloc_amount("K_BUDDY_H", buddy_calc_header_space, PageSize)
  /\ pc' = "kmem_init"

SectionsBug ==
  /\ ~halted
  /\ \/ pc = "K_STACK" /\ Holding(StackRange[1], StackRange[2]) = {}
     \/ pc = "K_ELF" /\ Holding(ElfRange[1], ElfRange[2]) = {}
     \/ pc = "K_BUDDY_H" /\ Eligible(buddy_calc_header_space, PageSize) = {}
  /\ Bug

(* The reserved entries, as mem_list_entries passes them to kmem.c, and    *)
(* those of them that mem_proc_handler pre-allocates.                      *)
mem_list_entries == SelectSeq(mem_region, LAMBDA e : e.type = RESERVED)
PreAllocated ==
  UNION {BytesOf(e) : e \in {x \in ToSet(mem_list_entries) : End(x) <= total_kern_space}}

Finished == (pc = "kmem_init" \/ halted) /\ UNCHANGED vars

Next == mem_init \/ reserve_kernel_stack \/ reserve_kernel_elf \/ buddy_allocator_setup \/ SectionsBug \/ Finished

Spec == Init /\ [][Next]_vars
-----------------------------------------------------------------------------
Prepared == pc # "mem_init"
BiosBytes(types) == UNION {BytesOf(e) : e \in {x \in ToSet(bios) : x.type \in types}}
Content == 0..(total_kern_space - 1)
GrantedBytes == UNION {BytesOf(g.region) : g \in granted}

(* Sorting, merging, splitting and squashing never make memory usable that *)
(* the BIOS did not report as such, that lies in the first megabyte or     *)
(* that mem_alloc_region has handed out.                                   *)
UsableIsFree ==
  Prepared => \A i \in Usable(mem_region) :
    /\ BytesOf(mem_region[i]) \subseteq BiosBytes({USABLE}) \ GrantedBytes
    /\ mem_region[i].base_addr >= FirstMb

(* The map stays sorted and its entries apart, as the scan for the first   *)
(* fitting entry and the next merge assume, and splits and merges lose no  *)
(* byte: the entries add up to what calc_phys_memory_stats found at first.  *)
SortedApart ==
  Prepared =>
    /\ \A i \in 1..(Len(mem_region) - 1) : End(mem_region[i]) <= mem_region[i + 1].base_addr
    /\ TotalLength(mem_region) = phys_mem_stat.avail

(* When mm_init hands over to kmem_init, the kernel's stack and image, the *)
(* buddy header and the first megabyte are all in regions kmem_init        *)
(* pre-allocates: kmalloc cannot hand out the memory the kernel runs in.   *)
KernelCovered ==
  pc = "kmem_init" => (GrantedBytes \cup (0..(FirstMb - 1))) \cap Content \subseteq PreAllocated

(* kmem.c: "pre-allocate buddy entries with reserved spaced from e820 to   *)
(* avoid double alloc".  Every byte of the content region that the BIOS    *)
(* reserved is pre-allocated.                                              *)
ReservedCovered ==
  pc = "kmem_init" =>
    BiosBytes({2, 3, 4}) \cap Content \subseteq PreAllocated
=============================================================================
