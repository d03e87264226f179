------------------------------- MODULE Paging -------------------------------
(***************************************************************************)
(* Virtual memory: the four-level page tables of mm/page.c, the frames     *)
(* they are made of, the kernel's table that mm_init builds and kmalloc     *)
(* extends, and the table that create_process builds for every process.    *)
(*                                                                         *)
(* Addresses are physical bytes, or numbers of virtual pages.  A page      *)
(* table is a function from indexes to entries, an entry <<>> or           *)
(* <<page, user>>: the table or the page it points to, and its             *)
(* user/supervisor bit.  An operation of the C code is an operator on a     *)
(* record s of the memory it works on, and `bug' says which BUG_ON stopped  *)
(* it.  buddy_alloc is the contract of module Buddy, made deterministic:   *)
(* the lowest block that is free.                                          *)
(***************************************************************************)
EXTENDS PageFrame, FiniteSetsExt

CONSTANTS
  Fanout,       \* entries of a page table (512)
  PageSize,     \* PAGE_SIZE (4096)
  NodeSize,     \* sizeof(struct pageframe_t) (16)
  Pages,        \* total_kern_space, in pages
  MaxOrder,     \* the order of the allocator's largest block, in pages
  KernelEnd,    \* kernel_virt_end_addr, in pages
  HeaderPage,   \* where the header of the buddy allocator lies, in pages
  UserSpace,    \* fini_addr - ini_addr of a process (10 MB)
  TextPage,     \* the user program, in pages of physical memory
  TextSize,     \* elf_prog_size
  TextVirt, StackVirt,  \* where a process sees its text and its stack, in pages
  StackSize,    \* STACK_SIZE
  Procs,        \* bound: the processes that are created
  Requests,     \* bound: the sizes other code of the kernel asks kmalloc for
  MaxLive       \* bound: the blocks other code of the kernel holds at a time

VARIABLES
  mem,     \* the page tables, by the page they are stored in
  pgt,     \* pagetable_t of the kernel and of the processes
  live,    \* <<page, bytes>> handed out by buddy_alloc, and what was reserved at boot
  held,    \* the blocks of `live' that are held by other code of the kernel
  cr3,
  pc,      \* the next step of mm_init
  bug      \* the BUG_ON that stopped the kernel, or ""

vars == <<mem, pgt, live, held, cr3, pc, bug>>

Kernel == 0
Loader == -1                             \* the early tables: they map everything
Empty == <<>>
Index == 0..(Fanout - 1)
NoTable == [i \in Index |-> Empty]
UserHalf == 0..(Fanout \div 2 - 1)
-----------------------------------------------------------------------------
(* Addresses *)

Up(v) == v \div Fanout
Idx(level, v) == (<<v, Up(v), Up(Up(v)), Up(Up(Up(v)))>>)[level] % Fanout
va(page) == (Fanout \div 2) * (Fanout * Fanout * Fanout) + page
PagesOf(bytes) == (bytes + PageSize - 1) \div PageSize
clp2(n) == Min({k \in {2^i : i \in 0..MaxOrder} : k >= n})
Taken(blocks) == UNION {b[1]..(b[1] + clp2(PagesOf(b[2])) - 1) : b \in blocks}

ASSUME PagingAssumption ==
  /\ {Fanout, PageSize, NodeSize, Pages, MaxOrder, KernelEnd, HeaderPage, UserSpace, TextPage, TextSize,
      TextVirt, StackVirt, StackSize} \subseteq Nat
  /\ Requests \subseteq Nat /\ Kernel \notin Procs /\ Loader \notin Procs
  /\ Fanout > 2 /\ Fanout % 2 = 0 /\ PageSize > 0 /\ NodeSize > 0
  /\ KernelEnd <= Pages /\ HeaderPage < Pages /\ Pages <= 2^MaxOrder
  /\ Pages <= Fanout * Fanout * Fanout                   \* physical memory fits in one PML4 entry
  /\ TextVirt + TextSize \div PageSize < va(0)           \* a process has the lower half
  /\ StackVirt + StackSize \div PageSize < va(0)

(* what the processor finds for virtual page v: the entry of the last table, *)
(* with the user bit set only if it is set on every level                    *)
Follow(tables, e, level, v) ==
  LET n == IF e = Empty THEN Empty ELSE tables[e[1]][Idx(level, v)]
  IN  IF n = Empty THEN Empty ELSE <<n[1], e[2] /\ n[2]>>

Translate(tables, root, v) ==
  LET pdp == Follow(tables, <<root, TRUE>>, 4, v)
      pd  == Follow(tables, pdp, 3, v)
      pt  == Follow(tables, pd, 2, v)
  IN  Follow(tables, pt, 1, v)
-----------------------------------------------------------------------------
(* Page tables *)

paging_calc_space_needed(bytes) ==
  LET span == Fanout * PageSize
      pte_tables == bytes \div span + (IF bytes % span # 0 THEN 1 ELSE 0)
      pd_tables  == LET n == pte_tables \div Fanout IN IF n % Fanout # 0 THEN n + 1 ELSE n
      pdp_tables == LET n == pd_tables \div Fanout IN IF n % Fanout # 0 THEN n + 1 ELSE n
  IN  (1 + pdp_tables + pd_tables + pte_tables) * PageSize

pageframe_calc_space_needed(bytes) == (bytes \div PageSize) * NodeSize

paging_init(s, t, page, bytes, pfdb_bytes) ==
  LET n == pfdb_bytes \div NodeSize
      pfdb == pageframe_init([i \in 1..n |-> page + i - 1])
      zeroed == page..(page + bytes \div PageSize - 1)
  IN  IF s.bug # "" THEN s
      ELSE [s EXCEPT !.mem = [f \in DOMAIN @ \cup zeroed |-> IF f \in zeroed THEN NoTable ELSE @[f]],
                     !.pgt = [u \in DOMAIN @ \cup {t} |->
                                IF u = t THEN [root |-> Head(pfdb.free), pfdb |-> pageframe_alloc(pfdb)]
                                ELSE @[u]]]

(* one level of page_alloc: follow the entry, after allocating the table it *)
(* is to point to                                                           *)
Descend(s, t, v, user, level) ==
  LET e == s.mem[s.at][Idx(level, v)]
      pfdb == s.pgt[t].pfdb
  IN  IF s.bug # "" THEN s
      ELSE IF e # Empty THEN [s EXCEPT !.at = e[1]]
      ELSE IF pfdb.free = <<>> THEN [s EXCEPT !.bug = IF t = Kernel THEN "kernel_frames" ELSE "process_frames"]
      ELSE [s EXCEPT !.mem[s.at][Idx(level, v)] = <<Head(pfdb.free), user>>,
                     !.pgt[t].pfdb = pageframe_alloc(pfdb),
                     !.at = Head(pfdb.free)]

(* from the root to the table of the last level *)
Walk(s, t, v, user) ==
  IF s.bug # "" THEN s
  ELSE Descend(Descend(Descend([s EXCEPT !.at = s.pgt[t].root], t, v, user, 4), t, v, user, 3), t, v, user, 2)

(* a plausible bug: the entry is written whatever is there *)
page_alloc_overwrite(s, t, v, page, user) ==
  LET w == Walk(s, t, v, user)
  IN  IF w.bug # "" THEN w ELSE [w EXCEPT !.mem[w.at][Idx(1, v)] = <<page, user>>]

(* an entry that is there already is left alone *)
page_alloc(s, t, v, page, user) ==
  LET w == Walk(s, t, v, user)
  IN  IF w.bug # "" \/ w.mem[w.at][Idx(1, v)] # Empty THEN w
      ELSE [w EXCEPT !.mem[w.at][Idx(1, v)] = <<page, user>>]

(* from p_start to p_end, both included *)
paging_contiguous_map(s, t, p_start, p_end, v_start, user) ==
  LET n == (p_end - p_start) \div PageSize + 1
      mapped[k \in 0..n] ==
        IF k = 0 THEN s
        ELSE page_alloc(mapped[k - 1], t, v_start + (k - 1), p_start \div PageSize + (k - 1), user)
  IN  mapped[n]

map_kernel(s, page, bytes) ==
  paging_contiguous_map(s, Kernel, page * PageSize, page * PageSize + bytes, va(page), FALSE)

(* Memory of the kernel *)

kmalloc_raw(s, bytes) ==
  LET n == clp2(PagesOf(bytes))
      room == {p \in 0..(Pages - n) : p % n = 0 /\ p..(p + n - 1) \cap Taken(s.live) = {}}
  IN  IF s.bug # "" THEN s
      ELSE IF bytes = 0 \/ bytes > Pages * PageSize \/ room = {} THEN [s EXCEPT !.bug = "memory"]
      ELSE [s EXCEPT !.ptr = Min(room), !.live = @ \cup {<<Min(room), bytes>>}]

(* kmalloc without KMEM_RAW_ALLOC: the block is mapped as well.  Its page is *)
(* in ptr                                                                    *)
kmalloc(s, bytes) ==
  LET a == kmalloc_raw(s, bytes)
  IN  IF a.bug # "" THEN a ELSE map_kernel(a, a.ptr, bytes)

Now == [mem |-> mem, pgt |-> pgt, live |-> live, bug |-> bug, at |-> 0, ptr |-> 0]

Become(s) == mem' = s.mem /\ pgt' = s.pgt /\ live' = s.live /\ bug' = s.bug
-----------------------------------------------------------------------------
(* Operations; \E s \in {e} names the memory after a call *)

Init ==
  /\ mem = << >> /\ pgt = << >> /\ held = {}
  /\ live = {<<0, KernelEnd * PageSize>>, <<HeaderPage, PageSize>>}
  /\ cr3 = Loader /\ pc = "paging_setup" /\ bug = ""

paging_setup ==
  LET bytes == paging_calc_space_needed(Pages * PageSize)
      pfdb_bytes == pageframe_calc_space_needed(bytes)
  IN  /\ pc = "paging_setup" /\ bug = ""
      /\ \E tables \in {kmalloc_raw(Now, bytes)} :
         \E nodes \in {kmalloc_raw(tables, pfdb_bytes)} :
         \E text \in {map_kernel(paging_init(nodes, Kernel, tables.ptr, bytes, pfdb_bytes),
                                 0, KernelEnd * PageSize)} :
         \E self \in {map_kernel(text, tables.ptr, bytes)} :
         \E done \in {map_kernel(self, nodes.ptr, pfdb_bytes)} : Become(done)
      /\ pc' = "mm_init"
      /\ UNCHANGED <<held, cr3>>

(* the rest of mm_init *)
mm_init ==
  LET s == map_kernel(Now, HeaderPage, PageSize)
  IN  /\ pc = "mm_init" /\ bug = ""
      /\ Become(s)
      /\ cr3' = IF s.bug = "" THEN Kernel ELSE cr3
      /\ pc' = "up"
      /\ UNCHANGED held

(* a plausible bug: the last entry is not copied *)
share_kernel_short(s, t) ==
  IF s.bug # "" THEN s
  ELSE [s EXCEPT !.mem[s.pgt[t].root] =
          [i \in Index |-> IF i \in UserHalf \/ i = Fanout \div 2 THEN @[i]
                           ELSE s.mem[s.pgt[Kernel].root][i]]]

(* the entries of the upper half of the kernel's root *)
share_kernel(s, t) ==
  IF s.bug # "" THEN s
  ELSE [s EXCEPT !.mem[s.pgt[t].root] =
          [i \in Index |-> IF i \in UserHalf THEN @[i] ELSE s.mem[s.pgt[Kernel].root][i]]]

(* fini_addr - ini_addr *)
vm_area == UserSpace

map_user_stack(s, t) ==
  paging_contiguous_map(s, t, s.ptr * PageSize, s.ptr * PageSize + StackSize, StackVirt, TRUE)

create_process(t) ==
  LET bytes == paging_calc_space_needed(vm_area)
      pfdb_bytes == pageframe_calc_space_needed(bytes)
  IN  /\ pc = "up" /\ bug = "" /\ t \notin DOMAIN pgt
      /\ \E task \in {kmalloc(Now, PageSize)} :
         \E tables \in {kmalloc(task, bytes)} :
         \E nodes \in {kmalloc(tables, pfdb_bytes)} :
         \E text \in {paging_contiguous_map(paging_init(nodes, t, tables.ptr, bytes, pfdb_bytes), t,
                       TextPage * PageSize, TextPage * PageSize + TextSize, TextVirt, TRUE)} :
         \E user \in {kmalloc(text, StackSize)} :
         \E stack \in {map_user_stack(user, t)} :
         \E kstack \in {kmalloc(stack, StackSize)} : Become(share_kernel(kstack, t))
      /\ UNCHANGED <<held, cr3, pc>>

(* launch_process, called by schedule *)
launch_process(t) ==
  /\ pc = "up" /\ bug = "" /\ t \in DOMAIN pgt \ {Kernel}
  /\ cr3' = t
  /\ UNCHANGED <<mem, pgt, live, held, pc, bug>>

(* kmalloc and kfree as the rest of the kernel calls them: sys_write for its *)
(* buffer, scheduler_add for a node of its list                              *)
use_kmalloc(bytes) ==
  LET s == kmalloc(Now, bytes)
  IN  /\ pc = "up" /\ bug = "" /\ Cardinality(held) < MaxLive
      /\ Become(s)
      /\ held' = held \cup (s.live \ live)
      /\ UNCHANGED <<cr3, pc>>

(* a plausible bug: the block is unmapped, and no TLB is told *)
kfree_unmap(block) ==
  LET pt == Translate(mem, pgt[Kernel].root, va(block[1]))
      table == CHOOSE f \in DOMAIN mem : mem[f][Idx(1, block[1])] = pt
  IN  /\ pc = "up" /\ bug = "" /\ block \in held
      /\ live' = live \ {block} /\ held' = held \ {block}
      /\ mem' = [mem EXCEPT ![table][Idx(1, block[1])] = Empty]
      /\ UNCHANGED <<pgt, cr3, pc, bug>>

kfree(block) ==
  /\ pc = "up" /\ bug = "" /\ block \in held
  /\ live' = live \ {block} /\ held' = held \ {block}
  /\ UNCHANGED <<mem, pgt, cr3, pc, bug>>

Next ==
  \/ paging_setup \/ mm_init
  \/ \E t \in Procs : create_process(t)
  \/ \E t \in Procs : launch_process(t)
  \/ \E bytes \in Requests : use_kmalloc(bytes)
  \/ \E block \in held : kfree(block)

Spec == Init /\ [][Next]_vars
-----------------------------------------------------------------------------
(* page_free, which page.h offers and nothing calls yet *)

(* the first byte of the table, read again and again: that of entry 0 *)
is_pagetable_empty(table) == table[0] = Empty

(* one level of page_free_resources, on its way back: `go' is what the level *)
(* below returned                                                            *)
Release(s, t, table, level, v) ==
  LET w == [s EXCEPT !.mem[table][Idx(level, v)] = Empty]
  IN  IF ~s.go THEN s
      ELSE IF ~is_pagetable_empty(w.mem[table]) THEN [w EXCEPT !.go = FALSE]
      ELSE [w EXCEPT !.pgt[t].pfdb = pageframe_free(@, table)]

page_free_resources(s, t, v) ==
  LET below(table, level) == s.mem[table][Idx(level, v)][1]
      root == s.pgt[t].root
      pdp == below(root, 4)
      pd == below(pdp, 3)
      pt == below(pd, 2)
      w == [mem |-> s.mem, pgt |-> s.pgt, live |-> s.live, bug |-> s.bug, go |-> TRUE]
  IN  Release(Release(Release(Release(w, t, pt, 1, v), t, pd, 2, v), t, pdp, 3, v), t, root, 4, v)

page_free(t, v) ==
  /\ pc = "up" /\ bug = "" /\ t \in DOMAIN pgt
  /\ Translate(mem, pgt[t].root, v) # Empty
  /\ Become(page_free_resources(Now, t, v))
  /\ UNCHANGED <<held, cr3, pc>>

(* a process gives a page of its stack back *)
SpecFree == Init /\ [][Next \/ \E t \in Procs : page_free(t, StackVirt)]_vars
-----------------------------------------------------------------------------
(* Properties *)

UserPages == 0..(2 * Fanout - 1)         \* bound: the part of the user half that is looked at
View(t, v) == Translate(mem, pgt[t].root, v)
Created == IF bug = "" THEN DOMAIN pgt \ {Kernel} ELSE {}

(* The frames of every page table are split between its free and its used  *)
(* list, no frame is in a list twice, and the used ones are exactly the     *)
(* tables that can be reached from the root through the half that belongs  *)
(* to it, each from one entry: pageframe_alloc and page_alloc neither leak  *)
(* a frame nor hand one out twice.                                         *)
FramesAreTables ==
  bug = "" => \A t \in DOMAIN pgt :
    LET free == pgt[t].pfdb.free
        used == pgt[t].pfdb.used
        root == pgt[t].root
        own(f) == IF f = root /\ t # Kernel THEN UserHalf ELSE Index
        target(e) == mem[e[1]][e[2]][1]
        entries(fs) == {e \in fs \X Index : e[2] \in own(e[1]) /\ mem[e[1]][e[2]] # Empty}
        targets(fs) == {target(e) : e \in entries(fs)}
        top == targets({root})
        mid == targets(top)
        inner == {root} \cup top \cup mid
    IN  /\ Split(pgt[t].pfdb, Range(free) \cup Range(used))
        /\ Range(used) = inner \cup targets(mid)
        /\ root \notin targets(inner)
        /\ \A e, d \in entries(inner) : target(e) = target(d) => e = d
        /\ \A f \in Range(free) : mem[f] = NoTable

(* Whatever the kernel may touch through va() is mapped there once the      *)
(* kernel's own tables are in use: its text, the page tables and their      *)
(* frame databases, the header of the allocator, every block of kmalloc.    *)
(* It is mapped in the tables of every process, those that create_process   *)
(* built before kmalloc mapped the block included: the tables below the     *)
(* root are shared.                                                         *)
LiveMapped ==
  cr3 # Loader /\ bug = "" =>
    \A t \in DOMAIN pgt : \A b \in live : \A p \in b[1]..(b[1] + PagesOf(b[2]) - 1) :
      View(t, va(p)) = <<p, FALSE>>

(* In its own half a process sees its text, the one page after it that      *)
(* paging_contiguous_map adds, and a stack that no other process has, all   *)
(* with the user bit.  The page after the stack is the first one of the     *)
(* text: mapping the stack must not replace it.  The frames set aside for   *)
(* the 10 MB of a process are enough, although paging_calc_space_needed     *)
(* counts no directory for them.                                            *)
UserHalfExact ==
  /\ bug # "process_frames"
  /\ \A t \in Created :
       LET stack == View(t, StackVirt)[1]
       IN  /\ <<stack, StackSize>> \in live
           /\ \A u \in Created \ {t} : View(u, StackVirt)[1] # stack
           /\ \A v \in UserPages :
                View(t, v) =
                  IF v \in TextVirt..(TextVirt + TextSize \div PageSize)
                  THEN <<TextPage + v - TextVirt, TRUE>>
                  ELSE IF v \in StackVirt..(StackVirt + StackSize \div PageSize)
                  THEN <<stack + v - StackVirt, TRUE>>
                  ELSE Empty

(* No step changes or removes an entry that is present, in any table, nor   *)
(* the root of an address space: whatever translation a processor holds in  *)
(* its TLB stays right, and page_alloc needs no invalidate_page.            *)
EntriesKept ==
  [][/\ \A f \in DOMAIN mem : \A i \in Index : mem[f][i] # Empty => mem'[f][i] = mem[f][i]
     /\ \A t \in DOMAIN pgt : pgt'[t].root = pgt[t].root]_vars

(* "free pagetables and pageframes where possible": what page_free gives      *)
(* back is not needed by the pages that stay mapped.                         *)
FreeKeepsOthers ==
  [][\A t \in Created : \A v \in UserPages \ {StackVirt} :
       View(t, v) # Empty => View(t, v)' = View(t, v)]_vars
=============================================================================
