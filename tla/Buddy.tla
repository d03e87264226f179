------------------------------- MODULE Buddy -------------------------------
(***************************************************************************)
(* The kernel's physical memory allocator (mm/buddy.c) and the way kmem.c  *)
(* starts it: buddy_init, buddy_pre_alloc for every reserved region of the *)
(* memory map, and then any sequence of buddy_alloc and buddy_free.        *)
(*                                                                         *)
(* The header array is a complete binary tree, one level per power order.  *)
(* A node <<k, i>> is the i-th slot of order k and stands for the bytes    *)
(* i*2^k .. (i+1)*2^k - 1 of the content region, which starts at address   *)
(* 0 (mm/init.c).  A zeroed slot is "EMPTY"; its type field reads UNUSED.  *)
(***************************************************************************)
EXTENDS Integers, Sequences, FiniteSetsExt

CONSTANTS
  MinOrder,      \* ilog2(BUDDY_ALLOC_SMALLEST_BLOCK)
  MaxOrder,      \* ilog2(content_mem_reg.length)
  Requests,      \* the sizes, in bytes, that callers ask for
  ReservedMaps   \* the possible lists of reserved regions of the memory map

VARIABLES
  slot,          \* the header array
  cur_pos,       \* kmem_init: the next entry of the reserved list to handle
  calls,         \* kmem_init: the stack of buddy_pre_alloc calls to execute
  live,          \* <<ptr, bytes>> handed out by buddy_alloc and not yet freed
  reserved,      \* the list of reserved regions this machine was started with
  halted         \* a BUG_ON fired: the kernel stopped for good

vars == <<slot, cur_pos, calls, live, reserved, halted>>

-----------------------------------------------------------------------------
Order == MinOrder..MaxOrder
ContentLength == 2^MaxOrder
Addr == 0..(ContentLength - 1)
Region == [base_addr : Nat, length : Nat]

ASSUME OrderAssumption == MinOrder \in Nat /\ MaxOrder \in Nat /\ MinOrder <= MaxOrder

(* buddy_alloc stops the kernel on a request of no bytes or of more bytes  *)
(* than there are; callers make none.                                      *)
ASSUME RequestAssumption == Requests \subseteq 1..ContentLength

(* Region bases are multiples of the smallest block.                       *)
ASSUME ReservedAssumption ==
  \A map \in ReservedMaps :
    /\ map \in Seq(Region)
    /\ \A i \in 1..Len(map) : /\ map[i].length > 0
                              /\ map[i].base_addr % 2^MinOrder = 0

(* Byte 0 is reserved: mem_reserve_first_mb sees to it.                    *)
ASSUME FirstByteAssumption ==
  \A map \in ReservedMaps :
    \E i \in 1..Len(map) : map[i].base_addr = 0 /\ map[i].length <= ContentLength

(* The laws of powers of two that the proofs use.                          *)
ASSUME PowerAssumption ==
  /\ \A k \in 0..(MaxOrder + 1) : 2^k \in Nat \ {0}
  /\ \A j, k \in 0..(MaxOrder + 1) : j <= k => 2^k = 2^j * 2^(k - j)
  /\ 2^0 = 1 /\ 2^1 = 2
-----------------------------------------------------------------------------
(* The shape of the header array *)

n_of_entries(k) == 2^(MaxOrder - k)
Node == UNION {{k} \X (0..(n_of_entries(k) - 1)) : k \in Order}

(* the header array: the levels one after the other, the lowest order first *)
buddy_calc_header_space == 2^((MaxOrder - MinOrder) + 1)
(* Faulty variants, here and below, show that the properties can fail:       *)
(* levels that start an order too early,                                     *)
goto_porder_idx_tight(k) == 2^(MaxOrder - MinOrder) - 2^(MaxOrder - k)
goto_porder_idx(k) == 2^(MaxOrder - (MinOrder - 1)) - 2^(MaxOrder - k + 1)
Position(n) == goto_porder_idx(n[1]) + n[2]

goto_parent(n) == <<n[1] + 1, n[2] \div 2>>
goto_sibling(n) == <<n[1], IF n[2] % 2 = 0 THEN n[2] + 1 ELSE n[2] - 1>>
base_addr(n) == n[2] * 2^n[1]

(* the node of order k that a descent from the root towards address x meets *)
NodeAt(k, x) == <<k, x \div 2^k>>

slot_type(s) == IF s = "EMPTY" THEN "UNUSED" ELSE s

(* The array s after splitting the blocks around x, from order "from" down *)
(* to order "to", and giving the block reached the type leaf.              *)
SplitDown(s, x, from, to, leaf) ==
  [n \in Node |->
     IF n = NodeAt(to, x) THEN leaf
     ELSE IF n[1] \in (to + 1)..from /\ n = NodeAt(n[1], x) THEN "SPLIT"
     ELSE IF n[1] \in to..(from - 1) /\ n = goto_sibling(NodeAt(n[1], x)) THEN "UNUSED"
     ELSE s[n]]

(* merged buddies left in the array, *)
MergeUpStale(s, x, k, m) == [s EXCEPT ![NodeAt(k, x)] = "UNUSED", ![NodeAt(m, x)] = "UNUSED"]

(* The array s after the block of order k around x became free and was     *)
(* merged with its free buddies up to order m.                             *)
MergeUp(s, x, k, m) ==
  [n \in Node |->
     IF n = NodeAt(m, x) THEN "UNUSED"
     ELSE IF n[1] \in k..(m - 1) /\ n \in {NodeAt(n[1], x), goto_sibling(NodeAt(n[1], x))}
     THEN "EMPTY"
     ELSE s[n]]
-----------------------------------------------------------------------------
(* Start: buddy_init, then kmem_init walks the list of reserved regions   *)
(* and calls buddy_pre_alloc for those within the content region.          *)

Init ==
  /\ slot = [n \in Node |-> IF n[1] = MaxOrder THEN "UNUSED" ELSE "EMPTY"]
  /\ reserved \in ReservedMaps
  /\ cur_pos = 1
  /\ calls = <<>>
  /\ live = {}
  /\ halted = FALSE

Accepted(rg) == rg.base_addr + rg.length <= ContentLength

mem_proc_handler ==
  /\ calls = <<>> /\ ~halted /\ cur_pos <= Len(reserved)
  /\ cur_pos' = cur_pos + 1
  /\ calls' = IF Accepted(reserved[cur_pos]) THEN <<reserved[cur_pos]>> ELSE <<>>
  /\ UNCHANGED <<slot, live, reserved, halted>>

(* The call on top of the stack, with its length rounded up to blocks.     *)
round_up_po2(n) == ((n + 2^MinOrder - 1) \div 2^MinOrder) * 2^MinOrder
flp2(n) == Max({p \in {2^k : k \in 0..MaxOrder} : p <= n})
Base == Head(calls).base_addr
Length == round_up_po2(Head(calls).length)
InBounds == Head(calls).length > 0 /\ Head(calls).length <= ContentLength
Call(b, l) == [base_addr |-> b, length |-> l]

(* The smallest block that holds the whole request, and where the descent  *)
(* towards it stops being SPLIT (it stops nowhere if Within is SPLIT).      *)
Within == Min({k \in Order : NodeAt(k, Base) = NodeAt(k, Base + Length - 1)})
Unsplit == {k \in Within..MaxOrder : slot[NodeAt(k, Base)] # "SPLIT"}
Stop == Max(Unsplit)
InsideUsed == /\ Unsplit # {}
              /\ slot[NodeAt(Stop, Base)] = "USED"
              /\ 2^Stop > Length

Booting == calls # <<>> /\ ~halted
OneBlock == Booting /\ InBounds /\ Length = flp2(Length) /\ Base + Length <= ContentLength

(* not a power of two: broken up into two calls *)
PreAllocBreakUp ==
  /\ Booting /\ InBounds /\ Length # flp2(Length)
  /\ calls' = <<Call(Base, flp2(Length)),
                Call(Base + flp2(Length), Length - flp2(Length))>> \o Tail(calls)
  /\ UNCHANGED <<slot, cur_pos, live, reserved, halted>>

(* a nested call that never returns, *)
PreAllocDoneSpins == OneBlock /\ InsideUsed /\ UNCHANGED vars

(* inside a block that is already USED: nothing to do *)
PreAllocDone ==
  /\ OneBlock /\ InsideUsed
  /\ calls' = Tail(calls)
  /\ UNCHANGED <<slot, cur_pos, live, reserved, halted>>

(* straddles the middle of a block: split down to it, then one call per half *)
PreAllocOverlap ==
  /\ OneBlock /\ ~InsideUsed /\ 2^Within > Length
  /\ slot' = IF Unsplit = {} THEN slot
             ELSE SplitDown(slot, Base, Stop, Within - 1, "UNUSED")
  /\ LET mid == base_addr(NodeAt(Within, Base)) + 2^(Within - 1)
     IN  calls' = <<Call(Base, mid - Base),
                    Call(mid, Base + Length - mid)>> \o Tail(calls)
  /\ UNCHANGED <<cur_pos, live, reserved, halted>>

(* exactly one block, and free: take it *)
PreAllocFit ==
  /\ OneBlock /\ ~InsideUsed /\ 2^Within = Length
  /\ Unsplit # {} /\ slot_type(slot[NodeAt(Stop, Base)]) = "UNUSED"
  /\ slot' = SplitDown(slot, Base, Stop, Within, "USED")
  /\ calls' = Tail(calls)
  /\ UNCHANGED <<cur_pos, live, reserved, halted>>

(* the BUG_ONs: a request out of bounds, or for a block that is not free *)
PreAllocBug ==
  /\ Booting
  /\ \/ ~InBounds
     \/ /\ OneBlock /\ ~InsideUsed /\ 2^Within = Length
        /\ Unsplit # {} => slot[NodeAt(Stop, Base)] = "USED"
  /\ halted' = TRUE
  /\ UNCHANGED <<slot, cur_pos, calls, live, reserved>>
-----------------------------------------------------------------------------
(* Allocation: the smallest order that has a free block serves the request, *)
(* its free block of the lowest index is split down to the order asked for. *)

(* the order rounded down, *)
k_order_floor(bytes) == Min({k \in Order : bytes < 2^(k + 1)} \cup {MaxOrder})
k_order(bytes) == Min({k \in Order : bytes <= 2^k})
(* zeroed slots taken for free ones, *)
find_free_slot_zeroed(k) == {i \in 0..(n_of_entries(k) - 1) : slot_type(slot[<<k, i>>]) = "UNUSED"}
find_free_slot(k) == {i \in 0..(n_of_entries(k) - 1) : slot[<<k, i>>] = "UNUSED"}
(* larger blocks never split, *)
FreeOrdersExact(k) == {o \in {k} : find_free_slot(o) # {}}
FreeOrders(k) == {o \in k..MaxOrder : find_free_slot(o) # {}}

Ready == calls = <<>> /\ ~halted /\ cur_pos > Len(reserved)

buddy_alloc(bytes) ==
  /\ Ready /\ FreeOrders(k_order(bytes)) # {}
  /\ LET o == Min(FreeOrders(k_order(bytes)))
         ptr == base_addr(<<o, Min(find_free_slot(o))>>)
     IN  /\ slot' = SplitDown(slot, ptr, o, k_order(bytes), "USED")
         /\ live' = live \cup {<<ptr, bytes>>}
  /\ UNCHANGED <<cur_pos, calls, reserved, halted>>

(* BUG_ON(!found): simply there is no memory left *)
AllocBug(bytes) ==
  /\ Ready /\ FreeOrders(k_order(bytes)) = {}
  /\ halted' = TRUE
  /\ UNCHANGED <<slot, cur_pos, calls, live, reserved>>

(* Release of what buddy_alloc handed out. *)
find_slot_by_addr(x) == Max({k \in Order : slot[NodeAt(k, x)] # "SPLIT"})
(* and only the first pair of buddies merged. *)
MergeOrderOnce(x, k) ==
  Max({m \in k..Min({k + 1, MaxOrder}) :
         \A j \in k..(m - 1) : slot_type(slot[goto_sibling(NodeAt(j, x))]) = "UNUSED"})
MergeOrder(x, k) ==
  Max({m \in k..MaxOrder :
         \A j \in k..(m - 1) : slot_type(slot[goto_sibling(NodeAt(j, x))]) = "UNUSED"})

(* BUG_ON(!ptr) and, in the search for the slot, BUG_ON(!slot_found) *)
Freeable(ptr) == ptr # 0 /\ slot[NodeAt(find_slot_by_addr(ptr), ptr)] = "USED"

buddy_free(a) ==
  LET ptr == a[1]
      k == find_slot_by_addr(ptr)
  IN  /\ Ready
      /\ halted' = ~Freeable(ptr)
      /\ slot' = IF Freeable(ptr) THEN MergeUp(slot, ptr, k, MergeOrder(ptr, k)) ELSE slot
      /\ live' = IF Freeable(ptr) THEN live \ {a} ELSE live
      /\ UNCHANGED <<cur_pos, calls, reserved>>

(* after a BUG_ON the processor is halted in a loop *)
Halt == halted /\ UNCHANGED vars

kmem_init == mem_proc_handler \/ PreAllocBreakUp \/ PreAllocDone \/ PreAllocOverlap \/ PreAllocFit \/ PreAllocBug

Next ==
  \/ kmem_init
  \/ \E bytes \in Requests : buddy_alloc(bytes) \/ AllocBug(bytes)
  \/ \E a \in live : buddy_free(a)
  \/ Halt

Spec == Init /\ [][Next]_vars

-----------------------------------------------------------------------------
SlotType == {"EMPTY", "UNUSED", "SPLIT", "USED"}

(* Type correctness of the allocator's state. *)
TypeOK ==
  /\ slot \in [Node -> SlotType]
  /\ cur_pos \in Nat \ {0}
  /\ calls \in Seq(Region)
  /\ live \subseteq Addr \X Requests
  /\ reserved \in ReservedMaps
  /\ halted \in BOOLEAN

Bytes(base, length) == base..(base + length - 1)

(* No two slots in use share memory of the header, on whichever levels they *)
(* are, and the header that buddy_allocator_setup reserves has room for     *)
(* them: splits and merges write no slot but their own.                     *)
InUse == {n \in Node : slot[n] # "EMPTY"}
HeaderLayout ==
  \A n \in InUse : /\ Position(n) \in 0..(buddy_calc_header_space - 1)
                   /\ \A m \in InUse : Position(m) = Position(n) => m = n

(* kmalloc's callers own what they were given: the bytes of two live       *)
(* allocations never overlap, whatever the order of allocations, splits,   *)
(* frees and merges, and all of them lie within the content region.        *)
LiveDisjoint ==
  /\ \A a \in live : Bytes(a[1], a[2]) \subseteq Addr
  /\ \A a, b \in live : a # b => Bytes(a[1], a[2]) \cap Bytes(b[1], b[2]) = {}

(* kmem_init pre-allocates the reserved regions "to avoid double alloc": a *)
(* region it accepted is never part of a live allocation.                  *)
PreAllocatedKept ==
  \A i \in 1..Len(reserved) : Accepted(reserved[i]) =>
    \A a \in live : Bytes(a[1], a[2]) \cap
                      Bytes(reserved[i].base_addr, reserved[i].length) = {}

(* The state of the header depends on the USED blocks alone, not on the    *)
(* history that led to them: SPLIT is exactly what has a USED block below, *)
(* free buddies are always merged, nothing is lost and nothing stale stays *)
(* in the array.                                                           *)
Below(n) == {m \in Node : /\ m[1] < n[1] 
                          /\ base_addr(m) \in Bytes(base_addr(n), 2^n[1])}
HasUsedBelow(n) == \E m \in Below(n) : slot[m] = "USED"
Canonical ==
  calls = <<>> =>
    \A n \in Node :
      slot[n] = IF slot[n] = "USED" THEN "USED"
                ELSE IF HasUsedBelow(n) THEN "SPLIT"
                ELSE IF n[1] = MaxOrder \/ HasUsedBelow(goto_parent(n)) THEN "UNUSED"
                ELSE "EMPTY"

(* Once kmem_init is done the kernel stops in the allocator only for lack  *)
(* of memory: buddy_alloc(bytes) stops it only when no aligned block of    *)
(* the order of these very bytes is free of USED bytes, and buddy_free     *)
(* never does: it finds the USED slot of every address kmalloc gave.       *)
UsedBytes == UNION {Bytes(base_addr(n), 2^n[1]) : n \in {m \in Node : slot[m] = "USED"}}
Full(k) == \A n \in Node : n[1] = k => Bytes(base_addr(n), 2^n[1]) \cap UsedBytes # {}
HaltsOnlyWhenFull ==
  [][/\ \A bytes \in Requests : AllocBug(bytes) => Full(k_order(bytes))
     /\ \A a \in live : buddy_free(a) => ~halted']_vars

(* Every buddy_pre_alloc call, nested ones included, fits the content      *)
(* region at block granularity; its descent would otherwise loop forever.  *)
CallsFit ==
  \A i \in 1..Len(calls) :
    /\ calls[i].length > 0
    /\ calls[i].base_addr % 2^MinOrder = 0
    /\ calls[i].base_addr + round_up_po2(calls[i].length) <= ContentLength

(* Every slot in use lies below SPLIT slots only, along every path.        *)
Rooted(s) ==
  \A x \in Addr : \A j, k \in Order :
    k < j /\ s[NodeAt(k, x)] # "EMPTY" => s[NodeAt(j, x)] = "SPLIT"

(* What is live starts a USED block that is large enough for it ...        *)
LiveUsed ==
  /\ \A a \in live : \E k \in Order :
       slot[NodeAt(k, a[1])] = "USED" /\ a[2] <= 2^k /\ a[1] % 2^k = 0
  /\ \A a, b \in live : a[1] = b[1] => a = b

(* ... and an accepted region handled so far is in USED blocks that        *)
(* nothing live is in, or in the calls still to be executed.               *)
Held(x) == \E k \in Order : /\ slot[NodeAt(k, x)] = "USED"
                            /\ \A a \in live : NodeAt(k, a[1]) # NodeAt(k, x)
Pending(x) == \E c \in 1..Len(calls) : x \in Bytes(calls[c].base_addr, calls[c].length)
ReservedHeld ==
  \A i \in 1..Len(reserved) : i < cur_pos /\ Accepted(reserved[i]) =>
    \A x \in Bytes(reserved[i].base_addr, reserved[i].length) : Held(x) \/ Pending(x)

(* Behind LiveDisjoint and PreAllocatedKept: the header is a tree in which *)
(* the blocks of the live allocations and those of the reserved regions    *)
(* are different USED leaves.                                              *)
BlocksInv ==
  /\ TypeOK /\ Rooted(slot) /\ LiveUsed /\ ReservedHeld /\ CallsFit
  /\ calls # <<>> \/ cur_pos <= Len(reserved) => live = {}

(* Both halves of a SPLIT slot are in use, and so is the root ...          *)
Filled(s) ==
  \A x \in Addr :
    /\ s[NodeAt(MaxOrder, x)] # "EMPTY"
    /\ \A k \in Order : k < MaxOrder /\ s[NodeAt(k + 1, x)] = "SPLIT" => s[NodeAt(k, x)] # "EMPTY"

(* ... and a SPLIT slot has a USED one below, unless a call still to be    *)
(* executed starts in it.                                                  *)
UsedUnder(s, k, x) ==
  \E y \in Addr, j \in Order : /\ j < k /\ s[NodeAt(j, y)] = "USED"
                               /\ NodeAt(k, y) = NodeAt(k, x)
SplitInUse ==
  \A x \in Addr, k \in Order : slot[NodeAt(k, x)] = "SPLIT" =>
    \/ UsedUnder(slot, k, x)
    \/ \E c \in 1..Len(calls) : NodeAt(k, calls[c].base_addr) = NodeAt(k, x)

(* The inductive invariant: the above, and what is behind Canonical and    *)
(* HaltsOnlyWhenFull.                                                      *)
IInv == BlocksInv /\ Filled(slot) /\ SplitInUse

(* The allocator keeps the contract of module Allocator, with the bytes of   *)
(* the accepted reserved regions as those that are never handed out: each    *)
(* buddy_alloc returns bytes nobody has, each buddy_free gives back exactly  *)
(* one allocation, and splits and merges are not visible to callers.         *)
KeepBytes == UNION {Bytes(reserved[i].base_addr, reserved[i].length) :
                      i \in {j \in 1..Len(reserved) : Accepted(reserved[j])}}
Kmem == INSTANCE Allocator WITH Space <- Addr, keep <- KeepBytes, down <- halted
KmallocContract == Kmem!Spec

(* kmem_init returns: the recursion of buddy_pre_alloc ends, or a BUG_ON   *)
(* stops the kernel.  Fairness: kmain runs until it gets there.            *)
FairSpec == Spec /\ WF_vars(kmem_init)
KmemInitReturns == <>(Ready \/ halted)
=============================================================================
