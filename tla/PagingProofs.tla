---------------------------- MODULE PagingProofs ----------------------------
(***************************************************************************)
(* The kernel's address spaces for every size of memory and of tables, any *)
(* number of processes and any sequence of kmalloc, kfree, create_process  *)
(* and launch_process: no entry is ever replaced, what kmalloc has given   *)
(* out is mapped everywhere, and no frame is lost or used twice.           *)
(***************************************************************************)
EXTENDS PagingTrees, WellFoundedInduction

(* A nonempty set of natural numbers has the minimum that Min picks.        *)
LEMMA MinFact ==
  ASSUME NEW S, S \subseteq Nat, S # {}
  PROVE  Min(S) \in S /\ \A y \in S : Min(S) <= y
<1>1. PICK x \in S : \A y \in S : <<y, x>> \notin OpToRel(<, Nat)
  BY NatLessThanWellFounded, WFMin, Zenon
<1>2. \A y \in S : ~(y < x)
  BY <1>1, Zenon DEF OpToRel
<1>3. \A y \in S : x <= y
  BY <1>2, S \subseteq Nat
<1> QED BY <1>3, Zenon DEF Min

-----------------------------------------------------------------------------
(* The loop of paging_contiguous_map *)

(* the memory after every turn, one from the other *)
Turns(m, s, t, page, n, v, user) ==
  [k \in 0..n |-> IF k = 0 THEN s ELSE page_alloc(m[k - 1], t, v + (k - 1), page + (k - 1), user)]

Loop(m, s, t, page, n, v, user) == m = Turns(m, s, t, page, n, v, user)

(* The loop of paging_contiguous_map has a value for every number of turns:  *)
(* the recursive function of the model is well defined.                      *)
LEMMA TurnsExist ==
  ASSUME NEW s, NEW t, NEW page, NEW n \in Nat, NEW v, NEW user
  PROVE  \E m : Loop(m, s, t, page, n, v, user)
<1> DEFINE Has(k) == \E m : m = Turns(m, s, t, page, k, v, user)
           Bad == {k \in Nat : ~Has(k)}
<1>1. SUFFICES ASSUME Bad # {} PROVE FALSE
  BY Zenon DEF Loop
<1>2. PICK k \in Bad : \A j \in Bad : k <= j
  <2>1. Bad \subseteq Nat
    BY Zenon
  <2> HIDE DEF Bad
  <2> QED
    BY <1>1, <2>1, MinFact, Zenon
<1> k \in Nat /\ ~Has(k) /\ \A j \in Nat : j < k => Has(j)
  BY <1>2
<1> HIDE DEF Bad
<1>4. CASE k = 0
  <2> DEFINE m == [j \in 0..0 |-> s]
  <2>1. Turns(m, s, t, page, 0, v, user) = m
    BY DEF Turns
  <2> QED
    BY <1>4, <2>1, Zenon
<1> CASE k # 0
  <2>1. k - 1 \in Nat /\ k - 1 < k
    OBVIOUS
  <2>2. PICK m : m = Turns(m, s, t, page, k - 1, v, user)
    BY <2>1, Zenon
  <2> DEFINE e == page_alloc(m[k - 1], t, v + (k - 1), page + (k - 1), user)
             m2 == [j \in 0..k |-> IF j = k THEN e ELSE m[j]]
  <2>3. ASSUME NEW j \in 0..k
        PROVE  m2[j] = IF j = 0 THEN s ELSE page_alloc(m2[j - 1], t, v + (j - 1), page + (j - 1), user)
    <3>1. CASE j = 0
      <4>1. m2[0] = m[0] /\ 0 \in 0..(k - 1)
        OBVIOUS
      <4>2. m[0] = s
        BY <2>2, <4>1, Zenon DEF Turns
      <4> QED
        BY <3>1, <4>1, <4>2, Zenon
    <3> CASE j # 0 /\ j # k
      <4>1. m2[j] = m[j] /\ m2[j - 1] = m[j - 1] /\ j \in 0..(k - 1)
        OBVIOUS
      <4>2. m[j] = page_alloc(m[j - 1], t, v + (j - 1), page + (j - 1), user)
        BY <2>2, <4>1, Zenon DEF Turns
      <4> HIDE DEF m2
      <4> QED
        BY <4>1, <4>2, Zenon
    <3> CASE j = k
      <4>1. m2[j] = e /\ m2[j - 1] = m[k - 1]
        OBVIOUS
      <4> HIDE DEF m2
      <4> QED
        BY <4>1, Zenon
    <3> QED
      BY <3>1, Zenon
  <2>4. m2 = [j \in 0..k |-> m2[j]]
    BY Zenon
  <2> HIDE DEF m2
  <2>5. m2 = Turns(m2, s, t, page, k, v, user)
    BY <2>3, <2>4, Zenon DEF Turns
  <2> QED
    BY <2>5, Zenon
<1> QED
  BY <1>4, Zenon

(* paging_contiguous_map is its last turn.                                   *)
LEMMA LoopOfMap ==
  ASSUME NEW s, NEW t, NEW p_start, NEW p_end, NEW v, NEW user,
         NEW n \in Nat, n = (p_end - p_start) \div PageSize + 1
  PROVE  \E m : /\ m[0] = s /\ paging_contiguous_map(s, t, p_start, p_end, v, user) = m[n]
                /\ \A k \in 1..n : m[k] = page_alloc(m[k - 1], t, v + (k - 1), p_start \div PageSize + (k - 1), user)
<1> DEFINE page == p_start \div PageSize
<1>1. PICK m : Loop(m, s, t, page, n, v, user)
  BY TurnsExist, Zenon
<1>2. paging_contiguous_map(s, t, p_start, p_end, v, user) = (CHOOSE m1 : m1 = Turns(m1, s, t, page, n, v, user))[n]
  BY Zenon DEF paging_contiguous_map, Turns
<1>3. PICK m1 : m1 = Turns(m1, s, t, page, n, v, user) /\ m1 = CHOOSE m2 : m2 = Turns(m2, s, t, page, n, v, user)
  BY <1>1, Zenon DEF Loop
<1> HIDE DEF page
<1>4. m1[0] = s /\ \A k \in 1..n : m1[k] = page_alloc(m1[k - 1], t, v + (k - 1), page + (k - 1), user)
  <2>1. 0 \in 0..n /\ \A k \in 1..n : k \in 0..n /\ k # 0
    OBVIOUS
  <2> QED
    BY <1>3, <2>1, Zenon DEF Turns
<1> QED
  BY <1>2, <1>3, <1>4, Zenon DEF page

(* paging_contiguous_map replaces no entry, however many pages it maps: by   *)
(* induction on the turns of its loop.                                       *)
LEMMA MapAdds ==
  ASSUME NEW s, Rec(s), NEW t, NEW p_start, NEW p_end, NEW v, NEW user,
         (p_end - p_start) \div PageSize + 1 \in Nat
  PROVE  Adds(s, paging_contiguous_map(s, t, p_start, p_end, v, user))
<1> DEFINE n == (p_end - p_start) \div PageSize + 1
<1>1. PICK m : /\ m[0] = s /\ paging_contiguous_map(s, t, p_start, p_end, v, user) = m[n]
               /\ \A k \in 1..n : m[k] = page_alloc(m[k - 1], t, v + (k - 1), p_start \div PageSize + (k - 1), user)
  BY LoopOfMap
<1> n \in Nat
  BY Zenon
<1> HIDE DEF n
<1> DEFINE Bad == {k \in 0..n : ~Adds(s, m[k])}
<1>3. SUFFICES ASSUME Bad # {} PROVE FALSE
  <2>1. n \in 0..n
    OBVIOUS
  <2> QED
    BY <1>1, <2>1, Zenon
<1>4. PICK k \in Bad : \A j \in Bad : k <= j
  <2>1. Bad \subseteq Nat
    OBVIOUS
  <2> HIDE DEF Bad
  <2> QED
    BY <1>3, <2>1, MinFact, Zenon
<1> k \in 0..n /\ ~Adds(s, m[k]) /\ \A j \in 0..n : j < k => Adds(s, m[j])
  BY <1>4
<1>6. CASE k = 0
  BY <1>1, <1>6, AddsNothing, Zenon
<1>7. CASE k # 0
  <2>1. k - 1 \in 0..n /\ k - 1 < k /\ k \in 1..n
    BY <1>7
  <2>2. Adds(s, m[k - 1]) /\ Rec(m[k - 1])
    BY <2>1, AddsRec, Zenon
  <2>3. Adds(m[k - 1], m[k])
    BY <1>1, <2>1, <2>2, PageAllocAdds, Zenon
  <2> QED
    BY <2>2, <2>3, AddsTwice, Zenon
<1> QED
  BY <1>6, <1>7, Zenon

-----------------------------------------------------------------------------
(* kmalloc *)

(* clp2 rounds up a request that fits in memory to a block of the allocator. *)
LEMMA BlockSize ==
  ASSUME NEW n \in Nat, n <= Pages
  PROVE  clp2(n) \in Nat /\ clp2(n) >= n
<1> DEFINE S == {k \in {2^i : i \in 0..MaxOrder} : k >= n}
<1>1. MaxOrder \in 0..MaxOrder /\ 2^MaxOrder >= n /\ \A i \in 0..MaxOrder : 2^i \in Int
  BY ConstantTypes, PagingAssumption
<1>2. 2^MaxOrder \in S /\ S \subseteq Nat
  BY <1>1
<1>3. \A k \in S : k >= n
  BY Zenon
<1>4. clp2(n) = Min(S)
  BY Zenon DEF clp2
<1> HIDE DEF S
<1>5. Min(S) \in S
  BY <1>2, MinFact, Zenon
<1> QED
  BY <1>2, <1>3, <1>4, <1>5, Zenon

(* The lowest free block of the right size lies in memory and overlaps       *)
(* nothing that is taken (buddy_alloc as kmalloc uses it).                   *)
LEMMA LowestRoom ==
  ASSUME NEW bytes \in Nat, bytes # 0, ~(bytes > Pages * PageSize), NEW taken, NEW room,
         room = {p \in 0..(Pages - clp2(PagesOf(bytes))) :
                   /\ p % clp2(PagesOf(bytes)) = 0
                   /\ p..(p + clp2(PagesOf(bytes)) - 1) \cap taken = {}},
         room # {}
  PROVE  /\ Min(room) \in Nat /\ bytes > 0 /\ Min(room) + PagesOf(bytes) <= Pages
         /\ \A p \in Min(room)..(Min(room) + PagesOf(bytes) - 1) : p \notin taken
<1> DEFINE n == clp2(PagesOf(bytes))
           p0 == Min(room)
<1>1. \A p \in room : p \in 0..(Pages - n) /\ p..(p + n - 1) \cap taken = {}
  BY Zenon
<1> Pages \in Nat /\ PageSize \in Nat
  BY ConstantTypes, Zenon
<1>3. bytes > 0 /\ bytes <= Pages * PageSize
  OBVIOUS
<1>4. PagesOf(bytes) \in Nat /\ PagesOf(bytes) <= Pages
  BY <1>3, PageCounts, Zenon
<1>5. n \in Nat /\ n >= PagesOf(bytes)
  BY <1>4, BlockSize, Zenon
<1> HIDE DEF n
<1>6. room \subseteq Nat
  BY <1>1, <1>5
<1>7. p0 \in room
  BY <1>6, MinFact, Zenon
<1> HIDE DEF p0
<1>8. p0 \in 0..(Pages - n) /\ p0..(p0 + n - 1) \cap taken = {}
  BY <1>1, <1>7, Zenon
<1>9. /\ p0 \in Nat /\ p0 + PagesOf(bytes) <= Pages
      /\ \A p \in p0..(p0 + PagesOf(bytes) - 1) : p \in p0..(p0 + n - 1)
  BY <1>4, <1>5, <1>8
<1> QED
  BY <1>3, <1>8, <1>9, Zenon DEF p0

(* kmalloc_raw returns a block that no other block overlaps.                 *)
LEMMA RawBlock ==
  ASSUME NEW s, Rec(s), s.bug = "", NEW bytes \in Nat, NEW w, w = kmalloc_raw(s, bytes)
  PROVE  /\ Rec(w) /\ w.mem = s.mem /\ w.pgt = s.pgt /\ w.at = s.at /\ s.live \subseteq w.live
         /\ w.bug # "" => w.live = s.live
         /\ w.bug = "" => NewBlock(s, w, bytes)
<1> DEFINE n == clp2(PagesOf(bytes))
           room == {p \in 0..(Pages - n) : p % n = 0 /\ p..(p + n - 1) \cap Taken(s.live) = {}}
<1>1. w = IF bytes = 0 \/ bytes > Pages * PageSize \/ room = {} THEN [s EXCEPT !.bug = "memory"]
          ELSE [s EXCEPT !.ptr = Min(room), !.live = @ \cup {<<Min(room), bytes>>}]
  BY Zenon DEF kmalloc_raw
<1>2. CASE bytes = 0 \/ bytes > Pages * PageSize \/ room = {}
  <2>1. w = [s EXCEPT !.bug = "memory"]
    BY <1>1, <1>2, Zenon
  <2> QED
    BY <2>1, Zenon DEF Rec
<1> CASE ~(bytes = 0 \/ bytes > Pages * PageSize \/ room = {})
  <2> DEFINE p0 == Min(room)
  <2>1. bytes # 0 /\ ~(bytes > Pages * PageSize) /\ room # {}
    BY Zenon
  <2>2. /\ p0 \in Nat /\ bytes > 0 /\ p0 + PagesOf(bytes) <= Pages
        /\ \A p \in p0..(p0 + PagesOf(bytes) - 1) : p \notin Taken(s.live)
    BY <2>1, LowestRoom, Zenon
  <2> HIDE DEF room
  <2>3. w = [s EXCEPT !.ptr = p0, !.live = @ \cup {<<p0, bytes>>}]
    BY <1>1, Zenon
  <2> HIDE DEF p0
  <2>4. w.bug = s.bug /\ w.mem = s.mem /\ w.pgt = s.pgt /\ w.at = s.at /\ w.ptr = p0 /\ Rec(w)
        /\ w.live = s.live \cup {<<p0, bytes>>}
    BY <2>2, <2>3, Zenon DEF Rec
  <2> QED
    BY <2>2, <2>4, Zenon DEF NewBlock
<1> QED
  BY <1>2, Zenon

(* paging_contiguous_map, called as the kernel calls it, with a page and a   *)
(* number of bytes, replaces no entry.                                       *)
LEMMA MapBlockAdds ==
  ASSUME NEW s, Rec(s), NEW t, NEW page \in Nat, NEW bytes \in Nat, NEW v, NEW user
  PROVE  Adds(s, paging_contiguous_map(s, t, page * PageSize, page * PageSize + bytes, v, user))
<1>1. PageSize \in Nat \ {0} /\ bytes \div PageSize \in Nat
  BY ConstantTypes, PageCounts, Zenon
<1>2. (page * PageSize + bytes) - page * PageSize = bytes
  BY <1>1
<1>3. ((page * PageSize + bytes) - page * PageSize) \div PageSize + 1 \in Nat
  BY <1>1, <1>2
<1> QED
  BY <1>3, MapAdds, Zenon

(* The same for the mappings that mm_init and kmalloc make at va(). *)
LEMMA MapKernelAdds ==
  ASSUME NEW s, Rec(s), NEW page \in Nat, NEW bytes \in Nat
  PROVE  Adds(s, map_kernel(s, page, bytes))
BY MapBlockAdds, Zenon DEF map_kernel

(* kmalloc with KMEM_RAW_ALLOC changes no table and returns a block that     *)
(* overlaps no other, or stops the kernel.                                   *)
LEMMA RawGrows ==
  ASSUME NEW s, Rec(s), NEW bytes \in Nat
  PROVE  /\ Grows(s, kmalloc_raw(s, bytes))
         /\ kmalloc_raw(s, bytes).bug = "" =>
              NewBlock(s, kmalloc_raw(s, bytes), bytes)
<1> CASE s.bug # ""
  <2>1. kmalloc_raw(s, bytes) = s
    BY Zenon DEF kmalloc_raw
  <2> QED
    BY <2>1, AddsNothing, AddsGrows, Zenon
<1> CASE s.bug = ""
  <2> DEFINE w == kmalloc_raw(s, bytes)
  <2>1. /\ Rec(w) /\ w.mem = s.mem /\ w.pgt = s.pgt /\ s.live \subseteq w.live
        /\ w.bug = "" => NewBlock(s, w, bytes)
    BY RawBlock, Zenon
  <2> HIDE DEF w
  <2>2. Grows(s, w)
    BY <2>1, Zenon DEF Grows, Keeps, SameRoots
  <2> QED
    BY <2>1, <2>2, Zenon DEF w
<1> QED
  BY Zenon

(* kmalloc replaces no entry, keeps every block, and returns one that        *)
(* overlaps no other.                                                        *)
LEMMA KmallocGrows ==
  ASSUME NEW s, Rec(s), NEW bytes \in Nat
  PROVE  /\ Grows(s, kmalloc(s, bytes))
         /\ kmalloc(s, bytes).bug = "" => NewBlock(s, kmalloc(s, bytes), bytes)
<1> DEFINE a == kmalloc_raw(s, bytes)
           w == kmalloc(s, bytes)
<1> Grows(s, a) /\ (a.bug = "" => NewBlock(s, a, bytes)) /\ Rec(a)
  BY RawGrows, GrowsRec, Zenon
<1>2. w = IF a.bug # "" THEN a ELSE map_kernel(a, a.ptr, bytes)
  BY Zenon DEF kmalloc
<1> HIDE DEF a, w
<1>3. CASE a.bug # ""
  BY <1>2, <1>3, Zenon DEF w
<1> CASE a.bug = ""
  <2>1. a.ptr \in Nat
    BY Zenon DEF NewBlock
  <2>2. Adds(a, w)
    BY <1>2, <2>1, MapKernelAdds, Zenon
  <2>3. Grows(s, w)
    BY <2>2, AddsGrows, GrowsTwice, Zenon
  <2>4. w.live = a.live /\ w.ptr = a.ptr
    BY <2>2, Zenon DEF Adds
  <2>5. NewBlock(s, w, bytes)
    BY <2>4, Zenon DEF NewBlock
  <2> QED
    BY <2>3, <2>5, Zenon DEF w
<1> QED
  BY <1>3, Zenon

-----------------------------------------------------------------------------
(* What is mapped *)

(* After paging_contiguous_map the tables are trees and every page from the  *)
(* first to the last, both included, is mapped: by induction on the turns of *)
(* the loop.                                                                 *)
LEMMA MapHolds ==
  ASSUME NEW s, Rec(s), NEW P, NEW t \in DOMAIN s.pgt, Holds(s, P),
         NEW page \in Nat, NEW bytes \in Nat, NEW v \in Nat, NEW user \in BOOLEAN, t = Kernel => user = FALSE,
         \A j \in 0..(bytes \div PageSize) : InHalf(t, v + j) /\ (t = Kernel => v + j = va(page + j)),
         NEW w, w = paging_contiguous_map(s, t, page * PageSize, page * PageSize + bytes, v, user), Running(w)
  PROVE  Holds(w, P \cup Gain(t, page, page + bytes \div PageSize))
<1> DEFINE n == bytes \div PageSize + 1
           Q(k) == Span(P, t, page, k)
<1>1. PageSize \in Nat \ {0} /\ bytes \div PageSize \in Nat
  BY ConstantTypes, PageCounts, Zenon
<1>2. n \in Nat /\ bytes \div PageSize = n - 1
  BY <1>1
<1>3. n = ((page * PageSize + bytes) - page * PageSize) \div PageSize + 1 /\ (page * PageSize) \div PageSize = page
  <2>1. (page * PageSize + bytes) - page * PageSize = bytes
    BY <1>1
  <2> QED
    BY <2>1, WholePages, Zenon
<1> HIDE DEF n
<1>4. PICK m : /\ m[0] = s /\ w = m[n]
               /\ \A k \in 1..n : m[k] = page_alloc(m[k - 1], t, v + (k - 1), page + (k - 1), user)
  <2>1. \E m : /\ m[0] = s /\ paging_contiguous_map(s, t, page * PageSize, page * PageSize + bytes, v, user) = m[n]
               /\ \A k \in 1..n : m[k] = page_alloc(m[k - 1], t, v + (k - 1), (page * PageSize) \div PageSize + (k - 1), user)
    BY <1>2, <1>3, LoopOfMap
  <2> QED
    BY <1>3, <2>1, Zenon
<1> DEFINE Fine(k) == Rec(m[k]) /\ t \in DOMAIN m[k].pgt /\ (Running(m[k]) => Holds(m[k], Q(k)))
           Bad == {k \in 0..n : ~Fine(k)}
<1>5. Fine(0)
  <2>1. Q(0) = P
    BY SpanNone, Zenon
  <2> QED
    BY <1>4, <2>1, Zenon
<1>6. ASSUME NEW k \in 0..(n - 1), Fine(k) PROVE Fine(k + 1)
  <2> k + 1 \in 1..n /\ (k + 1) - 1 = k /\ k \in Nat /\ k \in 0..(bytes \div PageSize) /\ page + k \in Nat
    BY <1>2
  <2>2. m[k + 1] = page_alloc(m[k], t, v + k, page + k, user)
    BY <1>4, Zenon
  <2>3. InHalf(t, v + k) /\ (t = Kernel => v + k = va(page + k) /\ user = FALSE)
    BY Zenon
  <2>4. Adds(m[k], m[k + 1])
    BY <1>6, <2>2, PageAllocAdds
  <2>5. Rec(m[k + 1]) /\ t \in DOMAIN m[k + 1].pgt /\ (Running(m[k + 1]) => Running(m[k]))
    BY <1>6, <2>4, ReachSpaces, Zenon
  <2>6. Running(m[k + 1]) => Holds(m[k + 1], Q(k) \cup Gain(t, page + k, page + k))
    <3> HIDE DEF Q
    <3> QED
      BY <1>6, <2>2, <2>3, <2>5, PageAllocHolds, ZenonT(60)
  <2>7. Q(k) \cup Gain(t, page + k, page + k) = Q(k + 1)
    <3>1. k \in Nat
      BY Zenon
    <3> QED
      BY <3>1, SpanNext
  <2> QED
    BY <2>5, <2>6, <2>7, Zenon
<1>7. Fine(n)
  <2> HIDE DEF Fine
  <2>1. SUFFICES ASSUME Bad # {} PROVE FALSE
    BY <1>2
  <2> DEFINE k == Min(Bad)
  <2>2. Bad \subseteq Nat
    BY <1>2
  <2>3. k \in Bad /\ \A j \in Bad : k <= j
    <3> HIDE DEF Bad
    <3> QED
      BY <2>1, <2>2, MinFact, Zenon
  <2> HIDE DEF k
  <2>4. k \in 0..n /\ ~Fine(k) /\ k # 0
    BY <1>5, <2>3, Zenon
  <2>5. k - 1 \in 0..(n - 1) /\ k - 1 \in 0..n /\ (k - 1) + 1 = k /\ ~(k <= k - 1)
    BY <1>2, <2>4
  <2>6. Fine(k - 1)
    BY <2>3, <2>5, Zenon
  <2> QED
    BY <1>6, <2>4, <2>5, <2>6, Zenon
<1>8. page + n - 1 = page + bytes \div PageSize
  BY <1>1, <1>2, Zenon
<1>9. Holds(w, Span(P, t, page, n))
  BY <1>4, <1>7, Zenon
<1> QED
  BY <1>8, <1>9, Zenon DEF Span

(* The same for a range of physical memory that is mapped at va(), even when *)
(* the loop goes one page beyond the end of memory.                          *)
LEMMA MapKernelHolds ==
  ASSUME NEW s, Rec(s), NEW P, Kernel \in DOMAIN s.pgt, Holds(s, P), NEW page \in Nat, NEW bytes \in Nat,
         page + bytes \div PageSize <= Pages, NEW w, w = map_kernel(s, page, bytes), Running(w)
  PROVE  Holds(w, P \cup page..(page + bytes \div PageSize))
<1> DEFINE q == bytes \div PageSize
<1>1. q \in Nat /\ Pages \in Nat
  BY PageCounts, ConstantTypes, Zenon
<1>2. \A j \in 0..q : InHalf(Kernel, va(page) + j) /\ va(page) + j = va(page + j)
  <2> TAKE j \in 0..q
  <2> j \in Nat /\ page + j \in Nat /\ page + j <= Pages
    <3> HIDE DEF q
    <3>1. page + q <= Pages
      BY Zenon DEF q
    <3> QED
      BY <1>1, <3>1
  <2>2. Pages <= Fanout * Fanout * Fanout /\ Fanout * Fanout * Fanout \in Nat
    <3>1. Fanout \in Nat
      BY ConstantTypes, Zenon
    <3> QED
      BY <3>1, PagingAssumption
  <2>3. page + j <= Fanout * Fanout * Fanout
    <3> DEFINE c == Fanout * Fanout * Fanout
    <3>1. c \in Nat /\ Pages <= c
      BY <2>2, Zenon
    <3> HIDE DEF c
    <3>2. page + j <= c
      BY <1>1, <3>1
    <3> QED
      BY <3>2, Zenon DEF c
  <2>4. va(page + j) \in Nat /\ Up(Up(Up(va(page + j)))) \in Index
    BY <2>3, KernelHalf, Zenon
  <2>5. va(page) + j = va(page + j)
    BY ConstantTypes DEF va
  <2> QED
    BY <2>4, <2>5, Zenon DEF InHalf
<1>3. w = paging_contiguous_map(s, Kernel, page * PageSize, page * PageSize + bytes, va(page), FALSE)
  BY Zenon DEF map_kernel
<1>4. va(page) \in Nat
  BY KernelAddress, Zenon
<1>5. Holds(w, P \cup Gain(Kernel, page, page + bytes \div PageSize))
  BY <1>2, <1>3, <1>4, MapHolds, Zenon
<1> QED
  BY <1>5, Zenon DEF Gain

(* Mapping a block of bytes at va() maps every page of the block. *)
LEMMA MapBlockHolds ==
  ASSUME NEW s, Rec(s), NEW B, Kernel \in DOMAIN s.pgt, Holds(s, LivePages(B)), NEW page \in Nat, NEW bytes \in Nat,
         page + PagesOf(bytes) <= Pages, NEW w, w = map_kernel(s, page, bytes), Running(w)
  PROVE  Holds(w, LivePages(B \cup {<<page, bytes>>}))
<1> DEFINE q == bytes \div PageSize
           b == <<page, bytes>>
<1>1. /\ PagesOf(bytes) \in Nat /\ q \in Nat /\ Pages \in Nat
      /\ PagesOf(bytes) - 1 <= q /\ q <= PagesOf(bytes)
  BY PageCounts, ConstantTypes, Zenon
<1>2. page + q <= Pages
  <2> HIDE DEF q
  <2> QED
    BY <1>1
<1>3. Holds(w, LivePages(B) \cup page..(page + q))
  BY <1>2, MapKernelHolds, Zenon
<1>4. BlockPages(b) = page..(page + PagesOf(bytes) - 1)
  BY Zenon DEF BlockPages
<1>5. page..(page + PagesOf(bytes) - 1) \subseteq page..(page + q)
  <2> HIDE DEF q
  <2> QED
    BY <1>1
<1> HIDE DEF b, q
<1>6. LivePages(B \cup {b}) \subseteq LivePages(B) \cup page..(page + q)
  BY <1>4, <1>5, LivePagesAdd, Zenon
<1>7. Holds(w, LivePages(B \cup {b}))
  BY <1>3, <1>6, HoldsLess, Zenon
<1> QED
  BY <1>7, Zenon DEF b

(* kmalloc maps the block it returns, and every block that was live stays    *)
(* mapped.                                                                   *)
LEMMA KmallocServed ==
  ASSUME NEW s, Rec(s), Served(s), NEW bytes \in Nat, NEW w, w = kmalloc(s, bytes), Running(w)
  PROVE  Served(w)
<1> DEFINE a == kmalloc_raw(s, bytes)
<1>1. w = IF a.bug # "" THEN a ELSE map_kernel(a, a.ptr, bytes)
  BY Zenon DEF kmalloc
<1>2. Grows(s, a) /\ (a.bug = "" => NewBlock(s, a, bytes)) /\ Rec(a)
  BY RawGrows, GrowsRec, Zenon
<1> HIDE DEF a
<1>3. a.bug = ""
  BY <1>1, Zenon DEF Running
<1>4. a.ptr \in Nat /\ a.ptr + PagesOf(bytes) <= Pages /\ a.live = s.live \cup {<<a.ptr, bytes>>} /\ NewBlock(s, a, bytes)
  BY <1>2, <1>3, Zenon DEF NewBlock
<1>5. w = map_kernel(a, a.ptr, bytes)
  BY <1>1, <1>3, Zenon
<1>6. Adds(a, w)
  BY <1>2, <1>4, <1>5, MapKernelAdds, Zenon
<1>7. w.live = a.live /\ DOMAIN w.pgt = DOMAIN a.pgt
  BY <1>6, Zenon DEF Adds, SameRoots
<1>8. a.mem = s.mem /\ a.pgt = s.pgt
  <2>1. s.bug = ""
    BY <1>2, <1>3, Zenon DEF Grows
  <2> QED
    BY <2>1, RawBlock, Zenon DEF a
<1>9. Kernel \in DOMAIN a.pgt /\ Holds(a, LivePages(s.live)) /\ \A q \in LivePages(s.live) : q \in 0..(Pages - 1)
  BY <1>8, Zenon DEF Served, Holds, Good
<1>10. Holds(w, LivePages(w.live))
  BY <1>2, <1>4, <1>5, <1>7, <1>9, MapBlockHolds, Zenon
<1>11. \A q \in LivePages(w.live) : q \in 0..(Pages - 1)
  BY <1>4, <1>7, <1>9, NewBlockInside, Zenon
<1> QED
  BY <1>7, <1>9, <1>10, <1>11, Zenon DEF Served

(* Mapping the text or the stack of a process in its own half leaves the     *)
(* memory of the kernel mapped.                                              *)
LEMMA UserMapServed ==
  ASSUME NEW s, Rec(s), Served(s), NEW t \in DOMAIN s.pgt, t # Kernel, NEW page \in Nat, NEW bytes \in Nat,
         NEW v \in Nat, v + bytes \div PageSize < va(0), NEW w,
         w = paging_contiguous_map(s, t, page * PageSize, page * PageSize + bytes, v, TRUE), Running(w)
  PROVE  Served(w)
<1>1. Adds(s, w)
  BY MapBlockAdds, Zenon
<1>2. \A j \in 0..(bytes \div PageSize) : InHalf(t, v + j)
  <2> TAKE j \in 0..(bytes \div PageSize)
  <2>1. bytes \div PageSize \in Nat /\ va(0) \in Nat
    BY PageCounts, KernelAddress, Zenon
  <2>2. v + j \in Nat /\ v + j < va(0)
    BY <2>1
  <2>3. Up(Up(Up(v + j))) \in UserHalf
    BY <2>2, LowerHalf, Zenon
  <2> QED
    BY <2>2, <2>3, Zenon DEF InHalf
<1>3. Holds(w, LivePages(s.live) \cup Gain(t, page, page + bytes \div PageSize))
  BY <1>2, MapHolds, Zenon DEF Served
<1>4. Holds(w, LivePages(s.live))
  BY <1>3, HoldsLess, Zenon
<1> QED
  BY <1>1, <1>4, Zenon DEF Served, Adds, SameRoots

-----------------------------------------------------------------------------
(* The invariant *)

Text == <<0, KernelEnd * PageSize>>
Header == <<HeaderPage, PageSize>>

(* While mm_init runs the header of the allocator is not mapped yet.         *)
Mappings ==
  bug = "" =>
    /\ pc = "paging_setup" => live = {Text, Header}
    /\ pc = "mm_init" => /\ DOMAIN pgt = {Kernel} /\ Holds(Now, LivePages(live \ {Header}))
                         /\ \A q \in LivePages(live) : q \in 0..(Pages - 1)
    /\ pc = "up" => Served(Now) /\ SameTop(mem, pgt)

(* The last step of mm_init, which maps the header of the allocator,         *)
(* completes the kernel's mappings, and the root has its entry for physical  *)
(* memory.                                                                   *)
LEMMA HeaderMapped ==
  ASSUME Mappings, mm_init
  PROVE  Mappings'
<1> DEFINE s == map_kernel(Now, HeaderPage, PageSize)
<1> SUFFICES ASSUME bug' = "" PROVE Served(Now') /\ SameTop(mem', pgt')
  BY Zenon DEF Mappings, mm_init
<1>1. bug = "" /\ pc = "mm_init" /\ Become(s)
  BY Zenon DEF mm_init
<1>2. /\ DOMAIN pgt = {Kernel} /\ Holds(Now, LivePages(live \ {Header}))
      /\ \A q \in LivePages(live) : q \in 0..(Pages - 1)
  BY <1>1, Zenon DEF Mappings
<1>3. PageSize \in Nat /\ HeaderPage \in Nat /\ Pages \in Nat /\ HeaderPage < Pages
  BY ConstantTypes, PagingAssumption, Zenon
<1>4. Adds(Now, s)
  BY <1>3, NowRec, MapKernelAdds, Zenon
<1> s.mem = mem' /\ s.pgt = pgt' /\ s.live = live' /\ Running(s) /\ Now.live = live /\ Now.pgt = pgt
  BY <1>1, Zenon DEF Become, Running, Now
<1>6. PagesOf(PageSize) = 1 /\ HeaderPage + PagesOf(PageSize) <= Pages
  BY HeaderSize, Zenon
<1>7. Holds(s, LivePages((live \ {Header}) \cup {Header}))
  BY <1>2, <1>3, <1>6, NowRec, MapBlockHolds, Zenon DEF Header
<1> HIDE DEF s
<1>8. live' = live /\ DOMAIN pgt' = {Kernel}
  BY <1>2, <1>4, Zenon DEF Adds, SameRoots
<1>9. LivePages(live) \subseteq LivePages((live \ {Header}) \cup {Header})
  BY LivePagesLess, Zenon
<1>10. Holds(s, LivePages(s.live))
  BY <1>7, <1>8, <1>9, HoldsLess, Zenon
<1>11. Served(Now')
  <2>1. Now'.mem = s.mem /\ Now'.pgt = s.pgt /\ Now'.live = s.live
    BY Zenon DEF Now
  <2> QED
    BY <1>2, <1>8, <1>10, <2>1, Zenon DEF Served, Holds, Good
<1>12. SameTop(mem', pgt')
  <2>1. PICK lab : Good(s, lab, LivePages((live \ {Header}) \cup {Header}))
    BY <1>7, Zenon DEF Holds
  <2>2. HeaderPage \in LivePages((live \ {Header}) \cup {Header})
    <3>1. HeaderPage \in BlockPages(Header)
      <4>1. BlockPages(Header) = HeaderPage..(HeaderPage + PagesOf(PageSize) - 1)
        BY Zenon DEF BlockPages, Header
      <4> QED
        BY <4>1, HeaderSize, Zenon
    <3> QED
      BY <3>1, LivePagesAdd, Zenon
  <2>3. Tree(s.mem, s.pgt, lab) /\ Mapped(s.mem, lab, va(HeaderPage))
    BY <2>1, <2>2, Zenon DEF Good
  <2>4. HeaderPage < Fanout * Fanout * Fanout
    BY <1>3, PagesFit, Zenon
  <2>5. Kernel \in DOMAIN s.pgt
    BY <1>8, Zenon
  <2>6. s.mem[s.pgt[Kernel].root][Fanout \div 2] # Empty
    BY <1>3, <2>3, <2>4, <2>5, KernelView, Zenon
  <2>7. s.pgt[Kernel].root \in DOMAIN s.mem
    BY <2>3, <2>5, Zenon DEF Tree, Labels
  <2> QED
    BY <1>8, <2>6, <2>7, Zenon DEF SameTop
<1> QED
  BY <1>11, <1>12, Zenon

(* A call of kmalloc by other code of the kernel keeps the mappings. *)
LEMMA GrowsMappings ==
  ASSUME Mappings, bug = "", pc = "up", NEW s, Grows(Now, s), Become(s), Running(s) => Served(s), pc' = "up"
  PROVE  Mappings'
<1> SUFFICES ASSUME bug' = "" PROVE Served(Now') /\ SameTop(mem', pgt')
  BY Zenon DEF Mappings
<1> s.mem = mem' /\ s.pgt = pgt' /\ s.live = live' /\ Running(s) /\ Now.mem = mem /\ Now.pgt = pgt
  BY Zenon DEF Become, Running, Now
<1>2. Served(Now) /\ SameTop(mem, pgt)
  BY Zenon DEF Mappings
<1>3. Served(Now')
  <2>1. Now'.mem = s.mem /\ Now'.pgt = s.pgt /\ Now'.live = s.live
    BY Zenon DEF Now
  <2> QED
    BY <2>1, Zenon DEF Served, Holds, Good
<1>4. Keeps(mem, mem') /\ SameRoots(pgt, pgt') /\ Kernel \in DOMAIN pgt
  BY <1>2, Zenon DEF Grows, Served
<1> QED
  BY <1>2, <1>3, <1>4, SameTopKept, Zenon

(* The tables lie in blocks that no other code of the kernel holds: what     *)
(* kmalloc hands out next is not a table.                                    *)
Homes ==
  bug = "" =>
    /\ held \subseteq live /\ DOMAIN mem \subseteq Taken(live \ held)
    /\ pc = "paging_setup" => mem = << >> /\ pgt = << >> /\ held = {}

Kept == Keeps(mem, mem') /\ \A t \in DOMAIN pgt : pgt'[t].root = pgt[t].root

(* More blocks take more memory. *)
LEMMA TakenMonotonic ==
  ASSUME NEW A, NEW B, A \subseteq B
  PROVE  Taken(A) \subseteq Taken(B)
BY Zenon DEF Taken

(* The pages of a new block are taken by it, and it was not live before. *)
LEMMA BlockTaken ==
  ASSUME NEW s, NEW w, NEW bytes \in Nat, NewBlock(s, w, bytes)
  PROVE  /\ \A p \in w.ptr..(w.ptr + PagesOf(bytes) - 1) : p \in Taken({<<w.ptr, bytes>>})
         /\ <<w.ptr, bytes>> \notin s.live
<1> DEFINE n == PagesOf(bytes)
           b == <<w.ptr, bytes>>
<1> w.ptr \in Nat /\ bytes > 0 /\ w.ptr + n <= Pages /\ \A p \in w.ptr..(w.ptr + n - 1) : p \notin Taken(s.live)
  BY Zenon DEF NewBlock
<1>2. n \in Nat /\ n > 0
  BY PageCounts, Zenon
<1>3. Pages \in Nat
  BY ConstantTypes, Zenon
<1>4. n <= Pages
  BY <1>2, <1>3
<1>5. clp2(n) \in Nat /\ clp2(n) >= n
  BY <1>2, <1>4, BlockSize, Zenon
<1>6. \A p \in w.ptr..(w.ptr + n - 1) : p \in w.ptr..(w.ptr + clp2(n) - 1)
  BY <1>2, <1>5
<1>7. \A S : b \in S => w.ptr..(w.ptr + clp2(n) - 1) \subseteq Taken(S)
  <2> TAKE S
  <2> HAVE b \in S
  <2>1. b[1] = w.ptr /\ b[2] = bytes
    BY Zenon
  <2>2. b[1]..(b[1] + clp2(PagesOf(b[2])) - 1) \in {c[1]..(c[1] + clp2(PagesOf(c[2])) - 1) : c \in S}
    BY Zenon
  <2>3. b[1]..(b[1] + clp2(PagesOf(b[2])) - 1) \subseteq Taken(S)
    BY <2>2, Zenon DEF Taken
  <2> QED
    BY <2>1, <2>3, Zenon
<1>8. w.ptr \in w.ptr..(w.ptr + n - 1)
  BY <1>2
<1> HIDE DEF n, b
<1>9. b \in s.live => w.ptr \in Taken(s.live)
  BY <1>6, <1>7, <1>8, Zenon
<1>10. b \notin s.live
  BY <1>8, <1>9, Zenon
<1>11. \A p \in w.ptr..(w.ptr + n - 1) : p \in Taken({b})
  BY <1>6, <1>7, Zenon
<1> QED
  BY <1>10, <1>11, Zenon DEF n, b

(* paging_setup builds the kernel's first tables: it replaces no entry, the  *)
(* tables lie in a block of their own, and the text, the tables and their    *)
(* database are mapped.                                                      *)
LEMMA SetupKept ==
  ASSUME Homes, paging_setup
  PROVE  Kept /\ Homes' /\ (Mappings => Mappings')
<1> DEFINE bytes == paging_calc_space_needed(Pages * PageSize)
           pfdb_bytes == pageframe_calc_space_needed(bytes)
           tables == kmalloc_raw(Now, bytes)
           nodes == kmalloc_raw(tables, pfdb_bytes)
           zero == paging_init(nodes, Kernel, tables.ptr, bytes, pfdb_bytes)
           text == map_kernel(zero, 0, KernelEnd * PageSize)
           self == map_kernel(text, tables.ptr, bytes)
           done == map_kernel(self, nodes.ptr, pfdb_bytes)
<1>1. bug = "" /\ mem = << >> /\ pgt = << >> /\ held = {} /\ held' = held /\ pc' = "mm_init" /\ Become(done)
  BY Zenon DEF paging_setup, Homes
<1>2. Kept
  <2>1. DOMAIN mem = {} /\ DOMAIN pgt = {}
    BY <1>1, EmptyDomain, Zenon
  <2> QED
    BY <2>1, Zenon DEF Kept, Keeps
<1>3. PICK n \in Nat \ {0} : bytes = n * PageSize /\ pfdb_bytes = n * NodeSize /\ bytes \in Nat /\ pfdb_bytes \in Nat
  <2>1. Pages * PageSize \in Nat
    BY ConstantTypes
  <2> QED
    BY <2>1, TableSpace, Zenon
<1> HIDE DEF bytes, pfdb_bytes, tables, nodes, zero, text, self, done
<1>4. Rec(Now) /\ Now.mem = mem /\ Now.pgt = pgt /\ Now.live = live /\ Now.bug = bug
  BY NowRec, Zenon DEF Now
<1>5. Grows(Now, tables) /\ (tables.bug = "" => NewBlock(Now, tables, bytes)) /\ Rec(tables)
  BY <1>3, <1>4, RawGrows, GrowsRec, Zenon DEF tables
<1>6. Grows(tables, nodes) /\ (nodes.bug = "" => NewBlock(tables, nodes, pfdb_bytes)) /\ Rec(nodes)
  BY <1>3, <1>5, RawGrows, GrowsRec, Zenon DEF nodes
<1>7. tables.ptr \in Nat /\ nodes.ptr \in Nat /\ KernelEnd * PageSize \in Nat
  <2>1. tables.ptr \in Nat /\ nodes.ptr \in Nat
    BY <1>5, <1>6, Zenon DEF Rec
  <2>2. KernelEnd * PageSize \in Nat
    BY ConstantTypes
  <2> QED
    BY <2>1, <2>2, Zenon
<1>8. nodes.bug # "" => zero = nodes
  BY Zenon DEF zero, paging_init
<1>9. nodes.bug = "" => Zeroed(nodes, Kernel, tables.ptr, n, zero) /\ Rec(zero)
  <2>1. zero = paging_init(nodes, Kernel, tables.ptr, n * PageSize, n * NodeSize)
    BY <1>3, Zenon DEF zero
  <2>2. nodes.bug = "" => Zeroed(nodes, Kernel, tables.ptr, n, zero)
    BY <1>6, <1>7, <2>1, InitTables, Zenon
  <2> QED
    BY <2>2, Zenon DEF Zeroed
<1>10. Adds(zero, text) /\ Rec(text)
  BY <1>6, <1>7, <1>8, <1>9, MapKernelAdds, AddsRec, Zenon DEF text
<1>11. Adds(text, self) /\ Rec(self)
  BY <1>3, <1>7, <1>10, MapKernelAdds, AddsRec, Zenon DEF self
<1>12. Adds(self, done)
  BY <1>3, <1>7, <1>11, MapKernelAdds, Zenon DEF done
<1>13. SUFFICES ASSUME bug' = ""
                PROVE  /\ live' \cap held = {} /\ DOMAIN mem' \subseteq Taken(live')
                       /\ live = {Text, Header} =>
                            /\ DOMAIN pgt' = {Kernel} /\ Holds(Now', LivePages(live' \ {Header}))
                            /\ \A q \in LivePages(live') : q \in 0..(Pages - 1)
  BY <1>1, <1>2, Zenon DEF Homes, Mappings, paging_setup
<1>14. done.bug = "" /\ nodes.bug = "" /\ tables.bug = ""
  <2>1. done.bug = "" /\ zero.bug = ""
    BY <1>1, <1>10, <1>11, <1>12, <1>13, Zenon DEF Become, Adds
  <2>2. nodes.bug = ""
    BY <1>8, <2>1, Zenon
  <2> QED
    BY <1>6, <2>1, <2>2, Zenon DEF Grows
<1>15. DOMAIN done.mem = DOMAIN mem \cup tables.ptr..(tables.ptr + n - 1) /\ done.live = nodes.live
  BY <1>4, <1>5, <1>6, <1>9, <1>10, <1>11, <1>12, <1>14, Zenon DEF Adds, Grows, Zeroed
<1>16. DOMAIN mem = {}
  BY <1>1, EmptyDomain, Zenon
<1>17. PagesOf(bytes) = n
  BY <1>3, WholePages, Zenon
<1>18. \A p \in tables.ptr..(tables.ptr + n - 1) : p \in Taken({<<tables.ptr, bytes>>})
  BY <1>3, <1>5, <1>14, <1>17, BlockTaken, Zenon
<1>19. {<<tables.ptr, bytes>>} \subseteq nodes.live
  BY <1>5, <1>6, <1>14, Zenon DEF NewBlock, Grows
<1>20. Taken({<<tables.ptr, bytes>>}) \subseteq Taken(nodes.live)
  BY <1>19, TakenMonotonic, Zenon
<1>21. live' \cap held = {} /\ DOMAIN mem' \subseteq Taken(live')
  BY <1>1, <1>15, <1>16, <1>18, <1>20, Zenon DEF Become
<1>22. NewBlock(Now, tables, bytes) /\ NewBlock(tables, nodes, pfdb_bytes) /\ live' = nodes.live
  BY <1>1, <1>5, <1>6, <1>14, <1>15, Zenon DEF Become
<1>23. DOMAIN pgt' = {Kernel} /\ Kernel \in DOMAIN zero.pgt /\ Kernel \in DOMAIN text.pgt /\ Kernel \in DOMAIN self.pgt
  <2>1. DOMAIN nodes.pgt = {}
    BY <1>1, <1>4, <1>5, <1>6, EmptyDomain, Zenon DEF Grows, SameRoots
  <2> QED
    BY <1>1, <1>9, <1>10, <1>11, <1>12, <1>14, <2>1, Zenon DEF Zeroed, Adds, SameRoots, Become
<1>24. Holds(zero, LivePages({}))
  <2>1. DOMAIN nodes.mem = {} /\ DOMAIN nodes.pgt = {}
    BY <1>1, <1>4, <1>5, <1>6, EmptyDomain, Zenon DEF Grows, SameRoots
  <2>2. Holds(nodes, LivePages({}))
    BY <2>1, EmptyHolds, Zenon
  <2> QED
    BY <1>7, <1>9, <1>14, <2>1, <2>2, InitHolds, Zenon
<1> DEFINE b1 == <<tables.ptr, bytes>>
           b2 == <<nodes.ptr, pfdb_bytes>>
           B == {} \cup {Text} \cup {b1} \cup {b2}
<1>25. Holds(done, LivePages(B))
  <2> Running(done) /\ Running(self) /\ Running(text)
    BY <1>11, <1>12, <1>14, Zenon DEF Adds, Running
  <2>2. Holds(text, LivePages({} \cup {Text}))
    BY <1>7, <1>8, <1>9, <1>14, <1>23, <1>24, BootBlocks, MapBlockHolds, Zenon DEF text, Text
  <2>3. tables.ptr + PagesOf(bytes) <= Pages /\ nodes.ptr + PagesOf(pfdb_bytes) <= Pages
    BY <1>22, Zenon DEF NewBlock
  <2>4. Holds(self, LivePages({} \cup {Text} \cup {b1}))
    BY <1>3, <1>7, <1>10, <1>23, <2>2, <2>3, MapBlockHolds, Zenon DEF self
  <2> QED
    BY <1>3, <1>7, <1>11, <1>23, <2>3, <2>4, MapBlockHolds, Zenon DEF done
<1> ASSUME live = {Text, Header}
       PROVE  Holds(Now', LivePages(live' \ {Header})) /\ \A q \in LivePages(live') : q \in 0..(Pages - 1)
  <2>1. \A q \in LivePages(live) : q \in 0..(Pages - 1)
    BY BootBlocks, Zenon DEF Text, Header
  <2>2. \A q \in LivePages(tables.live) : q \in 0..(Pages - 1)
    BY <1>3, <1>4, <1>22, <2>1, NewBlockInside, Zenon
  <2>3. \A q \in LivePages(live') : q \in 0..(Pages - 1)
    BY <1>3, <1>22, <2>2, NewBlockInside, Zenon
  <2>4. live' \ {Header} \subseteq B
    BY <1>4, <1>22, Zenon DEF NewBlock
  <2> HIDE DEF B
  <2>5. Holds(done, LivePages(live' \ {Header}))
    BY <1>25, <2>4, HoldsLess, LivePagesLess, Zenon
  <2>6. Now'.mem = done.mem /\ Now'.pgt = done.pgt
    BY <1>1, Zenon DEF Become, Now
  <2> QED
    BY <2>3, <2>5, <2>6, Zenon DEF Holds, Good
<1> QED
  BY <1>21, <1>23, Zenon

(* A call of kmalloc leaves the tables where they are and replaces no entry. *)
LEMMA GrowsHomes ==
  ASSUME Homes, bug = "", pc' # "paging_setup", NEW s, Grows(Now, s), Become(s),
         held' = held \/ held' = held \cup (s.live \ live)
  PROVE  Kept /\ Homes'
<1>1. /\ mem' = s.mem /\ pgt' = s.pgt /\ live' = s.live
      /\ Now.mem = mem /\ Now.pgt = pgt /\ Now.live = live
  BY Zenon DEF Become, Now
<1> live \subseteq live' /\ DOMAIN mem' = DOMAIN mem /\ Kept
  BY <1>1, Zenon DEF Grows, SameRoots, Kept
<1>3. held \subseteq live /\ DOMAIN mem \subseteq Taken(live \ held)
  BY Zenon DEF Homes
<1>4. live \ held \subseteq live' \ held' /\ held' \subseteq live'
  BY <1>1, <1>3, Zenon
<1>5. Taken(live \ held) \subseteq Taken(live' \ held')
  BY <1>4, TakenMonotonic, Zenon
<1>6. DOMAIN mem' \subseteq Taken(live' \ held')
  BY <1>3, <1>5, Zenon
<1> QED
  BY <1>4, <1>6, Zenon DEF Homes

(* create_process replaces no entry of any table, although it clears the     *)
(* pages of its new ones; the new tables lie in a block of their own; the    *)
(* memory of the kernel stays mapped, in the new process too.                *)
LEMMA CreateKept ==
  ASSUME Homes, NEW t \in Procs, create_process(t)
  PROVE  Kept /\ Homes' /\ (Mappings => Mappings')
<1> DEFINE bytes == paging_calc_space_needed(vm_area)
           pfdb_bytes == pageframe_calc_space_needed(bytes)
           task == kmalloc(Now, PageSize)
           tables == kmalloc(task, bytes)
           nodes == kmalloc(tables, pfdb_bytes)
           zero == paging_init(nodes, t, tables.ptr, bytes, pfdb_bytes)
           text == paging_contiguous_map(zero, t, TextPage * PageSize, TextPage * PageSize + TextSize, TextVirt, TRUE)
           user == kmalloc(text, StackSize)
           stack == map_user_stack(user, t)
           kstack == kmalloc(stack, StackSize)
           done == share_kernel(kstack, t)
<1>1. bug = "" /\ pc = "up" /\ pc' = pc /\ held' = held /\ t \notin DOMAIN pgt /\ Become(done)
  BY Zenon DEF create_process
<1>2. PICK n \in Nat \ {0} : bytes = n * PageSize /\ pfdb_bytes = n * NodeSize /\ bytes \in Nat /\ pfdb_bytes \in Nat
  <2>1. vm_area \in Nat
    BY ConstantTypes, Zenon DEF vm_area
  <2> QED
    BY <2>1, TableSpace, Zenon
<1>3. PageSize \in Nat /\ StackSize \in Nat /\ TextPage \in Nat /\ TextSize \in Nat
  BY ConstantTypes, Zenon
<1> HIDE DEF bytes, pfdb_bytes, task, tables, nodes, zero, text, user, stack, kstack, done
<1>4. Rec(Now) /\ Now.mem = mem /\ Now.pgt = pgt /\ Now.live = live /\ Now.bug = bug
  BY NowRec, Zenon DEF Now
<1>5. Grows(Now, task) /\ Rec(task)
  BY <1>3, <1>4, KmallocGrows, GrowsRec, Zenon DEF task
<1>6. Grows(task, tables) /\ (tables.bug = "" => NewBlock(task, tables, bytes)) /\ Rec(tables)
  BY <1>2, <1>5, KmallocGrows, GrowsRec, Zenon DEF tables
<1>7. Grows(tables, nodes) /\ Rec(nodes)
  BY <1>2, <1>6, KmallocGrows, GrowsRec, Zenon DEF nodes
<1>8. tables.ptr \in Nat
  BY <1>6, Zenon DEF Rec
<1>9. nodes.bug # "" => zero = nodes
  BY Zenon DEF zero, paging_init
<1>10. nodes.bug = "" => Zeroed(nodes, t, tables.ptr, n, zero) /\ Rec(zero)
  <2>1. zero = paging_init(nodes, t, tables.ptr, n * PageSize, n * NodeSize)
    BY <1>2, Zenon DEF zero
  <2>2. nodes.bug = "" => Zeroed(nodes, t, tables.ptr, n, zero)
    BY <1>7, <1>8, <2>1, InitTables, Zenon
  <2> QED
    BY <2>2, Zenon DEF Zeroed
<1>11. Adds(zero, text) /\ Rec(text)
  BY <1>3, <1>7, <1>9, <1>10, MapBlockAdds, AddsRec, Zenon DEF text
<1>12. Grows(text, user) /\ Rec(user)
  BY <1>3, <1>11, KmallocGrows, GrowsRec, Zenon DEF user
<1>13. Adds(user, stack) /\ Rec(stack)
  <2>1. user.ptr \in Nat
    BY <1>12, Zenon DEF Rec
  <2> QED
    BY <1>3, <1>12, <2>1, MapBlockAdds, AddsRec, Zenon DEF stack, map_user_stack
<1>14. Grows(stack, kstack) /\ Rec(kstack)
  BY <1>3, <1>13, KmallocGrows, GrowsRec DEF kstack
<1>15. Grows(zero, kstack)
  BY <1>11, <1>12, <1>13, <1>14, AddsGrows, GrowsTwice, Zenon
<1>16. Grows(Now, tables) /\ Grows(Now, nodes)
  BY <1>5, <1>6, <1>7, GrowsTwice, Zenon
<1>17. CASE nodes.bug # ""
  <2> Grows(Now, kstack) /\ kstack.bug # ""
    <3>1. Grows(Now, kstack) /\ Grows(nodes, kstack)
      BY <1>9, <1>15, <1>16, <1>17, GrowsTwice, Zenon
    <3> QED
      BY <1>17, <3>1, Zenon DEF Grows
  <2>2. done = kstack
    BY Zenon DEF done, share_kernel
  <2>3. Kept /\ Homes'
    BY <1>1, <2>2, GrowsHomes, Zenon
  <2>4. bug' # ""
    BY <1>1, <2>2, Zenon DEF Become
  <2> QED
    BY <2>3, <2>4, Zenon DEF Mappings
<1>18. CASE nodes.bug = ""
  <2> DEFINE Z == tables.ptr..(tables.ptr + n - 1)
             r == tables.ptr + n - 1
             b == <<tables.ptr, bytes>>
  <2>1. r \in Z
    BY <1>8
  <2>2. tables.bug = "" /\ NewBlock(task, tables, bytes)
    BY <1>6, <1>7, <1>18, Zenon DEF Grows
  <2>3. PagesOf(bytes) = n
    BY <1>2, WholePages, Zenon
  <2>4. b \notin task.live /\ (\A p \in Z : p \in Taken({b})) /\ (\A p \in Z : p \notin Taken(task.live)) /\ b \in tables.live
    <3>1. (\A p \in Z : p \in Taken({b})) /\ b \notin task.live
      BY <1>2, <2>2, <2>3, BlockTaken, Zenon
    <3> QED
      BY <2>2, <2>3, <3>1, Zenon DEF NewBlock
  <2>5. held \subseteq live /\ DOMAIN mem \subseteq Taken(live \ held) /\ live \subseteq task.live
    BY <1>1, <1>4, <1>5, Zenon DEF Homes, Grows
  <2>6. DOMAIN mem \cap Z = {}
    <3>1. Taken(live \ held) \subseteq Taken(task.live)
      BY <2>5, TakenMonotonic, Zenon
    <3> QED
      BY <2>4, <2>5, <3>1, Zenon
  <2>7. /\ DOMAIN zero.mem = DOMAIN mem \cup Z /\ Keeps(mem, zero.mem)
        /\ zero.pgt[t].root = r /\ t \in DOMAIN zero.pgt
        /\ \A u \in DOMAIN pgt : u \in DOMAIN zero.pgt /\ zero.pgt[u].root = pgt[u].root
    <3> HIDE DEF Z, r, b
    <3>1. DOMAIN nodes.mem = DOMAIN mem /\ Keeps(mem, nodes.mem) /\ SameRoots(pgt, nodes.pgt)
      BY <1>4, <1>16, Zenon DEF Grows
    <3>2. /\ DOMAIN zero.mem = DOMAIN nodes.mem \cup Z /\ zero.pgt[t].root = r
          /\ DOMAIN zero.pgt = DOMAIN nodes.pgt \cup {t}
          /\ \A f \in DOMAIN nodes.mem \ Z : zero.mem[f] = nodes.mem[f]
          /\ \A u \in DOMAIN nodes.pgt \ {t} : zero.pgt[u] = nodes.pgt[u]
      BY <1>10, <1>18, Zenon DEF Zeroed, Z, r
    <3>3. Keeps(mem, zero.mem)
      BY <2>6, <3>1, <3>2 DEF Keeps
    <3>4. \A u \in DOMAIN pgt : u \in DOMAIN zero.pgt /\ zero.pgt[u].root = pgt[u].root
      BY <1>1, <3>1, <3>2, Zenon DEF SameRoots
    <3> QED
      BY <3>1, <3>2, <3>3, <3>4, Zenon
  <2> HIDE DEF Z, r, b
  <2>8. /\ DOMAIN kstack.mem = DOMAIN mem \cup Z /\ Keeps(mem, kstack.mem) /\ kstack.pgt[t].root = r
        /\ \A u \in DOMAIN pgt : kstack.pgt[u].root = pgt[u].root
    BY <1>15, <2>7, ZenonT(60) DEF Grows, Keeps, SameRoots
  <2>9. /\ done.pgt = kstack.pgt /\ done.live = kstack.live /\ DOMAIN done.mem = DOMAIN kstack.mem
        /\ \A f \in DOMAIN kstack.mem : f # r => done.mem[f] = kstack.mem[f]
    <3>1. Shared(kstack, t, done)
      BY <1>14, ShareWrites, Zenon DEF done
    <3> QED
      BY <2>8, <3>1, Zenon DEF Shared
  <2>10. Keeps(mem, done.mem)
    BY <2>1, <2>6, <2>8, <2>9 DEF Keeps
  <2>11. Kept
    BY <1>1, <2>8, <2>9, <2>10, Zenon DEF Kept, Become
  <2>12. tables.live \subseteq done.live /\ task.live \subseteq done.live
    <3>1. zero.live = nodes.live
      BY <1>10, <1>18, Zenon DEF Zeroed
    <3> QED
      BY <1>6, <1>7, <1>15, <2>9, <3>1, Zenon DEF Grows
  <2>13. held \subseteq done.live /\ live \ held \subseteq done.live \ held /\ {b} \subseteq done.live \ held
    BY <2>4, <2>5, <2>12, Zenon
  <2>14. Taken(live \ held) \subseteq Taken(done.live \ held) /\ Taken({b}) \subseteq Taken(done.live \ held)
    BY <2>13, TakenMonotonic, Zenon
  <2>15. DOMAIN done.mem \subseteq Taken(done.live \ held)
    BY <2>4, <2>5, <2>8, <2>9, <2>14, Zenon
  <2>16. Homes'
    BY <1>1, <2>13, <2>15, Zenon DEF Homes, Become
  <2>17. ASSUME Mappings, bug' = "" PROVE Served(done)
    <3>1. Served(Now) /\ t # Kernel
      BY <1>1, <2>17, PagingAssumption, Zenon DEF Mappings
    <3>2. Running(done) /\ Running(kstack)
      <4>1. Shared(kstack, t, done)
        BY <1>14, ShareWrites DEF done
      <4> QED
        BY <1>1, <2>17, <4>1, Zenon DEF Shared, Running, Become
    <3>3. Running(stack) /\ Running(user) /\ Running(text) /\ Running(zero) /\ Running(nodes) /\ Running(tables) /\ Running(task)
      BY <1>6, <1>7, <1>11, <1>12, <1>13, <1>14, <1>18, <3>2, Zenon DEF Grows, Adds, Running
    <3>4. Served(task)
      BY <1>3, <1>4, <3>1, <3>3, KmallocServed, Zenon DEF task
    <3>5. Served(tables)
      BY <1>2, <1>5, <3>3, <3>4, KmallocServed, Zenon DEF tables
    <3>6. Served(nodes)
      BY <1>2, <1>6, <3>3, <3>5, KmallocServed, Zenon DEF nodes
    <3>7. Served(zero)
      <4>1. DOMAIN nodes.mem = DOMAIN mem /\ DOMAIN nodes.pgt = DOMAIN pgt
        BY <1>4, <1>16, Zenon DEF Grows, SameRoots
      <4>2. Zeroed(nodes, t, tables.ptr, n, zero) /\ DOMAIN nodes.mem \cap tables.ptr..(tables.ptr + n - 1) = {}
        BY <1>10, <1>18, <2>6, <4>1, Zenon DEF Z
      <4> QED
        BY <1>1, <1>8, <3>6, <4>1, <4>2, InitServed, Zenon
    <3>8. TextVirt \in Nat /\ StackVirt \in Nat /\ TextVirt + TextSize \div PageSize < va(0) /\ StackVirt + StackSize \div PageSize < va(0)
      BY ConstantTypes, PagingAssumption, Zenon
    <3> t \in DOMAIN zero.pgt /\ t \in DOMAIN user.pgt /\ t \in DOMAIN kstack.pgt
      BY <1>11, <1>12, <1>15, <2>7, Zenon DEF Grows, Adds, SameRoots
    <3>10. Served(text)
      BY <1>3, <1>10, <1>18, <3>1, <3>3, <3>7, <3>8, UserMapServed, ZenonT(60) DEF text
    <3>11. Served(user)
      BY <1>3, <1>11, <3>3, <3>10, KmallocServed, Zenon DEF user
    <3>12. Served(stack)
      <4>1. user.ptr \in Nat
        BY <1>12, Zenon DEF Rec
      <4>2. stack = paging_contiguous_map(user, t, user.ptr * PageSize, user.ptr * PageSize + StackSize, StackVirt, TRUE)
        BY Zenon DEF stack, map_user_stack
      <4> QED
        BY <1>3, <1>12, <3>1, <3>3, <3>8, <3>11, <4>1, <4>2, UserMapServed, Zenon
    <3>13. Served(kstack)
      BY <1>3, <1>13, <3>2, <3>12, KmallocServed, Zenon DEF kstack
    <3> QED
      <4>1. Shared(kstack, t, done)
        BY <1>14, ShareWrites, Zenon DEF done
      <4> QED
        BY <3>1, <3>2, <3>13, <4>1, ShareServed, Zenon
  <2>18. ASSUME Mappings, bug' = "" PROVE SameTop(mem', pgt')
    <3> DEFINE h == Fanout \div 2
               k == pgt[Kernel].root
    <3>1. SameTop(mem, pgt) /\ Kernel \in DOMAIN pgt
      BY <1>1, <2>18, Zenon DEF Mappings, Served, Now
    <3>2. h \in Index /\ h \notin UserHalf
      BY KernelTop, Zenon
    <3>3. Shared(kstack, t, done)
      BY <1>14, ShareWrites DEF done
    <3> mem' = done.mem /\ pgt' = done.pgt /\ done.bug = ""
      BY <1>1, <2>18, Zenon DEF Become
    <3>5. DOMAIN pgt' = DOMAIN pgt \cup {t}
      <4>1. DOMAIN nodes.pgt = DOMAIN pgt
        BY <1>4, <1>16, Zenon DEF Grows, SameRoots
      <4>2. DOMAIN zero.pgt = DOMAIN nodes.pgt \cup {t}
        BY <1>10, <1>18, Zenon DEF Zeroed
      <4> QED
        BY <1>15, <2>9, <4>1, <4>2, Zenon DEF Grows, SameRoots
    <3>a. mem[k][h] # Empty /\ \A u \in DOMAIN pgt : pgt[u].root \in DOMAIN mem /\ mem[pgt[u].root][h] = mem[k][h]
      BY <3>1, Zenon DEF SameTop
    <3> HIDE DEF h
    <3>6. \A u \in DOMAIN pgt : /\ pgt[u].root \in DOMAIN mem /\ pgt'[u].root = pgt[u].root /\ pgt[u].root \in DOMAIN mem'
                               /\ mem'[pgt[u].root][h] = mem[k][h] /\ mem[k][h] # Empty
      <4>1. \A f \in DOMAIN mem : f \in DOMAIN mem' /\ (mem[f][h] # Empty => mem'[f][h] = mem[f][h])
        BY <2>10, <3>2, Zenon DEF Keeps
      <4>2. \A u \in DOMAIN pgt : pgt'[u].root = pgt[u].root
        BY <2>8, <2>9, Zenon
      <4> QED
        BY <3>a, <4>1, <4>2, Zenon
    <3>7. mem'[r][h] = mem'[k][h] /\ r \in DOMAIN mem' /\ pgt'[t].root = r
      <4> k \in DOMAIN mem /\ k # r /\ r \in DOMAIN kstack.mem /\ k \in DOMAIN kstack.mem
        BY <2>1, <2>6, <2>8, <3>1, <3>6, Zenon
      <4>2. kstack.bug = "" /\ kstack.pgt[t].root = r /\ kstack.pgt[Kernel].root = k
        BY <2>8, <3>1, <3>3, Zenon DEF Shared
      <4>3. done.mem[r] = [i \in Index |-> IF i \in UserHalf THEN kstack.mem[r][i] ELSE kstack.mem[k][i]]
        BY <3>3, <4>2, Zenon DEF Shared
      <4>4. done.mem[r][h] = kstack.mem[k][h] /\ done.mem[k] = kstack.mem[k]
        BY <2>9, <3>2, <4>3, Zenon
      <4> QED
        BY <2>8, <2>9, <4>4, Zenon
    <3> QED
      BY <3>1, <3>5, <3>6, <3>7, ZenonT(60) DEF SameTop, h
  <2>19. Mappings => Mappings'
    <3> SUFFICES ASSUME Mappings, bug' = "" PROVE Served(Now') /\ SameTop(mem', pgt')
      BY <1>1, Zenon DEF Mappings
    <3>1. Now'.mem = done.mem /\ Now'.pgt = done.pgt /\ Now'.live = done.live
      BY <1>1, Zenon DEF Become, Now
    <3>2. Served(Now')
      BY <2>17, <3>1, Zenon DEF Served, Holds, Good
    <3> QED
      BY <2>18, <3>2, Zenon
  <2> QED
    BY <2>11, <2>16, <2>19, Zenon
<1> QED
  BY <1>17, <1>18, Zenon

(* what is known of the state of the kernel *)
Order == pc \in {"paging_setup", "mm_init", "up"} /\ (cr3 # Loader => pc = "up")

PagingInv == Homes /\ Mappings /\ Order

(* The invariant holds before paging_setup. *)
LEMMA PagingInit == Init => PagingInv
<1> SUFFICES ASSUME Init PROVE PagingInv
  BY Zenon
<1>1. mem = << >> /\ pgt = << >> /\ held = {} /\ live = {Text, Header} /\ cr3 = Loader /\ pc = "paging_setup"
  BY Zenon DEF Init, Text, Header
<1>2. DOMAIN mem = {}
  BY <1>1, EmptyDomain, Zenon
<1> QED
  BY <1>1, <1>2, Zenon DEF PagingInv, Homes, Mappings, Order

(* Every step of the kernel keeps the invariant and replaces no entry. *)
LEMMA PagingStep == PagingInv /\ [Next]_vars => PagingInv' /\ [Kept]_vars
<1> SUFFICES ASSUME PagingInv, [Next]_vars PROVE PagingInv' /\ (Kept \/ vars' = vars)
  BY Zenon
<1> USE DEF PagingInv
<1>1. CASE paging_setup
  <2>1. Order'
    BY <1>1, Zenon DEF paging_setup, Order
  <2> QED
    BY <1>1, <2>1, SetupKept, Zenon
<1>2. CASE mm_init
  <2> DEFINE s == map_kernel(Now, HeaderPage, PageSize)
  <2>1. bug = "" /\ pc' = "up" /\ held' = held /\ Become(s)
    BY <1>2, Zenon DEF mm_init
  <2>2. Adds(Now, s)
    BY NowRec, ConstantTypes, MapKernelAdds, Zenon
  <2> HIDE DEF s
  <2>3. Grows(Now, s)
    BY <2>2, AddsGrows, Zenon
  <2>4. Kept /\ Homes'
    BY <2>1, <2>3, GrowsHomes, Zenon
  <2>5. Order'
    BY <2>1, Zenon DEF Order
  <2> QED
    BY <1>2, <2>4, <2>5, HeaderMapped, Zenon
<1>3. ASSUME NEW t \in Procs, create_process(t) PROVE Kept /\ PagingInv'
  <2>1. Order'
    BY <1>3, Zenon DEF create_process, Order
  <2> QED
    BY <1>3, <2>1, CreateKept, Zenon
<1>4. ASSUME NEW t \in Procs, launch_process(t) PROVE Kept /\ PagingInv'
  <2>1. /\ mem' = mem /\ pgt' = pgt /\ live' = live /\ held' = held /\ pc' = pc /\ bug' = bug /\ pc = "up"
    BY <1>4, Zenon DEF launch_process
  <2> QED
    BY <2>1, Zenon DEF Homes, Kept, Keeps, Mappings, Order, Now
<1>5. ASSUME NEW bytes \in Requests, use_kmalloc(bytes) PROVE Kept /\ PagingInv'
  <2> DEFINE s == kmalloc(Now, bytes)
  <2> bug = "" /\ pc = "up" /\ pc' = pc /\ cr3' = cr3 /\ held' = held \cup (s.live \ live) /\ Become(s)
    BY <1>5, Zenon DEF use_kmalloc
  <2>2. bytes \in Nat
    BY PagingAssumption, Zenon
  <2>3. Grows(Now, s)
    BY <2>2, NowRec, KmallocGrows, Zenon
  <2>4. Running(s) => Served(s)
    <3>1. Served(Now)
      BY Zenon DEF Mappings
    <3> QED
      BY <2>2, <3>1, NowRec, KmallocServed, Zenon
  <2> HIDE DEF s
  <2>5. Kept /\ Homes'
    BY <2>3, GrowsHomes, Zenon
  <2>6. Mappings'
    BY <2>3, <2>4, GrowsMappings, Zenon
  <2> QED
    BY <2>5, <2>6, Zenon DEF Order
<1>6. ASSUME NEW block \in held, kfree(block) PROVE Kept /\ PagingInv'
  <2> /\ mem' = mem /\ pgt' = pgt /\ pc' = pc /\ bug' = bug /\ pc = "up" /\ cr3' = cr3
        /\ live' = live \ {block} /\ held' = held \ {block} /\ bug = ""
    BY <1>6, Zenon DEF kfree
  <2>2. held \subseteq live /\ DOMAIN mem \subseteq Taken(live \ held)
    BY Zenon DEF Homes
  <2>3. live' \ held' = live \ held /\ held' \subseteq live'
    BY <2>2, Zenon
  <2>4. Homes'
    BY <2>2, <2>3, Zenon DEF Homes
  <2> Served(Now) /\ SameTop(mem, pgt)
    BY Zenon DEF Mappings
  <2>6. Now'.mem = Now.mem /\ Now'.pgt = Now.pgt /\ Now.live = live /\ Now'.live = live'
    BY Zenon DEF Now
  <2>7. LivePages(live') \subseteq LivePages(live)
    BY LivePagesLess, Zenon
  <2>8. Holds(Now', LivePages(live))
    BY <2>6, Zenon DEF Served, Holds, Good
  <2>9. Holds(Now', LivePages(live'))
    BY <2>7, <2>8, HoldsLess, Zenon
  <2>10. Served(Now')
    BY <2>6, <2>7, <2>9, Zenon DEF Served
  <2>11. Mappings'
    BY <2>10, Zenon DEF Mappings
  <2> QED
    BY <2>4, <2>11, Zenon DEF Kept, Keeps, Order
<1>7. CASE UNCHANGED vars
  BY <1>7, Zenon DEF vars, Homes, Mappings, Order, Now
<1> QED
  BY <1>1, <1>2, <1>3, <1>4, <1>5, <1>6, <1>7, Zenon DEF Next

(* No step of the kernel changes or removes an entry that is present, in any *)
(* table, or the root of an address space: a translation in a TLB stays      *)
(* right (page.c calls no invalidate_page when it adds an entry).  For every *)
(* size of memory and of tables, every number of processes and of blocks.    *)
THEOREM EntriesNeverReplaced == Spec => EntriesKept
<1>1. [Kept]_vars =>
        [/\ \A f \in DOMAIN mem : \A i \in Index : mem[f][i] # Empty => mem'[f][i] = mem[f][i]
         /\ \A t \in DOMAIN pgt : pgt'[t].root = pgt[t].root]_vars
  BY Zenon DEF Kept, Keeps
<1> QED
  BY <1>1, PagingInit, PagingStep, PTL DEF Spec, EntriesKept

(* Once the kernel runs on its own tables, every page of every block that    *)
(* kmalloc has handed out, the text, the page tables and the header of the   *)
(* allocator are mapped where va() says, without the user bit, in the        *)
(* kernel's tables and in those of every process, whenever the block was     *)
(* allocated.                                                                *)
THEOREM LiveMemoryMapped == Spec => []LiveMapped
<1>1. PagingInv => LiveMapped
  <2> SUFFICES ASSUME PagingInv, cr3 # Loader, bug = "",
                      NEW t \in DOMAIN pgt, NEW b \in live, NEW p \in b[1]..(b[1] + PagesOf(b[2]) - 1)
               PROVE  View(t, va(p)) = <<p, FALSE>>
    BY Zenon DEF LiveMapped
  <2>1. Served(Now) /\ SameTop(mem, pgt)
    BY Zenon DEF PagingInv, Mappings, Order
  <2>2. p \in LivePages(live)
    BY Zenon DEF LivePages, BlockPages
  <2> /\ Kernel \in DOMAIN pgt /\ Holds(Now, LivePages(live)) /\ p \in 0..(Pages - 1)
    BY <2>1, <2>2, Zenon DEF Served, Now
  <2>4. PICK lab : Good(Now, lab, LivePages(live))
    BY Zenon DEF Holds
  <2>5. Tree(mem, pgt, lab) /\ p \in Nat /\ Mapped(mem, lab, va(p))
    BY <2>2, <2>4, Zenon DEF Good, Now
  <2>6. p < Fanout * Fanout * Fanout
    BY PageFits, Zenon
  <2>7. mem[pgt[t].root][Fanout \div 2] = mem[pgt[Kernel].root][Fanout \div 2]
    BY <2>1, Zenon DEF SameTop
  <2>8. Translate(mem, pgt[t].root, va(p)) = <<p, FALSE>>
    BY <2>5, <2>6, <2>7, KernelView, ZenonT(60)
  <2> QED
    BY <2>8, Zenon DEF View
<1> QED
  BY <1>1, PagingInit, PagingStep, PTL DEF Spec

(* The frames of every page table are split between its free and its used    *)
(* list, and the used ones are exactly the tables that can be reached from   *)
(* its root, each from one entry: page_alloc leaks no frame and uses none    *)
(* twice, for any sequence of kmalloc, kfree and create_process.             *)
THEOREM FramesExact == Spec => []FramesAreTables
<1>1. PagingInv => FramesAreTables
  <2> SUFFICES ASSUME PagingInv, bug = "" PROVE FramesAreTables
    BY ZenonT(60) DEF FramesAreTables
  <2>1. CASE pc = "paging_setup"
    <3>1. DOMAIN pgt = {}
      BY <2>1, EmptyDomain, Zenon DEF PagingInv, Homes
    <3> QED
      BY <3>1, Zenon DEF FramesAreTables
  <2>2. CASE pc # "paging_setup"
    <3>1. \E P : Holds(Now, P)
      BY <2>2, Zenon DEF PagingInv, Mappings, Order, Served
    <3>2. PICK lab : Tree(mem, pgt, lab)
      BY <3>1, Zenon DEF Holds, Good, Now
    <3>3. \A t \in DOMAIN pgt : Frames(mem, pgt, t)
      BY <3>2, TreeFrames, Zenon
    <3> QED
      BY <3>3, Zenon DEF FramesAreTables, Frames, TargetsOf, EntriesOf, OwnOf
  <2> QED
    BY <2>1, <2>2, Zenon
<1> QED
  BY <1>1, PagingInit, PagingStep, PTL DEF Spec
=============================================================================
