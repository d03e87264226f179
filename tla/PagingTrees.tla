---------------------------- MODULE PagingTrees ----------------------------
(***************************************************************************)
(* What the page tables of module Paging look like, and what one call of   *)
(* page_alloc, paging_init or share_kernel makes of them.  The tables of   *)
(* an address space form a tree of four levels: every table but the root   *)
(* has one entry that points to it, and covers the addresses of that       *)
(* entry.  The processor finds in such a tree what page_alloc put there,   *)
(* and the used frames of its database are the tables of the tree.         *)
(***************************************************************************)
EXTENDS Paging, TLAPS

-----------------------------------------------------------------------------
(* Division *)

(* Division with remainder. *)
LEMMA Euclid ==
  ASSUME NEW x \in Nat, NEW d \in Nat \ {0}
  PROVE  /\ x \div d \in Nat
         /\ x % d \in 0..(d - 1)
         /\ x = d * (x \div d) + (x % d)
OBVIOUS

(* The quotient is the only number whose multiple is the last one up to x.  *)
LEMMA DivUnique ==
  ASSUME NEW x \in Nat, NEW d \in Nat \ {0}, NEW q \in Nat, q * d <= x, x < q * d + d
  PROVE  x \div d = q
<1> DEFINE e == x \div d
<1>1. e \in Nat /\ e * d <= x /\ x < e * d + d BY Euclid
<1> HIDE DEF e
<1>2. CASE e < q
  <2>1. e + 1 <= q BY <1>1, <1>2
  <2>2. (e + 1) * d <= q * d BY <2>1, <1>1
  <2> QED BY <2>2, <1>1
<1>3. CASE q < e
  <2>1. q + 1 <= e BY <1>1, <1>3
  <2>2. (q + 1) * d <= e * d BY <2>1, <1>1
  <2> QED BY <2>2, <1>1
<1>4. e = q BY <1>1, <1>2, <1>3
<1> QED BY <1>4, Zenon DEF e

(* What DivUnique needs, from the quotient. *)
LEMMA DivBounds ==
  ASSUME NEW x \in Nat, NEW d \in Nat \ {0}
  PROVE  /\ x \div d \in Nat
         /\ (x \div d) * d <= x
         /\ x < (x \div d) * d + d
BY Euclid

(* Dividing by a product is dividing twice. *)
LEMMA DivDiv ==
  ASSUME NEW x \in Nat, NEW a \in Nat \ {0}, NEW b \in Nat \ {0}
  PROVE  x \div (a * b) = (x \div a) \div b
<1> DEFINE q == x \div a
<1>1. q \in Nat /\ q * a <= x /\ x < q * a + a BY DivBounds
<1> HIDE DEF q
<1> DEFINE p == q \div b
<1>2. p \in Nat /\ p * b <= q /\ q < p * b + b BY DivBounds, <1>1
<1> HIDE DEF p
<1>3. (p * b) * a <= q * a BY <1>1, <1>2
<1>4. (q + 1) * a <= (p * b + b) * a BY <1>1, <1>2
<1>5. p * (a * b) <= x BY <1>1, <1>2, <1>3
<1>6. x < p * (a * b) + a * b BY <1>1, <1>2, <1>4
<1>7. a * b \in Nat \ {0} OBVIOUS
<1>8. x \div (a * b) = p BY <1>2, <1>5, <1>6, <1>7, DivUnique
<1> QED BY <1>8, Zenon DEF p, q

-----------------------------------------------------------------------------
(* What page_alloc adds *)

(* no BUG_ON has stopped the kernel *)
Running(s) == s.bug = ""

(* the memory that an operation of the code works on *)
Rec(s) ==
  /\ s = [mem |-> s.mem, pgt |-> s.pgt, live |-> s.live, bug |-> s.bug, at |-> s.at, ptr |-> s.ptr]
  /\ s.ptr \in Nat

(* the address spaces of p are those of q, with the roots they had *)
SameRoots(q, p) == DOMAIN p = DOMAIN q /\ \A t \in DOMAIN q : p[t].root = q[t].root

(* every entry of the tables m is in the tables n *)
Keeps(m, n) ==
  DOMAIN m \subseteq DOMAIN n /\ \A f \in DOMAIN m : \A i \in Index : m[f][i] # Empty => n[f][i] = m[f][i]

(* w is what is left of s when page_alloc has added entries *)
Adds(s, w) ==
  /\ Rec(w) /\ w.live = s.live /\ w.ptr = s.ptr /\ (s.bug # "" => w.bug # "")
  /\ DOMAIN w.mem = DOMAIN s.mem /\ Keeps(s.mem, w.mem) /\ SameRoots(s.pgt, w.pgt)

(* What page_alloc adds in two steps it adds in one. *)
LEMMA AddsTwice ==
  ASSUME NEW s, NEW w, NEW x, Adds(s, w), Adds(w, x)
  PROVE  Adds(s, x)
BY ZenonT(60) DEF Adds, Keeps, SameRoots

(* Leaving the memory alone is adding nothing to it. *)
LEMMA AddsNothing ==
  ASSUME NEW s, Rec(s)
  PROVE  Adds(s, s)
BY Zenon DEF Adds, Keeps, SameRoots

(* Adding entries leaves a memory record a memory record. *)
LEMMA AddsRec ==
  ASSUME NEW s, NEW w, Adds(s, w)
  PROVE  Rec(w)
BY Zenon DEF Adds

(* One level of page_alloc (page.c) writes at most one entry, and only one   *)
(* that is absent.                                                           *)
LEMMA DescendAdds ==
  ASSUME NEW s, Rec(s), NEW t, NEW v, NEW user, NEW level
  PROVE  Adds(s, Descend(s, t, v, user, level))
<1> DEFINE i == Idx(level, v)
           e == s.mem[s.at][i]
           pfdb == s.pgt[t].pfdb
           w == Descend(s, t, v, user, level)
<1>1. CASE s.bug # ""
  BY <1>1, AddsNothing, Zenon DEF Descend
<1>2. CASE s.bug = "" /\ e # Empty
  <2>1. w = [s EXCEPT !.at = e[1]]
    BY <1>2, Zenon DEF Descend
  <2> HIDE DEF w, e
  <2> QED
    BY <2>1, Zenon DEF Adds, Keeps, SameRoots, Rec, w
<1>3. CASE s.bug = "" /\ e = Empty /\ pfdb.free = <<>>
  <2>1. w = [s EXCEPT !.bug = IF t = Kernel THEN "kernel_frames" ELSE "process_frames"]
    BY <1>3, Zenon DEF Descend
  <2> HIDE DEF w
  <2> QED
    BY <1>3, <2>1, Zenon DEF Adds, Keeps, SameRoots, Rec, w
<1>4. CASE s.bug = "" /\ e = Empty /\ pfdb.free # <<>>
  <2>1. w = [s EXCEPT !.mem[s.at][i] = <<Head(pfdb.free), user>>,
                      !.pgt[t].pfdb = pageframe_alloc(pfdb),
                      !.at = Head(pfdb.free)]
    BY <1>4, Zenon DEF Descend
  <2> HIDE DEF w, i
  <2>2. /\ Rec(w) /\ w.live = s.live /\ w.ptr = s.ptr /\ w.bug = s.bug
        /\ w.mem = [s.mem EXCEPT ![s.at][i] = <<Head(pfdb.free), user>>]
        /\ w.pgt = [s.pgt EXCEPT ![t].pfdb = pageframe_alloc(pfdb)]
    BY <2>1, Zenon DEF Rec
  <2>3. SameRoots(s.pgt, w.pgt)
    BY <2>2 DEF SameRoots
  <2>4. DOMAIN w.mem = DOMAIN s.mem /\ Keeps(s.mem, w.mem)
    <3>1. s.mem[s.at][i] = Empty
      BY <1>4, Zenon DEF i
    <3> QED
      BY <2>2, <3>1 DEF Keeps
  <2> QED
    BY <1>4, <2>2, <2>3, <2>4, Zenon DEF Adds, w
<1> QED
  BY <1>1, <1>2, <1>3, <1>4, Zenon

(* So does the whole way down to the last table. *)
LEMMA WalkAdds ==
  ASSUME NEW s, Rec(s), NEW t, NEW v, NEW user
  PROVE  Adds(s, Walk(s, t, v, user))
<1> DEFINE s4 == [s EXCEPT !.at = s.pgt[t].root]
           s3 == Descend(s4, t, v, user, 4)
           s2 == Descend(s3, t, v, user, 3)
           s1 == Descend(s2, t, v, user, 2)
<1>1. CASE s.bug # ""
  BY <1>1, AddsNothing, Zenon DEF Walk
<1>2. CASE s.bug = ""
  <2>1. Walk(s, t, v, user) = s1
    BY <1>2, Zenon DEF Walk
  <2>2. Adds(s, s4)
    <3>1. /\ Rec(s4) /\ s4.live = s.live /\ s4.ptr = s.ptr /\ s4.bug = s.bug
          /\ s4.mem = s.mem /\ s4.pgt = s.pgt
      BY DEF Rec
    <3> HIDE DEF s4
    <3> QED
      BY <1>2, <3>1, Zenon DEF Adds, Keeps, SameRoots
  <2> HIDE DEF s4
  <2>3. Adds(s4, s3)
    BY <2>2, AddsRec, DescendAdds, Zenon
  <2> HIDE DEF s3
  <2>4. Adds(s3, s2)
    BY <2>3, AddsRec, DescendAdds, Zenon
  <2> HIDE DEF s2
  <2>5. Adds(s2, s1)
    BY <2>4, AddsRec, DescendAdds, Zenon
  <2> HIDE DEF s1
  <2> QED
    BY <2>1, <2>2, <2>3, <2>4, <2>5, AddsTwice, Zenon
<1> QED
  BY <1>1, <1>2, Zenon

(* page_alloc replaces no entry and moves no root, whether it finds the page *)
(* mapped, maps it or runs out of frames.                                    *)
LEMMA PageAllocAdds ==
  ASSUME NEW s, Rec(s), NEW t, NEW v, NEW page, NEW user
  PROVE  Adds(s, page_alloc(s, t, v, page, user))
<1> DEFINE w == Walk(s, t, v, user)
           x == page_alloc(s, t, v, page, user)
<1>1. Adds(s, w) /\ Rec(w)
  BY WalkAdds, AddsRec, Zenon
<1>2. x = IF w.bug # "" \/ w.mem[w.at][Idx(1, v)] # Empty THEN w ELSE [w EXCEPT !.mem[w.at][Idx(1, v)] = <<page, user>>]
  BY Zenon DEF page_alloc
<1> HIDE DEF w, x
<1>3. CASE w.bug # "" \/ w.mem[w.at][Idx(1, v)] # Empty
  BY <1>1, <1>2, <1>3, Zenon DEF x
<1>4. CASE w.bug = "" /\ w.mem[w.at][Idx(1, v)] = Empty
  <2> DEFINE i == Idx(1, v)
  <2>1. /\ Rec(x) /\ x.live = w.live /\ x.ptr = w.ptr /\ x.bug = w.bug /\ x.pgt = w.pgt
        /\ x.mem = [w.mem EXCEPT ![w.at][i] = <<page, user>>]
    <3>1. x = [w EXCEPT !.mem[w.at][i] = <<page, user>>]
      BY <1>2, <1>4, Zenon
    <3> HIDE DEF i
    <3> QED
      BY <1>1, <3>1, Zenon DEF Rec
  <2>2. w.mem[w.at][i] = Empty
    BY <1>4, Zenon
  <2> HIDE DEF i
  <2>3. DOMAIN x.mem = DOMAIN w.mem /\ Keeps(w.mem, x.mem)
    BY <2>1, <2>2 DEF Keeps
  <2>4. Adds(w, x)
    BY <1>4, <2>1, <2>3, Zenon DEF Adds, SameRoots
  <2> QED
    BY <1>1, <2>4, AddsTwice, Zenon DEF x
<1> QED
  BY <1>3, <1>4, Zenon

-----------------------------------------------------------------------------
(* Sizes and blocks *)

(* The types of the constants, from PagingAssumption. *)
LEMMA ConstantTypes ==
  /\ Fanout \in Nat /\ Fanout > 2 /\ PageSize \in Nat \ {0} /\ NodeSize \in Nat \ {0} /\ Pages \in Nat \ {0}
  /\ MaxOrder \in Nat /\ KernelEnd \in Nat /\ HeaderPage \in Nat /\ UserSpace \in Nat /\ TextPage \in Nat
  /\ TextSize \in Nat /\ TextVirt \in Nat /\ StackVirt \in Nat /\ StackSize \in Nat
BY PagingAssumption

(* Rounding bytes up to pages, as kmalloc does, and down, as the loop of     *)
(* paging_contiguous_map does, differ by at most one page.                   *)
LEMMA PageCounts ==
  ASSUME NEW bytes \in Nat
  PROVE  /\ PagesOf(bytes) \in Nat /\ bytes \div PageSize \in Nat
         /\ PagesOf(bytes) - 1 <= bytes \div PageSize /\ bytes \div PageSize <= PagesOf(bytes)
         /\ bytes > 0 => PagesOf(bytes) > 0
         /\ bytes <= Pages * PageSize => PagesOf(bytes) <= Pages
<1> PageSize \in Nat \ {0} /\ Pages \in Nat
  BY ConstantTypes, Zenon
<1> DEFINE x == bytes + PageSize - 1
           q == x \div PageSize
           r == bytes \div PageSize
<1>2. x \in Nat
  OBVIOUS
<1> q \in Nat /\ q * PageSize <= x /\ x < q * PageSize + PageSize
  BY <1>2, DivBounds, Zenon
<1> r \in Nat /\ r * PageSize <= bytes /\ bytes < r * PageSize + PageSize
  BY DivBounds, Zenon
<1> x = bytes + PageSize - 1 /\ PagesOf(bytes) = q
  BY Zenon DEF PagesOf
<1> HIDE DEF x, q, r
<1>6. q - 1 <= r
  <2> SUFFICES ASSUME r + 2 <= q PROVE FALSE
    OBVIOUS
  <2>1. (r + 2) * PageSize <= q * PageSize
    OBVIOUS
  <2> QED
    BY <2>1
<1>7. r <= q
  <2> SUFFICES ASSUME q + 1 <= r PROVE FALSE
    OBVIOUS
  <2>1. (q + 1) * PageSize <= r * PageSize
    OBVIOUS
  <2> QED
    BY <2>1
<1>8. bytes > 0 => q > 0
  <2> SUFFICES ASSUME bytes > 0, q = 0 PROVE FALSE
    OBVIOUS
  <2> QED
    OBVIOUS
<1>9. bytes <= Pages * PageSize => q <= Pages
  <2> SUFFICES ASSUME bytes <= Pages * PageSize, Pages + 1 <= q PROVE FALSE
    OBVIOUS
  <2>1. (Pages + 1) * PageSize <= q * PageSize
    OBVIOUS
  <2> QED
    BY <2>1
<1> QED
  BY <1>6, <1>7, <1>8, <1>9, Zenon DEF r

(* A whole number of pages is rounded to itself. *)
LEMMA WholePages ==
  ASSUME NEW n \in Nat
  PROVE  PagesOf(n * PageSize) = n /\ (n * PageSize) \div PageSize = n
<1> PageSize \in Nat \ {0}
  BY ConstantTypes, Zenon
<1> DEFINE x == n * PageSize + PageSize - 1
<1>2. n * PageSize \in Nat /\ x \in Nat /\ n * PageSize <= x /\ x < n * PageSize + PageSize
  OBVIOUS
<1>3. x \div PageSize = n
  BY <1>2, DivUnique, Zenon
<1>4. (n * PageSize) \div PageSize = n
  BY <1>2, DivUnique
<1> QED
  BY <1>3, <1>4, Zenon DEF PagesOf

(* the block that kmalloc has just returned *)
NewBlock(s, w, bytes) ==
  /\ w.live = s.live \cup {<<w.ptr, bytes>>} /\ w.ptr \in Nat /\ bytes > 0
  /\ w.ptr + PagesOf(bytes) <= Pages
  /\ \A p \in w.ptr..(w.ptr + PagesOf(bytes) - 1) : p \notin Taken(s.live)

(* paging_calc_space_needed asks for whole pages, at least one, and          *)
(* pageframe_calc_space_needed for one node for each of them.                *)
LEMMA TableSpace ==
  ASSUME NEW bytes \in Nat
  PROVE  \E n \in Nat \ {0} : /\ paging_calc_space_needed(bytes) = n * PageSize
                              /\ pageframe_calc_space_needed(n * PageSize) = n * NodeSize
                              /\ n * PageSize \in Nat /\ n * NodeSize \in Nat
<1> DEFINE span == Fanout * PageSize
           pte == bytes \div span + (IF bytes % span # 0 THEN 1 ELSE 0)
           pd == LET n == pte \div Fanout IN IF n % Fanout # 0 THEN n + 1 ELSE n
           pdp == LET n == pd \div Fanout IN IF n % Fanout # 0 THEN n + 1 ELSE n
<1> Fanout \in Nat \ {0} /\ PageSize \in Nat \ {0} /\ NodeSize \in Nat \ {0}
  BY ConstantTypes
<1>2. span \in Nat \ {0}
  OBVIOUS
<1>3. pte \in Nat
  <2> HIDE DEF span
  <2> QED
    BY <1>2, Euclid
<1>4. pd \in Nat
  <2> HIDE DEF pte
  <2>1. pte \div Fanout \in Nat
    BY <1>3, Euclid, Zenon
  <2> QED
    BY <2>1
<1>5. pdp \in Nat
  <2> HIDE DEF pd
  <2>1. pd \div Fanout \in Nat
    BY <1>4, Euclid
  <2> QED
    BY <2>1
<1> DEFINE n == 1 + pdp + pd + pte
<1> n \in Nat \ {0}
  <2> HIDE DEF pdp, pd, pte
  <2> QED
    BY <1>3, <1>4, <1>5
<1>7. paging_calc_space_needed(bytes) = n * PageSize
  BY Zenon DEF paging_calc_space_needed
<1> HIDE DEF n
<1>8. pageframe_calc_space_needed(n * PageSize) = n * NodeSize
  BY WholePages, Zenon DEF pageframe_calc_space_needed
<1>9. n * PageSize \in Nat /\ n * NodeSize \in Nat
  OBVIOUS
<1> QED
  BY <1>7, <1>8, <1>9, Zenon

(* pageframe_init puts every frame of the new tables in the free list, the   *)
(* last one first.                                                           *)
LEMMA FreshDatabase ==
  ASSUME NEW n \in Nat \ {0}, NEW page \in Nat, NEW pfdb,
         pfdb = pageframe_init([i \in 1..((n * NodeSize) \div NodeSize) |-> page + i - 1])
  PROVE  /\ pfdb.free \in Seq(Nat) /\ Len(pfdb.free) = n /\ pfdb.used = <<>>
         /\ Head(pfdb.free) = page + n - 1
         /\ \A k \in 1..n : pfdb.free[k] = page + n - k
<1>1. NodeSize \in Nat \ {0}
  BY ConstantTypes, Zenon
<1>2. n * NodeSize \in Nat /\ n * NodeSize <= n * NodeSize /\ n * NodeSize < n * NodeSize + NodeSize
  BY <1>1
<1>3. (n * NodeSize) \div NodeSize = n
  BY <1>1, <1>2, DivUnique, Zenon
<1> DEFINE frames == [i \in 1..n |-> page + i - 1]
           r == [i \in 1..n |-> frames[n + 1 - i]]
<1>4. frames \in Seq(Nat) /\ Len(frames) = n
  OBVIOUS
<1> \A k \in 1..n : r[k] = page + n - k /\ r[k] \in Nat
  OBVIOUS
<1>6. r \in Seq(Nat) /\ Len(r) = n
  OBVIOUS
<1>7. Head(r) = page + n - 1
  BY <1>6
<1>8. pfdb = pageframe_init(frames)
  BY <1>3, Zenon
<1> HIDE DEF frames
<1>9. pfdb = [free |-> r, used |-> <<>>]
  BY <1>4, <1>8, Zenon DEF pageframe_init
<1> HIDE DEF r
<1>10. pfdb.free = r /\ pfdb.used = <<>>
  BY <1>9
<1> QED
  BY <1>6, <1>7, <1>10, Zenon

(* w is what is left of s when kmalloc has added blocks and entries *)
Grows(s, w) ==
  /\ Rec(w) /\ s.live \subseteq w.live /\ (s.bug # "" => w.bug # "")
  /\ DOMAIN w.mem = DOMAIN s.mem /\ Keeps(s.mem, w.mem) /\ SameRoots(s.pgt, w.pgt)

(* What kmalloc adds in two calls it adds in one. *)
LEMMA GrowsTwice ==
  ASSUME NEW s, NEW w, NEW x, Grows(s, w), Grows(w, x)
  PROVE  Grows(s, x)
BY ZenonT(60) DEF Grows, Keeps, SameRoots

(* Adding entries is growing. *)
LEMMA AddsGrows ==
  ASSUME NEW s, NEW w, Adds(s, w)
  PROVE  Grows(s, w)
BY Zenon DEF Grows, Adds

(* Growing leaves a memory record a memory record. *)
LEMMA GrowsRec ==
  ASSUME NEW s, NEW w, Grows(s, w)
  PROVE  Rec(w)
BY Zenon DEF Grows

-----------------------------------------------------------------------------
(* paging_init and share_kernel *)

(* what paging_init makes of n pages *)
Zeroed(s, t, page, n, w) ==
  /\ Rec(w) /\ w.live = s.live /\ w.bug = "" /\ w.ptr = s.ptr /\ w.at = s.at
  /\ DOMAIN w.mem = DOMAIN s.mem \cup page..(page + n - 1)
  /\ \A f \in page..(page + n - 1) : w.mem[f] = NoTable
  /\ \A f \in DOMAIN s.mem \ page..(page + n - 1) : w.mem[f] = s.mem[f]
  /\ DOMAIN w.pgt = DOMAIN s.pgt \cup {t}
  /\ \A u \in DOMAIN s.pgt \ {t} : w.pgt[u] = s.pgt[u]
  /\ w.pgt[t].root = page + n - 1
  /\ w.pgt[t] = [root |-> page + n - 1,
                 pfdb |-> pageframe_alloc(pageframe_init([i \in 1..((n * NodeSize) \div NodeSize) |-> page + i - 1]))]

(* paging_init clears the pages it is given, makes the last of them the root *)
(* of t and touches no other table.                                          *)
LEMMA InitTables ==
  ASSUME NEW s, Rec(s), s.bug = "", NEW t, NEW page \in Nat, NEW n \in Nat \ {0}
  PROVE  Zeroed(s, t, page, n, paging_init(s, t, page, n * PageSize, n * NodeSize))
<1> DEFINE w == paging_init(s, t, page, n * PageSize, n * NodeSize)
<1> DEFINE pfdb == pageframe_init([i \in 1..((n * NodeSize) \div NodeSize) |-> page + i - 1])
           zeroed == page..(page + n - 1)
           new == [root |-> Head(pfdb.free), pfdb |-> pageframe_alloc(pfdb)]
<1>1. (n * PageSize) \div PageSize = n
  BY WholePages, Zenon
<1>2. Head(pfdb.free) = page + n - 1
  BY FreshDatabase, Zenon
<1>3. w = [s EXCEPT !.mem = [f \in DOMAIN @ \cup zeroed |-> IF f \in zeroed THEN NoTable ELSE @[f]],
                    !.pgt = [u \in DOMAIN @ \cup {t} |-> IF u = t THEN new ELSE @[u]]]
  BY <1>1, Zenon DEF paging_init
<1> HIDE DEF w
<1>4. new.root = page + n - 1 /\ new = [root |-> page + n - 1, pfdb |-> pageframe_alloc(pfdb)]
  BY <1>2, Zenon
<1> HIDE DEF pfdb, new, zeroed
<1>5. /\ w.mem = [f \in DOMAIN s.mem \cup zeroed |-> IF f \in zeroed THEN NoTable ELSE s.mem[f]]
      /\ w.pgt = [u \in DOMAIN s.pgt \cup {t} |-> IF u = t THEN new ELSE s.pgt[u]]
      /\ Rec(w) /\ w.live = s.live /\ w.bug = s.bug /\ w.ptr = s.ptr /\ w.at = s.at
  BY <1>3, ZenonT(60) DEF Rec
<1> QED
  BY <1>4, <1>5, Zenon DEF zeroed, pfdb, w, Zeroed

(* what share_kernel makes of s *)
Shared(s, t, w) ==
  /\ Rec(w) /\ w.pgt = s.pgt /\ w.live = s.live /\ w.bug = s.bug /\ DOMAIN w.mem = DOMAIN s.mem
  /\ \A f \in DOMAIN s.mem : f # s.pgt[t].root => w.mem[f] = s.mem[f]
  /\ s.bug = "" /\ s.pgt[t].root \in DOMAIN s.mem =>
       w.mem[s.pgt[t].root] = [i \in Index |-> IF i \in UserHalf THEN s.mem[s.pgt[t].root][i]
                                              ELSE s.mem[s.pgt[Kernel].root][i]]

(* The loop of create_process over the kernel's root writes the upper half   *)
(* of the root of t and nothing else.                                        *)
LEMMA ShareWrites ==
  ASSUME NEW s, Rec(s), NEW t
  PROVE  Shared(s, t, share_kernel(s, t))
<1> DEFINE w == share_kernel(s, t)
<1>1. CASE s.bug # ""
  BY <1>1, ZenonT(60) DEF share_kernel, Shared
<1>2. CASE s.bug = ""
  <2> DEFINE r == s.pgt[t].root
             new == [i \in Index |-> IF i \in UserHalf THEN s.mem[r][i] ELSE s.mem[s.pgt[Kernel].root][i]]
  <2>1. w = [s EXCEPT !.mem = [@ EXCEPT ![r] = new]]
    BY <1>2, Zenon DEF share_kernel
  <2> HIDE DEF r, new, w
  <2>2. w.mem = [s.mem EXCEPT ![r] = new] /\ Rec(w) /\ w.pgt = s.pgt /\ w.live = s.live /\ w.bug = s.bug
    BY <2>1, Zenon DEF Rec
  <2>3. /\ DOMAIN w.mem = DOMAIN s.mem /\ \A f \in DOMAIN s.mem : f # r => w.mem[f] = s.mem[f]
        /\ r \in DOMAIN s.mem => w.mem[r] = new
    BY <2>2, Zenon
  <2> QED
    BY <1>2, <2>2, <2>3, Zenon DEF r, w, new, Shared
<1> QED
  BY <1>1, <1>2, Zenon

(* The empty function has no arguments. *)
LEMMA EmptyDomain ==
  ASSUME NEW f, f = << >>
  PROVE  DOMAIN f = {}
OBVIOUS

(* The state is a memory record. *)
LEMMA NowRec == Rec(Now)
BY Zenon DEF Rec, Now

-----------------------------------------------------------------------------
(* The tables are trees *)

Entry == {Empty} \cup (Nat \X BOOLEAN)
Child(x, i) == x * Fanout + i

(* the virtual addresses that a table covers, by its level *)
Prefix(level, v) == (<<Up(v), Up(Up(v)), Up(Up(Up(v))), 0>>)[level]

(* A label <<t, level, x>> says which address space a table belongs to, on   *)
(* which level it is and which addresses it covers; the upper half of the    *)
(* root of a process belongs to the kernel.                                  *)
Own(l) == IF l[1] # Kernel /\ l[2] = 4 THEN UserHalf ELSE Index

Labels(m, p, lab) ==
  /\ DOMAIN lab \subseteq DOMAIN m /\ DOMAIN lab \subseteq Nat
  /\ \A f \in DOMAIN lab :
       /\ lab[f] = <<lab[f][1], lab[f][2], lab[f][3]>>
       /\ lab[f][1] \in DOMAIN p /\ lab[f][2] \in 1..4 /\ lab[f][3] \in Nat
       /\ lab[f][2] = 4 => lab[f][3] = 0
  /\ \A f, g \in DOMAIN lab : lab[f] = lab[g] => f = g
  /\ \A t \in DOMAIN p : p[t].root \in DOMAIN lab /\ lab[p[t].root] = <<t, 4, 0>>

(* a present entry points one level down, or maps a page of the kernel where *)
(* va() says                                                                 *)
Down(m, lab) ==
  \A f \in DOMAIN lab : \A i \in Own(lab[f]) : m[f][i] # Empty =>
    /\ lab[f][2] > 1 =>
         /\ m[f][i][1] \in DOMAIN lab
         /\ lab[m[f][i][1]] = <<lab[f][1], lab[f][2] - 1, Child(lab[f][3], i)>>
    /\ lab[f][2] = 1 /\ lab[f][1] = Kernel => m[f][i] = <<Child(lab[f][3], i) - va(0), FALSE>>

(* a table that is no root is pointed to *)
Parents(m, lab) ==
  \A g \in DOMAIN lab : lab[g][2] < 4 =>
    \E f \in DOMAIN lab : \E i \in Own(lab[f]) : lab[f][2] > 1 /\ m[f][i] # Empty /\ m[f][i][1] = g

(* the databases of frames *)
Lists(m, p, lab) ==
  /\ \A t \in DOMAIN p :
       /\ p[t] = [root |-> p[t].root, pfdb |-> [free |-> p[t].pfdb.free, used |-> p[t].pfdb.used]]
       /\ p[t].pfdb.free \in Seq(Nat) /\ p[t].pfdb.used \in Seq(Nat)
       /\ IsInjective(p[t].pfdb.free) /\ IsInjective(p[t].pfdb.used)
       /\ Range(p[t].pfdb.used) = {f \in DOMAIN lab : lab[f][1] = t}
       /\ \A g \in Range(p[t].pfdb.free) : g \in DOMAIN m /\ g \notin DOMAIN lab /\ m[g] = NoTable
  /\ \A t, u \in DOMAIN p : t # u => Range(p[t].pfdb.free) \cap Range(p[u].pfdb.free) = {}

Tree(m, p, lab) ==
  /\ \A f \in DOMAIN m : m[f] \in [Index -> Entry]
  /\ Labels(m, p, lab) /\ Down(m, lab) /\ Parents(m, lab) /\ Lists(m, p, lab)

(* the last table of virtual page v has an entry for it *)
Mapped(m, lab, v) ==
  \E f \in DOMAIN lab : lab[f] = <<Kernel, 1, Up(v)>> /\ m[f][Idx(1, v)] # Empty

(* s holds trees in which the pages of P are mapped *)
Good(s, lab, P) == Tree(s.mem, s.pgt, lab) /\ \A p \in P : p \in Nat /\ Mapped(s.mem, lab, va(p))

Holds(s, P) == \E lab : Good(s, lab, P)

(* ... and the walk to virtual page v is on this level *)
Reach(s, P, t, level, v) ==
  \E lab : /\ Good(s, lab, P) /\ s.at \in DOMAIN lab /\ lab[s.at] = <<t, level, Prefix(level, v)>>

(* v is in the half of the address space that t maps *)
InHalf(t, v) == v \in Nat /\ Up(Up(Up(v))) \in IF t = Kernel THEN Index ELSE UserHalf

-----------------------------------------------------------------------------
(* Addresses *)

(* An address splits into the address of its table and its index in it in    *)
(* one way.                                                                  *)
LEMMA ChildUnique ==
  ASSUME NEW x \in Nat, NEW y \in Nat, NEW i \in Index, NEW j \in Index, Child(x, i) = Child(y, j)
  PROVE  x = y /\ i = j
<1> Fanout \in Nat \ {0}
  BY ConstantTypes
<1> i \in Nat /\ i < Fanout /\ j \in Nat /\ j < Fanout
  BY DEF Index
<1> DEFINE c == x * Fanout + i
<1>3. c \in Nat /\ x * Fanout <= c /\ c < x * Fanout + Fanout
  OBVIOUS
<1>4. c = y * Fanout + j
  BY Zenon DEF Child
<1>5. y * Fanout <= c /\ c < y * Fanout + Fanout
  <2> HIDE DEF c
  <2> QED
    BY <1>4
<1>6. c \div Fanout = x
  <2> HIDE DEF c
  <2> QED
    BY <1>3, DivUnique, Zenon
<1>7. c \div Fanout = y
  <2> HIDE DEF c
  <2> QED
    BY <1>3, <1>5, DivUnique, Zenon
<1>8. x = y
  BY <1>6, <1>7, Zenon
<1>9. x * Fanout + i = x * Fanout + j /\ x * Fanout \in Nat
  BY <1>4, <1>8
<1>10. i = j
  BY <1>9
<1> QED
  BY <1>8, <1>10, Zenon

(* The address that an entry of a table covers is a number. *)
LEMMA ChildNat ==
  ASSUME NEW x \in Nat, NEW i \in Index
  PROVE  Child(x, i) \in Nat
BY ConstantTypes DEF Child, Index

(* The index of a virtual page in its last table, and the address of that    *)
(* table, give the page back.                                                *)
LEMMA UpChild ==
  ASSUME NEW v \in Nat
  PROVE  Up(v) \in Nat /\ v % Fanout \in Index /\ Child(Up(v), v % Fanout) = v
<1>1. Fanout \in Nat \ {0}
  BY ConstantTypes
<1>2. v \div Fanout \in Nat /\ v % Fanout \in 0..(Fanout - 1) /\ v = Fanout * (v \div Fanout) + (v % Fanout)
  BY <1>1, Euclid, Zenon
<1> DEFINE q == v \div Fanout
           r == v % Fanout
<1> HIDE DEF q, r
<1>3. q \in Nat /\ r \in 0..(Fanout - 1) /\ v = Fanout * q + r
  BY <1>2, Zenon DEF q, r
<1>4. q * Fanout + r = v
  BY <1>1, <1>3
<1> QED
  BY <1>3, <1>4, Zenon DEF Up, Child, Index, q, r

(* The indexes that page_alloc takes from an address on the four levels name *)
(* the tables on the way to it.                                              *)
LEMMA Levels ==
  ASSUME NEW v \in Nat, Up(Up(Up(v))) \in Index
  PROVE  /\ \A l \in 1..4 : Idx(l, v) \in Index /\ Prefix(l, v) \in Nat
         /\ \A l \in 2..4 : Child(Prefix(l, v), Idx(l, v)) = Prefix(l - 1, v)
         /\ Child(Prefix(1, v), Idx(1, v)) = v
         /\ Prefix(1, v) = Up(v) /\ Prefix(4, v) = 0 /\ Idx(4, v) = Up(Up(Up(v)))
<1> DEFINE a == Up(v)
           b == Up(a)
           c == Up(b)
<1> a \in Nat /\ v % Fanout \in Index /\ Child(a, v % Fanout) = v
  BY UpChild, Zenon
<1> b \in Nat /\ a % Fanout \in Index /\ Child(b, a % Fanout) = a
  BY UpChild, Zenon
<1>3. c \in Nat /\ b % Fanout \in Index /\ Child(c, b % Fanout) = b
  BY UpChild, Zenon
<1> c \in Index
  BY Zenon
<1> HIDE DEF a, b, c
<1> c % Fanout = c /\ Child(0, c) = c
  BY ConstantTypes DEF Child, Index
<1> /\ Idx(1, v) = v % Fanout /\ Idx(2, v) = a % Fanout /\ Idx(3, v) = b % Fanout /\ Idx(4, v) = c % Fanout
      /\ Prefix(1, v) = a /\ Prefix(2, v) = b /\ Prefix(3, v) = c /\ Prefix(4, v) = 0
  BY Zenon DEF Idx, Prefix, a, b, c
<1>7. \A l \in 1..4 : l = 1 \/ l = 2 \/ l = 3 \/ l = 4
  OBVIOUS
<1>8. \A l \in 1..4 : Idx(l, v) \in Index /\ Prefix(l, v) \in Nat
  BY <1>3, <1>7
<1>9. \A l \in 2..4 : (l = 2 /\ l - 1 = 1) \/ (l = 3 /\ l - 1 = 2) \/ (l = 4 /\ l - 1 = 3)
  OBVIOUS
<1>10. \A l \in 2..4 : Child(Prefix(l, v), Idx(l, v)) = Prefix(l - 1, v)
  BY <1>3, <1>9, Zenon
<1> QED
  BY <1>8, <1>10, Zenon DEF a, b, c

(* The index in the root is the address divided by the pages that one entry  *)
(* of the root covers.                                                       *)
LEMMA TopIndex ==
  ASSUME NEW v \in Nat
  PROVE  Up(Up(Up(v))) = v \div (Fanout * Fanout * Fanout)
<1> Fanout \in Nat \ {0}
  BY ConstantTypes
<1> DEFINE q == Fanout * Fanout
<1>2. q \in Nat \ {0}
  OBVIOUS
<1>3. v \div q = (v \div Fanout) \div Fanout
  BY DivDiv, Zenon
<1>4. v \div (q * Fanout) = (v \div q) \div Fanout
  <2> HIDE DEF q
  <2> QED
    BY <1>2, DivDiv, Zenon
<1> QED
  BY <1>3, <1>4, Zenon DEF Up

(* va() of a page of physical memory, and of the one page behind it that     *)
(* paging_contiguous_map also maps, is in the upper half; all of physical    *)
(* memory is behind one entry of the root.                                   *)
LEMMA KernelHalf ==
  ASSUME NEW p \in Nat, p <= Fanout * Fanout * Fanout
  PROVE  /\ va(p) \in Nat /\ va(p) - va(0) = p /\ Up(Up(Up(va(p)))) \in Index
         /\ p < Fanout * Fanout * Fanout => Up(Up(Up(va(p)))) = Fanout \div 2
         /\ Fanout \div 2 \in Index /\ Fanout \div 2 \notin UserHalf
<1> DEFINE q == Fanout * Fanout * Fanout
           h == Fanout \div 2
<1>1. Fanout \in Nat \ {0} /\ Fanout > 2
  BY ConstantTypes
<1> h \in Nat /\ h + 1 < Fanout
  BY <1>1
<1>3. h \in Index /\ h \notin UserHalf /\ h + 1 \in Index
  BY <1>1 DEF Index, UserHalf
<1> q \in Nat \ {0}
  BY <1>1
<1> va(p) = h * q + p /\ va(0) = h * q + 0
  BY Zenon DEF va
<1>6. p <= q
  BY Zenon
<1> HIDE DEF q, h
<1> h * q \in Nat /\ va(p) \in Nat /\ va(p) - va(0) = p
  OBVIOUS
<1>8. ASSUME p < q PROVE va(p) \div q = h
  <2>1. h * q <= va(p) /\ va(p) < h * q + q
    BY <1>8
  <2> QED
    BY <2>1, DivUnique, Zenon
<1>9. ASSUME p = q PROVE va(p) \div q = h + 1
  <2>1. (h + 1) * q <= va(p) /\ va(p) < (h + 1) * q + q /\ h + 1 \in Nat
    BY <1>9
  <2> QED
    BY <2>1, DivUnique, Zenon
<1>10. Up(Up(Up(va(p)))) = va(p) \div q
  BY TopIndex, Zenon DEF q
<1>11. p < q \/ p = q
  BY <1>6
<1> QED
  BY <1>3, <1>8, <1>9, <1>10, <1>11, Zenon DEF q, h

(* A virtual page below va(0) is behind an entry of the lower half of the    *)
(* root.                                                                     *)
LEMMA LowerHalf ==
  ASSUME NEW v \in Nat, v < va(0)
  PROVE  Up(Up(Up(v))) \in UserHalf /\ UserHalf \subseteq Index
<1> DEFINE q == Fanout * Fanout * Fanout
           h == Fanout \div 2
           x == v \div q
<1>1. Fanout \in Nat \ {0} /\ Fanout > 2
  BY ConstantTypes
<1> h \in Nat /\ h < Fanout
  BY <1>1
<1>3. UserHalf = 0..(h - 1) /\ UserHalf \subseteq Index
  BY <1>1 DEF Index, UserHalf
<1> q \in Nat \ {0}
  BY <1>1
<1>5. v < h * q + 0
  BY Zenon DEF va
<1>6. Up(Up(Up(v))) = x
  BY TopIndex, Zenon
<1> HIDE DEF q, h
<1> x \in Nat /\ x * q <= v
  BY DivBounds, Zenon
<1> HIDE DEF x
<1>8. x < h
  <2> SUFFICES ASSUME h <= x PROVE FALSE
    OBVIOUS
  <2>1. h * q <= x * q
    OBVIOUS
  <2> QED
    BY <1>5, <2>1
<1> QED
  BY <1>3, <1>6, <1>8

-----------------------------------------------------------------------------
(* A table is added *)

(* frame g moved from one list to the other *)
Moved(free, used, g, d) ==
  /\ d = [free |-> d.free, used |-> d.used] /\ d.free \in Seq(Nat) /\ d.used \in Seq(Nat)
  /\ IsInjective(d.free) /\ IsInjective(d.used)
  /\ g \in Nat /\ g \in Range(free)
  /\ Range(d.used) = Range(used) \cup {g}
  /\ \A h \in Range(d.free) : h \in Range(free) /\ h # g

(* pageframe_alloc moves the head of the free list to the used list: no      *)
(* other frame moves, none is in a list twice.                               *)
LEMMA FrameTaken ==
  ASSUME NEW free \in Seq(Nat), NEW used \in Seq(Nat), free # << >>, IsInjective(free), IsInjective(used),
         NEW d, d = pageframe_alloc([free |-> free, used |-> used]),
         NEW g, g = Head(free), g \notin Range(used)
  PROVE  Moved(free, used, g, d)
<1> DEFINE F == Tail(free)
           U == <<g>> \o used
<1>1. d = [free |-> F, used |-> U]
  BY Zenon DEF pageframe_alloc
<1> DEFINE N == Len(free)
           M == Len(used)
<1>2. /\ N \in Nat /\ N > 0 /\ DOMAIN free = 1..N /\ g = free[1] /\ g \in Nat
      /\ M \in Nat /\ DOMAIN used = 1..M
  OBVIOUS
<1>3. F \in Seq(Nat) /\ DOMAIN F = 1..(N - 1) /\ \A k \in 1..(N - 1) : F[k] = free[k + 1]
  BY <1>2
<1>4. U \in Seq(Nat) /\ DOMAIN U = 1..(M + 1) /\ U[1] = g
  BY <1>2
<1>5. \A k \in 1..M : U[k + 1] = used[k]
  BY <1>2
<1> HIDE DEF F, U, N, M
<1>6. /\ \A k \in 1..(N - 1) : k \in Nat /\ k + 1 \in 1..N /\ k + 1 # 1
      /\ \A k, j \in 1..(N - 1) : k + 1 = j + 1 => k = j
      /\ 1 \in 1..N /\ 1 \in 1..(M + 1)
      /\ \A k \in 1..M : k + 1 \in 1..(M + 1) /\ k + 1 # 1
      /\ \A k \in 1..(M + 1) : k = 1 \/ \E j \in 1..M : k = j + 1
  <2>1. /\ \A k \in 1..(N - 1) : k \in Nat /\ k + 1 \in 1..N /\ k + 1 # 1
        /\ \A k, j \in 1..(N - 1) : k + 1 = j + 1 => k = j
        /\ 1 \in 1..N /\ 1 \in 1..(M + 1)
        /\ \A k \in 1..M : k + 1 \in 1..(M + 1) /\ k + 1 # 1
    BY <1>2
  <2>2. ASSUME NEW k \in 1..(M + 1), k # 1 PROVE k - 1 \in 1..M /\ k = (k - 1) + 1
    BY <1>2, <2>2
  <2> QED
    BY <2>1, <2>2, Zenon
<1>7. IsInjective(F)
  <2> SUFFICES ASSUME NEW a \in 1..(N - 1), NEW b \in 1..(N - 1), F[a] = F[b] PROVE a = b
    BY <1>3, Zenon DEF IsInjective
  <2>1. free[a + 1] = free[b + 1]
    BY <1>3, Zenon
  <2>2. a + 1 = b + 1
    BY <1>2, <1>6, <2>1, Zenon DEF IsInjective
  <2> QED
    BY <1>6, <2>2, Zenon
<1>8. \A k \in 1..M : used[k] # g
  BY <1>2, Zenon DEF Range
<1>9. IsInjective(U)
  <2> SUFFICES ASSUME NEW a \in 1..(M + 1), NEW b \in 1..(M + 1), U[a] = U[b] PROVE a = b
    BY <1>4, Zenon DEF IsInjective
  <2>1. CASE a = 1
    BY <1>4, <1>5, <1>6, <1>8, <2>1
  <2>2. CASE b = 1
    BY <1>4, <1>5, <1>6, <1>8, <2>2
  <2>3. CASE a # 1 /\ b # 1
    <3>1. PICK x \in 1..M : a = x + 1
      BY <1>6, <2>3, Zenon
    <3>2. PICK y \in 1..M : b = y + 1
      BY <1>6, <2>3, Zenon
    <3>3. used[x] = used[y]
      BY <1>5, <3>1, <3>2, Zenon
    <3>4. x = y
      BY <1>2, <3>3, Zenon DEF IsInjective
    <3> QED
      BY <3>1, <3>2, <3>4, Zenon
  <2> QED
    BY <2>1, <2>2, <2>3, Zenon
<1>10. g \in Range(free)
  BY <1>2, <1>6, Zenon DEF Range
<1>11. Range(U) = Range(used) \cup {g}
  <2>1. ASSUME NEW k \in 1..(M + 1) PROVE U[k] \in Range(used) \cup {g}
    <3>1. CASE k = 1
      BY <1>4, <3>1, Zenon
    <3>2. CASE k # 1
      <4>1. PICK j \in 1..M : k = j + 1
        BY <1>6, <3>2, Zenon
      <4>2. U[k] = used[j] /\ j \in DOMAIN used
        BY <1>2, <1>5, <4>1, Zenon
      <4> QED
        BY <4>2, Zenon DEF Range
    <3> QED
      BY <3>1, <3>2, Zenon
  <2>2. ASSUME NEW k \in 1..M PROVE used[k] \in Range(U)
    <3>1. k + 1 \in DOMAIN U /\ U[k + 1] = used[k]
      BY <1>4, <1>5, <1>6, Zenon
    <3> QED
      BY <3>1, Zenon DEF Range
  <2>3. g \in Range(U)
    BY <1>4, <1>6, Zenon DEF Range
  <2> QED
    BY <1>2, <1>4, <2>1, <2>2, <2>3, Zenon DEF Range
<1>12. \A h \in Range(F) : h \in Range(free) /\ h # g
  <2> SUFFICES ASSUME NEW k \in 1..(N - 1) PROVE F[k] \in Range(free) /\ F[k] # g
    BY <1>3, Zenon DEF Range
  <2>1. k + 1 \in DOMAIN free /\ 1 \in DOMAIN free /\ k + 1 # 1 /\ F[k] = free[k + 1]
    BY <1>2, <1>3, <1>6, Zenon
  <2>2. free[k + 1] # free[1]
    BY <2>1, Zenon DEF IsInjective
  <2> QED
    BY <1>2, <2>1, <2>2, Zenon DEF Range
<1>13. d.free = F /\ d.used = U
  BY <1>1
<1> QED
  BY <1>1, <1>2, <1>3, <1>4, <1>7, <1>9, <1>10, <1>11, <1>12, <1>13, Zenon DEF Moved

(* The lower half of a root is part of it. *)
LEMMA HalfIndex == UserHalf \subseteq Index
<1>1. Fanout \in Nat /\ Fanout > 2
  BY ConstantTypes, Zenon
<1> QED
  BY <1>1 DEF UserHalf, Index

(* The entries that belong to a table's address space are entries of the     *)
(* table.                                                                    *)
LEMMA OwnIndex ==
  ASSUME NEW l
  PROVE  Own(l) \subseteq Index
BY HalfIndex, Zenon DEF Own

(* On the way to an address of its own half page_alloc uses only entries     *)
(* that belong to the address space.                                         *)
LEMMA LevelDown ==
  ASSUME NEW t, NEW v, InHalf(t, v), NEW l \in 2..4
  PROVE  /\ Idx(l, v) \in Index /\ Prefix(l, v) \in Nat /\ Child(Prefix(l, v), Idx(l, v)) = Prefix(l - 1, v)
         /\ Idx(l, v) \in Own(<<t, l, Prefix(l, v)>>) /\ l > 1
<1> v \in Nat /\ Up(Up(Up(v))) \in Index /\ (t # Kernel => Up(Up(Up(v))) \in UserHalf)
  BY HalfIndex, Zenon DEF InHalf
<1>2. l \in 1..4
  OBVIOUS
<1>3. Idx(l, v) \in Index /\ Prefix(l, v) \in Nat /\ Child(Prefix(l, v), Idx(l, v)) = Prefix(l - 1, v)
  BY <1>2, Levels, Zenon
<1>4. Idx(4, v) = Up(Up(Up(v)))
  BY Levels, Zenon
<1>5. Idx(l, v) \in Own(<<t, l, Prefix(l, v)>>)
  BY <1>3, <1>4, Zenon DEF Own
<1> QED
  BY <1>3, <1>5

(* The frame that pageframe_alloc takes is one of the free ones. *)
LEMMA HeadInRange ==
  ASSUME NEW q \in Seq(Nat), q # << >>
  PROVE  Head(q) \in Range(q) /\ Head(q) \in Nat
<1>1. 1 \in DOMAIN q /\ Head(q) = q[1] /\ Head(q) \in Nat
  OBVIOUS
<1> QED
  BY <1>1, Zenon DEF Range

(* The parts of a label. *)
LEMMA LabelParts ==
  ASSUME NEW lab, NEW f, NEW a, NEW b, NEW c, lab[f] = <<a, b, c>>
  PROVE  lab[f][1] = a /\ lab[f][2] = b /\ lab[f][3] = c
OBVIOUS

(* one entry written in one table *)
Written(m, f, i, e, m2) ==
  /\ DOMAIN m2 = DOMAIN m /\ m2[f][i] = e /\ \A h \in DOMAIN m : m2[h] \in [Index -> Entry]
  /\ \A h \in DOMAIN m \ {f} : m2[h] = m[h]
  /\ \A h \in DOMAIN m : \A j \in Index : h # f \/ j # i => m2[h][j] = m[h][j]

(* Storing an entry in a table changes that entry and leaves every table a   *)
(* table.                                                                    *)
LEMMA WriteEntry ==
  ASSUME NEW m, \A f \in DOMAIN m : m[f] \in [Index -> Entry], NEW f \in DOMAIN m, NEW i \in Index, NEW e \in Entry
  PROVE  Written(m, f, i, e, [m EXCEPT ![f][i] = e])
BY Zenon DEF Written

(* one frame labelled *)
Labelled(lab, g, l, lab2) ==
  /\ DOMAIN lab2 = DOMAIN lab \cup {g} /\ lab2[g] = l /\ \A h \in DOMAIN lab : lab2[h] = lab[h]

(* the database of t after a frame was taken from it *)
Drawn(p, t, p2) ==
  /\ DOMAIN p2 = DOMAIN p /\ p2[t] = [root |-> p[t].root, pfdb |-> pageframe_alloc(p[t].pfdb)]
  /\ \A u \in DOMAIN p \ {t} : p2[u] = p[u]

(* A table is reached from one entry: while the entry is absent, no table    *)
(* covers its addresses.                                                     *)
LEMMA LabelUnused ==
  ASSUME NEW m, NEW p, NEW lab, Tree(m, p, lab), NEW t, NEW l \in 2..4, NEW x \in Nat,
         NEW f \in DOMAIN lab, lab[f] = <<t, l, x>>, NEW i \in Own(lab[f]), m[f][i] = Empty
  PROVE  \A h \in DOMAIN lab : lab[h] # <<t, l - 1, Child(x, i)>>
<1> SUFFICES ASSUME NEW h \in DOMAIN lab, lab[h] = <<t, l - 1, Child(x, i)>> PROVE FALSE
  BY Zenon
<1> /\ Labels(m, p, lab) /\ Down(m, lab) /\ Parents(m, lab)
  BY Zenon DEF Tree
<1>2. lab[h][2] = l - 1 /\ lab[h][2] < 4 /\ lab[h][1] = t /\ lab[h][3] = Child(x, i)
  OBVIOUS
<1>3. PICK g \in DOMAIN lab : \E j \in Own(lab[g]) : lab[g][2] > 1 /\ m[g][j] # Empty /\ m[g][j][1] = h
  BY <1>2, Zenon DEF Parents
<1> PICK j \in Own(lab[g]) : lab[g][2] > 1 /\ m[g][j] # Empty /\ m[g][j][1] = h
  BY <1>3, Zenon
<1>5. lab[h] = <<lab[g][1], lab[g][2] - 1, Child(lab[g][3], j)>>
  BY Zenon DEF Down
<1> /\ lab[g] = <<lab[g][1], lab[g][2], lab[g][3]>> /\ lab[g][2] \in 1..4 /\ lab[g][3] \in Nat
      /\ \A h1, h2 \in DOMAIN lab : lab[h1] = lab[h2] => h1 = h2
  BY Zenon DEF Labels
<1>7. lab[g][1] = t /\ lab[g][2] - 1 = l - 1 /\ Child(lab[g][3], j) = Child(x, i)
  BY <1>5
<1>8. lab[g][3] = x /\ j = i
  BY <1>7, OwnIndex, ChildUnique
<1>9. lab[g] = lab[f]
  BY <1>7, <1>8
<1> QED
  BY <1>8, <1>9, Zenon

(* Storing the database after pageframe_alloc changes the lists of t only. *)
LEMMA DrawFrame ==
  ASSUME NEW p, NEW t \in DOMAIN p, NEW a, NEW b, p[t] = [root |-> a, pfdb |-> b]
  PROVE  Drawn(p, t, [p EXCEPT ![t].pfdb = pageframe_alloc(p[t].pfdb)])
<1> DEFINE d == pageframe_alloc(p[t].pfdb)
           p2 == [p EXCEPT ![t].pfdb = d]
<1> HIDE DEF d
<1>1. p2 = [p EXCEPT ![t] = [p[t] EXCEPT !.pfdb = d]]
  BY Zenon
<1>2. [p[t] EXCEPT !.pfdb = d] = [root |-> p[t].root, pfdb |-> d]
  OBVIOUS
<1> HIDE DEF p2
<1> QED
  BY <1>1, <1>2, Zenon DEF Drawn, d, p2

(* When page_alloc links a frame from the free list under an absent entry,   *)
(* the tables are trees again, with the new table one level below.           *)
LEMMA NewTable ==
  ASSUME NEW m, NEW p, NEW lab, Tree(m, p, lab), NEW t \in DOMAIN p, NEW l \in 2..4, NEW x \in Nat,
         NEW f \in DOMAIN lab, lab[f] = <<t, l, x>>, NEW i \in Own(lab[f]), m[f][i] = Empty,
         p[t].pfdb.free # << >>, NEW user \in BOOLEAN,
         NEW g, g = Head(p[t].pfdb.free),
         NEW m2, Written(m, f, i, <<g, user>>, m2), NEW p2, Drawn(p, t, p2),
         NEW lab2, Labelled(lab, g, <<t, l - 1, Child(x, i)>>, lab2)
  PROVE  Tree(m2, p2, lab2)
<1> DEFINE d == pageframe_alloc(p[t].pfdb)
           free == p[t].pfdb.free
           used == p[t].pfdb.used
           c == Child(x, i)
<1>1. /\ \A h \in DOMAIN m : m[h] \in [Index -> Entry]
      /\ Labels(m, p, lab) /\ Down(m, lab) /\ Parents(m, lab) /\ Lists(m, p, lab)
  BY Zenon DEF Tree
<1>2. /\ free \in Seq(Nat) /\ used \in Seq(Nat) /\ IsInjective(free) /\ IsInjective(used)
      /\ Range(used) = {h \in DOMAIN lab : lab[h][1] = t}
      /\ \A h \in Range(free) : h \in DOMAIN m /\ h \notin DOMAIN lab /\ m[h] = NoTable
      /\ p[t] = [root |-> p[t].root, pfdb |-> [free |-> free, used |-> used]]
  BY <1>1, Zenon DEF Lists
<1>3. p[t].pfdb = [free |-> free, used |-> used]
  BY <1>2
<1>4. g \in Range(free)
  BY <1>2, HeadInRange, Zenon
<1>5. g \in DOMAIN m /\ g \notin DOMAIN lab /\ m[g] = NoTable /\ g \notin Range(used)
  BY <1>2, <1>4, Zenon
<1>6. /\ d = [free |-> d.free, used |-> d.used] /\ d.free \in Seq(Nat) /\ d.used \in Seq(Nat)
      /\ IsInjective(d.free) /\ IsInjective(d.used) /\ g \in Nat
      /\ Range(d.used) = Range(used) \cup {g}
      /\ \A h \in Range(d.free) : h \in Range(free) /\ h # g
  <2> HIDE DEF free, used
  <2>1. d = pageframe_alloc([free |-> free, used |-> used])
    BY <1>3, ZenonT(60)
  <2>2. free # << >> /\ g = Head(free)
    BY Zenon DEF free
  <2> HIDE DEF d
  <2>3. Moved(free, used, g, d)
    BY <1>2, <1>5, <2>1, <2>2, FrameTaken, Zenon
  <2> QED
    BY <2>3, Zenon DEF Moved
<1>7. i \in Index /\ f \in DOMAIN m /\ <<g, user>> \in Entry /\ <<g, user>> # Empty
  BY <1>1, <1>6, OwnIndex, Zenon DEF Labels, Entry, Empty
<1>8. Written(m, f, i, <<g, user>>, m2)
  BY Zenon
<1>9. /\ DOMAIN p2 = DOMAIN p /\ p2[t] = [root |-> p[t].root, pfdb |-> d]
      /\ \A u \in DOMAIN p \ {t} : p2[u] = p[u]
  BY Zenon DEF Drawn
<1>10. \A h \in DOMAIN lab : lab[h] # <<t, l - 1, c>>
  BY LabelUnused, Zenon
<1>11. DOMAIN lab2 = DOMAIN lab \cup {g} /\ lab2[g] = <<t, l - 1, c>> /\ \A h \in DOMAIN lab : lab2[h] = lab[h]
  BY Zenon DEF Labelled
<1>12. c \in Nat /\ l - 1 \in 1..3 /\ l > 1
  BY <1>7, ChildNat, SMTT(60)
<1> HIDE DEF d, free, used, c
<1>13. Labels(m2, p2, lab2)
  <2>1. DOMAIN lab2 \subseteq DOMAIN m2 /\ DOMAIN lab2 \subseteq Nat
    BY <1>1, <1>5, <1>6, <1>8, <1>11, Zenon DEF Labels, Written
  <2>2. ASSUME NEW h \in DOMAIN lab2
        PROVE  /\ lab2[h] = <<lab2[h][1], lab2[h][2], lab2[h][3]>>
               /\ lab2[h][1] \in DOMAIN p2 /\ lab2[h][2] \in 1..4 /\ lab2[h][3] \in Nat
               /\ lab2[h][2] = 4 => lab2[h][3] = 0
    <3>1. CASE h = g
      BY <1>9, <1>11, <1>12, <3>1
    <3>2. CASE h \in DOMAIN lab
      BY <1>1, <1>9, <1>11, <3>2, ZenonT(60) DEF Labels
    <3> QED
      BY <1>11, <3>1, <3>2, ZenonT(60)
  <2>3. ASSUME NEW h \in DOMAIN lab2, NEW k \in DOMAIN lab2, lab2[h] = lab2[k] PROVE h = k
    <3>1. h \in DOMAIN lab \/ h = g
      BY <1>11, Zenon
    <3>2. k \in DOMAIN lab \/ k = g
      BY <1>11, Zenon
    <3>3. \A h1, h2 \in DOMAIN lab : lab[h1] = lab[h2] => h1 = h2
      BY <1>1, Zenon DEF Labels
    <3> QED
      BY <1>10, <1>11, <2>3, <3>1, <3>2, <3>3, Zenon
  <2>4. ASSUME NEW u \in DOMAIN p2 PROVE p2[u].root \in DOMAIN lab2 /\ lab2[p2[u].root] = <<u, 4, 0>>
    <3>1. u \in DOMAIN p /\ p2[u].root = p[u].root
      BY <1>9
    <3>2. p[u].root \in DOMAIN lab /\ lab[p[u].root] = <<u, 4, 0>>
      BY <1>1, <3>1, Zenon DEF Labels
    <3> QED
      BY <1>11, <3>1, <3>2, Zenon
  <2> QED
    BY <2>1, <2>2, <2>3, <2>4, Zenon DEF Labels
<1>14. Down(m2, lab2)
  <2> SUFFICES ASSUME NEW h \in DOMAIN lab2, NEW j \in Own(lab2[h]), m2[h][j] # Empty
               PROVE  /\ lab2[h][2] > 1 =>
                           /\ m2[h][j][1] \in DOMAIN lab2
                           /\ lab2[m2[h][j][1]] = <<lab2[h][1], lab2[h][2] - 1, Child(lab2[h][3], j)>>
                      /\ lab2[h][2] = 1 /\ lab2[h][1] = Kernel => m2[h][j] = <<Child(lab2[h][3], j) - va(0), FALSE>>
    BY Zenon DEF Down
  <2>1. j \in Index
    BY OwnIndex, Zenon
  <2>2. h # g
    <3>1. g # f
      BY <1>5, Zenon
    <3>2. m2[g] = NoTable
      BY <1>5, <1>8, <3>1, Zenon DEF Written
    <3> QED
      BY <2>1, <3>2, Zenon DEF NoTable
  <2>3. h \in DOMAIN lab /\ lab2[h] = lab[h] /\ h \in DOMAIN m
    BY <1>1, <1>11, <2>2, Zenon DEF Labels
  <2>4. CASE h = f /\ j = i
    <3>1. m2[h][j] = <<g, user>> /\ lab2[h] = <<t, l, x>>
      BY <1>8, <2>3, <2>4, Zenon DEF Written
    <3>2. m2[h][j][1] = g /\ lab2[h][1] = t /\ lab2[h][2] = l /\ lab2[h][3] = x
      BY <3>1
    <3>3. lab2[h][2] # 1
      BY <1>12, <3>2, SMTT(60)
    <3>4. m2[h][j][1] \in DOMAIN lab2 /\ lab2[m2[h][j][1]] = <<t, l - 1, Child(x, j)>>
      BY <1>11, <2>4, <3>2, Zenon DEF c
    <3> QED
      BY <3>2, <3>3, <3>4, Zenon
  <2>5. CASE ~(h = f /\ j = i)
    <3>1. m2[h][j] = m[h][j]
      BY <1>8, <2>1, <2>3, <2>5, Zenon DEF Written
    <3>2. /\ lab[h][2] > 1 =>
               /\ m[h][j][1] \in DOMAIN lab
               /\ lab[m[h][j][1]] = <<lab[h][1], lab[h][2] - 1, Child(lab[h][3], j)>>
          /\ lab[h][2] = 1 /\ lab[h][1] = Kernel => m[h][j] = <<Child(lab[h][3], j) - va(0), FALSE>>
      BY <1>1, <2>3, <3>1, Zenon DEF Down
    <3> QED
      BY <1>11, <2>3, <3>1, <3>2, Zenon
  <2> QED
    BY <2>4, <2>5, Zenon
<1>15. Parents(m2, lab2)
  <2> SUFFICES ASSUME NEW h \in DOMAIN lab2, lab2[h][2] < 4
               PROVE  \E k \in DOMAIN lab2 : \E j \in Own(lab2[k]) : lab2[k][2] > 1 /\ m2[k][j] # Empty /\ m2[k][j][1] = h
    BY Zenon DEF Parents
  <2>1. CASE h = g
    <3>1. f \in DOMAIN lab2 /\ lab2[f] = lab[f] /\ m2[f][i] = <<g, user>> /\ lab2[f][2] = l
      BY <1>8, <1>11 DEF Written
    <3>2. m2[f][i] # Empty /\ m2[f][i][1] = h
      BY <1>7, <2>1, <3>1
    <3> QED
      BY <1>12, <3>1, <3>2, Zenon
  <2>2. CASE h \in DOMAIN lab
    <3>1. PICK k \in DOMAIN lab : \E j \in Own(lab[k]) : lab[k][2] > 1 /\ m[k][j] # Empty /\ m[k][j][1] = h
      BY <1>1, <1>11, <2>2, ZenonT(60) DEF Parents
    <3>2. PICK j \in Own(lab[k]) : lab[k][2] > 1 /\ m[k][j] # Empty /\ m[k][j][1] = h
      BY <3>1, Zenon
    <3>3. j \in Index /\ k \in DOMAIN m /\ ~(k = f /\ j = i)
      BY <1>1, <3>2, OwnIndex, ZenonT(60) DEF Labels
    <3>4. m2[k][j] = m[k][j]
      BY <1>8, <3>3, Zenon DEF Written
    <3>5. k \in DOMAIN lab2 /\ lab2[k] = lab[k]
      BY <1>11, Zenon
    <3> QED
      BY <3>2, <3>4, <3>5, Zenon
  <2> QED
    BY <1>11, <2>1, <2>2, Zenon
<1>16. Lists(m2, p2, lab2)
  <2>1. ASSUME NEW u \in DOMAIN p2
        PROVE  /\ p2[u] = [root |-> p2[u].root, pfdb |-> [free |-> p2[u].pfdb.free, used |-> p2[u].pfdb.used]]
               /\ p2[u].pfdb.free \in Seq(Nat) /\ p2[u].pfdb.used \in Seq(Nat)
               /\ IsInjective(p2[u].pfdb.free) /\ IsInjective(p2[u].pfdb.used)
               /\ Range(p2[u].pfdb.used) = {h \in DOMAIN lab2 : lab2[h][1] = u}
               /\ \A h \in Range(p2[u].pfdb.free) : h \in DOMAIN m2 /\ h \notin DOMAIN lab2 /\ m2[h] = NoTable
    <3>1. CASE u = t
      <4>1. p2[u] = [root |-> p[t].root, pfdb |-> d]
        BY <1>9, <3>1, Zenon
      <4>2. p2[u].pfdb = d /\ p2[u].root = p[t].root
        BY <4>1
      <4>3. p2[u] = [root |-> p2[u].root, pfdb |-> [free |-> p2[u].pfdb.free, used |-> p2[u].pfdb.used]]
        BY <1>6, <4>1, <4>2, Zenon
      <4>4. Range(d.used) = {h \in DOMAIN lab2 : lab2[h][1] = t}
        BY <1>2, <1>5, <1>6, <1>11, SMTT(60)
      <4>5. \A h \in Range(d.free) : h \in DOMAIN m2 /\ h \notin DOMAIN lab2 /\ m2[h] = NoTable
        BY <1>2, <1>6, <1>8, <1>11, Zenon DEF Written
      <4> QED
        BY <1>6, <3>1, <4>2, <4>3, <4>4, <4>5, Zenon
    <3>2. CASE u # t
      <4>1. u \in DOMAIN p /\ p2[u] = p[u]
        BY <1>9, <3>2, Zenon
      <4>2. /\ p[u] = [root |-> p[u].root, pfdb |-> [free |-> p[u].pfdb.free, used |-> p[u].pfdb.used]]
            /\ p[u].pfdb.free \in Seq(Nat) /\ p[u].pfdb.used \in Seq(Nat)
            /\ IsInjective(p[u].pfdb.free) /\ IsInjective(p[u].pfdb.used)
            /\ Range(p[u].pfdb.used) = {h \in DOMAIN lab : lab[h][1] = u}
            /\ \A h \in Range(p[u].pfdb.free) : h \in DOMAIN m /\ h \notin DOMAIN lab /\ m[h] = NoTable
            /\ Range(free) \cap Range(p[u].pfdb.free) = {}
        BY <1>1, <3>2, <4>1, ZenonT(60) DEF Lists, free
      <4>3. {h \in DOMAIN lab : lab[h][1] = u} = {h \in DOMAIN lab2 : lab2[h][1] = u}
        BY <1>11, <3>2, SMTT(60)
      <4>4. \A h \in Range(p[u].pfdb.free) : h \in DOMAIN m2 /\ h \notin DOMAIN lab2 /\ m2[h] = NoTable
        BY <1>4, <1>8, <1>11, <4>2, ZenonT(60) DEF Written
      <4> QED
        BY <4>1, <4>2, <4>3, <4>4, Zenon
    <3> QED
      BY <3>1, <3>2, Zenon
  <2>2. ASSUME NEW u \in DOMAIN p2, NEW w \in DOMAIN p2, u # w
        PROVE  Range(p2[u].pfdb.free) \cap Range(p2[w].pfdb.free) = {}
    <3>1. u \in DOMAIN p /\ w \in DOMAIN p
      BY <1>9, Zenon
    <3>2. Range(p[u].pfdb.free) \cap Range(p[w].pfdb.free) = {}
      BY <1>1, <2>2, <3>1, Zenon DEF Lists
    <3>3. \A z \in DOMAIN p : Range(p2[z].pfdb.free) \subseteq Range(p[z].pfdb.free)
      <4> TAKE z \in DOMAIN p
      <4>1. CASE z = t
        <5>1. p2[z].pfdb.free = d.free
          BY <1>9, <4>1, SMTT(60)
        <5> QED
          BY <1>6, <4>1, <5>1, Zenon DEF free
      <4>2. CASE z # t
        BY <1>9, <4>2, ZenonT(60)
      <4> QED
        BY <4>1, <4>2, Zenon
    <3> QED
      BY <3>1, <3>2, <3>3, Zenon
  <2> QED
    BY <2>1, <2>2, Zenon DEF Lists
<1>17. \A h \in DOMAIN m2 : m2[h] \in [Index -> Entry]
  BY <1>8, Zenon DEF Written
<1> QED
  BY <1>13, <1>14, <1>15, <1>16, <1>17, Zenon DEF Tree

(* When page_alloc fills an absent entry of a last table, the tables stay    *)
(* trees; in the kernel's tables the entry is the page that va() says.       *)
LEMMA NewLeaf ==
  ASSUME NEW m, NEW p, NEW lab, Tree(m, p, lab), NEW t, NEW x \in Nat,
         NEW f \in DOMAIN lab, lab[f] = <<t, 1, x>>, NEW i \in Index, NEW e \in Entry,
         t = Kernel => e = <<Child(x, i) - va(0), FALSE>>,
         NEW m2, Written(m, f, i, e, m2)
  PROVE  Tree(m2, p, lab)
<1>1. /\ \A h \in DOMAIN m : m[h] \in [Index -> Entry]
      /\ Labels(m, p, lab) /\ Down(m, lab) /\ Parents(m, lab) /\ Lists(m, p, lab)
  BY Zenon DEF Tree
<1>2. f \in DOMAIN m
  BY <1>1, Zenon DEF Labels
<1> Written(m, f, i, e, m2)
  BY Zenon
<1>4. lab[f][1] = t /\ lab[f][2] = 1 /\ lab[f][3] = x
  BY SMTT(60)
<1>5. Labels(m2, p, lab)
  BY <1>1, Zenon DEF Labels, Written
<1>6. Down(m2, lab)
  <2> SUFFICES ASSUME NEW h \in DOMAIN lab, NEW j \in Own(lab[h]), m2[h][j] # Empty
               PROVE  /\ lab[h][2] > 1 =>
                           /\ m2[h][j][1] \in DOMAIN lab
                           /\ lab[m2[h][j][1]] = <<lab[h][1], lab[h][2] - 1, Child(lab[h][3], j)>>
                      /\ lab[h][2] = 1 /\ lab[h][1] = Kernel => m2[h][j] = <<Child(lab[h][3], j) - va(0), FALSE>>
    BY Zenon DEF Down
  <2>1. j \in Index /\ h \in DOMAIN m
    BY <1>1, OwnIndex, Zenon DEF Labels
  <2> CASE h = f /\ j = i
    <3>1. m2[h][j] = e
      BY Zenon DEF Written
    <3>2. ~(lab[h][2] > 1)
      BY <1>4
    <3>3. lab[h][1] = Kernel => m2[h][j] = <<Child(lab[h][3], j) - va(0), FALSE>>
      BY <1>4, <3>1, Zenon
    <3> QED
      BY <3>2, <3>3, Zenon
  <2>3. CASE ~(h = f /\ j = i)
    <3>1. m2[h][j] = m[h][j]
      BY <2>1, <2>3, Zenon DEF Written
    <3> QED
      BY <1>1, <3>1, Zenon DEF Down
  <2> QED
    BY <2>3, Zenon
<1>7. Parents(m2, lab)
  <2> SUFFICES ASSUME NEW h \in DOMAIN lab, lab[h][2] < 4
               PROVE  \E k \in DOMAIN lab : \E j \in Own(lab[k]) : lab[k][2] > 1 /\ m2[k][j] # Empty /\ m2[k][j][1] = h
    BY Zenon DEF Parents
  <2>1. PICK k \in DOMAIN lab : \E j \in Own(lab[k]) : lab[k][2] > 1 /\ m[k][j] # Empty /\ m[k][j][1] = h
    BY <1>1, Zenon DEF Parents
  <2>2. k # f /\ k \in DOMAIN m
    BY <1>1, <1>4, <2>1 DEF Labels
  <2>3. m2[k] = m[k]
    BY <2>2, Zenon DEF Written
  <2> QED
    BY <2>1, <2>3, Zenon
<1>8. Lists(m2, p, lab)
  <2>1. \A h \in DOMAIN m : h \notin DOMAIN lab => m2[h] = m[h]
    BY Zenon DEF Written
  <2>2. DOMAIN m2 = DOMAIN m
    BY Zenon DEF Written
  <2> QED
    BY <1>1, <2>1, <2>2, Zenon DEF Lists
<1>9. \A h \in DOMAIN m2 : m2[h] \in [Index -> Entry]
  BY Zenon DEF Written
<1> QED
  BY <1>5, <1>6, <1>7, <1>8, <1>9, Zenon DEF Tree

-----------------------------------------------------------------------------
(* page_alloc *)

(* va() of a page is a virtual page with an index and a last table. *)
LEMMA KernelAddress ==
  ASSUME NEW p \in Nat
  PROVE  va(p) \in Nat /\ Idx(1, va(p)) \in Index /\ Up(va(p)) \in Nat
<1>1. va(p) \in Nat
  BY ConstantTypes DEF va
<1>2. Idx(1, va(p)) = va(p) % Fanout
  BY Zenon DEF Idx
<1> QED
  BY <1>1, <1>2, UpChild, Zenon

(* A page of the kernel stays mapped when entries and tables are added. *)
LEMMA MappedKept ==
  ASSUME NEW m, NEW m2, NEW lab, NEW lab2, NEW p \in Nat, Mapped(m, lab, va(p)), Keeps(m, m2),
         DOMAIN lab \subseteq DOMAIN m, DOMAIN lab \subseteq DOMAIN lab2, \A f \in DOMAIN lab : lab2[f] = lab[f]
  PROVE  Mapped(m2, lab2, va(p))
<1>1. PICK f \in DOMAIN lab : lab[f] = <<Kernel, 1, Up(va(p))>> /\ m[f][Idx(1, va(p))] # Empty
  BY Zenon DEF Mapped
<1>2. m2[f][Idx(1, va(p))] # Empty
  BY <1>1, KernelAddress, Zenon DEF Keeps
<1> QED
  BY <1>1, <1>2, Zenon DEF Mapped

(* So do all the pages of P. *)
LEMMA GoodKept ==
  ASSUME NEW s, NEW w, NEW lab, NEW lab2, NEW P, Good(s, lab, P), Tree(w.mem, w.pgt, lab2), Keeps(s.mem, w.mem),
         DOMAIN lab \subseteq DOMAIN lab2, \A f \in DOMAIN lab : lab2[f] = lab[f]
  PROVE  Good(w, lab2, P)
<1>1. DOMAIN lab \subseteq DOMAIN s.mem /\ \A p \in P : p \in Nat /\ Mapped(s.mem, lab, va(p))
  BY Zenon DEF Good, Tree, Labels
<1>2. \A p \in P : p \in Nat /\ Mapped(w.mem, lab2, va(p))
  BY <1>1, MappedKept, Zenon
<1> QED
  BY <1>2, Zenon DEF Good

(* One level of page_alloc ends at the table of the next level on the way to *)
(* v, linking a new one when there is none, and the tables stay trees.       *)
LEMMA DescendReach ==
  ASSUME NEW s, Rec(s), NEW P, NEW t \in DOMAIN s.pgt, NEW l \in 2..4, NEW v, InHalf(t, v),
         Reach(s, P, t, l, v), NEW user \in BOOLEAN, NEW w, w = Descend(s, t, v, user, l), Running(w)
  PROVE  Reach(w, P, t, l - 1, v)
<1> DEFINE i == Idx(l, v)
           x == Prefix(l, v)
           f == s.at
           e == s.mem[f][i]
           pfdb == s.pgt[t].pfdb
           g == Head(pfdb.free)
<1>1. PICK lab : Good(s, lab, P) /\ f \in DOMAIN lab /\ lab[f] = <<t, l, x>>
  BY Zenon DEF Reach
<1>3. i \in Index /\ x \in Nat /\ Child(x, i) = Prefix(l - 1, v) /\ i \in Own(<<t, l, x>>) /\ l > 1
  BY LevelDown, Zenon
<1> HIDE DEF f, i, x
<1>2. lab[f][1] = t /\ lab[f][2] = l /\ lab[f][3] = x
  <2>1. lab[f] = <<t, l, x>>
    BY <1>1, Zenon
  <2> QED
    BY <2>1, LabelParts, SMTT(60)
<1>4. i \in Own(lab[f])
  <2>1. lab[f] = <<t, l, x>> /\ i \in Own(<<t, l, x>>)
    BY <1>1, <1>3, Zenon
  <2> QED
    BY <2>1, Zenon
<1>5. Tree(s.mem, s.pgt, lab) /\ Down(s.mem, lab)
  BY <1>1, Zenon DEF Good, Tree
<1>6. Adds(s, w)
  BY DescendAdds, Zenon
<1>7. Keeps(s.mem, w.mem) /\ Running(s)
  BY <1>6, ZenonT(60) DEF Adds, Running
<1>8. CASE e # Empty
  <2>1. w = [s EXCEPT !.at = e[1]]
    BY <1>7, <1>8, Zenon DEF Descend, f, i, Running
  <2>2. w.mem = s.mem /\ w.pgt = s.pgt /\ w.at = e[1]
    <3> HIDE DEF e
    <3> QED
      BY <2>1, Zenon DEF Rec
  <2>3. e[1] \in DOMAIN lab /\ lab[e[1]] = <<t, l - 1, Child(x, i)>>
    BY <1>1, <1>2, <1>3, <1>4, <1>5, <1>8, Zenon DEF Down
  <2>4. Good(w, lab, P)
    BY <1>1, <2>2, Zenon DEF Good
  <2> QED
    BY <1>3, <2>2, <2>3, <2>4, Zenon DEF Reach
<1>9. CASE e = Empty
  <2>1. pfdb.free # << >>
    <3> SUFFICES ASSUME pfdb.free = << >> PROVE FALSE
      BY Zenon
    <3>1. w = [s EXCEPT !.bug = IF t = Kernel THEN "kernel_frames" ELSE "process_frames"]
      BY <1>7, <1>9, Zenon DEF Descend, f, i, Running
    <3>2. w.bug # ""
      <4> HIDE DEF pfdb, e
      <4> QED
        BY <3>1, Zenon DEF Rec
    <3> QED
      BY <3>2, Zenon DEF Running
  <2>2. w = [s EXCEPT !.mem[f][i] = <<g, user>>, !.pgt[t].pfdb = pageframe_alloc(pfdb), !.at = g]
    BY <1>7, <1>9, <2>1, Zenon DEF Descend, f, i, Running
  <2> DEFINE m2 == [s.mem EXCEPT ![f][i] = <<g, user>>]
             p2 == [s.pgt EXCEPT ![t].pfdb = pageframe_alloc(s.pgt[t].pfdb)]
             lab2 == [h \in DOMAIN lab \cup {g} |-> IF h = g THEN <<t, l - 1, Child(x, i)>> ELSE lab[h]]
  <2>3. w.mem = m2 /\ w.pgt = p2 /\ w.at = g
    <3> HIDE DEF g, i, f
    <3> QED
      BY <2>2, Zenon DEF Rec
  <2>4. g \notin DOMAIN lab
    <3>1. /\ pfdb.free \in Seq(Nat)
          /\ \A h \in Range(pfdb.free) : h \notin DOMAIN lab
      BY <1>5, Zenon DEF Tree, Lists
    <3> QED
      BY <2>1, <3>1, HeadInRange, Zenon
  <2>5. Labelled(lab, g, <<t, l - 1, Child(x, i)>>, lab2)
    <3> HIDE DEF g, i, x
    <3> QED
      BY <2>4, Zenon DEF Labelled
  <2>6. Tree(m2, p2, lab2)
    <3> HIDE DEF lab2, i, x, f, m2, p2, g
    <3>1. s.mem[f][i] = Empty /\ g = Head(s.pgt[t].pfdb.free) /\ s.pgt[t].pfdb.free # << >>
      BY <1>9, <2>1, Zenon DEF g
    <3>2. g \in Nat /\ f \in DOMAIN s.mem /\ \A h \in DOMAIN s.mem : s.mem[h] \in [Index -> Entry]
      <4>1. s.pgt[t].pfdb.free \in Seq(Nat)
        BY <1>5, Zenon DEF Tree, Lists
      <4>2. Head(s.pgt[t].pfdb.free) \in Nat
        BY <3>1, <4>1, HeadInRange, Zenon
      <4> QED
        BY <1>1, <1>5, <3>1, <4>2, Zenon DEF Tree, Labels
    <3>3. <<g, user>> \in Entry
      BY <3>2, Zenon DEF Entry
    <3>4. Written(s.mem, f, i, <<g, user>>, m2)
      BY <1>3, <3>2, <3>3, WriteEntry, Zenon DEF m2
    <3>5. s.pgt[t] = [root |-> s.pgt[t].root,
                      pfdb |-> [free |-> s.pgt[t].pfdb.free, used |-> s.pgt[t].pfdb.used]]
      BY <1>5, Zenon DEF Tree, Lists
    <3>6. Drawn(s.pgt, t, p2)
      BY <3>5, DrawFrame, Zenon DEF p2
    <3> QED
      BY <1>1, <1>3, <1>4, <1>5, <2>5, <3>1, <3>4, <3>6, NewTable, Zenon
  <2>7. DOMAIN lab \subseteq DOMAIN lab2 /\ (\A h \in DOMAIN lab : lab2[h] = lab[h]) /\ g \in DOMAIN lab2
        /\ lab2[g] = <<t, l - 1, Child(x, i)>>
    <3> HIDE DEF lab2
    <3> QED
      BY <2>5, Zenon DEF Labelled
  <2> HIDE DEF lab2, i, x, f, m2, p2, g
  <2>8. Good(w, lab2, P)
    BY <1>1, <1>7, <2>3, <2>6, <2>7, GoodKept, Zenon
  <2> QED
    BY <1>3, <2>3, <2>7, <2>8, Zenon DEF Reach
<1> QED
  BY <1>8, <1>9, Zenon

(* Adding entries leaves the address spaces what they are. *)
LEMMA ReachSpaces ==
  ASSUME NEW s, NEW w, Adds(s, w)
  PROVE  DOMAIN w.pgt = DOMAIN s.pgt /\ Rec(w) /\ (Running(w) => Running(s)) /\ Keeps(s.mem, w.mem)
BY Zenon DEF Adds, SameRoots, Running

(* page_alloc ends its walk at the last table on the way to v. *)
LEMMA WalkReach ==
  ASSUME NEW s, Rec(s), NEW P, NEW t \in DOMAIN s.pgt, NEW v, InHalf(t, v), Holds(s, P),
         NEW user \in BOOLEAN, NEW w, w = Walk(s, t, v, user), Running(w)
  PROVE  Reach(w, P, t, 1, v)
<1> DEFINE s4 == [s EXCEPT !.at = s.pgt[t].root]
           s3 == Descend(s4, t, v, user, 4)
           s2 == Descend(s3, t, v, user, 3)
           s1 == Descend(s2, t, v, user, 2)
<1>1. Running(s)
  BY WalkAdds, ReachSpaces, Zenon
<1>2. w = s1
  BY <1>1, Zenon DEF Walk, Running
<1>3. s4.mem = s.mem /\ s4.pgt = s.pgt /\ s4.at = s.pgt[t].root /\ Rec(s4)
  BY SMTT(60) DEF Rec
<1> HIDE DEF s1, s2, s3, s4
<1>4. Reach(s4, P, t, 4, v)
  <2>1. PICK lab : Good(s, lab, P)
    BY Zenon DEF Holds
  <2>2. s.pgt[t].root \in DOMAIN lab /\ lab[s.pgt[t].root] = <<t, 4, 0>>
    BY <2>1, ZenonT(60) DEF Good, Tree, Labels
  <2>3. Good(s4, lab, P)
    BY <1>3, <2>1, Zenon DEF Good
  <2>4. Prefix(4, v) = 0
    BY Zenon DEF Prefix
  <2> QED
    BY <1>3, <2>2, <2>3, <2>4, Zenon DEF Reach
<1>5. Adds(s4, s3)
  BY <1>3, DescendAdds, Zenon DEF s3
<1>6. Rec(s3)
  BY <1>5, ReachSpaces, Zenon
<1> Adds(s3, s2)
  BY <1>6, DescendAdds, Zenon DEF s2
<1>8. Rec(s2)
  BY ReachSpaces
<1>9. Adds(s2, s1)
  BY <1>8, DescendAdds, Zenon DEF s1
<1>10. Running(s2) /\ Running(s3)
  BY <1>2, <1>9, ReachSpaces, Zenon
<1> t \in DOMAIN s4.pgt /\ t \in DOMAIN s3.pgt /\ t \in DOMAIN s2.pgt
  BY <1>3, <1>5, ReachSpaces, Zenon
<1> 4 \in 2..4 /\ 3 \in 2..4 /\ 2 \in 2..4 /\ 4 - 1 = 3 /\ 3 - 1 = 2 /\ 2 - 1 = 1
  BY SMTT(60)
<1>13. Reach(s3, P, t, 3, v)
  BY <1>3, <1>4, <1>10, DescendReach, ZenonT(60) DEF s3
<1>14. Reach(s2, P, t, 2, v)
  BY <1>6, <1>10, <1>13, DescendReach, Zenon DEF s2
<1>15. Reach(s1, P, t, 1, v)
  BY <1>2, <1>8, <1>14, DescendReach, Zenon DEF s1
<1> QED
  BY <1>2, <1>15, Zenon

(* the pages of the kernel that an operation on t maps *)
Gain(t, lo, hi) == IF t = Kernel THEN lo..hi ELSE {}

(* After page_alloc the tables are trees, the pages that were mapped are     *)
(* mapped, and in the kernel's tables so is the new one.                     *)
LEMMA PageAllocHolds ==
  ASSUME NEW s, Rec(s), NEW P, NEW t \in DOMAIN s.pgt, NEW v, InHalf(t, v), Holds(s, P),
         NEW page \in Nat, NEW user \in BOOLEAN, t = Kernel => v = va(page) /\ user = FALSE,
         NEW x, x = page_alloc(s, t, v, page, user), Running(x)
  PROVE  Holds(x, P \cup Gain(t, page, page))
<1> DEFINE w == Walk(s, t, v, user)
           i == Idx(1, v)
           f == w.at
           e == <<page, user>>
<1>1. x = IF w.bug # "" \/ w.mem[f][i] # Empty THEN w ELSE [w EXCEPT !.mem[f][i] = e]
  BY Zenon DEF page_alloc
<1> HIDE DEF w
<1>2. Rec(w) /\ Running(w)
  <2>1. Rec(w)
    BY WalkAdds, ReachSpaces, Zenon DEF w
  <2>2. w.bug = ""
    <3> SUFFICES ASSUME w.bug # "" PROVE FALSE
      BY Zenon
    <3>1. x = w
      BY <1>1, Zenon
    <3> QED
      BY <3>1, Zenon DEF Running
  <2> QED
    BY <2>1, <2>2, Zenon DEF Running
<1>3. Reach(w, P, t, 1, v)
  BY <1>2, WalkReach, Zenon DEF w
<1>4. PICK lab : Good(w, lab, P) /\ f \in DOMAIN lab /\ lab[f] = <<t, 1, Prefix(1, v)>>
  BY <1>3, Zenon DEF Reach
<1>5. /\ i \in Index /\ Prefix(1, v) \in Nat /\ Prefix(1, v) = Up(v) /\ Child(Up(v), i) = v
  <2>1. v \in Nat /\ Up(Up(Up(v))) \in Index
    BY HalfIndex, Zenon DEF InHalf
  <2>2. 1 \in 1..4
    BY SMTT(60)
  <2> QED
    BY <2>1, <2>2, Levels, Zenon
<1> HIDE DEF i, f
<1>6. Tree(w.mem, w.pgt, lab) /\ \A p \in P : p \in Nat /\ Mapped(w.mem, lab, va(p))
  BY <1>4, Zenon DEF Good
<1>7. lab[f] = <<t, 1, Up(v)>> /\ e \in Entry /\ e # Empty
  BY <1>4, <1>5, ZenonT(60) DEF Entry, Empty
<1>8. /\ Tree(x.mem, x.pgt, lab) /\ x.mem[f][i] # Empty
      /\ \A p \in P : p \in Nat /\ Mapped(x.mem, lab, va(p))
  <2>1. CASE w.mem[f][i] # Empty
    <3>1. x = w
      BY <1>1, <2>1, Zenon
    <3> QED
      BY <1>6, <2>1, <3>1, Zenon
  <2>2. CASE w.mem[f][i] = Empty
    <3>1. x = [w EXCEPT !.mem[f][i] = e]
      BY <1>1, <1>2, <2>2, Zenon DEF Running
    <3> DEFINE m2 == [w.mem EXCEPT ![f][i] = e]
    <3> HIDE DEF e
    <3>2. x.mem = m2 /\ x.pgt = w.pgt
      BY <1>2, <3>1, Zenon DEF Rec
    <3>3. f \in DOMAIN w.mem /\ DOMAIN lab \subseteq DOMAIN w.mem /\ \A h \in DOMAIN w.mem : w.mem[h] \in [Index -> Entry]
      BY <1>4, <1>6, Zenon DEF Tree, Labels
    <3>4. Written(w.mem, f, i, e, m2)
      BY <1>5, <1>7, <3>3, WriteEntry, Zenon
    <3> HIDE DEF m2
    <3>5. t = Kernel => e = <<Child(Up(v), i) - va(0), FALSE>>
      <4> SUFFICES ASSUME t = Kernel PROVE e = <<v - va(0), FALSE>>
        BY <1>5, Zenon
      <4>1. v = va(page) /\ user = FALSE
        BY Zenon
      <4>2. va(page) - va(0) = page
        BY ConstantTypes DEF va
      <4> QED
        BY <4>1, <4>2, Zenon DEF e
    <3>6. Tree(m2, w.pgt, lab)
      BY <1>4, <1>5, <1>6, <1>7, <3>4, <3>5, NewLeaf, Zenon
    <3>7. Keeps(w.mem, m2) /\ m2[f][i] = e
      BY <2>2, <3>4, Zenon DEF Keeps, Written
    <3>8. \A p \in P : p \in Nat /\ Mapped(m2, lab, va(p))
      BY <1>6, <3>3, <3>7, MappedKept, ZenonT(60)
    <3> QED
      BY <1>7, <3>2, <3>6, <3>7, <3>8, Zenon
  <2> QED
    BY <2>1, <2>2, Zenon
<1>9. t = Kernel => Mapped(x.mem, lab, va(page))
  BY <1>4, <1>7, <1>8, Zenon DEF Mapped, i
<1>10. Gain(t, page, page) \subseteq {page} /\ (t # Kernel => Gain(t, page, page) = {})
  BY DEF Gain
<1>11. \A p \in P \cup Gain(t, page, page) : p \in Nat /\ Mapped(x.mem, lab, va(p))
  BY <1>8, <1>9, <1>10, Zenon
<1>12. Good(x, lab, P \cup Gain(t, page, page))
  BY <1>8, <1>11, Zenon DEF Good
<1> QED
  BY <1>12, Zenon DEF Holds

(* ... with those of P, after k turns of a loop *)
Span(P, t, page, k) == P \cup Gain(t, page, page + k - 1)

(* A loop that has not turned has mapped nothing. *)
LEMMA SpanNone ==
  ASSUME NEW t, NEW page \in Nat, NEW P
  PROVE  Span(P, t, page, 0) = P
<1>1. page..(page + 0 - 1) = {}
  OBVIOUS
<1> QED
  BY <1>1, Zenon DEF Gain, Span

(* One more turn of the loop maps one more page. *)
LEMMA SpanNext ==
  ASSUME NEW t, NEW page \in Nat, NEW k \in Nat, NEW P
  PROVE  Span(P, t, page, k) \cup Gain(t, page + k, page + k) = Span(P, t, page, k + 1)
<1>1. page..(page + (k + 1) - 1) = page..(page + k - 1) \cup (page + k)..(page + k)
  OBVIOUS
<1> QED
  BY <1>1, Zenon DEF Gain, Span

(* When the pages of P are mapped, so are those of a part of P. *)
LEMMA HoldsLess ==
  ASSUME NEW s, NEW P, NEW Q, Holds(s, P), Q \subseteq P
  PROVE  Holds(s, Q)
BY Zenon DEF Holds, Good

-----------------------------------------------------------------------------
(* Memory that is mapped *)

(* the pages of a block, and of the blocks of B *)
BlockPages(b) == b[1]..(b[1] + PagesOf(b[2]) - 1)

LivePages(B) == UNION {BlockPages(b) : b \in B}

(* One more block adds its pages. *)
LEMMA LivePagesAdd ==
  ASSUME NEW B, NEW b
  PROVE  LivePages(B \cup {b}) = LivePages(B) \cup BlockPages(b)
BY Zenon DEF LivePages

(* Fewer blocks have fewer pages. *)
LEMMA LivePagesLess ==
  ASSUME NEW A, NEW B, A \subseteq B
  PROVE  LivePages(A) \subseteq LivePages(B)
BY Zenon DEF LivePages

(* the kernel has tables, which map the blocks that are live, which are in   *)
(* memory                                                                    *)
Served(s) ==
  /\ Kernel \in DOMAIN s.pgt /\ Holds(s, LivePages(s.live)) /\ \A q \in LivePages(s.live) : q \in 0..(Pages - 1)

(* The header of the allocator is one page of memory. *)
LEMMA HeaderSize ==
  /\ HeaderPage \in Nat /\ PageSize \in Nat /\ PagesOf(PageSize) = 1 /\ HeaderPage + PagesOf(PageSize) <= Pages
  /\ HeaderPage \in HeaderPage..(HeaderPage + PagesOf(PageSize) - 1)
<1>1. PageSize \in Nat /\ HeaderPage \in Nat /\ Pages \in Nat
  BY ConstantTypes, Zenon
<1>2. HeaderPage < Pages
  BY PagingAssumption, Zenon
<1> DEFINE k == 1
<1>3. k \in Nat /\ k * PageSize = PageSize
  BY <1>1
<1> HIDE DEF k
<1>4. PagesOf(PageSize) = k
  BY <1>3, WholePages, Zenon
<1> QED
  BY <1>1, <1>2, <1>4 DEF k

(* The blocks that are reserved at boot lie in memory. *)
LEMMA BootBlocks ==
  /\ KernelEnd * PageSize \in Nat /\ 0 + PagesOf(KernelEnd * PageSize) <= Pages
  /\ \A q \in LivePages({<<0, KernelEnd * PageSize>>, <<HeaderPage, PageSize>>}) : q \in 0..(Pages - 1)
<1> PageSize \in Nat /\ HeaderPage \in Nat /\ Pages \in Nat /\ KernelEnd \in Nat
  BY ConstantTypes, Zenon
<1>2. KernelEnd <= Pages /\ HeaderPage < Pages
  BY PagingAssumption, Zenon
<1> KernelEnd * PageSize \in Nat /\ PagesOf(KernelEnd * PageSize) = KernelEnd
  BY WholePages
<1> DEFINE a == <<0, KernelEnd * PageSize>>
           b == <<HeaderPage, PageSize>>
<1>4. BlockPages(a) = 0..(0 + KernelEnd - 1)
  BY Zenon DEF BlockPages
<1>5. BlockPages(b) = HeaderPage..(HeaderPage + 1 - 1)
  BY HeaderSize, Zenon DEF BlockPages
<1> HIDE DEF a, b
<1>6. \A q \in BlockPages(a) \cup BlockPages(b) : q \in 0..(Pages - 1)
  BY <1>2, <1>4, <1>5
<1>7. LivePages({a, b}) = BlockPages(a) \cup BlockPages(b)
  BY Zenon DEF LivePages
<1>8. \A q \in LivePages({a, b}) : q \in 0..(Pages - 1)
  BY <1>6, <1>7, Zenon
<1>9. 0 + PagesOf(KernelEnd * PageSize) <= Pages
  BY <1>2
<1> QED
  BY <1>8, <1>9, Zenon DEF a, b

(* The entry of a root that covers physical memory is in the upper half. *)
LEMMA KernelTop == Fanout \div 2 \in Index /\ Fanout \div 2 \notin UserHalf
BY ConstantTypes DEF Index, UserHalf

(* Physical memory fits behind one entry of the root. *)
LEMMA PagesFit ==
  ASSUME NEW q \in Nat, q < Pages
  PROVE  q < Fanout * Fanout * Fanout
<1> DEFINE c == Fanout * Fanout * Fanout
<1>1. Fanout \in Nat /\ Pages \in Nat
  BY ConstantTypes, Zenon
<1>2. c \in Nat
  BY <1>1
<1>3. Pages <= c
  BY PagingAssumption, Zenon
<1> HIDE DEF c
<1>4. q < c
  BY <1>1, <1>2, <1>3
<1> QED
  BY <1>4, Zenon DEF c

(* So does every page of it. *)
LEMMA PageFits ==
  ASSUME NEW q \in 0..(Pages - 1)
  PROVE  q < Fanout * Fanout * Fanout
<1>1. q \in Nat /\ q < Pages
  BY ConstantTypes
<1> QED
  BY <1>1, PagesFit, Zenon

(* A block that kmalloc returns lies in memory. *)
LEMMA NewBlockInside ==
  ASSUME NEW s, NEW w, NEW bytes \in Nat, NewBlock(s, w, bytes), \A q \in LivePages(s.live) : q \in 0..(Pages - 1)
  PROVE  \A q \in LivePages(w.live) : q \in 0..(Pages - 1)
<1> DEFINE b == <<w.ptr, bytes>>
<1>1. w.live = s.live \cup {b} /\ w.ptr \in Nat /\ w.ptr + PagesOf(bytes) <= Pages
  BY Zenon DEF NewBlock
<1>2. BlockPages(b) = w.ptr..(w.ptr + PagesOf(bytes) - 1)
  BY Zenon DEF BlockPages
<1>3. PagesOf(bytes) \in Nat /\ Pages \in Nat
  BY PageCounts, ConstantTypes, Zenon
<1>4. w.ptr..(w.ptr + PagesOf(bytes) - 1) \subseteq 0..(Pages - 1)
  BY <1>1, <1>3
<1> HIDE DEF b
<1>5. LivePages(w.live) = LivePages(s.live) \cup BlockPages(b)
  BY <1>1, LivePagesAdd, Zenon
<1> QED
  BY <1>2, <1>4, <1>5, Zenon

-----------------------------------------------------------------------------
(* The tree of a new process *)

(* a database of n frames, the last one in use *)
OneUsed(d, page, n) ==
  /\ d = [free |-> d.free, used |-> d.used] /\ d.free \in Seq(Nat) /\ d.used \in Seq(Nat)
  /\ IsInjective(d.free) /\ IsInjective(d.used) /\ Range(d.used) = {page + n - 1}
  /\ \A h \in Range(d.free) : h \in page..(page + n - 1) /\ h # page + n - 1

(* After paging_init has taken the root from a new database, the root is its *)
(* only used frame.                                                          *)
LEMMA RootTaken ==
  ASSUME NEW n \in Nat \ {0}, NEW page \in Nat
  PROVE  OneUsed(pageframe_alloc(pageframe_init([i \in 1..((n * NodeSize) \div NodeSize) |-> page + i - 1])), page, n)
<1> DEFINE pfdb == pageframe_init([i \in 1..((n * NodeSize) \div NodeSize) |-> page + i - 1])
           d == pageframe_alloc(pfdb)
           free == pfdb.free
           used == pfdb.used
           r == page + n - 1
<1>2. pfdb = [free |-> free, used |-> used]
  BY Zenon DEF pageframe_init
<1>a. pfdb = pageframe_init([i \in 1..((n * NodeSize) \div NodeSize) |-> page + i - 1])
  BY Zenon
<1> HIDE DEF pfdb
<1> /\ free \in Seq(Nat) /\ Len(free) = n /\ used = << >> /\ Head(free) = r
      /\ \A k \in 1..n : free[k] = page + n - k
  BY <1>a, FreshDatabase, ZenonT(60)
<1> HIDE DEF free, used
<1>3. d = pageframe_alloc([free |-> free, used |-> used])
  BY <1>2, Zenon
<1> HIDE DEF d, r
<1> DOMAIN free = 1..n /\ DOMAIN used = {}
  OBVIOUS
<1>5. IsInjective(free)
  BY DEF IsInjective
<1>6. IsInjective(used) /\ Range(used) = {}
  BY Zenon DEF IsInjective, Range
<1>7. free # << >> /\ used \in Seq(Nat)
  OBVIOUS
<1>8. Moved(free, used, r, d)
  BY <1>3, <1>5, <1>6, <1>7, FrameTaken, Zenon
<1>9. \A h \in Range(free) : h \in page..(page + n - 1)
  BY DEF Range
<1> QED
  BY <1>6, <1>8, <1>9, Zenon DEF Moved, OneUsed, d, r, pfdb

(* paging_init adds a tree of one table, the root of t, to the trees there   *)
(* are: its pages are in no other table or list.                             *)
LEMMA NewRoot ==
  ASSUME NEW s, NEW t, NEW page \in Nat, NEW n \in Nat \ {0}, NEW w, Zeroed(s, t, page, n, w),
         NEW lab, Tree(s.mem, s.pgt, lab), t \notin DOMAIN s.pgt, DOMAIN s.mem \cap page..(page + n - 1) = {},
         NEW lab2, Labelled(lab, page + n - 1, <<t, 4, 0>>, lab2)
  PROVE  Tree(w.mem, w.pgt, lab2)
<1> DEFINE m == s.mem
           p == s.pgt
           m2 == w.mem
           p2 == w.pgt
           r == page + n - 1
           Z == page..(page + n - 1)
           d == p2[t].pfdb
<1>1. /\ \A h \in DOMAIN m : m[h] \in [Index -> Entry]
      /\ Labels(m, p, lab) /\ Down(m, lab) /\ Parents(m, lab) /\ Lists(m, p, lab)
  BY Zenon DEF Tree
<1>2. /\ DOMAIN m2 = DOMAIN m \cup Z
      /\ \A f \in Z : m2[f] = NoTable
      /\ \A f \in DOMAIN m \ Z : m2[f] = m[f]
      /\ DOMAIN p2 = DOMAIN p \cup {t}
      /\ \A u \in DOMAIN p \ {t} : p2[u] = p[u]
      /\ p2[t].root = r
  BY ZenonT(60) DEF Zeroed
<1>3. p2[t] = [root |-> r, pfdb |-> d] /\ OneUsed(d, page, n)
  <2>1. p2[t] = [root |-> r,
                 pfdb |-> pageframe_alloc(pageframe_init([i \in 1..((n * NodeSize) \div NodeSize) |-> page + i - 1]))]
    BY ZenonT(60) DEF Zeroed
  <2>2. d = pageframe_alloc(pageframe_init([i \in 1..((n * NodeSize) \div NodeSize) |-> page + i - 1]))
    BY <2>1
  <2> QED
    BY <2>1, <2>2, RootTaken, ZenonT(60)
<1>4. r \in Z /\ r \in Nat /\ Z \subseteq Nat
  BY SMTT(60)
<1>5. /\ d = [free |-> d.free, used |-> d.used] /\ d.free \in Seq(Nat) /\ d.used \in Seq(Nat)
      /\ IsInjective(d.free) /\ IsInjective(d.used) /\ Range(d.used) = {r}
      /\ \A h \in Range(d.free) : h \in Z /\ h # r
  BY <1>3, Zenon DEF OneUsed
<1>6. DOMAIN lab2 = DOMAIN lab \cup {r} /\ lab2[r] = <<t, 4, 0>> /\ \A h \in DOMAIN lab : lab2[h] = lab[h]
  BY Zenon DEF Labelled
<1>7. DOMAIN m \cap Z = {} /\ t \notin DOMAIN p
  BY Zenon
<1> HIDE DEF m, p, m2, p2, r, Z, d
<1>8. DOMAIN lab \cap Z = {} /\ DOMAIN lab \subseteq DOMAIN m /\ r \notin DOMAIN lab
  BY <1>1, <1>4, <1>7, ZenonT(60) DEF Labels
<1>9. lab2[r][1] = t /\ lab2[r][2] = 4 /\ lab2[r][3] = 0
  BY <1>6
<1>10. \A h \in DOMAIN m : m2[h] = m[h]
  BY <1>2, <1>7, Zenon
<1>11. Labels(m2, p2, lab2)
  <2>1. DOMAIN lab2 \subseteq DOMAIN m2 /\ DOMAIN lab2 \subseteq Nat
    BY <1>1, <1>2, <1>4, <1>6, ZenonT(60) DEF Labels
  <2>2. ASSUME NEW h \in DOMAIN lab2
        PROVE  /\ lab2[h] = <<lab2[h][1], lab2[h][2], lab2[h][3]>>
               /\ lab2[h][1] \in DOMAIN p2 /\ lab2[h][2] \in 1..4 /\ lab2[h][3] \in Nat
               /\ lab2[h][2] = 4 => lab2[h][3] = 0
    <3>1. CASE h = r
      BY <1>2, <1>6, <1>9, <3>1
    <3>2. CASE h \in DOMAIN lab
      BY <1>1, <1>2, <1>6, <3>2, Zenon DEF Labels
    <3> QED
      BY <1>6, <3>1, <3>2, ZenonT(60)
  <2>3. ASSUME NEW h \in DOMAIN lab2, NEW k \in DOMAIN lab2, lab2[h] = lab2[k] PROVE h = k
    <3>1. \A h1, h2 \in DOMAIN lab : lab[h1] = lab[h2] => h1 = h2
      BY <1>1, ZenonT(60) DEF Labels
    <3>2. \A h1 \in DOMAIN lab : lab2[h1][1] # t
      BY <1>1, <1>6, <1>7 DEF Labels
    <3>3. (h \in DOMAIN lab \/ h = r) /\ (k \in DOMAIN lab \/ k = r)
      BY <1>6, Zenon
    <3> QED
      BY <1>6, <1>9, <2>3, <3>1, <3>2, <3>3, Zenon
  <2>4. ASSUME NEW u \in DOMAIN p2 PROVE p2[u].root \in DOMAIN lab2 /\ lab2[p2[u].root] = <<u, 4, 0>>
    <3>1. CASE u = t
      BY <1>2, <1>6, <3>1, Zenon
    <3>2. CASE u # t
      <4>1. u \in DOMAIN p /\ p2[u] = p[u]
        BY <1>2, <3>2, Zenon
      <4>2. p[u].root \in DOMAIN lab /\ lab[p[u].root] = <<u, 4, 0>>
        BY <1>1, <4>1, Zenon DEF Labels
      <4> QED
        BY <1>6, <4>1, <4>2, Zenon
    <3> QED
      BY <3>1, <3>2, Zenon
  <2> QED
    BY <2>1, <2>2, <2>3, <2>4, ZenonT(60) DEF Labels
<1>12. Down(m2, lab2)
  <2>1. \A j \in Index : m2[r][j] = Empty
    BY <1>2, <1>4 DEF NoTable
  <2> SUFFICES ASSUME NEW h \in DOMAIN lab2, NEW j \in Own(lab2[h]), m2[h][j] # Empty
               PROVE  /\ lab2[h][2] > 1 =>
                           /\ m2[h][j][1] \in DOMAIN lab2
                           /\ lab2[m2[h][j][1]] = <<lab2[h][1], lab2[h][2] - 1, Child(lab2[h][3], j)>>
                      /\ lab2[h][2] = 1 /\ lab2[h][1] = Kernel => m2[h][j] = <<Child(lab2[h][3], j) - va(0), FALSE>>
    BY Zenon DEF Down
  <2>2. h \in DOMAIN lab /\ lab2[h] = lab[h] /\ m2[h] = m[h]
    <3>1. j \in Index
      BY OwnIndex, Zenon
    <3>2. h # r
      BY <2>1, <3>1, Zenon
    <3> QED
      BY <1>6, <1>8, <1>10, <3>2, Zenon
  <2>3. /\ lab[h][2] > 1 =>
             /\ m[h][j][1] \in DOMAIN lab
             /\ lab[m[h][j][1]] = <<lab[h][1], lab[h][2] - 1, Child(lab[h][3], j)>>
        /\ lab[h][2] = 1 /\ lab[h][1] = Kernel => m[h][j] = <<Child(lab[h][3], j) - va(0), FALSE>>
    BY <1>1, <2>2, Zenon DEF Down
  <2> QED
    BY <1>6, <2>2, <2>3, Zenon
<1>13. Parents(m2, lab2)
  <2> SUFFICES ASSUME NEW h \in DOMAIN lab2, lab2[h][2] < 4
               PROVE  \E k \in DOMAIN lab2 : \E j \in Own(lab2[k]) : lab2[k][2] > 1 /\ m2[k][j] # Empty /\ m2[k][j][1] = h
    BY Zenon DEF Parents
  <2>1. h \in DOMAIN lab /\ lab2[h] = lab[h]
    BY <1>6, <1>9, SMTT(60)
  <2>2. PICK k \in DOMAIN lab : \E j \in Own(lab[k]) : lab[k][2] > 1 /\ m[k][j] # Empty /\ m[k][j][1] = h
    BY <1>1, <2>1, Zenon DEF Parents
  <2>3. k \in DOMAIN lab2 /\ lab2[k] = lab[k] /\ m2[k] = m[k]
    BY <1>6, <1>8, <1>10, Zenon
  <2> QED
    BY <2>2, <2>3, Zenon
<1>14. Lists(m2, p2, lab2)
  <2>1. ASSUME NEW u \in DOMAIN p2
        PROVE  /\ p2[u] = [root |-> p2[u].root, pfdb |-> [free |-> p2[u].pfdb.free, used |-> p2[u].pfdb.used]]
               /\ p2[u].pfdb.free \in Seq(Nat) /\ p2[u].pfdb.used \in Seq(Nat)
               /\ IsInjective(p2[u].pfdb.free) /\ IsInjective(p2[u].pfdb.used)
               /\ Range(p2[u].pfdb.used) = {h \in DOMAIN lab2 : lab2[h][1] = u}
               /\ \A h \in Range(p2[u].pfdb.free) : h \in DOMAIN m2 /\ h \notin DOMAIN lab2 /\ m2[h] = NoTable
    <3>1. CASE u = t
      <4>1. p2[u].pfdb = d /\ p2[u].root = r
        BY <1>2, <3>1, Zenon DEF d
      <4>2. p2[u] = [root |-> p2[u].root, pfdb |-> [free |-> p2[u].pfdb.free, used |-> p2[u].pfdb.used]]
        BY <1>3, <1>5, <3>1, <4>1, Zenon
      <4>3. Range(d.used) = {h \in DOMAIN lab2 : lab2[h][1] = t}
        BY <1>1, <1>5, <1>6, <1>7, <1>9 DEF Labels
      <4>4. \A h \in Range(d.free) : h \in DOMAIN m2 /\ h \notin DOMAIN lab2 /\ m2[h] = NoTable
        BY <1>2, <1>5, <1>6, <1>8, Zenon
      <4> QED
        BY <1>5, <3>1, <4>1, <4>2, <4>3, <4>4, Zenon
    <3>2. CASE u # t
      <4>1. u \in DOMAIN p /\ p2[u] = p[u]
        BY <1>2, <3>2
      <4>2. /\ p[u] = [root |-> p[u].root, pfdb |-> [free |-> p[u].pfdb.free, used |-> p[u].pfdb.used]]
            /\ p[u].pfdb.free \in Seq(Nat) /\ p[u].pfdb.used \in Seq(Nat)
            /\ IsInjective(p[u].pfdb.free) /\ IsInjective(p[u].pfdb.used)
            /\ Range(p[u].pfdb.used) = {h \in DOMAIN lab : lab[h][1] = u}
            /\ \A h \in Range(p[u].pfdb.free) : h \in DOMAIN m /\ h \notin DOMAIN lab /\ m[h] = NoTable
        BY <1>1, <4>1, ZenonT(60) DEF Lists
      <4>3. {h \in DOMAIN lab : lab[h][1] = u} = {h \in DOMAIN lab2 : lab2[h][1] = u}
        BY <1>6, <1>9, <3>2, ZenonT(60)
      <4>4. \A h \in Range(p[u].pfdb.free) : h \in DOMAIN m2 /\ h \notin DOMAIN lab2 /\ m2[h] = NoTable
        BY <1>2, <1>4, <1>6, <1>7, <1>10, <4>2, ZenonT(60)
      <4> QED
        BY <4>1, <4>2, <4>3, <4>4, Zenon
    <3> QED
      BY <3>1, <3>2, Zenon
  <2>2. /\ \A u \in DOMAIN p : p2[u] = p[u] /\ \A h \in Range(p[u].pfdb.free) : h \notin Z
        /\ \A h \in Range(p2[t].pfdb.free) : h \in Z
    BY <1>1, <1>2, <1>5, <1>7, Zenon DEF Lists, d
  <2>3. ASSUME NEW u \in DOMAIN p2, NEW z \in DOMAIN p2, u # z
        PROVE  Range(p2[u].pfdb.free) \cap Range(p2[z].pfdb.free) = {}
    <3>1. \A a, b \in DOMAIN p : a # b => Range(p[a].pfdb.free) \cap Range(p[b].pfdb.free) = {}
      BY <1>1, Zenon DEF Lists
    <3>2. (u \in DOMAIN p \/ u = t) /\ (z \in DOMAIN p \/ z = t)
      BY <1>2, ZenonT(60)
    <3> QED
      BY <2>2, <2>3, <3>1, <3>2, Zenon
  <2> QED
    BY <2>1, <2>3, Zenon DEF Lists
<1>15. \A h \in DOMAIN m2 : m2[h] \in [Index -> Entry]
  BY <1>1, <1>2, <1>10 DEF NoTable, Entry
<1> QED
  BY <1>11, <1>12, <1>13, <1>14, <1>15, Zenon DEF Tree, m2, p2

(* So what was mapped stays mapped. *)
LEMMA InitHolds ==
  ASSUME NEW s, NEW t, NEW page \in Nat, NEW n \in Nat \ {0}, NEW w, Zeroed(s, t, page, n, w), NEW P, Holds(s, P),
         t \notin DOMAIN s.pgt, DOMAIN s.mem \cap page..(page + n - 1) = {}
  PROVE  Holds(w, P)
<1>1. PICK lab : Good(s, lab, P)
  BY Zenon DEF Holds
<1> DEFINE r == page + n - 1
           lab2 == [h \in DOMAIN lab \cup {r} |-> IF h = r THEN <<t, 4, 0>> ELSE lab[h]]
<1>2. r \in page..(page + n - 1)
  OBVIOUS
<1>3. Tree(s.mem, s.pgt, lab) /\ DOMAIN lab \subseteq DOMAIN s.mem
  BY <1>1, Zenon DEF Good, Tree, Labels
<1>4. r \notin DOMAIN lab
  BY <1>2, <1>3, Zenon
<1>5. Labelled(lab, r, <<t, 4, 0>>, lab2)
  <2> HIDE DEF r
  <2> QED
    BY <1>4, Zenon DEF Labelled
<1> HIDE DEF lab2
<1>6. Tree(w.mem, w.pgt, lab2)
  BY <1>3, <1>5, NewRoot, Zenon
<1>7. Keeps(s.mem, w.mem)
  BY ZenonT(60) DEF Zeroed, Keeps
<1>8. DOMAIN lab \subseteq DOMAIN lab2 /\ \A f \in DOMAIN lab : lab2[f] = lab[f]
  BY <1>5, Zenon DEF Labelled
<1>9. Good(w, lab2, P)
  BY <1>1, <1>6, <1>7, <1>8, GoodKept, Zenon
<1> QED
  BY <1>9, Zenon DEF Holds

(* Copying the upper half of the kernel's root changes no entry that belongs *)
(* to the process: the tables stay trees.                                    *)
LEMMA ShareTree ==
  ASSUME NEW s, Running(s), NEW t, NEW w, Shared(s, t, w), NEW lab, Tree(s.mem, s.pgt, lab),
         t \in DOMAIN s.pgt, t # Kernel, Kernel \in DOMAIN s.pgt
  PROVE  Tree(w.mem, w.pgt, lab)
<1> DEFINE m == s.mem
           p == s.pgt
           m2 == w.mem
           r == p[t].root
           k == p[Kernel].root
<1>1. /\ \A h \in DOMAIN m : m[h] \in [Index -> Entry]
      /\ Labels(m, p, lab) /\ Down(m, lab) /\ Parents(m, lab) /\ Lists(m, p, lab)
  BY Zenon DEF Tree
<1>2. DOMAIN m2 = DOMAIN m /\ w.pgt = p /\ \A h \in DOMAIN m : h # r => m2[h] = m[h]
  BY ZenonT(60) DEF Shared
<1>3. r \in DOMAIN lab /\ lab[r] = <<t, 4, 0>> /\ k \in DOMAIN lab /\ r \in DOMAIN m /\ k \in DOMAIN m
  BY <1>1, Zenon DEF Labels
<1>4. m2[r] = [i \in Index |-> IF i \in UserHalf THEN m[r][i] ELSE m[k][i]]
  BY <1>3, Zenon DEF Shared, Running
<1> HIDE DEF m, p, m2, r, k
<1>5. m[r] \in [Index -> Entry] /\ m[k] \in [Index -> Entry]
  BY <1>1, <1>3, ZenonT(60)
<1>6. m2[r] \in [Index -> Entry]
  BY <1>4, <1>5, ZenonT(60)
<1>7. \A h \in DOMAIN m2 : m2[h] \in [Index -> Entry]
  BY <1>1, <1>2, <1>6, Zenon
<1>8. \A h \in DOMAIN lab : \A i \in Own(lab[h]) : m2[h][i] = m[h][i]
  <2> SUFFICES ASSUME NEW h \in DOMAIN lab, NEW i \in Own(lab[h]) PROVE m2[h][i] = m[h][i]
    BY Zenon
  <2>1. h \in DOMAIN m
    BY <1>1, ZenonT(60) DEF Labels
  <2>2. CASE h = r
    <3>1. lab[h][1] = t /\ lab[h][2] = 4
      BY <1>3, <2>2
    <3>2. i \in UserHalf
      BY <3>1, Zenon DEF Own
    <3> QED
      BY <1>4, <2>2, <3>2, HalfIndex, Zenon
  <2> QED
    BY <1>2, <2>1, <2>2, Zenon
<1>9. Labels(m2, p, lab)
  BY <1>1, <1>2, Zenon DEF Labels
<1>10. Down(m2, lab)
  <2> SUFFICES ASSUME NEW h \in DOMAIN lab, NEW j \in Own(lab[h]), m2[h][j] # Empty
               PROVE  /\ lab[h][2] > 1 =>
                           /\ m2[h][j][1] \in DOMAIN lab
                           /\ lab[m2[h][j][1]] = <<lab[h][1], lab[h][2] - 1, Child(lab[h][3], j)>>
                      /\ lab[h][2] = 1 /\ lab[h][1] = Kernel => m2[h][j] = <<Child(lab[h][3], j) - va(0), FALSE>>
    BY Zenon DEF Down
  <2>1. m2[h][j] = m[h][j]
    BY <1>8, Zenon
  <2>2. /\ lab[h][2] > 1 =>
             /\ m[h][j][1] \in DOMAIN lab
             /\ lab[m[h][j][1]] = <<lab[h][1], lab[h][2] - 1, Child(lab[h][3], j)>>
        /\ lab[h][2] = 1 /\ lab[h][1] = Kernel => m[h][j] = <<Child(lab[h][3], j) - va(0), FALSE>>
    BY <1>1, <2>1, Zenon DEF Down
  <2> QED
    BY <2>1, <2>2, Zenon
<1>11. Parents(m2, lab)
  BY <1>1, <1>8 DEF Parents
<1>12. Lists(m2, p, lab)
  <2>1. \A u \in DOMAIN p : \A g \in Range(p[u].pfdb.free) :
          g \in DOMAIN m /\ g \notin DOMAIN lab /\ m[g] = NoTable
    BY <1>1, Zenon DEF Lists
  <2>2. \A u \in DOMAIN p : \A g \in Range(p[u].pfdb.free) :
          g \in DOMAIN m2 /\ g \notin DOMAIN lab /\ m2[g] = NoTable
    BY <1>2, <1>3, <2>1, Zenon
  <2> QED
    BY <1>1, <2>2, Zenon DEF Lists
<1> QED
  BY <1>2, <1>7, <1>9, <1>10, <1>11, <1>12, ZenonT(60) DEF Tree, m2

(* So what was mapped stays mapped. *)
LEMMA ShareHolds ==
  ASSUME NEW s, Running(s), NEW t, NEW w, Shared(s, t, w), NEW P, Holds(s, P),
         t \in DOMAIN s.pgt, t # Kernel, Kernel \in DOMAIN s.pgt
  PROVE  Holds(w, P)
<1>1. PICK lab : Good(s, lab, P)
  BY Zenon DEF Holds
<1>2. Tree(s.mem, s.pgt, lab)
  BY <1>1, Zenon DEF Good
<1>3. Tree(w.mem, w.pgt, lab)
  BY <1>2, ShareTree, Zenon
<1>4. \A f \in DOMAIN lab : lab[f][2] = 1 => w.mem[f] = s.mem[f]
  <2>1. s.pgt[t].root \in DOMAIN lab /\ lab[s.pgt[t].root] = <<t, 4, 0>> /\ DOMAIN lab \subseteq DOMAIN s.mem
    BY <1>2, Zenon DEF Tree, Labels
  <2>2. lab[s.pgt[t].root][2] = 4
    BY <2>1
  <2> SUFFICES ASSUME NEW f \in DOMAIN lab, lab[f][2] = 1 PROVE w.mem[f] = s.mem[f]
    BY Zenon
  <2>3. f # s.pgt[t].root /\ f \in DOMAIN s.mem
    BY <2>1, <2>2
  <2> QED
    BY <2>3, Zenon DEF Shared
<1>5. \A q \in P : q \in Nat /\ Mapped(w.mem, lab, va(q))
  <2> SUFFICES ASSUME NEW q \in P PROVE q \in Nat /\ Mapped(w.mem, lab, va(q))
    BY Zenon
  <2>1. q \in Nat /\ Mapped(s.mem, lab, va(q))
    BY <1>1, Zenon DEF Good
  <2>2. PICK f \in DOMAIN lab : lab[f] = <<Kernel, 1, Up(va(q))>> /\ s.mem[f][Idx(1, va(q))] # Empty
    BY <2>1, Zenon DEF Mapped
  <2>3. lab[f][2] = 1
    BY <2>2
  <2> QED
    BY <1>4, <2>1, <2>2, <2>3, Zenon DEF Mapped
<1> QED
  BY <1>3, <1>5, Zenon DEF Holds, Good

-----------------------------------------------------------------------------
(* What the processor finds *)

(* the table of level k on the way to v has an entry that points to g *)
Above(m, lab, t, k, v, g) ==
  \E f \in DOMAIN lab :
    /\ lab[f] = <<t, k, Prefix(k, v)>>
    /\ m[f][Idx(k, v)] # Empty /\ m[f][Idx(k, v)] \in Entry /\ m[f][Idx(k, v)][1] = g

(* A table on the way to v that is no root has its entry in the table one    *)
(* level up.                                                                 *)
LEMMA ParentOf ==
  ASSUME NEW m, NEW p, NEW lab, Tree(m, p, lab), NEW t, NEW v \in Nat, Up(Up(Up(v))) \in Index, NEW l \in 1..3,
         NEW g \in DOMAIN lab, lab[g] = <<t, l, Prefix(l, v)>>, NEW k, k = l + 1
  PROVE  Above(m, lab, t, k, v, g)
<1>1. lab[g][1] = t /\ lab[g][2] = l /\ lab[g][3] = Prefix(l, v)
  OBVIOUS
<1>2. PICK f \in DOMAIN lab : \E i \in Own(lab[f]) : lab[f][2] > 1 /\ m[f][i] # Empty /\ m[f][i][1] = g
  <2>1. lab[g][2] < 4
    BY <1>1
  <2> QED
    BY <2>1, Zenon DEF Tree, Parents
<1>3. PICK i \in Own(lab[f]) : lab[f][2] > 1 /\ m[f][i] # Empty /\ m[f][i][1] = g
  BY <1>2, Zenon
<1>4. i \in Index
  BY OwnIndex, Zenon
<1>5. lab[g] = <<lab[f][1], lab[f][2] - 1, Child(lab[f][3], i)>>
  BY <1>3, Zenon DEF Tree, Down
<1> lab[f][1] = t /\ lab[f][2] - 1 = l /\ Child(lab[f][3], i) = Prefix(l, v)
  BY <1>1, <1>5
<1> /\ lab[f] = <<lab[f][1], lab[f][2], lab[f][3]>>
      /\ lab[f][2] \in 1..4 /\ lab[f][3] \in Nat
  BY Zenon DEF Tree, Labels
<1>8. lab[f][2] = l + 1 /\ l + 1 \in 2..4 /\ l + 1 \in 1..4 /\ (l + 1) - 1 = l
  OBVIOUS
<1>9. Child(Prefix(l + 1, v), Idx(l + 1, v)) = Prefix(l, v) /\ Prefix(l + 1, v) \in Nat /\ Idx(l + 1, v) \in Index
  BY <1>8, Levels
<1>10. lab[f][3] = Prefix(l + 1, v) /\ i = Idx(l + 1, v)
  BY <1>4, <1>9, ChildUnique
<1>11. m[f][i] \in Entry
  <2>1. m[f] \in [Index -> Entry]
    BY Zenon DEF Tree, Labels
  <2> QED
    BY <1>4, <2>1, Zenon
<1> QED
  BY <1>3, <1>8, <1>10, <1>11, Zenon DEF Above

(* One level of the processor's walk when the entry is present. *)
LEMMA FollowStep ==
  ASSUME NEW m, NEW e, NEW n, NEW level, NEW v, e # Empty, m[e[1]][Idx(level, v)] = n, n # Empty
  PROVE  Follow(m, e, level, v) = <<n[1], e[2] /\ n[2]>>
BY Zenon DEF Follow

(* The parts of an entry. *)
LEMMA PairParts ==
  ASSUME NEW n, NEW a, NEW b, n = <<a, b>>
  PROVE  n[1] = a /\ n[2] = b
BY Zenon

(* Through any root with the kernel's entry for physical memory the          *)
(* processor finds a mapped page where va() says, without the user bit.      *)
LEMMA KernelView ==
  ASSUME NEW m, NEW p, NEW lab, Tree(m, p, lab), Kernel \in DOMAIN p, NEW root,
         m[root][Fanout \div 2] = m[p[Kernel].root][Fanout \div 2],
         NEW q \in Nat, q < Fanout * Fanout * Fanout, Mapped(m, lab, va(q))
  PROVE  Translate(m, root, va(q)) = <<q, FALSE>> /\ m[p[Kernel].root][Fanout \div 2] # Empty
<1> DEFINE v == va(q)
<1>1. v \in Nat /\ v - va(0) = q /\ Up(Up(Up(v))) \in Index /\ Up(Up(Up(v))) = Fanout \div 2
  <2>1. q <= Fanout * Fanout * Fanout
    BY ConstantTypes
  <2> QED
    BY <2>1, KernelHalf, Zenon
<1>2. Mapped(m, lab, v)
  BY Zenon
<1> HIDE DEF v
<1>3. /\ Prefix(1, v) = Up(v) /\ Prefix(4, v) = 0 /\ Idx(4, v) = Fanout \div 2 /\ Idx(1, v) \in Index
      /\ Child(Prefix(1, v), Idx(1, v)) = v
  BY <1>1, Levels
<1>4. PICK f1 \in DOMAIN lab : lab[f1] = <<Kernel, 1, Prefix(1, v)>> /\ m[f1][Idx(1, v)] # Empty
  BY <1>2, <1>3, Zenon DEF Mapped
<1>5. m[f1][Idx(1, v)] = <<q, FALSE>>
  <2> lab[f1][1] = Kernel /\ lab[f1][2] = 1 /\ lab[f1][3] = Prefix(1, v)
    BY <1>4, LabelParts
  <2>2. Idx(1, v) \in Own(lab[f1])
    BY <1>3, Zenon DEF Own
  <2>3. m[f1][Idx(1, v)] = <<Child(lab[f1][3], Idx(1, v)) - va(0), FALSE>>
    BY <1>4, <2>2, Zenon DEF Tree, Down
  <2> QED
    BY <1>1, <1>3, <2>3, Zenon
<1>6. PICK f2 \in DOMAIN lab :
        /\ lab[f2] = <<Kernel, 2, Prefix(2, v)>>
        /\ m[f2][Idx(2, v)] # Empty /\ m[f2][Idx(2, v)] \in Entry /\ m[f2][Idx(2, v)][1] = f1
  <2>1. 1 \in 1..3 /\ 2 = 1 + 1
    OBVIOUS
  <2>2. Above(m, lab, Kernel, 2, v, f1)
    BY <1>1, <1>4, <2>1, ParentOf, Zenon
  <2> QED
    BY <2>2, Zenon DEF Above
<1>7. PICK f3 \in DOMAIN lab :
        /\ lab[f3] = <<Kernel, 3, Prefix(3, v)>>
        /\ m[f3][Idx(3, v)] # Empty /\ m[f3][Idx(3, v)] \in Entry /\ m[f3][Idx(3, v)][1] = f2
  <2>1. 2 \in 1..3 /\ 3 = 2 + 1
    OBVIOUS
  <2>2. Above(m, lab, Kernel, 3, v, f2)
    BY <1>1, <1>6, <2>1, ParentOf, Zenon
  <2> QED
    BY <2>2, Zenon DEF Above
<1>8. PICK f4 \in DOMAIN lab :
        /\ lab[f4] = <<Kernel, 4, Prefix(4, v)>>
        /\ m[f4][Idx(4, v)] # Empty /\ m[f4][Idx(4, v)] \in Entry /\ m[f4][Idx(4, v)][1] = f3
  <2>1. 3 \in 1..3 /\ 4 = 3 + 1
    OBVIOUS
  <2>2. Above(m, lab, Kernel, 4, v, f3)
    BY <1>1, <1>7, <2>1, ParentOf, Zenon
  <2> QED
    BY <2>2, Zenon DEF Above
<1>9. f4 = p[Kernel].root
  <2>1. p[Kernel].root \in DOMAIN lab /\ lab[p[Kernel].root] = <<Kernel, 4, 0>>
    BY Zenon DEF Tree, Labels
  <2>2. lab[f4] = lab[p[Kernel].root]
    BY <1>3, <1>8, <2>1, Zenon
  <2> QED
    BY <2>1, <2>2, Zenon DEF Tree, Labels
<1> DEFINE n4 == m[f4][Idx(4, v)]
           n3 == m[f3][Idx(3, v)]
           n2 == m[f2][Idx(2, v)]
           n1 == m[f1][Idx(1, v)]
           pdp == <<f3, TRUE /\ n4[2]>>
           pd == <<f2, (TRUE /\ n4[2]) /\ n3[2]>>
           pt == <<f1, ((TRUE /\ n4[2]) /\ n3[2]) /\ n2[2]>>
<1>10. Follow(m, <<root, TRUE>>, 4, v) = pdp
  <2>1. m[root][Idx(4, v)] = n4 /\ n4 # Empty /\ n4[1] = f3
    BY <1>3, <1>8, <1>9, Zenon
  <2> DEFINE e == <<root, TRUE>>
  <2>2. e # Empty /\ e[1] = root /\ e[2] = TRUE
    BY Zenon DEF Empty
  <2> HIDE DEF e, n4
  <2>3. Follow(m, e, 4, v) = <<n4[1], e[2] /\ n4[2]>>
    BY <2>1, <2>2, FollowStep
  <2>4. Follow(m, e, 4, v) = <<f3, TRUE /\ n4[2]>>
    BY <2>1, <2>2, <2>3, Zenon
  <2> QED
    BY <2>4, Zenon DEF e, n4
<1>11. Follow(m, pdp, 3, v) = pd
  <2> DEFINE b == TRUE /\ n4[2]
             e == <<f3, b>>
  <2> HIDE DEF b
  <2>1. e # Empty /\ e[1] = f3 /\ e[2] = b
    BY Zenon DEF Empty
  <2>2. m[f3][Idx(3, v)] = n3 /\ n3 # Empty /\ n3[1] = f2
    BY <1>7, Zenon
  <2> HIDE DEF e, n3
  <2>3. Follow(m, e, 3, v) = <<n3[1], e[2] /\ n3[2]>>
    BY <2>1, <2>2, FollowStep
  <2>4. Follow(m, e, 3, v) = <<f2, b /\ n3[2]>>
    BY <2>1, <2>2, <2>3, Zenon
  <2> QED
    BY <2>4, Zenon DEF e, b, n3
<1>12. Follow(m, pd, 2, v) = pt
  <2> DEFINE b == (TRUE /\ n4[2]) /\ n3[2]
             e == <<f2, b>>
  <2> HIDE DEF b
  <2>1. e # Empty /\ e[1] = f2 /\ e[2] = b
    BY Zenon DEF Empty
  <2>2. m[f2][Idx(2, v)] = n2 /\ n2 # Empty /\ n2[1] = f1
    BY <1>6, Zenon
  <2> HIDE DEF e, n2
  <2>3. Follow(m, e, 2, v) = <<n2[1], e[2] /\ n2[2]>>
    BY <2>1, <2>2, FollowStep
  <2>4. Follow(m, e, 2, v) = <<f1, b /\ n2[2]>>
    BY <2>1, <2>2, <2>3, Zenon
  <2> QED
    BY <2>4, Zenon DEF e, b, n2
<1>13. Follow(m, pt, 1, v) = <<q, FALSE>>
  <2> DEFINE b == ((TRUE /\ n4[2]) /\ n3[2]) /\ n2[2]
             e == <<f1, b>>
  <2> HIDE DEF b
  <2>1. e # Empty /\ e[1] = f1 /\ e[2] = b
    BY Zenon DEF Empty
  <2> m[f1][Idx(1, v)] = n1 /\ n1 # Empty /\ n1[1] = q /\ n1[2] = FALSE
    <3>1. n1 = <<q, FALSE>> /\ n1 # Empty
      BY <1>4, <1>5, Zenon
    <3>2. m[f1][Idx(1, v)] = n1
      BY Zenon
    <3> HIDE DEF n1
    <3>3. n1[1] = q /\ n1[2] = FALSE
      BY <3>1, PairParts, Zenon
    <3> QED
      BY <3>1, <3>2, <3>3, Zenon
  <2> HIDE DEF e, n1
  <2>3. Follow(m, e, 1, v) = <<n1[1], e[2] /\ n1[2]>>
    BY <2>1, FollowStep
  <2>4. Follow(m, e, 1, v) = <<q, FALSE>>
    <3>1. (e[2] /\ n1[2]) = FALSE
      BY Zenon
    <3> QED
      BY <2>3, <3>1, Zenon
  <2> QED
    BY <2>4, Zenon DEF e, b
<1> HIDE DEF pdp, pd, pt
<1>14. Translate(m, root, v) = <<q, FALSE>>
  BY <1>10, <1>11, <1>12, <1>13, Zenon DEF Translate
<1> QED
  BY <1>3, <1>8, <1>9, <1>14, Zenon DEF v

-----------------------------------------------------------------------------
(* What the frame lists say *)

(* what FramesAreTables says of address space t *)
OwnOf(p, t, f) == IF f = p[t].root /\ t # Kernel THEN UserHalf ELSE Index

EntriesOf(m, p, t, fs) == {e \in fs \X Index : e[2] \in OwnOf(p, t, e[1]) /\ m[e[1]][e[2]] # Empty}
TargetsOf(m, p, t, fs) == {m[e[1]][e[2]][1] : e \in EntriesOf(m, p, t, fs)}
Level(lab, t, l) == {f \in DOMAIN lab : lab[f][1] = t /\ lab[f][2] = l}

(* The entries that FramesAreTables counts for a table are those that belong *)
(* to its address space, and its root is the table of level 4.               *)
LEMMA OwnLabel ==
  ASSUME NEW m, NEW p, NEW lab, Tree(m, p, lab), NEW t \in DOMAIN p, NEW f \in DOMAIN lab, lab[f][1] = t
  PROVE  OwnOf(p, t, f) = Own(lab[f]) /\ (f = p[t].root <=> lab[f][2] = 4)
<1> p[t].root \in DOMAIN lab /\ lab[p[t].root] = <<t, 4, 0>>
  BY Zenon DEF Tree, Labels
<1>2. lab[p[t].root][2] = 4
  BY LabelParts
<1> ASSUME lab[f][2] = 4 PROVE f = p[t].root
  <2>1. lab[f] = <<lab[f][1], lab[f][2], lab[f][3]>> /\ lab[f][3] = 0
    BY Zenon DEF Tree, Labels
  <2>2. lab[f] = lab[p[t].root]
    BY <2>1, Zenon
  <2> QED
    BY <2>2, Zenon DEF Tree, Labels
<1>4. f = p[t].root <=> lab[f][2] = 4
  BY <1>2, Zenon
<1> QED
  BY <1>4, Zenon DEF OwnOf, Own

(* entry e of a table of fs points to table g, one level down *)
Below(lab, t, fs, e, g) ==
  /\ e = <<e[1], e[2]>> /\ e[1] \in fs /\ e[2] \in Index /\ g \in DOMAIN lab
  /\ lab[g] = <<t, lab[e[1]][2] - 1, Child(lab[e[1]][3], e[2])>>

(* Such an entry, above the last level, points one level down. *)
LEMMA EntryDown ==
  ASSUME NEW m, NEW p, NEW lab, Tree(m, p, lab), NEW t \in DOMAIN p, NEW fs,
         \A f \in fs : f \in DOMAIN lab /\ lab[f][1] = t /\ lab[f][2] > 1,
         NEW e \in EntriesOf(m, p, t, fs), NEW g, g = m[e[1]][e[2]][1]
  PROVE  Below(lab, t, fs, e, g)
<1> e \in fs \X Index /\ e[2] \in OwnOf(p, t, e[1]) /\ m[e[1]][e[2]] # Empty
  BY Zenon DEF EntriesOf
<1>2. e = <<e[1], e[2]>> /\ e[1] \in fs /\ e[2] \in Index
  OBVIOUS
<1> e[1] \in DOMAIN lab /\ lab[e[1]][1] = t /\ lab[e[1]][2] > 1
  BY <1>2, Zenon
<1>4. e[2] \in Own(lab[e[1]])
  BY OwnLabel
<1>5. g \in DOMAIN lab /\ lab[g] = <<lab[e[1]][1], lab[e[1]][2] - 1, Child(lab[e[1]][3], e[2])>>
  BY <1>4, Zenon DEF Tree, Down
<1> QED
  BY <1>2, <1>5, Zenon DEF Below

(* The tables that those of one level point to are exactly those of the      *)
(* next.                                                                     *)
LEMMA LevelBelow ==
  ASSUME NEW m, NEW p, NEW lab, Tree(m, p, lab), NEW t \in DOMAIN p, NEW l \in 2..4
  PROVE  TargetsOf(m, p, t, Level(lab, t, l)) = Level(lab, t, l - 1)
<1> DEFINE fs == Level(lab, t, l)
<1>1. \A f \in fs : f \in DOMAIN lab /\ lab[f][1] = t /\ lab[f][2] = l /\ lab[f][2] > 1
  BY DEF Level
<1>2. ASSUME NEW g \in TargetsOf(m, p, t, fs) PROVE g \in Level(lab, t, l - 1)
  <2>1. PICK e \in EntriesOf(m, p, t, fs) : g = m[e[1]][e[2]][1]
    BY Zenon DEF TargetsOf
  <2> HIDE DEF fs
  <2>a. Below(lab, t, fs, e, g)
    <3>1. \A f \in fs : f \in DOMAIN lab /\ lab[f][1] = t /\ lab[f][2] > 1
      BY <1>1, Zenon
    <3> QED
      BY <2>1, <3>1, EntryDown, Zenon
  <2>2. e[1] \in fs /\ g \in DOMAIN lab /\ lab[g] = <<t, lab[e[1]][2] - 1, Child(lab[e[1]][3], e[2])>>
    BY <2>a, Zenon DEF Below
  <2>3. lab[g][1] = t /\ lab[g][2] = l - 1
    BY <1>1, <2>2, LabelParts, SMTT(60)
  <2> QED
    BY <2>2, <2>3, Zenon DEF Level
<1>3. ASSUME NEW g \in Level(lab, t, l - 1) PROVE g \in TargetsOf(m, p, t, fs)
  <2>1. g \in DOMAIN lab /\ lab[g][1] = t /\ lab[g][2] = l - 1 /\ lab[g][2] < 4
    BY <1>3 DEF Level
  <2>2. PICK f \in DOMAIN lab : \E i \in Own(lab[f]) : lab[f][2] > 1 /\ m[f][i] # Empty /\ m[f][i][1] = g
    BY <2>1, Zenon DEF Tree, Parents
  <2> PICK i \in Own(lab[f]) : lab[f][2] > 1 /\ m[f][i] # Empty /\ m[f][i][1] = g
    BY <2>2, Zenon
  <2>4. lab[g] = <<lab[f][1], lab[f][2] - 1, Child(lab[f][3], i)>> /\ lab[f][2] \in 1..4
    BY Zenon DEF Tree, Down, Labels
  <2>5. lab[g][1] = lab[f][1] /\ lab[g][2] = lab[f][2] - 1
    BY <2>4, LabelParts
  <2>6. lab[f][1] = t /\ lab[f][2] = l
    BY <2>1, <2>4, <2>5
  <2>7. f \in fs /\ i \in Index /\ i \in OwnOf(p, t, f)
    BY <2>6, OwnLabel, OwnIndex DEF Level
  <2> HIDE DEF fs
  <2> DEFINE e == <<f, i>>
  <2>8. e \in EntriesOf(m, p, t, fs) /\ g = m[e[1]][e[2]][1]
    BY <2>7, Zenon DEF EntriesOf
  <2> HIDE DEF e
  <2> QED
    BY <2>8, Zenon DEF TargetsOf
<1> QED
  BY <1>2, <1>3, Zenon

Frames(m, p, t) ==
  LET root == p[t].root
      top == TargetsOf(m, p, t, {root})
      mid == TargetsOf(m, p, t, top)
      inner == {root} \cup top \cup mid
  IN  /\ Split(p[t].pfdb, Range(p[t].pfdb.free) \cup Range(p[t].pfdb.used))
      /\ Range(p[t].pfdb.used) = inner \cup TargetsOf(m, p, t, mid)
      /\ root \notin TargetsOf(m, p, t, inner)
      /\ \A e, d \in EntriesOf(m, p, t, inner) : m[e[1]][e[2]][1] = m[d[1]][d[2]][1] => e = d
      /\ \A f \in Range(p[t].pfdb.free) : m[f] = NoTable

(* In trees the used frames are exactly the tables that can be reached from  *)
(* the root, each from one entry; the free frames are the others, and they   *)
(* are clear.                                                                *)
LEMMA TreeFrames ==
  ASSUME NEW m, NEW p, NEW lab, Tree(m, p, lab), NEW t \in DOMAIN p
  PROVE  Frames(m, p, t)
<1> DEFINE root == p[t].root
           top == TargetsOf(m, p, t, {root})
           mid == TargetsOf(m, p, t, top)
           inner == {root} \cup top \cup mid
<1>1. /\ IsInjective(p[t].pfdb.free) /\ IsInjective(p[t].pfdb.used)
      /\ Range(p[t].pfdb.used) = {f \in DOMAIN lab : lab[f][1] = t}
      /\ \A g \in Range(p[t].pfdb.free) : g \in DOMAIN m /\ g \notin DOMAIN lab /\ m[g] = NoTable
  BY Zenon DEF Tree, Lists
<1>2. Split(p[t].pfdb, Range(p[t].pfdb.free) \cup Range(p[t].pfdb.used))
  BY <1>1, Zenon DEF Split
<1>3. {root} = Level(lab, t, 4)
  <2>1. root \in DOMAIN lab /\ lab[root] = <<t, 4, 0>>
    BY Zenon DEF Tree, Labels
  <2>2. lab[root][1] = t
    BY <2>1, LabelParts
  <2>3. \A f \in DOMAIN lab : lab[f][1] = t => (f = root <=> lab[f][2] = 4)
    BY OwnLabel
  <2> QED
    BY <2>1, <2>2, <2>3, Zenon DEF Level
<1>4. top = Level(lab, t, 3)
  <2>1. 4 \in 2..4 /\ 4 - 1 = 3
    OBVIOUS
  <2> QED
    BY <1>3, <2>1, LevelBelow
<1>5. mid = Level(lab, t, 2)
  <2>1. 3 \in 2..4 /\ 3 - 1 = 2
    OBVIOUS
  <2> HIDE DEF top
  <2> QED
    BY <1>4, <2>1, LevelBelow
<1> HIDE DEF root, top, mid
<1>6. TargetsOf(m, p, t, mid) = Level(lab, t, 1)
  <2>1. 2 \in 2..4 /\ 2 - 1 = 1
    OBVIOUS
  <2> QED
    BY <1>5, <2>1, LevelBelow
<1>7. Range(p[t].pfdb.used) = inner \cup TargetsOf(m, p, t, mid)
  <2>1. \A f \in DOMAIN lab : lab[f][2] \in 1..4
    BY Zenon DEF Tree, Labels
  <2>2. {f \in DOMAIN lab : lab[f][1] = t} =
          Level(lab, t, 4) \cup Level(lab, t, 3) \cup Level(lab, t, 2) \cup Level(lab, t, 1)
    BY <2>1 DEF Level
  <2> QED
    BY <1>1, <1>3, <1>4, <1>5, <1>6, <2>2, Zenon
<1>8. \A f \in inner : f \in DOMAIN lab /\ lab[f][1] = t /\ lab[f][2] > 1 /\ lab[f][2] <= 4
  BY <1>3, <1>4, <1>5 DEF Level
<1> HIDE DEF inner
<1>a. \A f \in inner : f \in DOMAIN lab /\ lab[f][1] = t /\ lab[f][2] > 1
  BY <1>8, Zenon
<1>9. root \notin TargetsOf(m, p, t, inner)
  <2> SUFFICES ASSUME root \in TargetsOf(m, p, t, inner) PROVE FALSE
    BY Zenon
  <2>1. PICK e \in EntriesOf(m, p, t, inner) : root = m[e[1]][e[2]][1]
    BY Zenon DEF TargetsOf
  <2>2. e[1] \in inner /\ lab[root] = <<t, lab[e[1]][2] - 1, Child(lab[e[1]][3], e[2])>>
    <3>1. Below(lab, t, inner, e, root)
      BY <1>a, <2>1, EntryDown, Zenon
    <3> QED
      BY <3>1, Zenon DEF Below
  <2>3. lab[root][2] = lab[e[1]][2] - 1
    BY <2>2, LabelParts
  <2>4. lab[root][2] = 4
    BY <1>3, Zenon DEF Level
  <2>5. lab[e[1]][2] \in 1..4
    BY <1>8, <2>2, Zenon DEF Tree, Labels
  <2> QED
    BY <2>3, <2>4, <2>5
<1>10. ASSUME NEW e \in EntriesOf(m, p, t, inner), NEW d \in EntriesOf(m, p, t, inner),
              m[e[1]][e[2]][1] = m[d[1]][d[2]][1]
       PROVE  e = d
  <2> DEFINE g == m[e[1]][e[2]][1]
  <2>1. /\ e = <<e[1], e[2]>> /\ e[1] \in inner /\ e[2] \in Index
        /\ lab[g] = <<t, lab[e[1]][2] - 1, Child(lab[e[1]][3], e[2])>>
    <3>1. g = m[e[1]][e[2]][1]
      BY Zenon
    <3> HIDE DEF g
    <3>2. Below(lab, t, inner, e, g)
      BY <1>a, <3>1, EntryDown, Zenon
    <3> QED
      BY <3>2, Zenon DEF Below
  <2> /\ d = <<d[1], d[2]>> /\ d[1] \in inner /\ d[2] \in Index
        /\ lab[g] = <<t, lab[d[1]][2] - 1, Child(lab[d[1]][3], d[2])>>
    <3>1. g = m[d[1]][d[2]][1]
      BY <1>10, Zenon
    <3> HIDE DEF g
    <3>2. Below(lab, t, inner, d, g)
      BY <1>a, <3>1, EntryDown, Zenon
    <3> QED
      BY <3>2, Zenon DEF Below
  <2> HIDE DEF g
  <2>3. lab[e[1]][2] - 1 = lab[d[1]][2] - 1 /\ Child(lab[e[1]][3], e[2]) = Child(lab[d[1]][3], d[2])
    <3>1. lab[g][2] = lab[e[1]][2] - 1 /\ lab[g][3] = Child(lab[e[1]][3], e[2])
      BY <2>1, LabelParts
    <3>2. lab[g][2] = lab[d[1]][2] - 1 /\ lab[g][3] = Child(lab[d[1]][3], d[2])
      BY LabelParts
    <3> QED
      BY <3>1, <3>2, Zenon
  <2> /\ e[1] \in DOMAIN lab /\ lab[e[1]][1] = t /\ lab[e[1]][2] \in 1..4 /\ lab[e[1]][3] \in Nat
        /\ lab[e[1]] = <<lab[e[1]][1], lab[e[1]][2], lab[e[1]][3]>>
        /\ d[1] \in DOMAIN lab /\ lab[d[1]][1] = t /\ lab[d[1]][2] \in 1..4 /\ lab[d[1]][3] \in Nat
        /\ lab[d[1]] = <<lab[d[1]][1], lab[d[1]][2], lab[d[1]][3]>>
    BY <1>8, <2>1, Zenon DEF Tree, Labels
  <2>5. lab[e[1]][3] = lab[d[1]][3] /\ e[2] = d[2]
    BY <2>1, <2>3, ChildUnique
  <2>6. lab[e[1]][2] = lab[d[1]][2]
    BY <2>3
  <2>7. lab[e[1]] = lab[d[1]]
    BY <2>5, <2>6, Zenon
  <2>8. e[1] = d[1]
    BY <2>7, Zenon DEF Tree, Labels
  <2> QED
    BY <2>1, <2>5, <2>8, Zenon
<1> QED
  BY <1>1, <1>2, <1>7, <1>9, <1>10, Zenon DEF Frames, root, top, mid, inner

-----------------------------------------------------------------------------
(* Served *)

(* paging_init for a new process leaves the memory of the kernel mapped. *)
LEMMA InitServed ==
  ASSUME NEW s, Served(s), NEW t, NEW page \in Nat, NEW n \in Nat \ {0}, NEW w, Zeroed(s, t, page, n, w),
         t \notin DOMAIN s.pgt, DOMAIN s.mem \cap page..(page + n - 1) = {}
  PROVE  Served(w)
<1>1. Holds(w, LivePages(s.live))
  BY InitHolds, Zenon DEF Served
<1>2. w.live = s.live /\ DOMAIN w.pgt = DOMAIN s.pgt \cup {t}
  BY Zenon DEF Zeroed
<1> QED
  BY <1>1, <1>2, Zenon DEF Served

(* Copying the kernel's entries leaves the memory of the kernel mapped. *)
LEMMA ShareServed ==
  ASSUME NEW s, Running(s), Served(s), NEW t, NEW w, Shared(s, t, w), t \in DOMAIN s.pgt, t # Kernel
  PROVE  Served(w)
<1>1. Holds(w, LivePages(s.live))
  BY ShareHolds, Zenon DEF Served
<1>2. w.live = s.live /\ w.pgt = s.pgt
  BY Zenon DEF Shared
<1> QED
  BY <1>1, <1>2, Zenon DEF Served

(* Before paging_setup there are no tables, which is a (trivial) set of      *)
(* trees.                                                                    *)
LEMMA EmptyHolds ==
  ASSUME NEW s, DOMAIN s.mem = {}, DOMAIN s.pgt = {}
  PROVE  Holds(s, LivePages({}))
<1> DEFINE lab == [f \in {} |-> <<Kernel, 4, 0>>]
<1>1. DOMAIN lab = {}
  BY Zenon
<1> HIDE DEF lab
<1>2. Tree(s.mem, s.pgt, lab)
  BY <1>1, Zenon DEF Tree, Labels, Down, Parents, Lists
<1>3. LivePages({}) = {}
  BY Zenon DEF LivePages
<1> QED
  BY <1>2, <1>3, Zenon DEF Holds, Good

(* one entry of every root points to the tables of the kernel's memory *)
SameTop(m, p) ==
  /\ m[p[Kernel].root][Fanout \div 2] # Empty
  /\ \A t \in DOMAIN p : p[t].root \in DOMAIN m /\ m[p[t].root][Fanout \div 2] = m[p[Kernel].root][Fanout \div 2]

(* Once every root has the kernel's entry for physical memory, adding        *)
(* entries keeps it so: page_alloc finds the entry present and never         *)
(* replaces it.                                                              *)
LEMMA SameTopKept ==
  ASSUME NEW m, NEW p, NEW m2, NEW p2, SameTop(m, p), Keeps(m, m2), SameRoots(p, p2), Kernel \in DOMAIN p
  PROVE  SameTop(m2, p2)
<1>1. Fanout \div 2 \in Index
  BY ConstantTypes DEF Index
<1>2. \A t \in DOMAIN p : /\ p2[t].root = p[t].root /\ p[t].root \in DOMAIN m2
                          /\ m2[p[t].root][Fanout \div 2] = m[p[t].root][Fanout \div 2]
  BY <1>1, Zenon DEF SameTop, Keeps, SameRoots
<1> QED
  BY <1>2, Zenon DEF SameTop, SameRoots
=============================================================================
