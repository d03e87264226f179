----------------------------- MODULE BuddyProofs -----------------------------
(* The allocator of module Buddy keeps its inductive invariant, for every    *)
(* size of memory, every set of requests and every list of reserved regions. *)
EXTENDS Buddy, WellFoundedInduction, TLAPS

-----------------------------------------------------------------------------
(* Division and the extrema of sets of numbers *)

(* A nonempty set of natural numbers has the minimum that Min picks.        *)
LEMMA MinFact ==
  ASSUME NEW S, S \subseteq Nat, S # {}
  PROVE  Min(S) \in S /\ \A y \in S : Min(S) <= y
<1>1. PICK x \in S : \A y \in S : <<y, x>> \notin OpToRel(<, Nat)
  BY NatLessThanWellFounded, WFMin, Zenon
<1>2. \A y \in S : ~(y < x)
  BY <1>1, Zenon DEF OpToRel
<1>3. \A y \in S : x <= y
  BY <1>2, S \subseteq Nat
<1> QED BY <1>3, Zenon DEF Min

(* A nonempty set of integers with an upper bound has the maximum that Max  *)
(* picks.                                                                   *)
LEMMA MaxFact ==
  ASSUME NEW S, NEW b \in Int, S \subseteq Int, S # {}, \A y \in S : y <= b
  PROVE  Max(S) \in S /\ \A y \in S : y <= Max(S)
<1> DEFINE T == {n \in Nat : \E y \in S : n = b - y}
<1>1. PICK w \in S : TRUE BY Zenon
<1>2. T \subseteq Nat /\ b - w \in T BY <1>1
<1>3. \A y \in S : b - y \in T OBVIOUS
<1>4. \A n \in T : \E y \in S : n = b - y OBVIOUS
<1> HIDE DEF T
<1>5. Min(T) \in T /\ \A n \in T : Min(T) <= n BY <1>2, MinFact, Zenon
<1>6. PICK z \in S : Min(T) = b - z BY <1>4, <1>5
<1>7. \A y \in S : y <= z 
  <2> TAKE y \in S
  <2>1. b - z <= b - y BY <1>3, <1>5, <1>6
  <2> QED BY <2>1
<1> QED BY <1>7, Zenon DEF Max

(* Division with remainder. *)
LEMMA Euclid ==
  ASSUME NEW x \in Nat, NEW d \in Nat \ {0}
  PROVE  /\ x \div d \in Nat
         /\ x % d \in 0..(d - 1)
         /\ x = d * (x \div d) + (x % d)
OBVIOUS

(* The quotient is the only number whose multiple is the last one up to x.  *)
LEMMA DivUnique ==
  ASSUME NEW x \in Nat, NEW d \in Nat \ {0}, NEW q \in Nat, q * d <= x, x < q * d + d
  PROVE  x \div d = q
<1> DEFINE e == x \div d
<1>1. e \in Nat /\ e * d <= x /\ x < e * d + d BY Euclid
<1> HIDE DEF e
<1>2. CASE e < q
  <2>1. e + 1 <= q BY <1>1, <1>2
  <2>2. (e + 1) * d <= q * d BY <2>1, <1>1
  <2> QED BY <2>2, <1>1
<1>3. CASE q < e
  <2>1. q + 1 <= e BY <1>1, <1>3
  <2>2. (q + 1) * d <= e * d BY <2>1, <1>1
  <2> QED BY <2>2, <1>1
<1>4. e = q BY <1>1, <1>2, <1>3
<1> QED BY <1>4, Zenon DEF e

(* What DivUnique needs, from the quotient. *)
LEMMA DivBounds ==
  ASSUME NEW x \in Nat, NEW d \in Nat \ {0}
  PROVE  /\ x \div d \in Nat
         /\ (x \div d) * d <= x
         /\ x < (x \div d) * d + d
BY Euclid

(* Dividing by a product is dividing twice. *)
LEMMA DivDiv ==
  ASSUME NEW x \in Nat, NEW a \in Nat \ {0}, NEW b \in Nat \ {0}
  PROVE  x \div (a * b) = (x \div a) \div b
<1> DEFINE q == x \div a
<1>1. q \in Nat /\ q * a <= x /\ x < q * a + a BY DivBounds
<1> HIDE DEF q
<1> DEFINE p == q \div b
<1>2. p \in Nat /\ p * b <= q /\ q < p * b + b BY DivBounds, <1>1
<1> HIDE DEF p
<1>3. (p * b) * a <= q * a BY <1>1, <1>2
<1>4. (q + 1) * a <= (p * b + b) * a BY <1>1, <1>2
<1>5. p * (a * b) <= x BY <1>1, <1>2, <1>3
<1>6. x < p * (a * b) + a * b BY <1>1, <1>2, <1>4
<1>7. a * b \in Nat \ {0} OBVIOUS
<1>8. x \div (a * b) = p BY <1>2, <1>5, <1>6, <1>7, DivUnique
<1> QED BY <1>8, Zenon DEF p, q

(* Division is monotonic. *)
LEMMA DivMonotonic ==
  ASSUME NEW x \in Nat, NEW y \in Nat, NEW d \in Nat \ {0}, x <= y
  PROVE  x \div d <= y \div d
<1> DEFINE p == x \div d
           q == y \div d
<1>1. p \in Nat /\ p * d <= x /\ x < p * d + d BY DivBounds
<1>2. q \in Nat /\ q * d <= y /\ y < q * d + d BY DivBounds
<1> HIDE DEF p, q
<1>3. CASE q < p
  <2>1. (q + 1) * d <= p * d BY <1>1, <1>2, <1>3
  <2> QED BY <2>1, <1>1, <1>2
<1>4. p <= q BY <1>3, <1>1, <1>2
<1> QED BY <1>4, Zenon DEF p, q

(* A number is divisible by d exactly when it is the multiple of its        *)
(* quotient.                                                                *)
LEMMA ModZero ==
  ASSUME NEW x \in Nat, NEW d \in Nat \ {0}
  PROVE  x % d = 0 <=> \E q \in Nat : x = q * d
<1>1. ASSUME x % d = 0 PROVE \E q \in Nat : x = q * d
  <2>1. x = (x \div d) * d /\ x \div d \in Nat BY Euclid, <1>1
  <2> QED BY <2>1, Zenon
<1>2. ASSUME NEW q \in Nat, x = q * d PROVE x % d = 0
  <2>1. x \div d = q BY <1>2, DivUnique
  <2> QED BY <2>1, <1>2, Euclid
<1> QED BY <1>1, <1>2, Zenon

(* Two numbers in one block of size 2d but in different halves of it lie on   *)
(* the two sides of its middle.                                               *)
LEMMA MiddleCut ==
  ASSUME NEW b \in Nat, NEW e \in Nat, NEW d \in Nat \ {0}, NEW i \in Nat, b <= e,
         b \div (d * 2) = i, e \div (d * 2) = i, b \div d # e \div d
  PROVE  b < i * (d * 2) + d /\ i * (d * 2) + d <= e
<1> DEFINE lo == i * (d * 2)
<1>1. d * 2 \in Nat \ {0} OBVIOUS
<1>2. i * (d * 2) <= b /\ e < i * (d * 2) + d * 2 BY <1>1, DivBounds
<1>3. lo \in Nat /\ lo <= b /\ e < lo + d * 2 BY <1>2
<1>4. lo = (2 * i) * d /\ lo + d = (2 * i + 1) * d OBVIOUS
<1> HIDE DEF lo
<1>5. b < lo + d
  <2>1. SUFFICES ASSUME lo + d <= b PROVE FALSE BY <1>3
  <2>2. (2 * i + 1) * d <= b /\ b < (2 * i + 1) * d + d BY <2>1, <1>3, <1>4
  <2>3. (2 * i + 1) * d <= e /\ e < (2 * i + 1) * d + d BY <2>1, <1>3, <1>4
  <2>4. 2 * i + 1 \in Nat OBVIOUS
  <2>5. b \div d = 2 * i + 1 BY <2>2, <2>4, DivUnique
  <2>6. e \div d = 2 * i + 1 BY <2>3, <2>4, DivUnique, SMTT(60)
  <2> QED BY <2>5, <2>6, Zenon
<1>6. lo + d <= e
  <2>1. SUFFICES ASSUME e < lo + d PROVE FALSE BY <1>3
  <2>2. (2 * i) * d <= b /\ b < (2 * i) * d + d BY <2>1, <1>3, <1>4
  <2>3. (2 * i) * d <= e /\ e < (2 * i) * d + d BY <2>1, <1>3, <1>4
  <2>4. 2 * i \in Nat OBVIOUS
  <2>5. b \div d = 2 * i BY <2>2, <2>4, DivUnique, Zenon
  <2>6. e \div d = 2 * i BY <2>3, <2>4, DivUnique
  <2> QED BY <2>5, <2>6, Zenon
<1> QED BY <1>5, <1>6, Zenon DEF lo

-----------------------------------------------------------------------------
(* The tree of blocks: the nodes on the paths from the root to the addresses, *)
(* and what splitting and merging keep                                        *)

(* The orders of the header array are natural numbers; so are block sizes. *)
LEMMA OrderFact == 
  /\ MinOrder \in Nat /\ MaxOrder \in Nat /\ MinOrder \in Order /\ MaxOrder \in Order
  /\ \A k \in Order : k \in 0..MaxOrder /\ k \in Nat /\ 2^k \in Nat \ {0}
  /\ ContentLength \in Nat \ {0}
BY OrderAssumption, PowerAssumption DEF Order, ContentLength

(* Powers of two of a larger order are multiples of those of a smaller one. *)
LEMMA PowerFact ==
  ASSUME NEW j \in 0..MaxOrder, NEW k \in 0..MaxOrder, j <= k
  PROVE  /\ 2^j \in Nat \ {0} /\ 2^k \in Nat \ {0} /\ 2^(k - j) \in Nat \ {0}
         /\ 2^k = 2^j * 2^(k - j)
BY OrderAssumption, PowerAssumption

(* A block has the size of two blocks of the order below. *)
LEMMA DoubleFact ==
  ASSUME NEW k \in 0..MaxOrder, k + 1 <= MaxOrder
  PROVE  2^(k + 1) = 2^k * 2 /\ 2^k \in Nat \ {0}
<1>1. k + 1 \in 0..MaxOrder /\ k <= k + 1 /\ (k + 1) - k = 1 BY OrderAssumption
<1> QED BY <1>1, PowerFact, PowerAssumption, ZenonT(60)

(* The indices of the header array that are nodes. *)
LEMMA NodeFact ==
  ASSUME NEW k \in Order, NEW i \in 0..(2^(MaxOrder - k) - 1)
  PROVE  <<k, i>> \in Node
BY DEF Node, n_of_entries

(* The parts of a node of the header array. *)
LEMMA NodeForm ==
  ASSUME NEW n \in Node
  PROVE  /\ n = <<n[1], n[2]>>
         /\ n[1] \in Order
         /\ n[2] \in 0..(2^(MaxOrder - n[1]) - 1)
         /\ n[2] \in Nat
<1>1. PICK k \in Order : n \in {k} \X (0..(2^(MaxOrder - k) - 1)) BY DEF Node, n_of_entries
<1> QED BY <1>1

(* The path of an address consists of nodes. *)
LEMMA NodeAtFact ==
  ASSUME NEW k \in Order, NEW x \in Addr
  PROVE  /\ NodeAt(k, x) \in Node
         /\ NodeAt(k, x)[1] = k
         /\ NodeAt(k, x)[2] = x \div 2^k
         /\ x \in Nat /\ x \div 2^k \in Nat
<1> DEFINE q == x \div 2^k
           d == 2^k
           e == 2^(MaxOrder - k)
<1>1. d \in Nat \ {0} /\ e \in Nat \ {0} /\ 2^MaxOrder = d * e
  BY OrderFact, PowerFact
<1>2. x \in Nat /\ x < d * e BY <1>1 DEF Addr, ContentLength
<1>3. q \in Nat /\ q * d <= x BY <1>1, <1>2, DivBounds
<1> HIDE DEF q, d, e
<1>4. q < e
  <2>1. SUFFICES ASSUME e <= q PROVE FALSE BY <1>1, <1>3
  <2>2. e * d <= q * d BY <2>1, <1>1, <1>3
  <2> QED BY <2>2, <1>1, <1>2, <1>3
<1>5. q \in 0..(e - 1) BY <1>1, <1>3, <1>4
<1>6. <<k, q>> \in Node BY <1>5, NodeFact DEF e
<1> QED BY <1>2, <1>3, <1>6, Zenon DEF NodeAt, q

(* Two paths that share a node share all the nodes above it. *)
LEMMA Laminar ==
  ASSUME NEW k \in Order, NEW j \in Order, NEW x \in Addr, NEW y \in Addr, k <= j,
         NodeAt(k, x) = NodeAt(k, y)
  PROVE  NodeAt(j, x) = NodeAt(j, y)
<1>1. x \div 2^k = y \div 2^k /\ x \in Nat /\ y \in Nat BY NodeAtFact
<1>2. 2^j = 2^k * 2^(j - k) /\ 2^k \in Nat \ {0} /\ 2^(j - k) \in Nat \ {0}
  BY OrderFact, PowerFact, Zenon
<1>3. x \div 2^j = (x \div 2^k) \div 2^(j - k) BY <1>1, <1>2, DivDiv
<1>4. y \div 2^j = (y \div 2^k) \div 2^(j - k) BY <1>1, <1>2, DivDiv
<1> QED BY <1>1, <1>3, <1>4, Zenon DEF NodeAt

(* goto_parent halves the index. *)
LEMMA NextUp ==
  ASSUME NEW k \in Order, NEW x \in Addr, k < MaxOrder
  PROVE  x \div 2^(k + 1) = (x \div 2^k) \div 2 /\ k + 1 \in Order
<1>1. 2^(k + 1) = 2^k * 2 /\ 2^k \in Nat \ {0} /\ k + 1 \in Order BY OrderFact, DoubleFact DEF Order
<1>2. x \in Nat BY NodeAtFact
<1> QED BY <1>1, <1>2, DivDiv

(* A path that holds the buddy of a node of another path shares with it all *)
(* the nodes above that.                                                    *)
LEMMA BuddyShares ==
  ASSUME NEW k \in Order, NEW j \in Order, NEW x \in Addr, NEW y \in Addr, k < j,
         NodeAt(k, y) = goto_sibling(NodeAt(k, x))
  PROVE  NodeAt(j, y) = NodeAt(j, x)
<1> DEFINE p == x \div 2^k
           q == y \div 2^k
<1>1. p \in Nat /\ q \in Nat /\ NodeAt(k, x) = <<k, p>> /\ NodeAt(k, y) = <<k, q>>
  BY NodeAtFact, Zenon DEF NodeAt
<1>2. k < MaxOrder BY OrderFact DEF Order
<1>3. x \div 2^(k + 1) = p \div 2 /\ y \div 2^(k + 1) = q \div 2 /\ k + 1 \in Order
  BY <1>2, NextUp, Zenon
<1> HIDE DEF p, q
<1>4. q = IF p % 2 = 0 THEN p + 1 ELSE p - 1 BY <1>1 DEF goto_sibling
<1>5. p \div 2 = q \div 2 BY <1>1, <1>4
<1>6. NodeAt(k + 1, x) = NodeAt(k + 1, y) BY <1>3, <1>5 DEF NodeAt
<1>7. k + 1 <= j BY OrderFact
<1> QED BY <1>3, <1>6, <1>7, Laminar, Zenon

(* Where two paths meet, they come from the two buddies below. *)
LEMMA Meet ==
  ASSUME NEW k \in Order, NEW x \in Addr, NEW y \in Addr, k < MaxOrder,
         NodeAt(k + 1, x) = NodeAt(k + 1, y), NodeAt(k, x) # NodeAt(k, y)
  PROVE  NodeAt(k, y) = goto_sibling(NodeAt(k, x))
<1> DEFINE p == x \div 2^k
           q == y \div 2^k
<1>1. p \in Nat /\ q \in Nat /\ NodeAt(k, x) = <<k, p>> /\ NodeAt(k, y) = <<k, q>>
  BY NodeAtFact, Zenon DEF NodeAt
<1>3. x \div 2^(k + 1) = p \div 2 /\ y \div 2^(k + 1) = q \div 2 /\ k + 1 \in Order
  BY NextUp, Zenon
<1>4. p \div 2 = q \div 2 BY <1>3 DEF NodeAt
<1> HIDE DEF p, q
<1>5. p # q BY <1>1
<1>6. q = IF p % 2 = 0 THEN p + 1 ELSE p - 1 BY <1>1, <1>4, <1>5
<1> QED BY <1>1, <1>6 DEF goto_sibling

(* A path that does not meet another one at order f meets no node of it, and *)
(* no buddy of one, below.                                                   *)
LEMMA Apart ==
  ASSUME NEW k \in Order, NEW f \in Order, NEW x \in Addr, NEW y \in Addr,
         NodeAt(f, x) # NodeAt(f, y)
  PROVE  /\ k <= f => NodeAt(k, y) # NodeAt(k, x)
         /\ k < f => NodeAt(k, y) # goto_sibling(NodeAt(k, x))
BY Laminar, BuddyShares

(* The node of order k around the base of a node of order o >= k starts     *)
(* there.                                                                    *)
LEMMA BaseFact ==
  ASSUME NEW o \in Order, NEW i \in 0..(2^(MaxOrder - o) - 1)
  PROVE  /\ base_addr(<<o, i>>) \in Addr
         /\ NodeAt(o, base_addr(<<o, i>>)) = <<o, i>>
         /\ \A k \in Order : k <= o => base_addr(<<o, i>>) % 2^k = 0
<1> DEFINE d == 2^o
           e == 2^(MaxOrder - o)
           x == i * d
<1>1. d \in Nat \ {0} /\ e \in Nat \ {0} /\ 2^MaxOrder = d * e
  BY OrderFact, PowerFact
<1>2. i \in Nat /\ i + 1 <= e BY <1>1
<1>3. base_addr(<<o, i>>) = x BY DEF base_addr
<1> HIDE DEF d, e
<1>4. (i + 1) * d <= e * d BY <1>1, <1>2
<1>5. x \in 0..(d * e - 1) BY <1>1, <1>2, <1>4
<1>6. x \in Addr BY <1>1, <1>5 DEF Addr, ContentLength
<1>7. x \div d = i BY <1>1, <1>2, DivUnique
<1>8. ASSUME NEW k \in Order, k <= o PROVE x % 2^k = 0
  <2>1. 2^k \in Nat \ {0} /\ 2^(o - k) \in Nat \ {0} /\ d = 2^k * 2^(o - k)
    BY <1>8, OrderFact, PowerFact, Zenon DEF d
  <2> DEFINE a == 2^k
             b == 2^(o - k)
  <2> HIDE DEF a, b
  <2>2. x = (i * b) * a /\ i * b \in Nat
     <3>1. a \in Nat \ {0} /\ b \in Nat \ {0} /\ d = a * b BY <2>1 DEF a, b
     <3> QED BY <3>1, <1>2
  <2>3. x \in Nat BY <1>5, <1>1
  <2> QED BY <2>1, <2>2, <2>3, ModZero, Zenon DEF a
<1> QED BY <1>3, <1>6, <1>7, <1>8, Zenon DEF NodeAt, d

(* The bytes of a block that starts at a multiple of its size are those of   *)
(* one node.                                                                 *)
LEMMA BlockFact ==
  ASSUME NEW k \in Order, NEW p \in Addr, p % 2^k = 0, NEW z \in Nat, p <= z, z < p + 2^k
  PROVE  z \in Addr /\ NodeAt(k, z) = NodeAt(k, p)
<1> DEFINE d == 2^k
           e == 2^(MaxOrder - k)
<1>1. d \in Nat \ {0} /\ e \in Nat \ {0} /\ 2^MaxOrder = d * e
  BY OrderFact, PowerFact
<1>2. p \in Nat /\ p < d * e BY <1>1 DEF Addr, ContentLength
<1>3. PICK q \in Nat : p = q * d BY <1>1, <1>2, ModZero, Zenon
<1> HIDE DEF d, e
<1>4. p \div d = q BY <1>1, <1>2, <1>3, DivUnique
<1>5. z \div d = q BY <1>1, <1>2, <1>3, DivUnique DEF d
<1>6. q < e
  <2>1. SUFFICES ASSUME e <= q PROVE FALSE BY <1>1
  <2>2. e * d <= q * d BY <2>1, <1>1
  <2> QED BY <2>2, <1>1, <1>2, <1>3
<1>7. (q + 1) * d <= e * d BY <1>1, <1>6
<1>8. z < d * e BY <1>1, <1>3, <1>7 DEF d
<1> QED BY <1>1, <1>4, <1>5, <1>8 DEF NodeAt, d, Addr, ContentLength

(* Addresses between two of the same node are in that node too. *)
LEMMA Between ==
  ASSUME NEW k \in Order, NEW x \in Addr, NEW y \in Addr, NEW z \in Addr, x <= z, z <= y,
         NodeAt(k, x) = NodeAt(k, y)
  PROVE  NodeAt(k, z) = NodeAt(k, x)
<1>1. 2^k \in Nat \ {0} BY OrderFact
<1>2. x \div 2^k <= z \div 2^k /\ z \div 2^k <= y \div 2^k BY <1>1, NodeAtFact, DivMonotonic
<1>3. x \div 2^k = y \div 2^k BY NodeAtFact
<1>4. /\ x \div 2^k \in Nat /\ y \div 2^k \in Nat /\ z \div 2^k \in Nat BY NodeAtFact
<1>5. z \div 2^k = x \div 2^k BY <1>2, <1>3, <1>4
<1> QED BY <1>5, Zenon DEF NodeAt
(* Every node is on the path of the address it starts at. *)
LEMMA OnPath ==
  ASSUME NEW n \in Node
  PROVE  \E y \in Addr, k \in Order : n = NodeAt(k, y)
<1>1. n = <<n[1], n[2]>> /\ n[1] \in Order /\ n[2] \in 0..(2^(MaxOrder - n[1]) - 1) BY NodeForm
<1>2. /\ base_addr(<<n[1], n[2]>>) \in Addr
      /\ NodeAt(n[1], base_addr(<<n[1], n[2]>>)) = <<n[1], n[2]>>
  BY <1>1, BaseFact, Zenon
<1> QED BY <1>1, <1>2, Zenon
-----------------------------------------------------------------------------
(* Splitting a free block down to order t keeps the tree rooted, touches no  *)
(* USED block and gives the block it reaches the type leaf.                  *)
LEMMA SplitDownFact ==
  ASSUME NEW s \in [Node -> SlotType], Rooted(s), NEW x \in Addr,
         NEW f \in Order, NEW t \in Order, t <= f, NEW leaf \in {"UNUSED", "USED"},
         s[NodeAt(f, x)] \in {"UNUSED", "EMPTY"},
         \A j \in Order : f < j => s[NodeAt(j, x)] = "SPLIT"
  PROVE  /\ SplitDown(s, x, f, t, leaf) \in [Node -> SlotType]
         /\ Rooted(SplitDown(s, x, f, t, leaf))
         /\ SplitDown(s, x, f, t, leaf)[NodeAt(t, x)] = leaf
         /\ \A n \in Node : s[n] = "USED" => SplitDown(s, x, f, t, leaf)[n] = "USED"
<1> DEFINE r == SplitDown(s, x, f, t, leaf)
<1>1. r \in [Node -> SlotType] BY DEF SplitDown, SlotType
<1>2. ASSUME NEW y \in Addr, NEW k \in Order
      PROVE  r[NodeAt(k, y)] =
                IF k = t /\ NodeAt(k, y) = NodeAt(k, x) THEN leaf
                ELSE IF k \in (t + 1)..f /\ NodeAt(k, y) = NodeAt(k, x) THEN "SPLIT"
                ELSE IF k \in t..(f - 1) /\ NodeAt(k, y) = goto_sibling(NodeAt(k, x)) THEN "UNUSED"
                ELSE s[NodeAt(k, y)]
  <2>1. NodeAt(k, y) \in Node /\ NodeAt(k, y)[1] = k /\ NodeAt(t, x)[1] = t BY NodeAtFact
  <2>2. NodeAt(k, y) = NodeAt(t, x) <=> k = t /\ NodeAt(k, y) = NodeAt(k, x) BY <2>1
  <2> QED BY <2>1, <2>2, Zenon DEF SplitDown
<1>3. r[NodeAt(t, x)] = leaf BY <1>2
<1>4. \A k \in Order : k \in Nat BY OrderFact
<1> HIDE DEF r
<1>5. ASSUME NEW y \in Addr, NodeAt(f, y) # NodeAt(f, x), NEW k \in Order
      PROVE  r[NodeAt(k, y)] = s[NodeAt(k, y)]
  <2>1. k <= f => NodeAt(k, y) # NodeAt(k, x) BY <1>5, Apart
  <2>2. k < f => NodeAt(k, y) # goto_sibling(NodeAt(k, x)) BY <1>5, Apart
  <2> QED BY <2>1, <2>2, <1>2, <1>4
<1>6. ASSUME NEW y \in Addr, NodeAt(f, y) = NodeAt(f, x), NEW k \in Order, k < f
      PROVE  s[NodeAt(k, y)] = "EMPTY"
  BY <1>6, Zenon DEF Rooted
<1>7. ASSUME NEW y \in Addr, NEW j \in Order, NEW k \in Order, k < j,
             r[NodeAt(k, y)] # "EMPTY"
      PROVE  r[NodeAt(j, y)] = "SPLIT"
  <2>1. CASE NodeAt(f, y) # NodeAt(f, x)
    BY <2>1, <1>5, <1>7 DEF Rooted
  <2>2. CASE NodeAt(f, y) = NodeAt(f, x)
    <3>1. CASE f < j
      <4>1. NodeAt(j, y) = NodeAt(j, x) BY <2>2, <3>1, Laminar, <1>4
      <4> QED BY <4>1, <3>1, <1>2, <1>4
    <3>2. CASE j <= f
      <4>1. k < f /\ s[NodeAt(k, y)] = "EMPTY" BY <3>2, <1>6, <1>7, <2>2, <1>4
      <4>2. /\ k \in t..f
            /\ NodeAt(k, y) \in {NodeAt(k, x), goto_sibling(NodeAt(k, x))}
        BY <4>1, <1>2, <1>7, <1>4
      <4>3. NodeAt(j, y) = NodeAt(j, x) BY <4>2, Laminar, BuddyShares, <1>7, <1>4
      <4> QED BY <4>2, <4>3, <3>2, <1>2, <1>7, <1>4
    <3> QED BY <3>1, <3>2, <1>4
  <2> QED BY <2>1, <2>2, Zenon
<1>8. ASSUME NEW n \in Node, s[n] = "USED" PROVE r[n] = "USED"
  <2>1. PICK y \in Addr, k \in Order : n = NodeAt(k, y) BY OnPath
  <2>2. CASE NodeAt(f, y) # NodeAt(f, x) BY <2>1, <2>2, <1>5, <1>8
  <2>3. CASE NodeAt(f, y) = NodeAt(f, x)
    <3>1. f < k BY <1>6, <1>8, <2>1, <2>3, <1>4
    <3> QED BY <3>1, <1>2, <1>8, <2>1, <1>4
  <2> QED BY <2>2, <2>3, Zenon
<1>9. Rooted(r) BY <1>7 DEF Rooted
<1> QED BY <1>1, <1>3, <1>8, <1>9, Zenon DEF r

(* Merging the block of order k around x with its free buddies up to order m *)
(* keeps the tree rooted, and touches no USED block other than that one.     *)
LEMMA MergeUpFact ==
  ASSUME NEW s \in [Node -> SlotType], Rooted(s), NEW x \in Addr,
         NEW k \in Order, NEW m \in Order, k <= m, s[NodeAt(k, x)] = "USED",
         \A j \in k..(m - 1) : s[goto_sibling(NodeAt(j, x))] \in {"UNUSED", "EMPTY"}
  PROVE  /\ MergeUp(s, x, k, m) \in [Node -> SlotType]
         /\ Rooted(MergeUp(s, x, k, m))
         /\ \A n \in Node : s[n] = "USED" /\ n # NodeAt(k, x) => MergeUp(s, x, k, m)[n] = "USED"
<1> DEFINE r == MergeUp(s, x, k, m)
<1>1. r \in [Node -> SlotType] BY DEF MergeUp, SlotType
<1>2. ASSUME NEW y \in Addr, NEW i \in Order
      PROVE  r[NodeAt(i, y)] =
                IF i = m /\ NodeAt(i, y) = NodeAt(i, x) THEN "UNUSED"
                ELSE IF i \in k..(m - 1) /\ NodeAt(i, y) \in {NodeAt(i, x), goto_sibling(NodeAt(i, x))}
                THEN "EMPTY"
                ELSE s[NodeAt(i, y)]
  <2>1. NodeAt(i, y) \in Node /\ NodeAt(i, y)[1] = i /\ NodeAt(m, x)[1] = m BY NodeAtFact
  <2>2. NodeAt(i, y) = NodeAt(m, x) <=> i = m /\ NodeAt(i, y) = NodeAt(i, x) BY <2>1
  <2> QED BY <2>1, <2>2, Zenon DEF MergeUp
<1>3. \A i \in Order : i \in Nat /\ i <= MaxOrder BY OrderFact DEF Order
<1>4. \A j \in Order : k < j => s[NodeAt(j, x)] = "SPLIT" BY DEF Rooted
<1> HIDE DEF r
<1>6. ASSUME NEW y \in Addr, NEW i \in Order, NEW j \in Order, i < j, k < j, j <= m,
             NodeAt(j, y) = NodeAt(j, x), s[NodeAt(i, y)] # "EMPTY"
      PROVE  i \in k..(m - 1) /\ NodeAt(i, y) \in {NodeAt(i, x), goto_sibling(NodeAt(i, x))}
  <2> DEFINE M == {l \in Order : NodeAt(l, y) = NodeAt(l, x)}
             h == Min(M)
  <2>1. h \in M /\ \A l \in M : h <= l
    <3>1. M \subseteq Nat /\ j \in M BY <1>3, <1>6
    <3> QED BY <3>1, MinFact, Zenon
  <2> HIDE DEF h
  <2>2. h <= j /\ h \in Order /\ NodeAt(h, y) = NodeAt(h, x) BY <2>1, <1>6
  <2>3. CASE h <= i
    <3>1. NodeAt(i, y) = NodeAt(i, x) BY <2>2, <2>3, Laminar
    <3>2. ~(i < k)
      <4>1. SUFFICES ASSUME i < k PROVE FALSE OBVIOUS
      <4>2. NodeAt(k, y) = NodeAt(k, x) BY <2>2, <2>3, <4>1, Laminar, <1>3
      <4>3. s[NodeAt(k, y)] = "SPLIT" BY <4>1, <1>6 DEF Rooted
      <4> QED BY <4>2, <4>3, Zenon
    <3> QED BY <3>1, <3>2, <1>3, <1>6
  <2>4. CASE i < h
    <3>1. h - 1 \in Order /\ h - 1 < MaxOrder /\ (h - 1) + 1 = h /\ i <= h - 1
      BY <2>2, <2>4, <1>3, OrderAssumption DEF Order
    <3>2. NodeAt(h - 1, y) # NodeAt(h - 1, x)
      <4>1. SUFFICES ASSUME NodeAt(h - 1, y) = NodeAt(h - 1, x) PROVE FALSE OBVIOUS
      <4>2. h - 1 \in M BY <3>1, <4>1
      <4>3. h <= h - 1 BY <2>1, <4>2
      <4> QED BY <4>3, <2>2, <1>3
    <3>3. NodeAt(h - 1, y) = goto_sibling(NodeAt(h - 1, x))
      BY <3>1, <3>2, <2>2, Meet
    <3>4. CASE h <= k
      <4>1. NodeAt(k, y) = NodeAt(k, x) BY <2>2, <3>4, Laminar
      <4>2. i < k BY <2>4, <3>4, <1>3, <2>2
      <4>3. s[NodeAt(k, y)] = "SPLIT" BY <4>2, <1>6 DEF Rooted
      <4> QED BY <4>1, <4>3, Zenon
    <3>5. CASE k < h
      <4>1. h - 1 \in k..(m - 1) BY <3>5, <2>2, <1>3, <1>6
      <4>2. s[NodeAt(h - 1, y)] \in {"UNUSED", "EMPTY"} BY <4>1, <3>3
      <4>3. i = h - 1
        <5>1. SUFFICES ASSUME i < h - 1 PROVE FALSE BY <3>1, <1>3, <2>2
        <5>2. s[NodeAt(h - 1, y)] = "SPLIT" BY <5>1, <3>1, <1>6 DEF Rooted
        <5> QED BY <5>2, <4>2, Zenon
      <4> QED BY <4>1, <4>3, <3>3, Zenon
    <3> QED BY <3>4, <3>5, <2>2, <1>3
  <2> QED BY <2>3, <2>4, <2>2, <1>3
<1>7. ASSUME NEW y \in Addr, NEW j \in Order, NEW i \in Order, i < j,
             r[NodeAt(i, y)] # "EMPTY"
      PROVE  r[NodeAt(j, y)] = "SPLIT"
  <2>1. CASE i = m /\ NodeAt(i, y) = NodeAt(i, x)
    <3>1. NodeAt(j, y) = NodeAt(j, x) BY <2>1, <1>7, Laminar, <1>3
    <3>2. s[NodeAt(j, x)] = "SPLIT" BY <2>1, <1>4, <1>7, <1>3
    <3> QED BY <3>1, <3>2, <2>1, <1>2, <1>7, <1>3
  <2>2. CASE ~(i = m /\ NodeAt(i, y) = NodeAt(i, x))
    <3>1. /\ s[NodeAt(i, y)] # "EMPTY"
          /\ ~(i \in k..(m - 1) /\ NodeAt(i, y) \in {NodeAt(i, x), goto_sibling(NodeAt(i, x))})
      BY <2>2, <1>2, <1>7, Zenon
    <3>2. s[NodeAt(j, y)] = "SPLIT" BY <3>1, <1>7 DEF Rooted
    <3>3. ~(k < j /\ j <= m /\ NodeAt(j, y) = NodeAt(j, x)) BY <1>6, <1>7, <3>1
    <3>4. ~(j = k /\ NodeAt(j, y) = NodeAt(j, x)) BY <3>2
    <3>5. ~(j \in k..(m - 1) /\ NodeAt(j, y) = goto_sibling(NodeAt(j, x))) BY <3>2
    <3> QED BY <3>2, <3>3, <3>4, <3>5, <1>2, <1>3
  <2> QED BY <2>1, <2>2, Zenon
<1>8. ASSUME NEW n \in Node, s[n] = "USED", n # NodeAt(k, x) PROVE r[n] = "USED"
  <2>1. PICK y \in Addr, i \in Order : n = NodeAt(i, y) BY OnPath
  <2>2. k < i => NodeAt(i, y) # NodeAt(i, x) BY <2>1, <1>4, <1>8
  <2>3. k = i => NodeAt(i, y) # NodeAt(i, x) BY <2>1, <1>8
  <2>4. ~(i \in k..(m - 1) /\ NodeAt(i, y) = goto_sibling(NodeAt(i, x))) BY <2>1, <1>8
  <2> QED BY <2>1, <2>2, <2>3, <2>4, <1>2, <1>3, <1>8
<1>9. Rooted(r) BY <1>7 DEF Rooted
<1> QED BY <1>1, <1>8, <1>9, Zenon DEF r
-----------------------------------------------------------------------------
(* The slots of a path after a split.                                        *)
LEMMA SplitDownAt ==
  ASSUME NEW s, NEW x \in Addr, NEW f \in Order, NEW t \in Order,
         NEW leaf, NEW r, r = SplitDown(s, x, f, t, leaf), NEW y \in Addr, NEW k \in Order
  PROVE  r[NodeAt(k, y)] =
           IF k = t /\ NodeAt(k, y) = NodeAt(k, x) THEN leaf
           ELSE IF k \in (t + 1)..f /\ NodeAt(k, y) = NodeAt(k, x) THEN "SPLIT"
           ELSE IF k \in t..(f - 1) /\ NodeAt(k, y) = goto_sibling(NodeAt(k, x)) THEN "UNUSED"
           ELSE s[NodeAt(k, y)]
<1>1. NodeAt(k, y) \in Node /\ NodeAt(k, y)[1] = k /\ NodeAt(t, x)[1] = t BY NodeAtFact
<1>2. NodeAt(k, y) = NodeAt(t, x) <=> k = t /\ NodeAt(k, y) = NodeAt(k, x) BY <1>1
<1> QED BY <1>1, <1>2, Zenon DEF SplitDown

(* The slots of a path after a merge.                                        *)
LEMMA MergeUpAt ==
  ASSUME NEW s, NEW x \in Addr, NEW k \in Order, NEW m \in Order,
         NEW r, r = MergeUp(s, x, k, m), NEW y \in Addr, NEW i \in Order
  PROVE  r[NodeAt(i, y)] =
           IF i = m /\ NodeAt(i, y) = NodeAt(i, x) THEN "UNUSED"
           ELSE IF i \in k..(m - 1) /\ NodeAt(i, y) \in {NodeAt(i, x), goto_sibling(NodeAt(i, x))}
           THEN "EMPTY"
           ELSE s[NodeAt(i, y)]
<1>1. NodeAt(i, y) \in Node /\ NodeAt(i, y)[1] = i /\ NodeAt(m, x)[1] = m BY NodeAtFact
<1>2. NodeAt(i, y) = NodeAt(m, x) <=> i = m /\ NodeAt(i, y) = NodeAt(i, x) BY <1>1
<1> QED BY <1>1, <1>2, Zenon DEF MergeUp

(* The buddy of a node is another node of the same order.                    *)
LEMMA SiblingFact ==
  ASSUME NEW k \in Order, NEW x \in Addr, k < MaxOrder
  PROVE  \E w \in Addr : NodeAt(k, w) = goto_sibling(NodeAt(k, x)) /\ NodeAt(k, w) # NodeAt(k, x)
<1> DEFINE p == x \div 2^k
           q == IF p % 2 = 0 THEN p + 1 ELSE p - 1
           e == 2^(MaxOrder - k)
           h == 2^(MaxOrder - (k + 1))
<1>1. p \in Nat /\ NodeAt(k, x) = <<k, p>> /\ NodeAt(k, x) \in Node /\ NodeAt(k, x)[1] = k
      /\ NodeAt(k, x)[2] = p
  BY NodeAtFact, Zenon DEF NodeAt
<1>2. p \in 0..(e - 1) BY <1>1, NodeForm
<1>3. e = h * 2 /\ h \in Nat \ {0}
  <2>1. k \in Nat /\ MaxOrder \in Nat BY OrderFact
  <2> DEFINE j == MaxOrder - (k + 1)
  <2>2. j \in 0..MaxOrder /\ j + 1 <= MaxOrder /\ j + 1 = MaxOrder - k BY <2>1
  <2>3. 2^(j + 1) = 2^j * 2 /\ 2^j \in Nat \ {0} BY <2>2, DoubleFact
  <2> QED BY <2>2, <2>3, Zenon
<1> HIDE DEF e, h
<1>4. q \in 0..(e - 1) /\ q # p
  <2> HIDE DEF p
  <2>1. p % 2 \in 0..1 /\ p = 2 * (p \div 2) + (p % 2) /\ p \div 2 \in Nat BY <1>1
  <2> QED BY <1>1, <1>2, <1>3, <2>1
<1>5. goto_sibling(NodeAt(k, x)) = <<k, q>> BY <1>1 DEF goto_sibling
<1> HIDE DEF p, q
<1>6. /\ base_addr(<<k, q>>) \in Addr /\ NodeAt(k, base_addr(<<k, q>>)) = <<k, q>>
  BY <1>4, BaseFact, Zenon DEF e
<1> QED BY <1>1, <1>4, <1>5, <1>6

(* A split fills both halves of the slots it splits.                         *)
LEMMA SplitFills ==
  ASSUME NEW s, Filled(s), NEW x \in Addr, NEW f \in Order, NEW t \in Order, t <= f,
         NEW leaf \in {"UNUSED", "USED"}, NEW r, r = SplitDown(s, x, f, t, leaf)
  PROVE  /\ Filled(r)
         /\ \A y \in Addr, k \in Order :
              r[NodeAt(k, y)] = "SPLIT" => s[NodeAt(k, y)] = "SPLIT" \/ NodeAt(k, y) = NodeAt(k, x)
<1>1. \A y \in Addr, k \in Order :
        r[NodeAt(k, y)] =
          IF k = t /\ NodeAt(k, y) = NodeAt(k, x) THEN leaf
          ELSE IF k \in (t + 1)..f /\ NodeAt(k, y) = NodeAt(k, x) THEN "SPLIT"
          ELSE IF k \in t..(f - 1) /\ NodeAt(k, y) = goto_sibling(NodeAt(k, x)) THEN "UNUSED"
          ELSE s[NodeAt(k, y)]
  BY ONLY x \in Addr, f \in Order, t \in Order, r = SplitDown(s, x, f, t, leaf), SplitDownAt
<1>2. \A k \in Order : k \in Nat BY OrderFact
<1>3. \A y \in Addr, k \in Order : s[NodeAt(k, y)] # "EMPTY" => r[NodeAt(k, y)] # "EMPTY"
  BY <1>1, Zenon
<1>4. \A y \in Addr, k \in Order :
        r[NodeAt(k, y)] = "SPLIT" =>
          \/ s[NodeAt(k, y)] = "SPLIT"
          \/ k \in (t + 1)..f /\ NodeAt(k, y) = NodeAt(k, x)
  BY <1>1, Zenon
<1>5. ASSUME NEW y \in Addr PROVE r[NodeAt(MaxOrder, y)] # "EMPTY"
  BY <1>3, OrderFact, Zenon DEF Filled
<1>6. ASSUME NEW y \in Addr, NEW k \in Order, k < MaxOrder, r[NodeAt(k + 1, y)] = "SPLIT"
      PROVE  r[NodeAt(k, y)] # "EMPTY"
  <2>1. k + 1 \in Order BY <1>6, NextUp
  <2>2. CASE s[NodeAt(k + 1, y)] = "SPLIT"
    BY <1>3, <1>6, <2>2, Zenon DEF Filled
  <2>3. CASE k + 1 \in (t + 1)..f /\ NodeAt(k + 1, y) = NodeAt(k + 1, x)
    <3>1. k \in t..(f - 1) BY <1>2, <2>3
    <3>2. CASE NodeAt(k, y) = NodeAt(k, x)
      <4>1. k = t \/ k \in (t + 1)..f BY <1>2, <3>1
      <4> QED BY <1>1, <3>2, <4>1, Zenon
    <3>3. CASE NodeAt(k, y) # NodeAt(k, x)
      <4>1. NodeAt(k, y) = goto_sibling(NodeAt(k, x)) BY <1>6, <2>3, <3>3, Meet
      <4> QED BY <1>1, <3>1, <3>3, <4>1, Zenon
    <3> QED BY <3>2, <3>3, Zenon
  <2> QED BY <1>4, <1>6, <2>1, <2>2, <2>3, Zenon
<1>7. Filled(r) BY <1>5, <1>6 DEF Filled
<1> QED BY <1>4, <1>7, Zenon

(* A merge empties both halves of the slots it merges.                       *)
LEMMA MergeFills ==
  ASSUME NEW s, Filled(s), NEW x \in Addr, NEW k \in Order, NEW m \in Order, k <= m,
         NEW r, r = MergeUp(s, x, k, m)
  PROVE  /\ Filled(r)
         /\ \A y \in Addr, i \in Order :
              r[NodeAt(i, y)] = "SPLIT" =>
                s[NodeAt(i, y)] = "SPLIT" /\ (NodeAt(i, y) = NodeAt(i, x) => i \notin k..m)
<1>1. \A y \in Addr, i \in Order :
        r[NodeAt(i, y)] =
          IF i = m /\ NodeAt(i, y) = NodeAt(i, x) THEN "UNUSED"
          ELSE IF i \in k..(m - 1) /\ NodeAt(i, y) \in {NodeAt(i, x), goto_sibling(NodeAt(i, x))}
          THEN "EMPTY"
          ELSE s[NodeAt(i, y)]
  BY MergeUpAt
<1>2. \A i \in Order : i \in Nat /\ i <= MaxOrder BY OrderFact
<1>3. \A y \in Addr, i \in Order :
        r[NodeAt(i, y)] = "SPLIT" =>
          s[NodeAt(i, y)] = "SPLIT" /\ (NodeAt(i, y) = NodeAt(i, x) => i \notin k..m)
  <2> SUFFICES ASSUME NEW y \in Addr, NEW i \in Order, r[NodeAt(i, y)] = "SPLIT"
               PROVE  s[NodeAt(i, y)] = "SPLIT" /\ (NodeAt(i, y) = NodeAt(i, x) => i \notin k..m)
    BY Zenon
  <2>1. i \in k..m => i = m \/ i \in k..(m - 1) BY <1>2
  <2> QED BY <1>1, <2>1, Zenon
<1>4. ASSUME NEW y \in Addr PROVE r[NodeAt(MaxOrder, y)] # "EMPTY"
  <2>1. MaxOrder \in Order /\ MaxOrder \notin k..(m - 1) BY <1>2, OrderFact
  <2> QED BY <1>1, <2>1, Zenon DEF Filled
<1>5. ASSUME NEW y \in Addr, NEW i \in Order, i < MaxOrder, r[NodeAt(i + 1, y)] = "SPLIT"
      PROVE  r[NodeAt(i, y)] # "EMPTY"
  <2>1. i + 1 \in Order /\ i < i + 1 /\ i <= i + 1 BY <1>2, <1>5, NextUp
  <2>2. s[NodeAt(i + 1, y)] = "SPLIT" /\ (NodeAt(i + 1, y) = NodeAt(i + 1, x) => i + 1 \notin k..m)
    BY <1>3, <1>5, <2>1, Zenon
  <2>3. s[NodeAt(i, y)] # "EMPTY" BY <1>5, <2>2 DEF Filled
  <2>4. ~(i \in k..(m - 1) /\ NodeAt(i, y) \in {NodeAt(i, x), goto_sibling(NodeAt(i, x))})
    <3> SUFFICES ASSUME i \in k..(m - 1), NodeAt(i, y) \in {NodeAt(i, x), goto_sibling(NodeAt(i, x))}
                 PROVE  FALSE
      BY Zenon
    <3>1. NodeAt(i + 1, y) = NodeAt(i + 1, x) BY <2>1, Laminar, BuddyShares
    <3>2. i + 1 \in k..m BY <1>2
    <3> QED BY <2>2, <3>1, <3>2, Zenon
  <2> QED BY <1>1, <2>3, <2>4, Zenon
<1>6. Filled(r) BY <1>4, <1>5 DEF Filled
<1> QED BY <1>3, <1>6, Zenon

-----------------------------------------------------------------------------
(* Arithmetic in multiples of the smallest block *)

Mult(x) == \E q \in Nat : x = q * 2^MinOrder

(* The smallest block has at least one byte. *)
LEMMA SmallestFact == 2^MinOrder \in Nat \ {0}
BY OrderFact, Zenon

(* Sums and differences of multiples are multiples. *)
LEMMA MultSum ==
  ASSUME NEW x \in Nat, NEW y \in Nat, Mult(x)
  PROVE  Mult(y) => Mult(x + y) /\ (y <= x => Mult(x - y))
<1> DEFINE d == 2^MinOrder
<1>1. PICK p \in Nat : x = p * d BY DEF Mult
<1> SUFFICES ASSUME NEW q \in Nat, y = q * d
             PROVE  Mult(x + y) /\ (y <= x => Mult(x - y))
  BY Zenon DEF Mult
<1>2. d \in Nat \ {0} BY SmallestFact
<1> HIDE DEF d
<1>3. x + y = (p + q) * d /\ p + q \in Nat BY <1>1, <1>2
<1>4. ASSUME y <= x PROVE x - y = (p - q) * d /\ p - q \in Nat
  <2>1. q <= p
    <3>1. SUFFICES ASSUME p + 1 <= q PROVE FALSE OBVIOUS
    <3>2. (p + 1) * d <= q * d BY <3>1, <1>2
    <3> QED BY <3>2, <1>1, <1>2, <1>4
  <2> QED BY <2>1, <1>1, <1>2
<1> QED BY <1>3, <1>4, Zenon DEF Mult, d

(* Every block is a whole number of smallest blocks. *)
LEMMA MultPower ==
  ASSUME NEW k \in Order
  PROVE  Mult(2^k) /\ 2^MinOrder <= 2^k
<1>1. 2^k = 2^MinOrder * 2^(k - MinOrder) /\ 2^(k - MinOrder) \in Nat \ {0} /\ 2^MinOrder \in Nat \ {0}
  BY OrderFact, PowerFact DEF Order
<1> DEFINE d == 2^MinOrder
           e == 2^(k - MinOrder)
<1> HIDE DEF d, e
<1>2. 2^k = e * d /\ e \in Nat \ {0} /\ d \in Nat \ {0} BY <1>1 DEF d, e
<1>3. d <= e * d BY <1>2
<1> QED BY <1>2, <1>3, Zenon DEF Mult, d

(* Every block starts at a multiple of the smallest block. *)
LEMMA MultScaled ==
  ASSUME NEW k \in Order, NEW i \in Nat
  PROVE  Mult(i * 2^k)
<1>1. PICK q \in Nat : 2^k = q * 2^MinOrder BY MultPower DEF Mult
<1>2. 2^MinOrder \in Nat BY SmallestFact
<1>3. i * 2^k = (i * q) * 2^MinOrder /\ i * q \in Nat BY <1>1, <1>2
<1> QED BY <1>3, Zenon DEF Mult

(* A multiple that is not 0 is at least one smallest block. *)
LEMMA MultPositive ==
  ASSUME NEW x \in Nat, Mult(x), x > 0
  PROVE  2^MinOrder <= x
<1> DEFINE d == 2^MinOrder
<1>1. PICK p \in Nat : x = p * d BY DEF Mult
<1>2. d \in Nat \ {0} BY SmallestFact
<1> HIDE DEF d
<1>3. p # 0 BY <1>1, <1>2
<1>4. 1 * d <= p * d BY <1>1, <1>2, <1>3
<1> QED BY <1>1, <1>2, <1>4 DEF d

(* round_up_po2 returns the first multiple from n on. *)
LEMMA RoundUpFact ==
  ASSUME NEW n \in Nat
  PROVE  /\ round_up_po2(n) \in Nat
         /\ Mult(round_up_po2(n))
         /\ n <= round_up_po2(n)
         /\ \A x \in Nat : Mult(x) /\ n <= x => round_up_po2(n) <= x
<1> DEFINE d == 2^MinOrder
           q == (n + d - 1) \div d
<1>1. d \in Nat \ {0} /\ n + d - 1 \in Nat BY SmallestFact
<1>2. q \in Nat /\ q * d <= n + d - 1 /\ n + d - 1 < q * d + d BY <1>1, DivBounds, Zenon
<1>3. round_up_po2(n) = q * d BY DEF round_up_po2
<1> HIDE DEF q, d
<1>4. q * d \in Nat /\ n <= q * d /\ q * d < n + d BY <1>1, <1>2
<1>5. ASSUME NEW x \in Nat, Mult(x), n <= x PROVE q * d <= x
  <2>1. PICK p \in Nat : x = p * d BY <1>5 DEF Mult, d
  <2>2. SUFFICES ASSUME p + 1 <= q PROVE FALSE
    <3>1. CASE q <= p
      <4>1. q * d <= p * d BY <3>1, <1>1, <1>2
      <4> QED BY <4>1, <2>1, Zenon
    <3> QED BY <3>1, <2>1, <1>2
  <2>3. (p + 1) * d <= q * d BY <2>2, <1>1, <1>2
  <2> QED BY <2>1, <2>3, <1>1, <1>2, <1>4, <1>5
<1> QED BY <1>2, <1>3, <1>4, <1>5, Zenon DEF Mult, d

(* round_up_po2 leaves a multiple as it is. *)
LEMMA RoundUpMult ==
  ASSUME NEW n \in Nat, Mult(n)
  PROVE  round_up_po2(n) = n
BY RoundUpFact

(* A power of two is at least the smallest block exactly from its order on. *)
LEMMA OrderOfPower ==
  ASSUME NEW j \in 0..MaxOrder, NEW k \in 0..MaxOrder, 2^j <= 2^k
  PROVE  j <= k
<1> SUFFICES ASSUME k < j PROVE FALSE BY OrderFact
<1>1. k + 1 \in 0..MaxOrder /\ k + 1 <= j BY OrderFact
<1>2. 2^j = 2^(k + 1) * 2^(j - (k + 1)) /\ 2^(j - (k + 1)) \in Nat \ {0} /\ 2^(k + 1) \in Nat \ {0}
  BY <1>1, PowerFact, Zenon
<1>3. 2^(k + 1) = 2^k * 2 /\ 2^k \in Nat \ {0} BY <1>1, DoubleFact, OrderFact
<1> DEFINE a == 2^k
           b == 2^(j - (k + 1))
           c == 2^j
<1>4. c = (a * 2) * b /\ a \in Nat \ {0} /\ b \in Nat \ {0} /\ c <= a BY <1>2, <1>3
<1> HIDE DEF a, b, c
<1>5. (a * 2) * 1 <= (a * 2) * b BY <1>4
<1> QED BY <1>4, <1>5

(* A block of a higher order is at least as large. *)
LEMMA PowerMonotonic ==
  ASSUME NEW j \in 0..MaxOrder, NEW k \in 0..MaxOrder, j <= k
  PROVE  2^j <= 2^k
<1>1. 2^k = 2^j * 2^(k - j) /\ 2^j \in Nat \ {0} /\ 2^(k - j) \in Nat \ {0} BY PowerFact
<1> DEFINE a == 2^j
           b == 2^(k - j)
<1> HIDE DEF a, b
<1>2. a \in Nat \ {0} /\ b \in Nat \ {0} /\ 2^k = a * b BY <1>1 DEF a, b
<1>3. a * 1 <= a * b BY <1>2
<1> QED BY <1>2, <1>3 DEF a

(* flp2 of a length in blocks is the size of a block. *)
LEMMA Flp2Fact ==
  ASSUME NEW n \in Nat, n > 0, Mult(n)
  PROVE  \E k \in Order : flp2(n) = 2^k /\ 2^k <= n
<1> DEFINE S == {p \in {2^k : k \in 0..MaxOrder} : p <= n}
<1>1. S \subseteq Int /\ \A p \in S : p <= n BY PowerAssumption
<1>2. 2^MinOrder \in S BY MultPositive, OrderFact, SmallestFact
<1>3. \A p \in S : \E k \in 0..MaxOrder : p = 2^k /\ 2^k <= n OBVIOUS
<1>4. flp2(n) = Max(S) BY DEF flp2
<1> HIDE DEF S
<1>5. Max(S) \in S /\ 2^MinOrder <= Max(S)
  <2>1. n \in Int /\ S # {} BY <1>2
  <2>2. Max(S) \in S /\ \A y \in S : y <= Max(S) BY ONLY <1>1, <2>1, MaxFact, Zenon
  <2> QED BY <2>2, <1>2, Zenon
<1>6. PICK k \in 0..MaxOrder : Max(S) = 2^k /\ 2^k <= n BY <1>3, <1>5
<1>7. MinOrder <= k BY <1>5, <1>6, OrderOfPower, OrderFact
<1>8. k \in Order BY <1>7, OrderFact DEF Order
<1> QED BY <1>4, <1>6, <1>8, Zenon
-----------------------------------------------------------------------------
(* The request on top of the stack *)

(* The facts about the top call of the stack that the steps of               *)
(* buddy_pre_alloc use.                                                      *)
LEMMA TopFact ==
  ASSUME TypeOK, CallsFit, calls # <<>>
  PROVE  /\ Head(calls) = calls[1] /\ 1 \in 1..Len(calls)
         /\ Base \in Nat /\ Mult(Base)
         /\ Length \in Nat /\ Mult(Length) /\ Length > 0
         /\ Head(calls).length <= Length
         /\ Base + Length <= ContentLength
         /\ \A x \in Bytes(Base, Length) : x \in Addr
         /\ Bytes(Base, Head(calls).length) \subseteq Bytes(Base, Length)
<1>1. Head(calls) = calls[1] /\ 1 \in 1..Len(calls) /\ calls[1] \in Region
  BY DEF TypeOK
<1>2. Base \in Nat /\ Head(calls).length \in Nat BY <1>1 DEF Base, Region
<1>3. /\ Head(calls).length > 0 /\ Base % 2^MinOrder = 0
      /\ Base + Length <= ContentLength
  BY <1>1, Zenon DEF CallsFit, Base, Length
<1>4. Mult(Base) BY <1>2, <1>3, SmallestFact, ModZero, Zenon DEF Mult
<1>5. Length \in Nat /\ Mult(Length) /\ Head(calls).length <= Length BY <1>2, RoundUpFact DEF Length
<1>6. \A x \in Bytes(Base, Length) : x \in Addr BY <1>2, <1>3, <1>5, OrderFact DEF Bytes, Addr
<1> QED BY <1>1, <1>2, <1>3, <1>4, <1>5, <1>6 DEF Bytes

(* The slot of the highest order stands for every address. *)
LEMMA RootOfAll ==
  ASSUME NEW x \in Addr
  PROVE  NodeAt(MaxOrder, x) = <<MaxOrder, 0>>
<1>1. x \in Nat /\ x < 2^MaxOrder /\ 2^MaxOrder \in Nat \ {0} BY OrderFact DEF Addr, ContentLength
<1>2. x \div 2^MaxOrder = 0 BY <1>1, DivUnique
<1> QED BY <1>2, Zenon DEF NodeAt

(* Within is the order of the smallest node around the request. *)
LEMMA WithinFact ==
  ASSUME TypeOK, CallsFit, calls # <<>>
  PROVE  /\ Within \in Order /\ Within <= MaxOrder
         /\ Base \in Addr /\ Base + Length - 1 \in Addr
         /\ NodeAt(Within, Base) = NodeAt(Within, Base + Length - 1)
         /\ \A k \in Order : k < Within => NodeAt(k, Base) # NodeAt(k, Base + Length - 1)
         /\ Length <= 2^Within
         /\ \A k \in Order : Within <= k =>
              \A x \in Bytes(Base, Length) : NodeAt(k, x) = NodeAt(k, Base)
<1> DEFINE e == Base + Length - 1
           S == {k \in Order : NodeAt(k, Base) = NodeAt(k, e)}
<1>1. Base \in Nat /\ Length \in Nat /\ Length > 0 BY TopFact
<1>2. Base \in Addr /\ e \in Addr BY <1>1, TopFact DEF Bytes
<1>3. MaxOrder \in S BY <1>2, RootOfAll, OrderFact
<1>4. S \subseteq Nat BY OrderFact, Zenon
<1>5. Within = Min(S) BY DEF Within
<1>6. \A k \in S : k \in Order /\ NodeAt(k, Base) = NodeAt(k, e) OBVIOUS
<1>7. \A k \in Order : NodeAt(k, Base) = NodeAt(k, e) => k \in S OBVIOUS
<1>8. Within \in S /\ \A k \in S : Within <= k
  <2> HIDE DEF S
  <2> QED BY ONLY <1>3, <1>4, <1>5, MinFact, Zenon
<1>9. Within \in Order /\ NodeAt(Within, Base) = NodeAt(Within, e) BY <1>6, <1>8
<1>10. ASSUME NEW k \in Order, k < Within PROVE NodeAt(k, Base) # NodeAt(k, e)
  BY <1>7, <1>8, <1>9, <1>10, OrderFact
<1>11. Length <= 2^Within
  <2> DEFINE d == 2^Within
             q == Base \div d
  <2>1. d \in Nat \ {0} BY <1>9, OrderFact
  <2>2. e \div d = q BY <1>2, <1>9, NodeAtFact
  <2>3. q \in Nat /\ q * d <= Base BY <1>1, <2>1, DivBounds
  <2>4. e < (e \div d) * d + d
    <3>1. e \in Nat BY <1>1
    <3> HIDE DEF e, d
    <3> QED BY <3>1, <2>1, DivBounds, Zenon
  <2>5. e < q * d + d BY <2>2, <2>4
  <2> HIDE DEF d, q
  <2>6. e < Base + d BY <2>1, <2>3, <2>5, <1>1
  <2> QED BY <2>6, <2>1, <1>1 DEF d
<1>12. ASSUME NEW k \in Order, Within <= k, NEW x \in Bytes(Base, Length)
       PROVE  NodeAt(k, x) = NodeAt(k, Base)
  <2>1. x \in Addr /\ Base <= x /\ x <= e BY TopFact, <1>1 DEF Bytes
  <2>2. NodeAt(Within, x) = NodeAt(Within, Base) BY <2>1, <1>2, <1>9, Between
  <2> QED BY <2>1, <2>2, <1>2, <1>9, <1>12, Laminar, Zenon
<1> QED BY <1>2, <1>9, <1>10, <1>11, <1>12, OrderFact DEF Order

(* Stop is where the descent towards the request leaves the SPLIT nodes. *)
LEMMA StopFact ==
  ASSUME TypeOK, CallsFit, calls # <<>>, Unsplit # {}
  PROVE  /\ Stop \in Order /\ Within <= Stop
         /\ slot[NodeAt(Stop, Base)] # "SPLIT"
         /\ \A j \in Order : Stop < j => slot[NodeAt(j, Base)] = "SPLIT"
<1>1. Unsplit \subseteq Int /\ MaxOrder \in Int /\ \A k \in Unsplit : k <= MaxOrder
  BY WithinFact, OrderFact DEF Unsplit
<1>2. Stop \in Unsplit /\ \A k \in Unsplit : k <= Stop
  BY ONLY <1>1, Unsplit # {}, MaxFact, Zenon DEF Stop
<1>3. Stop \in Order /\ Within <= Stop /\ slot[NodeAt(Stop, Base)] # "SPLIT"
  BY <1>2, WithinFact, OrderFact DEF Unsplit, Order
<1>4. ASSUME NEW j \in Order, Stop < j PROVE slot[NodeAt(j, Base)] = "SPLIT"
  <2>1. SUFFICES ASSUME slot[NodeAt(j, Base)] # "SPLIT" PROVE FALSE OBVIOUS
  <2>2. j \in Within..MaxOrder BY <1>3, <1>4, WithinFact, OrderFact DEF Order
  <2>3. j \in Unsplit BY <2>1, <2>2 DEF Unsplit
  <2> QED BY <1>2, <2>3, <1>3, <1>4, OrderFact
<1> QED BY <1>3, <1>4, Zenon

(* A request that straddles the middle of the block around it is cut there   *)
(* into two nonempty requests in whole blocks.                               *)
LEMMA MiddleFact ==
  ASSUME TypeOK, CallsFit, calls # <<>>, 2^Within > Length
  PROVE  LET mid == base_addr(NodeAt(Within, Base)) + 2^(Within - 1)
         IN  /\ Within - 1 \in Order
             /\ mid \in Nat /\ Mult(mid) /\ Base < mid /\ mid < Base + Length
<1> DEFINE w == Within - 1
           e == Base + Length - 1
           i == Base \div 2^Within
           d == 2^w
           mid == i * 2^Within + d
<1>1. Base \in Nat /\ Length \in Nat /\ Length > 0 /\ Mult(Length) /\ Mult(Base) BY TopFact
<1>2. Within \in Order /\ Base \in Addr /\ e \in Addr BY WithinFact
<1>3. w \in Order
  <2>1. 2^MinOrder <= Length BY <1>1, MultPositive
  <2>2. Within # MinOrder BY <2>1, SmallestFact, <1>1
  <2> QED BY <1>2, <2>2, OrderFact DEF Order
<1>4. 2^Within = d * 2 /\ d \in Nat \ {0}
  <2>1. w + 1 = Within /\ w \in 0..MaxOrder /\ w + 1 <= MaxOrder BY <1>2, <1>3, OrderFact
  <2> QED BY <2>1, DoubleFact, Zenon
<1>5. base_addr(NodeAt(Within, Base)) = i * 2^Within BY <1>2, NodeAtFact DEF base_addr
<1>6. i \in Nat BY <1>2, NodeAtFact
<1>7. e \div 2^Within = i BY <1>2, WithinFact, NodeAtFact
<1>8. NodeAt(w, Base) # NodeAt(w, e) BY <1>2, <1>3, WithinFact, OrderFact
<1>9. Base \div d # e \div d BY <1>8 DEF NodeAt
<1>10. Base \div (d * 2) = i /\ e \div (d * 2) = i BY <1>4, <1>7
<1>11. Mult(i * 2^Within) /\ Mult(d) BY <1>2, <1>3, <1>6, MultScaled, MultPower
<1> HIDE DEF d, i
<1>12. Base < i * (d * 2) + d /\ i * (d * 2) + d <= e
  <2>1. e \in Nat /\ Base <= e BY <1>1
  <2> HIDE DEF e
  <2> QED BY <2>1, <1>1, <1>4, <1>6, <1>9, <1>10, MiddleCut, Zenon
<1>13. i * 2^Within \in Nat /\ d \in Nat BY <1>4, <1>6
<1>14. mid \in Nat /\ Mult(mid)
  <2> DEFINE lo == i * 2^Within
  <2>1. Mult(lo) /\ Mult(d) /\ lo \in Nat /\ d \in Nat BY <1>11, <1>13
  <2>2. mid = lo + d OBVIOUS
  <2> HIDE DEF lo, mid
  <2>3. Mult(lo + d) BY <2>1, MultSum
  <2> QED BY <2>1, <2>2, <2>3
<1>15. Base < mid /\ mid < Base + Length BY <1>1, <1>4, <1>12, <1>13
<1> QED BY <1>3, <1>5, <1>14, <1>15, Zenon DEF d
-----------------------------------------------------------------------------
(* The initial state *)

(* buddy_init leaves one free slot, the root, and nothing else. *)
LEMMA InitInv == Init => BlocksInv
<1> SUFFICES ASSUME Init PROVE BlocksInv OBVIOUS
<1>1. TypeOK
  <2>1. cur_pos \in Nat \ {0} BY DEF Init
  <2>2. slot \in [Node -> SlotType] BY DEF Init, SlotType
  <2>3. calls \in Seq(Region)
    <3>1. calls = <<>> BY DEF Init
    <3> QED BY ONLY <3>1
  <2>4. live \subseteq Addr \X Requests /\ reserved \in ReservedMaps /\ halted \in BOOLEAN BY Zenon DEF Init
  <2> QED BY <2>1, <2>2, <2>3, <2>4, Zenon DEF TypeOK
<1>2. Rooted(slot)
  <2> SUFFICES ASSUME NEW x \in Addr, NEW j \in Order, NEW k \in Order, k < j
               PROVE  slot[NodeAt(k, x)] = "EMPTY"
    BY Zenon DEF Rooted
  <2>1. NodeAt(k, x) \in Node /\ NodeAt(k, x)[1] = k BY NodeAtFact
  <2>2. k # MaxOrder BY OrderFact DEF Order
  <2> QED BY <2>1, <2>2, Zenon DEF Init
<1>3. LiveUsed BY DEF Init, LiveUsed
<1>4. reserved \in Seq(Region) BY ReservedAssumption DEF Init
<1>5. ReservedHeld BY <1>4 DEF Init, ReservedHeld
<1>6. CallsFit BY DEF Init, CallsFit
<1>7. live = {} BY DEF Init
<1> QED BY <1>1, <1>2, <1>3, <1>5, <1>6, <1>7, Zenon DEF BlocksInv
-----------------------------------------------------------------------------
(* The steps of kmem_init *)

(* mem_proc_handler accepts only regions within the content region. *)
LEMMA AcceptedFact ==
  ASSUME NEW i \in 1..Len(reserved), reserved \in ReservedMaps, Accepted(reserved[i])
  PROVE  /\ reserved[i] \in Region /\ reserved[i].length > 0
         /\ reserved[i].base_addr \in Nat /\ reserved[i].length \in Nat
         /\ reserved[i].base_addr % 2^MinOrder = 0
         /\ Bytes(reserved[i].base_addr, reserved[i].length) \subseteq Addr
<1>1. /\ reserved[i] \in Region /\ reserved[i].length > 0
      /\ reserved[i].base_addr % 2^MinOrder = 0
  BY ReservedAssumption
<1>2. reserved[i].base_addr \in Nat /\ reserved[i].length \in Nat BY <1>1 DEF Region
<1>3. Bytes(reserved[i].base_addr, reserved[i].length) \subseteq Addr
  <2> DEFINE b == reserved[i].base_addr
             l == reserved[i].length
  <2>1. b \in Nat /\ l \in Nat /\ b + l <= ContentLength BY <1>2 DEF Accepted
  <2> HIDE DEF b, l
  <2>2. Bytes(b, l) \subseteq Addr BY <2>1, OrderFact DEF Bytes, Addr
  <2> QED BY <2>2, Zenon DEF b, l
<1> QED BY <1>1, <1>2, <1>3, Zenon

(* A step of buddy_pre_alloc that deals with the top call, keeps the calls   *)
(* below it and frees nothing, keeps the reserved regions held.              *)
LEMMA ReservedStep ==
  ASSUME BlocksInv, live = {}, live' = {}, reserved' = reserved, cur_pos' = cur_pos, calls # <<>>,
         \A n \in Node : slot[n] = "USED" => slot'[n] = "USED",
         \A x \in Bytes(Base, Head(calls).length) : Held(x)' \/ Pending(x)',
         \A c \in 2..Len(calls) : \E e \in 1..Len(calls') : calls'[e] = calls[c]
  PROVE  ReservedHeld'
<1> SUFFICES ASSUME NEW i \in 1..Len(reserved), i < cur_pos, Accepted(reserved[i]),
                    NEW x \in Bytes(reserved[i].base_addr, reserved[i].length)
             PROVE  Held(x)' \/ Pending(x)'
  BY Zenon DEF ReservedHeld, Accepted
<1>1. x \in Addr BY AcceptedFact DEF BlocksInv, TypeOK
<1>2. CASE Held(x)
  <2>1. PICK k \in Order : slot[NodeAt(k, x)] = "USED" BY <1>2 DEF Held
  <2>2. slot'[NodeAt(k, x)] = "USED" BY <1>1, <2>1, NodeAtFact
  <2> QED BY <2>2, Zenon DEF Held, NodeAt
<1>3. CASE Pending(x)
  <2>1. PICK c \in 1..Len(calls) : x \in Bytes(calls[c].base_addr, calls[c].length)
    BY <1>3, Zenon DEF Pending
  <2>2. CASE c = 1
    BY <2>1, <2>2, TopFact, Zenon DEF BlocksInv, Base
  <2>3. CASE c # 1
    <3>1. c \in 2..Len(calls) BY <2>3
    <3>2. PICK e \in 1..Len(calls') : calls'[e] = calls[c] BY <3>1
    <3> QED BY <2>1, <3>2, Zenon DEF Pending, Bytes
  <2> QED BY <2>2, <2>3, Zenon
<1> QED BY <1>2, <1>3, Zenon DEF BlocksInv, ReservedHeld

(* Two nested calls in place of the call on top of the stack. *)
LEMMA PushFact ==
  ASSUME NEW s \in Seq(Region), s # <<>>, NEW c \in Region, NEW d \in Region,
         NEW t, t = <<c, d>> \o Tail(s)
  PROVE  /\ t \in Seq(Region) /\ Len(t) = Len(s) + 1
         /\ t[1] = c /\ t[2] = d
         /\ \A i \in 3..Len(t) : t[i] = s[i - 1] /\ i - 1 \in 1..Len(s)
         /\ \A i \in 2..Len(s) : t[i + 1] = s[i] /\ i + 1 \in 1..Len(t)
         /\ 1 \in 1..Len(t) /\ 2 \in 1..Len(t)
<1>1. Tail(s) \in Seq(Region) /\ Len(Tail(s)) = Len(s) - 1 /\ Len(s) \in Nat /\ Len(s) > 0
      /\ \A i \in 1..Len(Tail(s)) : Tail(s)[i] = s[i + 1]
  OBVIOUS
<1>2. <<c, d>> \in Seq(Region) /\ Len(<<c, d>>) = 2 /\ <<c, d>>[1] = c /\ <<c, d>>[2] = d
  OBVIOUS
<1>3. /\ t \in Seq(Region) /\ Len(t) = 2 + Len(Tail(s))
      /\ \A i \in 1..(2 + Len(Tail(s))) : t[i] = IF i <= 2 THEN <<c, d>>[i] ELSE Tail(s)[i - 2]
  BY <1>1, <1>2
<1>4. ASSUME NEW i \in 3..Len(t) PROVE t[i] = s[i - 1] /\ i - 1 \in 1..Len(s)
  <2>1. i - 2 \in 1..Len(Tail(s)) /\ i \in 1..(2 + Len(Tail(s))) /\ ~(i <= 2) BY <1>1, <1>3
  <2>2. t[i] = Tail(s)[i - 2] BY <2>1, <1>3
  <2>3. Tail(s)[i - 2] = s[(i - 2) + 1] BY <2>1, <1>1
  <2> QED BY <2>2, <2>3, <1>1, <1>3
<1> QED BY <1>1, <1>2, <1>3, <1>4

(* Returning from the call on top of the stack. *)
LEMMA TailFact ==
  ASSUME NEW s \in Seq(Region), s # <<>>
  PROVE  /\ Tail(s) \in Seq(Region)
         /\ \A i \in 1..Len(Tail(s)) : Tail(s)[i] = s[i + 1] /\ i + 1 \in 1..Len(s)
         /\ \A i \in 2..Len(s) : Tail(s)[i - 1] = s[i] /\ i - 1 \in 1..Len(Tail(s))
<1>1. Tail(s) \in Seq(Region) /\ Len(Tail(s)) = Len(s) - 1 /\ Len(s) \in Nat /\ Len(s) > 0
      /\ \A i \in 1..Len(Tail(s)) : Tail(s)[i] = s[i + 1]
  OBVIOUS
<1> QED BY <1>1

(* Cutting the top call at a block boundary m leaves two calls that fit.     *)
LEMMA CutFits ==
  ASSUME BlocksInv, calls # <<>>, NEW m \in Nat, Mult(m), Base < m, m < Base + Length,
         calls' = <<Call(Base, m - Base), Call(m, Base + Length - m)>> \o Tail(calls)
  PROVE  /\ calls' \in Seq(Region) /\ CallsFit' /\ calls' # <<>>
         /\ \A x \in Bytes(Base, Head(calls).length) : Pending(x)'
         /\ \A c \in 2..Len(calls) : \E e \in 1..Len(calls') : calls'[e] = calls[c]
<1> DEFINE c == Call(Base, m - Base)
           d == Call(m, Base + Length - m)
<1>1. /\ Base \in Nat /\ Mult(Base) /\ Length \in Nat /\ Mult(Length)
      /\ Base + Length <= ContentLength /\ Head(calls).length <= Length
      /\ Bytes(Base, Head(calls).length) \subseteq Bytes(Base, Length)
  BY TopFact, Zenon DEF BlocksInv
<1>2. m - Base \in Nat /\ Base + Length - m \in Nat /\ m - Base > 0 /\ Base + Length - m > 0
  BY <1>1
<1>3. c \in Region /\ d \in Region BY <1>1, <1>2 DEF Call, Region
<1>4. calls \in Seq(Region) BY DEF BlocksInv, TypeOK
<1>5. /\ calls' \in Seq(Region) /\ Len(calls') = Len(calls) + 1
      /\ calls'[1] = c /\ calls'[2] = d
      /\ \A i \in 3..Len(calls') : calls'[i] = calls[i - 1] /\ i - 1 \in 1..Len(calls)
      /\ \A i \in 2..Len(calls) : calls'[i + 1] = calls[i] /\ i + 1 \in 1..Len(calls')
      /\ 1 \in 1..Len(calls') /\ 2 \in 1..Len(calls')
  <2> HIDE DEF c, d
  <2>1. calls' = <<c, d>> \o Tail(calls) BY DEF c, d
  <2> QED BY <1>3, <1>4, <2>1, PushFact
<1>6. /\ c.base_addr = Base /\ c.length = m - Base
      /\ d.base_addr = m /\ d.length = Base + Length - m
  BY Zenon DEF Call
<1> HIDE DEF c, d
<1>7. Mult(m - Base) /\ Mult(Base + Length - m) 
  <2>1. Mult(m - Base) BY <1>1, MultSum
  <2>2. Base + Length \in Nat /\ Mult(Base + Length) BY <1>1, MultSum
  <2> DEFINE u == Base + Length
  <2> HIDE DEF u
  <2>3. u \in Nat /\ Mult(u) /\ m <= u BY <2>2, <1>2, <1>1 DEF u
  <2>4. Mult(u - m) BY <2>3, MultSum
  <2>5. u - m = Base + Length - m BY <1>1 DEF u
  <2> QED BY <2>1, <2>4, <2>5, Zenon
<1>8. round_up_po2(m - Base) = m - Base /\ round_up_po2(Base + Length - m) = Base + Length - m
  BY <1>2, <1>7, RoundUpMult, Zenon
<1>9. Base % 2^MinOrder = 0 /\ m % 2^MinOrder = 0 BY <1>1, ModZero, SmallestFact, Zenon DEF Mult
<1>10. CallsFit'
  <2> SUFFICES ASSUME NEW i \in 1..Len(calls')
               PROVE  /\ calls'[i].length > 0
                      /\ calls'[i].base_addr % 2^MinOrder = 0
                      /\ calls'[i].base_addr + round_up_po2(calls'[i].length) <= ContentLength
    BY Zenon DEF CallsFit, round_up_po2, ContentLength
  <2>1. CASE i = 1
    <3>1. calls'[i].base_addr = Base /\ calls'[i].length = m - Base BY <2>1, <1>5, <1>6
    <3>2. Base + (m - Base) <= ContentLength BY <1>1, <1>2, OrderFact
    <3> QED BY <3>1, <3>2, <1>2, <1>8, <1>9, Zenon
  <2>2. CASE i = 2
    <3>1. calls'[i].base_addr = m /\ calls'[i].length = Base + Length - m BY <2>2, <1>5, <1>6
    <3>2. m + (Base + Length - m) <= ContentLength BY <1>1, <1>2, OrderFact
    <3> QED BY <3>1, <3>2, <1>2, <1>8, <1>9, Zenon
  <2>3. CASE i # 1 /\ i # 2
    <3>1. i \in 3..Len(calls') BY <2>3, <1>5
    <3>2. calls'[i] = calls[i - 1] /\ i - 1 \in 1..Len(calls) BY <3>1, <1>5
    <3> QED BY <3>2, Zenon DEF BlocksInv, CallsFit
  <2> QED BY <2>1, <2>2, <2>3, Zenon
<1>11. ASSUME NEW x \in Bytes(Base, Head(calls).length) PROVE Pending(x)'
  <2>1. x \in Int /\ Base <= x /\ x < Base + Length BY <1>1 DEF Bytes
  <2>2. CASE x < m
    <3>1. x \in Bytes(calls'[1].base_addr, calls'[1].length)
      BY <2>1, <2>2, <1>1, <1>5, <1>6 DEF Bytes
    <3> QED BY <3>1, <1>5, Zenon DEF Pending, Bytes
  <2>3. CASE m <= x
    <3>1. x \in Bytes(calls'[2].base_addr, calls'[2].length)
      BY <2>1, <2>3, <1>1, <1>5, <1>6 DEF Bytes
    <3> QED BY <3>1, <1>5, Zenon DEF Pending, Bytes
  <2> QED BY <2>1, <2>2, <2>3
<1>12. calls' # <<>> BY <1>5
<1>13. ASSUME NEW i \in 2..Len(calls) PROVE \E e \in 1..Len(calls') : calls'[e] = calls[i]
  BY <1>5, Zenon
<1> QED BY <1>5, <1>10, <1>11, <1>12, <1>13, Zenon

(* mem_proc_handler passes a region on to buddy_pre_alloc, or skips it. *)
LEMMA HandlerStep == BlocksInv /\ mem_proc_handler => BlocksInv'
<1> SUFFICES ASSUME BlocksInv, mem_proc_handler PROVE BlocksInv' OBVIOUS
<1> DEFINE rg == reserved[cur_pos]
<1>1. /\ calls = <<>> /\ cur_pos \in 1..Len(reserved)
      /\ reserved \in Seq(Region) /\ reserved \in ReservedMaps /\ live = {}
  BY ReservedAssumption DEF BlocksInv, TypeOK, mem_proc_handler
<1>2. /\ cur_pos' = cur_pos + 1 /\ UNCHANGED <<slot, live, reserved, halted>>
      /\ calls' = IF Accepted(rg) THEN <<rg>> ELSE <<>>
  BY Zenon DEF mem_proc_handler
<1>3. CASE ~Accepted(rg)
  <2>1. calls' = calls BY <1>1, <1>2, <1>3
  <2>2. ReservedHeld'
    <3> SUFFICES ASSUME NEW i \in 1..Len(reserved), i < cur_pos', Accepted(reserved[i])
                 PROVE  \A x \in Bytes(reserved[i].base_addr, reserved[i].length) : Held(x) \/ Pending(x)
      BY <1>2, <2>1, Zenon DEF ReservedHeld, Accepted, Held, Pending
    <3>1. i < cur_pos BY <1>1, <1>2, <1>3
    <3> QED BY <3>1, Zenon DEF BlocksInv, ReservedHeld
  <2> QED BY <1>1, <1>2, <2>1, <2>2 DEF BlocksInv, TypeOK, LiveUsed, CallsFit
<1>4. CASE Accepted(rg)
  <2>1. /\ rg \in Region /\ rg.length > 0 /\ rg.base_addr \in Nat /\ rg.length \in Nat
        /\ rg.base_addr % 2^MinOrder = 0
    BY <1>1, <1>4, AcceptedFact, Zenon
  <2>2. calls' = <<rg>> /\ calls' \in Seq(Region) /\ Len(calls') = 1 /\ calls'[1] = rg
    <3> HIDE DEF rg
    <3> QED BY <1>2, <1>4, <2>1
  <2> HIDE DEF rg
  <2>3. rg.base_addr + round_up_po2(rg.length) <= ContentLength
    <3> DEFINE b == rg.base_addr
               l == rg.length
               r == ContentLength - b
    <3>1. b \in Nat /\ l \in Nat /\ b + l <= ContentLength /\ Mult(b)
      BY <1>4, <2>1, ModZero, SmallestFact, Zenon DEF Accepted, Mult
    <3>2. ContentLength \in Nat /\ Mult(ContentLength) BY MultPower, OrderFact DEF ContentLength
    <3> HIDE DEF b, l
    <3>3. r \in Nat /\ l <= r /\ Mult(r)
      <4>1. b <= ContentLength BY <3>1, <3>2
      <4>2. Mult(r) BY <3>1, <3>2, <4>1, MultSum
      <4> QED BY <3>1, <3>2, <4>1, <4>2
    <3> HIDE DEF r
    <3>4. round_up_po2(l) <= r /\ round_up_po2(l) \in Nat BY <3>1, <3>3, RoundUpFact
    <3>5. b + round_up_po2(l) <= ContentLength BY <3>1, <3>2, <3>4 DEF r
    <3> QED BY <3>5, Zenon DEF b, l
  <2>4. CallsFit'
    BY <2>1, <2>2, <2>3 DEF CallsFit, round_up_po2, ContentLength
  <2>5. ReservedHeld'
    <3> SUFFICES ASSUME NEW i \in 1..Len(reserved), i < cur_pos', Accepted(reserved[i]),
                        NEW x \in Bytes(reserved[i].base_addr, reserved[i].length)
                 PROVE  Held(x)' \/ Pending(x)'
      BY <1>2, Zenon DEF ReservedHeld, Accepted
    <3>1. CASE i < cur_pos
      <4>1. ~Pending(x) BY <1>1 DEF Pending
      <4>2. Held(x) BY <3>1, <4>1 DEF BlocksInv, ReservedHeld
      <4> QED BY <4>2, <1>2, Zenon DEF Held
    <3>2. CASE i = cur_pos
      <4>1. x \in Bytes(calls'[1].base_addr, calls'[1].length) /\ 1 \in 1..Len(calls')
        BY <3>2, <2>2 DEF rg
      <4> QED BY <4>1, Zenon DEF Pending, Bytes
    <3> QED BY <3>1, <3>2, <1>1, <1>2
  <2> QED BY <1>1, <1>2, <2>2, <2>4, <2>5 DEF BlocksInv, TypeOK, LiveUsed
<1> QED BY <1>3, <1>4, Zenon

(* buddy_pre_alloc of a length that is not a power of two. *)
LEMMA BreakUpStep == BlocksInv /\ PreAllocBreakUp => BlocksInv'
<1> SUFFICES ASSUME BlocksInv, PreAllocBreakUp PROVE BlocksInv' OBVIOUS
<1>1. calls # <<>> /\ live = {} /\ UNCHANGED <<slot, cur_pos, live, reserved, halted>>
  BY Zenon DEF BlocksInv, PreAllocBreakUp, Booting
<1>2. /\ Base \in Nat /\ Mult(Base) /\ Length \in Nat /\ Mult(Length) /\ Length > 0
  BY <1>1, TopFact, Zenon DEF BlocksInv
<1>3. PICK k \in Order : flp2(Length) = 2^k /\ 2^k <= Length BY <1>2, Flp2Fact
<1> DEFINE f == 2^k
           m == Base + f
<1>4. f \in Nat \ {0} /\ Mult(f) BY MultPower, OrderFact
<1>5. f < Length BY <1>2, <1>3, <1>4 DEF PreAllocBreakUp
<1>6. calls' = <<Call(Base, f), Call(Base + f, Length - f)>> \o Tail(calls)
  BY <1>3, Zenon DEF PreAllocBreakUp
<1> HIDE DEF f
<1>7. m \in Nat /\ Mult(m) /\ Base < m /\ m < Base + Length BY <1>2, <1>4, <1>5, MultSum
<1>8. f = m - Base /\ Length - f = Base + Length - m BY <1>2, <1>4
<1>9. calls' = <<Call(Base, m - Base), Call(m, Base + Length - m)>> \o Tail(calls)
  BY <1>6, <1>8, Zenon
<1> HIDE DEF m
<1>10. /\ calls' \in Seq(Region) /\ CallsFit' /\ calls' # <<>>
       /\ \A x \in Bytes(Base, Head(calls).length) : Pending(x)'
       /\ \A c \in 2..Len(calls) : \E e \in 1..Len(calls') : calls'[e] = calls[c]
  BY <1>1, <1>7, <1>9, CutFits, Zenon
<1>11. ReservedHeld' BY <1>1, <1>10, ReservedStep
<1> QED BY <1>1, <1>10, <1>11, Zenon DEF BlocksInv, TypeOK, LiveUsed

(* Returning from the top call, with its bytes in USED blocks. *)
LEMMA ReturnStep ==
  ASSUME BlocksInv, calls # <<>>, calls' = Tail(calls), UNCHANGED <<cur_pos, live, reserved, halted>>,
         slot' \in [Node -> SlotType], Rooted(slot'),
         \A n \in Node : slot[n] = "USED" => slot'[n] = "USED",
         NEW k \in Order, Within <= k, slot'[NodeAt(k, Base)] = "USED"
  PROVE  BlocksInv'
<1>1. live = {} /\ live' = {} BY DEF BlocksInv
<1>2. calls \in Seq(Region) BY DEF BlocksInv, TypeOK
<1>3. ASSUME NEW x \in Bytes(Base, Head(calls).length) PROVE Held(x)'
  <2>1. x \in Bytes(Base, Length) BY TopFact DEF BlocksInv
  <2>2. NodeAt(k, x) = NodeAt(k, Base) BY <2>1, WithinFact DEF BlocksInv
  <2>3. slot'[NodeAt(k, x)] = "USED" BY <2>2
  <2> QED BY <2>3, <1>1, Zenon DEF Held, NodeAt
<1>4. ReservedHeld'
  <2>1. \A c \in 2..Len(calls) : \E e \in 1..Len(calls') : calls'[e] = calls[c]
    BY <1>2, TailFact, Zenon
  <2> QED BY <1>1, <1>3, <2>1, ReservedStep, Zenon
<1>5. calls' \in Seq(Region) /\ CallsFit'
  <2>1. /\ calls' \in Seq(Region)
        /\ \A i \in 1..Len(calls') : calls'[i] = calls[i + 1] /\ i + 1 \in 1..Len(calls)
    BY <1>2, TailFact, Zenon
  <2> QED BY <2>1 DEF BlocksInv, CallsFit, round_up_po2, ContentLength
<1> QED BY <1>1, <1>4, <1>5, Zenon DEF BlocksInv, TypeOK, LiveUsed

(* buddy_pre_alloc of a request inside a USED block. *)
LEMMA DoneStep == BlocksInv /\ PreAllocDone => BlocksInv'
<1> SUFFICES ASSUME BlocksInv, PreAllocDone PROVE BlocksInv' OBVIOUS
<1>1. /\ calls # <<>> /\ calls' = Tail(calls) /\ UNCHANGED <<slot, cur_pos, live, reserved, halted>>
      /\ Unsplit # {} /\ slot[NodeAt(Stop, Base)] = "USED"
  BY Zenon DEF PreAllocDone, OneBlock, Booting, InsideUsed
<1>2. Stop \in Order /\ Within <= Stop BY <1>1, StopFact DEF BlocksInv
<1>3. slot' \in [Node -> SlotType] /\ Rooted(slot') BY <1>1 DEF BlocksInv, TypeOK
<1>4. slot'[NodeAt(Stop, Base)] = "USED" BY <1>1
<1> DEFINE k == Stop
<1> HIDE DEF k
<1>5. k \in Order /\ Within <= k /\ slot'[NodeAt(k, Base)] = "USED" BY <1>2, <1>4 DEF k
<1> QED BY <1>1, <1>3, <1>5, ReturnStep, Zenon

(* buddy_pre_alloc splits no USED block on its way to the two halves.        *)
LEMMA OverlapKeeps ==
  ASSUME BlocksInv, PreAllocOverlap
  PROVE  /\ slot' \in [Node -> SlotType] /\ Rooted(slot')
         /\ \A n \in Node : slot[n] = "USED" => slot'[n] = "USED"
<1>1. calls # <<>> /\ 2^Within > Length /\ ~InsideUsed
  BY Zenon DEF PreAllocOverlap, OneBlock, Booting
<1>2. Within - 1 \in Order BY <1>1, MiddleFact DEF BlocksInv
<1>3. CASE Unsplit = {}
  <2>1. slot' = slot BY <1>3 DEF PreAllocOverlap
  <2> QED BY <2>1, Zenon DEF BlocksInv, TypeOK
<1>4. CASE Unsplit # {}
  <2>1. /\ Stop \in Order /\ Within <= Stop /\ slot[NodeAt(Stop, Base)] # "SPLIT"
        /\ \A j \in Order : Stop < j => slot[NodeAt(j, Base)] = "SPLIT"
    BY <1>1, <1>4, StopFact, Zenon DEF BlocksInv
  <2>2. Within \in Order /\ Base \in Addr BY <1>1, WithinFact DEF BlocksInv
  <2>3. 2^Stop > Length
    <3>1. 2^Within <= 2^Stop BY <2>1, <2>2, OrderFact, PowerMonotonic
    <3>2. Length \in Nat BY <1>1, TopFact DEF BlocksInv
    <3>3. 2^Within \in Nat /\ 2^Stop \in Nat BY <2>1, <2>2, OrderFact
    <3> QED BY <1>1, <3>1, <3>2, <3>3
  <2>4. slot[NodeAt(Stop, Base)] # "USED" BY <1>1, <1>4, <2>3 DEF InsideUsed
  <2>5. slot \in [Node -> SlotType] /\ Rooted(slot) BY DEF BlocksInv, TypeOK
  <2>6. slot[NodeAt(Stop, Base)] \in {"UNUSED", "EMPTY"}
    <3>1. NodeAt(Stop, Base) \in Node BY <2>1, <2>2, NodeAtFact
    <3> QED BY <2>1, <2>4, <2>5, <3>1, Zenon DEF SlotType
  <2>7. slot' = SplitDown(slot, Base, Stop, Within - 1, "UNUSED")
    BY <1>4, Zenon DEF PreAllocOverlap
  <2>8. Within - 1 <= Stop BY <2>1, <2>2, OrderFact
  <2> DEFINE f == Stop
             t == Within - 1
  <2> HIDE DEF f, t
  <2>9. /\ f \in Order /\ t \in Order /\ t <= f /\ slot[NodeAt(f, Base)] \in {"UNUSED", "EMPTY"}
        /\ \A j \in Order : f < j => slot[NodeAt(j, Base)] = "SPLIT"
        /\ slot' = SplitDown(slot, Base, f, t, "UNUSED")
    BY <1>2, <2>1, <2>6, <2>7, <2>8, Zenon DEF f, t
  <2> QED BY <2>2, <2>5, <2>9, SplitDownFact
<1> QED BY <1>3, <1>4, Zenon

(* buddy_pre_alloc of a request across the middle of a block. *)
LEMMA OverlapStep == BlocksInv /\ PreAllocOverlap => BlocksInv'
<1> SUFFICES ASSUME BlocksInv, PreAllocOverlap PROVE BlocksInv' OBVIOUS
<1>1. /\ calls # <<>> /\ live = {} /\ UNCHANGED <<cur_pos, live, reserved, halted>>
      /\ 2^Within > Length
  BY Zenon DEF BlocksInv, PreAllocOverlap, OneBlock, Booting
<1> DEFINE mid == base_addr(NodeAt(Within, Base)) + 2^(Within - 1)
<1>2. /\ Within - 1 \in Order
      /\ mid \in Nat /\ Mult(mid) /\ Base < mid /\ mid < Base + Length
  BY <1>1, MiddleFact, Zenon DEF BlocksInv
<1>3. calls' = <<Call(Base, mid - Base), Call(mid, Base + Length - mid)>> \o Tail(calls)
  BY Zenon DEF PreAllocOverlap
<1> HIDE DEF mid
<1>4. /\ calls' \in Seq(Region) /\ CallsFit' /\ calls' # <<>>
      /\ \A x \in Bytes(Base, Head(calls).length) : Pending(x)'
      /\ \A c \in 2..Len(calls) : \E e \in 1..Len(calls') : calls'[e] = calls[c]
  BY <1>1, <1>2, <1>3, CutFits, Zenon
<1>5. /\ slot' \in [Node -> SlotType] /\ Rooted(slot')
      /\ \A n \in Node : slot[n] = "USED" => slot'[n] = "USED"
  BY OverlapKeeps, Zenon
<1>6. ReservedHeld' BY <1>1, <1>4, <1>5, ReservedStep
<1> QED BY <1>1, <1>4, <1>5, <1>6, Zenon DEF BlocksInv, TypeOK, LiveUsed

(* buddy_pre_alloc of exactly one free block splits no USED one. *)
LEMMA FitKeeps ==
  ASSUME BlocksInv, PreAllocFit
  PROVE  /\ slot' \in [Node -> SlotType] /\ Rooted(slot')
         /\ \A n \in Node : slot[n] = "USED" => slot'[n] = "USED"
         /\ slot'[NodeAt(Within, Base)] = "USED"
<1>1. /\ calls # <<>> /\ Unsplit # {} /\ slot_type(slot[NodeAt(Stop, Base)]) = "UNUSED"
      /\ slot' = SplitDown(slot, Base, Stop, Within, "USED")
  BY Zenon DEF PreAllocFit, OneBlock, Booting
<1>2. /\ Stop \in Order /\ Within <= Stop
      /\ \A j \in Order : Stop < j => slot[NodeAt(j, Base)] = "SPLIT"
  BY <1>1, StopFact, Zenon DEF BlocksInv
<1>3. Within \in Order /\ Base \in Addr BY <1>1, WithinFact DEF BlocksInv
<1>4. slot[NodeAt(Stop, Base)] \in {"UNUSED", "EMPTY"} BY <1>1 DEF slot_type
<1>5. slot \in [Node -> SlotType] /\ Rooted(slot) BY DEF BlocksInv, TypeOK
<1> DEFINE f == Stop
           t == Within
<1> HIDE DEF f, t
<1>6. /\ f \in Order /\ t \in Order /\ t <= f /\ slot[NodeAt(f, Base)] \in {"UNUSED", "EMPTY"}
      /\ \A j \in Order : f < j => slot[NodeAt(j, Base)] = "SPLIT"
      /\ slot' = SplitDown(slot, Base, f, t, "USED")
  BY <1>1, <1>2, <1>3, <1>4, Zenon DEF f, t
<1>7. /\ slot' \in [Node -> SlotType] /\ Rooted(slot')
      /\ \A n \in Node : slot[n] = "USED" => slot'[n] = "USED"
      /\ slot'[NodeAt(t, Base)] = "USED"
  BY <1>3, <1>5, <1>6, SplitDownFact
<1> QED BY <1>7, Zenon DEF t

(* buddy_pre_alloc of exactly one free block. *)
LEMMA FitStep == BlocksInv /\ PreAllocFit => BlocksInv'
<1> SUFFICES ASSUME BlocksInv, PreAllocFit PROVE BlocksInv' OBVIOUS
<1>1. calls # <<>> /\ calls' = Tail(calls) /\ UNCHANGED <<cur_pos, live, reserved, halted>>
  BY Zenon DEF PreAllocFit, OneBlock, Booting
<1>2. PICK t : t = Within OBVIOUS
<1>3. t \in Order /\ Within <= t
  <2>1. t \in Order BY <1>1, <1>2, WithinFact DEF BlocksInv
  <2>2. t \in Nat BY <2>1, OrderFact
  <2> QED BY <1>2, <2>1, <2>2
<1>4. /\ slot' \in [Node -> SlotType] /\ Rooted(slot')
      /\ \A n \in Node : slot[n] = "USED" => slot'[n] = "USED"
      /\ slot'[NodeAt(t, Base)] = "USED"
  BY <1>2, FitKeeps, Zenon
<1> QED BY <1>1, <1>3, <1>4, ReturnStep, Zenon

(* A step that leaves everything but halted alone: the BUG_ONs. *)
LEMMA HaltStep ==
  ASSUME BlocksInv, UNCHANGED <<slot, cur_pos, calls, live, reserved>>, halted' \in BOOLEAN
  PROVE  BlocksInv'
<1>1. TypeOK' BY DEF BlocksInv, TypeOK
<1>2. Rooted(slot') BY DEF BlocksInv
<1>3. LiveUsed' BY DEF BlocksInv, LiveUsed
<1>4. ReservedHeld' BY Zenon DEF BlocksInv, ReservedHeld, Held, Pending, Accepted
<1>5. CallsFit' BY DEF BlocksInv, CallsFit
<1> QED BY <1>1, <1>2, <1>3, <1>4, <1>5, Zenon DEF BlocksInv
-----------------------------------------------------------------------------
(* Allocation and release *)

(* k_order is the order of the smallest block that holds the request. *)
LEMMA KOrderFact ==
  ASSUME NEW bytes \in Requests
  PROVE  k_order(bytes) \in Order /\ bytes <= 2^k_order(bytes)
<1> DEFINE S == {k \in Order : bytes <= 2^k}
<1>1. MaxOrder \in S BY RequestAssumption, OrderFact DEF ContentLength
<1>2. S \subseteq Nat BY OrderFact, Zenon
<1>3. k_order(bytes) = Min(S) BY DEF k_order
<1>4. \A k \in S : k \in Order /\ bytes <= 2^k OBVIOUS
<1>5. k_order(bytes) \in S
  <2> HIDE DEF S
  <2> QED BY ONLY <1>1, <1>2, <1>3, MinFact, Zenon
<1> QED BY <1>4, <1>5, Zenon

(* buddy_alloc finds a free slot, of an order that is large enough. *)
LEMMA FoundFact ==
  ASSUME NEW k \in Order, FreeOrders(k) # {},
         NEW o, o = Min(FreeOrders(k)), NEW i, i = Min(find_free_slot(o))
  PROVE  /\ o \in Order /\ k <= o /\ i \in 0..(2^(MaxOrder - o) - 1)
         /\ slot[<<o, i>>] = "UNUSED"
<1>1. FreeOrders(k) \subseteq Nat BY OrderFact DEF FreeOrders
<1>2. o \in FreeOrders(k) BY ONLY <1>1, FreeOrders(k) # {}, o = Min(FreeOrders(k)), MinFact
<1>3. o \in Order /\ k <= o /\ find_free_slot(o) # {} BY <1>2, OrderFact DEF FreeOrders, Order
<1>4. find_free_slot(o) \subseteq Nat BY DEF find_free_slot
<1>5. i \in find_free_slot(o)
  BY ONLY <1>3, <1>4, i = Min(find_free_slot(o)), MinFact, Zenon
<1> QED BY <1>3, <1>5, Zenon DEF find_free_slot, n_of_entries

(* Two USED slots never lie on one path from the root. *)
LEMMA OneUsed ==
  ASSUME Rooted(slot), NEW x \in Addr, NEW j \in Order, NEW k \in Order,
         slot[NodeAt(j, x)] = "USED", slot[NodeAt(k, x)] = "USED"
  PROVE  j = k
<1>1. j \in Nat /\ k \in Nat BY OrderFact
<1>2. ~(j < k) BY DEF Rooted
<1>3. ~(k < j) BY DEF Rooted
<1> QED BY <1>1, <1>2, <1>3

(* A block starts at one address only. *)
LEMMA SameStart ==
  ASSUME NEW k \in Order, NEW x \in Addr, NEW y \in Addr,
         NodeAt(k, x) = NodeAt(k, y), x % 2^k = 0, y % 2^k = 0
  PROVE  x = y
<1> DEFINE d == 2^k
<1>1. d \in Nat \ {0} BY OrderFact
<1>2. x \in Nat /\ y \in Nat /\ x \div d = y \div d BY NodeAtFact
<1>3. x % d = 0 /\ y % d = 0 OBVIOUS
<1> HIDE DEF d
<1>4. x = d * (x \div d) + (x % d) BY <1>1, <1>2, Euclid
<1>5. y = d * (y \div d) + (y % d) BY <1>1, <1>2, Euclid
<1> QED BY <1>2, <1>3, <1>4, <1>5, Zenon

(* buddy_alloc splits a free block, in which nothing is USED, and takes its  *)
(* first part.                                                               *)
LEMMA AllocKeeps ==
  ASSUME BlocksInv, NEW bytes \in Requests, buddy_alloc(bytes)
  PROVE  \E ptr \in Addr, o \in Order, k \in Order :
           /\ k <= o /\ slot' = SplitDown(slot, ptr, o, k, "USED")
           /\ live' = live \cup {<<ptr, bytes>>} /\ bytes <= 2^k /\ ptr % 2^k = 0
           /\ \A j \in Order : slot[NodeAt(j, ptr)] # "USED"
           /\ slot' \in [Node -> SlotType] /\ Rooted(slot') /\ slot'[NodeAt(k, ptr)] = "USED"
           /\ \A n \in Node : slot[n] = "USED" => slot'[n] = "USED"
<1> DEFINE k == k_order(bytes)
           o == Min(FreeOrders(k))
           i == Min(find_free_slot(o))
           ptr == base_addr(<<o, i>>)
<1>1. /\ FreeOrders(k) # {}
      /\ slot' = SplitDown(slot, ptr, o, k, "USED") /\ live' = live \cup {<<ptr, bytes>>}
  BY Zenon DEF buddy_alloc
<1>2. k \in Order /\ bytes <= 2^k BY KOrderFact
<1> HIDE DEF k
<1>3. /\ o \in Order /\ k <= o /\ i \in 0..(2^(MaxOrder - o) - 1) /\ slot[<<o, i>>] = "UNUSED"
  BY <1>1, <1>2, FoundFact, Zenon
<1> HIDE DEF o, i
<1>4. ptr \in Addr /\ NodeAt(o, ptr) = <<o, i>> /\ ptr % 2^k = 0 BY <1>2, <1>3, BaseFact
<1> HIDE DEF ptr
<1>5. slot \in [Node -> SlotType] /\ Rooted(slot) BY DEF BlocksInv, TypeOK
<1>6. \A j \in Order : o < j => slot[NodeAt(j, ptr)] = "SPLIT" BY <1>3, <1>4, <1>5 DEF Rooted
<1>7. \A j \in Order : slot[NodeAt(j, ptr)] # "USED"
  <2> SUFFICES ASSUME NEW j \in Order PROVE slot[NodeAt(j, ptr)] # "USED" OBVIOUS
  <2>1. CASE o < j BY <1>6, <2>1
  <2>2. CASE j = o BY <1>3, <1>4, <2>2
  <2>3. CASE j < o BY <1>3, <1>4, <1>5, <2>3 DEF Rooted
  <2> QED BY <2>1, <2>2, <2>3, <1>3, OrderFact
<1>8. /\ slot' \in [Node -> SlotType] /\ Rooted(slot') /\ slot'[NodeAt(k, ptr)] = "USED"
      /\ \A n \in Node : slot[n] = "USED" => slot'[n] = "USED"
  <2>1. slot[NodeAt(o, ptr)] \in {"UNUSED", "EMPTY"} BY <1>3, <1>4
  <2> QED BY <1>1, <1>2, <1>3, <1>4, <1>5, <1>6, <2>1, SplitDownFact
<1> QED BY <1>1, <1>2, <1>3, <1>4, <1>7, <1>8, Zenon

(* buddy_alloc hands out a block in which nothing was USED. *)
LEMMA AllocStep ==
  ASSUME BlocksInv, NEW bytes \in Requests, buddy_alloc(bytes)
  PROVE  BlocksInv'
<1>1. /\ calls = <<>> /\ ~(cur_pos <= Len(reserved)) /\ UNCHANGED <<cur_pos, calls, reserved, halted>>
  <2>1. calls = <<>> /\ cur_pos > Len(reserved) BY DEF buddy_alloc, Ready
  <2>2. Len(reserved) \in Nat /\ cur_pos \in Nat BY ReservedAssumption DEF BlocksInv, TypeOK
  <2> QED BY <2>1, <2>2 DEF buddy_alloc
<1>2. PICK ptr \in Addr, o \in Order, k \in Order :
        /\ live' = live \cup {<<ptr, bytes>>} /\ bytes <= 2^k /\ ptr % 2^k = 0
        /\ \A j \in Order : slot[NodeAt(j, ptr)] # "USED"
        /\ slot' \in [Node -> SlotType] /\ Rooted(slot') /\ slot'[NodeAt(k, ptr)] = "USED"
        /\ \A n \in Node : slot[n] = "USED" => slot'[n] = "USED"
  BY AllocKeeps, Zenon
<1>3. \A a \in live : a[1] \in Addr BY DEF BlocksInv, TypeOK
<1>4. LiveUsed'
  <2>1. ASSUME NEW a \in live
        PROVE  \E j \in Order : slot'[NodeAt(j, a[1])] = "USED" /\ a[2] <= 2^j /\ a[1] % 2^j = 0
    <3>1. PICK j \in Order : slot[NodeAt(j, a[1])] = "USED" /\ a[2] <= 2^j /\ a[1] % 2^j = 0
      BY Zenon DEF BlocksInv, LiveUsed
    <3> QED BY <3>1, <1>2, <1>3, NodeAtFact, Zenon
  <2>2. ASSUME NEW a \in live PROVE a[1] # ptr
    BY <1>2, Zenon DEF BlocksInv, LiveUsed
  <2>3. \A a \in live, b \in live : a[1] = b[1] => a = b BY DEF BlocksInv, LiveUsed
  <2> QED BY <1>1, <1>2, <2>1, <2>2, <2>3 DEF LiveUsed, NodeAt
<1>5. ReservedHeld'
  <2> SUFFICES ASSUME NEW r \in 1..Len(reserved), r < cur_pos, Accepted(reserved[r]),
                      NEW x \in Bytes(reserved[r].base_addr, reserved[r].length)
               PROVE  Held(x)'
    BY <1>1, Zenon DEF ReservedHeld, Accepted
  <2>1. x \in Addr BY AcceptedFact DEF BlocksInv, TypeOK
  <2>2. Held(x) BY <1>1 DEF BlocksInv, ReservedHeld, Pending
  <2>3. PICK h \in Order : /\ slot[NodeAt(h, x)] = "USED"
                           /\ \A a \in live : NodeAt(h, a[1]) # NodeAt(h, x)
    BY <2>2, Zenon DEF Held
  <2>4. slot'[NodeAt(h, x)] = "USED" BY <2>1, <2>3, <1>2, NodeAtFact
  <2>5. NodeAt(h, ptr) # NodeAt(h, x) BY <2>3, <1>2
  <2>6. live' = live \cup {<<ptr, bytes>>} BY <1>2
  <2> QED BY <2>3, <2>4, <2>5, <2>6, SMTT(60) DEF Held, NodeAt
<1>6. TypeOK' BY <1>1, <1>2 DEF BlocksInv, TypeOK
<1>7. CallsFit' BY <1>1 DEF BlocksInv, CallsFit
<1> QED BY <1>1, <1>2, <1>4, <1>5, <1>6, <1>7, Zenon DEF BlocksInv

(* The search of buddy_free ends in the block that was handed out. *)
LEMMA SlotFound ==
  ASSUME BlocksInv, NEW a \in live, NEW k, k = find_slot_by_addr(a[1])
  PROVE  k \in Order /\ slot[NodeAt(k, a[1])] = "USED" /\ a[1] % 2^k = 0 /\ a[1] \in Addr
<1> DEFINE S == {j \in Order : slot[NodeAt(j, a[1])] # "SPLIT"}
<1>1. PICK h \in Order : slot[NodeAt(h, a[1])] = "USED" /\ a[1] % 2^h = 0
  BY Zenon DEF BlocksInv, LiveUsed
<1>2. a[1] \in Addr BY DEF BlocksInv, TypeOK
<1>3. h \in S /\ S \subseteq Int /\ MaxOrder \in Int /\ \A j \in S : j <= MaxOrder
  <2>1. h \in S BY <1>1
  <2>2. \A j \in Order : j \in Int /\ j <= MaxOrder BY OrderFact
  <2>3. \A j \in S : j \in Order OBVIOUS
  <2> HIDE DEF S
  <2> QED BY <2>1, <2>2, <2>3, OrderFact, Zenon
<1>4. \A j \in S : j \in Order /\ slot[NodeAt(j, a[1])] # "SPLIT" OBVIOUS
<1>5. k = Max(S) BY DEF find_slot_by_addr
<1>6. k \in S /\ h <= k
  <2> HIDE DEF S
  <2> QED BY ONLY <1>3, <1>5, MaxFact, Zenon
<1>7. k \in Order /\ slot[NodeAt(k, a[1])] # "SPLIT" BY <1>4, <1>6
<1>8. ~(h < k) BY <1>1, <1>2, <1>7 DEF BlocksInv, Rooted
<1>9. h = k BY <1>6, <1>7, <1>8, OrderFact
<1> QED BY <1>1, <1>2, <1>9, Zenon

(* The merge goes up to the first buddy that is not free. *)
LEMMA MergeOrderFact ==
  ASSUME NEW x, NEW k \in Order, NEW m, m = MergeOrder(x, k)
  PROVE  /\ m \in Order /\ k <= m
         /\ \A j \in k..(m - 1) : slot[goto_sibling(NodeAt(j, x))] \in {"UNUSED", "EMPTY"}
         /\ m < MaxOrder => slot[goto_sibling(NodeAt(m, x))] \notin {"UNUSED", "EMPTY"}
<1> DEFINE S == {n \in k..MaxOrder : \A j \in k..(n - 1) :
                   slot_type(slot[goto_sibling(NodeAt(j, x))]) = "UNUSED"}
<1>1. k \in Nat /\ k <= MaxOrder /\ MaxOrder \in Nat BY OrderFact
<1>2. k \in S BY <1>1
<1>3. \A n \in S : /\ n \in k..MaxOrder
                    /\ \A j \in k..(n - 1) : slot_type(slot[goto_sibling(NodeAt(j, x))]) = "UNUSED"
  BY Zenon
<1>4. \A n \in k..MaxOrder :
        (\A j \in k..(n - 1) : slot_type(slot[goto_sibling(NodeAt(j, x))]) = "UNUSED") => n \in S
  BY Zenon
<1>5. m = Max(S) BY DEF MergeOrder
<1> HIDE DEF S
<1>6. S \subseteq Int /\ MaxOrder \in Int /\ \A n \in S : n <= MaxOrder BY <1>1, <1>3
<1>7. m \in S /\ \A n \in S : n <= m BY ONLY <1>2, <1>5, <1>6, MaxFact, Zenon
<1>8. m \in k..MaxOrder
  BY <1>3, <1>7, Zenon
<1>9. \A j \in k..(m - 1) : slot_type(slot[goto_sibling(NodeAt(j, x))]) = "UNUSED"
  BY <1>3, <1>7, Zenon
<1>10. \A j \in k..(m - 1) : slot[goto_sibling(NodeAt(j, x))] \in {"UNUSED", "EMPTY"}
  BY <1>9, Zenon DEF slot_type
<1>11. m \in Order /\ k <= m BY <1>1, <1>8, OrderFact DEF Order
<1>12. ASSUME m < MaxOrder, slot[goto_sibling(NodeAt(m, x))] \in {"UNUSED", "EMPTY"} PROVE FALSE
  <2>1. slot_type(slot[goto_sibling(NodeAt(m, x))]) = "UNUSED" BY <1>12 DEF slot_type
  <2>2. m + 1 \in k..MaxOrder /\ ~(m + 1 <= m) /\ \A j \in k..((m + 1) - 1) : j = m \/ j \in k..(m - 1)
    BY <1>1, <1>8, <1>12
  <2>3. m + 1 \in S
    <3>1. \A j \in k..((m + 1) - 1) : slot_type(slot[goto_sibling(NodeAt(j, x))]) = "UNUSED"
      BY <1>9, <2>1, <2>2, Zenon
    <3> QED BY <1>4, <2>2, <3>1, Zenon
  <2> QED BY <1>7, <2>2, <2>3, Zenon
<1> QED BY <1>10, <1>11, <1>12, Zenon

(* buddy_free empties the block that was handed out and no other one. *)
LEMMA FreeStep ==
  ASSUME BlocksInv, NEW a \in live, buddy_free(a)
  PROVE  BlocksInv'
<1> DEFINE ptr == a[1]
           k == find_slot_by_addr(ptr)
           m == MergeOrder(ptr, k)
<1>1. CASE ~Freeable(ptr)
  <2>1. UNCHANGED <<slot, cur_pos, calls, live, reserved>> /\ halted' \in BOOLEAN
    BY <1>1, Zenon DEF buddy_free
  <2> QED BY <2>1, HaltStep, Zenon
<1>2. CASE Freeable(ptr)
  <2>1. /\ calls = <<>> /\ ~(cur_pos <= Len(reserved))
        /\ slot' = MergeUp(slot, ptr, k, m) /\ live' = live \ {a}
        /\ halted' \in BOOLEAN /\ UNCHANGED <<cur_pos, calls, reserved>>
    <3>1. calls = <<>> /\ cur_pos > Len(reserved) BY DEF buddy_free, Ready
    <3>2. Len(reserved) \in Nat /\ cur_pos \in Nat
      BY ReservedAssumption DEF BlocksInv, TypeOK
    <3> QED BY <1>2, <3>1, <3>2 DEF buddy_free
  <2>2. k \in Order /\ slot[NodeAt(k, ptr)] = "USED" /\ ptr % 2^k = 0 /\ ptr \in Addr
    BY SlotFound, Zenon
  <2> HIDE DEF k
  <2>3. /\ m \in Order /\ k <= m
        /\ \A j \in k..(m - 1) : slot[goto_sibling(NodeAt(j, ptr))] \in {"UNUSED", "EMPTY"}
    BY <2>2, MergeOrderFact
  <2> HIDE DEF m
  <2>4. slot \in [Node -> SlotType] /\ Rooted(slot) BY DEF BlocksInv, TypeOK
  <2>5. /\ slot' \in [Node -> SlotType] /\ Rooted(slot')
        /\ \A n \in Node : slot[n] = "USED" /\ n # NodeAt(k, ptr) => slot'[n] = "USED"
    BY <2>1, <2>2, <2>3, <2>4, MergeUpFact, Zenon
  <2>6. LiveUsed'
    <3>1. ASSUME NEW b \in live, b # a
          PROVE  \E j \in Order : slot'[NodeAt(j, b[1])] = "USED" /\ b[2] <= 2^j /\ b[1] % 2^j = 0
      <4>1. PICK j \in Order : slot[NodeAt(j, b[1])] = "USED" /\ b[2] <= 2^j /\ b[1] % 2^j = 0
        BY Zenon DEF BlocksInv, LiveUsed
      <4>2. b[1] \in Addr BY DEF BlocksInv, TypeOK
      <4>3. NodeAt(j, b[1]) # NodeAt(k, ptr)
        <5> SUFFICES ASSUME NodeAt(j, b[1]) = NodeAt(k, ptr) PROVE FALSE OBVIOUS
        <5>1. j = k BY DEF NodeAt
        <5>2. b[1] = ptr BY <5>1, <4>1, <4>2, <2>2, SameStart
        <5> QED BY <5>2, <3>1, Zenon DEF BlocksInv, LiveUsed
      <4>4. NodeAt(j, b[1]) \in Node BY <4>2, NodeAtFact
      <4> QED BY <4>1, <4>3, <4>4, <2>5, Zenon
    <3>2. \A b, c \in live : b[1] = c[1] => b = c BY DEF BlocksInv, LiveUsed
    <3> QED BY <2>1, <3>1, <3>2, Zenon DEF LiveUsed, NodeAt
  <2>7. ReservedHeld'
    <3> SUFFICES ASSUME NEW r \in 1..Len(reserved), r < cur_pos, Accepted(reserved[r]),
                        NEW x \in Bytes(reserved[r].base_addr, reserved[r].length)
                 PROVE  Held(x)'
      BY <2>1, Zenon DEF ReservedHeld, Accepted
    <3>1. x \in Addr BY AcceptedFact DEF BlocksInv, TypeOK
    <3>2. Held(x) BY <2>1 DEF BlocksInv, ReservedHeld, Pending
    <3>3. PICK h \in Order : /\ slot[NodeAt(h, x)] = "USED"
                             /\ \A b \in live : NodeAt(h, b[1]) # NodeAt(h, x)
      BY <3>2, Zenon DEF Held
    <3>4. NodeAt(h, x) # NodeAt(k, ptr)
      <4> SUFFICES ASSUME NodeAt(h, x) = NodeAt(k, ptr) PROVE FALSE OBVIOUS
      <4>1. h = k BY DEF NodeAt
      <4> QED BY <4>1, <3>3, Zenon
    <3>5. slot'[NodeAt(h, x)] = "USED" BY <3>1, <3>3, <3>4, <2>5, NodeAtFact
    <3> QED BY <3>3, <3>5, <2>1, Zenon DEF Held, NodeAt
  <2>8. TypeOK' BY <2>1, <2>5 DEF BlocksInv, TypeOK
  <2>9. CallsFit' BY <2>1 DEF BlocksInv, CallsFit
  <2> QED BY <2>1, <2>5, <2>6, <2>7, <2>8, <2>9, Zenon DEF BlocksInv
<1> QED BY <1>1, <1>2, Zenon

(* Every byte of a live allocation lies in the USED block it starts. *)
LEMMA BlockOfLive ==
  ASSUME BlocksInv, NEW a \in live
  PROVE  \E k \in Order :
           /\ slot[NodeAt(k, a[1])] = "USED" /\ a[1] % 2^k = 0 /\ a[1] \in Addr
           /\ \A z \in Bytes(a[1], a[2]) : z \in Addr /\ NodeAt(k, z) = NodeAt(k, a[1])
<1>1. PICK k \in Order : slot[NodeAt(k, a[1])] = "USED" /\ a[2] <= 2^k /\ a[1] % 2^k = 0
  BY Zenon DEF BlocksInv, LiveUsed
<1>2. a[1] \in Addr /\ a[2] \in Requests BY DEF BlocksInv, TypeOK
<1>3. a[1] \in Nat /\ a[2] \in Nat /\ 2^k \in Nat
  <2>1. a[1] \in Nat BY <1>2, NodeAtFact
  <2>2. \A n \in Requests : n \in Nat BY RequestAssumption, OrderFact
  <2> QED BY <1>2, <2>1, <2>2, OrderFact, Zenon
<1>4. ASSUME NEW z \in Bytes(a[1], a[2]) PROVE z \in Addr /\ NodeAt(k, z) = NodeAt(k, a[1])
  <2>1. z \in Nat /\ a[1] <= z /\ z < a[1] + 2^k BY <1>1, <1>3 DEF Bytes
  <2> QED BY <1>1, <1>2, <2>1, BlockFact, Zenon
<1> QED BY <1>1, <1>2, <1>4, Zenon
-----------------------------------------------------------------------------
(* The theorems *)

(* The header is a tree in which live allocations and reserved regions are   *)
(* different USED leaves.                                                    *)
LEMMA BlocksKept == Spec => []BlocksInv
<1>1. ASSUME BlocksInv, [Next]_vars PROVE BlocksInv'
  <2>1. CASE kmem_init
    <3>1. CASE PreAllocBug
      <4>1. UNCHANGED <<slot, cur_pos, calls, live, reserved>> /\ halted' \in BOOLEAN
        BY <3>1, Zenon DEF PreAllocBug
      <4> QED BY <1>1, <4>1, HaltStep, Zenon
    <3> QED
      BY <1>1, <2>1, <3>1, HandlerStep, BreakUpStep, DoneStep, OverlapStep, FitStep, Zenon DEF kmem_init
  <2>2. ASSUME NEW bytes \in Requests, buddy_alloc(bytes) PROVE BlocksInv'
    BY <1>1, <2>2, AllocStep, Zenon
  <2>3. ASSUME NEW bytes \in Requests, AllocBug(bytes) PROVE BlocksInv'
    <3>1. UNCHANGED <<slot, cur_pos, calls, live, reserved>> /\ halted' \in BOOLEAN
      BY <2>3, Zenon DEF AllocBug
    <3> QED BY <1>1, <3>1, HaltStep, Zenon
  <2>4. ASSUME NEW a \in live, buddy_free(a) PROVE BlocksInv'
    BY <1>1, <2>4, FreeStep, Zenon
  <2>5. CASE UNCHANGED vars
    <3>1. UNCHANGED <<slot, cur_pos, calls, live, reserved>> /\ halted' \in BOOLEAN
      BY <1>1, <2>5, Zenon DEF vars, BlocksInv, TypeOK
    <3> QED BY <1>1, <3>1, HaltStep
  <2> QED BY <1>1, <2>1, <2>2, <2>3, <2>4, <2>5, Zenon DEF Next, Halt
<1> QED BY <1>1, InitInv, PTL DEF Spec

(* The allocator's state keeps its type: the slots written by index are      *)
(* entries of the header array, the pointers handed out are content bytes.   *)
THEOREM TypeCorrect == Spec => []TypeOK
<1>1. BlocksInv => TypeOK BY DEF BlocksInv
<1> QED BY <1>1, BlocksKept, PTL

(* Every call buddy_pre_alloc makes to itself fits the content region, so    *)
(* its descent ends.                                                         *)
THEOREM CallsAlwaysFit == Spec => []CallsFit
<1>1. BlocksInv => CallsFit BY DEF BlocksInv
<1> QED BY <1>1, BlocksKept, PTL

(* Blocks of live allocations are different leaves, so their bytes differ. *)
LEMMA LiveApart == BlocksInv => LiveDisjoint
<1>1. ASSUME BlocksInv PROVE LiveDisjoint
  <2>1. ASSUME NEW a \in live
        PROVE  \E k \in Order : /\ slot[NodeAt(k, a[1])] = "USED" /\ a[1] % 2^k = 0 /\ a[1] \in Addr
                               /\ \A z \in Bytes(a[1], a[2]) : z \in Addr /\ NodeAt(k, z) = NodeAt(k, a[1])
    BY <1>1, BlockOfLive, Zenon
  <2>2. ASSUME NEW a \in live, NEW b \in live, NEW z \in Bytes(a[1], a[2]), z \in Bytes(b[1], b[2])
        PROVE  a = b
    <3>1. PICK j \in Order : /\ slot[NodeAt(j, a[1])] = "USED" /\ a[1] % 2^j = 0 /\ a[1] \in Addr
                             /\ z \in Addr /\ NodeAt(j, z) = NodeAt(j, a[1])
      BY <2>1, Zenon
    <3>2. PICK k \in Order : /\ slot[NodeAt(k, b[1])] = "USED" /\ b[1] % 2^k = 0 /\ b[1] \in Addr
                             /\ NodeAt(k, z) = NodeAt(k, b[1])
      BY <2>1, <2>2, Zenon
    <3>3. j = k BY <1>1, <3>1, <3>2, OneUsed DEF BlocksInv
    <3>4. a[1] = b[1] BY <3>1, <3>2, <3>3, SameStart
    <3> QED BY <1>1, <3>4, Zenon DEF BlocksInv, LiveUsed
  <2> QED BY <2>1, <2>2, Zenon DEF LiveDisjoint
<1> QED BY <1>1, Zenon

(* Blocks of live allocations and of reserved regions are different leaves. *)
LEMMA ReservedApart == BlocksInv => PreAllocatedKept
<1>1. ASSUME BlocksInv PROVE PreAllocatedKept
  <2> SUFFICES ASSUME NEW i \in 1..Len(reserved), Accepted(reserved[i]), NEW a \in live,
                      NEW z \in Bytes(a[1], a[2]),
                      z \in Bytes(reserved[i].base_addr, reserved[i].length)
               PROVE  FALSE
    BY Zenon DEF PreAllocatedKept
  <2>1. calls = <<>> /\ ~(cur_pos <= Len(reserved)) BY <1>1 DEF BlocksInv
  <2>2. i < cur_pos
    <3>1. Len(reserved) \in Nat /\ cur_pos \in Nat
      BY <1>1, ReservedAssumption DEF BlocksInv, TypeOK
    <3> QED BY <2>1, <3>1
  <2>3. Held(z) BY <1>1, <2>1, <2>2 DEF BlocksInv, ReservedHeld, Pending
  <2>4. PICK h \in Order : slot[NodeAt(h, z)] = "USED" /\ NodeAt(h, a[1]) # NodeAt(h, z)
    BY <2>3, Zenon DEF Held
  <2>5. PICK k \in Order : /\ slot[NodeAt(k, a[1])] = "USED"
                           /\ z \in Addr /\ NodeAt(k, z) = NodeAt(k, a[1])
    BY <1>1, BlockOfLive, Zenon
  <2>6. h = k BY <1>1, <2>4, <2>5, OneUsed DEF BlocksInv
  <2> QED BY <2>4, <2>5, <2>6, Zenon
<1> QED BY <1>1

(* What kmalloc hands out is the caller's alone: live allocations lie within *)
(* the content region and never overlap.                                     *)
THEOREM NoDoubleAlloc == Spec => []LiveDisjoint
BY BlocksKept, LiveApart, PTL

(* A reserved region that kmem_init accepted is never handed out.            *)
THEOREM ReservedNeverAllocated == Spec => []PreAllocatedKept
BY BlocksKept, ReservedApart, PTL

(* A buddy_alloc is an allocation of bytes that nobody has. *)
LEMMA AllocRefines ==
  ASSUME BlocksInv, BlocksInv', LiveDisjoint', PreAllocatedKept', NEW bytes \in Requests, buddy_alloc(bytes)
  PROVE  Kmem!Next \/ UNCHANGED <<live, KeepBytes, halted>>
<1>1. /\ ~halted /\ UNCHANGED <<reserved, halted>>
      /\ \E p : live' = live \cup {<<p, bytes>>}
  BY Zenon DEF buddy_alloc, Ready
<1>2. PICK p : live' = live \cup {<<p, bytes>>} BY <1>1
<1> DEFINE a == <<p, bytes>>
<1>3. KeepBytes' = KeepBytes BY <1>1 DEF KeepBytes, Accepted, Bytes
<1>4. a \in live' BY <1>2
<1>5. p \in Addr BY <1>4 DEF BlocksInv, TypeOK
<1>6. Bytes(a[1], a[2]) \subseteq Addr BY <1>4 DEF LiveDisjoint, Bytes, Addr, ContentLength
<1>7. Bytes(a[1], a[2]) \cap KeepBytes = {}
  BY <1>1, <1>4 DEF PreAllocatedKept, KeepBytes, Accepted, Bytes
<1>8. CASE a \in live
  <2>1. live' = live BY <1>2, <1>8
  <2> QED BY <2>1, <1>1, <1>3, Zenon
<1>9. CASE a \notin live
  <2>1. ASSUME NEW b \in live PROVE Bytes(a[1], a[2]) \cap Bytes(b[1], b[2]) = {}
    <3>1. b \in live' /\ b # a BY <1>2, <1>9
    <3> QED BY <1>4, <3>1, Zenon DEF LiveDisjoint, Bytes
  <2>2. Bytes(a[1], a[2]) \subseteq Addr \ (KeepBytes \cup Kmem!Taken)
    BY <1>6, <1>7, <2>1, Zenon DEF Kmem!Taken, Kmem!BytesOf, Bytes
  <2>3. Kmem!BytesOf(a) = Bytes(a[1], a[2]) BY DEF Kmem!BytesOf, Bytes
  <2>4. Kmem!Alloc(bytes) BY <1>1, <1>2, <1>3, <1>5, <2>2, <2>3 DEF Kmem!Alloc
  <2> QED BY <2>4, Zenon DEF Kmem!Next
<1> QED BY <1>8, <1>9, Zenon

(* The buddy tree implements the contract of kmalloc and kfree that module   *)
(* Allocator states, whatever the memory size, the requests and the map.     *)
THEOREM Refinement == Spec => KmallocContract
<1>1. Init => Kmem!Init
  <2> SUFFICES ASSUME Init PROVE Kmem!Init OBVIOUS
  <2>1. reserved \in ReservedMaps BY DEF Init
  <2>2. KeepBytes \subseteq Addr BY <2>1, AcceptedFact DEF KeepBytes
  <2> QED BY <2>2, Zenon DEF Init, Kmem!Init
<1>2. ASSUME BlocksInv, BlocksInv', LiveDisjoint', PreAllocatedKept', [Next]_vars
      PROVE  [Kmem!Next]_(Kmem!vars)
  <2>1. ASSUME reserved' = reserved PROVE KeepBytes' = KeepBytes
    BY <2>1, Zenon DEF KeepBytes, Accepted, Bytes
  <2>2. ASSUME UNCHANGED <<live, reserved>>, halted' = halted \/ (~halted /\ halted' = TRUE)
        PROVE  [Kmem!Next]_(Kmem!vars)
    BY <2>1, <2>2, Zenon DEF Kmem!Next, Kmem!Halt, Kmem!vars
  <2>3. CASE kmem_init
    BY <2>2, <2>3, Zenon DEF kmem_init, mem_proc_handler, PreAllocBreakUp, PreAllocDone,
      PreAllocOverlap, PreAllocFit, PreAllocBug, Booting
  <2>4. ASSUME NEW bytes \in Requests, buddy_alloc(bytes) PROVE [Kmem!Next]_(Kmem!vars)
    BY <1>2, <2>4, AllocRefines, Zenon DEF Kmem!vars
  <2>5. ASSUME NEW bytes \in Requests, AllocBug(bytes) PROVE [Kmem!Next]_(Kmem!vars)
    BY <2>2, <2>5, Zenon DEF AllocBug, Ready
  <2>6. ASSUME NEW a \in live, buddy_free(a) PROVE [Kmem!Next]_(Kmem!vars)
    <3>1. halted = FALSE BY <1>2, <2>6 DEF buddy_free, Ready, BlocksInv, TypeOK
    <3>2. CASE Freeable(a[1])
      <4>1. live' = live \ {a} /\ halted' = FALSE /\ reserved' = reserved
        BY <2>6, <3>2, Zenon DEF buddy_free
      <4>2. Kmem!Free(a) BY <2>1, <2>6, <3>1, <4>1, Zenon DEF Kmem!Free
      <4> QED BY <2>6, <4>2, Zenon DEF Kmem!Next
    <3>3. CASE ~Freeable(a[1])
      <4>1. UNCHANGED <<live, reserved>> /\ halted' = TRUE BY <2>6, <3>3, Zenon DEF buddy_free
      <4> QED BY <2>2, <3>1, <4>1, Zenon
    <3> QED BY <3>2, <3>3, Zenon
  <2>7. CASE UNCHANGED vars BY <2>2, <2>7 DEF vars
  <2> QED BY <1>2, <2>3, <2>4, <2>5, <2>6, <2>7, Zenon DEF Next, Halt
<1> QED BY <1>1, <1>2, BlocksKept, LiveApart, ReservedApart, PTL DEF Spec, Kmem!Spec, KmallocContract

(* A level of the header ends where the next one starts, and all levels    *)
(* before the last slot of the header: exponents of the sums are those of  *)
(* the orders that are left above.                                         *)
LEMMA LevelFact ==
  ASSUME NEW k \in Order
  PROVE  /\ goto_porder_idx(k) \in Nat
         /\ goto_porder_idx(k) + 2^(MaxOrder - k) = buddy_calc_header_space - 2^(MaxOrder - k)
         /\ 2^(MaxOrder - k) \in Nat \ {0} /\ buddy_calc_header_space \in Nat
<1> DEFINE a == MaxOrder - k
           b == MaxOrder - MinOrder + 1
<1>1. a \in 0..MaxOrder /\ a + 1 \in 0..(MaxOrder + 1) /\ b \in 0..(MaxOrder + 1) /\ a + 1 <= b
  BY OrderAssumption DEF Order
<1>2. 2^(a + 1) = 2^a * 2^1 /\ 2^a \in Nat \ {0} /\ 2^(a + 1) \in Nat \ {0} /\ 2^b \in Nat \ {0}
  <2>1. a \in 0..(MaxOrder + 1) /\ a <= a + 1 /\ (a + 1) - a = 1 BY <1>1, OrderAssumption
  <2>2. a + 1 \in 0..(MaxOrder + 1) /\ b \in 0..(MaxOrder + 1) BY <1>1
  <2> HIDE DEF a, b
  <2>3. 2^(a + 1) = 2^a * 2^((a + 1) - a) BY <2>1, <2>2, PowerAssumption, Zenon
  <2>4. 2^(a + 1) = 2^a * 2^1 BY <2>1, <2>3
  <2>5. 2^a \in Nat \ {0} /\ 2^(a + 1) \in Nat \ {0} /\ 2^b \in Nat \ {0} BY <2>1, <2>2, PowerAssumption
  <2> QED BY <2>4, <2>5, Zenon
<1>3. 2^(a + 1) <= 2^b
  <2>1. 2^b = 2^(a + 1) * 2^(b - (a + 1)) BY <1>1, PowerAssumption
  <2>2. b - (a + 1) \in 0..(MaxOrder + 1) BY <1>1, OrderAssumption
  <2>3. 2^(b - (a + 1)) \in Nat \ {0} BY <2>2, PowerAssumption
  <2> DEFINE c == 2^(a + 1)
             d == 2^(b - (a + 1))
  <2>4. c \in Nat /\ d \in Nat \ {0} /\ 2^b = c * d BY <1>2, <2>1, <2>3
  <2> HIDE DEF c, d
  <2>5. c <= c * d BY <2>4
  <2> QED BY <2>4, <2>5, Zenon DEF c
<1>4. MaxOrder - (MinOrder - 1) = b /\ MaxOrder - k + 1 = a + 1 /\ (MaxOrder - MinOrder) + 1 = b
  BY OrderAssumption DEF Order
<1>5. 2^1 = 2 BY PowerAssumption
<1>6. goto_porder_idx(k) = 2^b - 2^(a + 1) /\ buddy_calc_header_space = 2^b
  BY <1>4, Zenon DEF goto_porder_idx, buddy_calc_header_space
<1> HIDE DEF a, b
<1>7. goto_porder_idx(k) \in Nat /\ goto_porder_idx(k) + 2^a = buddy_calc_header_space - 2^a
  BY <1>2, <1>3, <1>5, <1>6
<1> QED BY <1>2, <1>6, <1>7, Zenon DEF a

(* The slots of a lower order lie before those of a higher one. *)
LEMMA LevelsApart ==
  ASSUME NEW j \in Order, NEW k \in Order, j < k
  PROVE  goto_porder_idx(j) + 2^(MaxOrder - j) <= goto_porder_idx(k)
<1> DEFINE a == MaxOrder - j
           b == MaxOrder - k
<1>1. b + 1 <= a /\ a \in 0..MaxOrder /\ b \in 0..MaxOrder /\ b + 1 \in 0..MaxOrder
  BY OrderAssumption DEF Order
<1>2. 2^(b + 1) = 2^b * 2 BY <1>1, DoubleFact
<1>3. 2^(b + 1) <= 2^a BY <1>1, PowerMonotonic
<1>4. /\ goto_porder_idx(j) \in Nat /\ goto_porder_idx(j) + 2^a = buddy_calc_header_space - 2^a
      /\ goto_porder_idx(k) \in Nat /\ goto_porder_idx(k) + 2^b = buddy_calc_header_space - 2^b
      /\ 2^a \in Nat /\ 2^b \in Nat /\ buddy_calc_header_space \in Nat
  BY LevelFact, Zenon
<1> HIDE DEF a, b
<1>5. goto_porder_idx(j) + 2^a <= goto_porder_idx(k) BY <1>2, <1>3, <1>4
<1> QED BY <1>5, Zenon DEF a

(* The slots of the header array lie apart and inside the header, whatever *)
(* the size of the memory and of the smallest block (goto_porder_idx,      *)
(* buddy_calc_header_space).                                               *)
THEOREM HeaderFits == Spec => []HeaderLayout
<1>1. ASSUME NEW n \in Node
      PROVE  Position(n) \in 0..(buddy_calc_header_space - 1)
  <2>1. n[1] \in Order /\ n[2] \in 0..(2^(MaxOrder - n[1]) - 1) BY NodeForm
  <2>2. /\ goto_porder_idx(n[1]) \in Nat /\ 2^(MaxOrder - n[1]) \in Nat \ {0} /\ buddy_calc_header_space \in Nat
        /\ goto_porder_idx(n[1]) + 2^(MaxOrder - n[1]) = buddy_calc_header_space - 2^(MaxOrder - n[1])
    BY <2>1, LevelFact, Zenon
  <2> QED BY <2>1, <2>2 DEF Position
<1>2. ASSUME NEW m \in Node, NEW n \in Node, Position(m) = Position(n), m[1] < n[1]
      PROVE  FALSE
  <2>1. /\ m[1] \in Order /\ m[2] \in 0..(2^(MaxOrder - m[1]) - 1)
        /\ n[1] \in Order /\ n[2] \in Nat
    BY NodeForm, Zenon
  <2>2. goto_porder_idx(m[1]) + 2^(MaxOrder - m[1]) <= goto_porder_idx(n[1]) BY <1>2, <2>1, LevelsApart
  <2>3. goto_porder_idx(m[1]) \in Nat /\ goto_porder_idx(n[1]) \in Nat /\ 2^(MaxOrder - m[1]) \in Nat
    BY <2>1, LevelFact, Zenon
  <2> QED BY <1>2, <2>1, <2>2, <2>3 DEF Position
<1>3. ASSUME NEW m \in Node, NEW n \in Node, Position(m) = Position(n)
      PROVE  m = n
  <2>1. /\ m = <<m[1], m[2]>> /\ m[1] \in Order /\ m[2] \in Nat
        /\ n = <<n[1], n[2]>> /\ n[1] \in Order /\ n[2] \in Nat
    BY NodeForm, Zenon
  <2>2. ~(m[1] < n[1]) /\ ~(n[1] < m[1]) BY <1>2, <1>3
  <2>3. m[1] = n[1] BY <2>1, <2>2, OrderFact
  <2>4. goto_porder_idx(n[1]) \in Nat BY <2>1, LevelFact
  <2>5. m[2] = n[2] BY <1>3, <2>1, <2>3, <2>4 DEF Position
  <2> QED BY <2>1, <2>3, <2>5, Zenon
<1>4. HeaderLayout BY <1>1, <1>3 DEF HeaderLayout, InUse
<1> QED BY <1>4, PTL
-----------------------------------------------------------------------------
(* The form of the tree *)

TreeInv == Filled(slot) /\ SplitInUse

(* USED slots that stay keep what is above them in use.                      *)
LEMMA UsedStays ==
  ASSUME NEW s, NEW r, \A n \in Node : s[n] = "USED" => r[n] = "USED",
         NEW k \in Order, NEW x \in Addr, UsedUnder(s, k, x)
  PROVE  UsedUnder(r, k, x)
<1>1. PICK y \in Addr, j \in Order : j < k /\ s[NodeAt(j, y)] = "USED" /\ NodeAt(k, y) = NodeAt(k, x)
  BY Zenon DEF UsedUnder
<1>2. NodeAt(j, y) \in Node BY NodeAtFact
<1> QED BY <1>1, <1>2, Zenon DEF UsedUnder

(* A USED slot is below the SPLIT slots of its path.                         *)
LEMMA UsedOnPath ==
  ASSUME NEW s, Rooted(s), NEW x \in Addr, NEW t \in Order, s[NodeAt(t, x)] = "USED",
         NEW k \in Order, NEW y \in Addr, NodeAt(k, y) = NodeAt(k, x), s[NodeAt(k, y)] = "SPLIT"
  PROVE  UsedUnder(s, k, y)
<1>1. k \in Nat /\ t \in Nat BY OrderFact
<1>2. k # t OBVIOUS
<1>3. ~(k < t) BY DEF Rooted
<1> QED BY <1>1, <1>2, <1>3 DEF UsedUnder

(* A step of buddy_pre_alloc keeps what SPLIT slots are for, when it splits  *)
(* only towards the base of the top call and either leaves a call with that  *)
(* base or has the base in a USED block.                                     *)
LEMMA SplitStep ==
  ASSUME BlocksInv, SplitInUse, calls # <<>>,
         \A n \in Node : slot[n] = "USED" => slot'[n] = "USED",
         \A y \in Addr, k \in Order :
           slot'[NodeAt(k, y)] = "SPLIT" => slot[NodeAt(k, y)] = "SPLIT" \/ NodeAt(k, y) = NodeAt(k, Base),
         \A c \in 2..Len(calls) : \E e \in 1..Len(calls') : calls'[e] = calls[c],
         \/ \E e \in 1..Len(calls') : calls'[e].base_addr = Base
         \/ Rooted(slot') /\ \E t \in Order : slot'[NodeAt(t, Base)] = "USED"
  PROVE  SplitInUse'
<1> SUFFICES ASSUME NEW x \in Addr, NEW k \in Order, slot'[NodeAt(k, x)] = "SPLIT"
             PROVE  \/ UsedUnder(slot', k, x)
                    \/ \E c \in 1..Len(calls') : NodeAt(k, calls'[c].base_addr) = NodeAt(k, x)
  BY ZenonT(60) DEF SplitInUse, NodeAt, Addr, ContentLength, UsedUnder
<1>1. Base \in Addr /\ Base = calls[1].base_addr /\ Len(calls) \in Nat
  BY TopFact, WithinFact DEF BlocksInv, Base, TypeOK
<1>2. CASE NodeAt(k, x) = NodeAt(k, Base)
  <2>1. CASE \E e \in 1..Len(calls') : calls'[e].base_addr = Base
    BY <1>2, <2>1, Zenon
  <2>2. CASE Rooted(slot') /\ \E t \in Order : slot'[NodeAt(t, Base)] = "USED"
    BY <1>1, <1>2, <2>2, UsedOnPath, Zenon
  <2> QED BY <2>1, <2>2, Zenon
<1>3. CASE NodeAt(k, x) # NodeAt(k, Base)
  <2>1. slot[NodeAt(k, x)] = "SPLIT" BY <1>3
  <2>2. CASE UsedUnder(slot, k, x)
    BY <2>2, UsedStays, Zenon
  <2>3. CASE \E c \in 1..Len(calls) : NodeAt(k, calls[c].base_addr) = NodeAt(k, x)
    <3>1. PICK c \in 1..Len(calls) : NodeAt(k, calls[c].base_addr) = NodeAt(k, x) BY <2>3
    <3>2. c # 1 BY <1>1, <1>3, <3>1
    <3>3. c \in 2..Len(calls) BY <1>1, <3>2
    <3>4. PICK e \in 1..Len(calls') : calls'[e] = calls[c] BY <3>3
    <3> QED BY <3>1, <3>4, Zenon
  <2> QED BY <2>1, <2>2, <2>3, Zenon DEF SplitInUse
<1> QED BY <1>2, <1>3, Zenon

(* The calls below the top one, and a call in its place, after it was cut.   *)
LEMMA CutCalls ==
  ASSUME BlocksInv, calls # <<>>, NEW c \in Region, NEW d \in Region, c.base_addr = Base,
         calls' = <<c, d>> \o Tail(calls)
  PROVE  /\ \A i \in 2..Len(calls) : \E e \in 1..Len(calls') : calls'[e] = calls[i]
         /\ \E e \in 1..Len(calls') : calls'[e].base_addr = Base
<1>1. calls \in Seq(Region) BY DEF BlocksInv, TypeOK
<1>2. /\ calls'[1] = c /\ 1 \in 1..Len(calls')
      /\ \A i \in 2..Len(calls) : calls'[i + 1] = calls[i] /\ i + 1 \in 1..Len(calls')
  BY <1>1, PushFact
<1> QED BY <1>2, Zenon

(* mem_proc_handler finds the stack of calls empty.                          *)
LEMMA HandlerTree == BlocksInv /\ TreeInv /\ mem_proc_handler => TreeInv'
<1> SUFFICES ASSUME BlocksInv, TreeInv, mem_proc_handler PROVE TreeInv' OBVIOUS
<1>1. slot' = slot /\ calls = <<>> BY DEF mem_proc_handler
<1>2. ~ \E c \in 1..Len(calls) : TRUE BY <1>1
<1> QED BY <1>1, <1>2, Zenon DEF TreeInv, SplitInUse, Filled

(* buddy_pre_alloc breaks a request up at a multiple of the smallest block.  *)
LEMMA BreakUpTree == BlocksInv /\ TreeInv /\ PreAllocBreakUp => TreeInv'
<1> SUFFICES ASSUME BlocksInv, TreeInv, PreAllocBreakUp PROVE TreeInv' OBVIOUS
<1>1. calls # <<>> /\ slot' = slot BY DEF PreAllocBreakUp, Booting
<1>2. Base \in Nat /\ Length \in Nat /\ Length > 0 /\ Mult(Length) BY <1>1, TopFact DEF BlocksInv
<1>3. PICK k \in Order : flp2(Length) = 2^k /\ 2^k <= Length BY <1>2, Flp2Fact
<1> DEFINE c == Call(Base, 2^k)
           d == Call(Base + 2^k, Length - 2^k)
<1>4. c \in Region /\ d \in Region /\ c.base_addr = Base
  <2>1. 2^k \in Nat BY OrderFact
  <2> QED BY <1>2, <1>3, <2>1 DEF Call, Region
<1>5. calls' = <<c, d>> \o Tail(calls) BY <1>3 DEF PreAllocBreakUp
<1> HIDE DEF c, d
<1>6. /\ \A i \in 2..Len(calls) : \E e \in 1..Len(calls') : calls'[e] = calls[i]
      /\ \E e \in 1..Len(calls') : calls'[e].base_addr = Base
  BY <1>1, <1>4, <1>5, CutCalls, Zenon
<1>7. SplitInUse' BY <1>1, <1>6, SplitStep DEF TreeInv
<1> QED BY <1>1, <1>7, Zenon DEF TreeInv, Filled

(* buddy_pre_alloc of a request inside a USED block.                         *)
LEMMA DoneTree == BlocksInv /\ TreeInv /\ PreAllocDone => TreeInv'
<1> SUFFICES ASSUME BlocksInv, TreeInv, PreAllocDone PROVE TreeInv' OBVIOUS
<1>1. /\ calls # <<>> /\ calls' = Tail(calls) /\ slot' = slot
      /\ Unsplit # {} /\ slot[NodeAt(Stop, Base)] = "USED"
  BY Zenon DEF PreAllocDone, OneBlock, Booting, InsideUsed
<1>2. Stop \in Order BY <1>1, StopFact DEF BlocksInv
<1>3. Rooted(slot') /\ \E t \in Order : slot'[NodeAt(t, Base)] = "USED"
  BY <1>1, <1>2, Zenon DEF BlocksInv
<1>4. \A c \in 2..Len(calls) : \E e \in 1..Len(calls') : calls'[e] = calls[c]
  BY <1>1, TailFact, Zenon DEF BlocksInv, TypeOK
<1>5. SplitInUse' BY <1>1, <1>3, <1>4, SplitStep DEF TreeInv
<1> QED BY <1>1, <1>5, Zenon DEF TreeInv, Filled

(* buddy_pre_alloc splits down to the two halves a request lies across; the  *)
(* first of its two calls starts where the request did.                      *)
LEMMA OverlapTree == BlocksInv /\ TreeInv /\ PreAllocOverlap => TreeInv'
<1> SUFFICES ASSUME BlocksInv, TreeInv, PreAllocOverlap PROVE TreeInv' OBVIOUS
<1>1. calls # <<>> /\ 2^Within > Length BY DEF PreAllocOverlap, OneBlock, Booting
<1>2. \A n \in Node : slot[n] = "USED" => slot'[n] = "USED"
  BY OverlapKeeps, Zenon
<1> DEFINE mid == base_addr(NodeAt(Within, Base)) + 2^(Within - 1)
           c == Call(Base, mid - Base)
           d == Call(mid, Base + Length - mid)
<1>3. Within - 1 \in Order /\ mid \in Nat /\ Base < mid /\ mid < Base + Length
  BY <1>1, MiddleFact, Zenon DEF BlocksInv
<1>4. Base \in Nat /\ Length \in Nat /\ Base \in Addr /\ Within \in Order
  BY <1>1, TopFact, WithinFact, Zenon DEF BlocksInv
<1>5. calls' = <<c, d>> \o Tail(calls) BY DEF PreAllocOverlap
<1> HIDE DEF mid
<1>6. c \in Region /\ d \in Region /\ c.base_addr = Base BY <1>3, <1>4 DEF Call, Region
<1> HIDE DEF c, d
<1>7. /\ \A i \in 2..Len(calls) : \E e \in 1..Len(calls') : calls'[e] = calls[i]
      /\ \E e \in 1..Len(calls') : calls'[e].base_addr = Base
  BY <1>1, <1>5, <1>6, CutCalls, Zenon
<1>8. /\ Filled(slot')
      /\ \A y \in Addr, k \in Order :
           slot'[NodeAt(k, y)] = "SPLIT" => slot[NodeAt(k, y)] = "SPLIT" \/ NodeAt(k, y) = NodeAt(k, Base)
  <2>1. CASE Unsplit = {}
    <3>1. slot' = slot BY <2>1 DEF PreAllocOverlap
    <3> QED BY <3>1, Zenon DEF TreeInv
  <2>2. CASE Unsplit # {}
    <3>1. PICK f, t : f = Stop /\ t = Within - 1 OBVIOUS
    <3>2. f \in Order /\ t \in Order /\ t <= f
      <4>1. Stop \in Order /\ Within <= Stop BY <1>1, <2>2, StopFact DEF BlocksInv
      <4>2. Stop \in Nat /\ Within \in Nat BY <1>4, <4>1, OrderFact
      <4> QED BY <1>3, <3>1, <4>1, <4>2
    <3>3. slot' = SplitDown(slot, Base, f, t, "UNUSED") BY <2>2, <3>1 DEF PreAllocOverlap
    <3>4. Filled(slot) /\ "UNUSED" \in {"UNUSED", "USED"} BY DEF TreeInv
    <3> QED BY <1>4, <3>2, <3>3, <3>4, SplitFills
  <2> QED BY <2>1, <2>2, Zenon
<1>9. SplitInUse' BY <1>1, <1>2, <1>7, <1>8, SplitStep DEF TreeInv
<1> QED BY <1>8, <1>9, Zenon DEF TreeInv

(* buddy_pre_alloc of exactly one free block.                                *)
LEMMA FitTree == BlocksInv /\ TreeInv /\ PreAllocFit => TreeInv'
<1> SUFFICES ASSUME BlocksInv, TreeInv, PreAllocFit PROVE TreeInv' OBVIOUS
<1>1. calls # <<>> /\ calls' = Tail(calls) /\ Unsplit # {}
  BY Zenon DEF PreAllocFit, OneBlock, Booting
<1>2. PICK f, t : f = Stop /\ t = Within OBVIOUS
<1>3. f \in Order /\ t \in Order /\ t <= f /\ Base \in Addr
  BY <1>1, <1>2, StopFact, WithinFact, Zenon DEF BlocksInv
<1>4. slot' = SplitDown(slot, Base, f, t, "USED") BY <1>2 DEF PreAllocFit
<1>5. Filled(slot) /\ "USED" \in {"UNUSED", "USED"} BY DEF TreeInv
<1>6. /\ Filled(slot')
      /\ \A y \in Addr, k \in Order :
           slot'[NodeAt(k, y)] = "SPLIT" => slot[NodeAt(k, y)] = "SPLIT" \/ NodeAt(k, y) = NodeAt(k, Base)
  BY <1>3, <1>4, <1>5, SplitFills
<1>7. /\ \A n \in Node : slot[n] = "USED" => slot'[n] = "USED"
      /\ Rooted(slot') /\ slot'[NodeAt(t, Base)] = "USED"
  BY <1>2, FitKeeps, Zenon
<1>8. \A c \in 2..Len(calls) : \E e \in 1..Len(calls') : calls'[e] = calls[c]
  BY <1>1, TailFact, Zenon DEF BlocksInv, TypeOK
<1>9. SplitInUse'
  <2>1. Rooted(slot') /\ \E h \in Order : slot'[NodeAt(h, Base)] = "USED" BY <1>3, <1>7
  <2> QED BY <1>1, <1>6, <1>7, <1>8, <2>1, SplitStep, Zenon DEF TreeInv
<1> QED BY <1>6, <1>9 DEF TreeInv

(* buddy_alloc splits towards a block that it takes into use.                *)
LEMMA AllocTree ==
  ASSUME BlocksInv, TreeInv, NEW bytes \in Requests, buddy_alloc(bytes)
  PROVE  TreeInv'
<1>1. PICK ptr \in Addr, o \in Order, k \in Order :
        /\ k <= o /\ slot' = SplitDown(slot, ptr, o, k, "USED")
        /\ Rooted(slot') /\ slot'[NodeAt(k, ptr)] = "USED"
        /\ \A n \in Node : slot[n] = "USED" => slot'[n] = "USED"
  BY AllocKeeps, Zenon
<1>2. calls = <<>> /\ calls' = calls BY DEF buddy_alloc, Ready
<1>3. Filled(slot) /\ "USED" \in {"UNUSED", "USED"} BY DEF TreeInv
<1>4. /\ Filled(slot')
      /\ \A y \in Addr, i \in Order :
           slot'[NodeAt(i, y)] = "SPLIT" => slot[NodeAt(i, y)] = "SPLIT" \/ NodeAt(i, y) = NodeAt(i, ptr)
  BY <1>1, <1>3, SplitFills
<1>5. ASSUME NEW y \in Addr, NEW i \in Order, slot'[NodeAt(i, y)] = "SPLIT"
      PROVE  UsedUnder(slot', i, y)
  <2>1. CASE NodeAt(i, y) = NodeAt(i, ptr)
    BY <1>1, <1>5, <2>1, UsedOnPath, Zenon
  <2>2. CASE NodeAt(i, y) # NodeAt(i, ptr)
    <3>1. UsedUnder(slot, i, y) BY <1>2, <1>4, <1>5, <2>2 DEF TreeInv, SplitInUse
    <3> QED BY <1>1, <3>1, UsedStays
  <2> QED BY <2>1, <2>2, Zenon
<1>6. SplitInUse' BY <1>5, Zenon DEF SplitInUse, NodeAt, Addr, ContentLength, UsedUnder
<1> QED BY <1>4, <1>6, Zenon DEF TreeInv

(* buddy_free merges as long as it can: a SPLIT slot above the block it      *)
(* empties has another USED one below, on the side of the buddy that was not *)
(* free.                                                                     *)
LEMMA MergeInUse ==
  ASSUME BlocksInv, TreeInv, calls = <<>>, NEW x \in Addr, NEW k \in Order, slot[NodeAt(k, x)] = "USED",
         NEW m, m = MergeOrder(x, k), slot' = MergeUp(slot, x, k, m),
         NEW y \in Addr, NEW i \in Order, slot'[NodeAt(i, y)] = "SPLIT"
  PROVE  UsedUnder(slot', i, y)
<1>1. /\ m \in Order /\ k <= m
      /\ \A j \in k..(m - 1) : slot[goto_sibling(NodeAt(j, x))] \in {"UNUSED", "EMPTY"}
      /\ m < MaxOrder => slot[goto_sibling(NodeAt(m, x))] \notin {"UNUSED", "EMPTY"}
  BY MergeOrderFact, Zenon
<1>2. slot \in [Node -> SlotType] /\ Rooted(slot) /\ Filled(slot) BY DEF BlocksInv, TypeOK, TreeInv
<1>3. \A n \in Node : slot[n] = "USED" /\ n # NodeAt(k, x) => slot'[n] = "USED"
  BY <1>1, <1>2, MergeUpFact, Zenon
<1>4. slot[NodeAt(i, y)] = "SPLIT" /\ (NodeAt(i, y) = NodeAt(i, x) => i \notin k..m)
  BY <1>1, <1>2, MergeFills, SMTT(60)
<1>5. \A j \in Order, z \in Addr : slot[NodeAt(j, z)] = "SPLIT" => UsedUnder(slot, j, z)
  BY DEF TreeInv, SplitInUse
<1>6. PICK z \in Addr, j \in Order : j < i /\ slot[NodeAt(j, z)] = "USED" /\ NodeAt(i, z) = NodeAt(i, y)
  BY <1>4, <1>5, Zenon DEF UsedUnder
<1>7. ASSUME NEW h \in Order
      PROVE  h \in Nat /\ h <= MaxOrder
  <2>1. h \in 0..MaxOrder /\ MaxOrder \in Nat BY OrderFact, Zenon
  <2> QED BY <2>1
<1>8. CASE NodeAt(j, z) # NodeAt(k, x)
  <2>1. NodeAt(j, z) \in Node BY NodeAtFact
  <2>2. slot'[NodeAt(j, z)] = "USED" BY <1>3, <1>6, <1>8, <2>1, Zenon
  <2> QED BY <1>6, <2>2, Zenon DEF UsedUnder
<1>9. CASE NodeAt(j, z) = NodeAt(k, x)
  <2>1. j = k BY <1>9, NodeAtFact
  <2>2. NodeAt(i, x) = NodeAt(i, y) BY <1>6, <1>7, <1>9, <2>1, Laminar
  <2>3. m < i /\ m < MaxOrder
    <3>1. i \notin k..m /\ k < i BY <1>4, <1>6, <2>1, <2>2
    <3>2. i \in Nat /\ i <= MaxOrder /\ m \in Nat /\ k \in Nat /\ MaxOrder \in Nat BY <1>1, <1>7, OrderFact
    <3> QED BY <3>1, <3>2
  <2>4. PICK w \in Addr : NodeAt(m, w) = goto_sibling(NodeAt(m, x)) /\ NodeAt(m, w) # NodeAt(m, x)
    BY <1>1, <2>3, SiblingFact, Zenon
  <2>5. NodeAt(i, w) = NodeAt(i, y) BY <1>1, <2>2, <2>3, <2>4, BuddyShares, SMTT(60)
  <2>6. slot[NodeAt(m, w)] \in {"SPLIT", "USED"}
    <3>1. NodeAt(m, w) \in Node BY <1>1, NodeAtFact
    <3>2. slot[NodeAt(m, w)] \in SlotType BY <1>2, <3>1
    <3>3. slot[NodeAt(m, w)] \notin {"UNUSED", "EMPTY"} BY <1>1, <2>3, <2>4
    <3> QED BY <3>2, <3>3, Zenon DEF SlotType
  <2>7. CASE slot[NodeAt(m, w)] = "USED"
    <3>1. NodeAt(m, w) # NodeAt(k, x)
      <4> SUFFICES ASSUME NodeAt(m, w) = NodeAt(k, x) PROVE FALSE OBVIOUS
      <4>1. m = k BY DEF NodeAt
      <4> QED BY <2>4, <4>1, Zenon
    <3>2. slot'[NodeAt(m, w)] = "USED" BY <1>1, <1>3, <2>7, <3>1, NodeAtFact, ZenonT(60)
    <3> QED BY <1>1, <2>3, <2>5, <3>2, Zenon DEF UsedUnder
  <2>8. CASE slot[NodeAt(m, w)] = "SPLIT"
    <3>1. PICK v \in Addr, h \in Order : h < m /\ slot[NodeAt(h, v)] = "USED" /\ NodeAt(m, v) = NodeAt(m, w)
      BY <1>1, <1>5, <2>8, Zenon DEF UsedUnder
    <3>2. NodeAt(h, v) # NodeAt(k, x)
      <4> SUFFICES ASSUME NodeAt(h, v) = NodeAt(k, x) PROVE FALSE OBVIOUS
      <4>1. h = k BY DEF NodeAt
      <4>2. NodeAt(m, v) = NodeAt(m, x) BY <1>1, <4>1, Laminar
      <4> QED BY <2>4, <3>1, <4>2, Zenon
    <3>3. slot'[NodeAt(h, v)] = "USED" BY <1>3, <3>1, <3>2, NodeAtFact, ZenonT(60)
    <3>4. NodeAt(i, v) = NodeAt(i, w) BY <1>1, <1>7, <2>3, <3>1, Laminar
    <3>5. h < i BY <1>1, <1>7, <2>3, <3>1
    <3> QED BY <2>5, <3>3, <3>4, <3>5, Zenon DEF UsedUnder
  <2> QED BY <2>6, <2>7, <2>8, Zenon
<1> QED BY <1>8, <1>9, Zenon

(* buddy_free leaves a tree of the same form.                                *)
LEMMA FreeTree ==
  ASSUME BlocksInv, TreeInv, NEW a \in live, buddy_free(a)
  PROVE  TreeInv'
<1> DEFINE ptr == a[1]
           k == find_slot_by_addr(ptr)
           m == MergeOrder(ptr, k)
<1>1. calls = <<>> /\ calls' = calls BY DEF buddy_free, Ready
<1>2. CASE ~Freeable(ptr)
  <2>1. slot' = slot BY <1>2 DEF buddy_free
  <2> QED BY <1>1, <2>1, Zenon DEF TreeInv, SplitInUse, Filled
<1>3. CASE Freeable(ptr)
  <2>1. slot' = MergeUp(slot, ptr, k, m) BY <1>3 DEF buddy_free
  <2>2. k \in Order /\ slot[NodeAt(k, ptr)] = "USED" /\ ptr \in Addr BY SlotFound
  <2> HIDE DEF k, ptr
  <2>3. m \in Order /\ k <= m BY <2>2, MergeOrderFact, SMTT(60)
  <2>4. \A y \in Addr, i \in Order : slot'[NodeAt(i, y)] = "SPLIT" => UsedUnder(slot', i, y)
    BY <1>1, <2>1, <2>2, MergeInUse, Zenon
  <2> HIDE DEF m
  <2>5. Filled(slot') BY <2>1, <2>2, <2>3, MergeFills DEF TreeInv
  <2>6. SplitInUse' BY <2>4, Zenon DEF SplitInUse, NodeAt, Addr, ContentLength, UsedUnder
  <2> QED BY <2>5, <2>6, Zenon DEF TreeInv
<1> QED BY <1>2, <1>3, Zenon

(* The steps of the allocator keep the form of the tree.                     *)
LEMMA TreeStep == BlocksInv /\ TreeInv /\ [Next]_vars => TreeInv'
<1> SUFFICES ASSUME BlocksInv, TreeInv, [Next]_vars PROVE TreeInv' OBVIOUS
<1>1. CASE slot' = slot /\ calls' = calls
  BY <1>1, Zenon DEF TreeInv, SplitInUse, Filled
<1>2. CASE kmem_init
  <2>1. CASE PreAllocBug BY <1>1, <2>1 DEF PreAllocBug
  <2> QED BY <1>2, <2>1, HandlerTree, BreakUpTree, DoneTree, OverlapTree, FitTree, Zenon DEF kmem_init
<1>3. ASSUME NEW bytes \in Requests, buddy_alloc(bytes) PROVE TreeInv'
  BY <1>3, AllocTree, Zenon
<1>4. ASSUME NEW bytes \in Requests, AllocBug(bytes) PROVE TreeInv'
  BY <1>1, <1>4, Zenon DEF AllocBug
<1>5. ASSUME NEW a \in live, buddy_free(a) PROVE TreeInv'
  BY <1>5, FreeTree, Zenon
<1>6. CASE UNCHANGED vars
  BY <1>1, <1>6, Zenon DEF vars
<1> QED BY <1>2, <1>3, <1>4, <1>5, <1>6, Zenon DEF Next, Halt

(* buddy_init leaves a root that is in use and nothing SPLIT.                *)
LEMMA InitTree == Init => TreeInv
<1> SUFFICES ASSUME Init PROVE TreeInv OBVIOUS
<1>1. ASSUME NEW x \in Addr, NEW k \in Order
      PROVE  slot[NodeAt(k, x)] = IF k = MaxOrder THEN "UNUSED" ELSE "EMPTY"
  BY NodeAtFact, Zenon DEF Init
<1>2. ASSUME NEW k \in Order, k < MaxOrder PROVE k + 1 \in Order
  BY <1>2, OrderFact DEF Order
<1> QED BY <1>1, <1>2, OrderFact, Zenon DEF TreeInv, Filled, SplitInUse

(* What lies in a block by its address is what is below its node.            *)
LEMMA BelowFact ==
  ASSUME NEW n \in Node, NEW m \in Node
  PROVE  /\ base_addr(n) \in Addr /\ base_addr(m) \in Addr
         /\ NodeAt(n[1], base_addr(n)) = n /\ NodeAt(m[1], base_addr(m)) = m
         /\ base_addr(m) \in Bytes(base_addr(n), 2^n[1]) <=> NodeAt(n[1], base_addr(m)) = n
<1>1. /\ n[1] \in Order /\ n[2] \in 0..(2^(MaxOrder - n[1]) - 1) /\ n = <<n[1], n[2]>> /\ n[2] \in Nat
      /\ m[1] \in Order /\ m[2] \in 0..(2^(MaxOrder - m[1]) - 1) /\ m = <<m[1], m[2]>>
  BY NodeForm, Zenon
<1>2. PICK k, i : k = n[1] /\ i = n[2] OBVIOUS
<1>3. PICK p, q : p = base_addr(n) /\ q = base_addr(m) OBVIOUS
<1>4. p \in Addr /\ NodeAt(k, p) = n /\ p % 2^k = 0
  <2>1. k \in Order /\ i \in 0..(2^(MaxOrder - k) - 1) /\ n = <<k, i>> /\ p = base_addr(<<k, i>>)
    BY <1>1, <1>2, <1>3, Zenon
  <2>2. k <= k BY <2>1, OrderFact
  <2> QED BY ONLY <2>1, <2>2, BaseFact, Zenon
<1>5. q \in Addr /\ NodeAt(m[1], q) = m
  <2>1. PICK j, h : j = m[1] /\ h = m[2] OBVIOUS
  <2>2. j \in Order /\ h \in 0..(2^(MaxOrder - j) - 1) /\ m = <<j, h>> /\ q = base_addr(<<j, h>>)
    BY <1>1, <1>3, <2>1, Zenon
  <2>3. q \in Addr /\ NodeAt(j, q) = m BY ONLY <2>2, BaseFact
  <2> QED BY <2>1, <2>3, Zenon
<1>6. k \in Order /\ i \in Nat /\ p = i * 2^k /\ n = <<k, i>> /\ p \in Nat /\ q \in Nat
  BY <1>1, <1>2, <1>3, <1>4, <1>5, NodeAtFact, Zenon DEF base_addr
<1>7. PICK d : d = 2^k /\ d \in Nat \ {0} BY <1>6, OrderFact
<1>8. ASSUME q \in Bytes(p, d) PROVE NodeAt(k, q) = n
  <2>1. p <= q /\ q < p + 2^k BY <1>6, <1>7, <1>8 DEF Bytes
  <2> QED BY <1>4, <1>6, <2>1, BlockFact, Zenon
<1>9. ASSUME NodeAt(k, q) = n PROVE q \in Bytes(p, d)
  <2>1. q \div d = i BY <1>6, <1>7, <1>9 DEF NodeAt
  <2>2. (q \div d) * d <= q /\ q < (q \div d) * d + d BY <1>6, <1>7, DivBounds
  <2>3. i * d <= q /\ q < i * d + d BY <2>1, <2>2
  <2>4. p = i * d BY <1>6, <1>7
  <2> QED BY <1>6, <1>7, <2>3, <2>4 DEF Bytes
<1> QED BY <1>2, <1>3, <1>4, <1>5, <1>7, <1>8, <1>9, Zenon

(* The two ways to say that there is a USED slot below.                      *)
LEMMA UsedBelowFact ==
  ASSUME NEW n \in Node, NEW k \in Order, NEW x \in Addr, n = NodeAt(k, x)
  PROVE  HasUsedBelow(n) <=> UsedUnder(slot, k, x)
<1>1. n[1] = k BY NodeAtFact
<1>2. ASSUME HasUsedBelow(n) PROVE UsedUnder(slot, k, x)
  <2>1. PICK m \in Node : /\ slot[m] = "USED" /\ m[1] < n[1]
                           /\ base_addr(m) \in Bytes(base_addr(n), 2^n[1])
    BY <1>2, Zenon DEF HasUsedBelow, Below
  <2>2. base_addr(m) \in Addr /\ NodeAt(k, base_addr(m)) = n /\ NodeAt(m[1], base_addr(m)) = m
    BY <1>1, <2>1, BelowFact
  <2>3. m[1] \in Order BY NodeForm
  <2> QED BY <1>1, <2>1, <2>2, <2>3, Zenon DEF UsedUnder
<1>3. ASSUME UsedUnder(slot, k, x) PROVE HasUsedBelow(n)
  <2>1. PICK y \in Addr, j \in Order : j < k /\ slot[NodeAt(j, y)] = "USED" /\ NodeAt(k, y) = NodeAt(k, x)
    BY <1>3, Zenon DEF UsedUnder
  <2>2. PICK m : m = NodeAt(j, y) OBVIOUS
  <2>3. m \in Node /\ m[1] = j BY <2>2, NodeAtFact
  <2>4. base_addr(m) \in Addr /\ NodeAt(j, base_addr(m)) = NodeAt(j, y) BY <2>2, <2>3, BelowFact
  <2>5. NodeAt(k, base_addr(m)) = n
    <3>1. j <= k BY <2>1, OrderFact
    <3>2. NodeAt(k, base_addr(m)) = NodeAt(k, y) BY ONLY <2>4, <3>1, j \in Order, k \in Order, y \in Addr, Laminar
    <3> QED BY <2>1, <3>2, Zenon
  <2>6. base_addr(m) \in Bytes(base_addr(n), 2^n[1]) BY <1>1, <2>3, <2>5, BelowFact
  <2> QED BY <1>1, <2>1, <2>2, <2>3, <2>6, Zenon DEF HasUsedBelow, Below
<1> QED BY <1>2, <1>3, Zenon

(* The parent of a node on a path is the next one on it.                     *)
LEMMA ParentFact ==
  ASSUME NEW k \in Order, NEW x \in Addr, k < MaxOrder
  PROVE  goto_parent(NodeAt(k, x)) = NodeAt(k + 1, x) /\ k + 1 \in Order
BY NextUp, NodeAtFact, Zenon DEF goto_parent, NodeAt

(* In a tree of this form nothing depends on the history.                    *)
LEMMA TreeCanonical == BlocksInv /\ TreeInv => Canonical
<1> SUFFICES ASSUME BlocksInv, TreeInv, calls = <<>>, NEW n \in Node
             PROVE  slot[n] = IF slot[n] = "USED" THEN "USED"
                              ELSE IF HasUsedBelow(n) THEN "SPLIT"
                              ELSE IF n[1] = MaxOrder \/ HasUsedBelow(goto_parent(n)) THEN "UNUSED"
                              ELSE "EMPTY"
  BY Zenon DEF Canonical
<1>1. PICK x \in Addr, k \in Order : n = NodeAt(k, x) BY OnPath
<1>2. n[1] = k /\ slot[n] \in SlotType /\ k \in Nat /\ k <= MaxOrder
  BY <1>1, NodeAtFact, OrderFact, SMTT(60) DEF BlocksInv, TypeOK
<1>3. Rooted(slot) /\ Filled(slot) BY DEF BlocksInv, TreeInv
<1>4. ASSUME NEW j \in Order PROVE UsedUnder(slot, j, x) <=> slot[NodeAt(j, x)] = "SPLIT"
  <2>1. slot[NodeAt(j, x)] = "SPLIT" => UsedUnder(slot, j, x) BY DEF TreeInv, SplitInUse
  <2>2. ASSUME UsedUnder(slot, j, x) PROVE slot[NodeAt(j, x)] = "SPLIT"
    <3>1. PICK y \in Addr, i \in Order : i < j /\ slot[NodeAt(i, y)] = "USED" /\ NodeAt(j, y) = NodeAt(j, x)
      BY <2>2, Zenon DEF UsedUnder
    <3>2. slot[NodeAt(j, y)] = "SPLIT" BY <1>3, <3>1 DEF Rooted
    <3> QED BY <3>1, <3>2, Zenon
  <2> QED BY <2>1, <2>2, Zenon
<1>5. HasUsedBelow(n) <=> slot[n] = "SPLIT" BY <1>1, <1>4, UsedBelowFact
<1>6. CASE k = MaxOrder
  <2>1. slot[n] # "EMPTY" BY <1>1, <1>3, <1>6 DEF Filled
  <2> QED BY <1>2, <1>5, <1>6, <2>1, Zenon DEF SlotType
<1>7. CASE k < MaxOrder
  <2>1. goto_parent(n) = NodeAt(k + 1, x) /\ k + 1 \in Order /\ NodeAt(k + 1, x) \in Node
    BY <1>1, <1>7, ParentFact, NodeAtFact, Zenon
  <2>2. HasUsedBelow(goto_parent(n)) <=> slot[NodeAt(k + 1, x)] = "SPLIT"
    <3>1. PICK j, p : j = k + 1 /\ p = NodeAt(k + 1, x) OBVIOUS
    <3>2. HasUsedBelow(p) <=> UsedUnder(slot, j, x) BY <2>1, <3>1, UsedBelowFact
    <3> QED BY <1>4, <2>1, <3>1, <3>2, Zenon
  <2>3. slot[NodeAt(k + 1, x)] = "SPLIT" <=> slot[n] # "EMPTY"
    <3>1. k < k + 1 BY <1>2
    <3> QED BY <1>1, <1>3, <1>7, <2>1, <3>1, Zenon DEF Filled, Rooted
  <2> QED BY <1>2, <1>5, <1>7, <2>2, <2>3 DEF SlotType
<1> QED BY <1>2, <1>6, <1>7, OrderFact

(* Where no block of order k or above is free, every block of that order     *)
(* holds a USED byte.                                                        *)
LEMMA FullFact ==
  ASSUME BlocksInv, TreeInv, calls = <<>>, NEW n \in Node, FreeOrders(n[1]) = {}
  PROVE  Bytes(base_addr(n), 2^n[1]) \cap UsedBytes # {}
<1>1. PICK k, x : k = n[1] /\ x = base_addr(n) OBVIOUS
<1>2. k \in Order /\ k \in Nat /\ MaxOrder \in Nat /\ k <= MaxOrder BY <1>1, NodeForm, OrderFact
<1>3. x \in Addr /\ n = NodeAt(k, x) /\ x \in Bytes(x, 2^k)
  BY <1>1, BelowFact, Zenon
<1>4. \A m \in Node : slot[m] = "USED" => Bytes(base_addr(m), 2^m[1]) \subseteq UsedBytes
  BY Zenon DEF UsedBytes
<1>5. ASSUME NEW j \in Order, slot[NodeAt(j, x)] = "USED" PROVE x \in UsedBytes
  <2>1. PICK m : m = NodeAt(j, x) OBVIOUS
  <2>2. m \in Node /\ m[1] = j BY <1>3, <2>1, NodeAtFact
  <2>3. x \in Bytes(base_addr(m), 2^m[1]) BY <1>1, <2>1, <2>2, BelowFact
  <2> QED BY <1>4, <1>5, <2>1, <2>2, <2>3, Zenon
<1>6. \A j \in Order : k <= j => slot[NodeAt(j, x)] # "UNUSED"
  <2> SUFFICES ASSUME NEW j \in Order, k <= j, slot[NodeAt(j, x)] = "UNUSED" PROVE FALSE OBVIOUS
  <2>1. PICK i : i = x \div 2^j OBVIOUS
  <2>2. NodeAt(j, x) = <<j, i>> /\ NodeAt(j, x) \in Node /\ NodeAt(j, x)[1] = j /\ NodeAt(j, x)[2] = i
    BY <1>3, <2>1, NodeAtFact, Zenon DEF NodeAt
  <2>3. i \in 0..(2^(MaxOrder - j) - 1) BY <2>2, NodeForm
  <2>4. i \in find_free_slot(j) BY <2>2, <2>3 DEF find_free_slot, n_of_entries
  <2>5. j \in k..MaxOrder BY <1>2, OrderFact
  <2> QED BY <1>1, <2>4, <2>5, Zenon DEF FreeOrders
<1>7. CASE slot[n] = "USED"
  BY <1>1, <1>2, <1>3, <1>5, <1>7, Zenon
<1>8. CASE slot[n] = "SPLIT"
  <2>1. UsedUnder(slot, k, x) BY <1>2, <1>3, <1>8 DEF TreeInv, SplitInUse
  <2>2. HasUsedBelow(n) BY <1>2, <1>3, <2>1, UsedBelowFact
  <2>3. PICK m \in Node : slot[m] = "USED" /\ base_addr(m) \in Bytes(base_addr(n), 2^n[1])
    BY <2>2, Zenon DEF HasUsedBelow, Below
  <2>4. base_addr(m) \in Bytes(base_addr(m), 2^m[1]) BY BelowFact
  <2> QED BY <1>4, <2>3, <2>4, Zenon
<1>9. CASE slot[n] = "EMPTY"
  <2> DEFINE S == {j \in Order : slot[NodeAt(j, x)] # "EMPTY"}
  <2>1. S \subseteq Nat /\ MaxOrder \in S BY <1>3, OrderFact, Zenon DEF TreeInv, Filled
  <2>2. PICK h \in S : \A j \in S : h <= j
    <3> HIDE DEF S
    <3> QED BY <2>1, MinFact, Zenon
  <2>3. h \in Order /\ slot[NodeAt(h, x)] # "EMPTY" /\ h \in Nat /\ h <= MaxOrder BY OrderFact
  <2>4. k < h
    <3>1. k # h BY <1>3, <1>9, <2>3
    <3>2. ~(h < k) BY <1>2, <1>3, <1>9, <2>3 DEF BlocksInv, Rooted
    <3> QED BY <1>2, <2>3, <3>1, <3>2
  <2>5. h - 1 \in Order /\ (h - 1) + 1 = h /\ h - 1 < MaxOrder /\ ~(h <= h - 1)
    BY <1>2, <2>3, <2>4, OrderAssumption DEF Order
  <2>6. slot[NodeAt(h - 1, x)] = "EMPTY" BY <2>2, <2>5
  <2>7. slot[NodeAt(h, x)] # "SPLIT" BY <1>3, <2>5, <2>6 DEF TreeInv, Filled
  <2>8. slot[NodeAt(h, x)] # "UNUSED" BY <1>2, <1>6, <2>3, <2>4
  <2>9. slot[NodeAt(h, x)] \in SlotType BY <1>3, <2>3, NodeAtFact DEF BlocksInv, TypeOK
  <2>10. slot[NodeAt(h, x)] = "USED" BY <2>3, <2>7, <2>8, <2>9 DEF SlotType
  <2> QED BY <1>1, <1>3, <1>5, <2>3, <2>10, Zenon
<1>10. slot[n] # "UNUSED" BY <1>2, <1>3, <1>6
<1>11. slot[n] \in SlotType BY DEF BlocksInv, TypeOK
<1> QED BY <1>7, <1>8, <1>9, <1>10, <1>11, Zenon DEF SlotType

(* buddy_free finds the slot of what was handed out, which is never byte 0.  *)
LEMMA AlwaysFreeable ==
  ASSUME BlocksInv, Ready, NEW a \in live
  PROVE  Freeable(a[1])
<1>1. slot[NodeAt(find_slot_by_addr(a[1]), a[1])] = "USED" BY SlotFound
<1>2. a[1] # 0
  <2> SUFFICES ASSUME a[1] = 0 PROVE FALSE OBVIOUS
  <2>1. PICK i \in 1..Len(reserved) : reserved[i].base_addr = 0 /\ reserved[i].length <= ContentLength
    BY FirstByteAssumption, Zenon DEF BlocksInv, TypeOK
  <2>2. reserved[i].length \in Nat /\ reserved[i].length > 0
    <3>1. reserved[i] \in Region /\ reserved[i].length > 0
      BY ReservedAssumption DEF BlocksInv, TypeOK
    <3> QED BY <3>1, Zenon DEF Region
  <2>3. Accepted(reserved[i]) /\ 0 \in Bytes(reserved[i].base_addr, reserved[i].length)
    BY <2>1, <2>2 DEF Accepted, Bytes
  <2>4. i < cur_pos
    <3>1. Len(reserved) \in Nat /\ cur_pos \in Nat BY ReservedAssumption DEF BlocksInv, TypeOK
    <3> QED BY <3>1 DEF Ready
  <2>5. Held(0)
    <3>1. ~Pending(0) BY DEF Ready, Pending
    <3> QED BY <2>3, <2>4, <3>1, Zenon DEF BlocksInv, ReservedHeld
  <2> QED BY <2>5, Zenon DEF Held
<1> QED BY <1>1, <1>2, Zenon DEF Freeable

(* The inductive invariant: the header is a tree in which live allocations   *)
(* and reserved regions are different USED leaves and in which nothing is    *)
(* SPLIT or in use without need, through every sequence of buddy_pre_alloc,  *)
(* buddy_alloc and buddy_free.                                               *)
THEOREM Invariance == Spec => []IInv
<1>1. Init => TreeInv BY InitTree
<1>2. BlocksInv /\ TreeInv /\ [Next]_vars => TreeInv' BY TreeStep
<1>3. BlocksInv /\ TreeInv => IInv BY DEF IInv, TreeInv
<1> QED BY <1>1, <1>2, <1>3, BlocksKept, PTL DEF Spec

(* Between two calls the header is determined by the USED blocks alone:      *)
(* buddies are always merged, and nothing is lost or stale.                  *)
THEOREM AlwaysCanonical == Spec => []Canonical
<1>1. IInv => Canonical BY TreeCanonical DEF IInv, TreeInv
<1> QED BY <1>1, Invariance, PTL

(* After kmem_init a buddy_alloc stops the kernel only when every block of   *)
(* the order of its own request holds a USED byte; buddy_free never does.    *)
THEOREM StopsOnlyWhenFull == Spec => HaltsOnlyWhenFull
<1>1. IInv /\ [Next]_vars =>
        [/\ \A bytes \in Requests : AllocBug(bytes) => Full(k_order(bytes))
         /\ \A a \in live : buddy_free(a) => ~halted']_vars
  <2> SUFFICES ASSUME IInv
               PROVE  /\ \A bytes \in Requests : AllocBug(bytes) => Full(k_order(bytes))
                      /\ \A a \in live : buddy_free(a) => ~halted'
    BY Zenon
  <2>1. BlocksInv /\ TreeInv BY DEF IInv, TreeInv
  <2>2. ASSUME NEW bytes \in Requests, AllocBug(bytes) PROVE Full(k_order(bytes))
    <3>1. Ready /\ calls = <<>> BY <2>2 DEF AllocBug, Ready
    <3> QED BY <2>1, <2>2, <3>1, FullFact, Zenon DEF AllocBug, Full
  <2>3. ASSUME NEW a \in live, buddy_free(a) PROVE ~halted'
    BY <2>1, <2>3, AlwaysFreeable, Zenon DEF buddy_free
  <2> QED BY <2>2, <2>3, Zenon
<1> QED BY <1>1, Invariance, PTL DEF Spec, HaltsOnlyWhenFull
==============================================================================
