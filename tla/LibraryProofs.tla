--------------------------- MODULE LibraryProofs ---------------------------
(***************************************************************************)
(* Two of the routines of MCLibrary, for all of their inputs.  qsort sorts *)
(* every array, whatever rand returns in shuffle, and the scans of         *)
(* partition stay inside their part of it.  cmos_read_rtc returns a moment *)
(* of the chip, from whichever moment the chip runs on.                    *)
(***************************************************************************)
EXTENDS Sort, SequenceTheorems, TLAPS

CONSTANTS Starts, MaxUpdates                                      \* Clock
VARIABLES time, mode, regs, uip, ripple, updates, ret, shown, unixtime    \* Clock, and pc

Rtc == INSTANCE Clock
-----------------------------------------------------------------------------
(* qsort *)

Index == 0..(num_elems - 1)

(* x is an index of the part of the array that the call c sorts *)
In(c, x) == c[1] <= x /\ x <= c[2]

(* the array, and the parts that the calls to be made are for *)
TypeOK ==
  /\ MaxLength \in Nat /\ Keys \subseteq Int
  /\ a \in Seq(Keys \X Nat)
  /\ calls \in Seq(Nat \X Int)
  /\ \A p \in DOMAIN calls : calls[p][2] < num_elems
  /\ i \in Nat /\ j \in Nat

(* a holds each of the elements that qsort was given once *)
SameElements == {a[x][2] : x \in DOMAIN a} = DOMAIN a

(* no two calls are for the same element *)
Disjoint ==
  \A p, q \in DOMAIN calls : \A x \in Index :
    In(calls[p], x) /\ In(calls[q], x) => p = q

(* two elements are in order, or one call is for both *)
InOrder ==
  \A x, y \in Index :
    x < y => Key(x) <= Key(y) \/ \E p \in DOMAIN calls : In(calls[p], x) /\ In(calls[p], y)

(* what partition has established of lo..hi: left of i nothing is above the  *)
(* pivot, from j on nothing is below it                                      *)
Partition ==
  /\ calls # <<>> /\ lo < hi
  /\ pc = "scan_i" =>
       /\ i \in lo..(hi - 1) /\ j \in (lo + 1)..(hi + 1)
       /\ \A k \in (lo + 1)..i : Key(k) <= Key(lo)
       /\ \A k \in j..hi : Key(lo) <= Key(k)
  /\ pc \in {"scan_j", "cross"} =>
       /\ i \in (lo + 1)..hi
       /\ \A k \in (lo + 1)..(i - 1) : Key(k) <= Key(lo)
       /\ Key(lo) <= Key(i) \/ i = hi
       /\ \A k \in (j + 1)..hi : Key(lo) <= Key(k)
  /\ pc = "scan_j" => j \in (lo + 1)..(hi + 1) /\ (j <= hi => Key(lo) <= Key(j))
  /\ pc = "cross" => j \in lo..hi /\ Key(j) <= Key(lo)

SortInv ==
  /\ TypeOK /\ SameElements
  /\ pc \in {"qsort", "shuffle", "sort", "scan_i", "scan_j", "cross", "done"}
  /\ pc = "qsort" => calls = <<>>
  /\ pc = "shuffle" => calls = <<>> /\ num_elems >= 2
  /\ pc = "done" => calls = <<>>
  /\ pc \notin {"qsort", "shuffle"} => Disjoint /\ InOrder
  /\ pc \in {"scan_i", "scan_j", "cross"} => Partition
-----------------------------------------------------------------------------
(* EXCH exchanges two elements of the array and leaves the others alone.     *)
LEMMA Exchange ==
  ASSUME TypeOK, SameElements, NEW x \in Index, NEW y \in Index, EXCH(x, y)
  PROVE  /\ a' \in Seq(Keys \X Nat) /\ Len(a') = Len(a) /\ SameElements'
         /\ \A k \in Index : Key(k)' = IF k = x THEN Key(y) ELSE IF k = y THEN Key(x) ELSE Key(k)
<1>1. /\ a \in [1..Len(a) -> Keys \X Nat] /\ Len(a) \in Nat
      /\ x + 1 \in 1..Len(a) /\ y + 1 \in 1..Len(a) /\ DOMAIN a = 1..Len(a)
  BY DEF TypeOK, Index, num_elems
<1>2. a' = [k \in 1..Len(a) |-> IF k = y + 1 THEN a[x + 1] ELSE IF k = x + 1 THEN a[y + 1] ELSE a[k]]
  BY <1>1, Zenon DEF EXCH
<1>3. a' \in Seq(Keys \X Nat) /\ Len(a') = Len(a) /\ DOMAIN a' = DOMAIN a
  BY <1>1, <1>2
<1>4. \A k \in Index : Key(k)' = IF k = x THEN Key(y) ELSE IF k = y THEN Key(x) ELSE Key(k)
  BY <1>1, <1>2 DEF Index, num_elems, Key
<1>5. \A e : (\E k \in DOMAIN a : e = a[k][2]) <=> (\E k \in DOMAIN a' : e = a'[k][2])
  <2>1. ASSUME NEW e, NEW k \in DOMAIN a, e = a[k][2] PROVE \E m \in DOMAIN a' : e = a'[m][2]
    <3>1. CASE k = x + 1
      BY <1>1, <1>2, <1>3, <2>1, <3>1
    <3>2. CASE k = y + 1
      BY <1>1, <1>2, <1>3, <2>1, <3>2
    <3>3. CASE k # x + 1 /\ k # y + 1
      BY <1>1, <1>2, <1>3, <2>1, <3>3
    <3> QED
      BY <3>1, <3>2, <3>3
  <2>2. ASSUME NEW e, NEW k \in DOMAIN a', e = a'[k][2] PROVE \E m \in DOMAIN a : e = a[m][2]
    BY <1>1, <1>2, <1>3, <2>2
  <2> QED
    BY <2>1, <2>2
<1>6. {a[k][2] : k \in DOMAIN a} = {a'[k][2] : k \in DOMAIN a'}
  BY <1>5, Zenon
<1>7. SameElements'
  BY <1>3, <1>6, Zenon DEF SameElements
<1> QED
  BY <1>3, <1>4, <1>7

(* Keys can be compared, wherever in the array they are.                     *)
LEMMA KeysAreInt ==
  ASSUME TypeOK
  PROVE  \A k \in Index : k \in Int /\ Key(k) \in Int
<1> SUFFICES ASSUME NEW k \in Index PROVE k \in Int /\ Key(k) \in Int
  OBVIOUS
<1>1. a[k + 1] \in Keys \X Nat
  BY DEF TypeOK, Index, num_elems
<1>2. a[k + 1][1] \in Keys /\ Len(a) \in Nat
  BY <1>1 DEF TypeOK
<1>3. k \in Int
  BY <1>2 DEF Index, num_elems
<1>4. Keys \subseteq Int
  BY DEF TypeOK
<1> QED
  BY <1>2, <1>3, <1>4, Zenon DEF Key

(* An exchange inside the part that the last call is for leaves every two    *)
(* elements in order that no call is for: an element outside the part is in  *)
(* order with all of the part, since no other call is for any of it.         *)
LEMMA ExchangeInOrder ==
  ASSUME TypeOK, SameElements, Disjoint, InOrder, calls # <<>>,
         NEW x \in Index, NEW y \in Index, In(this_call, x), In(this_call, y), EXCH(x, y)
  PROVE  \A u, v \in Index :
           u < v => Key(u)' <= Key(v)' \/ \E p \in DOMAIN calls : In(calls[p], u) /\ In(calls[p], v)
<1> DEFINE n == Len(calls)
<1> SUFFICES ASSUME NEW u \in Index, NEW v \in Index, u < v,
                    ~ \E p \in DOMAIN calls : In(calls[p], u) /\ In(calls[p], v)
             PROVE  Key(u)' <= Key(v)'
  OBVIOUS
<1>1. n \in DOMAIN calls /\ this_call = calls[n] /\ calls[n][1] \in Int /\ calls[n][2] \in Int
  BY DEF TypeOK, this_call
<1>2. \A k \in Index : k \in Int /\ Key(k) \in Int
  BY KeysAreInt
<1>3. \A k \in Index : Key(k)' = IF k = x THEN Key(y) ELSE IF k = y THEN Key(x) ELSE Key(k)
  BY Exchange
<1>4. ~(In(calls[n], u) /\ In(calls[n], v))
  BY <1>1
<1>5. ASSUME NEW k \in Index, NEW m \in Index, k < m, In(calls[n], k), ~In(calls[n], m)
      PROVE  Key(k) <= Key(m)
  BY <1>1, <1>5 DEF InOrder, Disjoint
<1>6. ASSUME NEW k \in Index, NEW m \in Index, k < m, ~In(calls[n], k), In(calls[n], m)
      PROVE  Key(k) <= Key(m)
  BY <1>1, <1>6 DEF InOrder, Disjoint
<1>7. CASE In(calls[n], u)
  <2>1. PICK w \in Index : In(calls[n], w) /\ Key(u)' = Key(w)
    BY <1>1, <1>3, <1>7
  <2>2. ~In(calls[n], v) /\ w < v
    BY <1>1, <1>2, <1>4, <1>7, <2>1 DEF In
  <2>3. Key(v)' = Key(v)
    BY <1>1, <1>3, <2>2
  <2> QED
    BY <1>5, <2>1, <2>2, <2>3
<1>8. CASE In(calls[n], v)
  <2>1. PICK w \in Index : In(calls[n], w) /\ Key(v)' = Key(w)
    BY <1>1, <1>3, <1>8
  <2>2. ~In(calls[n], u) /\ u < w
    BY <1>1, <1>2, <1>4, <1>8, <2>1 DEF In
  <2>3. Key(u)' = Key(u)
    BY <1>1, <1>3, <2>2
  <2> QED
    BY <1>6, <2>1, <2>2, <2>3
<1>9. CASE ~In(calls[n], u) /\ ~In(calls[n], v)
  BY <1>1, <1>3, <1>9 DEF InOrder
<1> QED
  BY <1>7, <1>8, <1>9

(* Before qsort is called the array is the one it is given.                  *)
LEMMA InitInv == MaxLength \in Nat /\ Keys \subseteq Int /\ Init => SortInv
<1> SUFFICES ASSUME MaxLength \in Nat, Keys \subseteq Int, Init PROVE SortInv
  OBVIOUS
<1>1. PICK n \in 0..MaxLength : \E k \in [1..n -> Keys] : a = [x \in 1..n |-> <<k[x], x>>]
  BY DEF Init
<1>2. PICK k \in [1..n -> Keys] : a = [x \in 1..n |-> <<k[x], x>>]
  BY <1>1
<1>3. a \in Seq(Keys \X Nat) /\ DOMAIN a = 1..n
  BY <1>1, <1>2
<1>4. \A x \in DOMAIN a : a[x][2] = x
  BY <1>2, <1>3
<1>5. {a[x][2] : x \in DOMAIN a} = DOMAIN a
  BY <1>4, Zenon
<1> QED
  BY <1>3, <1>5 DEF SortInv, TypeOK, SameElements, Init

(* The part that the last call is for lies inside the array.                 *)
LEMMA LastCall ==
  ASSUME TypeOK, calls # <<>>
  PROVE  /\ lo \in Nat /\ hi \in Int /\ hi < num_elems /\ num_elems \in Nat
         /\ this_call = calls[Len(calls)] /\ Len(calls) \in DOMAIN calls
         /\ \A k \in lo..hi : k \in Index /\ In(this_call, k)
<1>1. Len(calls) \in DOMAIN calls /\ this_call = calls[Len(calls)]
  BY DEF TypeOK, this_call
<1>2. calls[Len(calls)] \in Nat \X Int /\ calls[Len(calls)][2] < num_elems
  BY <1>1 DEF TypeOK
<1> QED
  BY <1>1, <1>2 DEF TypeOK, lo, hi, this_call, num_elems, Index, In

(* What a step that changes neither the array nor the calls leaves alone.    *)
LEMMA Same ==
  ASSUME SortInv, UNCHANGED <<a, calls>>, i' \in Nat, j' \in Nat
  PROVE  /\ TypeOK' /\ SameElements' /\ (Disjoint => Disjoint') /\ (InOrder => InOrder')
         /\ lo' = lo /\ hi' = hi /\ num_elems' = num_elems
         /\ \A k : Key(k)' = Key(k)
BY DEF SortInv, TypeOK, SameElements, Disjoint, InOrder, Index, num_elems, Key, lo, hi, this_call

(* Shuffling keeps the elements, whatever the number that rand returns.      *)
LEMMA ShuffleInv == SortInv /\ shuffle => SortInv'
<1> SUFFICES ASSUME SortInv, shuffle PROVE SortInv'
  OBVIOUS
<1>1. num_elems \in Nat /\ num_elems >= 2 /\ i \in Index /\ calls = <<>>
  BY DEF SortInv, TypeOK, shuffle, Index, num_elems
<1>2. PICK rand \in 0..(num_elems - 2) : EXCH(i, (rand % (num_elems - 1)) + 1)
  BY DEF shuffle
<1>3. (rand % (num_elems - 1)) + 1 \in Index
  BY <1>1, <1>2 DEF Index
<1>4. a' \in Seq(Keys \X Nat) /\ Len(a') = Len(a) /\ SameElements'
  BY <1>1, <1>2, <1>3, Exchange DEF SortInv
<1> QED
  BY <1>1, <1>4 DEF SortInv, TypeOK, shuffle, num_elems

(* The first call of sort is for all of the array, in any order.             *)
LEMMA ShuffledInv == SortInv /\ shuffled => SortInv'
<1> SUFFICES ASSUME SortInv, shuffled PROVE SortInv'
  OBVIOUS
<1>1. num_elems \in Nat /\ num_elems >= 2
  BY DEF SortInv, TypeOK, shuffled, num_elems
<1>2. a' = a /\ j' = j /\ i' = 0 /\ pc' = "sort" /\ num_elems' = num_elems /\ Index' = Index
  BY DEF shuffled, num_elems, Index
<1>3. calls' = <<<<0, num_elems - 1>>>> /\ DOMAIN calls' = {1} /\ calls'[1] = <<0, num_elems - 1>>
  BY DEF shuffled
<1>4. TypeOK'
  BY <1>1, <1>2, <1>3 DEF SortInv, TypeOK, num_elems
<1>5. SameElements'
  BY <1>2 DEF SortInv, SameElements
<1>6. Disjoint'
  BY <1>3 DEF Disjoint
<1>7. \A x \in Index : In(calls'[1], x)
  BY <1>1, <1>3 DEF In, Index
<1>8. InOrder'
  BY <1>2, <1>3, <1>7 DEF InOrder, In
<1> QED
  BY <1>2, <1>4, <1>5, <1>6, <1>8 DEF SortInv

(* Taking the last call from the calls that are to be made.                  *)
LEMMA FrontFacts ==
  ASSUME NEW S, NEW s \in Seq(S), s # <<>>
  PROVE  /\ SubSeq(s, 1, Len(s) - 1) \in Seq(S) /\ Len(s) \in Nat \ {0} /\ Len(SubSeq(s, 1, Len(s) - 1)) = Len(s) - 1
         /\ DOMAIN s = 1..Len(s) /\ DOMAIN SubSeq(s, 1, Len(s) - 1) = 1..(Len(s) - 1)
         /\ \A p \in 1..(Len(s) - 1) : SubSeq(s, 1, Len(s) - 1)[p] = s[p]
OBVIOUS

(* Putting two calls after those that are to be made.                        *)
LEMMA TwoMore ==
  ASSUME NEW S, NEW s \in Seq(S), NEW z \in Seq(S), Len(z) = 2
  PROVE  /\ s \o z \in Seq(S) /\ DOMAIN (s \o z) = 1..(Len(s) + 2)
         /\ \A p \in 1..Len(s) : (s \o z)[p] = s[p]
         /\ (s \o z)[Len(s) + 1] = z[1] /\ (s \o z)[Len(s) + 2] = z[2]
<1> DEFINE t == s \o z
<1>1. /\ t \in Seq(S) /\ Len(t) = Len(s) + Len(z)
      /\ \A p \in 1..(Len(s) + Len(z)) : t[p] = IF p <= Len(s) THEN s[p] ELSE z[p - Len(s)]
  BY ConcatProperties, Zenon
<1> HIDE DEF t
<1>2. /\ DOMAIN t = 1..(Len(s) + 2)
      /\ \A p \in 1..Len(s) : t[p] = s[p]
      /\ t[Len(s) + 1] = z[1] /\ t[Len(s) + 2] = z[2]
  BY <1>1
<1> QED
  BY <1>1, <1>2, Zenon DEF t

(* A call for less than two elements has nothing to put in order.            *)
LEMMA ReturnInv == SortInv /\ sort_return => SortInv'
<1> SUFFICES ASSUME SortInv, sort_return PROVE SortInv'
  OBVIOUS
<1> DEFINE n == Len(calls)
<1>1. calls # <<>> /\ hi <= lo /\ a' = a /\ i' = i /\ j' = j /\ pc = "sort" /\ pc' = "sort"
  BY DEF sort_return
<1>2. /\ calls' \in Seq(Nat \X Int) /\ DOMAIN calls' = 1..(n - 1) /\ DOMAIN calls = 1..n /\ n \in Nat \ {0}
      /\ \A p \in 1..(n - 1) : p \in 1..n /\ calls'[p] = calls[p]
  <2>1. calls \in Seq(Nat \X Int) /\ calls' = other_calls
    BY DEF sort_return, SortInv, TypeOK
  <2>2. /\ other_calls \in Seq(Nat \X Int) /\ n \in Nat \ {0}
        /\ DOMAIN calls = 1..n /\ DOMAIN other_calls = 1..(n - 1)
        /\ \A p \in 1..(n - 1) : other_calls[p] = calls[p]
    BY <1>1, <2>1, FrontFacts, Zenon DEF other_calls
  <2>3. \A p \in 1..(n - 1) : p \in 1..n
    BY <2>2
  <2> QED
    BY <2>1, <2>2, <2>3, Zenon
<1>3. num_elems' = num_elems /\ Index' = Index /\ \A k : Key(k)' = Key(k)
  BY <1>1 DEF num_elems, Index, Key
<1>4. TypeOK' /\ SameElements'
  BY <1>1, <1>2, <1>3, Zenon DEF SortInv, TypeOK, SameElements
<1>5. Disjoint'
  <2>1. Disjoint
    BY <1>1 DEF SortInv
  <2> QED
    BY <1>2, <1>3, <2>1, Zenon DEF Disjoint, In
<1>6. ASSUME NEW x \in Index, NEW y \in Index, x < y PROVE ~(In(calls[n], x) /\ In(calls[n], y))
  <2>1. lo \in Nat /\ hi \in Int /\ lo = calls[n][1] /\ hi = calls[n][2] /\ x \in Int /\ y \in Int
    BY <1>1, LastCall DEF SortInv, lo, hi, this_call, Index
  <2> QED
    BY <1>1, <1>6, <2>1 DEF In
<1>7. InOrder'
  <2> SUFFICES ASSUME NEW x \in Index', NEW y \in Index', x < y, ~(Key(x)' <= Key(y)')
               PROVE  \E p \in DOMAIN calls' : In(calls'[p], x) /\ In(calls'[p], y)
    BY DEF InOrder
  <2>1. x \in Index /\ y \in Index /\ ~(Key(x) <= Key(y))
    BY <1>3
  <2>2. PICK p \in 1..n : In(calls[p], x) /\ In(calls[p], y)
    BY <1>1, <1>2, <2>1, Zenon DEF SortInv, InOrder
  <2>3. p # n
    BY <1>6, <2>1, <2>2
  <2>4. p \in 1..(n - 1)
    <3>1. n \in Nat
      BY <1>2
    <3> QED
      BY <2>2, <2>3, <3>1
  <2> QED
    BY <1>2, <2>2, <2>4, Zenon DEF In
<1> QED
  BY <1>1, <1>4, <1>5, <1>7 DEF SortInv

(* The steps of partition that only compare.                                 *)
LEMMA CompareInv == SortInv /\ (qsort \/ partition_start \/ qsort_return \/ scan_i \/ scan_j) => SortInv'
<1> USE DEF SortInv
<1>1. ASSUME SortInv, qsort PROVE SortInv'
  <2>1. i' \in Nat /\ j' \in Nat /\ UNCHANGED <<a, calls>>
    BY <1>1 DEF qsort, TypeOK
  <2>2. TypeOK' /\ SameElements' /\ num_elems' = num_elems /\ num_elems \in Nat
    BY <1>1, <2>1, Same DEF TypeOK, num_elems
  <2>3. calls = <<>> /\ calls' = <<>> /\ (pc' = "done" => num_elems < 2) /\ (pc' = "shuffle" => num_elems >= 2)
        /\ pc' \in {"done", "shuffle"}
    BY <1>1, <2>2 DEF qsort
  <2>4. pc' = "done" => Disjoint' /\ InOrder'
    BY <2>2, <2>3 DEF Disjoint, InOrder, Index
  <2> QED
    BY <2>2, <2>3, <2>4
<1>2. ASSUME SortInv, partition_start PROVE SortInv'
  <2>1. /\ lo \in Nat /\ hi \in Int /\ lo < hi /\ calls # <<>> /\ UNCHANGED <<a, calls>>
        /\ i' = lo /\ j' = hi + 1 /\ pc' = "scan_i" /\ pc = "sort"
    BY <1>2, LastCall DEF partition_start
  <2>2. TypeOK' /\ SameElements' /\ Disjoint' /\ InOrder' /\ lo' = lo /\ hi' = hi
    BY <1>2, <2>1, Same
  <2>3. Partition'
    BY <2>1, <2>2 DEF Partition
  <2> QED
    BY <2>1, <2>2, <2>3
<1>3. ASSUME SortInv, qsort_return PROVE SortInv'
  <2>1. TypeOK' /\ SameElements' /\ Disjoint' /\ InOrder'
    BY <1>3, Same DEF qsort_return, TypeOK
  <2> QED
    BY <1>3, <2>1 DEF qsort_return
<1>4. ASSUME SortInv, scan_i PROVE SortInv'
  <2>1. /\ lo \in Nat /\ hi \in Int /\ lo < hi /\ calls # <<>> /\ UNCHANGED <<a, calls, j>>
        /\ i \in lo..(hi - 1) /\ j \in (lo + 1)..(hi + 1) /\ i' = i + 1
        /\ \A k \in lo..hi : k \in Index
    BY <1>4, LastCall DEF scan_i, Partition
  <2>2. /\ TypeOK' /\ SameElements' /\ Disjoint' /\ InOrder' /\ lo' = lo /\ hi' = hi
        /\ \A k : Key(k)' = Key(k)
    BY <1>4, <2>1, Same DEF scan_i
  <2>3. Key(lo)' = Key(lo) /\ \A k \in lo..hi : Key(k) \in Int
    BY <1>4, <2>1, <2>2, KeysAreInt
  <2>4. /\ \A k \in (lo + 1)..i : Key(k) <= Key(lo)
        /\ \A k \in j..hi : Key(lo) <= Key(k)
    BY <1>4 DEF scan_i, Partition
  <2>5. CASE Key(i') < Key(lo) /\ i' # hi
    <3>1. pc' = "scan_i"
      BY <1>4, <2>5 DEF scan_i
    <3>2. /\ i' \in lo..(hi - 1) /\ j' \in (lo + 1)..(hi + 1)
          /\ \A k \in (lo + 1)..i' : Key(k) <= Key(lo)
      BY <2>1, <2>3, <2>4, <2>5
    <3>3. Partition'
      BY <2>1, <2>2, <2>3, <2>4, <3>1, <3>2 DEF Partition
    <3> QED
      BY <2>2, <3>1, <3>3
  <2>6. CASE ~(Key(i') < Key(lo) /\ i' # hi)
    <3>1. pc' = "scan_j"
      BY <1>4, <2>6 DEF scan_i
    <3>2. /\ i' \in (lo + 1)..hi /\ j' \in (lo + 1)..(hi + 1)
          /\ \A k \in (lo + 1)..(i' - 1) : Key(k) <= Key(lo)
          /\ Key(lo) <= Key(i') \/ i' = hi
          /\ \A k \in (j' + 1)..hi : Key(lo) <= Key(k)
          /\ j' <= hi => Key(lo) <= Key(j')
      BY <2>1, <2>3, <2>4, <2>6
    <3>3. Partition'
      BY <2>1, <2>2, <2>3, <3>1, <3>2 DEF Partition
    <3> QED
      BY <2>2, <3>1, <3>3
  <2> QED
    BY <2>5, <2>6
<1>5. ASSUME SortInv, scan_j PROVE SortInv'
  <2>1. /\ lo \in Nat /\ hi \in Int /\ lo < hi /\ calls # <<>> /\ UNCHANGED <<a, calls, i>>
        /\ i \in (lo + 1)..hi /\ j \in (lo + 1)..(hi + 1) /\ j' = j - 1
        /\ \A k \in lo..hi : k \in Index
    BY <1>5, LastCall DEF scan_j, Partition
  <2>2. /\ TypeOK' /\ SameElements' /\ Disjoint' /\ InOrder' /\ lo' = lo /\ hi' = hi
        /\ \A k : Key(k)' = Key(k)
    BY <1>5, <2>1, Same DEF scan_j
  <2>3. Key(lo)' = Key(lo) /\ \A k \in lo..hi : Key(k) \in Int
    BY <1>5, <2>1, <2>2, KeysAreInt
  <2>4. /\ \A k \in (lo + 1)..(i - 1) : Key(k) <= Key(lo)
        /\ Key(lo) <= Key(i) \/ i = hi
        /\ \A k \in (j + 1)..hi : Key(lo) <= Key(k)
        /\ j <= hi => Key(lo) <= Key(j)
    BY <1>5 DEF scan_j, Partition
  <2>5. j' \in lo..hi /\ \A k \in (j' + 1)..hi : Key(lo) <= Key(k)
    BY <2>1, <2>4
  <2>6. CASE Key(lo) < Key(j') /\ j' # lo
    <3>1. pc' = "scan_j"
      BY <1>5, <2>6 DEF scan_j
    <3>2. j' \in (lo + 1)..(hi + 1) /\ Key(lo) <= Key(j')
      BY <2>1, <2>3, <2>5, <2>6
    <3>3. Partition'
      BY <2>1, <2>2, <2>3, <2>4, <2>5, <3>1, <3>2 DEF Partition
    <3> QED
      BY <2>2, <3>1, <3>3
  <2>7. CASE ~(Key(lo) < Key(j') /\ j' # lo)
    <3>1. pc' = "cross"
      BY <1>5, <2>7 DEF scan_j
    <3>2. Key(j') <= Key(lo)
      BY <2>1, <2>3, <2>5, <2>7
    <3>3. Partition'
      BY <2>1, <2>2, <2>3, <2>4, <2>5, <3>1, <3>2 DEF Partition
    <3> QED
      BY <2>2, <3>1, <3>3
  <2> QED
    BY <2>6, <2>7
<1> QED
  BY <1>1, <1>2, <1>3, <1>4, <1>5

(* The exchange of partition: the element at i, which is not below the       *)
(* pivot, for the one at j, which is not above it.                           *)
LEMMA ExchangeInv == SortInv /\ partition_exchange => SortInv'
<1> SUFFICES ASSUME SortInv, partition_exchange PROVE SortInv'
  OBVIOUS
<1>1. /\ pc = "cross" /\ pc' = "scan_i" /\ i < j /\ EXCH(i, j) /\ UNCHANGED <<calls, i, j>>
      /\ Partition /\ TypeOK /\ SameElements /\ Disjoint /\ InOrder
  BY DEF SortInv, partition_exchange
<1>2. /\ calls # <<>> /\ lo < hi /\ i \in (lo + 1)..hi /\ j \in lo..hi
      /\ \A k \in (lo + 1)..(i - 1) : Key(k) <= Key(lo)
      /\ Key(lo) <= Key(i) \/ i = hi
      /\ \A k \in (j + 1)..hi : Key(lo) <= Key(k)
      /\ Key(j) <= Key(lo)
  BY <1>1 DEF Partition
<1>3. lo \in Nat /\ hi \in Int /\ \A k \in lo..hi : k \in Index /\ In(this_call, k)
  BY <1>1, <1>2, LastCall
<1>4. i \in lo..hi /\ j \in lo..hi /\ i # lo /\ j # lo /\ i # hi /\ lo \in lo..hi
  BY <1>1, <1>2, <1>3
<1>5. /\ a' \in Seq(Keys \X Nat) /\ Len(a') = Len(a) /\ SameElements'
      /\ \A k \in Index : Key(k)' = IF k = i THEN Key(j) ELSE IF k = j THEN Key(i) ELSE Key(k)
  BY <1>1, <1>3, <1>4, Exchange
<1>6. lo' = lo /\ hi' = hi /\ num_elems' = num_elems /\ Index' = Index
  BY <1>1, <1>5 DEF lo, hi, this_call, num_elems, Index
<1>7. TypeOK'
  BY <1>1, <1>5, <1>6 DEF TypeOK
<1>8. Disjoint'
  BY <1>1, <1>6 DEF Disjoint
<1>9. InOrder'
  <2>1. \A u, v \in Index :
           u < v => Key(u)' <= Key(v)' \/ \E p \in DOMAIN calls : In(calls[p], u) /\ In(calls[p], v)
    BY <1>1, <1>2, <1>3, <1>4, ExchangeInOrder
  <2> QED
    BY <1>1, <1>6, <2>1 DEF InOrder
<1>10. Partition'
  <2>1. /\ \A k \in lo..hi : k # i /\ k # j => Key(k)' = Key(k)
        /\ Key(i)' = Key(j) /\ Key(j)' = Key(i) /\ Key(lo)' = Key(lo)
    <3>1. Key(lo)' = a'[lo' + 1][1] /\ Key(i)' = a'[i' + 1][1] /\ Key(j)' = a'[j' + 1][1]
      BY DEF Key
    <3> QED
      BY <1>1, <1>3, <1>4, <1>5, <1>6, <3>1, Zenon DEF Key
  <2>2. \A k \in (lo + 1)..i : Key(k)' <= Key(lo)
    BY <1>1, <1>2, <1>3, <1>4, <2>1
  <2>3. \A k \in j..hi : Key(lo) <= Key(k)'
    BY <1>1, <1>2, <1>3, <1>4, <2>1
  <2>4. i \in lo..(hi - 1) /\ j \in (lo + 1)..(hi + 1)
    BY <1>2, <1>3, <1>4
  <2> QED
    BY <1>1, <1>2, <1>6, <2>1, <2>2, <2>3, <2>4 DEF Partition
<1> QED
  BY <1>1, <1>5, <1>7, <1>8, <1>9, <1>10 DEF SortInv

(* The end of partition: the pivot is put where it belongs, and what is left *)
(* to be sorted are the elements before it and the elements after it.        *)
LEMMA EndInv == SortInv /\ partition_end => SortInv'
<1> SUFFICES ASSUME SortInv, partition_end PROVE SortInv'
  OBVIOUS
<1> DEFINE n == Len(calls)
           right == <<j + 1, hi>>
           left == <<lo, j - 1>>
<1>1. /\ pc = "cross" /\ pc' = "sort" /\ i >= j /\ EXCH(lo, j) /\ i' = 0 /\ j' = 0
      /\ calls' = other_calls \o sort_halves
      /\ Partition /\ TypeOK /\ SameElements /\ Disjoint /\ InOrder
  BY DEF SortInv, partition_end
<1>2. /\ calls # <<>> /\ lo < hi /\ i \in (lo + 1)..hi /\ j \in lo..hi
      /\ \A k \in (lo + 1)..(i - 1) : Key(k) <= Key(lo)
      /\ \A k \in (j + 1)..hi : Key(lo) <= Key(k)
      /\ Key(j) <= Key(lo)
  BY <1>1 DEF Partition
<1>3. /\ lo \in Nat /\ hi \in Int /\ hi < num_elems /\ num_elems \in Nat
      /\ \A k \in lo..hi : k \in Index /\ In(this_call, k)
      /\ calls[n] = this_call
  BY <1>1, <1>2, LastCall
<1>4. lo \in lo..hi /\ j \in Nat
  BY <1>2, <1>3
<1>5. /\ a' \in Seq(Keys \X Nat) /\ Len(a') = Len(a) /\ SameElements'
      /\ \A k \in Index : Key(k)' = IF k = lo THEN Key(j) ELSE IF k = j THEN Key(lo) ELSE Key(k)
  BY <1>1, <1>2, <1>3, <1>4, Exchange
<1>6. num_elems' = num_elems /\ Index' = Index
  BY <1>5 DEF num_elems, Index
<1>7. /\ other_calls \in Seq(Nat \X Int) /\ n \in Nat \ {0} /\ Len(other_calls) = n - 1
      /\ DOMAIN calls = 1..n /\ \A p \in 1..(n - 1) : other_calls[p] = calls[p]
  <2>1. calls \in Seq(Nat \X Int)
    BY <1>1 DEF TypeOK
  <2> QED
    BY <1>2, <2>1, FrontFacts, Zenon DEF other_calls
<1>8. /\ calls' \in Seq(Nat \X Int) /\ DOMAIN calls' = 1..(IF j > 0 THEN n + 1 ELSE n)
      /\ \A p \in 1..(n - 1) : calls'[p] = calls[p]
      /\ calls'[n] = right /\ (j > 0 => calls'[n + 1] = left)
  <2>1. right \in Nat \X Int /\ left \in Nat \X Int
    BY <1>3, <1>4
  <2>2. CASE j > 0
    <3>1. calls' = other_calls \o (<<right>> \o <<left>>)
      BY <1>1, <2>2 DEF sort_halves
    <3>2. /\ calls' \in Seq(Nat \X Int) /\ DOMAIN calls' = 1..(Len(other_calls) + 2)
          /\ \A p \in 1..Len(other_calls) : calls'[p] = other_calls[p]
          /\ calls'[Len(other_calls) + 1] = right /\ calls'[Len(other_calls) + 2] = left
      <4> DEFINE z == <<right>> \o <<left>>
                 s == other_calls
      <4> HIDE DEF right, left
      <4>1. z \in Seq(Nat \X Int) /\ Len(z) = 2 /\ z[1] = right /\ z[2] = left
        BY <2>1
      <4> HIDE DEF z
      <4>2. calls' = s \o z /\ s \in Seq(Nat \X Int)
        BY <1>7, <3>1 DEF z
      <4> HIDE DEF s
      <4>3. /\ calls' \in Seq(Nat \X Int) /\ DOMAIN calls' = 1..(Len(s) + 2)
            /\ \A p \in 1..Len(s) : calls'[p] = s[p]
            /\ calls'[Len(s) + 1] = right /\ calls'[Len(s) + 2] = left
        <5> DEFINE S == Nat \X Int
        <5> HIDE DEF S
        <5>1. s \in Seq(S) /\ z \in Seq(S)
          BY <4>1, <4>2 DEF S
        <5>2. /\ s \o z \in Seq(S) /\ DOMAIN (s \o z) = 1..(Len(s) + 2)
              /\ \A p \in 1..Len(s) : (s \o z)[p] = s[p]
              /\ (s \o z)[Len(s) + 1] = z[1] /\ (s \o z)[Len(s) + 2] = z[2]
          BY <4>1, <5>1, TwoMore, Zenon
        <5> QED
          BY <4>1, <4>2, <5>2, Zenon DEF S
      <4> QED
        BY <4>3 DEF s
    <3>3. Len(other_calls) + 1 = n /\ Len(other_calls) + 2 = n + 1
      BY <1>7
    <3> QED
      BY <1>7, <2>2, <3>2, <3>3
  <2>3. CASE ~(j > 0)
    <3>1. calls' = other_calls \o <<right>>
      BY <1>1, <2>3 DEF sort_halves
    <3> QED
      BY <1>7, <2>1, <2>3, <3>1
  <2> QED
    BY <2>2, <2>3, Zenon
<1> HIDE DEF n
<1>9. ASSUME NEW p \in DOMAIN calls'
      PROVE  p \in Int /\ ((p \in 1..(n - 1) /\ p \in 1..n) \/ p = n \/ (p = n + 1 /\ j > 0))
  <2>1. n \in Nat /\ j \in Nat /\ p \in 1..(IF j > 0 THEN n + 1 ELSE n)
    BY <1>4, <1>7, <1>8, <1>9
  <2> QED
    BY <2>1
<1>10. TypeOK'
  <2>1. ASSUME NEW p \in DOMAIN calls' PROVE calls'[p][2] < num_elems
    <3>1. CASE p \in 1..(n - 1) /\ p \in 1..n
      BY <1>1, <1>7, <1>8, <3>1 DEF TypeOK
    <3>2. CASE p = n
      BY <1>3, <1>8, <3>2
    <3>3. CASE p = n + 1 /\ j > 0
      <4>1. calls'[p][2] = j - 1
        BY <1>8, <3>3
      <4> QED
        BY <1>2, <1>3, <1>4, <4>1
    <3> QED
      BY <1>9, <2>1, <3>1, <3>2, <3>3
  <2> QED
    BY <1>1, <1>5, <1>6, <1>8, <2>1, Zenon DEF TypeOK
(* an element of a new part is one of the part that was partitioned *)
<1>11. ASSUME NEW x \in Index
       PROVE  /\ x \in Int
              /\ In(right, x) <=> j + 1 <= x /\ x <= hi
              /\ In(left, x) <=> lo <= x /\ x <= j - 1
              /\ In(calls[n], x) <=> lo <= x /\ x <= hi
  BY <1>1, <1>3, KeysAreInt DEF In, lo, hi, this_call
<1>12. Disjoint'
  <2> SUFFICES ASSUME NEW p \in DOMAIN calls', NEW q \in DOMAIN calls', NEW x \in Index,
                      In(calls'[p], x), In(calls'[q], x)
               PROVE  p = q
    BY <1>6 DEF Disjoint
  <2>1. ASSUME NEW r \in DOMAIN calls', In(calls'[r], x), r \notin 1..(n - 1)
        PROVE  /\ In(calls[n], x)
               /\ r = n => x > j
               /\ r # n => r = n + 1 /\ x < j
    <3>1. r = n \/ (r = n + 1 /\ j > 0)
      BY <1>9, <2>1
    <3>2. CASE r = n
      <4>1. In(right, x)
        BY <1>8, <2>1, <3>2, Zenon
      <4> QED
        BY <1>2, <1>3, <1>4, <1>11, <3>2, <4>1
    <3>3. CASE r = n + 1 /\ j > 0
      <4>1. In(left, x)
        BY <1>8, <2>1, <3>3, Zenon
      <4> QED
        BY <1>2, <1>3, <1>4, <1>7, <1>11, <3>3, <4>1
    <3> QED
      BY <3>1, <3>2, <3>3
  <2>2. ASSUME NEW r \in 1..(n - 1), In(calls'[r], x) PROVE ~In(calls[n], x)
    <3>1. r \in 1..n /\ n \in 1..n /\ r # n
      BY <1>7, <2>2
    <3>2. calls'[r] = calls[r]
      BY <1>8, <2>2
    <3>3. In(calls[r], x)
      BY <2>2, <3>2
    <3> QED
      BY <1>1, <1>7, <3>1, <3>3 DEF Disjoint
  <2>3. CASE p \in 1..(n - 1) /\ q \in 1..(n - 1)
    <3>1. In(calls[p], x) /\ In(calls[q], x)
      BY <1>8, <2>3, Zenon
    <3>2. p \in 1..n /\ q \in 1..n
      BY <1>9, <1>7, <2>3
    <3> QED
      BY <1>1, <1>7, <3>1, <3>2 DEF Disjoint
  <2>4. CASE p \notin 1..(n - 1) /\ q \notin 1..(n - 1)
    BY <1>4, <1>11, <2>1, <2>4
  <2> QED
    BY <2>1, <2>2, <2>3, <2>4
<1>13. \A k \in Index : k \in Int /\ Key(k) \in Int /\ Key(k)' \in Int
  <2>1. \A k \in Index : k \in Int /\ Key(k) \in Int
    BY <1>1, KeysAreInt
  <2> QED
    BY <1>2, <1>3, <1>4, <1>5, <2>1
<1>14. /\ \A k \in lo..j : Key(k)' <= Key(lo)
       /\ \A k \in j..hi : Key(lo) <= Key(k)'
  <2>1. /\ lo \in Index /\ j \in Index /\ Key(lo) \in Int /\ Key(j) \in Int
        /\ \A k \in lo..hi : k \in Index
    BY <1>2, <1>3, <1>4, <1>13
  <2>3. ASSUME NEW k \in lo..j PROVE Key(k)' <= Key(lo)
    BY <1>1, <1>2, <1>3, <1>4, <1>5, <2>1
  <2>4. ASSUME NEW k \in j..hi PROVE Key(lo) <= Key(k)'
    BY <1>1, <1>2, <1>3, <1>4, <1>5, <2>1
  <2> QED
    BY <2>3, <2>4
<1>15. InOrder'
  <2> SUFFICES ASSUME NEW x \in Index, NEW y \in Index, x < y, ~(Key(x)' <= Key(y)')
               PROVE  \E p \in DOMAIN calls' : In(calls'[p], x) /\ In(calls'[p], y)
    BY <1>6 DEF InOrder
  <2>1. PICK p \in DOMAIN calls : In(calls[p], x) /\ In(calls[p], y)
    BY <1>1, <1>2, <1>3, <1>4, ExchangeInOrder
  <2>2. CASE p \in 1..(n - 1)
    <3>1. p \in DOMAIN calls'
      BY <1>7, <1>8, <2>2
    <3> QED
      BY <1>8, <2>1, <2>2, <3>1
  <2>3. CASE p = n
    <3>1. /\ x \in Int /\ y \in Int /\ lo <= x /\ x <= hi /\ lo <= y /\ y <= hi
          /\ Key(x)' \in Int /\ Key(y)' \in Int
      BY <1>11, <1>13, <2>1, <2>3
    <3>2. ~(x <= j /\ j <= y)
      <4>1. Key(lo) \in Int
        BY <1>3, <1>4, <1>13
      <4> QED
        BY <1>3, <1>4, <1>14, <3>1, <4>1
    <3>3. CASE y < j
      <4>1. j > 0 /\ n + 1 \in DOMAIN calls' /\ calls'[n + 1] = left
        BY <1>3, <1>4, <1>7, <1>8, <3>1, <3>3
      <4>2. In(left, x) /\ In(left, y)
        BY <1>3, <1>4, <1>11, <3>1, <3>3
      <4> QED
        BY <4>1, <4>2
    <3>4. CASE j < x
      <4>1. n \in DOMAIN calls' /\ calls'[n] = right
        BY <1>7, <1>8
      <4>2. In(right, x) /\ In(right, y)
        BY <1>3, <1>4, <1>11, <3>1, <3>4
      <4> QED
        BY <4>1, <4>2
    <3> QED
      BY <1>4, <3>1, <3>2, <3>3, <3>4
  <2> QED
    BY <1>7, <2>2, <2>3
<1> QED
  BY <1>1, <1>5, <1>10, <1>12, <1>15 DEF SortInv

(* Every step keeps SortInv.                                                 *)
LEMMA SortStep == SortInv /\ [Next]_vars => SortInv'
<1>1. SortInv /\ UNCHANGED vars => SortInv'
  BY DEF SortInv, TypeOK, SameElements, Disjoint, InOrder, Partition, Index, num_elems, Key, lo, hi, this_call, vars
<1> QED
  BY <1>1, ShuffleInv, ShuffledInv, ReturnInv, CompareInv, ExchangeInv, EndInv, SMTT(60) DEF Next

(* qsort sorts an array of any length, with any keys and whatever rand       *)
(* returns: when it is done the array holds the elements it held at first,   *)
(* and they are in the order of their keys.                                  *)
THEOREM AlwaysSorted ==
  ASSUME MaxLength \in Nat, Keys \subseteq Int
  PROVE  SortSpec => []Sorted
<1>1. Init => SortInv
  BY InitInv
<1>2. SortInv => Sorted
  <2> SUFFICES ASSUME SortInv, pc = "done" PROVE Sorted
    BY DEF Sorted
  <2>1. /\ a \in Seq(Keys \X Nat) /\ DOMAIN a = 1..Len(a) /\ Len(a) \in Nat
        /\ calls = <<>> /\ InOrder /\ SameElements
    BY DEF SortInv, TypeOK
  <2>2. ASSUME NEW x \in DOMAIN a, NEW y \in DOMAIN a, x < y PROVE a[x][1] <= a[y][1]
    <3>1. x - 1 \in Index /\ y - 1 \in Index /\ x - 1 < y - 1 /\ (x - 1) + 1 = x /\ (y - 1) + 1 = y
      BY <2>1, <2>2 DEF Index, num_elems
    <3>2. Key(x - 1) <= Key(y - 1)
      BY <2>1, <3>1 DEF InOrder
    <3> QED
      BY <3>1, <3>2 DEF Key
  <2> QED
    BY <2>1, <2>2 DEF Sorted, SameElements
<1> QED
  BY <1>1, <1>2, SortStep, PTL DEF SortSpec

(* The scans of partition never leave the part of the array that they are    *)
(* for, whatever the array and however long it is.                           *)
THEOREM ScansStayInside ==
  ASSUME MaxLength \in Nat, Keys \subseteq Int
  PROVE  SortSpec => []ScansInside
<1>1. Init => SortInv
  BY InitInv
<1>2. SortInv => ScansInside
  <2> SUFFICES ASSUME SortInv PROVE ScansInside
    OBVIOUS
  <2>1. ASSUME pc \in {"scan_i", "scan_j"} PROVE lo \in Nat /\ hi \in Int /\ Partition
    BY <2>1, LastCall DEF SortInv, Partition
  <2> QED
    BY <2>1 DEF ScansInside, Partition
<1> QED
  BY <1>1, <1>2, SortStep, PTL DEF SortSpec
-----------------------------------------------------------------------------
(* cmos_read_rtc *)

(* the numbers a chip can show, the days by the calendar *)
Moment(t) ==
  /\ t \in [Rtc!Field -> Nat]
  /\ t["second"] \in 0..59 /\ t["minute"] \in 0..59 /\ t["hour"] \in 0..23
  /\ t["month"] \in 1..12 /\ t["year"] \in 0..99
  /\ t["day"] \in 1..Rtc!DaysIn(t["month"], t["year"])

(* a chip that is set to a moment, and less than a minute of updates *)
ClockAssumption ==
  /\ MaxUpdates \in 0..59
  /\ \A s \in Starts : Moment(s.time) /\ s.bin \in BOOLEAN /\ s.fmt24 \in BOOLEAN

Names == {"second", "minute", "hour", "day", "month", "year"}

(* The registers that cmos_read_rtc reads, in the order of its reads.         *)
LEMMA FieldNames ==
  /\ Len(Rtc!Fields) = 6 /\ DOMAIN Rtc!Fields = 1..6 /\ Rtc!Field = Names
  /\ Rtc!Fields[1] = "second" /\ Rtc!Fields[2] = "minute" /\ Rtc!Fields[3] = "hour"
  /\ Rtc!Fields[4] = "day" /\ Rtc!Fields[5] = "month" /\ Rtc!Fields[6] = "year"
<1>1. /\ Len(Rtc!Fields) = 6 /\ DOMAIN Rtc!Fields = 1..6
      /\ Rtc!Fields[1] = "second" /\ Rtc!Fields[2] = "minute" /\ Rtc!Fields[3] = "hour"
      /\ Rtc!Fields[4] = "day" /\ Rtc!Fields[5] = "month" /\ Rtc!Fields[6] = "year"
  BY DEF Rtc!Fields
<1>2. \A g \in 1..6 : g = 1 \/ g = 2 \/ g = 3 \/ g = 4 \/ g = 5 \/ g = 6
  OBVIOUS
<1>3. 1 \in 1..6 /\ 2 \in 1..6 /\ 3 \in 1..6 /\ 4 \in 1..6 /\ 5 \in 1..6 /\ 6 \in 1..6
  OBVIOUS
<1>4. Rtc!Field = Names
  <2>1. Rtc!Field = {Rtc!Fields[g] : g \in 1..6}
    BY <1>1 DEF Rtc!Field
  <2>2. \A f : f \in Rtc!Field => f \in Names
    BY <1>1, <1>2, <2>1 DEF Names
  <2>3. \A f : f \in Names => f \in Rtc!Field
    BY <1>1, <1>3, <2>1 DEF Names
  <2> QED
    BY <2>2, <2>3
<1> QED
  BY <1>1, <1>4

(* BCD_TO_BIN undoes BCD, for the numbers a register holds.                  *)
LEMMA BCDInverse ==
  ASSUME NEW n \in 0..99
  PROVE  /\ Rtc!BCD(n) \in 0..153 /\ Rtc!BCD_TO_BIN(Rtc!BCD(n)) = n
         /\ Rtc!BCD(n) \div 16 = n \div 10
BY DEF Rtc!BCD, Rtc!BCD_TO_BIN

Digits(n, m) == IF m.bin THEN n ELSE Rtc!BCD(n)

(* Bytes that are equal stand for equal numbers.                             *)
LEMMA DigitsInjective ==
  ASSUME NEW m, NEW x \in 0..99, NEW y \in 0..99, Digits(x, m) = Digits(y, m)
  PROVE  x = y
BY BCDInverse DEF Digits

(* A moment is the six numbers of the registers, each of them below 100.     *)
LEMMA MomentFields ==
  ASSUME NEW t, Moment(t)
  PROVE  /\ DOMAIN t = Names /\ \A f \in Names : t[f] \in 0..99
         /\ t = [f \in Names |-> t[f]]
<1>1. t \in [Names -> Nat]
  BY FieldNames DEF Moment
<1>2. t["day"] \in 1..31
  BY DEF Moment, Rtc!DaysIn
<1>3. \A f \in Names : t[f] \in 0..99
  BY <1>2 DEF Moment, Names
<1> QED
  BY <1>1, <1>3

(* The bytes of a moment: each is the digits of its number, but for the hour *)
(* of a chip that counts twelve, which has the PM bit in the afternoon.      *)
LEMMA RawFields ==
  ASSUME NEW t, Moment(t), NEW m, m.bin \in BOOLEAN, m.fmt24 \in BOOLEAN
  PROVE  /\ DOMAIN Rtc!Raw(t, m) = Names
         /\ Rtc!Raw(t, m) = [f \in Names |-> Rtc!Raw(t, m)[f]]
         /\ \A f \in Names \ {"hour"} : Rtc!Raw(t, m)[f] = Digits(t[f], m)
         /\ Rtc!Raw(t, m)["second"] = Digits(t["second"], m)
         /\ m.fmt24 => Rtc!Raw(t, m)["hour"] = Digits(t["hour"], m)
         /\ ~m.fmt24 /\ t["hour"] % 12 # 0 /\ t["hour"] < 12 => Rtc!Raw(t, m)["hour"] = Digits(t["hour"], m)
         /\ ~m.fmt24 /\ t["hour"] % 12 # 0 /\ t["hour"] >= 12
              => Rtc!Raw(t, m)["hour"] = Digits(t["hour"] - 12, m) + 128
<1>0. t["hour"] \in 0..23
  BY DEF Moment
<1>1. DOMAIN Rtc!Raw(t, m) = Names /\ Rtc!Raw(t, m) = [f \in Names |-> Rtc!Raw(t, m)[f]]
  BY FieldNames DEF Rtc!Raw
<1>2. \A f \in Names \ {"hour"} : Rtc!Raw(t, m)[f] = Digits(t[f], m)
  BY FieldNames DEF Rtc!Raw, Digits
<1>3. Rtc!Raw(t, m)["second"] = Digits(t["second"], m)
  BY <1>2 DEF Names
<1>4. "hour" \in Rtc!Field
  BY FieldNames DEF Names
<1>5. m.fmt24 => Rtc!Raw(t, m)["hour"] = Digits(t["hour"], m)
  BY <1>4 DEF Rtc!Raw, Digits
<1>6. ASSUME ~m.fmt24, t["hour"] % 12 # 0
      PROVE  Rtc!Raw(t, m)["hour"] = Digits(t["hour"] % 12, m) + (IF t["hour"] >= 12 THEN 128 ELSE 0)
  BY <1>4, <1>6 DEF Rtc!Raw, Digits
<1>7. /\ t["hour"] < 12 => t["hour"] % 12 = t["hour"]
      /\ t["hour"] >= 12 => t["hour"] % 12 = t["hour"] - 12
  BY <1>0
<1>8. \A n \in 0..99 : Digits(n, m) + 0 = Digits(n, m)
  <2> TAKE n \in 0..99
  <2>1. Rtc!BCD(n) \in Int /\ n \in Int
    BY DEF Rtc!BCD
  <2>2. Digits(n, m) \in Int
    BY <2>1 DEF Digits
  <2> QED
    BY <2>2
<1>9. ~m.fmt24 /\ t["hour"] % 12 # 0 /\ t["hour"] < 12 => Rtc!Raw(t, m)["hour"] = Digits(t["hour"], m)
  BY <1>0, <1>6, <1>7, <1>8
<1>10. ~m.fmt24 /\ t["hour"] % 12 # 0 /\ t["hour"] >= 12
         => Rtc!Raw(t, m)["hour"] = Digits(t["hour"] - 12, m) + 128
  BY <1>0, <1>6, <1>7
<1> QED
  BY <1>1, <1>2, <1>3, <1>5, <1>9, <1>10

(* convert gives the moment back that the registers stand for, but for the   *)
(* hours that it misreads.                                                   *)
LEMMA ConvertsBack ==
  ASSUME NEW t, Moment(t), NEW m, m.bin \in BOOLEAN, m.fmt24 \in BOOLEAN, ~Rtc!Misread(t, m)
  PROVE  Rtc!convert(Rtc!Raw(t, m), m) = t
<1> DEFINE r == Rtc!Raw(t, m)
           b == [f \in Rtc!Field |-> IF m.bin THEN r[f]
                                     ELSE IF f = "hour" THEN Rtc!bcd_hour(r[f]) ELSE Rtc!BCD_TO_BIN(r[f])]
<1>1. /\ r = [f \in Names |-> r[f]]
      /\ \A f \in Names \ {"hour"} : r[f] = Digits(t[f], m)
  BY RawFields
<1>2. \A f \in Names : t[f] \in 0..99
  BY MomentFields
<1>3. t["hour"] \in 0..23 /\ "hour" \in Names
  BY DEF Moment, Names
<1>4. \A f \in Names \ {"hour"} : b[f] = t[f]
  <2>1. \A f \in Names \ {"hour"} : b[f] = IF m.bin THEN Digits(t[f], m) ELSE Rtc!BCD_TO_BIN(Digits(t[f], m))
    <3> HIDE DEF r
    <3> QED
      BY <1>1, FieldNames
  <2> HIDE DEF b
  <2> QED
    BY <1>2, <2>1, BCDInverse DEF Digits
<1>5. b["hour"] = IF m.bin THEN r["hour"] ELSE Rtc!bcd_hour(r["hour"])
  BY <1>3, FieldNames
<1>6. Rtc!convert(r, m) = IF ~m.fmt24 /\ b["hour"] >= 128 THEN [b EXCEPT !["hour"] = (b["hour"] - 128 + 12) % 24] ELSE b
  BY DEF Rtc!convert
<1>7. DOMAIN b = Names /\ b = [f \in Names |-> b[f]]
  BY FieldNames
<1>8. t = [f \in Names |-> t[f]]
  BY MomentFields
<1>9. CASE m.fmt24 \/ t["hour"] < 12
  <2>1. r["hour"] = Digits(t["hour"], m)
    BY <1>3, <1>9, RawFields DEF Rtc!Misread
  <2> HIDE DEF r, b
  <2>2. b["hour"] = t["hour"]
    <3>1. Rtc!BCD(t["hour"]) \in 0..127 /\ Rtc!BCD_TO_BIN(Rtc!BCD(t["hour"])) = t["hour"]
      BY <1>3 DEF Rtc!BCD, Rtc!BCD_TO_BIN
    <3> QED
      BY <1>3, <1>5, <2>1, <3>1 DEF Digits, Rtc!bcd_hour
  <2>3. Rtc!convert(r, m) = b
    BY <1>3, <1>6, <2>2
  <2>4. \A f \in Names : b[f] = t[f]
    BY <1>4, <2>2
  <2>5. b = t
    BY <1>7, <1>8, <2>4
  <2> QED
    BY <2>3, <2>5 DEF r
<1>10. CASE ~m.fmt24 /\ t["hour"] >= 12
  <2>1. m.bin /\ t["hour"] % 12 # 0
    BY <1>10 DEF Rtc!Misread
  <2>2. r["hour"] = Digits(t["hour"] - 12, m) + 128
    <3>1. ~m.fmt24 /\ t["hour"] % 12 # 0 /\ t["hour"] >= 12
            => Rtc!Raw(t, m)["hour"] = Digits(t["hour"] - 12, m) + 128
      BY RawFields
    <3> QED
      BY <1>10, <2>1, <3>1
  <2> HIDE DEF r, b
  <2>3. b["hour"] = t["hour"] - 12 + 128
    BY <1>5, <2>1, <2>2 DEF Digits
  <2>4. Rtc!convert(r, m) = [b EXCEPT !["hour"] = (b["hour"] - 128 + 12) % 24]
    BY <1>3, <1>6, <1>10, <2>3
  <2>5. (b["hour"] - 128 + 12) % 24 = t["hour"]
    BY <1>3, <2>3
  <2>6. Rtc!convert(r, m) = [f \in Names |-> IF f = "hour" THEN t["hour"] ELSE b[f]]
    BY <1>7, <2>4, <2>5
  <2>7. \A f \in Names : (IF f = "hour" THEN t["hour"] ELSE b[f]) = t[f]
    BY <1>4
  <2>8. [f \in Names |-> IF f = "hour" THEN t["hour"] ELSE b[f]] = [f \in Names |-> t[f]]
    BY <2>7
  <2> QED
    BY <1>8, <2>6, <2>8 DEF r
<1> QED
  BY <1>3, <1>9, <1>10

(* The chip goes from moment to moment, and its seconds count modulo 60.     *)
LEMMA AfterMoment ==
  ASSUME NEW t, Moment(t)
  PROVE  Moment(Rtc!After(t)) /\ Rtc!After(t)["second"] = (t["second"] + 1) % 60
<1> DEFINE last == [second |-> 59, minute |-> 59, hour |-> 23, day |-> Rtc!DaysIn(t.month, t.year),
                    month |-> 12, year |-> 99]
           first == [f \in Rtc!Field |-> IF f \in {"day", "month"} THEN 1 ELSE 0]
           carry(g) == \A h \in 1..(g - 1) : t[Rtc!Fields[h]] = last[Rtc!Fields[h]]
           idx(f) == CHOOSE g \in DOMAIN Rtc!Fields : Rtc!Fields[g] = f
           new(f) == IF ~carry(idx(f)) THEN t[f] ELSE IF carry(idx(f) + 1) THEN first[f] ELSE t[f] + 1
           d == Rtc!DaysIn(t["month"], t["year"])
<1>1. Rtc!After(t) = [f \in Names |-> new(f)]
  BY FieldNames DEF Rtc!After
<1>2. /\ idx("second") = 1 /\ idx("minute") = 2 /\ idx("hour") = 3
      /\ idx("day") = 4 /\ idx("month") = 5 /\ idx("year") = 6
  <2>1. \A g \in 1..6 : g = 1 \/ g = 2 \/ g = 3 \/ g = 4 \/ g = 5 \/ g = 6
    OBVIOUS
  <2>2. 1 \in 1..6 /\ 2 \in 1..6 /\ 3 \in 1..6 /\ 4 \in 1..6 /\ 5 \in 1..6 /\ 6 \in 1..6
    OBVIOUS
  <2> QED
    BY <2>1, <2>2, FieldNames
<1>3. /\ first["second"] = 0 /\ first["minute"] = 0 /\ first["hour"] = 0
      /\ first["day"] = 1 /\ first["month"] = 1 /\ first["year"] = 0
  BY FieldNames DEF Names
<1>4. /\ last["second"] = 59 /\ last["minute"] = 59 /\ last["hour"] = 23
      /\ last["day"] = d /\ last["month"] = 12 /\ last["year"] = 99
  OBVIOUS
<1> HIDE DEF last, first, idx
<1>5. /\ carry(1)
      /\ carry(2) <=> t["second"] = 59
      /\ carry(3) <=> carry(2) /\ t["minute"] = 59
      /\ carry(4) <=> carry(3) /\ t["hour"] = 23
      /\ carry(5) <=> carry(4) /\ t["day"] = d
      /\ carry(6) <=> carry(5) /\ t["month"] = 12
      /\ carry(7) <=> carry(6) /\ t["year"] = 99
  <2>1. \A n \in 1..6 : carry(n + 1) <=> carry(n) /\ t[Rtc!Fields[n]] = last[Rtc!Fields[n]]
    OBVIOUS
  <2>2. carry(1)
    OBVIOUS
  <2>3. 1 + 1 = 2 /\ 2 + 1 = 3 /\ 3 + 1 = 4 /\ 4 + 1 = 5 /\ 5 + 1 = 6 /\ 6 + 1 = 7
    OBVIOUS
  <2>4. 1 \in 1..6 /\ 2 \in 1..6 /\ 3 \in 1..6 /\ 4 \in 1..6 /\ 5 \in 1..6 /\ 6 \in 1..6
    OBVIOUS
  <2> HIDE DEF carry
  <2> QED
    BY <1>4, <2>1, <2>2, <2>3, <2>4, FieldNames
<1> HIDE DEF carry, d
<1>6. /\ new("second") = IF t["second"] = 59 THEN 0 ELSE t["second"] + 1
      /\ new("minute") = IF ~carry(2) THEN t["minute"] ELSE IF carry(3) THEN 0 ELSE t["minute"] + 1
      /\ new("hour") = IF ~carry(3) THEN t["hour"] ELSE IF carry(4) THEN 0 ELSE t["hour"] + 1
      /\ new("day") = IF ~carry(4) THEN t["day"] ELSE IF carry(5) THEN 1 ELSE t["day"] + 1
      /\ new("month") = IF ~carry(5) THEN t["month"] ELSE IF carry(6) THEN 1 ELSE t["month"] + 1
      /\ new("year") = IF ~carry(6) THEN t["year"] ELSE IF carry(7) THEN 0 ELSE t["year"] + 1
  BY <1>2, <1>3, <1>5
<1>7. /\ t["second"] \in 0..59 /\ t["minute"] \in 0..59 /\ t["hour"] \in 0..23
      /\ t["month"] \in 1..12 /\ t["year"] \in 0..99 /\ t["day"] \in 1..d /\ d \in 28..31
  BY DEF Moment, Rtc!DaysIn, d
<1> HIDE DEF new
<1>8. /\ new("second") \in 0..59 /\ new("second") = (t["second"] + 1) % 60
      /\ new("minute") \in 0..59 /\ new("hour") \in 0..23
      /\ new("month") \in 1..12 /\ new("year") \in 0..99 /\ new("day") \in Nat
  BY <1>5, <1>6, <1>7
<1>9. new("day") \in 1..Rtc!DaysIn(new("month"), new("year"))
  <2>1. \A m, y : Rtc!DaysIn(m, y) \in 28..31
    BY DEF Rtc!DaysIn
  <2>2. CASE ~carry(5)
    <3>1. new("month") = t["month"] /\ new("year") = t["year"] /\ new("day") \in 1..d
      BY <1>5, <1>6, <1>7, <2>2
    <3> QED
      BY <3>1 DEF d
  <2>3. CASE carry(5)
    <3>1. new("day") = 1
      BY <1>5, <1>6, <2>3
    <3> QED
      BY <2>1, <3>1
  <2> QED
    BY <2>2, <2>3
<1>10. \A f \in Names : Rtc!After(t)[f] = new(f)
  BY <1>1
<1>11. /\ Rtc!After(t)["second"] = new("second") /\ Rtc!After(t)["minute"] = new("minute")
       /\ Rtc!After(t)["hour"] = new("hour") /\ Rtc!After(t)["day"] = new("day")
       /\ Rtc!After(t)["month"] = new("month") /\ Rtc!After(t)["year"] = new("year")
  BY <1>10 DEF Names
<1>12. \A f \in Names : new(f) \in Nat
  BY <1>8 DEF Names
<1>13. Rtc!After(t) \in [Rtc!Field -> Nat]
  BY <1>1, <1>12, FieldNames
<1> QED
  BY <1>8, <1>9, <1>11, <1>13 DEF Moment
-----------------------------------------------------------------------------
(* the moment that register i shows: an update has advanced the first ripple *)
Ahead(g) == uip /\ g <= ripple

ChipInv ==
  /\ Moment(time) /\ mode.bin \in BOOLEAN /\ mode.fmt24 \in BOOLEAN /\ uip \in BOOLEAN
  /\ ripple \in 0..6 /\ updates \in 0..MaxUpdates /\ (uip => updates >= 1)
  /\ DOMAIN regs = Names
  /\ \A g \in 1..6 : regs[Rtc!Fields[g]] = IF Ahead(g) THEN Rtc!Raw(Rtc!After(time), mode)[Rtc!Fields[g]]
                                       ELSE Rtc!Raw(time, mode)[Rtc!Fields[g]]

(* the step that follows the read of register n *)
Following(n) == IF n = 6 THEN "again" ELSE Rtc!Fields[n + 1]

(* how often the seconds may have been advanced since any earlier moment *)
Advances == IF uip /\ ripple = 0 THEN updates - 1 ELSE updates

Second == IF Ahead(1) THEN Rtc!After(time)["second"] ELSE time["second"]

(* Registers 1..n are read.  The seconds have gone on by k since they were;  *)
(* while k is 0, all that was read is of the moment the chip shows.          *)
ReadSince(n, k, s) ==
  /\ k <= Advances /\ ret["second"] = Digits(s, mode) /\ Second = (s + k) % 60
  /\ k = 0 => (uip => ripple = 0) /\ \A h \in 1..n : ret[Rtc!Fields[h]] = Rtc!Raw(time, mode)[Rtc!Fields[h]]

ReadInv == \A n \in 1..6 : pc = Following(n) => \E k \in Nat, s \in 0..59 : ReadSince(n, k, s)

ShownInv ==
  /\ \A t \in shown : Moment(t)
  /\ pc # "rtc_init" => time \in shown

ClockInv ==
  /\ ChipInv /\ ReadInv /\ ShownInv
  /\ DOMAIN ret = Names /\ ret = [f \in Names |-> ret[f]]
  /\ pc = "second" => (uip => ripple = 0)
  /\ pc = "convert" => \E t \in shown : ret = Rtc!Raw(t, mode)

(* The steps of the loop of cmos_read_rtc follow each other in the order of  *)
(* the registers.                                                            *)
LEMMA Followings ==
  /\ \A n \in 1..6 : Following(n) \notin {"rtc_init", "rtc_init_curr_time", "wait", "second", "convert", "done"}
  /\ \A n, g \in 1..6 : Following(n) = Rtc!Fields[g] => g = n + 1
  /\ \A n, g \in 1..6 : Following(n) = Following(g) => g = n
  /\ \A g \in 1..6 : Following(g) = IF g = Len(Rtc!Fields) THEN "again" ELSE Rtc!Fields[g + 1]
  /\ \A g \in 1..6 : Rtc!Fields[g] = "second" <=> g = 1
  /\ \A g, h \in 1..6 : Rtc!Fields[g] = Rtc!Fields[h] => g = h
  /\ \A g \in 1..6 : Rtc!Fields[g] \in Names /\ Rtc!Fields[g] \notin {"rtc_init", "convert", "again"}
<1>1. \A g \in 1..6 : g = 1 \/ g = 2 \/ g = 3 \/ g = 4 \/ g = 5 \/ g = 6
  OBVIOUS
<1>2. /\ Following(1) = "minute" /\ Following(2) = "hour" /\ Following(3) = "day"
      /\ Following(4) = "month" /\ Following(5) = "year" /\ Following(6) = "again"
  BY FieldNames DEF Following
<1>3. \A n \in 1..6 : Following(n) \notin {"rtc_init", "rtc_init_curr_time", "wait", "second", "convert", "done"}
  BY <1>1, <1>2
<1>4. \A n, g \in 1..6 : Following(n) = Rtc!Fields[g] => g = n + 1
  BY <1>1, <1>2, FieldNames
<1>5. \A n, g \in 1..6 : Following(n) = Following(g) => g = n
  BY <1>1, <1>2
<1>6. \A g \in 1..6 : Following(g) = IF g = Len(Rtc!Fields) THEN "again" ELSE Rtc!Fields[g + 1]
  BY FieldNames DEF Following
<1>7. \A g, h \in 1..6 : Rtc!Fields[g] = Rtc!Fields[h] => g = h
  BY <1>1, FieldNames
<1>8. \A g \in 1..6 : Rtc!Fields[g] \in Names /\ Rtc!Fields[g] \notin {"rtc_init", "convert", "again"}
  BY <1>1, FieldNames DEF Names
<1> QED
  BY <1>3, <1>4, <1>5, <1>6, <1>7, <1>8, FieldNames

(* Before rtc_init the chip shows the moment it was set to.                  *)
LEMMA InitClock ==
  ASSUME ClockAssumption, Rtc!Init PROVE ClockInv
<1>1. PICK s \in Starts : time = s.time /\ mode = [bin |-> s.bin, fmt24 |-> s.fmt24]
                          /\ regs = Rtc!Raw(time, mode)
  BY DEF Rtc!Init
<1>2. Moment(time) /\ mode.bin \in BOOLEAN /\ mode.fmt24 \in BOOLEAN
  BY <1>1 DEF ClockAssumption
<1>3. DOMAIN regs = Names
  BY <1>1, <1>2, RawFields
<1>4. /\ ~uip /\ uip \in BOOLEAN /\ ripple = 0 /\ updates = 0 /\ pc = "rtc_init" /\ shown = {}
      /\ ret = [f \in Rtc!Field |-> 0]
  BY DEF Rtc!Init
<1>5. ChipInv
  BY <1>1, <1>2, <1>3, <1>4 DEF ChipInv, Ahead, ClockAssumption
<1>6. ReadInv
  BY <1>4, Followings DEF ReadInv
<1> QED
  BY <1>4, <1>5, <1>6, FieldNames DEF ClockInv, ShownInv

(* The register of the seconds shows the seconds.                            *)
LEMMA SecondShown ==
  ASSUME ClockInv
  PROVE  regs["second"] = Digits(Second, mode) /\ Second \in 0..59
<1>1. Moment(time) /\ Moment(Rtc!After(time)) /\ mode.bin \in BOOLEAN /\ mode.fmt24 \in BOOLEAN
  BY AfterMoment DEF ClockInv, ChipInv
<1>2. regs["second"] = IF Ahead(1) THEN Rtc!Raw(Rtc!After(time), mode)["second"] ELSE Rtc!Raw(time, mode)["second"]
  BY FieldNames DEF ClockInv, ChipInv
<1>3. Rtc!Raw(Rtc!After(time), mode)["second"] = Digits(Rtc!After(time)["second"], mode)
  BY <1>1, RawFields
<1>4. Rtc!Raw(time, mode)["second"] = Digits(time["second"], mode)
  BY <1>1, RawFields
<1> QED
  BY <1>1, <1>2, <1>3, <1>4 DEF Second, Moment

(* An update that begins changes no register yet.                            *)
LEMMA UpdateBeginInv ==
  ASSUME ClockAssumption, ClockInv, Rtc!update_begin PROVE ClockInv'
<1>1. /\ uip = FALSE /\ updates < MaxUpdates /\ uip' = TRUE /\ ripple' = 0 /\ updates' = updates + 1
      /\ time' = time /\ mode' = mode /\ regs' = regs /\ pc' = pc /\ ret' = ret /\ shown' = shown
  BY DEF Rtc!update_begin, ClockInv, ChipInv
<1>2. MaxUpdates \in Nat /\ updates \in Nat
  BY DEF ClockAssumption, ClockInv, ChipInv
<1>3. ChipInv'
  BY <1>1, <1>2 DEF ClockInv, ChipInv, Ahead
<1>4. Second' = Second /\ Advances' = Advances
  BY <1>1, <1>2 DEF Second, Ahead, Advances
<1>5. ReadInv'
  <2> SUFFICES ASSUME NEW n \in 1..6, pc' = Following(n)
               PROVE  \E k \in Nat, s \in 0..59 : ReadSince(n, k, s)'
    BY DEF ReadInv, Following
  <2>1. PICK k \in Nat, s \in 0..59 : ReadSince(n, k, s)
    BY <1>1 DEF ClockInv, ReadInv
  <2>2. ReadSince(n, k, s)'
    BY <1>1, <1>4, <2>1 DEF ReadSince, Digits
  <2> QED
    BY <2>2
<1> QED
  BY <1>1, <1>3, <1>5 DEF ClockInv, ShownInv

(* An update that advances the seconds takes what was read away from the     *)
(* moment the chip shows; one that advances a later register finds that done.*)
LEMMA UpdateRegisterInv ==
  ASSUME ClockAssumption, ClockInv, Rtc!update_register PROVE ClockInv'
<1> DEFINE g == ripple + 1
<1>1. /\ uip = TRUE /\ g \in 1..6 /\ ripple \in 0..5 /\ ripple' = g
      /\ regs' = [regs EXCEPT ![Rtc!Fields[g]] = Rtc!Raw(Rtc!After(time), mode)[Rtc!Fields[g]]]
      /\ time' = time /\ mode' = mode /\ uip' = uip /\ updates' = updates /\ pc' = pc /\ ret' = ret /\ shown' = shown
      /\ ripple = 0 => pc # "second"
  BY FieldNames DEF Rtc!update_register, ClockInv, ChipInv
<1>2. MaxUpdates \in Nat /\ updates \in Nat /\ updates >= 1
  BY <1>1 DEF ClockAssumption, ClockInv, ChipInv
<1>3. pc # "second"
  BY <1>1 DEF ClockInv
<1>4. ChipInv'
  <2>1. DOMAIN regs' = Names
    BY <1>1 DEF ClockInv, ChipInv
  <2>2. ASSUME NEW h \in 1..6
        PROVE  regs'[Rtc!Fields[h]] = IF Ahead(h)' THEN Rtc!Raw(Rtc!After(time), mode)[Rtc!Fields[h]]
                                      ELSE Rtc!Raw(time, mode)[Rtc!Fields[h]]
    <3>1. /\ DOMAIN regs = Names
          /\ regs[Rtc!Fields[h]] = IF Ahead(h) THEN Rtc!Raw(Rtc!After(time), mode)[Rtc!Fields[h]]
                                   ELSE Rtc!Raw(time, mode)[Rtc!Fields[h]]
      BY DEF ClockInv, ChipInv
    <3>2. CASE h = g
      BY <1>1, <3>1, <3>2, Followings DEF Ahead
    <3>3. CASE h # g
      <4>1. Rtc!Fields[h] # Rtc!Fields[g]
        BY <1>1, <3>3, Followings
      <4>2. regs'[Rtc!Fields[h]] = regs[Rtc!Fields[h]]
        BY <1>1, <3>1, <4>1, Followings
      <4>3. Ahead(h)' <=> Ahead(h)
        BY <1>1, <3>3 DEF Ahead
      <4> QED
        BY <3>1, <4>2, <4>3
    <3> QED
      BY <3>2, <3>3
  <2> QED
    BY <1>1, <1>2, <2>1, <2>2 DEF ClockInv, ChipInv
<1>5. ReadInv'
  <2> SUFFICES ASSUME NEW n \in 1..6, pc' = Following(n)
               PROVE  \E k \in Nat, s \in 0..59 : ReadSince(n, k, s)'
    BY DEF ReadInv, Following
  <2>1. PICK k \in Nat, s \in 0..59 : ReadSince(n, k, s)
    BY <1>1 DEF ClockInv, ReadInv
  <2>2. CASE ripple = 0
    <3>1. Second = time["second"] /\ Advances = updates - 1
      BY <1>1, <2>2 DEF Second, Ahead, Advances
    <3>2. Second' = Rtc!After(time)["second"] /\ Advances' = updates
      BY <1>1, <2>2 DEF Second, Ahead, Advances
    <3>3. Rtc!After(time)["second"] = (time["second"] + 1) % 60
      BY AfterMoment DEF ClockInv, ChipInv
    <3>4. Second' = (s + (k + 1)) % 60
      BY <2>1, <3>1, <3>2, <3>3 DEF ReadSince
    <3>5. k + 1 \in Nat /\ k + 1 # 0 /\ k + 1 <= Advances'
      BY <1>2, <2>1, <3>1, <3>2 DEF ReadSince
    <3>6. ReadSince(n, k + 1, s)'
      BY <1>1, <2>1, <3>4, <3>5 DEF ReadSince, Digits
    <3> QED
      BY <3>5, <3>6
  <2>3. CASE ripple # 0
    <3>1. Second' = Second /\ Advances' = Advances
      BY <1>1, <2>3 DEF Second, Ahead, Advances
    <3>2. k # 0
      BY <1>1, <2>1, <2>3 DEF ReadSince
    <3>3. ReadSince(n, k, s)'
      BY <1>1, <2>1, <3>1, <3>2 DEF ReadSince, Digits
    <3> QED
      BY <3>3
  <2> QED
    BY <2>2, <2>3
<1> QED
  BY <1>1, <1>3, <1>4, <1>5 DEF ClockInv, ShownInv

(* When an update ends, the registers show the next moment.                  *)
LEMMA UpdateEndInv ==
  ASSUME ClockAssumption, ClockInv, Rtc!update_end PROVE ClockInv'
<1>1. /\ uip = TRUE /\ ripple = 6 /\ uip' = FALSE /\ time' = Rtc!After(time) /\ shown' = shown \cup {Rtc!After(time)}
      /\ mode' = mode /\ regs' = regs /\ ripple' = ripple /\ updates' = updates /\ pc' = pc /\ ret' = ret
  BY FieldNames DEF Rtc!update_end, ClockInv, ChipInv
<1>2. Moment(time') /\ updates \in Nat
  BY <1>1, AfterMoment DEF ClockInv, ChipInv, ClockAssumption
<1>3. \A g \in 1..6 : regs[Rtc!Fields[g]] = Rtc!Raw(Rtc!After(time), mode)[Rtc!Fields[g]]
  BY <1>1 DEF ClockInv, ChipInv, Ahead
<1>4. ChipInv'
  BY <1>1, <1>2, <1>3 DEF ClockInv, ChipInv, Ahead
<1>5. Second' = Second /\ Advances' = Advances
  BY <1>1 DEF Second, Ahead, Advances
<1>6. ReadInv'
  <2> SUFFICES ASSUME NEW n \in 1..6, pc' = Following(n)
               PROVE  \E k \in Nat, s \in 0..59 : ReadSince(n, k, s)'
    BY DEF ReadInv, Following
  <2>1. PICK k \in Nat, s \in 0..59 : ReadSince(n, k, s)
    BY <1>1 DEF ClockInv, ReadInv
  <2>2. k # 0
    BY <1>1, <2>1 DEF ReadSince
  <2>3. ReadSince(n, k, s)'
    BY <1>1, <1>5, <2>1, <2>2 DEF ReadSince, Digits
  <2> QED
    BY <2>3
<1>7. ShownInv'
  BY <1>1, <1>2 DEF ClockInv, ShownInv
<1> QED
  BY <1>1, <1>4, <1>6, <1>7 DEF ClockInv

(* The reader begins when no update is in progress.                          *)
LEMMA WaitTickInv ==
  ASSUME ClockAssumption, ClockInv, Rtc!wait_tick PROVE ClockInv'
<1>1. /\ ~uip /\ pc' = "second" /\ ret' = ret /\ (shown' = shown \/ shown' = {time})
      /\ (shown' = shown => pc = "wait" \/ shown' = {time})
      /\ time' = time /\ mode' = mode /\ regs' = regs /\ ripple' = ripple /\ updates' = updates /\ uip' = uip
  BY DEF Rtc!wait_tick, Rtc!chip
<1>2. ChipInv'
  BY <1>1 DEF ClockInv, ChipInv, Ahead
<1>3. ReadInv'
  BY <1>1, Followings DEF ReadInv, Following
<1>4. ShownInv'
  BY <1>1 DEF ClockInv, ShownInv, ChipInv
<1> QED
  BY <1>1, <1>2, <1>3, <1>4 DEF ClockInv

(* The read of a register adds one to what was read of the moment, and the   *)
(* read of the seconds is the first.                                         *)
LEMMA ReadRegisterInv ==
  ASSUME ClockAssumption, ClockInv, Rtc!read_register PROVE ClockInv'
<1>1. PICK g \in 1..6 :
        /\ pc = Rtc!Fields[g] /\ ret' = [ret EXCEPT ![Rtc!Fields[g]] = regs[Rtc!Fields[g]]]
        /\ pc' = Following(g) /\ UNCHANGED <<Rtc!chip, shown>>
  <2>1. PICK g \in DOMAIN Rtc!Fields :
          /\ pc = Rtc!Fields[g] /\ ret' = [ret EXCEPT ![Rtc!Fields[g]] = regs[Rtc!Fields[g]]]
          /\ pc' = IF g = Len(Rtc!Fields) THEN "again" ELSE Rtc!Fields[g + 1]
          /\ UNCHANGED <<Rtc!chip, shown>>
    BY DEF Rtc!read_register
  <2>2. g \in 1..6
    BY FieldNames
  <2>3. pc' = Following(g)
    BY <2>1, <2>2, Followings
  <2> QED
    BY <2>1, <2>2, <2>3
<1>2. /\ time' = time /\ mode' = mode /\ regs' = regs /\ ripple' = ripple /\ updates' = updates /\ uip' = uip
      /\ shown' = shown
  BY <1>1 DEF Rtc!chip
<1>3. ChipInv' /\ Second' = Second /\ Advances' = Advances
  BY <1>2 DEF ClockInv, ChipInv, Ahead, Second, Advances
<1>4. DOMAIN ret = Names /\ DOMAIN ret' = Names /\ ret' = [f \in Names |-> ret'[f]]
  BY <1>1 DEF ClockInv
<1>5. ret'[Rtc!Fields[g]] = regs[Rtc!Fields[g]]
  BY <1>1, <1>4, Followings
<1>6. \A h \in 1..6 : h # g => ret'[Rtc!Fields[h]] = ret[Rtc!Fields[h]]
  BY <1>1, <1>4, Followings
<1>7. ASSUME uip => ripple = 0
      PROVE  regs[Rtc!Fields[g]] = Rtc!Raw(time, mode)[Rtc!Fields[g]]
  BY <1>7 DEF ClockInv, ChipInv, Ahead
<1>8. \E k \in Nat, s \in 0..59 : ReadSince(g, k, s)'
  <2>1. CASE g = 1
    <3>1. uip => ripple = 0
      BY <1>1, <2>1, FieldNames DEF ClockInv
    <3>2. ret'["second"] = Digits(Second, mode) /\ Second \in 0..59
      BY <1>5, <2>1, FieldNames, SecondShown
    <3>3. 0 <= Advances
      BY DEF Advances, ClockInv, ChipInv
    <3>4. Second = (Second + 0) % 60
      BY <3>2
    <3>5. \A h \in 1..g : ret'[Rtc!Fields[h]] = Rtc!Raw(time, mode)[Rtc!Fields[h]]
      BY <1>5, <1>7, <2>1, <3>1
    <3>6. ReadSince(g, 0, Second)'
      BY <1>2, <1>3, <3>1, <3>2, <3>3, <3>4, <3>5 DEF ReadSince, Digits
    <3> QED
      BY <1>3, <3>2, <3>6
  <2>2. CASE g # 1
    <3>1. g - 1 \in 1..6 /\ pc = Following(g - 1)
      BY <1>1, <2>2 DEF Following
    <3>2. PICK k \in Nat, s \in 0..59 : ReadSince(g - 1, k, s)
      BY <3>1 DEF ClockInv, ReadInv
    <3>3. ret'["second"] = ret["second"]
      BY <1>6, <2>2, FieldNames
    <3>4. k = 0 => \A h \in 1..g : ret'[Rtc!Fields[h]] = Rtc!Raw(time, mode)[Rtc!Fields[h]]
      <4> SUFFICES ASSUME k = 0, NEW h \in 1..g PROVE ret'[Rtc!Fields[h]] = Rtc!Raw(time, mode)[Rtc!Fields[h]]
        OBVIOUS
      <4>1. CASE h = g
        BY <1>5, <1>7, <3>2, <4>1 DEF ReadSince
      <4>2. CASE h # g
        BY <1>6, <3>2, <4>2 DEF ReadSince
      <4> QED
        BY <4>1, <4>2
    <3>5. ReadSince(g, k, s)'
      BY <1>2, <1>3, <3>2, <3>3, <3>4 DEF ReadSince, Digits
    <3> QED
      BY <3>5
  <2> QED
    BY <2>1, <2>2
<1>9. ReadInv'
  <2> SUFFICES ASSUME NEW n \in 1..6, pc' = Following(n)
               PROVE  \E k \in Nat, s \in 0..59 : ReadSince(n, k, s)'
    BY DEF ReadInv, Following
  <2>1. n = g
    BY <1>1, Followings
  <2> QED
    BY <1>8, <2>1
<1>10. pc' # "second" /\ pc' # "convert" /\ pc' # "rtc_init"
  BY <1>1, Followings
<1>11. ShownInv'
  BY <1>1, <1>2, Followings DEF ClockInv, ShownInv
<1> QED
  BY <1>3, <1>4, <1>9, <1>10, <1>11 DEF ClockInv

(* Equal seconds, with less than a minute of updates, are the same seconds:  *)
(* no update came between the reads.                                         *)
LEMMA ReadAgainInv ==
  ASSUME ClockAssumption, ClockInv, Rtc!read_again PROVE ClockInv'
<1>1. /\ pc = "again" /\ pc' \in {"convert", "wait"} /\ (pc' = "convert" => ret["second"] = regs["second"])
      /\ time' = time /\ mode' = mode /\ regs' = regs /\ ripple' = ripple /\ updates' = updates /\ uip' = uip
      /\ shown' = shown /\ ret' = ret
  BY DEF Rtc!read_again, Rtc!chip
<1>2. ChipInv'
  BY <1>1 DEF ClockInv, ChipInv, Ahead
<1>3. ReadInv'
  BY <1>1, Followings DEF ReadInv, Following
<1>4. time \in shown /\ ShownInv'
  BY <1>1 DEF ClockInv, ShownInv
<1>5. ASSUME pc' = "convert" PROVE ret = Rtc!Raw(time, mode)
  <2>1. PICK k \in Nat, s \in 0..59 : ReadSince(6, k, s)
    BY <1>1 DEF ClockInv, ReadInv, Following
  <2>2. Second \in 0..59 /\ Digits(s, mode) = Digits(Second, mode)
    BY <1>1, <1>5, <2>1, SecondShown DEF ReadSince
  <2>3. s = Second
    <3>1. s \in 0..99 /\ Second \in 0..99
      BY <2>2
    <3> QED
      BY <2>2, <3>1, DigitsInjective, Zenon
  <2>4. k <= updates /\ updates <= 59 /\ updates \in Nat
    BY <2>1 DEF ReadSince, Advances, ClockInv, ChipInv, ClockAssumption
  <2>5. s = (s + k) % 60
    BY <2>1, <2>3 DEF ReadSince
  <2>6. k = 0
    BY <2>4, <2>5
  <2>7. \A h \in 1..6 : ret[Rtc!Fields[h]] = Rtc!Raw(time, mode)[Rtc!Fields[h]]
    BY <2>1, <2>6 DEF ReadSince
  <2>8. \A f \in Names : ret[f] = Rtc!Raw(time, mode)[f]
    BY <2>7, FieldNames DEF Names
  <2>9. Rtc!Raw(time, mode) = [f \in Names |-> Rtc!Raw(time, mode)[f]] /\ ret = [f \in Names |-> ret[f]]
    BY RawFields DEF ClockInv, ChipInv
  <2> QED
    BY <2>8, <2>9
<1> QED
  BY <1>1, <1>2, <1>3, <1>4, <1>5 DEF ClockInv

(* rtc_init and rtc_init_curr_time leave the chip alone.                     *)
LEMMA SetUnixtimeInv ==
  ASSUME ClockAssumption, ClockInv, Rtc!set_unixtime PROVE ClockInv'
<1>1. /\ pc = "convert" /\ pc' \in {"rtc_init_curr_time", "done"} /\ ret' = [f \in Rtc!Field |-> 0]
      /\ time' = time /\ mode' = mode /\ regs' = regs /\ ripple' = ripple /\ updates' = updates /\ uip' = uip
      /\ shown' = shown
  BY DEF Rtc!set_unixtime, Rtc!chip
<1>2. ChipInv'
  BY <1>1 DEF ClockInv, ChipInv, Ahead
<1>3. ReadInv'
  BY <1>1, Followings DEF ReadInv, Following
<1>4. DOMAIN ret' = Names /\ ret' = [f \in Names |-> ret'[f]]
  BY <1>1, FieldNames
<1> QED
  BY <1>1, <1>2, <1>3, <1>4 DEF ClockInv, ShownInv

(* cmos_read_rtc returns a moment that the chip showed during the call, all  *)
(* of it, from any moment and in any mode the chip may be set to and however *)
(* the updates of the chip fall between the reads, as long as there is less  *)
(* than a minute of them; but for the hours that convert misreads.           *)
THEOREM ReadsOneMoment ==
  ASSUME ClockAssumption PROVE Rtc!ClockSpec => []Rtc!ReadingIsAMoment
<1>1. Rtc!Init => ClockInv
  BY InitClock
<1>2. ClockInv /\ [Rtc!Next]_(Rtc!vars) => ClockInv'
  <2> SUFFICES ASSUME ClockInv, [Rtc!Next]_(Rtc!vars) PROVE ClockInv'
    OBVIOUS
  <2>1. CASE UNCHANGED Rtc!vars
    <3>1. /\ time' = time /\ mode' = mode /\ regs' = regs /\ ripple' = ripple /\ updates' = updates /\ uip' = uip
          /\ pc' = pc /\ ret' = ret /\ shown' = shown
      BY <2>1 DEF Rtc!vars, Rtc!chip
    <3>2. Second' = Second /\ Advances' = Advances
      BY <3>1 DEF Second, Ahead, Advances
    <3>3. ReadInv'
      <4> SUFFICES ASSUME NEW n \in 1..6, pc' = Following(n)
                   PROVE  \E k \in Nat, s \in 0..59 : ReadSince(n, k, s)'
        BY DEF ReadInv, Following
      <4>1. PICK k \in Nat, s \in 0..59 : ReadSince(n, k, s)
        BY <3>1 DEF ClockInv, ReadInv
      <4>2. ReadSince(n, k, s)'
        BY <3>1, <3>2, <4>1 DEF ReadSince, Digits
      <4> QED
        BY <4>2
    <3> QED
      BY <3>1, <3>3 DEF ClockInv, ChipInv, Ahead, ShownInv
  <2> QED
    BY <2>1, UpdateBeginInv, UpdateRegisterInv, UpdateEndInv, WaitTickInv, ReadRegisterInv, ReadAgainInv,
       SetUnixtimeInv DEF Rtc!Next, Rtc!update_continue, Rtc!kmain
<1>3. ClockInv => Rtc!ReadingIsAMoment
  <2> SUFFICES ASSUME ClockInv, pc = "convert"
               PROVE  \E t \in shown : ret = Rtc!Raw(t, mode) /\ (Rtc!Misread(t, mode) \/ Rtc!Reading = t)
    BY DEF Rtc!ReadingIsAMoment
  <2>1. PICK t \in shown : ret = Rtc!Raw(t, mode)
    BY DEF ClockInv
  <2>2. Moment(t) /\ mode.bin \in BOOLEAN /\ mode.fmt24 \in BOOLEAN
    BY DEF ClockInv, ShownInv, ChipInv
  <2> QED
    BY <2>1, <2>2, ConvertsBack DEF Rtc!Reading
<1> QED
  BY <1>1, <1>2, <1>3, PTL DEF Rtc!ClockSpec
=============================================================================
