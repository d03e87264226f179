----------------------------- MODULE BootProofs -----------------------------
(***************************************************************************)
(* What the boot loader hands over to kmain is what it loaded and built,   *)
(* whatever the machine can do, for every number of memory regions, stack  *)
(* depth and place of .bss that the assumption allows.                     *)
(***************************************************************************)
EXTENDS Boot, TLAPS

(* A write; the last one that touches any of its bytes, in the log l. *)
Kinds == {"disk", "stack", "drive", "zero", "entry", "count", "junk", "pml4", "pdpe", "pde"}
Block == [lo : Int, hi : Int, what : Kinds, num : Int]

Apart(v, w) == v.hi <= w.lo \/ w.hi <= v.lo

KeptIn(l, w) ==
  \E n \in DOMAIN l : l[n] = w /\ \A m \in DOMAIN l : m > n => Apart(l[m], w)

Kept(w) == KeptIn(log, w)

(* What is to be found in memory *)
MbrCode == Write(MbrTop, MbrTop + 512, "disk", 0)
LoaderCode == Write(LoaderTop, LoaderTop + 512 * LoaderBlocks, "disk", LoaderSector)
Slot(n) == Entry(n, e820_table(n))
Count(n) == Write(E820Start, E820Start + 4, "count", n)
Middle == KernelStart + 512 * MaxBlocksPerOp
KernelLow == Write(KernelStart, Middle, "disk", KernelSector)
KernelHigh == Write(Middle, UserStart, "disk", KernelSector + MaxBlocksPerOp)
KernelCode == Write(KernelNew, KernelNew + 512 * KernelBlocks, "disk", KernelSector)
UserCode == Write(UserStart, UserStart + 512 * UserBlocks, "disk", UserSector)
Pml4Low == Write(PagingStart, PagingStart + 8, "pml4", 0)
Pml4High == Write(PagingStart + 2048, PagingStart + 2056, "pml4", 0)
Pdes == Write(PDE, PagingEnd, "pde", 0)
Bss == Write(BssStart, BssStart + BssSize, "zero", 0)

(* The addresses as numbers. *)
LEMMA Addresses ==
  /\ MbrTop = 31744 /\ LoaderTop = 32256 /\ E820Start = 34816 /\ E820End = 36864
  /\ KernelStart = 36864 /\ Middle = 101888 /\ UserStart = 114688
  /\ PagingStart = 131072 /\ PDPE = 135168 /\ PDE = 139264 /\ PagingEnd = 401408 /\ KernelNew = 2097152
BY DEF MbrTop, LoaderTop, LoaderBlocks, E820Start, E820End, KernelStart, Middle, MaxBlocksPerOp,
       KernelBlocks, UserStart, PagingStart, PDPE, PDE, PagingEnd, KernelNew

(* What is to be found in memory is writes. *)
LEMMA Regions ==
  /\ MbrCode \in Block /\ LoaderCode \in Block
  /\ KernelLow \in Block /\ KernelHigh \in Block /\ KernelCode \in Block /\ UserCode \in Block
  /\ Pml4Low \in Block /\ Pml4High \in Block /\ Pdes \in Block /\ Bss \in Block
  /\ Zeros \in Block /\ \A n \in Int : Slot(n) \in Block /\ Count(n) \in Block
<1> USE Addresses DEF Block, Write, Kinds
<1>1. MbrCode \in Block /\ LoaderCode \in Block
  BY DEF MbrCode, LoaderCode, LoaderBlocks, LoaderSector
<1>2. KernelLow \in Block /\ KernelHigh \in Block /\ KernelCode \in Block /\ UserCode \in Block
  BY DEF KernelLow, KernelHigh, KernelCode, UserCode, KernelSector, MaxBlocksPerOp, UserBlocks, UserSector, KernelBlocks
<1>3. Pml4Low \in Block /\ Pml4High \in Block /\ Pdes \in Block
  BY DEF Pml4Low, Pml4High, Pdes
<1>4. Bss \in Block
  <2>1. BssStart \in Int /\ BssSize \in Int
    BY ONLY BootAssumption
  <2> QED BY <2>1 DEF Bss
<1>5. Zeros \in Block /\ \A n \in Int : Slot(n) \in Block /\ Count(n) \in Block
  BY DEF Zeros, Slot, Entry, Count, e820_table
<1> QED BY <1>1, <1>2, <1>3, <1>4, <1>5

(* The routines in their order *)
AfterTables == {"enter_long", "long_mode_boot", "kernel_entry", "kmain"}
AfterUser == {"cpu", "enter_protected", "protected", "move_kernel", "clean_memory"} \cup AfterTables
AfterGate == {"read_kernel", "read_userprog"} \cup AfterUser
AfterMap == {"A20", "A20_1", "attempt2", "A20_2", "A20_3"} \cup AfterGate
AfterMbr == {"loader", "e820", "e820_loop"} \cup AfterMap
Labels == {"mbr", "read_loader", "halt"} \cup AfterMbr
-----------------------------------------------------------------------------
(* The log *)

(* A region stays what it is if what is written next lies apart from it. *)
LEMMA KeptOn ==
  ASSUME NEW l \in Seq(Block), NEW ws \in Seq(Block), NEW w,
         KeptIn(l, w), \A k \in 1..Len(ws) : Apart(ws[k], w)
  PROVE  KeptIn(l \o ws, w)
<1>1. PICK n \in DOMAIN l : l[n] = w /\ \A m \in DOMAIN l : m > n => Apart(l[m], w)
  BY DEF KeptIn
<1>2. n \in DOMAIN (l \o ws) /\ (l \o ws)[n] = w
  BY <1>1
<1>3. ASSUME NEW m \in DOMAIN (l \o ws), m > n
      PROVE  Apart((l \o ws)[m], w)
  <2>1. CASE m <= Len(l)
    BY <1>1, <1>3, <2>1
  <2>2. CASE m > Len(l)
    <3>1. (l \o ws)[m] = ws[m - Len(l)] /\ m - Len(l) \in 1..Len(ws)
      BY <1>3, <2>2
    <3> QED BY <3>1
  <2> QED BY <2>1, <2>2
<1> QED BY <1>2, <1>3 DEF KeptIn

(* Where the new writes are in the log. *)
LEMMA Placed ==
  ASSUME NEW l \in Seq(Block), NEW ws \in Seq(Block), NEW k \in 1..Len(ws)
  PROVE  /\ Len(l) + k \in DOMAIN (l \o ws) /\ (l \o ws)[Len(l) + k] = ws[k]
         /\ \A m \in DOMAIN (l \o ws) : m > Len(l) + k => \E i \in 1..Len(ws) : i > k /\ (l \o ws)[m] = ws[i]
<1> DEFINE n == Len(l) + k
<1>1. n \in DOMAIN (l \o ws) /\ (l \o ws)[n] = ws[k]
  OBVIOUS
<1>2. ASSUME NEW m \in DOMAIN (l \o ws), m > n
      PROVE  \E i \in 1..Len(ws) : i > k /\ (l \o ws)[m] = ws[i]
  <2>1. (l \o ws)[m] = ws[m - Len(l)] /\ m - Len(l) \in 1..Len(ws) /\ m - Len(l) > k
    BY <1>2
  <2> QED BY <2>1
<1> QED BY <1>1, <1>2

(* A write is what its region holds if the ones after it lie apart from it. *)
LEMMA KeptNew ==
  ASSUME NEW l \in Seq(Block), NEW ws \in Seq(Block), NEW k \in 1..Len(ws),
         \A m \in 1..Len(ws) : m > k => Apart(ws[m], ws[k])
  PROVE  KeptIn(l \o ws, ws[k])
<1> DEFINE n == Len(l) + k
<1>1. /\ n \in DOMAIN (l \o ws) /\ (l \o ws)[n] = ws[k]
      /\ \A m \in DOMAIN (l \o ws) : m > n => \E i \in 1..Len(ws) : i > k /\ (l \o ws)[m] = ws[i]
  BY Placed, Zenon
<1>2. ASSUME NEW m \in DOMAIN (l \o ws), m > n
      PROVE  Apart((l \o ws)[m], ws[k])
  <2>1. PICK i \in 1..Len(ws) : i > k /\ (l \o ws)[m] = ws[i]
    BY <1>1, <1>2, Zenon
  <2> QED BY <2>1
<1> QED BY <1>1, <1>2, Zenon DEF KeptIn

(* What is read is what the last write that reaches there has put.  The      *)
(* writes after it are apart from some region w the byte is in.              *)
LEMMA LastValue ==
  ASSUME log \in Seq(Block), NEW w \in Block, NEW b \in Int, w.lo <= b, b < w.hi,
         NEW n \in DOMAIN log, log[n].lo <= b, b < log[n].hi,
         \A m \in DOMAIN log : m > n => Apart(log[m], w)
  PROVE  Value(b) = <<log[n].what, log[n].num + (b - log[n].lo) \div 512>>
<1> DEFINE on == {k \in DOMAIN log : log[k].lo <= b /\ b < log[k].hi}
<1>2. n \in on
  OBVIOUS
<1>3. ASSUME NEW m \in on
      PROVE  m <= n
  <2>1. m > n => Apart(log[m], w)
    OBVIOUS
  <2>2. log[m] \in Block /\ log[m].lo <= b /\ b < log[m].hi /\ m \in Int /\ n \in Int
    OBVIOUS
  <2>3. log[m].lo \in Int /\ log[m].hi \in Int /\ w.lo \in Int /\ w.hi \in Int
    BY <2>2 DEF Block
  <2>4. ~(log[m].hi <= w.lo) /\ ~(w.hi <= log[m].lo)
    BY <2>2, <2>3
  <2> QED BY <2>1, <2>2, <2>4 DEF Apart
<1>4. Max(on) = n
  <2>1. on \subseteq Int /\ n \in on /\ \A m \in on : n >= m
    BY <1>2, <1>3
  <2>2. \A x \in on : (\A y \in on : x >= y) => x = n
    BY <2>1
  <2> QED BY <2>1, <2>2 DEF Max
<1> QED BY <1>2, <1>4 DEF Value

(* What is read from a region that was kept. *)
LEMMA KeptValue ==
  ASSUME NEW w \in Block, log \in Seq(Block), Kept(w), NEW b \in Int, w.lo <= b, b < w.hi
  PROVE  Value(b) = <<w.what, w.num + (b - w.lo) \div 512>>
<1>1. PICK n \in DOMAIN log : log[n] = w /\ \A m \in DOMAIN log : m > n => Apart(log[m], w)
  BY DEF Kept, KeptIn
<1> QED BY <1>1, LastValue

(* All of it. *)
LEMMA KeptHolds ==
  ASSUME NEW w \in Block, log \in Seq(Block), Kept(w)
  PROVE  Holds(w.lo, w.hi, w.what, w.num)
<1>1. \A b \in Int : w.lo <= b /\ b < w.hi => Value(b) = <<w.what, w.num + (b - w.lo) \div 512>>
  BY KeptValue
<1>2. ASSUME NEW n \in DOMAIN log
      PROVE  log[n].lo \in Int /\ log[n].hi \in Int
  <2>1. log[n] \in Block
    OBVIOUS
  <2> QED BY <2>1 DEF Block
<1>3. w.lo \in Int /\ w.hi \in Int
  BY DEF Block
<1> DEFINE edges == {w.lo, w.hi - 1} \cup
                    UNION {{log[n].lo - 1, log[n].lo, log[n].hi - 1, log[n].hi} : n \in DOMAIN log}
<1>4. edges \subseteq Int
  BY <1>2, <1>3
<1> HIDE DEF edges
<1>5. \A b \in edges : w.lo <= b /\ b < w.hi => Value(b) = <<w.what, w.num + (b - w.lo) \div 512>>
  BY <1>1, <1>4
<1> QED BY <1>5, Zenon DEF Holds, edges

(* The kernel is read in two parts, the second from where the first ends. *)
LEMMA KernelHolds ==
  ASSUME log \in Seq(Block), Kept(KernelLow), Kept(KernelHigh)
  PROVE  Blocks(KernelStart, KernelBlocks, KernelSector)
<1>1. KernelLow \in Block /\ KernelHigh \in Block
  BY Regions
<1>2. ASSUME NEW b \in Int, KernelStart <= b, b < KernelStart + 512 * KernelBlocks
      PROVE  Value(b) = <<"disk", KernelSector + (b - KernelStart) \div 512>>
  <2>1. CASE b < Middle
    BY <1>1, <1>2, <2>1, KeptValue DEF KernelLow, Write
  <2>2. CASE b >= Middle
    <3>1. Value(b) = <<"disk", KernelSector + MaxBlocksPerOp + (b - Middle) \div 512>>
      BY <1>1, <1>2, <2>2, KeptValue, Addresses DEF KernelHigh, Write, KernelBlocks
    <3>2. MaxBlocksPerOp + (b - Middle) \div 512 = (b - KernelStart) \div 512
      BY <1>2, Addresses DEF MaxBlocksPerOp
    <3> QED BY <1>2, <3>1, <3>2, Addresses DEF KernelSector, MaxBlocksPerOp
  <2> QED BY <1>2, <2>1, <2>2, Addresses
<1> QED BY <1>2, Addresses DEF Blocks, Holds, Block, KernelBlocks

(* What a step that writes ws leaves as it was, and what it adds. *)
Untouched(ws, w) == \A k \in 1..Len(ws) : Apart(ws[k], w)

LEMMA Writes ==
  ASSUME log \in Seq(Block), NEW ws \in Seq(Block), log' = log \o ws
  PROVE  /\ log' \in Seq(Block)
         /\ \A w : Kept(w) /\ Untouched(ws, w) => KeptIn(log', w)
         /\ \A k \in 1..Len(ws) : (\A m \in 1..Len(ws) : m > k => Apart(ws[m], ws[k])) => KeptIn(log', ws[k])
<1>1. log' \in Seq(Block)
  OBVIOUS
<1>2. \A w : Kept(w) /\ Untouched(ws, w) => KeptIn(log', w)
  BY KeptOn DEF Kept, Untouched
<1>3. \A k \in 1..Len(ws) : (\A m \in 1..Len(ws) : m > k => Apart(ws[m], ws[k])) => KeptIn(log', ws[k])
  BY KeptNew
<1> QED BY <1>1, <1>2, <1>3

(* The same for one write. *)
LEMMA OneWrite ==
  ASSUME log \in Seq(Block), NEW v \in Block, log' = Append(log, v)
  PROVE  /\ log' \in Seq(Block) /\ KeptIn(log', v)
         /\ \A w : Kept(w) /\ Apart(v, w) => KeptIn(log', w)
<1> DEFINE ws == <<v>>
<1>1. ws \in Seq(Block) /\ log' = log \o ws /\ Len(ws) = 1 /\ ws[1] = v
  OBVIOUS
<1> HIDE DEF ws
<1>2. \A w : Kept(w) /\ Untouched(ws, w) => KeptIn(log', w)
  BY <1>1, Writes
<1>3. KeptIn(log', ws[1])
  BY <1>1, KeptNew
<1>4. \A w : Apart(v, w) => Untouched(ws, w)
  BY <1>1 DEF Untouched
<1> QED BY <1>1, <1>2, <1>3, <1>4
-----------------------------------------------------------------------------
(* The inductive invariant *)

Machines ==
  [ext : BOOLEAN, e820 : BOOLEAN, entries : Entries, works : SUBSET (1..3), cpuid : BOOLEAN, long : BOOLEAN]

TypeOK ==
  /\ pc \in Labels /\ env \in Machines /\ a20 \in BOOLEAN
  /\ step \in 1..13

(* The counter of the memory map shows k; until it is incremented it is part *)
(* of the cleared region.                                                    *)
CounterIn(l, k) ==
  \E n \in DOMAIN l : /\ l[n] = Count(k) \/ (l[n] = Zeros /\ k = 0)
                      /\ \A m \in DOMAIN l : m > n => Apart(l[m], Count(0))

(* In .loop the entries 0..k are stored and k of them are counted. *)
Stored(l, k) ==
  /\ \A n \in 0..k : KeptIn(l, Slot(n))
  /\ CounterIn(l, k)

(* All of them. *)
MapIn(l, n) ==
  /\ \A k \in 0..(n - 1) : KeptIn(l, Slot(k))
  /\ KeptIn(l, Count(n))

(* Each region is there from the step on that fills it, as long as it is used. *)
Memory ==
  /\ log \in Seq(Block)
  /\ pc \in {"mbr", "read_loader"} => Kept(MbrCode)
  /\ pc \in AfterMbr => Kept(LoaderCode)
  /\ pc = "e820_loop" =>
       \E k \in 0..(env.entries - 1) : /\ Stored(log, k) /\ di = e820_table(k)
                                      /\ ebx = IF k + 1 < env.entries THEN k + 1 ELSE 0
  /\ pc \in AfterMap => MapIn(log, env.entries)
  /\ pc = "read_kernel" =>
       \/ eax = KernelStart /\ ecx = KernelSector /\ edx = KernelBlocks
       \/ /\ eax = Middle /\ ecx = KernelSector + MaxBlocksPerOp /\ edx = KernelBlocks - MaxBlocksPerOp
          /\ Kept(KernelLow)
  /\ pc \in {"read_userprog", "cpu", "enter_protected", "protected", "move_kernel"} =>
       Kept(KernelLow) /\ Kept(KernelHigh)
  /\ pc \in {"clean_memory", "enter_long", "long_mode_boot", "kernel_entry"} => Kept(KernelCode)
  /\ pc \in AfterUser => Kept(UserCode)
  /\ pc \in AfterTables => Kept(Pml4Low) /\ Kept(Pml4High) /\ Kept(Pdes)
  /\ pc = "kmain" => Kept(Bss)

(* The dialogue with the keyboard controller: before each command of         *)
(* .attempt2, the byte it still has to take, or what taking it has done.     *)
Kbc(ibf, obf, port, keys) == [ibf |-> ibf, obf |-> obf, port |-> port, keys |-> keys]
Idle == Kbc("", FALSE, FALSE, TRUE)
SentAd == Kbc("ad", FALSE, FALSE, TRUE)
Quiet == Kbc("", FALSE, FALSE, FALSE)
SentD0 == Kbc("d0", FALSE, FALSE, FALSE)
Answered == Kbc("", TRUE, FALSE, FALSE)
SentD1 == Kbc("d1", FALSE, FALSE, FALSE)
Listening == Kbc("", FALSE, TRUE, FALSE)
SentData == Kbc("data", FALSE, TRUE, FALSE)
SentAe == Kbc("ae", FALSE, FALSE, FALSE)
Switched == 2 \in env.works => a20

Talk ==
  /\ step \in {1, 2} => kbc = Idle
  /\ step = 3 => kbc = SentAd \/ kbc = Quiet
  /\ step \in {4, 7, 8} => kbc = Quiet
  /\ step = 5 => kbc = SentD0 \/ kbc = Answered
  /\ step = 6 => kbc = Answered
  /\ step = 9 => kbc = SentD1 \/ kbc = Listening
  /\ step = 10 => kbc = Listening
  /\ step = 11 => kbc = SentData \/ (kbc = Quiet /\ Switched)
  /\ step = 12 => kbc = Quiet /\ Switched
  /\ step = 13 => (kbc = SentAe \/ kbc = Idle) /\ Switched

(* Each attempt at the address line was made before the next, and is over    *)
(* before the loader goes on; no later step switches the line off.           *)
Gate ==
  /\ pc # "attempt2" => kbc = Idle /\ step = 1
  /\ pc = "attempt2" => Talk
  /\ pc = "A20_1" => (1 \in env.works => a20)
  /\ pc \in {"attempt2", "A20_2", "A20_3"} => 1 \notin env.works
  /\ pc = "A20_2" => Switched
  /\ pc = "A20_3" => 2 \notin env.works /\ (3 \in env.works => a20)
  /\ pc \in AfterGate => a20
  /\ pc \in {"long_mode_boot", "kernel_entry", "kmain"} => mode = "long"

IInv == TypeOK /\ Memory /\ Gate /\ HaltsForAReason

Next == Code \/ controller
-----------------------------------------------------------------------------
(* Types *)

(* The types are kept. *)
LEMMA TypeStep ==
  ASSUME TypeOK, Next
  PROVE  TypeOK'
<1> USE DEF TypeOK, Labels, AfterMbr, AfterMap, AfterGate, AfterUser, AfterTables, gate, regs, Goto, Stop
<1>1. CASE mbr_start
  BY <1>1 DEF mbr_start
<1>2. CASE read_loader
  BY <1>2 DEF read_loader
<1>3. CASE read_error
  BY <1>3 DEF read_error
<1>4. CASE loader_start
  BY <1>4 DEF loader_start
<1>5. CASE first_memory_entry
  BY <1>5 DEF first_memory_entry
<1>6. CASE e820_not_supported
  BY <1>6 DEF e820_not_supported
<1>7. CASE e820_error
  BY <1>7 DEF e820_error
<1>8. CASE A20_done
  BY <1>8 DEF A20_done
<1>9. CASE A20_failed
  BY <1>9 DEF A20_failed
<1>10. CASE attempt1
  BY <1>10 DEF attempt1
<1>11. CASE attempt2
  <2>1. Len(attempt2_commands) = 13
    BY DEF attempt2_commands
  <2>2. \/ step < Len(attempt2_commands) /\ pc' = "attempt2" /\ step' = step + 1
        \/ pc' = "A20_2" /\ step' = 1
    BY <1>11, Zenon DEF attempt2
  <2>3. env' = env /\ a20' = a20
    BY <1>11 DEF attempt2
  <2> QED BY <2>1, <2>2, <2>3
<1>12. CASE attempt3
  BY <1>12 DEF attempt3
<1>13. CASE read_kernel
  BY <1>13 DEF read_kernel
<1>14. CASE read_remainder
  BY <1>14 DEF read_remainder
<1>15. CASE read_userprog_from_disk
  BY <1>15 DEF read_userprog_from_disk
<1>16. CASE cpu_supports_64_bit_mode
  BY <1>16 DEF cpu_supports_64_bit_mode
<1>17. CASE enter_protected_mode
  BY <1>17 DEF enter_protected_mode
<1>18. CASE protected_mode_boot
  BY <1>18 DEF protected_mode_boot
<1>19. CASE pm_move_kernel
  BY <1>19 DEF pm_move_kernel
<1>20. CASE pm_setup_page_tables
  BY <1>20 DEF pm_setup_page_tables
<1>21. CASE pm_enter_long_mode
  BY <1>21 DEF pm_enter_long_mode
<1>22. CASE long_mode_boot
  BY <1>22 DEF long_mode_boot
<1>23. CASE kernel_entry
  BY <1>23 DEF kernel_entry
<1>24. CASE controller
  BY <1>24 DEF controller
<1>25. CASE next_memory_entry
  BY <1>25 DEF next_memory_entry
<1>26. CASE e820_done
  BY <1>26 DEF e820_done
<1> QED BY <1>1, <1>2, <1>3, <1>4, <1>5, <1>6, <1>7, <1>8, <1>9, <1>10, <1>11, <1>12, <1>13, <1>14, <1>15, <1>16, <1>17, <1>18, <1>19, <1>20, <1>21, <1>22, <1>23, <1>24, <1>25, <1>26, Zenon DEF Next, Code
-----------------------------------------------------------------------------
(* The reason *)

(* test_A20 finds out. *)
LEMMA LineTest ==
  ASSUME a20 \in BOOLEAN
  PROVE  test_A20 <=> a20
<1>1. CASE a20 = TRUE
  BY <1>1 DEF test_A20
<1>2. CASE a20 = FALSE
  BY <1>2 DEF test_A20
<1> QED BY <1>1, <1>2, Zenon

(* A step that gives up prints why.  For A20 all three attempts were made    *)
(* and none of them works.                                                   *)
LEMMA HaltStep ==
  ASSUME TypeOK, Gate, HaltsForAReason, Next
  PROVE  HaltsForAReason'
<1> USE DEF Goto, TypeOK, Stop, display_string
<1>1. CASE mbr_start
  BY <1>1 DEF mbr_start, HaltsForAReason, Errors
<1>2. CASE read_loader
  BY <1>2 DEF read_loader, HaltsForAReason
<1>3. CASE read_error
  <2>1. msg' = "read error" /\ env' = env
    BY <1>3 DEF read_error, Errors
  <2> QED BY <1>3, <2>1 DEF read_error, HaltsForAReason, Errors
<1>4. CASE loader_start
  BY <1>4 DEF loader_start, HaltsForAReason
<1>5. CASE first_memory_entry
  BY <1>5 DEF first_memory_entry, HaltsForAReason
<1>6. CASE e820_not_supported
  <2>1. msg' = "no e820" /\ env' = env
    BY <1>6 DEF e820_not_supported, Errors
  <2> QED BY <1>6, <2>1 DEF e820_not_supported, HaltsForAReason, Errors
<1>7. CASE e820_error
  <2>1. msg' = "e820 error" /\ env' = env
    BY <1>7 DEF e820_error, Errors
  <2> QED BY <1>7, <2>1 DEF e820_error, HaltsForAReason, Errors
<1>8. CASE A20_done
  BY <1>8 DEF A20_done, HaltsForAReason
<1>9. CASE A20_failed
  <2>1. msg' = "A20 error" /\ env' = env
    BY <1>9 DEF A20_failed, Errors
  <2>2. 1 \notin env.works /\ 2 \notin env.works /\ 3 \notin env.works
    <3>1. pc = "A20_3" /\ ~a20
      BY <1>9, LineTest DEF A20_failed, TypeOK
    <3> QED BY <3>1 DEF Gate
  <2>3. env.works = {}
    BY <2>2 DEF Machines
  <2> QED BY <2>1, <2>3 DEF HaltsForAReason, Errors
<1>10. CASE attempt1
  BY <1>10 DEF attempt1, HaltsForAReason
<1>11. CASE attempt2
  <2>1. pc' # "halt"
    BY <1>11 DEF attempt2
  <2> QED BY <2>1 DEF HaltsForAReason
<1>12. CASE attempt3
  BY <1>12 DEF attempt3, HaltsForAReason
<1>13. CASE read_kernel
  BY <1>13 DEF read_kernel, HaltsForAReason
<1>14. CASE read_remainder
  BY <1>14 DEF read_remainder, HaltsForAReason
<1>15. CASE read_userprog_from_disk
  BY <1>15 DEF read_userprog_from_disk, HaltsForAReason
<1>16. CASE cpu_supports_64_bit_mode
  <2>1. CASE ~env.cpuid
    <3>1. msg' = "no cpuid" /\ env' = env
      BY <1>16, <2>1 DEF cpu_supports_64_bit_mode, Errors
    <3> QED BY <2>1, <3>1 DEF HaltsForAReason, Errors
  <2>2. CASE env.cpuid /\ ~env.long
    <3>1. msg' = "no 64-bit" /\ env' = env
      BY <1>16, <2>2 DEF cpu_supports_64_bit_mode, Errors
    <3> QED BY <2>2, <3>1 DEF HaltsForAReason, Errors
  <2>3. CASE env.cpuid /\ env.long
    BY <1>16, <2>3 DEF cpu_supports_64_bit_mode, HaltsForAReason
  <2> QED BY <2>1, <2>2, <2>3
<1>17. CASE enter_protected_mode
  BY <1>17 DEF enter_protected_mode, HaltsForAReason
<1>18. CASE protected_mode_boot
  BY <1>18 DEF protected_mode_boot, HaltsForAReason
<1>19. CASE pm_move_kernel
  BY <1>19 DEF pm_move_kernel, HaltsForAReason
<1>20. CASE pm_setup_page_tables
  <2>1. pc' # "halt"
    BY <1>20 DEF pm_setup_page_tables
  <2> QED BY <2>1 DEF HaltsForAReason
<1>21. CASE pm_enter_long_mode
  BY <1>21 DEF pm_enter_long_mode, HaltsForAReason
<1>22. CASE long_mode_boot
  BY <1>22 DEF long_mode_boot, HaltsForAReason
<1>23. CASE kernel_entry
  BY <1>23 DEF kernel_entry, HaltsForAReason
<1>24. CASE controller
  <2>1. pc' = pc /\ env' = env /\ msg' = msg
    BY <1>24 DEF controller
  <2> QED BY <2>1, Zenon DEF HaltsForAReason
<1>25. CASE next_memory_entry
  <2>1. pc' # "halt"
    BY <1>25 DEF next_memory_entry
  <2> QED BY <2>1 DEF HaltsForAReason
<1>26. CASE e820_done
  BY <1>26 DEF e820_done, HaltsForAReason
<1> QED BY <1>1, <1>2, <1>3, <1>4, <1>5, <1>6, <1>7, <1>8, <1>9, <1>10, <1>11, <1>12, <1>13, <1>14, <1>15, <1>16, <1>17, <1>18, <1>19, <1>20, <1>21, <1>22, <1>23, <1>24, <1>25, <1>26, Zenon DEF Next, Code
-----------------------------------------------------------------------------
(* The address line and the keyboard controller *)

(* What waits in the input buffer, and whether there is an answer. *)
LEMMA Buffers ==
  /\ Idle.ibf = "" /\ Quiet.ibf = "" /\ Answered.ibf = "" /\ Listening.ibf = ""
  /\ SentAd.ibf = "ad" /\ SentD0.ibf = "d0" /\ SentD1.ibf = "d1" /\ SentData.ibf = "data" /\ SentAe.ibf = "ae"
  /\ ~SentD0.obf
BY DEF Kbc, Idle, Quiet, Answered, Listening, SentAd, SentD0, SentD1, SentData, SentAe

(* A command of .attempt2: what it waits for is there, or will be; what it   *)
(* sends finds the input buffer empty.                                       *)
LEMMA AttemptStep ==
  ASSUME TypeOK, Gate, attempt2
  PROVE  Gate'
<1>1. Len(attempt2_commands) = 13
  BY DEF attempt2_commands
<1> DEFINE c == attempt2_commands[step]
<1>2. /\ c = "wait1" => kbc.ibf = ""
      /\ c = "wait2" => kbc.obf
  BY DEF attempt2
<1>3. kbc' = CASE c \in {"wait1", "wait2"} -> kbc
               [] c = "in" -> [kbc EXCEPT !.obf = FALSE]
               [] OTHER -> [kbc EXCEPT !.ibf = c]
  BY DEF attempt2
<1>4. \/ step < 13 /\ pc' = "attempt2" /\ step' = step + 1
      \/ step = 13 /\ pc' = "A20_2" /\ step' = 1
  <2>1. \/ step < Len(attempt2_commands) /\ pc' = "attempt2" /\ step' = step + 1
        \/ ~(step < Len(attempt2_commands)) /\ pc' = "A20_2" /\ step' = 1
    BY Zenon DEF attempt2
  <2> QED BY <1>1, <2>1 DEF TypeOK
<1>5. env' = env /\ a20' = a20 /\ mode' = mode
  BY DEF attempt2
<1>6. Talk /\ 1 \notin env.works
  <2>1. CASE pc = "attempt2"
    BY <2>1 DEF Gate
  <2>2. CASE pc = "A20_1"
    <3>1. kbc = Idle /\ step = 1 /\ (1 \in env.works => a20)
      BY <2>2 DEF Gate
    <3>2. ~a20
      BY <2>2, LineTest DEF attempt2, TypeOK
    <3> QED BY <3>1, <3>2 DEF Talk
  <2> QED BY <2>1, <2>2 DEF attempt2
<1>7. CASE step = 1
  <2>1. c = "wait1"
    BY <1>7 DEF attempt2_commands
  <2> HIDE DEF c
  <2>2. kbc' = kbc
    BY <1>3, <2>1
  <2>3. kbc = Idle
    BY <1>6, <1>7 DEF Talk
  <2>4. kbc' = Idle
    BY <2>2, <2>3, <1>2, <2>1, Buffers
  <2>5. Talk'
    BY <1>4, <1>5, <1>7, <2>4 DEF Talk
  <2> QED BY <1>4, <1>5, <1>6, <1>7, <2>5 DEF Gate, AfterGate, AfterUser, AfterTables
<1>8. CASE step = 2
  <2>1. c = "ad"
    BY <1>8 DEF attempt2_commands
  <2> HIDE DEF c
  <2>2. kbc' = [kbc EXCEPT !.ibf = "ad"]
    BY <1>3, <2>1
  <2>3. kbc = Idle
    BY <1>6, <1>8 DEF Talk
  <2>4. kbc' = SentAd
    BY <2>2, <2>3 DEF Idle, SentAd, Kbc
  <2>5. Talk'
    BY <1>4, <1>5, <1>8, <2>4 DEF Talk
  <2> QED BY <1>4, <1>5, <1>6, <1>8, <2>5 DEF Gate, AfterGate, AfterUser, AfterTables
<1>9. CASE step = 3
  <2>1. c = "wait1"
    BY <1>9 DEF attempt2_commands
  <2> HIDE DEF c
  <2>2. kbc' = kbc
    BY <1>3, <2>1
  <2>3. kbc = SentAd \/ kbc = Quiet
    BY <1>6, <1>9 DEF Talk
  <2>4. kbc' = Quiet
    BY <2>2, <2>3, <1>2, <2>1, Buffers
  <2>5. Talk'
    BY <1>4, <1>5, <1>9, <2>4 DEF Talk
  <2> QED BY <1>4, <1>5, <1>6, <1>9, <2>5 DEF Gate, AfterGate, AfterUser, AfterTables
<1>10. CASE step = 4
  <2>1. c = "d0"
    BY <1>10 DEF attempt2_commands
  <2> HIDE DEF c
  <2>2. kbc' = [kbc EXCEPT !.ibf = "d0"]
    BY <1>3, <2>1
  <2>3. kbc = Quiet
    BY <1>6, <1>10 DEF Talk
  <2>4. kbc' = SentD0
    BY <2>2, <2>3 DEF Quiet, SentD0, Kbc
  <2>5. Talk'
    BY <1>4, <1>5, <1>10, <2>4 DEF Talk
  <2> QED BY <1>4, <1>5, <1>6, <1>10, <2>5 DEF Gate, AfterGate, AfterUser, AfterTables
<1>11. CASE step = 5
  <2>1. c = "wait2"
    BY <1>11 DEF attempt2_commands
  <2> HIDE DEF c
  <2>2. kbc' = kbc
    BY <1>3, <2>1
  <2>3. kbc = SentD0 \/ kbc = Answered
    BY <1>6, <1>11 DEF Talk
  <2>4. kbc' = Answered
    BY <2>2, <2>3, <1>2, <2>1, Buffers
  <2>5. Talk'
    BY <1>4, <1>5, <1>11, <2>4 DEF Talk
  <2> QED BY <1>4, <1>5, <1>6, <1>11, <2>5 DEF Gate, AfterGate, AfterUser, AfterTables
<1>12. CASE step = 6
  <2>1. c = "in"
    BY <1>12 DEF attempt2_commands
  <2> HIDE DEF c
  <2>2. kbc' = [kbc EXCEPT !.obf = FALSE]
    BY <1>3, <2>1
  <2>3. kbc = Answered
    BY <1>6, <1>12 DEF Talk
  <2>4. kbc' = Quiet
    BY <2>2, <2>3 DEF Answered, Quiet, Kbc
  <2>5. Talk'
    BY <1>4, <1>5, <1>12, <2>4 DEF Talk
  <2> QED BY <1>4, <1>5, <1>6, <1>12, <2>5 DEF Gate, AfterGate, AfterUser, AfterTables
<1>13. CASE step = 7
  <2>1. c = "wait1"
    BY <1>13 DEF attempt2_commands
  <2> HIDE DEF c
  <2>2. kbc' = kbc
    BY <1>3, <2>1
  <2>3. kbc = Quiet
    BY <1>6, <1>13 DEF Talk
  <2>4. kbc' = Quiet
    BY <2>2, <2>3, <1>2, <2>1, Buffers
  <2>5. Talk'
    BY <1>4, <1>5, <1>13, <2>4 DEF Talk
  <2> QED BY <1>4, <1>5, <1>6, <1>13, <2>5 DEF Gate, AfterGate, AfterUser, AfterTables
<1>14. CASE step = 8
  <2>1. c = "d1"
    BY <1>14 DEF attempt2_commands
  <2> HIDE DEF c
  <2>2. kbc' = [kbc EXCEPT !.ibf = "d1"]
    BY <1>3, <2>1
  <2>3. kbc = Quiet
    BY <1>6, <1>14 DEF Talk
  <2>4. kbc' = SentD1
    BY <2>2, <2>3 DEF Quiet, SentD1, Kbc
  <2>5. Talk'
    BY <1>4, <1>5, <1>14, <2>4 DEF Talk
  <2> QED BY <1>4, <1>5, <1>6, <1>14, <2>5 DEF Gate, AfterGate, AfterUser, AfterTables
<1>15. CASE step = 9
  <2>1. c = "wait1"
    BY <1>15 DEF attempt2_commands
  <2> HIDE DEF c
  <2>2. kbc' = kbc
    BY <1>3, <2>1
  <2>3. kbc = SentD1 \/ kbc = Listening
    BY <1>6, <1>15 DEF Talk
  <2>4. kbc' = Listening
    BY <2>2, <2>3, <1>2, <2>1, Buffers
  <2>5. Talk'
    BY <1>4, <1>5, <1>15, <2>4 DEF Talk
  <2> QED BY <1>4, <1>5, <1>6, <1>15, <2>5 DEF Gate, AfterGate, AfterUser, AfterTables
<1>16. CASE step = 10
  <2>1. c = "data"
    BY <1>16 DEF attempt2_commands
  <2> HIDE DEF c
  <2>2. kbc' = [kbc EXCEPT !.ibf = "data"]
    BY <1>3, <2>1
  <2>3. kbc = Listening
    BY <1>6, <1>16 DEF Talk
  <2>4. kbc' = SentData
    BY <2>2, <2>3 DEF Listening, SentData, Kbc
  <2>5. Talk'
    BY <1>4, <1>5, <1>16, <2>4 DEF Talk
  <2> QED BY <1>4, <1>5, <1>6, <1>16, <2>5 DEF Gate, AfterGate, AfterUser, AfterTables
<1>17. CASE step = 11
  <2>1. c = "wait1"
    BY <1>17 DEF attempt2_commands
  <2> HIDE DEF c
  <2>2. kbc' = kbc
    BY <1>3, <2>1
  <2>3. kbc = SentData \/ (kbc = Quiet /\ Switched)
    BY <1>6, <1>17 DEF Talk
  <2>4. kbc' = Quiet /\ Switched
    BY <2>2, <2>3, <1>2, <2>1, Buffers
  <2>5. Talk'
    BY <1>4, <1>5, <1>17, <2>4 DEF Talk, Switched
  <2> QED BY <1>4, <1>5, <1>6, <1>17, <2>5 DEF Gate, AfterGate, AfterUser, AfterTables
<1>18. CASE step = 12
  <2>1. c = "ae"
    BY <1>18 DEF attempt2_commands
  <2> HIDE DEF c
  <2>2. kbc' = [kbc EXCEPT !.ibf = "ae"]
    BY <1>3, <2>1
  <2>3. kbc = Quiet /\ Switched
    BY <1>6, <1>18 DEF Talk
  <2>4. kbc' = SentAe /\ Switched
    BY <2>2, <2>3 DEF Quiet, SentAe, Kbc
  <2>5. Talk'
    BY <1>4, <1>5, <1>18, <2>4 DEF Talk, Switched
  <2> QED BY <1>4, <1>5, <1>6, <1>18, <2>5 DEF Gate, AfterGate, AfterUser, AfterTables
<1>19. CASE step = 13
  <2>1. c = "wait1"
    BY <1>19 DEF attempt2_commands
  <2> HIDE DEF c
  <2>2. kbc' = kbc
    BY <1>3, <2>1
  <2>3. (kbc = SentAe \/ kbc = Idle) /\ Switched
    BY <1>6, <1>19 DEF Talk
  <2>4. kbc' = Idle /\ Switched
    BY <2>2, <2>3, <1>2, <2>1, Buffers
  <2> QED BY <1>4, <1>5, <1>6, <1>19, <2>4 DEF Gate, AfterGate, AfterUser, AfterTables, Switched
<1> QED BY <1>7, <1>8, <1>9, <1>10, <1>11, <1>12, <1>13, <1>14, <1>15, <1>16, <1>17, <1>18, <1>19 DEF TypeOK

(* The controller takes a byte; outside .attempt2 there is none. *)
LEMMA ControllerStep ==
  ASSUME TypeOK, Gate, controller
  PROVE  Gate'
<1>1. pc = "attempt2" /\ Talk
  <2>1. kbc # Idle
    BY Buffers DEF controller
  <2> QED BY <2>1 DEF Gate
<1>2. pc' = "attempt2" /\ step' = step /\ env' = env /\ mode' = mode
  BY <1>1 DEF controller
<1>3. /\ kbc.ibf # ""
      /\ kbc' = [ibf |-> "", obf |-> kbc.obf \/ kbc.ibf = "d0", port |-> kbc.ibf = "d1",
                 keys |-> IF kbc.ibf \in {"ad", "ae"} THEN kbc.ibf = "ae" ELSE kbc.keys]
      /\ a20' = (a20 \/ (kbc.ibf = "data" /\ kbc.port /\ 2 \in env.works))
  BY DEF controller
<1>4. step \in {3, 5, 9, 11, 13}
  <2>1. step \notin {1, 2, 4, 6, 7, 8, 10, 12}
    BY <1>1, <1>3, Buffers DEF Talk
  <2> QED BY <2>1 DEF TypeOK
<1>5. Talk'
  <2>1. CASE step = 3
    <3>1. kbc = SentAd
      BY <1>1, <1>3, <2>1, Buffers DEF Talk
    <3>2. kbc' = Quiet
      BY <1>3, <3>1 DEF Kbc, SentAd, Quiet
    <3> QED BY <1>2, <2>1, <3>2 DEF Talk
  <2>2. CASE step = 5
    <3>1. kbc = SentD0
      BY <1>1, <1>3, <2>2, Buffers DEF Talk
    <3>2. kbc' = Answered
      BY <1>3, <3>1 DEF Kbc, SentD0, Answered
    <3> QED BY <1>2, <2>2, <3>2 DEF Talk
  <2>3. CASE step = 9
    <3>1. kbc = SentD1
      BY <1>1, <1>3, <2>3, Buffers DEF Talk
    <3>2. kbc' = Listening
      BY <1>3, <3>1 DEF Kbc, SentD1, Listening
    <3> QED BY <1>2, <2>3, <3>2 DEF Talk
  <2>4. CASE step = 11
    <3>1. kbc = SentData
      BY <1>1, <1>3, <2>4, Buffers DEF Talk
    <3>2. kbc' = Quiet
      BY <1>3, <3>1 DEF Kbc, SentData, Quiet
    <3>3. Switched'
      BY <1>2, <1>3, <3>1 DEF Switched, SentData, Kbc
    <3> QED BY <1>2, <2>4, <3>2, <3>3 DEF Talk
  <2>5. CASE step = 13
    <3>1. kbc = SentAe
      BY <1>1, <1>3, <2>5, Buffers DEF Talk
    <3>2. kbc' = Idle
      BY <1>3, <3>1 DEF Kbc, SentAe, Idle
    <3>3. Switched'
      BY <1>1, <1>2, <1>3, <2>5 DEF Talk, Switched
    <3> QED BY <1>2, <2>5, <3>2, <3>3 DEF Talk
  <2> QED BY <1>4, <2>1, <2>2, <2>3, <2>4, <2>5
<1> QED BY <1>1, <1>2, <1>5 DEF Gate, AfterGate, AfterUser, AfterTables

(* The other steps: an attempt is made only while the line is off. *)
LEMMA GateStep ==
  ASSUME TypeOK, Gate, Next
  PROVE  Gate'
<1> USE DEF TypeOK, Gate, gate, Goto, Switched, AfterGate, AfterUser, AfterTables
<1>1. CASE mbr_start
  BY <1>1 DEF mbr_start
<1>2. CASE read_loader
  BY <1>2 DEF read_loader
<1>3. CASE read_error
  BY <1>3 DEF read_error, Stop
<1>4. CASE loader_start
  BY <1>4 DEF loader_start
<1>5. CASE first_memory_entry
  BY <1>5 DEF first_memory_entry
<1>6. CASE e820_not_supported
  BY <1>6 DEF e820_not_supported, Stop
<1>7. CASE e820_error
  BY <1>7 DEF e820_error, Stop
<1>8. CASE A20_done
  BY <1>8, LineTest DEF A20_done
<1>9. CASE A20_failed
  BY <1>9 DEF A20_failed, Stop
<1>10. CASE attempt1
  BY <1>10, LineTest, Zenon DEF attempt1
<1>11. CASE attempt2
  BY <1>11, AttemptStep
<1>12. CASE attempt3
  BY <1>12, LineTest, Zenon DEF attempt3
<1>13. CASE read_kernel
  BY <1>13 DEF read_kernel
<1>14. CASE read_remainder
  BY <1>14 DEF read_remainder
<1>15. CASE read_userprog_from_disk
  BY <1>15 DEF read_userprog_from_disk
<1>16. CASE cpu_supports_64_bit_mode
  BY <1>16 DEF cpu_supports_64_bit_mode, Stop
<1>17. CASE enter_protected_mode
  BY <1>17 DEF enter_protected_mode
<1>18. CASE protected_mode_boot
  BY <1>18 DEF protected_mode_boot
<1>19. CASE pm_move_kernel
  BY <1>19 DEF pm_move_kernel
<1>20. CASE pm_setup_page_tables
  BY <1>20 DEF pm_setup_page_tables
<1>21. CASE pm_enter_long_mode
  BY <1>21 DEF pm_enter_long_mode
<1>22. CASE long_mode_boot
  BY <1>22 DEF long_mode_boot
<1>23. CASE kernel_entry
  BY <1>23 DEF kernel_entry
<1>24. CASE controller
  BY <1>24, ControllerStep
<1>25. CASE next_memory_entry
  BY <1>25 DEF next_memory_entry
<1>26. CASE e820_done
  BY <1>26 DEF e820_done
<1> QED BY <1>1, <1>2, <1>3, <1>4, <1>5, <1>6, <1>7, <1>8, <1>9, <1>10, <1>11, <1>12, <1>13, <1>14, <1>15, <1>16, <1>17, <1>18, <1>19, <1>20, <1>21, <1>22, <1>23, <1>24, <1>25, <1>26, Zenon DEF Next, Code
-----------------------------------------------------------------------------
(* Memory *)

(* Where the regions lie. *)
LEMMA Bounds ==
  /\ MbrCode.lo = 31744 /\ MbrCode.hi = 32256
  /\ LoaderCode.lo = 32256 /\ LoaderCode.hi = 34816
  /\ KernelLow.lo = 36864 /\ KernelLow.hi = 101888
  /\ KernelHigh.lo = 101888 /\ KernelHigh.hi = 114688
  /\ UserCode.lo = 114688 /\ UserCode.hi = 124928
  /\ Pml4Low.lo = 131072 /\ Pml4Low.hi = 131080
  /\ Pml4High.lo = 133120 /\ Pml4High.hi = 133128
  /\ Pdes.lo = 139264 /\ Pdes.hi = 401408
  /\ KernelCode.lo = 2097152 /\ KernelCode.hi = 2174976
  /\ Bss.lo = BssStart /\ Bss.hi = BssStart + BssSize
<1> USE Addresses DEF Write
<1>1. /\ MbrCode.lo = 31744 /\ MbrCode.hi = 32256
      /\ LoaderCode.lo = 32256 /\ LoaderCode.hi = 34816
  BY DEF MbrCode, LoaderCode, LoaderBlocks
<1>2. /\ KernelLow.lo = 36864 /\ KernelLow.hi = 101888
      /\ KernelHigh.lo = 101888 /\ KernelHigh.hi = 114688
      /\ UserCode.lo = 114688 /\ UserCode.hi = 124928
  BY DEF KernelLow, KernelHigh, UserCode, UserBlocks
<1>3. /\ Pml4Low.lo = 131072 /\ Pml4Low.hi = 131080
      /\ Pml4High.lo = 133120 /\ Pml4High.hi = 133128
      /\ Pdes.lo = 139264 /\ Pdes.hi = 401408
  BY DEF Pml4Low, Pml4High, Pdes
<1>4. /\ KernelCode.lo = 2097152 /\ KernelCode.hi = 2174976
      /\ Bss.lo = BssStart /\ Bss.hi = BssStart + BssSize
  BY DEF KernelCode, KernelBlocks, Bss
<1> QED BY <1>1, <1>2, <1>3, <1>4

(* The memory map lies between the loader and the kernel. *)
LEMMA MapBounds ==
  ASSUME env \in Machines
  PROVE  env.entries \in Nat \ {0} /\ 34824 + 20 * env.entries <= 36864
<1>1. env.entries \in Entries
  BY DEF Machines
<1>2. env.entries \in Nat \ {0} /\ e820_table(env.entries) <= 36864
  <2>1. \A n \in Entries : n \in Nat \ {0} /\ e820_table(n) <= E820End
    BY ONLY BootAssumption
  <2> QED BY <1>1, <2>1, Addresses
<1>3. e820_table(env.entries) = 34824 + 20 * env.entries
  BY <1>2, Addresses DEF e820_table
<1> QED BY <1>2, <1>3

(* Its parts. *)
LEMMA SlotBounds ==
  ASSUME NEW n \in Int
  PROVE  /\ Slot(n) \in Block /\ Slot(n).lo = 34824 + 20 * n /\ Slot(n).hi = 34844 + 20 * n
         /\ Slot(n).what = "entry" /\ Slot(n).num = n
<1>1. e820_table(n) = 34824 + 20 * n
  BY Addresses DEF e820_table
<1> QED BY <1>1, Regions DEF Slot, Entry, Write

LEMMA CountBounds ==
  ASSUME NEW n \in Int
  PROVE  /\ Count(n) \in Block /\ Count(n).lo = 34816 /\ Count(n).hi = 34820
         /\ Count(n).what = "count" /\ Count(n).num = n
BY Addresses, Regions DEF Count, Write

LEMMA ZerosBounds == Zeros \in Block /\ Zeros.lo = 34816 /\ Zeros.hi = 36864 /\ Zeros.num = 0
BY Addresses, Regions DEF Zeros, Write

(* The bounds of the stacks. *)
LEMMA StackFact ==
  /\ StackUse \in Int /\ 0 <= StackUse /\ StackUse < 31744
  /\ BssStart \in Int /\ BssSize \in Int /\ BssStart >= 2097152 /\ BssSize > 0
<1>1. StackUse \in Nat /\ StackUse < MbrTop
  BY ONLY BootAssumption
<1>2. BssStart \in Nat /\ BssStart >= KernelNew /\ BssSize \in Nat \ {0}
  BY ONLY BootAssumption
<1>3. MbrTop = 31744 /\ KernelNew = 2097152
  BY Addresses
<1> QED BY ONLY <1>1, <1>2, <1>3

(* The step that jumps out of the first sector and the ones before it. *)
LEMMA MbrMemory ==
  ASSUME TypeOK, Memory, mbr_start
  PROVE  Memory'
<1> DEFINE v == Write(MbrTop - StackUse, MbrTop, "stack", 0)
           w == Write(0, 1, "drive", 0)
           ws == <<v, w>>
<1>1. log \in Seq(Block) /\ Kept(MbrCode) /\ pc' \in {"read_loader", "halt"} /\ log' = log \o ws
  BY DEF mbr_start, Memory
<1>2. v \in Block /\ w \in Block /\ v.hi = 31744 /\ w.hi = 1
  BY StackFact, Addresses DEF Write, Block, Kinds
<1>3. Apart(v, MbrCode) /\ Apart(w, MbrCode)
  BY <1>2, Bounds DEF Apart
<1> HIDE DEF v, w
<1>4. ws \in Seq(Block) /\ Untouched(ws, MbrCode)
  BY <1>2, <1>3 DEF Untouched
<1> HIDE DEF ws
<1>5. log' \in Seq(Block) /\ KeptIn(log', MbrCode)
  BY <1>1, <1>4, Writes, Zenon
<1> QED BY <1>1, <1>5 DEF Memory, Kept, AfterMbr, AfterMap, AfterGate, AfterUser, AfterTables
(* Where the disk address packets point to. *)
LEMMA Packets ==
  /\ DAP(LoaderTop) = LoaderTop /\ DAP(KernelStart) = KernelStart
  /\ DAP(Middle) = Middle /\ DAP(UserStart) = UserStart
  /\ after_popa(KernelStart) + 512 * MaxBlocksPerOp = Middle
<1>1. DAP(32256) = 32256 /\ DAP(36864) = 36864 /\ DAP(101888) = 101888 /\ DAP(114688) = 114688
  BY DEF DAP
<1>2. after_popa(36864) + 512 * 127 = 101888
  BY DEF after_popa
<1> QED BY <1>1, <1>2, Addresses DEF MaxBlocksPerOp

LEMMA LoaderMemory ==
  ASSUME TypeOK, Memory, read_loader
  PROVE  Memory'
<1>1. log \in Seq(Block) /\ pc' = "loader" /\ log' = Append(log, LoaderCode)
  <2>1. DAP(LoaderTop) = LoaderTop
    BY Packets, Zenon
  <2>2. log' = Append(log, Write(DAP(LoaderTop), DAP(LoaderTop) + 512 * LoaderBlocks, "disk", LoaderSector))
    BY Zenon DEF read_loader, read_sectors
  <2>3. log \in Seq(Block) /\ pc' = "loader"
    BY Zenon DEF read_loader, Goto, Memory
  <2> QED BY <2>1, <2>2, <2>3, Zenon DEF LoaderCode
<1>2. log' \in Seq(Block) /\ KeptIn(log', LoaderCode)
  BY <1>1, OneWrite, Regions
<1> QED BY <1>1, <1>2 DEF Memory, Kept, AfterMbr, AfterMap, AfterGate, AfterUser, AfterTables

LEMMA StackMemory ==
  ASSUME TypeOK, Memory, loader_start
  PROVE  Memory'
<1> DEFINE v == Write(LoaderTop - StackUse, LoaderTop, "stack", 0)
           w == Write(0, 1, "drive", 0)
           ws == <<v, w>>
<1>1. pc = "loader" /\ pc' = "e820" /\ log' = log \o ws
  BY DEF loader_start, Goto
<1>2. log \in Seq(Block) /\ Kept(LoaderCode)
  BY <1>1 DEF Memory, AfterMbr
<1>3. v \in Block /\ w \in Block /\ v.hi = 32256 /\ w.hi = 1
  BY StackFact, Addresses DEF Write, Block, Kinds
<1>4. Apart(v, LoaderCode) /\ Apart(w, LoaderCode)
  BY <1>3, Bounds DEF Apart
<1> HIDE DEF v, w
<1>5. ws \in Seq(Block) /\ Untouched(ws, LoaderCode)
  BY <1>3, <1>4 DEF Untouched
<1> HIDE DEF ws
<1>6. log' \in Seq(Block) /\ KeptIn(log', LoaderCode)
  BY <1>1, <1>2, <1>5, Writes, Zenon
<1> QED BY <1>1, <1>6 DEF Memory, Kept, AfterMbr, AfterMap, AfterGate, AfterUser, AfterTables

(* What inc finds and leaves. *)
LEMMA Increment ==
  ASSUME log \in Seq(Block), NEW k \in Nat, CounterIn(log, k)
  PROVE  inc_counter = Count(k + 1)
<1> DEFINE c == Count(0)
<1>1. PICK n \in DOMAIN log : /\ log[n] = Count(k) \/ (log[n] = Zeros /\ k = 0)
                             /\ \A m \in DOMAIN log : m > n => Apart(log[m], c)
  BY DEF CounterIn
<1>3. c \in Block /\ c.lo = 34816 /\ c.hi = 34820
  BY CountBounds
<1>4. log[n].lo = 34816 /\ 34816 < log[n].hi /\ log[n].num = k
  <2>1. CASE log[n] = Count(k)
    <3>1. Count(k).lo = 34816 /\ Count(k).hi = 34820 /\ Count(k).num = k
      BY CountBounds
    <3> QED BY <2>1, <3>1
  <2>2. CASE log[n] = Zeros /\ k = 0
    BY <2>2, ZerosBounds
  <2> QED BY <1>1, <2>1, <2>2
<1> HIDE DEF c
<1>5. Value(34816) = <<log[n].what, log[n].num + (34816 - log[n].lo) \div 512>>
  BY <1>1, <1>3, <1>4, LastValue
<1>6. Value(E820Start)[2] = k
  <2>1. k + (34816 - 34816) \div 512 = k
    OBVIOUS
  <2> QED BY <1>4, <1>5, <2>1, Addresses
<1> QED BY <1>6 DEF inc_counter, Count

(* A counter that was just written. *)
LEMMA Counted ==
  ASSUME NEW l, NEW k \in Int, KeptIn(l, Count(k))
  PROVE  CounterIn(l, k)
<1>2. Count(k).lo = Count(0).lo /\ Count(k).hi = Count(0).hi
  <2>1. Count(k).lo = 34816 /\ Count(k).hi = 34820
    BY CountBounds
  <2>2. Count(0).lo = 34816 /\ Count(0).hi = 34820
    BY CountBounds
  <2> QED BY <2>1, <2>2
<1>3. PICK n \in DOMAIN l : l[n] = Count(k) /\ \A m \in DOMAIN l : m > n => Apart(l[m], Count(k))
  BY DEF KeptIn
<1>4. \A m \in DOMAIN l : m > n => Apart(l[m], Count(0))
  BY <1>2, <1>3 DEF Apart
<1> QED BY <1>3, <1>4 DEF CounterIn

(* The parts of the memory map do not overlap, and none is in the loader. *)
LEMMA SlotsApart ==
  ASSUME NEW k \in Nat
  PROVE  /\ Apart(Slot(k), LoaderCode) /\ Apart(Count(k), LoaderCode) /\ Apart(Zeros, LoaderCode)
         /\ Apart(Slot(k), Count(0)) /\ Apart(Slot(k), Count(k))
         /\ \A n \in Nat : Apart(Count(k), Slot(n))
         /\ \A n \in 0..(k - 1) : Apart(Slot(k), Slot(n))
<1>1. Slot(k).lo = 34824 + 20 * k
  BY SlotBounds
<1>2. Count(k).lo = 34816 /\ Count(k).hi = 34820 /\ Count(0).hi = 34820 /\ Zeros.lo = 34816 /\ LoaderCode.hi = 34816
  BY CountBounds, ZerosBounds, Bounds
<1>3. ASSUME NEW n \in Nat
      PROVE  Apart(Count(k), Slot(n))
  <2>1. Slot(n).lo = 34824 + 20 * n
    BY SlotBounds
  <2> QED BY <1>2, <2>1 DEF Apart
<1>4. ASSUME NEW n \in 0..(k - 1)
      PROVE  Apart(Slot(k), Slot(n))
  <2>1. Slot(n).hi = 34844 + 20 * n
    BY SlotBounds
  <2> QED BY <1>1, <2>1 DEF Apart
<1>5. /\ Apart(Slot(k), LoaderCode) /\ Apart(Count(k), LoaderCode) /\ Apart(Zeros, LoaderCode)
      /\ Apart(Slot(k), Count(0)) /\ Apart(Slot(k), Count(k))
  BY <1>1, <1>2 DEF Apart
<1> QED BY <1>3, <1>4, <1>5

(* The cleared region with its first entry. *)
LEMMA FirstMemory ==
  ASSUME TypeOK, Memory, first_memory_entry
  PROVE  Memory'
<1> DEFINE ws == <<Zeros, Slot(0)>>
<1>1. pc = "e820" /\ pc' = "e820_loop" /\ env' = env
  BY DEF first_memory_entry, Goto
<1>2. env.entries \in Nat \ {0}
  BY MapBounds DEF TypeOK
<1>3. e820_table(0) = E820Start + 8
  BY Addresses DEF e820_table
<1>4. log' = log \o ws /\ di' = e820_table(0) /\ ebx' = IF 0 + 1 < env.entries THEN 0 + 1 ELSE 0
  BY <1>3 DEF first_memory_entry, query, Slot
<1>5. log \in Seq(Block) /\ Kept(LoaderCode)
  BY <1>1 DEF Memory, AfterMbr
<1>6. /\ ws \in Seq(Block) /\ Len(ws) = 2 /\ ws[1] = Zeros /\ ws[2] = Slot(0)
  BY Regions
<1> HIDE DEF ws
<1>7. Untouched(ws, LoaderCode)
  BY <1>6, SlotsApart DEF Untouched
<1>8. log' \in Seq(Block) /\ KeptIn(log', LoaderCode)
  BY <1>4, <1>5, <1>6, <1>7, Writes, Zenon
<1>9. KeptIn(log', Slot(0))
  <2>1. \A m \in 1..Len(ws) : ~(m > 2)
    BY <1>6
  <2>2. 2 \in 1..Len(ws)
    BY <1>6
  <2>3. KeptIn(log', ws[2])
    BY <1>4, <1>5, <1>6, <2>1, <2>2, KeptNew, Zenon
  <2> QED BY <1>6, <2>3
<1>10. CounterIn(log', 0)
  <2> DEFINE n == Len(log) + 1
  <2>0. /\ n \in DOMAIN log' /\ log'[n] = ws[1]
        /\ \A m \in DOMAIN log' : m > n => log'[m] = ws[2]
    <3>1. 1 \in 1..Len(ws) /\ \A i \in 1..Len(ws) : i > 1 => i = 2
      BY <1>6
    <3>2. /\ n \in DOMAIN (log \o ws) /\ (log \o ws)[n] = ws[1]
          /\ \A m \in DOMAIN (log \o ws) : m > n => \E i \in 1..Len(ws) : i > 1 /\ (log \o ws)[m] = ws[i]
      <4>1. log \in Seq(Block) /\ ws \in Seq(Block) /\ 1 \in 1..Len(ws)
        BY <1>5, <1>6, <3>1
      <4> QED BY <4>1, Placed, Zenon
    <3> QED BY <1>4, <3>1, <3>2, Zenon
  <2>1. n \in DOMAIN log' /\ log'[n] = Zeros
    BY <1>6, <2>0
  <2>2. ASSUME NEW m \in DOMAIN log', m > n
        PROVE  Apart(log'[m], Count(0))
    <3>1. log'[m] = Slot(0)
      BY <1>6, <2>0, <2>2
    <3> QED BY <3>1, SlotsApart
  <2> QED BY <2>1, <2>2 DEF CounterIn
<1>11. Stored(log', 0)
  BY <1>9, <1>10 DEF Stored
<1>12. \E k \in 0..(env'.entries - 1) : /\ Stored(log', k) /\ di' = e820_table(k)
                                       /\ ebx' = IF k + 1 < env'.entries THEN k + 1 ELSE 0
  <2>1. 0 \in 0..(env.entries - 1)
    BY <1>2
  <2> QED BY <1>1, <1>4, <1>11, <2>1
<1> QED BY <1>1, <1>8, <1>12 DEF Memory, Kept, AfterMbr, AfterMap, AfterGate, AfterUser, AfterTables

(* One more entry, behind the ones that are there. *)
LEMMA NextMemory ==
  ASSUME TypeOK, Memory, next_memory_entry
  PROVE  Memory'
<1>1. pc = "e820_loop" /\ pc' = pc /\ env' = env /\ ebx # 0
  BY DEF next_memory_entry
<1>2. log \in Seq(Block) /\ Kept(LoaderCode)
  BY <1>1 DEF Memory, AfterMbr
<1>3. PICK k \in 0..(env.entries - 1) : /\ Stored(log, k) /\ di = e820_table(k)
                                      /\ ebx = IF k + 1 < env.entries THEN k + 1 ELSE 0
  BY <1>1 DEF Memory
<1>4. env.entries \in Nat \ {0} /\ 34824 + 20 * env.entries <= 36864
  BY MapBounds DEF TypeOK
<1>5. k \in Nat /\ k + 1 \in Nat /\ k + 1 < env.entries /\ ebx = k + 1
  BY <1>1, <1>3, <1>4
<1>6. (di + 20) % 65536 = e820_table(k + 1)
  <2>1. di = 34824 + 20 * k
    BY <1>3, <1>5, Addresses DEF e820_table
  <2>2. e820_table(k + 1) = di + 20
    BY <1>5, <2>1, Addresses DEF e820_table
  <2>3. di \in Nat /\ di + 20 < 65536
    BY <1>4, <1>5, <2>1
  <2> QED BY <2>2, <2>3
<1> DEFINE ws == <<Count(k + 1), Slot(k + 1)>>
<1>7. /\ log' = log \o ws /\ di' = e820_table(k + 1)
      /\ ebx' = IF k + 1 + 1 < env.entries THEN k + 1 + 1 ELSE 0
  <2>1. inc_counter = Count(k + 1)
    BY <1>2, <1>3, <1>5, Increment DEF Stored
  <2> QED BY <1>5, <1>6, <2>1 DEF next_memory_entry, query, Slot
<1>8. /\ ws \in Seq(Block) /\ Len(ws) = 2 /\ ws[1] = Count(k + 1) /\ ws[2] = Slot(k + 1)
  BY <1>5, Regions
<1> HIDE DEF ws
<1>9. Untouched(ws, LoaderCode) /\ \A n \in 0..k : Untouched(ws, Slot(n))
  BY <1>5, <1>8, SlotsApart DEF Untouched
<1>10. /\ log' \in Seq(Block) /\ KeptIn(log', LoaderCode)
       /\ \A n \in 0..k : KeptIn(log', Slot(n))
  <2>1. \A n \in 0..k : Kept(Slot(n))
    BY <1>3 DEF Stored, Kept
  <2> QED BY <1>2, <1>7, <1>8, <1>9, <2>1, Writes, Zenon
<1>11. KeptIn(log', ws[1]) /\ KeptIn(log', ws[2])
  <2>1. \A m \in 1..Len(ws) : ~(m > 2)
    BY <1>8
  <2>2. \A m \in 1..Len(ws) : m > 1 => Apart(ws[m], ws[1])
    BY <1>5, <1>8, SlotsApart
  <2>3. 1 \in 1..Len(ws) /\ 2 \in 1..Len(ws)
    BY <1>8
  <2> QED BY <1>2, <1>7, <1>8, <2>1, <2>2, <2>3, KeptNew, Zenon
<1>12. CounterIn(log', k + 1)
  BY <1>5, <1>8, <1>11, Counted
<1>13. Stored(log', k + 1)
  <2>1. \A n \in 0..(k + 1) : n \in 0..k \/ n = k + 1
    BY <1>5
  <2> QED BY <1>8, <1>10, <1>11, <1>12, <2>1, Zenon DEF Stored
<1>14. \E j \in 0..(env'.entries - 1) : /\ Stored(log', j) /\ di' = e820_table(j)
                                       /\ ebx' = IF j + 1 < env'.entries THEN j + 1 ELSE 0
  <2>1. k + 1 \in 0..(env.entries - 1)
    BY <1>4, <1>5
  <2> QED BY <1>1, <1>7, <1>13, <2>1
<1> QED BY <1>1, <1>10, <1>14 DEF Memory, Kept, AfterMbr, AfterMap, AfterGate, AfterUser, AfterTables

(* The last increment: all entries are counted. *)
LEMMA DoneMemory ==
  ASSUME TypeOK, Memory, e820_done
  PROVE  Memory'
<1>1. pc = "e820_loop" /\ pc' = "A20" /\ env' = env /\ ebx = 0
  BY DEF e820_done, Goto
<1>2. log \in Seq(Block) /\ Kept(LoaderCode)
  BY <1>1 DEF Memory, AfterMbr
<1>3. PICK k \in 0..(env.entries - 1) : /\ Stored(log, k)
                                      /\ ebx = IF k + 1 < env.entries THEN k + 1 ELSE 0
  BY <1>1 DEF Memory
<1>4. env.entries \in Nat \ {0}
  BY MapBounds DEF TypeOK
<1>5. k \in Nat /\ k + 1 = env.entries
  BY <1>1, <1>3, <1>4
<1> DEFINE v == Count(env.entries)
<1>6. log' = Append(log, v) /\ v \in Block
  <2>1. inc_counter = Count(k + 1)
    BY <1>2, <1>3, <1>5, Increment DEF Stored
  <2> QED BY <1>4, <1>5, <2>1, Regions DEF e820_done
<1>7. Apart(v, LoaderCode) /\ \A n \in 0..k : Apart(v, Slot(n))
  BY <1>4, <1>5, SlotsApart
<1> HIDE DEF v
<1>8. \A n \in 0..k : Kept(Slot(n))
  BY <1>3 DEF Stored, Kept
<1>9. /\ log' \in Seq(Block) /\ KeptIn(log', v) /\ KeptIn(log', LoaderCode)
      /\ \A n \in 0..k : KeptIn(log', Slot(n))
  BY <1>2, <1>6, <1>7, <1>8, OneWrite
<1>10. MapIn(log', env.entries)
  <2>1. env.entries - 1 = k
    BY <1>4, <1>5
  <2> QED BY <1>9, <2>1 DEF MapIn, v
<1> QED BY <1>1, <1>9, <1>10 DEF Memory, Kept, AfterMbr, AfterMap, AfterGate, AfterUser, AfterTables

(* Where the boot ends early, no code needs to be in memory. *)
LEMMA StopMemory ==
  ASSUME TypeOK, Memory, pc' = "halt", log' \in Seq(Block)
  PROVE  Memory'
BY DEF Memory, AfterMbr, AfterMap, AfterGate, AfterUser, AfterTables

(* A write behind the memory map leaves it and the loader alone. *)
LEMMA HighWrite ==
  ASSUME TypeOK, Memory, pc \in AfterMap, NEW v \in Block, v.lo >= KernelStart,
         log' = Append(log, v), env' = env
  PROVE  /\ log' \in Seq(Block) /\ KeptIn(log', v) /\ KeptIn(log', LoaderCode)
         /\ MapIn(log', env'.entries)
         /\ \A w : Kept(w) /\ Apart(v, w) => KeptIn(log', w)
<1>1. log \in Seq(Block) /\ Kept(LoaderCode) /\ MapIn(log, env.entries)
  BY DEF Memory, AfterMbr
<1>2. /\ env.entries \in Nat /\ Apart(v, LoaderCode) /\ Apart(v, Count(env.entries))
      /\ \A n \in 0..(env.entries - 1) : Apart(v, Slot(n))
  <2>1. v.lo \in Int /\ env \in Machines
    BY DEF Block, TypeOK
  <2>2. env.entries \in Nat \ {0} /\ 34824 + 20 * env.entries <= 36864
    BY <2>1, MapBounds
  <2>3. LoaderCode.hi = 34816 /\ Count(env.entries).hi = 34820
    <3>1. Count(env.entries).hi = 34820
      BY <2>2, CountBounds
    <3>2. LoaderCode.hi = 34816
      BY ONLY Bounds
    <3> QED BY <3>1, <3>2
  <2>4. ASSUME NEW n \in 0..(env.entries - 1)
        PROVE  Apart(v, Slot(n))
    <3>1. Slot(n).hi = 34844 + 20 * n
      BY SlotBounds
    <3>2. Slot(n).hi <= v.lo
      BY <2>1, <2>2, <3>1, Addresses
    <3> QED BY <3>2, Zenon DEF Apart
  <2>5. LoaderCode.hi <= v.lo /\ Count(env.entries).hi <= v.lo
    BY <2>1, <2>3, Addresses
  <2>6. Apart(v, LoaderCode) /\ Apart(v, Count(env.entries))
    BY <2>5, Zenon DEF Apart
  <2>7. env.entries \in Nat
    BY <2>2
  <2> QED BY <2>4, <2>6, <2>7, Zenon
<1>3. log' \in Seq(Block) /\ KeptIn(log', v) /\ \A w : Kept(w) /\ Apart(v, w) => KeptIn(log', w)
  BY <1>1, OneWrite
<1>4. KeptIn(log', LoaderCode) /\ MapIn(log', env.entries)
  BY <1>1, <1>2, <1>3 DEF MapIn, Kept
<1>5. env'.entries = env.entries
  OBVIOUS
<1> QED BY <1>3, <1>4, <1>5

LEMMA KernelMemory ==
  ASSUME TypeOK, Memory, read_kernel
  PROVE  Memory'
<1>1. pc = "read_kernel" /\ pc' = "read_kernel" /\ env' = env /\ edx > 127
  BY DEF read_kernel, MaxBlocksPerOp
<1>2. eax = KernelStart /\ ecx = KernelSector /\ edx = KernelBlocks
  BY <1>1 DEF Memory, KernelBlocks, MaxBlocksPerOp
<1>3. log' = Append(log, KernelLow)
  BY <1>2, Packets DEF read_kernel, read_sectors, KernelLow, Middle
<1>4. eax' = Middle /\ ecx' = KernelSector + MaxBlocksPerOp /\ edx' = KernelBlocks - MaxBlocksPerOp
  <2>1. eax' = after_popa(KernelStart) + MaxBlocksPerOp * 512
    BY <1>2, Zenon DEF read_kernel
  <2>2. MaxBlocksPerOp * 512 = 512 * MaxBlocksPerOp
    BY DEF MaxBlocksPerOp
  <2> QED BY <1>2, <2>1, <2>2, Packets DEF read_kernel
<1>5. KernelLow \in Block /\ KernelLow.lo >= KernelStart /\ pc \in AfterMap
  BY <1>1, Regions, Bounds, Addresses DEF AfterMap, AfterGate
<1>6. /\ log' \in Seq(Block) /\ KeptIn(log', KernelLow) /\ KeptIn(log', LoaderCode)
      /\ MapIn(log', env'.entries)
  BY <1>1, <1>3, <1>5, HighWrite
<1> QED BY <1>1, <1>4, <1>6 DEF Memory, Kept, AfterMbr, AfterMap, AfterGate, AfterUser, AfterTables

LEMMA RemainderMemory ==
  ASSUME TypeOK, Memory, read_remainder
  PROVE  Memory'
<1>1. pc = "read_kernel" /\ pc' = "read_userprog" /\ env' = env /\ edx <= 127
  BY DEF read_remainder, Goto, MaxBlocksPerOp
<1>2. /\ eax = Middle /\ ecx = KernelSector + MaxBlocksPerOp /\ edx = KernelBlocks - MaxBlocksPerOp
      /\ Kept(KernelLow)
  BY <1>1 DEF Memory, KernelBlocks, MaxBlocksPerOp
<1>3. log' = Append(log, KernelHigh)
  <2>1. Middle + 512 * (KernelBlocks - MaxBlocksPerOp) = UserStart
    BY Addresses DEF KernelBlocks, MaxBlocksPerOp
  <2> QED BY <1>2, <2>1, Packets DEF read_remainder, read_sectors, KernelHigh
<1>4. KernelHigh \in Block /\ KernelHigh.lo >= KernelStart /\ pc \in AfterMap /\ Apart(KernelHigh, KernelLow)
  BY <1>1, Regions, Bounds, Addresses DEF AfterMap, AfterGate, Apart
<1>5. /\ log' \in Seq(Block) /\ KeptIn(log', KernelHigh) /\ KeptIn(log', LoaderCode)
      /\ MapIn(log', env'.entries)
      /\ KeptIn(log', KernelLow)
  BY <1>1, <1>2, <1>3, <1>4, HighWrite
<1> QED BY <1>1, <1>5 DEF Memory, Kept, AfterMbr, AfterMap, AfterGate, AfterUser, AfterTables

LEMMA UserMemory ==
  ASSUME TypeOK, Memory, read_userprog_from_disk
  PROVE  Memory'
<1>1. pc = "read_userprog" /\ pc' = "cpu" /\ env' = env
  BY DEF read_userprog_from_disk, Goto
<1>2. Kept(KernelLow) /\ Kept(KernelHigh)
  BY <1>1 DEF Memory
<1>3. log' = Append(log, UserCode)
  BY Packets DEF read_userprog_from_disk, read_sectors, UserCode
<1>4. /\ UserCode \in Block /\ UserCode.lo >= KernelStart /\ pc \in AfterMap
      /\ Apart(UserCode, KernelLow) /\ Apart(UserCode, KernelHigh)
  BY <1>1, Regions, Bounds, Addresses DEF AfterMap, AfterGate, Apart
<1>5. /\ log' \in Seq(Block) /\ KeptIn(log', UserCode) /\ KeptIn(log', LoaderCode)
      /\ MapIn(log', env'.entries)
      /\ KeptIn(log', KernelLow) /\ KeptIn(log', KernelHigh)
  BY <1>1, <1>2, <1>3, <1>4, HighWrite
<1> QED BY <1>1, <1>5 DEF Memory, Kept, AfterMbr, AfterMap, AfterGate, AfterUser, AfterTables

(* The kernel is all there when it is moved. *)
LEMMA MoveMemory ==
  ASSUME TypeOK, Memory, pm_move_kernel
  PROVE  Memory'
<1>1. pc = "move_kernel" /\ pc' = "clean_memory" /\ env' = env
  BY DEF pm_move_kernel, Goto
<1>2. log \in Seq(Block) /\ Kept(KernelLow) /\ Kept(KernelHigh) /\ Kept(UserCode)
  BY <1>1 DEF Memory, AfterUser
<1>3. log' = Append(log, KernelCode)
  <2>1. Blocks(KernelStart, KernelBlocks, KernelSector)
    BY <1>2, KernelHolds
  <2> QED BY <2>1 DEF pm_move_kernel, KernelCode
<1>4. KernelCode \in Block /\ KernelCode.lo >= KernelStart /\ pc \in AfterMap /\ Apart(KernelCode, UserCode)
  BY <1>1, Regions, Bounds, Addresses DEF AfterMap, AfterGate, AfterUser, Apart
<1>5. /\ log' \in Seq(Block) /\ KeptIn(log', KernelCode) /\ KeptIn(log', LoaderCode)
      /\ MapIn(log', env'.entries)
      /\ KeptIn(log', UserCode)
  BY <1>1, <1>2, <1>3, <1>4, HighWrite
<1> QED BY <1>1, <1>5 DEF Memory, Kept, AfterMbr, AfterMap, AfterGate, AfterUser, AfterTables
(* The page tables are between the programs and the moved kernel. *)
LEMMA TablesMemory ==
  ASSUME TypeOK, Memory, pm_setup_page_tables
  PROVE  Memory'
<1> DEFINE v == Write(PagingStart, PagingEnd, "zero", 0)
           w == Write(PDPE, PDPE + 8 * 64, "pdpe", 0)
           ml == Write(PagingStart, PagingStart + 8, "pml4", 0)
           mh == Write(PagingStart + 2048, PagingStart + 2056, "pml4", 0)
           d == Write(PDE, PDE + 8 * 512 * 64, "pde", 0)
           ws == <<v, ml, mh, w, d>>
<1>1. pc = "clean_memory" /\ pc' = "enter_long" /\ env' = env
  BY DEF pm_setup_page_tables, Goto
<1>2. log' = log \o ws
  BY DEF pm_setup_page_tables
<1>3. /\ log \in Seq(Block) /\ Kept(LoaderCode) /\ MapIn(log, env.entries)
      /\ Kept(UserCode) /\ Kept(KernelCode)
  BY <1>1 DEF Memory, AfterMbr, AfterMap, AfterGate, AfterUser
<1>4. /\ v \in Block /\ v.lo = 131072 /\ v.hi = 401408
      /\ w \in Block /\ w.lo = 135168 /\ w.hi = 135680
  BY Addresses DEF Write, Block, Kinds
<1>4a. ml = Pml4Low /\ mh = Pml4High /\ d = Pdes
  <2>1. PDE + 8 * 512 * 64 = PagingEnd
    BY Addresses
  <2> QED BY <2>1 DEF Pml4Low, Pml4High, Pdes
<1> HIDE DEF v, w, ml, mh, d
<1>5. /\ ws \in Seq(Block) /\ Len(ws) = 5
      /\ ws[1] = v /\ ws[2] = Pml4Low /\ ws[3] = Pml4High /\ ws[4] = w /\ ws[5] = Pdes
  BY <1>4, <1>4a, Regions
<1> HIDE DEF ws
<1>6. ASSUME NEW u, u.hi \in Int, u.hi <= PagingStart
      PROVE  Untouched(ws, u)
  <2>1. Apart(v, u) /\ Apart(Pml4Low, u) /\ Apart(Pml4High, u) /\ Apart(w, u) /\ Apart(Pdes, u)
    BY <1>4, <1>6, Bounds, Addresses DEF Apart
  <2> QED BY <1>5, <2>1 DEF Untouched
<1>7. Untouched(ws, LoaderCode) /\ Untouched(ws, UserCode) /\ Untouched(ws, KernelCode)
  <2>1. LoaderCode.hi \in Int /\ LoaderCode.hi <= PagingStart /\ UserCode.hi \in Int /\ UserCode.hi <= PagingStart
    BY Bounds, Addresses
  <2>2. /\ Apart(v, KernelCode) /\ Apart(Pml4Low, KernelCode) /\ Apart(Pml4High, KernelCode)
        /\ Apart(w, KernelCode) /\ Apart(Pdes, KernelCode)
    BY <1>4, Bounds DEF Apart
  <2>3. Untouched(ws, KernelCode)
    BY <1>5, <2>2 DEF Untouched
  <2> QED BY <1>6, <2>1, <2>3, Zenon
<1>8. Untouched(ws, Count(env.entries)) /\ \A n \in 0..(env.entries - 1) : Untouched(ws, Slot(n))
  <2>1. env \in Machines
    BY DEF TypeOK
  <2>2. /\ Count(env.entries).hi \in Int /\ Count(env.entries).hi <= PagingStart
        /\ \A n \in 0..(env.entries - 1) : Slot(n).hi \in Int /\ Slot(n).hi <= PagingStart
    <3>1. env.entries \in Nat \ {0} /\ 34824 + 20 * env.entries <= 36864
      BY <2>1, MapBounds
    <3>2. ASSUME NEW n \in 0..(env.entries - 1)
          PROVE  Slot(n).hi \in Int /\ Slot(n).hi <= PagingStart
      <4>1. Slot(n).hi = 34844 + 20 * n
        BY SlotBounds
      <4> QED BY <3>1, <4>1, Addresses
    <3>3. Count(env.entries).hi = 34820
      BY <3>1, CountBounds
    <3> QED BY <3>2, <3>3, Addresses
  <2> QED BY <1>6, <2>2, Zenon
<1>9. /\ KeptIn(log', LoaderCode) /\ KeptIn(log', UserCode) /\ KeptIn(log', KernelCode)
      /\ MapIn(log', env.entries)
  <2>1. \A u : Kept(u) /\ Untouched(ws, u) => KeptIn(log', u)
    BY <1>2, <1>3, <1>5, Writes, Zenon
  <2>2. MapIn(log', env.entries)
    BY <1>3, <1>8, <2>1, Zenon DEF MapIn, Kept
  <2> QED BY <1>3, <1>7, <2>1, <2>2
<1>10. KeptIn(log', ws[2]) /\ KeptIn(log', ws[3]) /\ KeptIn(log', ws[5])
  <2>1. ASSUME NEW k \in {2, 3, 5}, NEW m \in 1..Len(ws), m > k
        PROVE  Apart(ws[m], ws[k])
    <3>1. CASE k = 2
      <4>1. m = 3 \/ m = 4 \/ m = 5
        BY <1>5, <2>1, <3>1
      <4>2. Apart(Pml4High, Pml4Low) /\ Apart(w, Pml4Low) /\ Apart(Pdes, Pml4Low)
        BY <1>4, Bounds DEF Apart
      <4> QED BY <1>5, <3>1, <4>1, <4>2, Zenon
    <3>2. CASE k = 3
      <4>1. m = 4 \/ m = 5
        BY <1>5, <2>1, <3>2
      <4>2. Apart(w, Pml4High) /\ Apart(Pdes, Pml4High)
        BY <1>4, Bounds DEF Apart
      <4> QED BY <1>5, <3>2, <4>1, <4>2, Zenon
    <3>3. CASE k = 5
      BY <1>5, <2>1, <3>3
    <3> QED BY <3>1, <3>2, <3>3, Zenon
  <2>2. 2 \in 1..Len(ws) /\ 3 \in 1..Len(ws) /\ 5 \in 1..Len(ws)
    BY <1>5
  <2> QED BY <1>2, <1>3, <1>5, <2>1, <2>2, KeptNew, Zenon
<1>11. log' \in Seq(Block)
  BY <1>2, <1>3, <1>5, Writes, Zenon
<1>12. KeptIn(log', Pml4Low) /\ KeptIn(log', Pml4High) /\ KeptIn(log', Pdes)
  BY <1>5, <1>10
<1> QED BY <1>1, <1>9, <1>11, <1>12 DEF Memory, Kept, AfterMbr, AfterMap, AfterGate, AfterUser, AfterTables

(* The stack of the kernel grows down from it, far above the page tables. *)
LEMMA LongMemory ==
  ASSUME TypeOK, Memory, long_mode_boot
  PROVE  Memory'
<1> DEFINE v == Write(KernelNew - StackUse, KernelNew, "stack", 0)
<1>1. pc = "long_mode_boot" /\ pc' = "kernel_entry" /\ env' = env /\ log' = Append(log, v)
  BY DEF long_mode_boot, Goto
<1>2. Kept(UserCode) /\ Kept(KernelCode) /\ Kept(Pml4Low) /\ Kept(Pml4High) /\ Kept(Pdes)
  BY <1>1 DEF Memory, AfterUser, AfterTables
<1>3. v \in Block /\ v.lo \in Int /\ v.lo >= 401408 /\ v.hi = 2097152
  BY StackFact, Addresses DEF Write, Block, Kinds
<1> HIDE DEF v
<1>4. /\ Apart(v, UserCode) /\ Apart(v, KernelCode)
      /\ Apart(v, Pml4Low) /\ Apart(v, Pml4High) /\ Apart(v, Pdes)
  BY <1>3, Bounds DEF Apart
<1>5. pc \in AfterMap /\ v.lo >= KernelStart
  BY <1>1, <1>3, Addresses DEF AfterMap, AfterGate, AfterUser, AfterTables
<1>6. /\ log' \in Seq(Block) /\ KeptIn(log', LoaderCode)
      /\ MapIn(log', env'.entries)
      /\ KeptIn(log', UserCode) /\ KeptIn(log', KernelCode)
      /\ KeptIn(log', Pml4Low) /\ KeptIn(log', Pml4High) /\ KeptIn(log', Pdes)
  BY <1>1, <1>2, <1>3, <1>4, <1>5, HighWrite
<1> QED BY <1>1, <1>6 DEF Memory, Kept, AfterMbr, AfterMap, AfterGate, AfterUser, AfterTables

LEMMA EntryMemory ==
  ASSUME TypeOK, Memory, kernel_entry
  PROVE  Memory'
<1>1. pc = "kernel_entry" /\ pc' = "kmain" /\ env' = env /\ log' = Append(log, Bss)
  BY DEF kernel_entry, Goto, Bss
<1>2. Kept(UserCode) /\ Kept(Pml4Low) /\ Kept(Pml4High) /\ Kept(Pdes)
  BY <1>1 DEF Memory, AfterUser, AfterTables
<1>3. Bss \in Block /\ Bss.lo \in Int /\ Bss.lo >= 2097152
  BY Regions, Bounds, StackFact
<1>4. Apart(Bss, UserCode) /\ Apart(Bss, Pml4Low) /\ Apart(Bss, Pml4High) /\ Apart(Bss, Pdes)
  BY <1>3, Bounds DEF Apart
<1>5. pc \in AfterMap /\ Bss.lo >= KernelStart
  BY <1>1, <1>3, Addresses DEF AfterMap, AfterGate, AfterUser, AfterTables
<1>6. /\ log' \in Seq(Block) /\ KeptIn(log', Bss) /\ KeptIn(log', LoaderCode)
      /\ MapIn(log', env'.entries)
      /\ KeptIn(log', UserCode)
      /\ KeptIn(log', Pml4Low) /\ KeptIn(log', Pml4High) /\ KeptIn(log', Pdes)
  BY <1>1, <1>2, <1>3, <1>4, <1>5, HighWrite
<1> QED BY <1>1, <1>6 DEF Memory, Kept, AfterMbr, AfterMap, AfterGate, AfterUser, AfterTables

(* The steps that do not write to memory. *)
LEMMA QuietMemory ==
  ASSUME TypeOK, Memory, log' = log, env' = env,
         \/ pc' = "halt"
         \/ pc' = pc /\ UNCHANGED regs
         \/ /\ pc \in {"A20", "A20_1", "attempt2", "A20_2", "A20_3"}
            /\ pc' \in {"A20", "A20_1", "attempt2", "A20_2", "A20_3"}
         \/ /\ pc \in {"A20", "A20_1", "A20_2", "A20_3"} /\ pc' = "read_kernel"
            /\ eax' = KernelStart /\ ecx' = KernelSector /\ edx' = KernelBlocks
         \/ pc = "cpu" /\ pc' = "enter_protected"
         \/ pc = "enter_protected" /\ pc' = "protected"
         \/ pc = "protected" /\ pc' = "move_kernel"
         \/ pc = "enter_long" /\ pc' = "long_mode_boot"
  PROVE  Memory'
<1> USE DEF Memory, Kept, AfterMbr, AfterMap, AfterGate, AfterUser, AfterTables
<1>1. CASE pc' = "halt"
  BY <1>1
<1>2. CASE pc' = pc /\ UNCHANGED regs
  BY <1>2 DEF regs, list
<1>3. CASE /\ pc \in {"A20", "A20_1", "attempt2", "A20_2", "A20_3"}
           /\ pc' \in {"A20", "A20_1", "attempt2", "A20_2", "A20_3"}
  BY <1>3
<1>4. CASE /\ pc \in {"A20", "A20_1", "A20_2", "A20_3"} /\ pc' = "read_kernel"
           /\ eax' = KernelStart /\ ecx' = KernelSector /\ edx' = KernelBlocks
  BY <1>4
<1>5. CASE pc = "cpu" /\ pc' = "enter_protected"
  BY <1>5
<1>6. CASE pc = "enter_protected" /\ pc' = "protected"
  BY <1>6
<1>7. CASE pc = "protected" /\ pc' = "move_kernel"
  BY <1>7
<1>8. CASE pc = "enter_long" /\ pc' = "long_mode_boot"
  BY <1>8
<1> QED BY <1>1, <1>2, <1>3, <1>4, <1>5, <1>6, <1>7, <1>8, Zenon

(* The regions are kept. *)
LEMMA MemoryStep ==
  ASSUME TypeOK, Memory, Next
  PROVE  Memory'
<1>1. CASE mbr_start
  BY <1>1, MbrMemory
<1>2. CASE read_loader
  BY <1>2, LoaderMemory
<1>3. CASE read_error
  <2>1. log' = log /\ env' = env /\ pc' = "halt"
    BY <1>3 DEF read_error, Stop
  <2> QED BY <2>1, QuietMemory
<1>4. CASE loader_start
  BY <1>4, StackMemory
<1>5. CASE first_memory_entry
  BY <1>5, FirstMemory
<1>6. CASE e820_not_supported
  <2>1. pc' = "halt" /\ log' = Append(log, Zeros) /\ log \in Seq(Block)
    BY <1>6 DEF e820_not_supported, Stop, Memory
  <2>2. log' \in Seq(Block)
    BY <2>1, Regions
  <2> QED BY <2>1, <2>2, StopMemory
<1>7. CASE e820_error
  <2>1. pc = "e820_loop" /\ pc' = "halt" /\ log' = Append(log, inc_counter) /\ log \in Seq(Block)
    BY <1>7 DEF e820_error, Stop, Memory
  <2>2. PICK k \in 0..(env.entries - 1) : Stored(log, k)
    BY <2>1 DEF Memory
  <2>3. k \in Nat /\ k + 1 \in Int
    OBVIOUS
  <2>4. inc_counter = Count(k + 1)
    BY <2>1, <2>2, <2>3, Increment DEF Stored
  <2>5. log' \in Seq(Block)
    BY <2>1, <2>3, <2>4, Regions
  <2> QED BY <2>1, <2>5, StopMemory
<1>8. CASE A20_done
  <2>1. /\ log' = log /\ env' = env
        /\ pc \in {"A20", "A20_1", "A20_2", "A20_3"} /\ pc' = "read_kernel"
        /\ eax' = KernelStart /\ ecx' = KernelSector /\ edx' = KernelBlocks
    BY <1>8 DEF A20_done
  <2> QED BY <2>1, QuietMemory
<1>9. CASE A20_failed
  <2>1. log' = log /\ env' = env /\ pc' = "halt"
    BY <1>9 DEF A20_failed, Stop
  <2> QED BY <2>1, QuietMemory
<1>10. CASE attempt1 \/ attempt2 \/ attempt3
  <2>1. /\ log' = log /\ env' = env
        /\ pc \in {"A20", "A20_1", "attempt2", "A20_2", "A20_3"}
        /\ pc' \in {"A20", "A20_1", "attempt2", "A20_2", "A20_3"}
    BY <1>10 DEF attempt1, attempt2, attempt3, Goto
  <2> QED BY <2>1, QuietMemory
<1>11. CASE read_kernel
  BY <1>11, KernelMemory
<1>12. CASE read_remainder
  BY <1>12, RemainderMemory
<1>13. CASE read_userprog_from_disk
  BY <1>13, UserMemory
<1>14. CASE cpu_supports_64_bit_mode
  <2>1. log' = log /\ env' = env /\ (pc' = "halt" \/ (pc = "cpu" /\ pc' = "enter_protected"))
    BY <1>14 DEF cpu_supports_64_bit_mode, Stop
  <2> QED BY <2>1, QuietMemory
<1>15. CASE enter_protected_mode
  <2>1. log' = log /\ env' = env /\ pc = "enter_protected" /\ pc' = "protected"
    BY <1>15 DEF enter_protected_mode, Goto
  <2> QED BY <2>1, QuietMemory
<1>16. CASE protected_mode_boot
  <2>1. log' = log /\ env' = env /\ pc = "protected" /\ pc' = "move_kernel"
    BY <1>16 DEF protected_mode_boot, Goto
  <2> QED BY <2>1, QuietMemory
<1>17. CASE pm_move_kernel
  BY <1>17, MoveMemory
<1>18. CASE pm_setup_page_tables
  BY <1>18, TablesMemory
<1>19. CASE pm_enter_long_mode
  <2>1. log' = log /\ env' = env /\ pc = "enter_long" /\ pc' = "long_mode_boot"
    BY <1>19 DEF pm_enter_long_mode, Goto
  <2> QED BY <2>1, QuietMemory
<1>20. CASE long_mode_boot
  BY <1>20, LongMemory
<1>21. CASE kernel_entry
  BY <1>21, EntryMemory
<1>22. CASE controller
  <2>1. log' = log /\ env' = env /\ pc' = pc /\ UNCHANGED regs
    BY <1>22 DEF controller
  <2> QED BY <2>1, QuietMemory
<1>23. CASE next_memory_entry
  BY <1>23, NextMemory
<1>24. CASE e820_done
  BY <1>24, DoneMemory
<1> QED
  BY <1>1, <1>2, <1>3, <1>4, <1>5, <1>6, <1>7, <1>8, <1>9, <1>10, <1>11, <1>12, <1>13, <1>14,
     <1>15, <1>16, <1>17, <1>18, <1>19, <1>20, <1>21, <1>22, <1>23, <1>24, Zenon DEF Next, Code
-----------------------------------------------------------------------------
(* The theorems *)

(* The BIOS has loaded the first sector, and nothing has happened yet. *)
LEMMA InitInv == Init => IInv
<1> SUFFICES ASSUME Init
             PROVE  IInv
  OBVIOUS
<1>1. TypeOK
  <2>4. pc \in Labels /\ step \in 1..13
    <3>1. pc = "mbr" /\ step = 1
      BY Zenon DEF Init
    <3> QED BY <3>1 DEF Labels
  <2>5. env \in Machines /\ a20 \in BOOLEAN
    BY Zenon DEF Init, Machines
  <2> QED BY <2>4, <2>5 DEF TypeOK
<1>2. Memory
  <2>1. log = <<MbrCode>> /\ pc = "mbr"
    BY DEF Init, MbrCode
  <2>2. log \in Seq(Block) /\ Kept(MbrCode)
    BY <2>1, Regions DEF Kept, KeptIn
  <2> QED BY <2>1, <2>2 DEF Memory, AfterMbr, AfterMap, AfterGate, AfterUser, AfterTables
<1>3. Gate
  BY DEF Init, Gate, Idle, Kbc, AfterGate, AfterUser, AfterTables
<1>4. HaltsForAReason
  BY DEF Init, HaltsForAReason
<1> QED BY <1>1, <1>2, <1>3, <1>4 DEF IInv

(* No step breaks the invariant. *)
LEMMA StepInv == IInv /\ [Code \/ controller]_vars => IInv'
<1> SUFFICES ASSUME IInv, [Code \/ controller]_vars
             PROVE  IInv'
  OBVIOUS
<1>1. TypeOK /\ Memory /\ Gate /\ HaltsForAReason
  BY DEF IInv
<1>2. CASE Code \/ controller
  <2>1. Next
    BY <1>2 DEF Next
  <2> QED BY <1>1, <2>1, TypeStep, MemoryStep, GateStep, HaltStep DEF IInv
<1>3. CASE UNCHANGED vars
  <2>1. TypeOK'
    BY <1>1, <1>3 DEF vars, TypeOK
  <2>2. Memory'
    <3>1. log' = log /\ env' = env /\ pc' = pc /\ UNCHANGED regs
      BY <1>3 DEF vars, regs, list
    <3> QED BY <1>1, <3>1, QuietMemory
  <2>3. Gate'
    BY <1>1, <1>3, SMTT(60) DEF vars, Gate, Talk, Switched
  <2>4. HaltsForAReason'
    BY <1>1, <1>3, Zenon DEF vars, HaltsForAReason
  <2> QED BY <2>1, <2>2, <2>3, <2>4 DEF IInv
<1> QED BY <1>2, <1>3

LEMMA Invariance == Spec => []IInv
BY InitInv, StepInv, PTL DEF Spec

(* Boot, loader.asm and protectedmode.asm: the loader, the first sector and  *)
(* the moved kernel are executed as they were read from the disk, however    *)
(* deep the stacks are and however many entries the memory map has.          *)
THEOREM CodeAlwaysIntact == Spec => []CodeIntact
<1>1. IInv => CodeIntact
  <2> SUFFICES ASSUME IInv
               PROVE  CodeIntact
    OBVIOUS
  <2>1. TypeOK /\ Memory /\ log \in Seq(Block)
    BY DEF IInv, Memory
  <2>2. pc \in {"mbr", "read_loader"} => Blocks(MbrTop, 1, 0)
    <3> SUFFICES ASSUME pc \in {"mbr", "read_loader"}
                 PROVE  Blocks(MbrTop, 1, 0)
      OBVIOUS
    <3>1. Kept(MbrCode)
      BY <2>1 DEF Memory
    <3>2. Holds(MbrCode.lo, MbrCode.hi, MbrCode.what, MbrCode.num)
      BY <2>1, <3>1, KeptHolds, Regions
    <3>3. MbrCode.lo = MbrTop /\ MbrCode.hi = MbrTop + 512 * 1 /\ MbrCode.what = "disk" /\ MbrCode.num = 0
      BY Addresses DEF MbrCode, Write
    <3>4. Holds(MbrTop, MbrTop + 512 * 1, "disk", 0)
      BY <3>2, <3>3
    <3> QED BY <3>4, Zenon DEF Blocks
  <2>3. ASSUME pc \notin {"mbr", "read_loader", "halt", "kernel_entry", "kmain"}
        PROVE  Blocks(LoaderTop, LoaderBlocks, LoaderSector)
    <3>1. pc \in AfterMbr
      BY <2>1, <2>3 DEF TypeOK, Labels
    <3>2. Kept(LoaderCode)
      BY <2>1, <3>1 DEF Memory
    <3>3. Holds(LoaderCode.lo, LoaderCode.hi, LoaderCode.what, LoaderCode.num)
      BY <2>1, <3>2, KeptHolds, Regions
    <3>4. /\ LoaderCode.lo = LoaderTop /\ LoaderCode.hi = LoaderTop + 512 * LoaderBlocks
          /\ LoaderCode.what = "disk" /\ LoaderCode.num = LoaderSector
      BY DEF LoaderCode, Write
    <3> QED BY <3>3, <3>4, Zenon DEF Blocks
  <2>4. ASSUME pc \in {"clean_memory", "enter_long", "long_mode_boot", "kernel_entry"}
        PROVE  Blocks(KernelNew, KernelBlocks, KernelSector)
    <3>1. Kept(KernelCode)
      BY <2>1, <2>4 DEF Memory
    <3>2. Holds(KernelCode.lo, KernelCode.hi, KernelCode.what, KernelCode.num)
      BY <2>1, <3>1, KeptHolds, Regions
    <3>3. /\ KernelCode.lo = KernelNew /\ KernelCode.hi = KernelNew + 512 * KernelBlocks
          /\ KernelCode.what = "disk" /\ KernelCode.num = KernelSector
      BY DEF KernelCode, Write
    <3> QED BY <3>2, <3>3, Zenon DEF Blocks
  <2> QED BY <2>2, <2>3, <2>4 DEF CodeIntact
<1> QED BY <1>1, Invariance, PTL

(* endless_loop of the boot stages: the message on the screen is true of the *)
(* machine, and the A20 error means that none of the three attempts could    *)
(* have worked, in whatever order the controller took its commands.          *)
THEOREM HaltsOnlyForAReason == Spec => []HaltsForAReason
<1>1. IInv => HaltsForAReason
  BY DEF IInv
<1> QED BY <1>1, Invariance, PTL

(* kernel_entry: kmain starts in long mode with the address line on, the     *)
(* keyboard controller idle and all the loader built in memory untouched.    *)
THEOREM HandoverComplete == Spec => []Handover
<1>1. IInv => Handover
  <2> SUFFICES ASSUME IInv, pc = "kmain"
               PROVE  Handover
    BY Zenon DEF Handover
  <2>1. TypeOK /\ Memory /\ Gate /\ log \in Seq(Block) /\ env \in Machines
    BY DEF IInv, Memory, TypeOK
  <2>2. /\ MapIn(log, env.entries) /\ Kept(UserCode)
        /\ Kept(Pml4Low) /\ Kept(Pml4High) /\ Kept(Pdes) /\ Kept(Bss)
    BY <2>1 DEF Memory, AfterMap, AfterGate, AfterUser, AfterTables
  <2>3. mode = "long" /\ a20 /\ kbc = Idle
    BY <2>1 DEF Gate, AfterGate, AfterUser, AfterTables
  <2>4. kbc.keys /\ kbc.ibf = "" /\ ~kbc.obf
    BY <2>3 DEF Idle, Kbc
  <2>5. Value(E820Start) = <<"count", env.entries>>
    <3>1. env.entries \in Int /\ Count(env.entries) \in Block /\ Kept(Count(env.entries))
      <4>1. env.entries \in Int
        BY <2>1, MapBounds
      <4> QED BY <2>2, <4>1, CountBounds DEF MapIn, Kept
    <3>2. /\ Count(env.entries).lo = 34816 /\ Count(env.entries).hi = 34820
          /\ Count(env.entries).what = "count" /\ Count(env.entries).num = env.entries
      BY <3>1, CountBounds
    <3>3. Value(34816) = <<"count", env.entries + (34816 - 34816) \div 512>>
      BY <2>1, <3>1, <3>2, KeptValue
    <3> QED BY <3>1, <3>3, Addresses
  <2>6. ASSUME NEW n \in 0..(env.entries - 1), NEW b \in {0, 19}
        PROVE  Value(E820Start + 8 + 20 * n + b) = <<"entry", n>>
    <3> DEFINE x == 34824 + 20 * n + b
               t == Slot(n)
    <3>1. n \in Int /\ t \in Block /\ Kept(t)
      BY <2>2, Regions DEF MapIn, Kept
    <3>2. t.lo = 34824 + 20 * n /\ t.hi = 34844 + 20 * n /\ t.what = "entry" /\ t.num = n
      BY <3>1, SlotBounds
    <3>3. x \in Int /\ t.lo <= x /\ x < t.hi /\ (x - t.lo) \div 512 = 0
      <4>1. x - t.lo = b
        BY <3>1, <3>2
      <4>2. 0 \div 512 = 0 /\ 19 \div 512 = 0
        OBVIOUS
      <4> QED BY <3>1, <3>2, <4>1, <4>2
    <3>4. x = E820Start + 8 + 20 * n + b
      BY <3>1, Addresses
    <3> HIDE DEF x, t
    <3>5. Value(x) = <<t.what, t.num + (x - t.lo) \div 512>>
      BY <2>1, <3>1, <3>3, KeptValue
    <3> QED BY <3>1, <3>2, <3>3, <3>4, <3>5
  <2>7. Blocks(UserStart, UserBlocks, UserSector)
    <3>1. Holds(UserCode.lo, UserCode.hi, UserCode.what, UserCode.num)
      BY <2>1, <2>2, KeptHolds, Regions
    <3>2. /\ UserCode.lo = UserStart /\ UserCode.hi = UserStart + 512 * UserBlocks
          /\ UserCode.what = "disk" /\ UserCode.num = UserSector
      BY DEF UserCode, Write
    <3> QED BY <3>1, <3>2, Zenon DEF Blocks
  <2>8. Value(BssStart)[1] = "zero" /\ Value(BssStart + BssSize - 1)[1] = "zero"
    <3>1. Bss \in Block /\ Bss.lo = BssStart /\ Bss.hi = BssStart + BssSize /\ Bss.what = "zero"
      BY Regions, Bounds DEF Bss, Write
    <3>2. ASSUME NEW x \in Int, BssStart <= x, x < BssStart + BssSize
          PROVE  Value(x)[1] = "zero"
      <4>1. Value(x) = <<Bss.what, Bss.num + (x - Bss.lo) \div 512>>
        BY <2>1, <2>2, <3>1, <3>2, KeptValue
      <4> QED BY <3>1, <4>1
    <3> QED BY <3>2, StackFact
  <2>9. Value(PagingStart) = <<"pml4", 0>>
    <3>1. Pml4Low \in Block /\ Pml4Low.lo = 131072 /\ Pml4Low.hi = 131080 /\ Pml4Low.what = "pml4" /\ Pml4Low.num = 0
      BY Regions, Bounds DEF Pml4Low, Write
    <3>2. Value(131072) = <<"pml4", 0 + (131072 - 131072) \div 512>>
      BY <2>1, <2>2, <3>1, KeptValue
    <3> QED BY <3>2, Addresses
  <2>10. Value(PagingStart + 256 * 8) = <<"pml4", 0>>
    <3>1. Pml4High \in Block /\ Pml4High.lo = 133120 /\ Pml4High.hi = 133128 /\ Pml4High.what = "pml4" /\ Pml4High.num = 0
      BY Regions, Bounds DEF Pml4High, Write
    <3>2. Value(133120) = <<"pml4", 0 + (133120 - 133120) \div 512>>
      BY <2>1, <2>2, <3>1, KeptValue
    <3> QED BY <3>2, Addresses
  <2>11. Holds(PDE, PagingEnd, "pde", 0)
    <3>1. Holds(Pdes.lo, Pdes.hi, Pdes.what, Pdes.num)
      BY <2>1, <2>2, KeptHolds, Regions
    <3>2. Pdes.lo = PDE /\ Pdes.hi = PagingEnd /\ Pdes.what = "pde" /\ Pdes.num = 0
      BY DEF Pdes, Write
    <3> QED BY <3>1, <3>2
  <2>12. Translated(0) = 0 /\ MiB * Translated(1) = KernelNew
    BY Addresses DEF Translated, pde, MiB
  <2> QED BY <2>3, <2>4, <2>5, <2>6, <2>7, <2>8, <2>9, <2>10, <2>11, <2>12, Zenon DEF Handover
<1> QED BY <1>1, Invariance, PTL
=============================================================================
