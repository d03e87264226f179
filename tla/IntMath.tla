------------------------------- MODULE IntMath -------------------------------
(***************************************************************************)
(* The integer helpers of lib/math, bit by bit: what modules Buddy and     *)
(* MemMap take flp2, clp2, ilog2, upow and round_up_po2 for is what the    *)
(* code computes.  A word has Bits bits (64 in the code), Bits a power of  *)
(* two.  upow runs one turn of its loop a step.                            *)
(***************************************************************************)
EXTENDS Integers, Sequences, SequencesExt, FiniteSetsExt, Bitwise

CONSTANTS
  Bits,         \* bits of uint64_t
  MaxExp        \* bound: exponents

VARIABLES
  value, e,     \* the arguments
  p, y, exp,    \* the variables of upow
  pc

M == 2^Bits
Word == 0..(M - 1)

(* the shifts 1, 2, 4, ... below Bits *)
Shifts == SetToSortSeq({2^k : k \in {j \in 0..Bits : 2^j < Bits}}, <)
-----------------------------------------------------------------------------
(* lib/math/round.c *)

(* -power_of_2, in two's complement *)
round_up_po2(v, power_of_2) == ((v + power_of_2 - 1) % M) & (M - power_of_2)

(* every bit below the highest one set *)
Smear(v) == FoldLeft(LAMBDA w, s : w | shiftR(w, s), v, Shifts)

(* a plausible bug: the last shift is missing *)
flp2_short(v) == LET w == FoldLeft(LAMBDA u, s : u | shiftR(u, s), v, Front(Shifts)) IN w - shiftR(w, 1)

flp2(v) == LET w == Smear(v) IN w - shiftR(w, 1)
clp2(v) == (Smear((v - 1) % M) + 1) % M

(* lib/math/ilog2.c: the half that is not zero, then halves of halves *)
ROUND(r, w) ==
  IF r.v & ((2^w - 1) * 2^w) # 0 THEN [p |-> r.p + w, v |-> shiftR(r.v, w)] ELSE r

ilog2(vv) ==
  LET half == Bits \div 2
      high == shiftR(vv, half)
      start == IF high # 0 THEN [p |-> half, v |-> high] ELSE [p |-> 0, v |-> vv]
  IN  FoldLeft(ROUND, start, Tail(Reverse(Shifts))).p
-----------------------------------------------------------------------------
(* lib/math/upow.c *)

Init ==
  /\ value \in Word /\ e \in 0..MaxExp
  /\ p = value /\ y = 1 /\ exp = e
  /\ pc = "loop"

upow ==
  /\ pc = "loop"
  /\ y' = IF exp & 1 # 0 THEN (p * y) % M ELSE y
  /\ exp' = shiftR(exp, 1)
  /\ IF exp' = 0 THEN pc' = "return" /\ UNCHANGED p ELSE p' = (p * p) % M /\ UNCHANGED pc
  /\ UNCHANGED <<value, e>>
-----------------------------------------------------------------------------
(* Properties *)

Powers == {2^k : k \in 0..(Bits - 1)}

(* b to the k, modulo 2^Bits, by k multiplications *)
Power(b, k) == LET f[n \in 0..k] == IF n = 0 THEN 1 ELSE (b * f[n - 1]) % M IN f[k]

(* flp2 is the greatest power of two that is not above its argument, clp2    *)
(* the least one that is not below it, or 0 where there is none, and ilog2   *)
(* the exponent of flp2: the blocks of the buddy allocator neither shrink    *)
(* nor grow by a factor of two at a power of two, nor in the highest bit.    *)
(* round_up_po2 is the least multiple that is not below its argument, as     *)
(* long as that is a word.  The loop of upow keeps y * p^exp, so that it     *)
(* returns the power modulo 2^Bits, whichever bits of the exponent are set.  *)
HelpersExact ==
  /\ flp2(value) = (IF value = 0 THEN 0 ELSE Max({q \in Powers : q <= value}))
  /\ clp2(value) = LET above == {q \in Powers : q >= value}
                   IN  IF value = 0 \/ above = {} THEN 0 ELSE Min(above)
  /\ value > 0 => 2^ilog2(value) = flp2(value)
  /\ \A q \in Powers : value <= M - q =>
       LET r == round_up_po2(value, q) IN r % q = 0 /\ value <= r /\ r < value + q
  /\ (y * (IF pc = "loop" THEN Power(p, exp) ELSE 1)) % M = Power(value, e)
=============================================================================
