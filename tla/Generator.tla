----------------------------- MODULE Generator ------------------------------
(***************************************************************************)
(* The random number generators, of 31 bits (rnd.c) and, for the keys of   *)
(* tpch_tools at the largest scales, of 64 bits (rng64.c), and how a       *)
(* stream jumps over n numbers without drawing them: in src/dbgen with     *)
(* arithmetic of 32 bits (speed_seed.c: RND_seed, RND_shift), in           *)
(* tpch_tools with 64 (speed_seed.c: NthElement; rng64.c: AdvanceRand64).  *)
(*                                                                         *)
(* The moduli are smaller.  RND_ModMult's product, in four parts that a    *)
(* double holds exactly, is the product modulo 2^31 - 1; NthElement's do   *)
(* not pass 64 bits, and those of AdvanceRand64 are meant to.              *)
(***************************************************************************)
EXTENDS Integers

CONSTANTS
  GM, GA,        \* Modulus and Multiplier
  GWidth,        \* 2^64
  RNG_A, RNG_C,  \* rng64.h: the multiplier, and the increment, which is 1
  GSeeds,        \* seeds to start from
  Jumps,         \* numbers to jump over
  TopMask        \* 0x40000000: the highest bit of the modulus

\* 1 << n.
Pow2[n \in Nat] == IF n = 0 THEN 1 ELSE 2 * Pow2[n - 1]

ASSUME GeneratorAssumption ==
  /\ GM \in Nat \ {0} /\ GA \in 1..(GM - 1) /\ GWidth \in Nat \ {0}
  /\ RNG_A \in 1..(GWidth - 1) /\ RNG_C = 1
  /\ GSeeds \subseteq 0..(GM - 1) /\ GSeeds \subseteq 0..(GWidth - 1)
  /\ Jumps \subseteq (1 - GM)..GWidth
  /\ TopMask \in 1..GM /\ 2 * TopMask >= GM /\ \E n \in 0..62 : TopMask = Pow2[n]

VARIABLES
  gen_pc,        \* "call", "nth", "top" (the highest bit), "bits", "mask", "return"
  how,           \* "shift" (RND_shift), "nth" (NthElement), "64" (AdvanceRand64)
  from, count,   \* the seed and the jump asked for
  N, Z, Mult,    \* NthElement
  nBit, Apow, Dsum, \* AdvanceRand64
  Order, Mask, Result, \* RND_seed
  value          \* the seed returned

gen_vars == <<gen_pc, how, from, count, N, Z, Mult, nBit, Apow, Dsum,
              Order, Mask, Result, value>>

-----------------------------------------------------------------------------
NextRand31(seed) == (seed * GA) % GM
NextRand64(seed) == (seed * RNG_A + RNG_C) % GWidth

\* The numbers that are drawn one after the other, the seed first.
After31(n, seed) ==
  LET f[k \in Nat] == IF k = 0 THEN seed ELSE NextRand31(f[k - 1]) IN f[n]
After64(n, seed) ==
  LET f[k \in Nat] == IF k = 0 THEN seed ELSE NextRand64(f[k - 1]) IN f[n]

\* The modulus is prime: as many numbers as there are lead back to the first one.
ASSUME PeriodAssumption == \A seed \in GSeeds \ {0} : After31(GM - 1, seed) = seed

GenInit ==
  /\ gen_pc = "call" /\ how = "nth"
  /\ from = 0 /\ count = 0 /\ value = 0
  /\ N = 0 /\ Z = 0 /\ Mult = 1
  /\ nBit = 0 /\ Apow = 1 /\ Dsum = 1
  /\ Order = 0 /\ Mask = 0 /\ Result = 1

\* A jump backwards is only asked of src/dbgen, whose row_stop rounds down too.
CallShift ==
  /\ gen_pc = "call"
  /\ how' = "shift"
  /\ from' \in GSeeds \ {0} /\ count' \in {n \in Jumps : n > -GM /\ n < GM}
  /\ Order' = IF count' < 0 THEN GM - 1 + count' ELSE count'
  /\ Mask' = TopMask /\ Result' = 1
  /\ gen_pc' = "mask"
  /\ UNCHANGED <<N, Z, Mult, nBit, Apow, Dsum, value>>

\* RND_seed: the mask goes down from the highest bit to the last one.
ShiftMask ==
  /\ gen_pc = "mask" /\ Mask > 0
  /\ LET square == (Result * Result) % GM
     IN  Result' = IF Mask > Order THEN Result
                   ELSE IF (Order \div Mask) % 2 = 1 THEN (square * GA) % GM ELSE square
  /\ Mask' = Mask \div 2
  /\ UNCHANGED <<gen_pc, how, from, count, N, Z, Mult, nBit, Apow, Dsum, Order, value>>

EndShift ==
  /\ gen_pc = "mask" /\ Mask = 0
  /\ value' = (from * Result) % GM
  /\ gen_pc' = "return"
  /\ UNCHANGED <<how, from, count, N, Z, Mult, nBit, Apow, Dsum, Order, Mask, Result>>

CallNth ==
  /\ gen_pc = "call"
  /\ how' = "nth"
  /\ from' \in GSeeds /\ count' \in Jumps \cap Nat
  /\ N' = count' /\ Z' = from' /\ Mult' = GA
  /\ gen_pc' = "nth"
  /\ UNCHANGED <<nBit, Apow, Dsum, Order, Mask, Result, value>>

\* Faulty variant: the factor is squared before it is used.
Factor_After == (Mult * Mult) % GM
Factor == Mult

\* NthElement: one pass of its loop.
NthElement ==
  /\ gen_pc = "nth" /\ N > 0
  /\ Z' = IF N % 2 # 0 THEN (Factor * Z) % GM ELSE Z
  /\ N' = N \div 2
  /\ Mult' = (Mult * Mult) % GM
  /\ UNCHANGED <<gen_pc, how, from, count, nBit, Apow, Dsum, Order, Mask, Result, value>>

EndNth ==
  /\ gen_pc = "nth" /\ N = 0
  /\ value' = Z
  /\ gen_pc' = "return"
  /\ UNCHANGED <<how, from, count, N, Z, Mult, nBit, Apow, Dsum, Order, Mask, Result>>

CallAdvance ==
  /\ gen_pc = "call"
  /\ how' = "64"
  /\ from' \in GSeeds /\ count' \in Jumps \cap Nat
  /\ Apow' = RNG_A /\ Dsum' = RNG_C /\ nBit' = 0
  /\ value' = from'
  /\ gen_pc' = IF count' = 0 THEN "return" ELSE "top"
  /\ UNCHANGED <<N, Z, Mult, Order, Mask, Result>>

\* AdvanceRand64: the highest bit of the count ...
HighestBit ==
  /\ gen_pc = "top"
  /\ IF count \div Pow2[nBit] = 1 THEN gen_pc' = "bits" /\ UNCHANGED nBit
                              ELSE nBit' = nBit + 1 /\ UNCHANGED gen_pc
  /\ UNCHANGED <<how, from, count, N, Z, Mult, Apow, Dsum, Order, Mask, Result, value>>

\* ... and for each bit below it the doubled count, and one more if the bit is set.
NextBit ==
  /\ gen_pc = "bits" /\ nBit > 0
  /\ nBit' = nBit - 1
  /\ LET sum == (Dsum * (Apow + 1)) % GWidth
         pow == (Apow * Apow) % GWidth
         odd == (count \div Pow2[nBit']) % 2 = 1
     IN  /\ Dsum' = IF odd THEN (sum + pow) % GWidth ELSE sum
         /\ Apow' = IF odd THEN (pow * RNG_A) % GWidth ELSE pow
  /\ UNCHANGED <<gen_pc, how, from, count, N, Z, Mult, Order, Mask, Result, value>>

EndAdvance ==
  /\ gen_pc = "bits" /\ nBit = 0
  /\ value' = (from * Apow + Dsum * RNG_C) % GWidth
  /\ gen_pc' = "return"
  /\ UNCHANGED <<how, from, count, N, Z, Mult, nBit, Apow, Dsum, Order, Mask, Result>>

GenNext ==
  \/ CallShift \/ ShiftMask \/ EndShift
  \/ CallNth \/ NthElement \/ EndNth
  \/ CallAdvance \/ HighestBit \/ NextBit \/ EndAdvance

GenSpec == GenInit /\ [][GenNext]_gen_vars

-----------------------------------------------------------------------------
(***************************************************************************)
(* Property.                                                               *)
(***************************************************************************)

\* A jump over n numbers leaves the seed where drawing them one by one does, in all three
\* implementations and for every n, none and one included; and a jump back over n leaves it
\* where n draws lead to where it was.  Seeding a part of a table, and the boundary of a row
\* that drew more than was reserved, rely on it.
JumpIsSteps ==
  gen_pc = "return" =>
    CASE how = "64" -> value = After64(count, from)
      [] how # "64" /\ count < 0 -> After31(-count, value) = from
      [] OTHER      -> value = After31(count, from)
=============================================================================
