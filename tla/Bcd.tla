-------------------------------- MODULE Bcd --------------------------------
(***************************************************************************)
(* Arithmetic on decimal digits (bcd2.c), which makes the sparse keys of   *)
(* orders (build.c: hd_sparse) where the compiler has no integers of 64    *)
(* bits; the Makefile of dbgen does not tell it of any.                    *)
(*                                                                         *)
(* A number is the function from the place of a digit to the digit; the    *)
(* code has seven of them in each of two longs.  Subtraction and what uses *)
(* it (bcd2_sub, bcd2_mod, bcd2_cmp) are called from nowhere and left out. *)
(***************************************************************************)
EXTENDS Integers

CONSTANTS
  BcdDigits,       \* the digits of a number, 14
  Numbers,         \* numbers to calculate with
  Operands         \* addends, multipliers and divisors

\* The value of a place.
TenTo[d \in Nat] == IF d = 0 THEN 1 ELSE 10 * TenTo[d - 1]

ASSUME BcdAssumption ==
  /\ BcdDigits \in Nat \ {0}
  /\ Numbers \subseteq 0..(TenTo[BcdDigits] - 1) /\ Operands \subseteq 0..(TenTo[BcdDigits] - 1)

Place == 0..(BcdDigits - 1)
Zero  == [d \in Place |-> 0]

\* bin_bcd2 takes the digits that sprintf prints, bcd2_bin adds them up: here all digits
\* of the number, in the code the seven of one of its two longs.
bin_bcd2(n) == [d \in Place |-> (n \div TenTo[d]) % 10]

bcd2_bin(bcd) ==
  LET above[d \in 0..BcdDigits] == IF d = BcdDigits THEN 0 ELSE bcd[d] + 10 * above[d + 1]
  IN  above[0]

VARIABLES
  bcd_pc,          \* "start", the operation, "end"
  operation, num, opd,    \* which operation that was, and on which numbers
  bcd,             \* the number in work
  ldigit, digit,   \* the digit of the multiplier, and of the number
  carry

bcd_vars == <<bcd_pc, operation, num, opd, bcd, ldigit, digit, carry>>

-----------------------------------------------------------------------------
BcdInit ==
  /\ bcd_pc = "start"
  /\ operation = "add" /\ num = 0 /\ opd = 0
  /\ bcd = Zero /\ ldigit = 0 /\ digit = 0 /\ carry = 0

\* The call: multiplication and division start from zero, addition works in place.
Call ==
  /\ bcd_pc = "start"
  /\ operation' \in {"add", "mul", "div"} /\ num' \in Numbers /\ opd' \in Operands
  /\ operation' = "div" => opd' > 0
  /\ bcd_pc' = operation'
  /\ bcd' = IF operation' = "add" THEN bin_bcd2(num') ELSE Zero
  /\ digit' = IF operation' = "div" THEN BcdDigits - 1 ELSE 0
  /\ UNCHANGED <<ldigit, carry>>

AddDigit ==
  /\ bcd_pc = "add" /\ digit < BcdDigits
  /\ LET res == bcd[digit] + bin_bcd2(opd)[digit] + carry
     IN  /\ carry' = res \div 10
         /\ bcd' = [bcd EXCEPT ![digit] = res % 10]
  /\ digit' = digit + 1
  /\ UNCHANGED <<bcd_pc, operation, num, opd, ldigit>>

\* Faulty variant: the digit that is there already is not added.
There_Lost(place) == 0
There(place) == IF place < BcdDigits THEN bcd[place] ELSE 0

\* One digit times one digit, onto what the places above have so far.
MulDigit ==
  /\ bcd_pc = "mul" /\ ldigit < BcdDigits
  /\ LET place == digit + ldigit
         res   == bin_bcd2(opd)[ldigit] * bin_bcd2(num)[digit] + carry + There(place)
         last  == digit = BcdDigits - 1
     IN  /\ bcd' = IF place < BcdDigits THEN [bcd EXCEPT ![place] = res % 10] ELSE bcd
         /\ digit' = IF last THEN 0 ELSE digit + 1
         /\ ldigit' = IF last THEN ldigit + 1 ELSE ldigit
         /\ carry' = IF last /\ ldigit + 1 < BcdDigits THEN 0 ELSE res \div 10
  /\ UNCHANGED <<bcd_pc, operation, num, opd>>

DivDigit ==
  /\ bcd_pc = "div" /\ digit >= 0
  /\ LET d1 == bin_bcd2(num)[digit] + 10 * carry
     IN  /\ bcd' = [bcd EXCEPT ![digit] = d1 \div opd]
         /\ carry' = d1 % opd
  /\ digit' = digit - 1
  /\ UNCHANGED <<bcd_pc, operation, num, opd, ldigit>>

Return ==
  /\ \/ bcd_pc = "add" /\ digit = BcdDigits
     \/ bcd_pc = "mul" /\ ldigit = BcdDigits
     \/ bcd_pc = "div" /\ digit < 0
  /\ bcd_pc' = "end"
  /\ UNCHANGED <<operation, num, opd, bcd, ldigit, digit, carry>>

BcdNext == Call \/ AddDigit \/ MulDigit \/ DivDigit \/ Return

BcdSpec == BcdInit /\ [][BcdNext]_bcd_vars

-----------------------------------------------------------------------------
(***************************************************************************)
(* Property.                                                               *)
(***************************************************************************)

\* The digits are those of the sum, the product or the quotient, in every digit a digit, and
\* what is returned is the carry out of the highest place or the remainder.
BcdExact ==
  bcd_pc = "end" =>
    LET value == bcd2_bin(bcd)
        all   == TenTo[BcdDigits]
    IN  /\ \A d \in Place : bcd[d] \in 0..9
        /\ operation = "add" => value + carry * all = num + opd
        /\ operation = "mul" => value = (num * opd) % all
        /\ operation = "div" => value = num \div opd /\ carry = num % opd
=============================================================================
