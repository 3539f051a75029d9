------------------------------- MODULE Streams -------------------------------
(***************************************************************************)
(* The random number streams of dbgen (rnd.h, rnd.c, speed_seed.c).        *)
(*                                                                         *)
(* Every column of every table draws from a stream of its own.  All        *)
(* streams use one generator, seed' = seed * 16807 mod (2^31 - 1), so the  *)
(* value of a stream is determined by its initial seed and by the number   *)
(* of draws made from it: its position.  The model keeps positions.        *)
(* A row uses a data-dependent number of draws; row_stop rounds each       *)
(* stream of the table up to a fixed boundary, and the sd_ functions jump  *)
(* over whole rows.  The two must agree, stream by stream.                 *)
(***************************************************************************)
EXTENDS Integers

CONSTANT Modulus      \* modulus of the generator, 2^31 - 1 in the code

ASSUME ModulusAssumption == Modulus \in Nat /\ Modulus > 2600

(***************************************************************************)
(* The indices of tdefs[] (dss.h) and the detail table of each entry.      *)
(***************************************************************************)
NONE       == -1
PART       == 0
PSUPP      == 1
SUPP       == 2
CUST       == 3
ORDER      == 4
LINE       == 5
ORDER_LINE == 6
PART_PSUPP == 7
NATION     == 8
REGION     == 9

Tables == PART..REGION

Child(t) == CASE t \in {PART, PART_PSUPP}  -> PSUPP
              [] t \in {ORDER, ORDER_LINE} -> LINE
              [] OTHER                     -> NONE

O_LCNT_MAX    == 7
SUPP_PER_PART == 4
RNG_PER_SENT  == 27

(***************************************************************************)
(* Seed[]: the streams, the table each belongs to, and the number of draws *)
(* reserved for it in every row of that table.                             *)
(***************************************************************************)
MAX_STREAM == 47
Stream == 0..MAX_STREAM

P_MFG_SD  == 0
P_CNTR_SD == 4
P_RCST_SD == 5
P_CMNT_SD == 6
PS_QTY_SD == 7
PS_SCST_SD == 8
PS_CMNT_SD == 9
O_SUPP_SD == 10
O_CLRK_SD == 11
O_CMNT_SD == 12
O_ODATE_SD == 13
L_QTY_SD  == 14
L_RDTE_SD == 23
L_RFLG_SD == 24
L_CMNT_SD == 25
C_ADDR_SD == 26
C_NTRG_SD == 27
C_PHNE_SD == 28
C_ABAL_SD == 29
C_MSEG_SD == 30
C_CMNT_SD == 31
S_ADDR_SD == 32
S_NTRG_SD == 33
S_PHNE_SD == 34
S_ABAL_SD == 35
S_CMNT_SD == 36
P_NAME_SD == 37
O_PRIO_SD == 38
HVAR_SD   == 39
O_CKEY_SD == 40
N_CMNT_SD == 41
R_CMNT_SD == 42
O_LCNT_SD == 43
BBB_JNK_SD == 44
BBB_OFFSET_SD == 47

SeedTable(s) ==
  CASE s \in (P_MFG_SD..P_CNTR_SD) \cup {P_CMNT_SD, P_NAME_SD} -> PART
    [] s \in PS_QTY_SD..PS_CMNT_SD                             -> PSUPP
    [] s \in (O_SUPP_SD..O_ODATE_SD) \cup {O_PRIO_SD, O_CKEY_SD, O_LCNT_SD} -> ORDER
    [] s \in (L_QTY_SD..L_CMNT_SD) \cup {HVAR_SD}              -> LINE
    [] s \in C_ADDR_SD..C_CMNT_SD                              -> CUST
    [] s \in (S_ADDR_SD..S_CMNT_SD) \cup (BBB_JNK_SD..BBB_OFFSET_SD) -> SUPP
    [] s = N_CMNT_SD                                           -> NATION
    [] s = R_CMNT_SD                                           -> REGION
    [] OTHER                                                   -> NONE

Boundary(s) ==
  CASE s = P_CMNT_SD               -> RNG_PER_SENT * 3
    [] s \in {PS_QTY_SD, PS_SCST_SD} -> SUPP_PER_PART
    [] s = PS_CMNT_SD              -> SUPP_PER_PART * RNG_PER_SENT * 20
    [] s = O_CMNT_SD               -> RNG_PER_SENT * 8
    [] s \in L_QTY_SD..L_RFLG_SD   -> O_LCNT_MAX
    [] s = L_CMNT_SD               -> O_LCNT_MAX * RNG_PER_SENT * 5
    [] s \in {C_ADDR_SD, S_ADDR_SD} -> 9
    [] s \in {C_PHNE_SD, S_PHNE_SD} -> 3
    [] s = C_CMNT_SD               -> RNG_PER_SENT * 12
    [] s = S_CMNT_SD               -> RNG_PER_SENT * 11
    [] s = P_NAME_SD               -> 92
    [] s \in {N_CMNT_SD, R_CMNT_SD} -> RNG_PER_SENT * 16
    [] OTHER                       -> 1

(***************************************************************************)
(* NthElement moves a stream by shift draws.  RND_seed takes a negative    *)
(* shift modulo the period, which is an exact step back; of a shift above  *)
(* the modulus it reports "Bang!" and then reads the low 31 bits only      *)
(* (TopMask), so the stream lands somewhere else.                          *)
(***************************************************************************)
Jump(shift) == IF shift < 0 THEN shift ELSE shift % (Modulus + 1)

\* Two positions hold the same seed when they differ by whole periods.
SameSeed(p, q) == (p - q) % (Modulus - 1) = 0

(***************************************************************************)
(* The sd_ functions skip whole rows.  For one stream such a function      *)
(* makes `calls' calls of NthElement, each of `by' draws per row.          *)
(***************************************************************************)
Skip(calls, by) == [calls |-> calls, by |-> by]
NoSkip == Skip(0, 0)

sd_part(s) ==
  CASE s \in P_MFG_SD..P_CNTR_SD -> Skip(1, 1)
    [] s = P_CMNT_SD             -> Skip(1, Boundary(s))
    [] s = P_NAME_SD             -> Skip(1, 92)
    [] OTHER                     -> NoSkip

\* Faulty variant: a lineitem's part does not skip what it borrows from the orders.
sd_line_OwnOnly(s, child) ==
  CASE s \in L_QTY_SD..L_RFLG_SD -> Skip(O_LCNT_MAX, 1)
    [] s = L_CMNT_SD             -> Skip(1, Boundary(s))
    [] OTHER                     -> NoSkip

sd_line(s, child) ==
  CASE s \in L_QTY_SD..L_RFLG_SD -> Skip(O_LCNT_MAX, 1)
    [] s = L_CMNT_SD             -> Skip(1, Boundary(s))
    [] child = 1 /\ s \in {O_ODATE_SD, O_LCNT_SD} -> Skip(1, 1)
    [] OTHER                     -> NoSkip

sd_order(s) ==
  CASE s \in {O_LCNT_SD, O_CKEY_SD, O_SUPP_SD, O_CLRK_SD, O_PRIO_SD, O_ODATE_SD}
                                 -> Skip(1, 1)
    [] s = O_CMNT_SD             -> Skip(1, Boundary(s))
    [] OTHER                     -> NoSkip

sd_psupp(s) ==
  CASE s \in {PS_QTY_SD, PS_SCST_SD} -> Skip(SUPP_PER_PART, 1)
    [] s = PS_CMNT_SD                -> Skip(1, Boundary(s))
    [] OTHER                         -> NoSkip

sd_cust(s) ==
  CASE s \in {C_ADDR_SD, C_CMNT_SD}            -> Skip(1, Boundary(s))
    [] s \in {C_NTRG_SD, C_ABAL_SD, C_MSEG_SD} -> Skip(1, 1)
    [] s = C_PHNE_SD                           -> Skip(1, 3)
    [] OTHER                                   -> NoSkip

sd_supp(s) ==
  CASE s \in {S_ADDR_SD, S_CMNT_SD} -> Skip(1, Boundary(s))
    [] s \in {S_NTRG_SD, S_ABAL_SD} \cup (BBB_JNK_SD..BBB_OFFSET_SD) -> Skip(1, 1)
    [] s = S_PHNE_SD                -> Skip(1, 3)
    [] OTHER                        -> NoSkip

\* tdefs[t].gen_seed(child, ...); NATION and REGION have none.
gen_seed(t, child, s) ==
  CASE t \in {PART, PART_PSUPP}  -> sd_part(s)
    [] t = PSUPP                 -> sd_psupp(s)
    [] t = SUPP                  -> sd_supp(s)
    [] t = CUST                  -> sd_cust(s)
    [] t \in {ORDER, ORDER_LINE} -> sd_order(s)
    [] t = LINE                  -> sd_line(s, child)
    [] OTHER                     -> NoSkip

\* The draws a gen_seed call over `rows' rows skips.
Skipped(sk, rows) == sk.calls * Jump(sk.by * rows)

(***************************************************************************)
(* set_state: rows per step, the rows left over for the last step, and the *)
(* streams of table t moved over the rows of the steps before `step'.      *)
(***************************************************************************)
RowCount(base, sf, procs) ==
  (base \div procs) * sf + ((base % procs) * sf) \div procs

ExtraRows(base, sf, procs) == ((base % procs) * sf) % procs

OwnSkip(t, s)    == gen_seed(t, IF t = LINE THEN 1 ELSE 0, s)
DetailSkip(t, s) == IF Child(t) = NONE THEN NoSkip ELSE gen_seed(Child(t), 0, s)

Advance(t, at, rows, steps) ==
  [s \in Stream |->
     at[s] + steps * (Skipped(OwnSkip(t, s), rows) + Skipped(DetailSkip(t, s), rows))]

(***************************************************************************)
(* The draws of one row (mk_order, mk_part, mk_cust, mk_supp, mk_nation,   *)
(* mk_region).  Columns of variable length, and the return flag, draw a    *)
(* number of times that depends on the data: `var'.  The other columns     *)
(* draw once, or once per lineitem (`lines'), or a fixed number of times.  *)
(***************************************************************************)
VarStream == {P_CMNT_SD, PS_CMNT_SD, O_CMNT_SD, L_RFLG_SD, L_CMNT_SD, C_ADDR_SD,
              C_CMNT_SD, S_ADDR_SD, S_CMNT_SD, N_CMNT_SD, R_CMNT_SD}

mk_order(lines, var, s) ==
  CASE s \in {O_CLRK_SD, O_ODATE_SD, O_PRIO_SD, O_CKEY_SD, O_LCNT_SD} -> 1
    [] s \in L_QTY_SD..L_RDTE_SD                                      -> lines
    [] s \in {O_CMNT_SD, L_RFLG_SD, L_CMNT_SD}                        -> var[s]
    [] OTHER                                                          -> 0

mk_part(var, s) ==
  CASE s \in P_MFG_SD..P_CNTR_SD     -> 1
    [] s = P_NAME_SD                 -> 92       \* one draw per color of the set
    [] s \in {PS_QTY_SD, PS_SCST_SD} -> SUPP_PER_PART
    [] s \in {P_CMNT_SD, PS_CMNT_SD} -> var[s]
    [] OTHER                         -> 0

mk_cust(var, s) ==
  CASE s \in {C_NTRG_SD, C_ABAL_SD, C_MSEG_SD} -> 1
    [] s = C_PHNE_SD                           -> 3
    [] s \in {C_ADDR_SD, C_CMNT_SD}            -> var[s]
    [] OTHER                                   -> 0

mk_supp(var, s) ==
  CASE s \in {S_NTRG_SD, S_ABAL_SD} \cup (BBB_JNK_SD..BBB_OFFSET_SD) -> 1
    [] s = S_PHNE_SD                -> 3
    [] s \in {S_ADDR_SD, S_CMNT_SD} -> var[s]
    [] OTHER                        -> 0

\* Seed[s].usage when row_stop runs: the draws of the row just built.
Usage(t, lines, var, s) ==
  CASE t \in {LINE, ORDER, ORDER_LINE} -> mk_order(lines, var, s)
    [] t \in {PSUPP, PART, PART_PSUPP} -> mk_part(var, s)
    [] t = CUST                        -> mk_cust(var, s)
    [] t = SUPP                        -> mk_supp(var, s)
    [] t = NATION                      -> IF s = N_CMNT_SD THEN var[s] ELSE 0
    [] t = REGION                      -> IF s = R_CMNT_SD THEN var[s] ELSE 0

\* row_stop aligns the streams of the table and of its detail table.
Master(t) == CASE t = ORDER_LINE -> ORDER
               [] t = PART_PSUPP -> PART
               [] OTHER          -> t

Aligned(t, s) == SeedTable(s) \in {Master(t), Child(Master(t))}

\* The positions after a row: its draws, then row_stop.
AfterRow(t, lines, var, at) ==
  [s \in Stream |->
     LET used == Usage(t, lines, var, s)
     IN  at[s] + used + (IF Aligned(t, s) THEN Jump(Boundary(s) - used) ELSE 0)]

(***************************************************************************)
(* The streams a printed row of table t depends on: the draws its columns  *)
(* are computed from.  An order without its lineitems still needs theirs   *)
(* (total price and status), a lineitem needs the order's date and the     *)
(* number of lines.  O_SUPP, HVAR and P_RCST are never drawn.              *)
(***************************************************************************)
Reads(t) ==
  {s \in Stream :
     \/ /\ t \in {ORDER, LINE, ORDER_LINE}
        /\ s \in (L_QTY_SD..L_CMNT_SD) \cup {O_ODATE_SD, O_LCNT_SD}
     \/ /\ t \in {ORDER, ORDER_LINE}
        /\ s \in {O_CLRK_SD, O_CMNT_SD, O_PRIO_SD, O_CKEY_SD}
     \/ /\ t \in {PART, PART_PSUPP}
        /\ s \in (P_MFG_SD..P_CNTR_SD) \cup {P_CMNT_SD, P_NAME_SD}
     \/ t \in {PSUPP, PART_PSUPP} /\ s \in PS_QTY_SD..PS_CMNT_SD
     \/ t = CUST   /\ s \in C_ADDR_SD..C_CMNT_SD
     \/ t = SUPP   /\ s \in (S_ADDR_SD..S_CMNT_SD) \cup (BBB_JNK_SD..BBB_OFFSET_SD)
     \/ t = NATION /\ s = N_CMNT_SD
     \/ t = REGION /\ s = R_CMNT_SD}
=============================================================================
