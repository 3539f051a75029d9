---------------------------- MODULE Dbgen_proofs ----------------------------
(***************************************************************************)
(* For every scale, every number of processes and every command line:      *)
(* Dbgen keeps its types, and the rows its processes write are the rows of *)
(* a serial run, provided that no jump passes the modulus; the parent      *)
(* holds no unwritten row when it forks; the files are complete when all   *)
(* have exited; and the run implements DataSet, step by step. Before that, *)
(* what the jumps of speed_seed.c and the alignment of row_stop (Streams)  *)
(* have in common, for every number of rows.                               *)
(***************************************************************************)
EXTENDS Dbgen, FiniteSetTheorems, TLAPS

-----------------------------------------------------------------------------
\* Streams.

\* A number below the divisor is its own remainder.
LEMMA ModSmall ==
  ASSUME NEW a \in Nat, NEW m \in Nat, a < m
  PROVE  a % m = a
BY Z3

\* A product of positive numbers is as large as each of them.
LEMMA MulGrows ==
  ASSUME NEW b \in 1..2160, NEW rows \in Nat
  PROVE  b * rows \in Nat /\ rows <= b * rows
<1>1. PICK d \in Nat : b = d + 1
  OBVIOUS
<1>2. b * rows = d * rows + rows /\ d * rows \in Nat
  BY <1>1
<1> QED BY <1>2

\* A jump of less than the modulus goes exactly as far as it is told.
LEMMA JumpExact ==
  ASSUME NEW shift \in Int, shift <= Modulus
  PROVE  Jump(shift) = shift
<1>1. Modulus + 1 \in Nat
  BY ModulusAssumption
<1>2. CASE shift < 0
  BY <1>2 DEF Jump
<1>3. CASE shift >= 0
  BY <1>1, <1>3, ModulusAssumption, ModSmall DEF Jump
<1> QED BY <1>2, <1>3

USE DEF NONE, PART, PSUPP, SUPP, CUST, ORDER, LINE, ORDER_LINE, PART_PSUPP, NATION, REGION,
        MAX_STREAM, Tables, Stream, P_MFG_SD, P_CNTR_SD, P_RCST_SD, P_CMNT_SD, PS_QTY_SD,
        PS_SCST_SD, PS_CMNT_SD, O_SUPP_SD, O_CLRK_SD, O_CMNT_SD, O_ODATE_SD, L_QTY_SD,
        L_RDTE_SD, L_RFLG_SD, L_CMNT_SD, C_ADDR_SD, C_NTRG_SD, C_PHNE_SD, C_ABAL_SD,
        C_MSEG_SD, C_CMNT_SD, S_ADDR_SD, S_NTRG_SD, S_PHNE_SD, S_ABAL_SD, S_CMNT_SD,
        P_NAME_SD, O_PRIO_SD, HVAR_SD, O_CKEY_SD, N_CMNT_SD, R_CMNT_SD, O_LCNT_SD,
        BBB_JNK_SD, BBB_OFFSET_SD, RNG_PER_SENT, SUPP_PER_PART, O_LCNT_MAX

\* A stream that a table's rows depend on is one of the streams, and reserves at
\* least one and at most 2160 draws for each row.
LEMMA BoundaryFact ==
  ASSUME NEW t \in Tables, NEW s \in Reads(t)
  PROVE  s \in Stream /\ Boundary(s) \in 1..2160
<1>1. s \in Stream
  BY DEF Reads
<1>2. Boundary(s) \in 1..2160
  BY <1>1 DEF Boundary
<1> QED BY <1>1, <1>2

\* A row draws a natural number of times from each stream.
LEMMA UsageNat ==
  ASSUME NEW t \in Tables, NEW s \in Stream,
         NEW lines \in 1..O_LCNT_MAX, NEW var \in [VarStream -> Nat]
  PROVE  Usage(t, lines, var, s) \in Nat
<1>1. mk_order(lines, var, s) \in Nat
  BY DEF mk_order, VarStream
<1>2. mk_part(var, s) \in Nat
  BY DEF mk_part, VarStream
<1>3. mk_cust(var, s) \in Nat
  BY DEF mk_cust, VarStream
<1>4. mk_supp(var, s) \in Nat
  BY DEF mk_supp, VarStream
<1>5. var[N_CMNT_SD] \in Nat /\ var[R_CMNT_SD] \in Nat
  BY DEF VarStream
<1> QED BY <1>1, <1>2, <1>3, <1>4, <1>5 DEF Usage

\* The streams that the rows depend on but row_stop does not align are the two that
\* -T L borrows from the orders: they are drawn once a row.
LEMMA Borrowed ==
  ASSUME NEW t \in Tables, NEW s \in Reads(t), ~Aligned(t, s), NEW lines, NEW var
  PROVE  Usage(t, lines, var, s) = 1 /\ Boundary(s) = 1
<1>1. t = LINE /\ s \in {O_ODATE_SD, O_LCNT_SD}
  BY DEF Aligned, Master, Child, SeedTable, Reads
<1> QED BY <1>1 DEF Usage, mk_order, Boundary

\* Each sd_ function skips the streams of its own table by their boundary, in one
\* call or in as many as the boundary has draws, and leaves the others alone.
Skips(s) == {Skip(1, Boundary(s)), Skip(Boundary(s), 1)}

\* sd_part skips the streams of the parts.
LEMMA SdPartSkips ==
  ASSUME NEW s \in Stream
  PROVE  /\ s \in Reads(PART) => sd_part(s) \in Skips(s)
         /\ s \notin Reads(PART) => sd_part(s) = NoSkip
BY DEF Reads, Boundary, Skips, sd_part

\* sd_psupp skips the streams of the suppliers of parts.
LEMMA SdPsuppSkips ==
  ASSUME NEW s \in Stream
  PROVE  /\ s \in Reads(PSUPP) => sd_psupp(s) \in Skips(s)
         /\ s \notin Reads(PSUPP) => sd_psupp(s) = NoSkip
BY DEF Reads, Boundary, Skips, sd_psupp

\* sd_cust skips the streams of the customers.
LEMMA SdCustSkips ==
  ASSUME NEW s \in Stream
  PROVE  /\ s \in Reads(CUST) => sd_cust(s) \in Skips(s)
         /\ s \notin Reads(CUST) => sd_cust(s) = NoSkip
BY DEF Reads, Boundary, Skips, sd_cust

\* sd_supp skips the streams of the suppliers.
LEMMA SdSuppSkips ==
  ASSUME NEW s \in Stream
  PROVE  /\ s \in Reads(SUPP) => sd_supp(s) \in Skips(s)
         /\ s \notin Reads(SUPP) => sd_supp(s) = NoSkip
BY DEF Reads, Boundary, Skips, sd_supp

\* sd_order skips the streams of the orders.
LEMMA SdOrderSkips ==
  ASSUME NEW s \in Reads(ORDER)
  PROVE  \/ sd_order(s) \in Skips(s) /\ sd_line(s, 0) = NoSkip
         \/ sd_order(s) = NoSkip /\ sd_line(s, 0) \in Skips(s)
BY DEF Reads, Boundary, Skips, sd_order, sd_line

\* sd_line skips the streams of the lineitems, and the two it borrows when child = 1.
LEMMA SdLineSkips ==
  ASSUME NEW s \in Reads(LINE)
  PROVE  sd_line(s, 1) \in Skips(s)
BY DEF Reads, Boundary, Skips, sd_line

\* Which sd_ functions set_state calls for a table.
LEMMA WhichSkips ==
  ASSUME NEW t \in Tables, t < NATION, NEW s \in Reads(t)
  PROVE  \/ OwnSkip(t, s) = sd_part(s) /\ DetailSkip(t, s) = sd_psupp(s) /\ s \in Reads(PART) \ Reads(PSUPP)
         \/ OwnSkip(t, s) = sd_part(s) /\ DetailSkip(t, s) = sd_psupp(s) /\ s \in Reads(PSUPP) \ Reads(PART)
         \/ OwnSkip(t, s) = sd_psupp(s) /\ DetailSkip(t, s) = NoSkip /\ s \in Reads(PSUPP)
         \/ OwnSkip(t, s) = sd_supp(s) /\ DetailSkip(t, s) = NoSkip /\ s \in Reads(SUPP)
         \/ OwnSkip(t, s) = sd_cust(s) /\ DetailSkip(t, s) = NoSkip /\ s \in Reads(CUST)
         \/ OwnSkip(t, s) = sd_order(s) /\ DetailSkip(t, s) = sd_line(s, 0) /\ s \in Reads(ORDER)
         \/ OwnSkip(t, s) = sd_line(s, 1) /\ DetailSkip(t, s) = NoSkip /\ s \in Reads(LINE)
<1> USE DEF OwnSkip, DetailSkip, gen_seed, Child
<1>1. CASE t \in {PART, PART_PSUPP}
  <2>1. OwnSkip(t, s) = sd_part(s) /\ DetailSkip(t, s) = sd_psupp(s)
    BY <1>1
  <2>2. s \in Reads(PART) \ Reads(PSUPP) \/ s \in Reads(PSUPP) \ Reads(PART)
    BY <1>1 DEF Reads
  <2> QED BY <2>1, <2>2
<1>2. CASE t = PSUPP
  BY <1>2
<1>3. CASE t = SUPP
  BY <1>3
<1>4. CASE t = CUST
  BY <1>4
<1>5. CASE t \in {ORDER, ORDER_LINE}
  BY <1>5 DEF Reads
<1>6. CASE t = LINE
  BY <1>6
<1> QED BY <1>1, <1>2, <1>3, <1>4, <1>5, <1>6

\* Boundaries and skips are natural numbers for every stream.
LEMMA BoundaryNat == \A s \in Stream : Boundary(s) \in Nat
BY DEF Boundary

\* What a gen_seed call skips is a natural number of draws.
LEMMA SkipNat ==
  ASSUME NEW t, NEW child, NEW s \in Stream
  PROVE  gen_seed(t, child, s) \in [calls : Nat, by : Nat]
<1> USE BoundaryNat DEF Skip, NoSkip
<1>1. sd_part(s) \in [calls : Nat, by : Nat]
  BY DEF sd_part
<1>2. sd_psupp(s) \in [calls : Nat, by : Nat]
  BY DEF sd_psupp
<1>3. sd_cust(s) \in [calls : Nat, by : Nat]
  BY DEF sd_cust
<1>4. sd_supp(s) \in [calls : Nat, by : Nat]
  BY DEF sd_supp
<1>5. sd_order(s) \in [calls : Nat, by : Nat]
  BY DEF sd_order
<1>6. sd_line(s, child) \in [calls : Nat, by : Nat]
  BY DEF sd_line
<1> QED BY <1>1, <1>2, <1>3, <1>4, <1>5, <1>6 DEF gen_seed

\* The tables that one run can make together share no stream.
LEMMA TablesApart ==
  ASSUME NEW t \in {SUPP, CUST, PART_PSUPP, ORDER_LINE, NATION, REGION},
         NEW u \in {SUPP, CUST, PART_PSUPP, ORDER_LINE, NATION, REGION},
         t # u, NEW s \in Reads(u), NEW lines, NEW var
  PROVE  /\ ~Aligned(t, s)
         /\ Usage(t, lines, var, s) = 0
         /\ OwnSkip(t, s) = NoSkip
         /\ DetailSkip(t, s) = NoSkip
<1>1. s \in Stream
  BY DEF Reads
<1>2. ~Aligned(t, s)
  BY DEF Aligned, Master, Child, SeedTable, Reads
<1>3. Usage(t, lines, var, s) = 0
  <2>1. CASE t = ORDER_LINE
    BY <2>1 DEF Usage, mk_order, Reads
  <2>2. CASE t = PART_PSUPP
    BY <2>2 DEF Usage, mk_part, Reads
  <2>3. CASE t = CUST
    BY <2>3 DEF Usage, mk_cust, Reads
  <2>4. CASE t = SUPP
    BY <2>4 DEF Usage, mk_supp, Reads
  <2>5. CASE t \in {NATION, REGION}
    BY <2>5 DEF Usage, Reads
  <2> QED BY <2>1, <2>2, <2>3, <2>4, <2>5
<1>4. OwnSkip(t, s) = NoSkip /\ DetailSkip(t, s) = NoSkip
  <2>1. CASE t = ORDER_LINE
    BY <2>1 DEF OwnSkip, DetailSkip, gen_seed, Child, sd_order, sd_line, Reads
  <2>2. CASE t = PART_PSUPP
    BY <2>2 DEF OwnSkip, DetailSkip, gen_seed, Child, sd_part, sd_psupp, Reads
  <2>3. CASE t = CUST
    BY <2>3 DEF OwnSkip, DetailSkip, gen_seed, Child, sd_cust, Reads
  <2>4. CASE t = SUPP
    BY <2>4 DEF OwnSkip, DetailSkip, gen_seed, Child, sd_supp, Reads
  <2>5. CASE t \in {NATION, REGION}
    BY <2>5 DEF OwnSkip, DetailSkip, gen_seed, Child
  <2> QED BY <2>1, <2>2, <2>3, <2>4, <2>5
<1> QED BY <1>2, <1>3, <1>4

HIDE DEF NONE, PART, PSUPP, SUPP, CUST, ORDER, LINE, ORDER_LINE, PART_PSUPP, NATION, REGION,
        MAX_STREAM, Tables, Stream, P_MFG_SD, P_CNTR_SD, P_RCST_SD, P_CMNT_SD, PS_QTY_SD,
        PS_SCST_SD, PS_CMNT_SD, O_SUPP_SD, O_CLRK_SD, O_CMNT_SD, O_ODATE_SD, L_QTY_SD,
        L_RDTE_SD, L_RFLG_SD, L_CMNT_SD, C_ADDR_SD, C_NTRG_SD, C_PHNE_SD, C_ABAL_SD,
        C_MSEG_SD, C_CMNT_SD, S_ADDR_SD, S_NTRG_SD, S_PHNE_SD, S_ABAL_SD, S_CMNT_SD,
        P_NAME_SD, O_PRIO_SD, HVAR_SD, O_CKEY_SD, N_CMNT_SD, R_CMNT_SD, O_LCNT_SD,
        BBB_JNK_SD, BBB_OFFSET_SD, RNG_PER_SENT, SUPP_PER_PART, O_LCNT_MAX

\* Of the two gen_seed calls that set_state makes for a partitioned table, one
\* skips the stream's boundary and the other leaves the stream alone.
LEMMA OneSkip ==
  ASSUME NEW t \in Tables, t < NATION, NEW s \in Reads(t)
  PROVE  \/ OwnSkip(t, s) \in Skips(s) /\ DetailSkip(t, s) = NoSkip
         \/ OwnSkip(t, s) = NoSkip /\ DetailSkip(t, s) \in Skips(s)
<1>1. s \in Stream
  BY DEF Reads
<1>2. s \in Reads(PART) => sd_part(s) \in Skips(s)
  BY <1>1, SdPartSkips
<1>3. s \notin Reads(PART) => sd_part(s) = NoSkip
  BY <1>1, SdPartSkips
<1>4. s \in Reads(PSUPP) => sd_psupp(s) \in Skips(s)
  BY <1>1, SdPsuppSkips
<1>5. s \notin Reads(PSUPP) => sd_psupp(s) = NoSkip
  BY <1>1, SdPsuppSkips
<1>6. s \in Reads(SUPP) => sd_supp(s) \in Skips(s)
  BY <1>1, SdSuppSkips
<1>7. s \in Reads(CUST) => sd_cust(s) \in Skips(s)
  BY <1>1, SdCustSkips
<1>8. s \in Reads(ORDER) =>
        \/ sd_order(s) \in Skips(s) /\ sd_line(s, 0) = NoSkip
        \/ sd_order(s) = NoSkip /\ sd_line(s, 0) \in Skips(s)
  BY SdOrderSkips
<1>9. s \in Reads(LINE) => sd_line(s, 1) \in Skips(s)
  BY SdLineSkips
<1>10. CASE OwnSkip(t, s) = sd_part(s) /\ DetailSkip(t, s) = sd_psupp(s)
            /\ (s \in Reads(PART)) # (s \in Reads(PSUPP))
  BY <1>2, <1>3, <1>4, <1>5, <1>10
<1>11. CASE OwnSkip(t, s) = sd_order(s) /\ DetailSkip(t, s) = sd_line(s, 0)
            /\ s \in Reads(ORDER)
  BY <1>8, <1>11
<1> QED BY <1>4, <1>6, <1>7, <1>9, <1>10, <1>11, WhichSkips

\* row_stop leaves every stream that the rows of the table depend on exactly one
\* boundary further, whatever the row drew (rnd.c, row_stop).
LEMMA RowAligned ==
  ASSUME NEW t \in Tables, NEW s \in Reads(t),
         NEW lines \in 1..O_LCNT_MAX, NEW var \in [VarStream -> Nat],
         NEW at \in [Stream -> Int]
  PROVE  AfterRow(t, lines, var, at)[s] = at[s] + Boundary(s)
<1>1. s \in Stream /\ Boundary(s) \in 1..2160
  BY BoundaryFact
<1>2. PICK used \in Nat : used = Usage(t, lines, var, s)
  BY <1>1, UsageNat
<1>3. AfterRow(t, lines, var, at)[s]
        = at[s] + used + (IF Aligned(t, s) THEN Jump(Boundary(s) - used) ELSE 0)
  BY <1>1, <1>2 DEF AfterRow
<1>4. CASE Aligned(t, s)
  <2>1. Jump(Boundary(s) - used) = Boundary(s) - used
    BY <1>1, <1>2, ModulusAssumption, JumpExact
  <2> QED BY <1>1, <1>2, <1>3, <1>4, <2>1
<1>5. CASE ~Aligned(t, s)
  BY <1>1, <1>2, <1>3, <1>5, Borrowed
<1> QED BY <1>4, <1>5

\* set_state moves every stream that the rows of a partitioned table depend on
\* over exactly the boundaries of the rows skipped: the sd_ functions and row_stop
\* agree (speed_seed.c, set_state).  Needed: no jump passes the modulus.
LEMMA SkipAligned ==
  ASSUME NEW t \in Tables, t < NATION, NEW s \in Reads(t),
         NEW at \in [Stream -> Int], NEW rows \in Nat, NEW steps \in Nat,
         Boundary(s) * rows <= Modulus
  PROVE  Advance(t, at, rows, steps)[s] = at[s] + steps * (Boundary(s) * rows)
<1>1. s \in Stream /\ Boundary(s) \in 1..2160
  BY BoundaryFact
<1>2. Advance(t, at, rows, steps)[s]
        = at[s] + steps * (Skipped(OwnSkip(t, s), rows) + Skipped(DetailSkip(t, s), rows))
  BY <1>1 DEF Advance
<1>3. PICK b \in 1..2160 : b = Boundary(s)
  BY <1>1
<1>4. b * rows \in Nat /\ rows <= b * rows
  BY MulGrows
<1>5. Jump(rows) = rows /\ Jump(b * rows) = b * rows /\ Jump(0) = 0
  <2>1. b * rows <= Modulus
    BY <1>3
  <2> QED BY <1>4, <2>1, JumpExact, ModulusAssumption
<1>6. \A sk \in Skips(s) : Skipped(sk, rows) = b * rows
  <2>1. Skipped(Skip(1, b), rows) = b * rows
    BY <1>4, <1>5 DEF Skipped, Skip
  <2>2. Skipped(Skip(b, 1), rows) = b * rows
    BY <1>4, <1>5 DEF Skipped, Skip
  <2> QED BY <1>3, <2>1, <2>2 DEF Skips
<1>7. Skipped(NoSkip, rows) = 0
  BY <1>5 DEF Skipped, NoSkip, Skip
<1>8. Skipped(OwnSkip(t, s), rows) + Skipped(DetailSkip(t, s), rows) = b * rows
  BY <1>4, <1>6, <1>7, OneSkip
<1> QED BY <1>2, <1>3, <1>8

\* Positions stay integers.
LEMMA JumpInt ==
  ASSUME NEW shift \in Int
  PROVE  Jump(shift) \in Int
BY ModulusAssumption DEF Jump

\* The positions after a row are integers.
LEMMA AfterRowType ==
  ASSUME NEW t \in Tables, NEW lines \in 1..O_LCNT_MAX, NEW var \in [VarStream -> Nat],
         NEW at \in [Stream -> Int]
  PROVE  AfterRow(t, lines, var, at) \in [Stream -> Int]
<1> SUFFICES ASSUME NEW s \in Stream
             PROVE  at[s] + Usage(t, lines, var, s)
                    + (IF Aligned(t, s) THEN Jump(Boundary(s) - Usage(t, lines, var, s))
                                        ELSE 0) \in Int
  BY DEF AfterRow
<1>1. Usage(t, lines, var, s) \in Nat /\ Boundary(s) \in Nat
  BY UsageNat, BoundaryNat
<1>2. Jump(Boundary(s) - Usage(t, lines, var, s)) \in Int
  BY <1>1, JumpInt
<1> QED BY <1>1, <1>2

\* The positions after set_state are integers.
LEMMA AdvanceType ==
  ASSUME NEW t, NEW at \in [Stream -> Int], NEW rows \in Nat, NEW steps \in Nat
  PROVE  Advance(t, at, rows, steps) \in [Stream -> Int]
<1>1. ASSUME NEW sk \in [calls : Nat, by : Nat]
      PROVE  Skipped(sk, rows) \in Int
  <2>1. Jump(sk.by * rows) \in Int
    BY JumpInt
  <2> QED BY <2>1 DEF Skipped
<1>2. ASSUME NEW s \in Stream
      PROVE  at[s] + steps * (Skipped(OwnSkip(t, s), rows) + Skipped(DetailSkip(t, s), rows)) \in Int
  <2>1. NoSkip \in [calls : Nat, by : Nat]
    BY DEF NoSkip, Skip
  <2>2. OwnSkip(t, s) \in [calls : Nat, by : Nat] /\ DetailSkip(t, s) \in [calls : Nat, by : Nat]
    BY <2>1, SkipNat DEF OwnSkip, DetailSkip
  <2> QED BY <1>1, <2>2
<1> QED BY <1>2 DEF Advance

-----------------------------------------------------------------------------
\* Dbgen.

\* No part has so many rows that a jump over it passes the modulus.
PartJump(t, s, cmd) == Boundary(s) * RowCount(Base[t], cmd.scale, cmd.children)

NoWrap ==
  \A cmd \in Commands : cmd.children > 1 =>
    \A t \in cmd.table : t < NATION =>
      \A s \in Reads(t) : PartJump(t, s, cmd) <= Modulus

(***************************************************************************)
(* The inductive invariant.                                                *)
(***************************************************************************)
AtTable(p) == pc[p] \in {"main", "partial", "gen", "fork", "wait"}

\* Where each process can be.
Placed ==
  /\ \A p \in Proc : AtTable(p) => tbl[p] \in opt.table
  /\ \A p \in Proc : pc[p] = "main" => p \in Mains
  /\ \A p \in Proc : pc[p] = "partial" => p \in Children /\ Parallel(tbl[p])
  /\ \A p \in Proc : pc[p] \in {"fork", "wait"} => p = 0 /\ ~opt.steps
  /\ \A p \in Proc : pc[p] = "gen" => (p \in Mains \/ p \in Children) /\ row[p] >= 1
  /\ pc[0] = "fork" => c < opt.children /\ Parallel(tbl[0])
  /\ \A p \in Proc : Forked(p) => tbl[p] \in Tables

\* The streams of a table that a process has not started are where they began.
Fresh ==
  \A p \in Proc : AtTable(p) =>
    \A t \in opt.table : t > tbl[p] \/ (t = tbl[p] /\ pc[p] # "gen") =>
      \A s \in Reads(t) : seed[p][s] = 0

\* A process that makes rows is where a serial run is before its next row.
AtRow ==
  \A p \in Proc : pc[p] = "gen" =>
    \A s \in Reads(tbl[p]) : seed[p][s] = Boundary(s) * (row[p] - 1)

\* Every row made is the serial run's row.
Exact(x, t) == x.i > 0 => \A s \in Reads(t) : x.at[s] = Boundary(s) * (x.i - 1)
BufExact  == \A p \in Proc : \A w \in buf[p] : Exact(w.row, w.t)
DiskExact == \A f \in File : \A x \in disk[f] : Exact(x, f[1])

IInv == TypeOK /\ Placed /\ Fresh /\ AtRow /\ BufExact /\ DiskExact

-----------------------------------------------------------------------------
(***************************************************************************)
(* Tables and command lines.                                               *)
(***************************************************************************)
\* What one command line asks for are tables, and one of them comes first.
LEMMA ChoiceFacts ==
  ASSUME NEW T \in TableChoices
  PROVE  /\ T \subseteq Tables
         /\ \E t \in T : \A u \in T : t <= u
<1> USE DEF AllTables, Tables, PART, PSUPP, SUPP, CUST, ORDER, LINE, ORDER_LINE, PART_PSUPP,
            NATION, REGION
<1>1. CASE T = AllTables
  BY <1>1
<1>2. CASE T = {NATION, REGION}
  BY <1>2
<1>3. CASE \E t \in Tables : T = {t}
  BY <1>3
<1> QED BY <1>1, <1>2, <1>3 DEF TableChoices

\* The parts of a command line.
LEMMA CommandFacts ==
  ASSUME NEW cmd \in Commands
  PROVE  /\ cmd.table \in TableChoices
         /\ cmd.scale \in Nat \ {0}
         /\ cmd.children \in 1..MaxProcs
         /\ cmd.steps \in BOOLEAN
         /\ cmd.force \in BOOLEAN
BY DbgenAssumption DEF Command

\* Table indices are integers.
LEMMA TableInt == Tables \cup {END} \subseteq Int
BY DEF Tables, END, PART, REGION

\* Rows and skips of one table leave the streams of the others alone: "assumes
\* that tables are completely independent" (bm_utils.c, set_state).
LEMMA Independent ==
  ASSUME NEW T \in TableChoices, NEW t \in T, NEW u \in T, t # u, NEW s \in Reads(u),
         NEW at \in [Stream -> Int]
  PROVE  /\ \A lines, var : AfterRow(t, lines, var, at)[s] = at[s]
         /\ \A rows, steps \in Nat : Advance(t, at, rows, steps)[s] = at[s]
<1>1. t \in AllTables /\ u \in AllTables
  BY DEF TableChoices, AllTables
<1>2. s \in Stream /\ at[s] \in Int
  <2>1. u \in Tables
    BY ChoiceFacts
  <2> QED BY <2>1, BoundaryFact
<1>3. ~Aligned(t, s) /\ OwnSkip(t, s) = NoSkip /\ DetailSkip(t, s) = NoSkip
  BY <1>1, TablesApart DEF AllTables
<1>4. ASSUME NEW lines, NEW var
      PROVE  AfterRow(t, lines, var, at)[s] = at[s]
  <2>1. Usage(t, lines, var, s) = 0
    BY <1>1, TablesApart DEF AllTables
  <2> QED BY <1>2, <1>3, <2>1 DEF AfterRow
<1>5. ASSUME NEW rows \in Nat, NEW steps \in Nat
      PROVE  Advance(t, at, rows, steps)[s] = at[s]
  <2>1. Jump(0) = 0
    BY JumpExact, ModulusAssumption
  <2>2. Skipped(NoSkip, rows) = 0
    BY <2>1 DEF Skipped, NoSkip, Skip
  <2> QED BY <1>2, <1>3, <2>2 DEF Advance
<1> QED BY <1>4, <1>5

\* The sizes of the parts are natural numbers.
LEMMA PartNat ==
  ASSUME NEW base \in Nat, NEW sf \in Nat, NEW procs \in Nat \ {0}
  PROVE  RowCount(base, sf, procs) \in Nat /\ ExtraRows(base, sf, procs) \in Nat
<1>1. base \div procs \in Nat /\ base % procs \in Nat
  OBVIOUS
<1>2. (base \div procs) * sf \in Nat /\ (base % procs) * sf \in Nat
  BY <1>1
<1> DEFINE r == (base % procs) * sf
<1> HIDE DEF r
<1>3. r \in Nat
  BY <1>2 DEF r
<1>4. r \div procs \in Nat /\ r % procs \in Nat
  BY <1>3
<1> QED BY <1>2, <1>4 DEF RowCount, ExtraRows, r

\* Where a part starts, and how long it is.
LEMMA PartType ==
  ASSUME NEW t \in Tables, NEW p \in Proc, opt \in Commands, Parallel(t) => p \in Children
  PROVE  /\ PartRows(t) \in Nat
         /\ First(t, p) \in Nat /\ First(t, p) >= 1
         /\ Count(t, p) \in Nat
         /\ FileOf(t, p) \in File
<1>1. Base[t] \in Nat /\ opt.scale \in Nat /\ opt.children \in Nat \ {0}
  BY CommandFacts, DbgenAssumption
<1>2. PartRows(t) \in Nat /\ ExtraRows(Base[t], opt.scale, opt.children) \in Nat
  BY <1>1, PartNat DEF PartRows
<1>3. First(t, p) \in Nat /\ First(t, p) >= 1
  <2>1. CASE Parallel(t)
    <3>1. PICK k \in Nat : p - 1 = k
      BY <1>1, <2>1 DEF Children
    <3>2. PartRows(t) * k \in Nat
      BY <1>2
    <3> QED BY <2>1, <3>1, <3>2 DEF First
  <2>2. CASE ~Parallel(t)
    BY <2>2 DEF First
  <2> QED BY <2>1, <2>2
<1>4. Count(t, p) \in Nat
  BY <1>1, <1>2 DEF Count, Rows
<1>5. FileOf(t, p) \in File
  BY DbgenAssumption DEF FileOf, PartOf, File, Proc
<1> QED BY <1>2, <1>3, <1>4, <1>5

\* An earlier run's row has the shape of a row.
LEMMA StaleType ==
  ASSUME NEW t \in Tables
  PROVE  Stale(t) \in Row(t) /\ Exact(Stale(t), t)
BY DEF Stale, Row, Exact

\* The program starts with no rows made and every stream where it began.
LEMMA InitInv == Init => IInv
<1> SUFFICES ASSUME Init PROVE IInv
  OBVIOUS
<1> USE DEF Init
<1>1. opt.table \in TableChoices /\ opt.children \in 1..MaxProcs
  BY CommandFacts
<1>2. \A p \in Proc : tbl[p] \in opt.table /\ \A t \in opt.table : tbl[p] <= t
  BY <1>1, ChoiceFacts
<1>3. TypeOK
  <2>1. tbl \in [Proc -> Tables \cup {END}]
    BY <1>1, <1>2, ChoiceFacts
  <2>2. \A f \in File : disk[f] \subseteq Row(f[1])
    BY StaleType DEF File
  <2>3. c \in 0..MaxProcs /\ crashes \in 0..MaxCrashes[opt]
    BY DbgenAssumption
  <2> QED BY <2>1, <2>2, <2>3 DEF TypeOK
<1>4. Placed
  <2>1. \A p \in Proc : pc[p] = IF p \in Mains THEN "main" ELSE "idle"
    OBVIOUS
  <2>2. \A p \in Proc : pc[p] \in {"main", "idle"} /\ (pc[p] = "main" => p \in Mains)
    BY <2>1
  <2>3. 0 \in Proc
    BY DbgenAssumption DEF Proc
  <2>4. \A p \in Proc : tbl[p] \in Tables
    BY <1>1, <1>2, ChoiceFacts
  <2> QED BY <1>2, <2>2, <2>3, <2>4 DEF Placed
<1>5. Fresh
  BY <1>1, <1>2, ChoiceFacts, BoundaryFact DEF Fresh
<1>6. AtRow /\ BufExact
  BY DEF AtRow, BufExact
<1>7. DiskExact
  BY StaleType DEF DiskExact, File
<1> QED BY <1>3, <1>4, <1>5, <1>6, <1>7 DEF IInv

-----------------------------------------------------------------------------
(***************************************************************************)
(* One lemma per action.                                                   *)
(***************************************************************************)
USE DEF vars

\* The table after the current one is asked for, and later.
LEMMA NextTableInv ==
  ASSUME IInv, NEW p \in Proc, NextTable(p), p \in Mains, pc[p] \in {"gen", "wait"},
         UNCHANGED <<opt, row, left, pos, seed, buf, disk, c, lost, crashes>>
  PROVE  IInv'
<1> USE DEF IInv
<1>1. PICK u \in opt.table \cup {END} :
        /\ u > tbl[p]
        /\ tbl' = [tbl EXCEPT ![p] = u]
        /\ pc' = [pc EXCEPT ![p] = IF u = END THEN "exiting" ELSE "main"]
  BY DEF NextTable
<1>2. opt.table \subseteq Tables
  BY CommandFacts, ChoiceFacts DEF TypeOK
<1>3. TypeOK'
  <2>1. pc' \in [Proc -> {"idle", "main", "partial", "gen", "fork", "wait",
                         "exiting", "done", "dead", "failed"}]
    BY <1>1 DEF TypeOK
  <2>2. tbl' \in [Proc -> Tables \cup {END}]
    BY <1>1, <1>2 DEF TypeOK
  <2> QED BY <2>1, <2>2 DEF TypeOK, Row
<1>4. Placed'
  BY <1>1 DEF Placed, AtTable, TypeOK, Mains, Children, Parallel, Forked
<1>5. Fresh'
  <2> SUFFICES ASSUME NEW q \in Proc, AtTable(q)', NEW t \in opt.table,
                      t > tbl'[q] \/ (t = tbl'[q] /\ pc'[q] # "gen"), NEW s \in Reads(t)
               PROVE  seed[q][s] = 0
    BY DEF Fresh, AtTable
  <2>1. CASE q = p
    <3>1. tbl'[q] = u
      BY <1>1, <2>1 DEF TypeOK
    <3>2. t \in Int /\ u \in Int /\ tbl[p] \in Int
      <4>1. tbl[p] \in Tables \cup {END}
        BY DEF TypeOK
      <4> QED BY <1>2, <4>1, TableInt
    <3>3. t > tbl[p] /\ AtTable(p)
      BY <1>1, <3>1, <3>2 DEF AtTable
    <3> QED BY <2>1, <3>3 DEF Fresh
  <2>2. CASE q # p
    BY <1>1, <2>2 DEF Fresh, AtTable, TypeOK
  <2> QED BY <2>1, <2>2
<1>6. AtRow'
  BY <1>1 DEF AtRow, TypeOK
<1>7. BufExact' /\ DiskExact'
  BY DEF BufExact, DiskExact
<1> QED BY <1>3, <1>4, <1>5, <1>6, <1>7

\* gen_tbl starts with the streams at the first row of the part.
LEMMA LoadInv ==
  ASSUME IInv, NEW p \in Proc, Load(p, tbl[p]), pc[p] \in {"main", "partial"},
         p \in Mains \/ p \in Children, Parallel(tbl[p]) => p \in Children,
         NEW at \in [Stream -> Int], seed' = [seed EXCEPT ![p] = at],
         \A s \in Reads(tbl[p]) : at[s] = Boundary(s) * (First(tbl[p], p) - 1),
         \A u \in opt.table : u # tbl[p] => \A s \in Reads(u) : at[s] = seed[p][s]
  PROVE  IInv'
<1> USE DEF IInv
<1> DEFINE t == tbl[p]
<1>1. t \in opt.table /\ t \in Tables
  BY CommandFacts, ChoiceFacts DEF TypeOK, Placed, AtTable
<1>2. First(t, p) \in Nat /\ First(t, p) >= 1 /\ Count(t, p) \in Nat
  BY <1>1, PartType DEF TypeOK
<1>3. /\ pc' = [pc EXCEPT ![p] = "gen"]
      /\ row' = [row EXCEPT ![p] = First(t, p)]
      /\ left' = [left EXCEPT ![p] = Count(t, p)]
      /\ pos' = [pos EXCEPT ![p] = 0]
      /\ UNCHANGED <<opt, tbl, buf, disk, c, lost, crashes>>
  BY DEF Load
<1>4. TypeOK'
  BY <1>2, <1>3 DEF TypeOK, Row
<1>5. Placed'
  BY <1>2, <1>3 DEF Placed, AtTable, TypeOK, Mains, Children, Parallel, Forked
<1>6. Fresh'
  <2> SUFFICES ASSUME NEW q \in Proc, AtTable(q)', NEW u \in opt.table,
                      u > tbl[q] \/ (u = tbl[q] /\ pc'[q] # "gen"), NEW s \in Reads(u)
               PROVE  seed'[q][s] = 0
    BY <1>3 DEF Fresh
  <2>1. CASE q = p
    <3>1. pc'[p] = "gen" /\ AtTable(p)
      BY <1>3 DEF TypeOK, AtTable
    <3>2. u > tbl[p] /\ u # tbl[p]
      BY <1>1, <2>1, <3>1, CommandFacts, ChoiceFacts, TableInt DEF TypeOK
    <3>3. seed[p][s] = 0
      BY <3>1, <3>2 DEF Fresh
    <3>4. seed'[p] = at
      BY DEF TypeOK
    <3> QED BY <2>1, <3>2, <3>3, <3>4
  <2>2. CASE q # p
    BY <1>3, <2>2 DEF Fresh, AtTable, TypeOK
  <2> QED BY <2>1, <2>2
<1>7. AtRow'
  <2> SUFFICES ASSUME NEW q \in Proc, pc'[q] = "gen", NEW s \in Reads(tbl[q])
               PROVE  seed'[q][s] = Boundary(s) * (row'[q] - 1)
    BY <1>3 DEF AtRow
  <2>1. CASE q = p
    <3>1. seed'[p] = at /\ row'[p] = First(t, p)
      BY <1>3 DEF TypeOK
    <3> QED BY <2>1, <3>1
  <2>2. CASE q # p
    BY <1>3, <2>2 DEF AtRow, TypeOK
  <2> QED BY <2>1, <2>2
<1>8. BufExact' /\ DiskExact'
  BY <1>3 DEF BufExact, DiskExact
<1> QED BY <1>4, <1>5, <1>6, <1>7, <1>8

\* gen_tbl without partitions starts at row 1, with the streams where they began.
LEMMA SerialInv ==
  ASSUME IInv, NEW p \in Proc, Serial(p)
  PROVE  IInv'
<1> USE DEF IInv, Serial
<1>1. tbl[p] \in opt.table /\ tbl[p] \in Tables /\ p \in Mains
  BY CommandFacts, ChoiceFacts DEF TypeOK, Placed, AtTable
<1>2. seed[p] \in [Stream -> Int] /\ seed' = [seed EXCEPT ![p] = seed[p]]
  BY DEF TypeOK
<1>3. \A s \in Reads(tbl[p]) : seed[p][s] = 0 /\ Boundary(s) * 0 = 0
  <2>1. ASSUME NEW s \in Reads(tbl[p])
        PROVE  seed[p][s] = 0
    BY <1>1 DEF Fresh, AtTable
  <2>2. ASSUME NEW s \in Reads(tbl[p])
        PROVE  Boundary(s) * 0 = 0
    <3>1. s \in Stream
      BY DEF Reads
    <3>2. Boundary(s) \in Nat
      BY <3>1, BoundaryNat
    <3> QED BY <3>2
  <2> QED BY <2>1, <2>2
<1>4. \A s \in Reads(tbl[p]) : seed[p][s] = Boundary(s) * (First(tbl[p], p) - 1)
  <2>1. First(tbl[p], p) - 1 = 0
    BY DEF First
  <2> QED BY <1>3, <2>1
<1>5. Load(p, tbl[p]) /\ ~Parallel(tbl[p]) /\ pc[p] = "main"
  OBVIOUS
<1> HIDE DEF Serial
<1>6. SUFFICES ASSUME NEW at \in [Stream -> Int], at = seed[p]
               PROVE  IInv'
  BY <1>2
<1> QED BY <1>1, <1>2, <1>4, <1>5, <1>6, LoadInv

\* The two ways to say how many draws the rows before a part reserve.
LEMMA Commute ==
  ASSUME NEW b \in Int, NEW k \in Int, NEW n \in Int
  PROVE  k * (b * n) = b * (n * k)
OBVIOUS

\* partial: the jump lands where a serial run is after the rows of the parts before.
LEMMA PartialInv ==
  ASSUME IInv, NoWrap, NEW p \in Proc, Partial(p)
  PROVE  IInv'
<1> USE DEF IInv
<1> DEFINE t  == tbl[p]
           at == Advance(t, seed[p], PartRows(t), p - 1)
<1>1. t \in opt.table /\ t \in Tables /\ opt.table \in TableChoices
  BY CommandFacts, ChoiceFacts DEF TypeOK, Placed, AtTable, Partial
<1>2. Parallel(t) /\ p \in Children
  BY DEF Partial, Placed, Mains
<1>3. p - 1 \in Nat /\ PartRows(t) \in Nat /\ seed[p] \in [Stream -> Int] /\ t < NATION
  BY <1>1, <1>2, PartType, CommandFacts DEF Children, TypeOK, Parallel
<1>4. at \in [Stream -> Int] /\ seed' = [seed EXCEPT ![p] = at] /\ Load(p, t)
  BY <1>3, AdvanceType DEF Partial
<1>5. ASSUME NEW s \in Reads(t)
      PROVE  at[s] = Boundary(s) * (First(t, p) - 1)
  <2>1. seed[p][s] = 0
    BY <1>1 DEF Fresh, AtTable, Partial
  <2>2. Boundary(s) * PartRows(t) <= Modulus
    <3>1. opt \in Commands
      BY DEF TypeOK
    <3>2. PartJump(t, s, opt) <= Modulus
      BY <1>1, <1>2, <3>1 DEF NoWrap, Parallel
    <3> QED BY <3>2 DEF PartJump, PartRows
  <2>3. at[s] = seed[p][s] + (p - 1) * (Boundary(s) * PartRows(t))
    BY <1>1, <1>3, <2>2, SkipAligned
  <2>4. Boundary(s) \in Int
    <3>1. s \in Stream
      BY DEF Reads
    <3> QED BY <3>1, BoundaryNat
  <2>5. First(t, p) - 1 = PartRows(t) * (p - 1)
    <3>1. PartRows(t) * (p - 1) \in Int
      BY <1>3
    <3> QED BY <1>2, <3>1 DEF First
  <2>6. (p - 1) * (Boundary(s) * PartRows(t)) = Boundary(s) * (PartRows(t) * (p - 1))
    BY <1>3, <2>4, Commute
  <2>7. Boundary(s) * (PartRows(t) * (p - 1)) \in Int
    BY <1>3, <2>4
  <2> QED BY <2>1, <2>3, <2>5, <2>6, <2>7
<1>6. ASSUME NEW u \in opt.table, u # t, NEW s \in Reads(u)
      PROVE  at[s] = seed[p][s]
  BY <1>1, <1>3, <1>6, Independent
<1>7. pc[p] \in {"main", "partial"}
  BY DEF Partial
<1> HIDE DEF at
<1> QED BY <1>2, <1>4, <1>5, <1>6, <1>7, LoadInv

\* Writing exact rows over exact rows leaves exact rows.
LEMMA OverlayExact ==
  ASSUME NEW t \in Tables, NEW file, NEW W, file \subseteq Row(t), W \subseteq Row(t),
         \A x \in file : Exact(x, t), \A x \in W : Exact(x, t)
  PROVE  Overlay(file, W) \subseteq Row(t) /\ \A x \in Overlay(file, W) : Exact(x, t)
BY DEF Overlay

\* The rows a process has buffered, and the file it has opened, are exact.
LEMMA PendingExact ==
  ASSUME IInv, NEW p \in Proc, NEW t \in Tables
  PROVE  Pending(p, t) \subseteq Row(t) /\ \A x \in Pending(p, t) : Exact(x, t)
BY DEF IInv, TypeOK, BufExact, Pending

\* The file a process has opened holds exact rows.
LEMMA FileExact ==
  ASSUME IInv, NEW p \in Proc, NEW t \in Tables
  PROVE  /\ FileOf(t, p) \in File
         /\ disk[FileOf(t, p)] \subseteq Row(t)
         /\ \A x \in disk[FileOf(t, p)] : Exact(x, t)
<1>1. FileOf(t, p) \in File /\ FileOf(t, p)[1] = t
  BY DbgenAssumption DEF FileOf, PartOf, File, Proc
<1> QED BY <1>1 DEF IInv, TypeOK, DiskExact

\* A step that changes one file to exact rows keeps every file exact.
LEMMA DiskStep ==
  ASSUME IInv, NEW p \in Proc, NEW t \in Tables, NEW rows,
         disk' = [disk EXCEPT ![FileOf(t, p)] = rows],
         rows \subseteq Row(t), \A x \in rows : Exact(x, t)
  PROVE  /\ DOMAIN disk' = File
         /\ \A f \in File : disk'[f] \subseteq Row(f[1])
         /\ DiskExact'
<1>1. FileOf(t, p) \in File /\ FileOf(t, p)[1] = t
  BY DbgenAssumption DEF FileOf, PartOf, File, Proc
<1>2. DOMAIN disk' = File
  BY DEF IInv, TypeOK
<1>3. ASSUME NEW f \in File
      PROVE  disk'[f] \subseteq Row(f[1]) /\ \A x \in disk'[f] : Exact(x, f[1])
  <2>1. CASE f = FileOf(t, p)
    BY <1>1, <2>1 DEF IInv, TypeOK
  <2>2. CASE f # FileOf(t, p)
    BY <2>2 DEF IInv, TypeOK, DiskExact
  <2> QED BY <2>1, <2>2
<1> QED BY <1>2, <1>3 DEF DiskExact

\* A row is made where a serial run makes it, and leaves the streams at the next.
LEMMA GenRowInv ==
  ASSUME IInv, NEW p \in Proc, GenRow(p)
  PROVE  IInv'
<1> USE DEF IInv
<1> DEFINE t == tbl[p]
           r == [n |-> pos[p] + 1, i |-> row[p], at |-> [s \in Reads(t) |-> seed[p][s]]]
<1>1. PICK lines \in LineCounts, var \in VarDraws, full \in BOOLEAN :
        /\ seed' = [seed EXCEPT ![p] = AfterRow(t, lines, var, seed[p])]
        /\ \/ /\ buf' = [buf EXCEPT ![p] = {w \in buf[p] : w.t # t}]
              /\ disk' = [disk EXCEPT ![FileOf(t, p)] =
                            Overlay(Opened(t, p), Pending(p, t) \cup {r})]
           \/ /\ buf' = [buf EXCEPT ![p] = buf[p] \cup {[t |-> t, row |-> r]}]
              /\ disk' = [disk EXCEPT ![FileOf(t, p)] = Opened(t, p)]
  BY DEF GenRow
<1>2. /\ pc[p] = "gen" /\ left[p] > 0
      /\ row' = [row EXCEPT ![p] = row[p] + 1]
      /\ left' = [left EXCEPT ![p] = left[p] - 1]
      /\ pos' = [pos EXCEPT ![p] = pos[p] + 1]
      /\ UNCHANGED <<opt, pc, tbl, c, lost, crashes>>
  BY DEF GenRow
<1>3. t \in opt.table /\ t \in Tables /\ opt.table \in TableChoices
  BY <1>2, CommandFacts, ChoiceFacts DEF TypeOK, Placed, AtTable
<1>4. lines \in 1..O_LCNT_MAX /\ var \in [VarStream -> Nat]
  BY DbgenAssumption
<1>5. seed[p] \in [Stream -> Int] /\ row[p] \in Int /\ row[p] >= 1 /\ pos[p] \in Nat
  BY <1>2 DEF TypeOK, Placed
<1>6. r \in Row(t) /\ Exact(r, t)
  <2>1. \A s \in Reads(t) : s \in Stream
    BY DEF Reads
  <2>2. r \in Row(t)
    BY <1>5, <2>1 DEF Row
  <2>3. Exact(r, t)
    BY <1>2 DEF Exact, AtRow
  <2> QED BY <2>2, <2>3
<1>7. Opened(t, p) \subseteq Row(t) /\ \A x \in Opened(t, p) : Exact(x, t)
  BY <1>3, FileExact DEF Opened
<1>8. DOMAIN disk' = File /\ (\A f \in File : disk'[f] \subseteq Row(f[1])) /\ DiskExact'
  <2>1. Pending(p, t) \cup {r} \subseteq Row(t) /\ \A x \in Pending(p, t) \cup {r} : Exact(x, t)
    BY <1>3, <1>6, PendingExact
  <2> DEFINE W == Pending(p, t) \cup {r}
             new == Overlay(Opened(t, p), W)
  <2> HIDE DEF W, r
  <2>2. new \subseteq Row(t) /\ \A x \in new : Exact(x, t)
    BY <1>3, <1>7, <2>1, OverlayExact DEF W
  <2>3. disk' = [disk EXCEPT ![FileOf(t, p)] = new]
        \/ disk' = [disk EXCEPT ![FileOf(t, p)] = Opened(t, p)]
    BY <1>1 DEF W
  <2> HIDE DEF new, t
  <2> QED BY <1>3, <1>7, <2>2, <2>3, DiskStep
<1>9. DOMAIN buf' = Proc /\ BufExact'
      /\ \A q \in Proc : \A w \in buf'[q] : w.t \in Tables /\ w.row \in Row(w.t)
  <2> DEFINE mine == [t |-> t, row |-> r]
  <2>1. mine.t \in Tables /\ mine.row \in Row(mine.t) /\ Exact(mine.row, mine.t)
    BY <1>3, <1>6
  <2> HIDE DEF mine, r
  <2>2. DOMAIN buf' = Proc
    BY <1>1 DEF TypeOK
  <2>3. ASSUME NEW q \in Proc, NEW w \in buf'[q]
        PROVE  w.t \in Tables /\ w.row \in Row(w.t) /\ Exact(w.row, w.t)
    <3>1. w \in buf[q] \/ w = mine
      BY <1>1 DEF TypeOK, mine
    <3> QED BY <2>1, <3>1 DEF TypeOK, BufExact
  <2> QED BY <2>2, <2>3 DEF BufExact
<1> HIDE DEF r
<1>10. AfterRow(t, lines, var, seed[p]) \in [Stream -> Int]
  BY <1>3, <1>4, <1>5, AfterRowType
<1>11. TypeOK'
  <2>1. seed' \in [Proc -> [Stream -> Int]]
    BY <1>1, <1>10 DEF TypeOK
  <2>2. /\ row' \in [Proc -> Int] /\ left' \in [Proc -> Nat] /\ pos' \in [Proc -> Nat]
    BY <1>2 DEF TypeOK
  <2> QED BY <1>2, <1>8, <1>9, <2>1, <2>2 DEF TypeOK, Row
<1>12. Placed'
  BY <1>2 DEF Placed, AtTable, TypeOK, Mains, Children, Parallel, Forked
<1>13. Fresh'
  <2> SUFFICES ASSUME NEW q \in Proc, AtTable(q), NEW u \in opt.table,
                      u > tbl[q] \/ (u = tbl[q] /\ pc[q] # "gen"), NEW s \in Reads(u)
               PROVE  seed'[q][s] = 0
    BY <1>2 DEF Fresh, AtTable
  <2>1. seed[q][s] = 0
    BY DEF Fresh
  <2>2. CASE q = p
    <3>1. u # t
      BY <1>2, <1>3, <2>2, ChoiceFacts, TableInt
    <3>2. AfterRow(t, lines, var, seed[p])[s] = seed[p][s]
      BY <1>3, <1>5, <3>1, Independent
    <3> QED BY <1>1, <2>1, <2>2, <3>2 DEF TypeOK
  <2>3. CASE q # p
    BY <1>1, <2>1, <2>3 DEF TypeOK
  <2> QED BY <2>2, <2>3
<1>14. AtRow'
  <2> SUFFICES ASSUME NEW q \in Proc, pc[q] = "gen", NEW s \in Reads(tbl[q])
               PROVE  seed'[q][s] = Boundary(s) * (row'[q] - 1)
    BY <1>2 DEF AtRow
  <2>1. seed[q][s] = Boundary(s) * (row[q] - 1)
    BY DEF AtRow
  <2>2. CASE q = p
    <3>1. seed'[p][s] = seed[p][s] + Boundary(s)
      <4>1. seed'[p] = AfterRow(t, lines, var, seed[p])
        BY <1>1 DEF TypeOK
      <4>2. s \in Reads(t)
        BY <2>2
      <4> HIDE DEF t
      <4>3. AfterRow(t, lines, var, seed[p])[s] = seed[p][s] + Boundary(s)
        BY <1>3, <1>4, <1>5, <4>2, RowAligned
      <4> QED BY <4>1, <4>3
    <3>2. row'[p] - 1 = row[p] - 1 + 1
      BY <1>2, <1>5 DEF TypeOK
    <3>3. s \in Stream
      BY DEF Reads
    <3>4. Boundary(s) * (row[p] - 1 + 1) = Boundary(s) * (row[p] - 1) + Boundary(s)
      BY <1>5, <3>3, BoundaryNat
    <3> QED BY <2>1, <2>2, <3>1, <3>2, <3>4
  <2>3. CASE q # p
    BY <1>1, <1>2, <2>1, <2>3 DEF TypeOK
  <2> QED BY <2>2, <2>3
<1> QED BY <1>8, <1>9, <1>11, <1>12, <1>13, <1>14

\* The steps that make no row and start no table leave streams and rows alone.
LEMMA QuietInv ==
  ASSUME IInv, TypeOK', Placed', BufExact', DiskExact', UNCHANGED <<opt, row, seed>>,
         \A p \in Proc : AtTable(p)' =>
            AtTable(p) /\ tbl'[p] = tbl[p] /\ (pc'[p] = "gen" <=> pc[p] = "gen")
  PROVE  IInv'
<1> USE DEF IInv
<1>1. Fresh'
  BY DEF Fresh
<1>2. AtRow'
  BY DEF AtRow, AtTable
<1> QED BY <1>1, <1>2

\* An overwrite that is refused makes no row.
LEMMA RefuseInv ==
  ASSUME IInv, NEW p \in Proc, Refuse(p)
  PROVE  IInv'
<1> USE DEF IInv, Refuse
<1>1. tbl[p] \in Tables /\ opt.table \subseteq Tables
  BY CommandFacts, ChoiceFacts DEF TypeOK, Placed, AtTable
<1>2. DOMAIN disk' = File /\ (\A f \in File : disk'[f] \subseteq Row(f[1])) /\ DiskExact'
  <2>1. CASE UNCHANGED disk
    BY <2>1 DEF TypeOK, DiskExact
  <2>2. CASE disk' = [disk EXCEPT ![FileOf(tbl[p], p)] = {}]
    <3> DEFINE none == {}
    <3>1. none \subseteq Row(tbl[p]) /\ \A x \in none : Exact(x, tbl[p])
      OBVIOUS
    <3>2. disk' = [disk EXCEPT ![FileOf(tbl[p], p)] = none]
      BY <2>2
    <3> HIDE DEF none, Refuse, IInv
    <3> QED BY <1>1, <3>1, <3>2, DiskStep
  <2> QED BY <2>1, <2>2
<1>3. lost' \subseteq File
  <2>1. \A t \in Tables : FileOf(t, p) \in File
    BY DbgenAssumption DEF FileOf, PartOf, File, Proc
  <2> QED BY <1>1, <2>1 DEF TypeOK
<1>4. TypeOK'
  BY <1>2, <1>3 DEF TypeOK, Row
<1>5. Placed' /\ BufExact'
  BY DEF Placed, AtTable, TypeOK, BufExact, Mains, Children, Parallel, Forked
<1>6. \A q \in Proc : AtTable(q)' =>
        AtTable(q) /\ tbl'[q] = tbl[q] /\ (pc'[q] = "gen" <=> pc[q] = "gen")
  BY DEF AtTable, TypeOK
<1> QED BY <1>2, <1>4, <1>5, <1>6, QuietInv

\* The end of a table leaves the streams of the later tables alone.
LEMMA EndTableInv ==
  ASSUME IInv, NEW p \in Proc, EndTable(p)
  PROVE  IInv'
<1> USE DEF IInv, EndTable
<1>1. CASE ~Forked(p)
  <2>1. p \in Mains
    BY <1>1 DEF Placed, Forked, Mains
  <2> QED BY <1>1, <2>1, NextTableInv
<1>2. CASE Forked(p)
  <2>1. pc' = [pc EXCEPT ![p] = "exiting"]
        /\ UNCHANGED <<opt, tbl, row, left, pos, seed, buf, disk, c, lost, crashes>>
    BY <1>2
  <2>2. TypeOK'
    BY <2>1 DEF TypeOK, Row
  <2>3. Placed'
    BY <2>1 DEF Placed, AtTable, TypeOK, Mains, Children, Parallel, Forked
  <2>4. BufExact' /\ DiskExact'
    BY <2>1 DEF BufExact, DiskExact
  <2>5. \A q \in Proc : AtTable(q)' =>
          AtTable(q) /\ tbl'[q] = tbl[q] /\ (pc'[q] = "gen" <=> pc[q] = "gen")
    BY <2>1 DEF AtTable, TypeOK
  <2> QED BY <2>1, <2>2, <2>3, <2>4, <2>5, QuietInv
<1> QED BY <1>1, <1>2

\* exit writes rows that were exact when they were made.
LEMMA DrainInv ==
  ASSUME IInv, NEW p \in Proc, Drain(p)
  PROVE  IInv'
<1> USE DEF IInv
<1>1. PICK t \in Tables :
        /\ disk' = [disk EXCEPT ![FileOf(t, p)] = Overlay(disk[FileOf(t, p)], Pending(p, t))]
        /\ buf' = [buf EXCEPT ![p] = {w \in buf[p] : w.t # t}]
  BY DEF Drain
<1>2. UNCHANGED <<opt, pc, tbl, row, left, pos, seed, c, lost, crashes>>
  BY DEF Drain
<1>3. DOMAIN disk' = File /\ (\A f \in File : disk'[f] \subseteq Row(f[1])) /\ DiskExact'
  <2> DEFINE new == Overlay(disk[FileOf(t, p)], Pending(p, t))
  <2>1. new \subseteq Row(t) /\ \A x \in new : Exact(x, t)
    BY FileExact, PendingExact, OverlayExact
  <2>2. disk' = [disk EXCEPT ![FileOf(t, p)] = new]
    BY <1>1
  <2> HIDE DEF new, IInv
  <2> QED BY <2>1, <2>2, DiskStep
<1>4. DOMAIN buf' = Proc /\ BufExact'
      /\ \A q \in Proc : \A w \in buf'[q] : w.t \in Tables /\ w.row \in Row(w.t)
  <2>1. \A q \in Proc : buf'[q] \subseteq buf[q]
    BY <1>1 DEF TypeOK
  <2> QED BY <1>1, <2>1 DEF TypeOK, BufExact
<1>5. TypeOK'
  BY <1>2, <1>3, <1>4 DEF TypeOK, Row
<1>6. Placed'
  BY <1>2 DEF Placed, AtTable, Mains, Children, Parallel, Forked
<1>7. \A q \in Proc : AtTable(q)' =>
        AtTable(q) /\ tbl'[q] = tbl[q] /\ (pc'[q] = "gen" <=> pc[q] = "gen")
  BY <1>2 DEF AtTable
<1> QED BY <1>2, <1>3, <1>4, <1>5, <1>6, <1>7, QuietInv

\* The steps that only move one process to another place.
LEMMA MoveInv ==
  ASSUME IInv, NEW p \in Proc,
         NEW at \in {"idle", "fork", "exiting", "done", "dead", "failed"},
         pc' = [pc EXCEPT ![p] = at],
         at = "fork" => pc[p] = "main" /\ p = 0 /\ ~opt.steps /\ Parallel(tbl[0])
                        /\ c' < opt.children,
         UNCHANGED <<opt, tbl, row, left, pos, seed, disk>>,
         buf' = buf \/ buf' = [buf EXCEPT ![p] = {}],
         c' \in 0..MaxProcs, pc[0] = "fork" => c' = c \/ p = 0,
         lost' \subseteq File, crashes' \in 0..MaxCrashes[opt]
  PROVE  IInv'
<1> USE DEF IInv
<1>1. \A q \in Proc : buf'[q] \subseteq buf[q]
  BY DEF TypeOK
<1>2. TypeOK'
  <2>1. DOMAIN buf' = Proc
        /\ \A q \in Proc : \A w \in buf'[q] : w.t \in Tables /\ w.row \in Row(w.t)
    BY <1>1 DEF TypeOK
  <2>2. pc' \in [Proc -> {"idle", "main", "partial", "gen", "fork", "wait",
                         "exiting", "done", "dead", "failed"}]
    BY DEF TypeOK
  <2> QED BY <2>1, <2>2 DEF TypeOK, Row
<1>3. Placed'
  <2>1. \A q \in Proc : q # p => pc'[q] = pc[q]
    BY DEF TypeOK
  <2>2. pc'[p] = at
    BY DEF TypeOK
  <2> QED BY <2>1, <2>2 DEF Placed, AtTable, Mains, Children, Parallel, Forked
<1>4. BufExact' /\ DiskExact'
  BY <1>1 DEF BufExact, DiskExact
<1>5. \A q \in Proc : AtTable(q)' =>
        AtTable(q) /\ tbl'[q] = tbl[q] /\ (pc'[q] = "gen" <=> pc[q] = "gen")
  BY DEF AtTable, TypeOK
<1> QED BY <1>2, <1>3, <1>4, <1>5, QuietInv

\* The end of a process.
LEMMA ExitInv ==
  ASSUME IInv, NEW p \in Proc, Exit(p)
  PROVE  IInv'
BY MoveInv DEF Exit, IInv, TypeOK

\* pload starts to fork, with at least two children to come.
LEMMA StartLoadInv ==
  ASSUME IInv, StartLoad
  PROVE  IInv'
<1>1. 0 \in Proc /\ opt.children \in 1..MaxProcs
  BY CommandFacts, DbgenAssumption DEF Proc, IInv, TypeOK
<1>2. c' \in 0..MaxProcs /\ c' < opt.children
  <2>1. opt.children > 1 /\ c' = 0
    BY DEF StartLoad, Parallel
  <2> QED BY <1>1, <2>1, DbgenAssumption
<1> QED BY <1>1, <1>2, MoveInv DEF StartLoad, IInv, TypeOK

\* A failed fork ends the parent.
LEMMA ForkFailsInv ==
  ASSUME IInv, ForkFails
  PROVE  IInv'
<1>1. 0 \in Proc
  BY DbgenAssumption DEF Proc
<1> QED BY <1>1, MoveInv DEF ForkFails, IInv, TypeOK

\* A wait that returns makes its child idle.
LEMMA ReapInv ==
  ASSUME IInv, Reap
  PROVE  IInv'
<1>1. PICK p \in Children : pc' = [pc EXCEPT ![p] = "idle"]
  BY DEF Reap
<1>2. p \in Proc
  BY CommandFacts, DbgenAssumption DEF Children, Proc, IInv, TypeOK
<1>3. c' \in 0..MaxProcs
  BY DbgenAssumption DEF Reap, IInv, TypeOK
<1> QED BY <1>1, <1>2, <1>3, MoveInv DEF Reap, IInv, TypeOK

\* A process killed makes no more rows.
LEMMA DieInv ==
  ASSUME IInv, NEW p \in Proc, Die(p)
  PROVE  IInv'
<1>1. lost' \subseteq File
  <2>1. Forked(p) => tbl[p] \in Tables
    BY DEF IInv, Placed
  <2>2. Forked(p) => FileOf(tbl[p], p) \in File
    BY <2>1, DbgenAssumption DEF FileOf, PartOf, File, Proc
  <2> QED BY <2>2 DEF Die, IInv, TypeOK
<1>2. crashes' \in 0..MaxCrashes[opt]
  BY DbgenAssumption DEF Die, IInv, TypeOK
<1> QED BY <1>1, <1>2, MoveInv DEF Die, IInv, TypeOK

\* A child starts with its parent's streams, which are fresh.
LEMMA ForkInv ==
  ASSUME IInv, Fork
  PROVE  IInv'
<1> USE DEF IInv
<1> DEFINE k == c + 1
<1>1. /\ 0 \in Proc /\ k \in Proc /\ k # 0 /\ k \in Children /\ k \in 0..MaxProcs
      /\ opt.children \in 1..MaxProcs
  <2>1. pc[0] = "fork" /\ c < opt.children /\ c \in 0..MaxProcs
    BY DEF Fork, Placed, TypeOK
  <2>2. opt.children \in 1..MaxProcs /\ MaxProcs \in Nat
    BY CommandFacts, DbgenAssumption DEF TypeOK
  <2> QED BY <2>1, <2>2 DEF Children, Proc
<1>2. /\ pc[0] = "fork" /\ c' = k
      /\ pc' = [pc EXCEPT ![k] = "partial", ![0] = IF k = opt.children THEN "wait" ELSE "fork"]
      /\ tbl' = [tbl EXCEPT ![k] = tbl[0]]
      /\ seed' = [seed EXCEPT ![k] = seed[0]]
      /\ buf' = [buf EXCEPT ![k] = buf[0]]
      /\ UNCHANGED <<opt, row, left, pos, disk, lost, crashes>>
  BY DEF Fork
<1> HIDE DEF k
<1>3. /\ pc'[k] = "partial" /\ tbl'[k] = tbl[0] /\ seed'[k] = seed[0] /\ buf'[k] = buf[0]
      /\ pc'[0] \in {"wait", "fork"} /\ (pc'[0] = "fork" => k < opt.children)
      /\ \A q \in Proc : q # k => tbl'[q] = tbl[q] /\ seed'[q] = seed[q] /\ buf'[q] = buf[q]
      /\ \A q \in Proc : q # k /\ q # 0 => pc'[q] = pc[q]
  <2>1. tbl'[k] = tbl[0] /\ seed'[k] = seed[0] /\ buf'[k] = buf[0]
    BY <1>1, <1>2 DEF TypeOK
  <2>2. pc'[k] = "partial" /\ pc'[0] = IF k = opt.children THEN "wait" ELSE "fork"
    BY <1>1, <1>2 DEF TypeOK
  <2>3. k # opt.children => k < opt.children
    BY <1>1 DEF Children
  <2>4. \A q \in Proc : q # k => tbl'[q] = tbl[q] /\ seed'[q] = seed[q] /\ buf'[q] = buf[q]
    BY <1>1, <1>2 DEF TypeOK
  <2>5. \A q \in Proc : q # k /\ q # 0 => pc'[q] = pc[q]
    BY <1>1, <1>2 DEF TypeOK
  <2> QED BY <2>1, <2>2, <2>3, <2>4, <2>5
<1>4. TypeOK'
  <2>1. pc' \in [Proc -> {"idle", "main", "partial", "gen", "fork", "wait",
                         "exiting", "done", "dead", "failed"}]
    BY <1>1, <1>2 DEF TypeOK
  <2>2. tbl' \in [Proc -> Tables \cup {END}] /\ seed' \in [Proc -> [Stream -> Int]]
    BY <1>1, <1>2 DEF TypeOK
  <2>3. DOMAIN buf' = Proc
        /\ \A q \in Proc : \A w \in buf'[q] : w.t \in Tables /\ w.row \in Row(w.t)
    BY <1>1, <1>2, <1>3 DEF TypeOK
  <2> QED BY <1>1, <1>2, <2>1, <2>2, <2>3 DEF TypeOK, Row
<1>5. Placed'
  <2>1. tbl[0] \in opt.table /\ Parallel(tbl[0]) /\ ~opt.steps /\ opt.table \subseteq Tables
    BY <1>1, <1>2, CommandFacts, ChoiceFacts DEF Placed, AtTable, TypeOK
  <2>2. tbl'[0] = tbl[0] /\ opt' = opt /\ c' = k
    BY <1>1, <1>2, <1>3
  <2>3. \A q \in Proc : q \notin {0, k} => (AtTable(q)' <=> AtTable(q))
    BY <1>3 DEF AtTable
  <2>4. (\A q \in Proc : AtTable(q) => tbl[q] \in opt.table)'
    BY <1>3, <2>1, <2>2, <2>3 DEF Placed
  <2>5. (\A q \in Proc : pc[q] = "main" => q \in Mains)'
    BY <1>3, <2>2 DEF Placed, Mains, Children
  <2>6. (\A q \in Proc : pc[q] = "partial" => q \in Children /\ Parallel(tbl[q]))'
    BY <1>1, <1>3, <2>1, <2>2 DEF Placed, Children, Parallel
  <2>7. (\A q \in Proc : pc[q] \in {"fork", "wait"} => q = 0 /\ ~opt.steps)'
    BY <1>3, <2>1, <2>2 DEF Placed
  <2>8. (\A q \in Proc : pc[q] = "gen" => (q \in Mains \/ q \in Children) /\ row[q] >= 1)'
    BY <1>2, <1>3 DEF Placed, Mains, Children
  <2>9. (pc[0] = "fork" => c < opt.children /\ Parallel(tbl[0]))'
    BY <1>3, <2>1, <2>2 DEF Parallel
  <2>10. (\A q \in Proc : Forked(q) => tbl[q] \in Tables)'
    BY <1>3, <2>1, <2>2 DEF Placed, Forked
  <2> QED BY <2>4, <2>5, <2>6, <2>7, <2>8, <2>9, <2>10 DEF Placed
<1>6. Fresh'
  <2> SUFFICES ASSUME NEW q \in Proc, AtTable(q)', NEW t \in opt.table,
                      t > tbl'[q] \/ (t = tbl'[q] /\ pc'[q] # "gen"), NEW s \in Reads(t)
               PROVE  seed'[q][s] = 0
    BY <1>2 DEF Fresh
  <2>1. CASE q \in {0, k}
    <3>1. seed'[q] = seed[0] /\ tbl'[q] = tbl[0]
      BY <1>1, <1>3, <2>1
    <3>2. t > tbl[0] \/ (t = tbl[0] /\ pc[0] # "gen")
      BY <1>2, <3>1
    <3> QED BY <1>1, <1>2, <3>1, <3>2 DEF Fresh, AtTable
  <2>2. CASE q \notin {0, k}
    <3>1. seed'[q] = seed[q] /\ tbl'[q] = tbl[q] /\ pc'[q] = pc[q]
      BY <1>3, <2>2
    <3> QED BY <3>1 DEF Fresh, AtTable
  <2> QED BY <2>1, <2>2
<1>7. AtRow'
  <2> SUFFICES ASSUME NEW q \in Proc, pc'[q] = "gen", NEW s \in Reads(tbl'[q])
               PROVE  seed'[q][s] = Boundary(s) * (row[q] - 1)
    BY <1>2 DEF AtRow
  <2>1. q \notin {0, k}
    BY <1>3
  <2>2. seed'[q] = seed[q] /\ tbl'[q] = tbl[q] /\ pc'[q] = pc[q]
    BY <1>3, <2>1
  <2> QED BY <2>2 DEF AtRow
<1>8. BufExact' /\ DiskExact'
  BY <1>1, <1>2, <1>3 DEF BufExact, DiskExact
<1> QED BY <1>4, <1>5, <1>6, <1>7, <1>8

\* pload returns to the loop over the tables.
LEMMA EndLoadInv ==
  ASSUME IInv, EndLoad
  PROVE  IInv'
<1>1. 0 \in Proc /\ 0 \in Mains
  BY DbgenAssumption DEF EndLoad, IInv, Placed, Proc, Mains
<1> QED BY <1>1, NextTableInv DEF EndLoad

\* A process started again has its streams where they began.
LEMMA RerunInv ==
  ASSUME IInv, NEW p \in Proc, Rerun(p)
  PROVE  IInv'
<1> USE DEF IInv
<1>1. PICK t \in opt.table : tbl' = [tbl EXCEPT ![p] = t]
  BY CommandFacts, ChoiceFacts DEF Rerun, TypeOK
<1>2. /\ p \in Mains
      /\ pc' = [pc EXCEPT ![p] = "main"]
      /\ seed' = [seed EXCEPT ![p] = [s \in Stream |-> 0]]
      /\ UNCHANGED <<opt, row, left, pos, buf, disk, c, lost, crashes>>
  BY DEF Rerun
<1>3. TypeOK'
  <2>1. tbl' \in [Proc -> Tables \cup {END}]
    BY <1>1, CommandFacts, ChoiceFacts DEF TypeOK
  <2>2. pc' \in [Proc -> {"idle", "main", "partial", "gen", "fork", "wait",
                         "exiting", "done", "dead", "failed"}]
    BY <1>2 DEF TypeOK
  <2> QED BY <1>2, <2>1, <2>2 DEF TypeOK, Row
<1>4. Placed'
  BY <1>1, <1>2 DEF Placed, AtTable, TypeOK, Mains, Children, Parallel, Forked
<1>5. Fresh'
  <2> SUFFICES ASSUME NEW q \in Proc, AtTable(q)', NEW u \in opt.table,
                      u > tbl'[q] \/ (u = tbl'[q] /\ pc'[q] # "gen"), NEW s \in Reads(u)
               PROVE  seed'[q][s] = 0
    BY <1>2 DEF Fresh
  <2>1. CASE q = p
    <3>1. s \in Stream
      BY DEF Reads
    <3> QED BY <1>2, <2>1, <3>1 DEF TypeOK
  <2>2. CASE q # p
    BY <1>1, <1>2, <2>2 DEF Fresh, AtTable, TypeOK
  <2> QED BY <2>1, <2>2
<1>6. AtRow'
  BY <1>1, <1>2 DEF AtRow, TypeOK
<1>7. BufExact' /\ DiskExact'
  BY <1>2 DEF BufExact, DiskExact
<1> QED BY <1>3, <1>4, <1>5, <1>6, <1>7

-----------------------------------------------------------------------------
(***************************************************************************)
(* The theorems.                                                           *)
(***************************************************************************)

\* Every step keeps the invariant.
LEMMA NextInv ==
  ASSUME NoWrap, IInv, [Next]_vars
  PROVE  IInv'
<1>1. ASSUME NEW p \in Proc, Load1(p) PROVE IInv'
  <2>1. CASE Serial(p)
    BY <2>1, SerialInv
  <2>2. CASE Partial(p)
    BY <2>2, PartialInv
  <2>3. CASE GenRow(p)
    BY <2>3, GenRowInv
  <2>4. CASE EndTable(p)
    BY <2>4, EndTableInv
  <2>5. CASE Drain(p)
    BY <2>5, DrainInv
  <2>6. CASE Exit(p)
    BY <2>6, ExitInv
  <2> QED BY <1>1, <2>1, <2>2, <2>3, <2>4, <2>5, <2>6 DEF Load1
<1>2. ASSUME NEW p \in Proc, Refuse(p) \/ Die(p) \/ Rerun(p) PROVE IInv'
  BY <1>2, RefuseInv, DieInv, RerunInv
<1>3. CASE Parent \/ ForkFails
  BY <1>3, StartLoadInv, ForkInv, ReapInv, EndLoadInv, ForkFailsInv DEF Parent
<1>4. CASE UNCHANGED vars
  <2>1. TypeOK' /\ Placed'
    BY <1>4 DEF IInv, TypeOK, Row, Placed, AtTable, Mains, Children, Parallel, Forked
  <2>2. BufExact' /\ DiskExact'
    BY <1>4 DEF IInv, BufExact, DiskExact
  <2>3. \A p \in Proc : AtTable(p)' =>
          AtTable(p) /\ tbl'[p] = tbl[p] /\ (pc'[p] = "gen" <=> pc[p] = "gen")
    BY <1>4 DEF AtTable
  <2> QED BY <1>4, <2>1, <2>2, <2>3, QuietInv
<1> QED BY <1>1, <1>2, <1>3, <1>4 DEF Next, Halted

\* The invariant gives the property.
LEMMA ExactRows == IInv => RowsAsSerial
<1> SUFFICES ASSUME IInv, NEW f \in File, NEW x \in disk[f], x.i > 0, NEW s \in DOMAIN x.at
             PROVE  SameSeed(x.at[s], (x.i - 1) * Boundary(s))
  BY DEF RowsAsSerial, SerialSeeds
<1>1. x \in Row(f[1])
  BY DEF IInv, TypeOK
<1>2. x.i \in Nat /\ s \in Reads(f[1])
  BY <1>1 DEF Row
<1>3. Boundary(s) \in Nat /\ x.at[s] = Boundary(s) * (x.i - 1)
  <2>1. s \in Stream
    BY <1>2 DEF Reads
  <2> QED BY <1>2, <2>1, BoundaryNat DEF IInv, DiskExact, Exact
<1>4. x.at[s] = (x.i - 1) * Boundary(s) /\ (x.i - 1) * Boundary(s) \in Int
  BY <1>2, <1>3
<1>5. x.at[s] - (x.i - 1) * Boundary(s) = 0
  BY <1>4
<1>6. 0 % (Modulus - 1) = 0
  BY ModulusAssumption
<1> QED BY <1>5, <1>6 DEF SameSeed

\* The invariant holds in every state of every behaviour.
LEMMA Inductive == ASSUME NoWrap PROVE Spec => []IInv
<1>1. IInv /\ [Next]_vars => IInv'
  BY NextInv
<1> QED BY <1>1, InitInv, PTL DEF Spec

\* However the processes interleave, die and are started again, every variable keeps its
\* type; the rows in every file have the streams of that file's table.
THEOREM TypeCorrect == ASSUME NoWrap PROVE Spec => []TypeOK
<1>1. IInv => TypeOK
  BY DEF IInv
<1> QED BY <1>1, Inductive, PTL

\* For every scale, number of parts and choice of tables, every row on disk is drawn
\* where a serial run draws it: the jumps of the sd_ functions agree with the draws of
\* the mk_ functions rounded up by row_stop, stream by stream.
THEOREM SeedsAsSerial == ASSUME NoWrap PROVE Spec => []RowsAsSerial
BY ExactRows, Inductive, PTL

-----------------------------------------------------------------------------
(***************************************************************************)
(* What the parent holds when it forks.  It makes rows itself only of      *)
(* NATION and REGION, which come after every table it forks for.           *)
(***************************************************************************)
ParentInv ==
  /\ opt \in Commands /\ c \in Nat
  /\ DOMAIN pc = Proc /\ DOMAIN buf = Proc /\ tbl \in [Proc -> Int]
  /\ pc[0] = "fork" => ~opt.steps /\ Parallel(tbl[0])
  /\ ~opt.steps =>
       /\ pc[0] # "partial"
       /\ pc[0] = "gen" => ~Parallel(tbl[0])
       /\ buf[0] # {} => ~Parallel(tbl[0])

LEMMA OptTables ==
  ASSUME opt \in Commands
  PROVE  /\ opt.table \cup {END} \subseteq Int
         /\ (CHOOSE t \in opt.table : \A u \in opt.table : t <= u) \in Int
<1>1. opt.table \in TableChoices
  BY CommandFacts
<1>2. opt.table \subseteq Tables /\ \E t \in opt.table : \A u \in opt.table : t <= u
  BY <1>1, ChoiceFacts
<1> QED BY <1>2, TableInt

LEMMA ProcFacts == 0 \in Proc /\ \A p \in Proc : p \in Int
BY DbgenAssumption DEF Proc

\* A step of a process that leaves the parent's table where it is.
LEMMA SameTable ==
  ASSUME ParentInv, UNCHANGED <<opt, tbl>>, c' \in Nat, DOMAIN pc' = Proc, DOMAIN buf' = Proc,
         pc'[0] = "fork" => ~opt.steps /\ Parallel(tbl[0]),
         ~opt.steps /\ pc'[0] = "partial" => pc[0] = "partial",
         ~opt.steps /\ pc'[0] = "gen" => ~Parallel(tbl[0]),
         ~opt.steps /\ buf'[0] # {} => buf[0] # {} \/ ~Parallel(tbl[0])
  PROVE  ParentInv'
BY DEF ParentInv, Parallel

\* main's loop goes on to a later table, after which the parent forks no more if it did not.
LEMMA LaterTable ==
  ASSUME ParentInv, NEW p \in Proc, NextTable(p), UNCHANGED <<opt, buf>>, c' \in Nat
  PROVE  ParentInv'
<1>1. PICK u \in opt.table \cup {END} :
        /\ u > tbl[p] /\ tbl' = [tbl EXCEPT ![p] = u]
        /\ pc' = [pc EXCEPT ![p] = IF u = END THEN "exiting" ELSE "main"]
  BY DEF NextTable
<1>2. u \in Int /\ 0 \in Proc
  BY OptTables, ProcFacts DEF ParentInv
<1>3. ~Parallel(tbl[0]) => ~Parallel(tbl'[0])
  BY <1>1, <1>2 DEF ParentInv, Parallel, NATION
<1>4. CASE p = 0
  BY <1>1, <1>2, <1>3, <1>4 DEF ParentInv, Parallel
<1>5. CASE p # 0
  BY <1>1, <1>2, <1>5 DEF ParentInv, Parallel
<1> QED BY <1>4, <1>5

LEMMA NextParent ==
  ASSUME ParentInv, [Next]_vars
  PROVE  ParentInv'
<1> USE ProcFacts
<1>1. ASSUME NEW p \in Proc, Serial(p) PROVE ParentInv'
  BY <1>1, SameTable DEF Serial, Load, ParentInv
<1>2. ASSUME NEW p \in Proc, Partial(p) PROVE ParentInv'
  BY <1>2, SameTable DEF Partial, Load, ParentInv
<1>3. ASSUME NEW p \in Proc, GenRow(p) PROVE ParentInv'
  <2>1. UNCHANGED <<opt, pc, tbl, c>> /\ pc[p] = "gen"
        /\ DOMAIN buf' = DOMAIN buf /\ (p # 0 => buf'[0] = buf[0])
    BY <1>3 DEF GenRow, ParentInv
  <2> QED BY <2>1, SameTable DEF ParentInv
<1>4. ASSUME NEW p \in Proc, EndTable(p) PROVE ParentInv'
  <2>1. CASE Forked(p)
    BY <1>4, <2>1, SameTable DEF EndTable, Forked, ParentInv
  <2>2. CASE ~Forked(p)
    BY <1>4, <2>2, LaterTable DEF EndTable, ParentInv
  <2> QED BY <2>1, <2>2
<1>5. ASSUME NEW p \in Proc, Drain(p) PROVE ParentInv'
  <2>1. UNCHANGED <<opt, pc, tbl, c>> /\ DOMAIN buf' = DOMAIN buf /\ buf'[0] \subseteq buf[0]
    BY <1>5 DEF Drain, ParentInv
  <2> QED BY <2>1, SameTable DEF ParentInv
<1>6. ASSUME NEW p \in Proc, Exit(p) \/ Refuse(p) PROVE ParentInv'
  BY <1>6, SameTable DEF Exit, Refuse, ParentInv
<1>7. ASSUME NEW p \in Proc, Die(p) PROVE ParentInv'
  BY <1>7, SameTable DEF Die, ParentInv
<1>8. ASSUME NEW p \in Proc, Rerun(p) PROVE ParentInv'
  <2>1. tbl' \in [Proc -> Int] /\ (p # 0 => tbl'[0] = tbl[0])
    BY <1>8, OptTables DEF Rerun, ParentInv
  <2>2. p = 0 => ~opt.steps /\ opt.children = 1
    BY <1>8, CommandFacts DEF Rerun, Mains, Children, ParentInv
  <2> QED BY <1>8, <2>1, <2>2 DEF Rerun, ParentInv, Parallel
<1>9. CASE StartLoad \/ ForkFails
  BY <1>9, SameTable DEF StartLoad, ForkFails, ParentInv
<1>10. CASE Fork
  <2>1. c + 1 # 0 /\ c + 1 \in Nat
    BY DEF ParentInv
  <2>2. tbl' \in [Proc -> Int] /\ tbl'[0] = tbl[0] /\ buf'[0] = buf[0] /\ DOMAIN pc' = Proc
        /\ DOMAIN buf' = Proc /\ pc'[0] \in {"wait", "fork"} /\ opt' = opt /\ pc[0] = "fork"
        /\ c' = c + 1
    BY <1>10, <2>1 DEF Fork, ParentInv
  <2> QED BY <2>1, <2>2 DEF ParentInv, Parallel
<1>11. CASE Reap
  BY <1>11, SameTable DEF Reap, ParentInv, Children
<1>12. CASE EndLoad
  BY <1>12, LaterTable DEF EndLoad, ParentInv
<1>13. CASE UNCHANGED vars
  BY <1>13, SameTable DEF vars, ParentInv
<1> QED BY <1>1, <1>2, <1>3, <1>4, <1>5, <1>6, <1>7, <1>8, <1>9, <1>10, <1>11, <1>12, <1>13
        DEF Next, Load1, Parent, Halted

\* At the start the parent has forked nothing and buffered nothing.
LEMMA InitParent == Init => ParentInv
<1> SUFFICES ASSUME Init PROVE ParentInv
  OBVIOUS
<1>1. tbl \in [Proc -> Int]
  BY OptTables DEF Init
<1>2. pc[0] \in {"main", "idle"} /\ buf[0] = {}
  BY ProcFacts DEF Init
<1> QED BY <1>1, <1>2 DEF Init, ParentInv

\* Whatever the tables, processes and crashes, the parent's buffers are empty whenever it forks,
\* so that no child writes rows of its parent again when it exits.
THEOREM NothingCopied == Spec => []NothingBufferedAtFork
<1>1. ParentInv /\ [Next]_vars => ParentInv'
  BY NextParent
<1>2. ParentInv => NothingBufferedAtFork
  BY DEF ParentInv, NothingBufferedAtFork
<1> QED BY <1>1, <1>2, InitParent, PTL DEF Spec

-----------------------------------------------------------------------------
(***************************************************************************)
(* What is in the files.  Each file has its writers: the process of the    *)
(* part, or every step for a file that all of them write.  A row that a    *)
(* writer has printed is on disk or in its buffers, until another writer   *)
(* opens the file again and has to print it itself.                        *)
(***************************************************************************)
Writers(t)  == IF Parallel(t) THEN Children ELSE Mains
Started(p)  == pc[p] = "gen" /\ pos[p] > 0
Gone(p)     == pc[p] \in {"dead", "failed"}

\* p has still to open its file of t, or will never end well.
OwnAhead(p, t) == Gone(p) \/ (AtTable(p) /\ (tbl[p] < t \/ (tbl[p] = t /\ ~Started(p))))
ChildAhead(p, t) ==
  \/ Gone(0)
  \/ AtTable(0) /\ tbl[0] < t
  \/ tbl[0] = t /\ \/ pc[0] = "main"
                   \/ pc[0] = "fork" /\ p > c
                   \/ pc[0] \in {"fork", "wait"} /\ pc[p] \in {"partial", "gen"} /\ ~Started(p)
Ahead(p, t) == IF Forked(p) THEN ChildAhead(p, t) ELSE OwnAhead(p, t)

\* The rows of t that p has printed.
Printed(p, t) == 1..(IF pc[p] = "gen" /\ tbl[p] = t THEN pos[p] ELSE Count(t, p))
Written(p, t) ==
  \A n \in Printed(p, t) : \E x \in disk[FileOf(t, p)] \cup Pending(p, t) : x.n = n

\* A row of the k-th part of t.
PartCount(t, k) == IF Parallel(t) THEN Count(t, k) ELSE Rows(t)
Belongs(x, t, k) == x.n \in 1..PartCount(t, k) /\ x.i = Offset(t, k) + x.n

FileKept(t, k) ==
  \/ <<t, k>> \in lost
  \/ PartCount(t, k) = 0
  \/ /\ \/ \A p \in Writers(t) : PartOf(t, p) = k => Ahead(p, t)
        \/ \A x \in disk[<<t, k>>] : Belongs(x, t, k)
     /\ \E p \in Writers(t) : PartOf(t, p) = k /\ (Ahead(p, t) \/ Written(p, t))

FilesKept == \A t \in opt.table : \A k \in Parts(t) : FileKept(t, k)

\* Variables that say where processes are; streams apart.
Kinds ==
  /\ opt \in Commands
  /\ pc \in [Proc -> {"idle", "main", "partial", "gen", "fork", "wait",
                      "exiting", "done", "dead", "failed"}]
  /\ tbl \in [Proc -> Tables \cup {END}]
  /\ row \in [Proc -> Int] /\ left \in [Proc -> Nat] /\ pos \in [Proc -> Nat]
  /\ DOMAIN buf = Proc /\ DOMAIN disk = File /\ c \in Nat

\* Where a process can be, and where it is in its table.
Post(p) ==
  /\ AtTable(p) => tbl[p] \in opt.table
  /\ pc[p] # "idle" => \/ p \in Mains
                       \/ Forked(p) /\ p \in Children /\ Parallel(tbl[p]) /\ tbl[p] \in opt.table
  /\ pc[p] \in {"main", "failed"} => p \in Mains
  /\ pc[p] = "partial" => Forked(p)
  /\ pc[p] \in {"fork", "wait", "failed"} => p = 0 /\ ~opt.steps /\ Parallel(tbl[p])
  /\ pc[p] = "gen" =>
       /\ p \in Writers(tbl[p])
       /\ row[p] = First(tbl[p], p) + pos[p] /\ left[p] + pos[p] = Count(tbl[p], p)

Posts == \A p \in Proc : Post(p)

\* The children there are while the parent forks, waits, and goes on.
Family ==
  ~opt.steps =>
    /\ pc[0] = "fork" => c < opt.children /\ \A k \in Children : pc[k] # "idle" <=> k <= c
    /\ pc[0] = "wait" => Cardinality({k \in Children : pc[k] # "idle"}) = c
    /\ pc[0] \in {"fork", "wait"} => \A k \in Children : pc[k] # "idle" => tbl[k] = tbl[0]
    /\ pc[0] \notin {"fork", "wait", "dead", "failed"} => \A k \in Children : pc[k] = "idle"

Buffer(p) ==
  /\ pc[p] \in {"idle", "done", "dead"} => buf[p] = {}
  /\ \A w \in buf[p] : /\ w.t \in opt.table /\ p \in Writers(w.t)
                       /\ Belongs(w.row, w.t, PartOf(w.t, p))
                       /\ Forked(p) => w.t = tbl[p]

Buffers == \A p \in Proc : Buffer(p)

\* A run that has ended has opened all its tables, or given them up.
FInv == Kinds /\ Posts /\ Family /\ Buffers /\ FilesKept

-----------------------------------------------------------------------------
\* What the command line and the places say about numbers.
LEMMA Numbers ==
  ASSUME Kinds
  PROVE  /\ opt.table \subseteq Tables /\ opt.table \cup {END} \subseteq Int
         /\ \A t \in opt.table : t < END
         /\ opt.scale \in Nat
         /\ opt.children \in Nat \ {0} /\ opt.steps \in BOOLEAN
         /\ 0 \in Proc /\ Children \subseteq Proc /\ 0 \notin Children
         /\ Mains \subseteq Proc /\ \A p \in Proc : p \in Int
         /\ tbl \in [Proc -> Int]
<1> USE DEF Kinds
<1>1. /\ opt.table \in TableChoices /\ opt.scale \in Nat
      /\ opt.children \in 1..MaxProcs /\ opt.steps \in BOOLEAN
  BY CommandFacts
<1>2. opt.table \subseteq Tables
  BY <1>1, ChoiceFacts
<1>3. \A t \in Tables : t < END
  BY DEF Tables, END, PART, REGION
<1>4. 0 \in Proc /\ Children \subseteq Proc /\ 0 \notin Children
  <2>1. opt.children \in 1..MaxProcs /\ MaxProcs \in Nat
    BY <1>1, DbgenAssumption
  <2> HIDE DEF Kinds
  <2> QED BY <2>1 DEF Proc, Children
<1>5. Mains \subseteq Proc
  BY <1>4 DEF Mains
<1>6. tbl \in [Proc -> Int]
  BY TableInt
<1> QED BY <1>1, <1>2, <1>3, <1>4, <1>5, <1>6, TableInt, ProcFacts, DbgenAssumption

LEMMA ChildrenFinite ==
  ASSUME Kinds
  PROVE  IsFiniteSet(Children) /\ Cardinality(Children) = opt.children
<1>1. 1 \in Int /\ opt.children \in Int /\ opt.children >= 1
  BY Numbers
<1>2. IsFiniteSet(1..opt.children)
      /\ Cardinality(1..opt.children) = IF 1 > opt.children THEN 0 ELSE opt.children - 1 + 1
  BY <1>1, FS_Interval
<1> QED BY <1>1, <1>2 DEF Children

\* A writer's part of a table.
LEMMA PartFacts ==
  ASSUME Kinds, NEW t \in opt.table, NEW p \in Writers(t)
  PROVE  /\ p \in Proc /\ PartOf(t, p) \in Parts(t)
         /\ Count(t, p) \in Nat /\ PartCount(t, PartOf(t, p)) = Count(t, p)
         /\ Offset(t, PartOf(t, p)) \in Int /\ First(t, p) = Offset(t, PartOf(t, p)) + 1
         /\ FileOf(t, p) = <<t, PartOf(t, p)>> /\ FileOf(t, p) \in File
<1>1. p \in Proc /\ t \in Tables /\ opt \in Commands /\ (Parallel(t) => p \in Children)
  BY Numbers DEF Writers, Kinds
<1>2. PartRows(t) \in Nat /\ Count(t, p) \in Nat /\ FileOf(t, p) \in File
  BY <1>1, PartType
<1>3. PartOf(t, p) \in Parts(t) /\ PartCount(t, PartOf(t, p)) = Count(t, p)
  BY <1>1 DEF PartOf, Parts, PartCount, Count
<1>4. CASE Parallel(t)
  <2>1. p - 1 \in Int /\ PartOf(t, p) = p
    BY <1>1, <1>4, Numbers DEF PartOf
  <2>2. PartRows(t) * (p - 1) \in Int
    BY <1>2, <2>1
  <2> QED BY <1>1, <1>2, <1>3, <1>4, <2>1, <2>2 DEF Offset, First, FileOf
<1>5. CASE ~Parallel(t)
  BY <1>1, <1>2, <1>3, <1>5 DEF Offset, First, FileOf
<1> QED BY <1>4, <1>5

\* A step keeps a file when it gives no writer up, leaves rows that belong there, and takes no
\* printed row away from a writer who does not open the file again.
LEMMA KeptOn ==
  ASSUME NEW t, NEW k, FileKept(t, k), opt' = opt, lost \subseteq lost',
         \A p \in Writers(t) : PartOf(t, p) = k /\ PartCount(t, k) # 0 /\ Ahead(p, t) => Ahead(p, t)',
         \A p \in Writers(t) : PartOf(t, p) = k /\ Written(p, t) => Ahead(p, t)' \/ Written(p, t)',
         (\A x \in disk[<<t, k>>] : Belongs(x, t, k))
           => \A x \in disk'[<<t, k>>] : Belongs(x, t, k)
  PROVE  FileKept(t, k)'
<1>1. /\ PartCount(t, k)' = PartCount(t, k) /\ Writers(t)' = Writers(t)
      /\ \A p : PartOf(t, p)' = PartOf(t, p)
      /\ \A x : Belongs(x, t, k)' <=> Belongs(x, t, k)
  <2> USE DEF Parallel, PartRows, Rows
  <2>1. PartCount(t, k)' = PartCount(t, k)
    BY DEF PartCount, Count
  <2>2. Writers(t)' = Writers(t)
    BY DEF Writers, Children, Mains
  <2>3. \A p : PartOf(t, p)' = PartOf(t, p)
    BY DEF PartOf
  <2>4. \A x : Belongs(x, t, k)' <=> Belongs(x, t, k)
    BY <2>1 DEF Belongs, Offset
  <2> QED BY <2>1, <2>2, <2>3, <2>4
<1>2. CASE <<t, k>> \in lost \/ PartCount(t, k) = 0
  BY <1>1, <1>2 DEF FileKept
<1>3. CASE /\ PartCount(t, k) # 0
           /\ \/ \A p \in Writers(t) : PartOf(t, p) = k => Ahead(p, t)
              \/ \A x \in disk[<<t, k>>] : Belongs(x, t, k)
           /\ \E p \in Writers(t) : PartOf(t, p) = k /\ (Ahead(p, t) \/ Written(p, t))
  <2>1. (\E p \in Writers(t) : PartOf(t, p) = k /\ (Ahead(p, t) \/ Written(p, t)))'
    BY <1>1, <1>3
  <2>2. (\A p \in Writers(t) : PartOf(t, p) = k => Ahead(p, t))'
        \/ (\A x \in disk[<<t, k>>] : Belongs(x, t, k))'
    BY <1>1, <1>3
  <2> QED BY <2>1, <2>2 DEF FileKept
<1> QED BY <1>2, <1>3 DEF FileKept

\* A process that stays where it is.
LEMMA PostSame ==
  ASSUME NEW q, Post(q), opt' = opt, pc'[q] = pc[q], tbl'[q] = tbl[q],
         pc[q] = "gen" => row'[q] = row[q] /\ left'[q] = left[q] /\ pos'[q] = pos[q]
  PROVE  Post(q)'
BY DEF Post, AtTable, Mains, Children, Forked, Parallel, Writers, First, Count, PartRows, Rows

\* Buffers that do not grow.
LEMMA BufferSame ==
  ASSUME NEW q, Buffer(q), opt' = opt, buf'[q] \subseteq buf[q],
         pc'[q] \in {"idle", "done", "dead"} => pc[q] \in {"idle", "done", "dead"} \/ buf'[q] = {},
         Forked(q) => tbl'[q] = tbl[q] \/ buf'[q] = {}
  PROVE  Buffer(q)'
<1>1. \A u : /\ Writers(u)' = Writers(u) /\ PartOf(u, q)' = PartOf(u, q)
             /\ \A x, k : Belongs(x, u, k)' <=> Belongs(x, u, k)
  BY DEF Writers, Children, Mains, Parallel, PartOf, Belongs, PartCount, Offset, Count, Rows,
         PartRows
<1>2. \A w \in buf'[q] : Belongs(w.row, w.t, PartOf(w.t, q))'
  <2> SUFFICES ASSUME NEW w \in buf'[q] PROVE Belongs(w.row, w.t, PartOf(w.t, q))'
    OBVIOUS
  <2>1. w \in buf[q]
    OBVIOUS
  <2>2. Belongs(w.row, w.t, PartOf(w.t, q))
    BY <2>1 DEF Buffer
  <2> QED BY <2>2 DEF Belongs, PartCount, Offset, Count, Rows, PartRows, PartOf, Parallel, Children
<1>3. \A w \in buf'[q] : /\ w.t \in opt'.table /\ q \in Writers(w.t)'
                         /\ Forked(q)' => w.t = tbl'[q]
  BY DEF Buffer, Writers, Children, Mains, Parallel, Forked
<1> QED BY <1>2, <1>3 DEF Buffer

\* What a writer has printed stays in its file or buffers.
LEMMA WrittenOn ==
  ASSUME NEW q, NEW u, opt' = opt, Written(q, u), Printed(q, u)' \subseteq Printed(q, u),
         \A x \in disk[FileOf(u, q)] \cup Pending(q, u) :
           \E y \in disk'[FileOf(u, q)] \cup Pending(q, u)' : y.n = x.n
  PROVE  Written(q, u)'
<1>1. FileOf(u, q)' = FileOf(u, q)
  BY DEF FileOf, PartOf, Parallel
<1>2. SUFFICES ASSUME NEW n \in Printed(q, u)'
               PROVE  \E y \in disk'[FileOf(u, q)] \cup Pending(q, u)' : y.n = n
  BY <1>1 DEF Written
<1>3. n \in Printed(q, u)
  BY <1>2
<1>4. PICK x \in disk[FileOf(u, q)] \cup Pending(q, u) : x.n = n
  BY <1>3 DEF Written
<1> QED BY <1>4

\* The same, when neither the file nor the buffers change.
LEMMA WrittenStill ==
  ASSUME NEW q, NEW u, opt' = opt, Written(q, u), disk' = disk, buf'[q] = buf[q],
         pc'[q] = "gen" /\ tbl'[q] = u <=> pc[q] = "gen" /\ tbl[q] = u,
         pc[q] = "gen" => pos'[q] = pos[q]
  PROVE  Written(q, u)'
<1>1. Pending(q, u)' = Pending(q, u)
  BY DEF Pending
<1>2. Printed(q, u)' = Printed(q, u)
  BY DEF Printed, Count, Parallel, PartRows, Rows
<1> QED BY <1>1, <1>2, WrittenOn

\* gen_tbl starts: the file is opened later.
LEMMA LoadFiles ==
  ASSUME FInv, NEW p \in Proc, Load(p, tbl[p]), pc[p] \in {"main", "partial"},
         p \in Writers(tbl[p])
  PROVE  FInv'
<1> DEFINE t == tbl[p]
<1>1. /\ pc' = [pc EXCEPT ![p] = "gen"]
      /\ row' = [row EXCEPT ![p] = First(t, p)]
      /\ left' = [left EXCEPT ![p] = Count(t, p)]
      /\ pos' = [pos EXCEPT ![p] = 0]
      /\ UNCHANGED <<opt, tbl, buf, disk, c, lost, crashes>>
  BY DEF Load
<1>2. t \in opt.table /\ Kinds
  BY DEF FInv, Posts, Post, AtTable
<1>3. First(t, p) \in Int /\ Count(t, p) \in Nat
  BY <1>2, PartFacts
<1>4. Kinds'
  BY <1>1, <1>2, <1>3 DEF Kinds
<1>5. /\ pc'[p] = "gen" /\ pos'[p] = 0 /\ row'[p] = First(t, p) /\ left'[p] = Count(t, p)
      /\ \A q \in Proc : q # p => /\ pc'[q] = pc[q] /\ row'[q] = row[q]
                                  /\ left'[q] = left[q] /\ pos'[q] = pos[q]
  BY <1>1, <1>2 DEF Kinds
<1> HIDE DEF t
<1>6. Posts'
  <2>1. ASSUME NEW q \in Proc, q # p PROVE Post(q)'
    BY <1>1, <1>5, <2>1, PostSame DEF FInv, Posts
  <2>2. Post(p)'
    <3>1. Post(p)
      BY DEF FInv, Posts
    <3> QED BY <1>1, <1>2, <1>3, <1>5, <3>1 DEF Post, AtTable, Mains, Children, Forked, Parallel, Writers, First,
                                      Count, PartRows, Rows, t
  <2> QED BY <2>1, <2>2 DEF Posts
<1>7. Family'
  <2>1. p = 0 => pc'[0] = "gen" /\ pc[0] \notin {"fork", "wait", "dead", "failed"}
    BY <1>5
  <2>2. \A k \in Proc : pc'[k] # "idle" <=> pc[k] # "idle"
    BY <1>5
  <2>3. Children \subseteq Proc /\ 0 \in Proc /\ Children' = Children
    BY <1>1, <1>2, Numbers DEF Children
  <2>4. {k \in Children : pc'[k] # "idle"} = {k \in Children : pc[k] # "idle"}
    BY <2>2, <2>3
  <2>5. pc'[0] \in {"fork", "wait", "dead", "failed"} => pc'[0] = pc[0]
    BY <1>5, <2>3
  <2> QED BY <1>1, <2>1, <2>2, <2>3, <2>4, <2>5, <1>5 DEF FInv, Family
<1>8. Buffers'
  BY <1>1, <1>5, BufferSame DEF FInv, Buffers
<1>9. ASSUME NEW u \in opt.table, NEW q \in Writers(u)
      PROVE  /\ Ahead(q, u) => Ahead(q, u)'
             /\ Written(q, u) => Ahead(q, u)' \/ Written(q, u)'
  <2>1. q \in Proc /\ (Parallel(u) => q # 0)
    BY <1>2, Numbers, PartFacts DEF Writers
  <2>2. p = 0 => ~Parallel(t) \/ opt.steps
    BY <1>2, Numbers DEF Writers, t
  <2>3. ASSUME Ahead(q, u) PROVE Ahead(q, u)'
    <3> USE <1>1, <1>5, <2>1
    <3>1. 0 \in Proc /\ tbl' = tbl /\ c' = c /\ Forked(q)' = Forked(q)
      BY <1>2, Numbers DEF Forked
    <3>2. CASE Forked(q)
      <4>1. ChildAhead(q, u) /\ Parallel(u) /\ ~opt.steps
        BY <1>2, <2>3, <3>2 DEF Ahead, Forked, Writers, Mains
      <4>2. pc'[0] = pc[0] \/ (pc'[0] = "gen" /\ AtTable(0) /\ ~Parallel(tbl[0]))
        BY <2>2, <3>1, <4>1 DEF AtTable, t
      <4>3. ChildAhead(q, u)'
        BY <3>1, <4>1, <4>2, <3>2 DEF ChildAhead, AtTable, Started, Gone, Forked
      <4> QED BY <3>1, <3>2, <4>3 DEF Ahead
    <3>3. CASE ~Forked(q)
      <4>1. OwnAhead(q, u)
        BY <2>3, <3>3 DEF Ahead
      <4>2. OwnAhead(q, u)'
        BY <3>1, <4>1 DEF OwnAhead, AtTable, Started, Gone
      <4> QED BY <3>1, <3>3, <4>2 DEF Ahead
    <3> QED BY <3>2, <3>3
  <2>4. ASSUME Written(q, u) PROVE Ahead(q, u)' \/ Written(q, u)'
    <3> USE <1>1, <1>5, <2>1
    <3>1. 0 \in Proc /\ tbl' = tbl /\ c' = c /\ Forked(q)' = Forked(q)
      BY <1>2, Numbers DEF Forked
    <3>2. CASE q = p /\ u = t /\ Forked(p)
      <4>1. p \in Children /\ ~opt.steps /\ pc[p] # "idle" /\ p # 0
        BY <3>2, <1>2 DEF FInv, Posts, Post, Forked, Mains
      <4>2. Gone(0) \/ (pc[0] \in {"fork", "wait"} /\ tbl[0] = t)
        BY <4>1 DEF FInv, Family, Gone, t
      <4>3. ChildAhead(q, u)'
        BY <3>1, <3>2, <4>1, <4>2 DEF ChildAhead, Started, Gone, t
      <4> QED BY <3>1, <3>2, <4>3 DEF Ahead
    <3>3. CASE q = p /\ u = t /\ ~Forked(p)
      <4>1. OwnAhead(q, u)'
        BY <3>1, <3>3 DEF OwnAhead, AtTable, Started, t
      <4> QED BY <3>1, <3>3, <4>1 DEF Ahead
    <3>4. CASE q # p
      BY <2>4, <3>4, WrittenStill
    <3>5. CASE q = p /\ u # t
      BY <2>4, <3>5, WrittenStill DEF t
    <3> QED BY <3>2, <3>3, <3>4, <3>5
  <2> QED BY <2>3, <2>4
<1>10. FilesKept'
  <2> SUFFICES ASSUME NEW u \in opt.table, NEW k \in Parts(u) PROVE FileKept(u, k)'
    BY <1>1 DEF FilesKept, Parts, Parallel, Children
  <2>2. FileKept(u, k)
    BY DEF FInv, FilesKept
  <2> QED BY <1>1, <1>9, <2>2, KeptOn
<1> QED BY <1>4, <1>6, <1>7, <1>8, <1>10 DEF FInv

LEMMA SerialFiles ==
  ASSUME FInv, NEW p \in Proc, Serial(p)
  PROVE  FInv'
<1>1. p \in Writers(tbl[p])
  BY DEF FInv, Posts, Post, Serial, Writers
<1> QED BY <1>1, LoadFiles DEF Serial

LEMMA PartialFiles ==
  ASSUME FInv, NEW p \in Proc, Partial(p)
  PROVE  FInv'
<1>1. p \in Writers(tbl[p])
  BY DEF FInv, Posts, Post, Partial, Writers, Mains, Forked
<1> QED BY <1>1, LoadFiles DEF Partial

\* A table is finished: all its rows are printed, and the next one is still to come.
LEMMA NextTableFiles ==
  ASSUME FInv, NEW p \in Mains, NextTable(p),
         (pc[p] = "gen" /\ left[p] = 0) \/ (pc[p] = "wait" /\ c = 0),
         UNCHANGED <<opt, row, left, pos, buf, disk, c, lost>>
  PROVE  FInv'
<1>1. PICK u \in opt.table \cup {END} :
        /\ u > tbl[p] /\ \A v \in opt.table : v > tbl[p] => u <= v
        /\ tbl' = [tbl EXCEPT ![p] = u]
        /\ pc' = [pc EXCEPT ![p] = IF u = END THEN "exiting" ELSE "main"]
  BY DEF NextTable
<1>2. Kinds /\ p \in Proc /\ (p = 0 => ~opt.steps) /\ (~opt.steps => p = 0) /\ ~Forked(p)
  BY Numbers DEF FInv, Mains, Forked
<1>3. Kinds'
  <2>1. opt.table \subseteq Tables
    BY <1>2, Numbers
  <2> QED BY <1>1, <1>2, <2>1 DEF Kinds
<1>4. /\ tbl'[p] = u /\ pc'[p] = IF u = END THEN "exiting" ELSE "main"
      /\ \A q \in Proc : q # p => pc'[q] = pc[q] /\ tbl'[q] = tbl[q]
  BY <1>1, <1>2 DEF Kinds
<1>5. Posts'
  <2>1. ASSUME NEW q \in Proc, q # p PROVE Post(q)'
    BY <1>4, <2>1, PostSame DEF FInv, Posts
  <2>2. Post(p)'
    BY <1>1, <1>2, <1>4 DEF Post, AtTable, Mains, Children
  <2> QED BY <2>1, <2>2 DEF Posts
<1>6. ~opt.steps => \A k \in Children : pc[k] = "idle"
  <2> SUFFICES ASSUME ~opt.steps PROVE \A k \in Children : pc[k] = "idle"
    OBVIOUS
  <2>1. CASE pc[p] = "gen"
    BY <1>2, <2>1 DEF FInv, Family
  <2>2. CASE pc[p] = "wait" /\ c = 0
    <3>1. Cardinality({k \in Children : pc[k] # "idle"}) = 0
      BY <1>2, <2>2 DEF FInv, Family
    <3>2. IsFiniteSet(Children)
      BY <1>2, ChildrenFinite
    <3>3. {k \in Children : pc[k] # "idle"} = {}
      BY <3>1, <3>2, FS_Subset, FS_EmptySet
    <3> QED BY <3>3
  <2> QED BY <2>1, <2>2
<1>7. Family'
  <2>1. Children' = Children /\ Children \subseteq Proc /\ 0 \notin Children
    BY <1>2, Numbers DEF Children
  <2> QED BY <1>2, <1>4, <1>6, <2>1 DEF Family
<1>8. Buffers'
  <2>1. ASSUME NEW q \in Proc PROVE Buffer(q)'
    BY <1>2, <1>4, BufferSame DEF FInv, Buffers
  <2> QED BY <2>1 DEF Buffers
<1>9. ASSUME NEW v \in opt.table, NEW q \in Writers(v), Count(v, q) # 0, Ahead(q, v)
      PROVE  Ahead(q, v)'
  <2>1. q \in Proc /\ Forked(q)' = Forked(q) /\ v \in Int /\ u \in Int /\ v < END /\ 0 \in Proc
    BY <1>2, Numbers, PartFacts DEF Forked
  <2>2. tbl[p] < v => pc'[p] = "main" /\ (tbl'[p] < v \/ tbl'[p] = v)
    BY <1>1, <1>4, <2>1
  <2>3. CASE Forked(q)
    <3>1. p = 0 /\ ChildAhead(q, v) /\ q \in Children
      BY <1>2, <1>9, <2>3, Numbers DEF Ahead, Forked, Writers, Mains
    <3>2. tbl[0] < v
      BY <1>2, <1>6, <3>1 DEF ChildAhead, Gone, AtTable, Forked
    <3>3. ChildAhead(q, v)'
      BY <2>2, <3>1, <3>2 DEF ChildAhead, AtTable
    <3> QED BY <2>1, <2>3, <3>3 DEF Ahead
  <2>4. CASE ~Forked(q)
    <3>1. OwnAhead(q, v)
      BY <1>9, <2>4 DEF Ahead
    <3>2. CASE q = p
      <4>1. tbl[p] # v
        <5>1. ASSUME tbl[p] = v PROVE FALSE
          <6>1. pc[p] = "gen"
            <7>1. pc[p] = "wait" => Parallel(v) /\ p = 0
              BY <1>2, <5>1 DEF FInv, Posts, Post
            <7> QED BY <1>2, <3>2, <7>1, Numbers DEF Writers
          <6>2. left[p] + pos[p] = Count(v, p) /\ left[p] = 0 /\ pos[p] \in Nat
            BY <1>2, <5>1, <6>1 DEF FInv, Posts, Post, Kinds
          <6>3. pos[p] > 0
            BY <1>2, <1>9, <3>2, <6>2, PartFacts
          <6> QED BY <3>1, <3>2, <5>1, <6>1, <6>3, <2>1 DEF OwnAhead, Started, Gone
        <5> QED BY <5>1
      <4>2. tbl[p] < v
        BY <3>1, <3>2, <4>1 DEF OwnAhead, Gone
      <4>3. OwnAhead(q, v)'
        BY <2>2, <3>2, <4>2 DEF OwnAhead, AtTable, Started
      <4> QED BY <2>1, <2>4, <4>3 DEF Ahead
    <3>3. CASE q # p
      <4>1. OwnAhead(q, v)'
        BY <1>4, <2>1, <3>1, <3>3 DEF OwnAhead, AtTable, Started, Gone
      <4> QED BY <2>1, <2>4, <4>1 DEF Ahead
    <3> QED BY <3>2, <3>3
  <2> QED BY <2>3, <2>4
<1>10. ASSUME NEW v \in opt.table, NEW q \in Writers(v), Written(q, v)
       PROVE  Written(q, v)'
  <2>1. q \in Proc /\ Count(v, q) \in Nat
    BY <1>2, PartFacts
  <2>2. Pending(q, v)' = Pending(q, v) /\ Count(v, q)' = Count(v, q)
    BY DEF Pending, Count, Parallel, PartRows, Rows
  <2>3. Printed(q, v)' \subseteq Printed(q, v)
    <3>1. CASE q # p
      BY <1>4, <2>1, <2>2, <3>1 DEF Printed
    <3>2. CASE q = p
      <4>1. pc[p] = "gen" /\ tbl[p] = v => pos[p] = Count(v, p)
        BY <1>2, <2>1, <3>2 DEF FInv, Posts, Post, Kinds
      <4>2. Printed(q, v) = 1..Count(v, q)
        BY <3>2, <4>1 DEF Printed
      <4>3. Printed(q, v)' = 1..Count(v, q)
        BY <1>4, <2>2, <3>2 DEF Printed
      <4> QED BY <4>2, <4>3
    <3> QED BY <3>1, <3>2
  <2> QED BY <1>10, <2>2, <2>3, WrittenOn
<1>11. FilesKept'
  <2> SUFFICES ASSUME NEW v \in opt.table, NEW k \in Parts(v) PROVE FileKept(v, k)'
    BY DEF FilesKept, Parts, Parallel, Children
  <2>1. FileKept(v, k)
    BY DEF FInv, FilesKept
  <2>2. \A q \in Writers(v) : PartOf(v, q) = k /\ PartCount(v, k) # 0 => Count(v, q) # 0
    BY <1>2, PartFacts
  <2> QED BY <1>9, <1>10, <2>1, <2>2, KeptOn
<1> QED BY <1>3, <1>5, <1>7, <1>8, <1>11 DEF FInv

LEMMA EndLoadFiles ==
  ASSUME FInv, EndLoad
  PROVE  FInv'
<1>1. 0 \in Mains
  <2>1. Kinds /\ 0 \in Proc
    BY Numbers DEF FInv
  <2> QED BY <2>1 DEF EndLoad, FInv, Posts, Post, Mains
<1> QED BY <1>1, NextTableFiles DEF EndLoad

\* gen_tbl returns.
LEMMA EndTableFiles ==
  ASSUME FInv, NEW p \in Proc, EndTable(p)
  PROVE  FInv'
<1>1. CASE ~Forked(p)
  <2>1. p \in Mains
    BY <1>1 DEF FInv, Posts, Post, EndTable
  <2>2. /\ NextTable(p) /\ pc[p] = "gen" /\ left[p] = 0
        /\ UNCHANGED <<opt, row, left, pos, buf, disk, c, lost>>
    BY <1>1 DEF EndTable
  <2>3. (pc[p] = "gen" /\ left[p] = 0) \/ (pc[p] = "wait" /\ c = 0)
    BY <2>2
  <2>4. SUFFICES ASSUME NEW m \in Mains, m = p PROVE FInv'
    BY <2>1
  <2> QED BY <2>2, <2>3, <2>4, NextTableFiles
<1>2. CASE Forked(p)
  <2>1. /\ pc[p] = "gen" /\ left[p] = 0
        /\ pc' = [pc EXCEPT ![p] = "exiting"]
        /\ UNCHANGED <<opt, tbl, row, left, pos, buf, disk, c, lost, crashes>>
    BY <1>2 DEF EndTable
  <2>2. Kinds /\ p # 0 /\ p \in Children /\ ~opt.steps /\ 0 \in Proc /\ Children \subseteq Proc
    BY <1>2, <2>1, Numbers DEF FInv, Posts, Post, Forked, Mains
  <2>3. pc'[p] = "exiting" /\ \A q \in Proc : q # p => pc'[q] = pc[q]
    BY <2>1, <2>2 DEF Kinds
  <2>4. Kinds'
    BY <2>1, <2>2 DEF Kinds
  <2>5. Posts'
    <3>1. ASSUME NEW q \in Proc, q # p PROVE Post(q)'
      BY <2>1, <2>3, <3>1, PostSame DEF FInv, Posts
    <3>2. Post(p)'
      <4>1. Parallel(tbl[p]) /\ tbl[p] \in opt.table
        BY <1>2, <2>1, <2>2 DEF FInv, Posts, Post, AtTable, Mains
      <4> QED BY <1>2, <2>1, <2>2, <2>3, <4>1 DEF Post, AtTable, Forked, Children, Parallel
    <3> QED BY <3>1, <3>2 DEF Posts
  <2>6. Family'
    <3>1. \A k \in Children : pc'[k] # "idle" <=> pc[k] # "idle"
      BY <2>1, <2>2, <2>3
    <3>2. {k \in Children : pc'[k] # "idle"} = {k \in Children : pc[k] # "idle"}
      BY <3>1
    <3>3. pc'[0] = pc[0] /\ Children' = Children
      BY <2>1, <2>2, <2>3 DEF Children
    <3> QED BY <2>1, <3>1, <3>2, <3>3 DEF FInv, Family
  <2>7. Buffers'
    <3>1. ASSUME NEW q \in Proc PROVE Buffer(q)'
      BY <2>1, <2>3, BufferSame DEF FInv, Buffers
    <3> QED BY <3>1 DEF Buffers
  <2>8. ASSUME NEW v \in opt.table, NEW q \in Writers(v), Count(v, q) # 0, Ahead(q, v)
        PROVE  Ahead(q, v)'
    <3>1. q \in Proc /\ Forked(q)' = Forked(q) /\ pc'[0] = pc[0] /\ 0 \notin Children
      BY <2>1, <2>2, <2>3, Numbers, PartFacts DEF Forked
    <3>2. CASE Forked(q)
      <4>1. ChildAhead(q, v)
        BY <2>8, <3>2 DEF Ahead
      <4>2. ASSUME q = p, pc[0] \in {"fork", "wait"}, tbl[0] = v, ~Started(q) PROVE FALSE
        <5>1. tbl[p] = v
          BY <2>1, <2>2, <4>2 DEF FInv, Family
        <5>2. left[p] + pos[p] = Count(v, p) /\ left[p] = 0 /\ pos[p] \in Nat
          BY <2>1, <2>2, <5>1 DEF FInv, Posts, Post, Kinds
        <5>3. pos[p] > 0
          BY <2>8, <4>2, <5>2
        <5> QED BY <2>1, <4>2, <5>3 DEF Started
      <4>3. ChildAhead(q, v)'
        BY <2>1, <2>3, <3>1, <4>1, <4>2 DEF ChildAhead, AtTable, Started, Gone
      <4> QED BY <3>1, <3>2, <4>3 DEF Ahead
    <3>3. CASE ~Forked(q)
      <4>1. OwnAhead(q, v)'
        BY <1>2, <2>1, <2>3, <2>8, <3>1, <3>3 DEF Ahead, OwnAhead, AtTable, Started, Gone
      <4> QED BY <3>1, <3>3, <4>1 DEF Ahead
    <3> QED BY <3>2, <3>3
  <2>9. ASSUME NEW v \in opt.table, NEW q \in Writers(v), Written(q, v)
        PROVE  Written(q, v)'
    <3>1. q \in Proc /\ Count(v, q) \in Nat
      BY <2>2, PartFacts
    <3>2. Pending(q, v)' = Pending(q, v) /\ Count(v, q)' = Count(v, q)
      BY <2>1 DEF Pending, Count, Parallel, PartRows, Rows
    <3>3. Printed(q, v)' \subseteq Printed(q, v)
      <4>1. CASE q # p
        BY <2>1, <2>3, <3>1, <3>2, <4>1 DEF Printed
      <4>2. CASE q = p
        <5>1. pc[p] = "gen" /\ tbl[p] = v => pos[p] = Count(v, p)
          BY <2>1, <2>2, <3>1, <4>2 DEF FInv, Posts, Post, Kinds
        <5>2. Printed(q, v) = 1..Count(v, q)
          BY <4>2, <5>1 DEF Printed
        <5>3. Printed(q, v)' = 1..Count(v, q)
          BY <2>3, <3>2, <4>2 DEF Printed
        <5> QED BY <5>2, <5>3
      <4> QED BY <4>1, <4>2
    <3> QED BY <2>1, <2>9, <3>2, <3>3, WrittenOn
  <2>10. FilesKept'
    <3> SUFFICES ASSUME NEW v \in opt.table, NEW k \in Parts(v) PROVE FileKept(v, k)'
      BY <2>1 DEF FilesKept, Parts, Parallel, Children
    <3>1. FileKept(v, k)
      BY DEF FInv, FilesKept
    <3>2. \A q \in Writers(v) : PartOf(v, q) = k /\ PartCount(v, k) # 0 => Count(v, q) # 0
      BY <2>2, PartFacts
    <3> QED BY <2>1, <2>8, <2>9, <3>1, <3>2, KeptOn
  <2> QED BY <2>4, <2>5, <2>6, <2>7, <2>10 DEF FInv
<1> QED BY <1>1, <1>2

\* exit writes a file's buffer.
LEMMA DrainFiles ==
  ASSUME FInv, NEW p \in Proc, Drain(p)
  PROVE  FInv'
<1>1. PICK t \in Tables :
        /\ Pending(p, t) # {}
        /\ disk' = [disk EXCEPT ![FileOf(t, p)] = Overlay(disk[FileOf(t, p)], Pending(p, t))]
        /\ buf' = [buf EXCEPT ![p] = {w \in buf[p] : w.t # t}]
  BY DEF Drain
<1>2. /\ UNCHANGED <<opt, pc, tbl, row, left, pos, c, lost>> /\ pc[p] = "exiting"
      /\ Kinds
  BY DEF Drain, FInv
<1>3. t \in opt.table /\ p \in Writers(t)
      /\ \A y \in Pending(p, t) : Belongs(y, t, PartOf(t, p))
  BY <1>1 DEF FInv, Buffers, Buffer, Pending
<1>4. FileOf(t, p) = <<t, PartOf(t, p)>> /\ FileOf(t, p) \in File
  BY <1>2, <1>3, PartFacts
<1>5. Kinds'
  BY <1>1, <1>2 DEF Kinds
<1>6. Posts'
  <2>1. ASSUME NEW q \in Proc PROVE Post(q)'
    BY <1>2, PostSame DEF FInv, Posts
  <2> QED BY <2>1 DEF Posts
<1>7. Family'
  BY <1>2 DEF FInv, Family, Children
<1>8. Buffers'
  <2>1. ASSUME NEW q \in Proc PROVE Buffer(q)'
    <3>1. buf'[q] \subseteq buf[q]
      BY <1>1, <1>2 DEF Kinds
    <3> QED BY <1>2, <3>1, BufferSame DEF FInv, Buffers
  <2> QED BY <2>1 DEF Buffers
<1>9. ASSUME NEW v \in opt.table, NEW q \in Writers(v)
      PROVE  Ahead(q, v) => Ahead(q, v)'
  BY <1>2 DEF Ahead, ChildAhead, OwnAhead, AtTable, Started, Gone, Forked
<1>10. ASSUME NEW v \in opt.table, NEW q \in Writers(v), Written(q, v)
       PROVE  Written(q, v)'
  <2>1. Printed(q, v)' = Printed(q, v)
    BY <1>2 DEF Printed, Count, Parallel, PartRows, Rows
  <2>2. q \in Proc /\ FileOf(v, q) = <<v, PartOf(v, q)>> /\ FileOf(v, q) \in File
    BY <1>2, PartFacts
  <2>3. ASSUME NEW x \in disk[FileOf(v, q)] \cup Pending(q, v)
        PROVE  \E y \in disk'[FileOf(v, q)] \cup Pending(q, v)' : y.n = x.n
    <3>1. CASE FileOf(v, q) = FileOf(t, p)
      <4>1. disk'[FileOf(v, q)] = Overlay(disk[FileOf(v, q)], Pending(p, t)) /\ v = t
        BY <1>1, <1>2, <1>4, <2>2, <3>1 DEF Kinds
      <4>2. CASE x \in Pending(p, t)
        BY <4>1, <4>2 DEF Overlay
      <4>3. CASE x \in disk[FileOf(v, q)]
        BY <4>1, <4>3 DEF Overlay
      <4>4. CASE x \in Pending(q, v) /\ q # p
        <5>1. buf'[q] = buf[q]
          BY <1>1, <1>2, <2>2, <4>4 DEF Kinds
        <5>2. x \in Pending(q, v)'
          BY <4>4, <5>1 DEF Pending
        <5> QED BY <5>2
      <4> QED BY <2>3, <4>1, <4>2, <4>3, <4>4
    <3>2. CASE FileOf(v, q) # FileOf(t, p)
      <4>1. disk'[FileOf(v, q)] = disk[FileOf(v, q)]
        BY <1>1, <1>2, <2>2, <3>2 DEF Kinds
      <4>2. Pending(q, v)' = Pending(q, v)
        BY <1>1, <1>2, <2>2, <3>2 DEF Kinds, Pending
      <4> QED BY <2>3, <4>1, <4>2
    <3> QED BY <3>1, <3>2
  <2> QED BY <1>2, <1>10, <2>1, <2>3, WrittenOn
<1>11. FilesKept'
  <2> SUFFICES ASSUME NEW v \in opt.table, NEW k \in Parts(v) PROVE FileKept(v, k)'
    BY <1>2 DEF FilesKept, Parts, Parallel, Children
  <2>1. FileKept(v, k)
    BY DEF FInv, FilesKept
  <2>2. ASSUME \A x \in disk[<<v, k>>] : Belongs(x, v, k), NEW x \in disk'[<<v, k>>]
        PROVE  Belongs(x, v, k)
    <3>1. CASE <<v, k>> = FileOf(t, p)
      <4>1. disk'[<<v, k>>] = Overlay(disk[<<v, k>>], Pending(p, t)) /\ v = t /\ k = PartOf(t, p)
        BY <1>1, <1>2, <1>4, <3>1 DEF Kinds
      <4> QED BY <1>3, <2>2, <4>1 DEF Overlay
    <3>2. CASE <<v, k>> # FileOf(t, p)
      <4>1. disk'[<<v, k>>] = disk[<<v, k>>]
        BY <1>1, <1>2, <3>2 DEF Kinds
      <4> QED BY <2>2, <4>1
    <3> QED BY <3>1, <3>2
  <2> QED BY <1>2, <1>9, <1>10, <2>1, <2>2, KeptOn
<1> QED BY <1>5, <1>6, <1>7, <1>8, <1>11 DEF FInv

\* A step keeps all files: the same, for those that are not given up.
LEMMA AllKept ==
  ASSUME FInv, opt' = opt, lost \subseteq lost',
         \A v \in opt.table : \A q \in Writers(v) :
           FileOf(v, q) \notin lost' /\ Count(v, q) # 0 =>
             /\ Ahead(q, v) => Ahead(q, v)'
             /\ Written(q, v) => Ahead(q, v)' \/ Written(q, v)',
         \A v \in opt.table : \A k \in Parts(v) :
           <<v, k>> \notin lost' /\ (\A x \in disk[<<v, k>>] : Belongs(x, v, k))
             => \A x \in disk'[<<v, k>>] : Belongs(x, v, k)
  PROVE  FilesKept'
<1> SUFFICES ASSUME NEW v \in opt.table, NEW k \in Parts(v) PROVE FileKept(v, k)'
  BY DEF FilesKept, Parts, Parallel, Children
<1>1. FileKept(v, k) /\ Kinds
  BY DEF FInv, FilesKept
<1>2. \A q \in Writers(v) : PartOf(v, q) = k /\ PartCount(v, k) # 0 =>
        Count(v, q) # 0 /\ FileOf(v, q) = <<v, k>>
  BY <1>1, PartFacts
<1>3. CASE <<v, k>> \in lost' \/ PartCount(v, k) = 0
  <2>1. PartCount(v, k)' = PartCount(v, k)
    BY DEF PartCount, Count, Parallel, PartRows, Rows
  <2> QED BY <1>3, <2>1 DEF FileKept
<1>4. CASE <<v, k>> \notin lost' /\ PartCount(v, k) # 0
  <2>1. \A q \in Writers(v) : PartOf(v, q) = k /\ PartCount(v, k) # 0 =>
          /\ Ahead(q, v) => Ahead(q, v)'
          /\ Written(q, v) => Ahead(q, v)' \/ Written(q, v)'
    BY <1>2, <1>4
  <2> QED BY <1>1, <1>4, <2>1, KeptOn
<1> QED BY <1>3, <1>4

LEMMA ExitFiles ==
  ASSUME FInv, NEW p \in Proc, Exit(p)
  PROVE  FInv'
<1>1. /\ pc[p] = "exiting" /\ buf[p] = {} /\ pc' = [pc EXCEPT ![p] = "done"] /\ Kinds
      /\ UNCHANGED <<opt, tbl, row, left, pos, buf, disk, c, lost>>
  BY DEF Exit, FInv
<1>2. pc'[p] = "done" /\ \A q \in Proc : q # p => pc'[q] = pc[q]
  BY <1>1 DEF Kinds
<1>3. Kinds'
  BY <1>1 DEF Kinds
<1>4. Posts'
  <2>1. ASSUME NEW q \in Proc, q # p PROVE Post(q)'
    BY <1>1, <1>2, <2>1, PostSame DEF FInv, Posts
  <2>2. Post(p)'
    BY <1>1, <1>2 DEF FInv, Posts, Post, AtTable, Mains, Children, Forked, Parallel
  <2> QED BY <2>1, <2>2 DEF Posts
<1>5. 0 \in Proc /\ Children \subseteq Proc /\ 0 \notin Children
  BY <1>1, Numbers
<1>6. Family'
  <2>1. \A k \in Children : pc'[k] # "idle" <=> pc[k] # "idle"
    BY <1>1, <1>2, <1>5
  <2>2. {k \in Children : pc'[k] # "idle"} = {k \in Children : pc[k] # "idle"}
    BY <2>1
  <2>3. Children' = Children /\ (pc'[0] = pc[0] \/ (pc[0] = "exiting" /\ pc'[0] = "done"))
    BY <1>1, <1>2, <1>5 DEF Children
  <2> QED BY <1>1, <2>1, <2>2, <2>3 DEF FInv, Family
<1>7. Buffers'
  <2>1. ASSUME NEW q \in Proc PROVE Buffer(q)'
    BY <1>1, <1>2, BufferSame DEF FInv, Buffers
  <2> QED BY <2>1 DEF Buffers
<1>8. FilesKept'
  <2>1. ASSUME NEW v \in opt.table, NEW q \in Writers(v)
        PROVE  /\ Ahead(q, v) => Ahead(q, v)'
               /\ Written(q, v) => Written(q, v)'
    <3>1. q \in Proc
      BY <1>1, PartFacts
    <3>2. Ahead(q, v) => Ahead(q, v)'
      BY <1>1, <1>2, <1>5, <3>1 DEF Ahead, ChildAhead, OwnAhead, AtTable, Started, Gone, Forked
    <3>3. Written(q, v) => Written(q, v)'
      BY <1>1, <1>2, <3>1, WrittenStill
    <3> QED BY <3>2, <3>3
  <2> QED BY <1>1, <2>1, AllKept
<1> QED BY <1>3, <1>4, <1>6, <1>7, <1>8 DEF FInv

\* pload starts, or cannot fork.
LEMMA ParentFiles ==
  ASSUME FInv, StartLoad \/ ForkFails
  PROVE  FInv'
<1>1. /\ Kinds /\ 0 \in Proc /\ ~opt.steps /\ Parallel(tbl[0]) /\ pc[0] \in {"main", "fork"}
      /\ UNCHANGED <<opt, tbl, row, left, pos, buf, disk, lost>>
      /\ \A q \in Proc : q # 0 => pc'[q] = pc[q]
      /\ \/ pc'[0] = "fork" /\ c' = 0 /\ pc[0] = "main"
         \/ pc'[0] = "failed" /\ c' = c
  <2>1. Kinds /\ 0 \in Proc
    BY Numbers DEF FInv
  <2> QED BY <2>1 DEF StartLoad, ForkFails, Kinds, FInv, Posts, Post
<1>2. Kinds'
  BY <1>1 DEF Kinds, StartLoad, ForkFails
<1>3. Posts'
  <2>1. ASSUME NEW q \in Proc, q # 0 PROVE Post(q)'
    BY <1>1, <2>1, PostSame DEF FInv, Posts
  <2>2. Post(0)'
    BY <1>1 DEF FInv, Posts, Post, AtTable, Mains, Children, Forked, Parallel
  <2> QED BY <2>1, <2>2 DEF Posts
<1>4. Family'
  <2>1. Children \subseteq Proc /\ 0 \notin Children /\ opt.children > 1 /\ Children' = Children
        /\ \A k \in Children : k > 0
    BY <1>1, Numbers DEF Children, Parallel
  <2>2. CASE pc'[0] = "fork"
    <3>1. \A k \in Children : pc'[k] = "idle" /\ ~(k <= 0)
      <4>1. pc[0] = "main" /\ \A k \in Children : pc[k] = "idle"
        BY <1>1, <2>2 DEF FInv, Family
      <4>2. \A k \in Children : k \in Int /\ k > 0 /\ k # 0
        BY <1>1, <2>1, Numbers
      <4> QED BY <1>1, <2>1, <4>1, <4>2
    <3>2. c' = 0 /\ 0 < opt.children
      BY <1>1, <2>1, <2>2, Numbers
    <3> QED BY <1>1, <2>1, <2>2, <3>1, <3>2 DEF Family
  <2>3. CASE pc'[0] = "failed"
    BY <2>3 DEF Family
  <2> QED BY <1>1, <2>2, <2>3
<1>5. Buffers'
  <2>1. ASSUME NEW q \in Proc PROVE Buffer(q)'
    BY <1>1, BufferSame DEF FInv, Buffers
  <2> QED BY <2>1 DEF Buffers
<1>6. FilesKept'
  <2>1. ASSUME NEW v \in opt.table, NEW q \in Writers(v)
        PROVE  /\ Ahead(q, v) => Ahead(q, v)'
               /\ Written(q, v) => Written(q, v)'
    <3>1. q \in Proc /\ (q # 0 => q > 0)
      BY <1>1, PartFacts DEF Proc
    <3>2. Ahead(q, v) => Ahead(q, v)'
      <4>1. CASE Forked(q)
        <5>1. q > 0
          BY <3>1, <4>1 DEF Forked
        <5> QED BY <1>1, <3>1, <4>1, <5>1 DEF Ahead, ChildAhead, AtTable, Started, Gone, Forked
      <4>2. CASE ~Forked(q)
        BY <1>1, <3>1, <4>2 DEF Ahead, OwnAhead, AtTable, Started, Gone, Forked
      <4> QED BY <4>1, <4>2
    <3>3. Written(q, v) => Written(q, v)'
      BY <1>1, <3>1, WrittenStill
    <3> QED BY <3>2, <3>3
  <2> QED BY <1>1, <2>1, AllKept
<1> QED BY <1>2, <1>3, <1>4, <1>5, <1>6 DEF FInv

\* A process is killed: its file is given up, or it will have to be started again.
LEMMA DieFiles ==
  ASSUME FInv, NEW p \in Proc, Die(p)
  PROVE  FInv'
<1>1. /\ Kinds /\ pc[p] \notin {"idle", "done", "dead", "failed"}
      /\ pc' = [pc EXCEPT ![p] = "dead"] /\ buf' = [buf EXCEPT ![p] = {}]
      /\ lost \subseteq lost' /\ (Forked(p) => FileOf(tbl[p], p) \in lost')
      /\ UNCHANGED <<opt, tbl, row, left, pos, disk, c>>
  BY DEF Die, FInv
<1>2. /\ pc'[p] = "dead" /\ buf'[p] = {}
      /\ \A q \in Proc : q # p => pc'[q] = pc[q] /\ buf'[q] = buf[q]
  BY <1>1 DEF Kinds
<1>3. Kinds'
  BY <1>1 DEF Kinds
<1>4. Posts'
  <2>1. ASSUME NEW q \in Proc, q # p PROVE Post(q)'
    BY <1>1, <1>2, <2>1, PostSame DEF FInv, Posts
  <2>2. Post(p)'
    BY <1>1, <1>2 DEF FInv, Posts, Post, AtTable, Mains, Children, Forked, Parallel
  <2> QED BY <2>1, <2>2 DEF Posts
<1>5. 0 \in Proc /\ Children \subseteq Proc /\ 0 \notin Children
  BY <1>1, Numbers
<1>6. Family'
  <2>1. \A k \in Children : pc'[k] # "idle" <=> pc[k] # "idle"
    BY <1>1, <1>2, <1>5
  <2>2. {k \in Children : pc'[k] # "idle"} = {k \in Children : pc[k] # "idle"}
    BY <2>1
  <2>3. Children' = Children /\ (pc'[0] = pc[0] \/ pc'[0] = "dead")
    BY <1>1, <1>2, <1>5 DEF Children
  <2> QED BY <1>1, <2>1, <2>2, <2>3 DEF FInv, Family
<1>7. Buffers'
  <2>1. ASSUME NEW q \in Proc PROVE Buffer(q)'
    BY <1>1, <1>2, BufferSame DEF FInv, Buffers
  <2> QED BY <2>1 DEF Buffers
<1>8. ASSUME NEW v \in opt.table, NEW q \in Writers(v), FileOf(v, q) \notin lost'
      PROVE  /\ Ahead(q, v) => Ahead(q, v)'
             /\ Written(q, v) => Ahead(q, v)' \/ Written(q, v)'
  <2>1. q \in Proc /\ Forked(q)' = Forked(q) /\ (q = p /\ Forked(p) => tbl[p] # v)
    BY <1>1, <1>8, PartFacts DEF Forked
  <2>2. Ahead(q, v) => Ahead(q, v)'
    <3>1. CASE Forked(q)
      <4>1. q \in Children
        BY <3>1, <1>1, Numbers DEF Writers, Mains, Forked
      <4>2. q = p /\ pc[0] \in {"fork", "wait"} => tbl[0] # v
        BY <1>1, <2>1, <3>1, <4>1 DEF FInv, Family, Forked
      <4> QED BY <1>1, <1>2, <1>5, <2>1, <3>1, <4>2
              DEF Ahead, ChildAhead, AtTable, Started, Gone
    <3>2. CASE ~Forked(q)
      BY <1>1, <1>2, <2>1, <3>2 DEF Ahead, OwnAhead, AtTable, Started, Gone
    <3> QED BY <3>1, <3>2
  <2>3. ASSUME Written(q, v) PROVE Ahead(q, v)' \/ Written(q, v)'
    <3>1. CASE q # p
      BY <1>1, <1>2, <2>1, <2>3, <3>1, WrittenStill
    <3>2. CASE q = p /\ ~Forked(p)
      BY <1>1, <1>2, <2>1, <3>2 DEF Ahead, OwnAhead, Gone
    <3>3. CASE q = p /\ Forked(p)
      <4>1. tbl[p] # v /\ Pending(q, v) = {}
        BY <2>1, <3>3 DEF FInv, Buffers, Buffer, Pending
      <4>2. Printed(q, v)' = Printed(q, v)
        BY <1>1, <1>2, <3>3, <4>1 DEF Printed, Count, Parallel, PartRows, Rows
      <4> QED BY <1>1, <2>3, <4>1, <4>2, WrittenOn
    <3> QED BY <3>1, <3>2, <3>3
  <2> QED BY <2>2, <2>3
<1>9. FilesKept'
  BY <1>1, <1>8, AllKept
<1> QED BY <1>3, <1>4, <1>6, <1>7, <1>9 DEF FInv

\* A step, or a run without children, is started again, and has everything still to do.
LEMMA RerunFiles ==
  ASSUME FInv, NEW p \in Proc, Rerun(p)
  PROVE  FInv'
<1>1. Kinds
  BY DEF FInv
<1>2. PICK t \in opt.table : (\A u \in opt.table : t <= u) /\ tbl' = [tbl EXCEPT ![p] = t]
  BY <1>1, CommandFacts, ChoiceFacts DEF Rerun, Kinds
<1>3. /\ pc[p] = "dead" /\ p \in Mains /\ (opt.steps \/ opt.children = 1)
      /\ pc' = [pc EXCEPT ![p] = "main"]
      /\ UNCHANGED <<opt, row, left, pos, buf, disk, c, lost>>
  BY DEF Rerun
<1>4. /\ pc'[p] = "main" /\ tbl'[p] = t
      /\ \A q \in Proc : q # p => pc'[q] = pc[q] /\ tbl'[q] = tbl[q]
  BY <1>1, <1>2, <1>3 DEF Kinds
<1>5. /\ ~Forked(p) /\ Children \subseteq Proc /\ 0 \in Proc /\ 0 \notin Children
      /\ \A q : Forked(q)' = Forked(q)
  BY <1>1, <1>3, Numbers DEF Forked, Mains
<1>6. \A u : ~opt.steps => ~Parallel(u)
  BY <1>3 DEF Parallel
<1>7. Kinds'
  <2>1. opt.table \subseteq Tables
    BY <1>1, Numbers
  <2> QED BY <1>1, <1>2, <1>3, <2>1 DEF Kinds
<1>8. Posts'
  <2>1. ASSUME NEW q \in Proc, q # p PROVE Post(q)'
    BY <1>3, <1>4, <2>1, PostSame DEF FInv, Posts
  <2>2. Post(p)'
    BY <1>3, <1>4 DEF Post, AtTable, Mains, Children
  <2> QED BY <2>1, <2>2 DEF Posts
<1>9. Family'
  <2> SUFFICES ASSUME ~opt.steps PROVE Family'
    BY <1>3 DEF Family
  <2>1. p = 0 /\ pc'[0] = "main"
    BY <1>3, <1>4 DEF Mains
  <2>2. \A k \in Children : pc'[k] = "idle"
    BY <1>4, <1>5, <1>6, <2>1 DEF FInv, Posts, Post, Mains
  <2> QED BY <1>3, <2>1, <2>2 DEF Family, Children
<1>10. Buffers'
  <2>1. ASSUME NEW q \in Proc PROVE Buffer(q)'
    BY <1>3, <1>4, <1>5, BufferSame DEF FInv, Buffers
  <2> QED BY <2>1 DEF Buffers
<1>11. FilesKept'
  <2>1. ASSUME NEW v \in opt.table, NEW q \in Writers(v)
        PROVE  /\ Ahead(q, v) => Ahead(q, v)'
               /\ Written(q, v) => Ahead(q, v)' \/ Written(q, v)'
    <3>1. q \in Proc /\ ~Forked(q) /\ t \in Int /\ v \in Int
      BY <1>1, <1>5, <1>6, PartFacts, Numbers DEF Forked, Writers, Mains
    <3>2. CASE q = p
      <4>1. Ahead(q, v)'
        BY <1>2, <1>4, <1>5, <3>1, <3>2 DEF Ahead, OwnAhead, AtTable, Started
      <4> QED BY <4>1
    <3>3. CASE q # p
      <4>1. Ahead(q, v) => Ahead(q, v)'
        BY <1>3, <1>4, <1>5, <3>1, <3>3 DEF Ahead, OwnAhead, AtTable, Started, Gone
      <4>2. Written(q, v) => Written(q, v)'
        BY <1>3, <1>4, <3>1, <3>3, WrittenStill
      <4> QED BY <4>1, <4>2
    <3> QED BY <3>2, <3>3
  <2> QED BY <1>3, <2>1, AllKept
<1> QED BY <1>7, <1>8, <1>9, <1>10, <1>11 DEF FInv

\* An overwrite is refused: what is left of the program's tables, or the child's part, is given up.
LEMMA RefuseFiles ==
  ASSUME FInv, NEW p \in Proc, Refuse(p)
  PROVE  FInv'
<1> DEFINE t == tbl[p]
<1>1. /\ Kinds /\ pc[p] = "gen"
      /\ pc' = [pc EXCEPT ![p] = "exiting"]
      /\ disk' = disk \/ disk' = [disk EXCEPT ![FileOf(t, p)] = {}]
      /\ lost \subseteq lost'
      /\ Forked(p) => FileOf(t, p) \in lost'
      /\ ~Forked(p) => \A v \in opt.table : v >= t => FileOf(v, p) \in lost'
      /\ UNCHANGED <<opt, tbl, row, left, pos, buf, c>>
  BY DEF Refuse, FInv
<1>2. /\ pc'[p] = "exiting" /\ \A q \in Proc : q # p => pc'[q] = pc[q]
      /\ t \in opt.table /\ p \in Writers(t)
  BY <1>1 DEF Kinds, FInv, Posts, Post, AtTable
<1>3. Kinds'
  BY <1>1 DEF Kinds
<1>4. Posts'
  <2>1. ASSUME NEW q \in Proc, q # p PROVE Post(q)'
    BY <1>1, <1>2, <2>1, PostSame DEF FInv, Posts
  <2>2. Post(p)'
    BY <1>1, <1>2 DEF FInv, Posts, Post, AtTable, Mains, Children, Forked, Parallel
  <2> QED BY <2>1, <2>2 DEF Posts
<1>5. 0 \in Proc /\ Children \subseteq Proc /\ 0 \notin Children /\ t \in Int
  BY <1>1, <1>2, Numbers
<1>6. Family'
  <2>1. \A k \in Children : pc'[k] # "idle" <=> pc[k] # "idle"
    BY <1>1, <1>2, <1>5
  <2>2. {k \in Children : pc'[k] # "idle"} = {k \in Children : pc[k] # "idle"}
    BY <2>1
  <2>3. Children' = Children /\ (pc'[0] = pc[0] \/ (pc[0] = "gen" /\ pc'[0] = "exiting"))
    BY <1>1, <1>2, <1>5 DEF Children
  <2> QED BY <1>1, <2>1, <2>2, <2>3 DEF FInv, Family
<1>7. Buffers'
  <2>1. ASSUME NEW q \in Proc PROVE Buffer(q)'
    BY <1>1, <1>2, BufferSame DEF FInv, Buffers
  <2> QED BY <2>1 DEF Buffers
<1>8. FileOf(t, p) \in lost'
  BY <1>1, <1>2, <1>5
<1> HIDE DEF t
<1>9. ASSUME NEW v \in opt.table, NEW q \in Writers(v), FileOf(v, q) \notin lost'
      PROVE  /\ Ahead(q, v) => Ahead(q, v)'
             /\ Written(q, v) => Written(q, v)'
  <2>1. q \in Proc /\ Forked(q)' = Forked(q) /\ (q = p => v # t) /\ v \in Int
    BY <1>1, <1>8, <1>9, Numbers, PartFacts DEF Forked
  <2>2. FileOf(v, q) # FileOf(t, p)
    BY <1>8, <1>9
  <2>3. ASSUME Ahead(q, v) PROVE Ahead(q, v)'
    <3>1. CASE Forked(q)
      <4>1. q \in Children /\ ~opt.steps /\ Parallel(v) /\ ChildAhead(q, v)
        BY <2>3, <3>1, <1>1, Numbers DEF Writers, Mains, Forked, Ahead
      <4>2. q = p /\ pc[0] \in {"fork", "wait"} => tbl[0] # v
        BY <1>1, <2>1, <4>1 DEF FInv, Family, t
      <4>3. p = 0 => ~(tbl[0] <= v)
        <5>1. ASSUME p = 0 PROVE ~Parallel(t)
          BY <1>2, <1>5, <5>1 DEF Writers
        <5>2. p = 0 => ~(t < NATION) /\ v < NATION /\ opt.children > 1
          BY <4>1, <5>1 DEF Parallel
        <5> QED BY <1>5, <2>1, <5>2 DEF t, NATION
      <4>4. tbl[0] \in Int
        BY <1>1, Numbers
      <4> QED BY <1>1, <1>2, <1>5, <2>1, <3>1, <4>1, <4>2, <4>3, <4>4
              DEF Ahead, ChildAhead, AtTable, Started, Gone
    <3>2. CASE ~Forked(q)
      <4>1. OwnAhead(q, v)
        BY <2>3, <3>2 DEF Ahead
      <4>2. q = p => ~(tbl[p] < v)
        BY <1>1, <1>5, <1>9, <2>1, <3>2 DEF t
      <4>3. OwnAhead(q, v)'
        BY <1>1, <1>2, <2>1, <4>1, <4>2 DEF OwnAhead, AtTable, Started, Gone, t
      <4> QED BY <2>1, <3>2, <4>3 DEF Ahead
    <3> QED BY <3>1, <3>2
  <2>4. ASSUME Written(q, v) PROVE Written(q, v)'
    <3>1. disk'[FileOf(v, q)] = disk[FileOf(v, q)]
      <4>1. FileOf(v, q) \in File /\ DOMAIN disk = File
        BY <1>1, PartFacts DEF Kinds
      <4> QED BY <1>1, <2>2, <4>1 DEF t
    <3>2. Pending(q, v)' = Pending(q, v)
      BY <1>1 DEF Pending
    <3>3. Printed(q, v)' = Printed(q, v)
      BY <1>1, <1>2, <2>1 DEF Printed, Count, Parallel, PartRows, Rows, t
    <3> QED BY <1>1, <2>4, <3>1, <3>2, <3>3, WrittenOn
  <2> QED BY <2>3, <2>4
<1>10. ASSUME NEW v \in opt.table, NEW k \in Parts(v), <<v, k>> \notin lost',
              NEW x \in disk'[<<v, k>>]
       PROVE  x \in disk[<<v, k>>]
  <2>1. <<v, k>> \in File /\ DOMAIN disk = File
    <3>1. k \in Proc
      BY <1>1, Numbers DEF Parts
    <3> QED BY <1>1, <3>1, Numbers DEF File, Kinds
  <2>2. disk'[<<v, k>>] = disk[<<v, k>>]
    BY <1>1, <1>8, <1>10, <2>1 DEF t
  <2> QED BY <2>2
<1>11. FilesKept'
  BY <1>1, <1>9, <1>10, AllKept
<1> QED BY <1>3, <1>4, <1>6, <1>7, <1>11 DEF FInv

\* A wait that returns.
LEMMA ReapFiles ==
  ASSUME FInv, Reap
  PROVE  FInv'
<1>1. PICK k \in Children : pc[k] \in {"done", "dead"} /\ pc' = [pc EXCEPT ![k] = "idle"]
  BY DEF Reap
<1>2. /\ Kinds /\ pc[0] = "wait" /\ c > 0 /\ c' = c - 1
      /\ UNCHANGED <<opt, tbl, row, left, pos, buf, disk, lost>>
  BY DEF Reap, FInv
<1>3. /\ 0 \in Proc /\ k \in Proc /\ k # 0 /\ Children \subseteq Proc /\ 0 \notin Children
      /\ c \in Nat /\ Children' = Children
  BY <1>1, <1>2, Numbers DEF Kinds, Children
<1>4. /\ pc'[k] = "idle" /\ pc'[0] = "wait" /\ \A q \in Proc : q # k => pc'[q] = pc[q]
  BY <1>1, <1>2, <1>3 DEF Kinds
<1>5. Kinds'
  BY <1>1, <1>2, <1>3 DEF Kinds
<1>6. Posts'
  <2>1. ASSUME NEW q \in Proc, q # k PROVE Post(q)'
    BY <1>2, <1>4, <2>1, PostSame DEF FInv, Posts
  <2>2. Post(k)'
    BY <1>4 DEF Post, AtTable
  <2> QED BY <2>1, <2>2 DEF Posts
<1>7. Family'
  <2> DEFINE there == {j \in Children : pc[j] # "idle"}
  <2> SUFFICES ASSUME ~opt.steps PROVE Family'
    BY <1>2 DEF Family
  <2>1. Cardinality(there) = c /\ \A j \in Children : pc[j] # "idle" => tbl[j] = tbl[0]
    BY <1>2 DEF FInv, Family
  <2>2. IsFiniteSet(there)
    BY <1>2, ChildrenFinite, FS_Subset
  <2>3. k \in there
    BY <1>1
  <2>4. {j \in Children : pc'[j] # "idle"} = there \ {k}
    BY <1>3, <1>4
  <2> HIDE DEF there
  <2>5. Cardinality(there \ {k}) = c - 1
    BY <2>1, <2>2, <2>3, FS_RemoveElement
  <2>6. \A j \in Children : pc'[j] # "idle" => tbl[j] = tbl[0]
    BY <1>3, <1>4, <2>1
  <2> QED BY <1>2, <1>3, <1>4, <2>4, <2>5, <2>6 DEF Family
<1>8. Buffers'
  <2>1. ASSUME NEW q \in Proc PROVE Buffer(q)'
    BY <1>1, <1>2, <1>4, BufferSame DEF FInv, Buffers
  <2> QED BY <2>1 DEF Buffers
<1>9. FilesKept'
  <2>1. ASSUME NEW v \in opt.table, NEW q \in Writers(v)
        PROVE  /\ Ahead(q, v) => Ahead(q, v)'
               /\ Written(q, v) => Written(q, v)'
    <3>1. q \in Proc /\ Forked(q)' = Forked(q)
      BY <1>2, PartFacts DEF Forked
    <3>2. Ahead(q, v) => Ahead(q, v)'
      <4>1. CASE Forked(q)
        BY <1>1, <1>2, <1>3, <1>4, <3>1, <4>1 DEF Ahead, ChildAhead, AtTable, Started, Gone
      <4>2. CASE ~Forked(q)
        <5>1. ~opt.steps
          BY <1>2, <1>3 DEF FInv, Posts, Post
        <5>2. q # k
          BY <1>3, <4>2, <5>1 DEF Forked
        <5> QED BY <1>2, <1>4, <3>1, <4>2, <5>2 DEF Ahead, OwnAhead, AtTable, Started, Gone
      <4> QED BY <4>1, <4>2
    <3>3. Written(q, v) => Written(q, v)'
      BY <1>1, <1>2, <1>4, <3>1, WrittenStill
    <3> QED BY <3>2, <3>3
  <2> QED BY <1>2, <2>1, AllKept
<1> QED BY <1>5, <1>6, <1>7, <1>8, <1>9 DEF FInv

\* A child is forked: its part is still to be made, and it has nothing buffered.
LEMMA ForkFiles ==
  ASSUME FInv, ParentInv, Fork
  PROVE  FInv'
<1>0. PICK k \in Children : k = c + 1
  <2>1. Kinds /\ pc[0] = "fork" /\ ~opt.steps
    BY DEF Fork, FInv, ParentInv
  <2>2. c \in Nat /\ c < opt.children /\ opt.children \in Nat
    BY <2>1, Numbers DEF FInv, Family, Kinds
  <2> QED BY <2>2 DEF Children
<1>1. /\ Kinds /\ pc[0] = "fork" /\ c' = k /\ ~opt.steps /\ Parallel(tbl[0])
      /\ pc' = [pc EXCEPT ![k] = "partial", ![0] = IF k = opt.children THEN "wait" ELSE "fork"]
      /\ tbl' = [tbl EXCEPT ![k] = tbl[0]]
      /\ buf' = [buf EXCEPT ![k] = buf[0]]
      /\ UNCHANGED <<opt, row, left, pos, disk, lost>>
  BY <1>0 DEF Fork, FInv, ParentInv
<1>2. c \in Nat /\ c < opt.children /\ \A j \in Children : pc[j] # "idle" <=> j <= c
  BY <1>1 DEF FInv, Family, Kinds
<1>3. /\ 0 \in Proc /\ Children \subseteq Proc /\ 0 \notin Children /\ opt.children \in Nat
      /\ \A j \in Children : j \in Int
  BY <1>1, Numbers
<1>4. k \in Children /\ k \in Proc /\ k # 0 /\ k \in Nat
  BY <1>0, <1>2, <1>3
<1>5. pc[k] = "idle" /\ buf[k] = {} /\ buf[0] = {}
  <2>1. ~(k <= c)
    BY <1>0, <1>2
  <2>2. pc[k] = "idle"
    BY <1>2, <1>4, <2>1
  <2>3. buf[0] = {}
    BY <1>1 DEF ParentInv
  <2> QED BY <1>4, <2>2, <2>3 DEF FInv, Buffers, Buffer
<1>6. /\ pc'[k] = "partial" /\ pc'[0] = IF k = opt.children THEN "wait" ELSE "fork"
      /\ tbl'[k] = tbl[0] /\ \A q \in Proc : buf'[q] = buf[q]
      /\ \A q \in Proc : q # k => tbl'[q] = tbl[q]
      /\ \A q \in Proc : q # k /\ q # 0 => pc'[q] = pc[q]
  BY <1>1, <1>3, <1>4, <1>5 DEF Kinds
<1>7. tbl[0] \in opt.table /\ tbl[0] \in Tables /\ 0 \in Mains
  BY <1>1, <1>3, Numbers DEF FInv, Posts, Post, AtTable, Mains
<1>8. Kinds'
  <2>1. pc' \in [Proc -> {"idle", "main", "partial", "gen", "fork", "wait",
                         "exiting", "done", "dead", "failed"}]
    BY <1>1 DEF Kinds
  <2>2. tbl' \in [Proc -> Tables \cup {END}]
    BY <1>1, <1>7 DEF Kinds
  <2> QED BY <1>1, <1>4, <1>6, <2>1, <2>2 DEF Kinds
<1>9. Posts'
  <2>1. ASSUME NEW q \in Proc, q # k, q # 0 PROVE Post(q)'
    BY <1>1, <1>6, <2>1, PostSame DEF FInv, Posts
  <2>2. Post(k)'
    BY <1>1, <1>4, <1>6, <1>7 DEF Post, AtTable, Forked, Children, Parallel
  <2>3. Post(0)'
    <3>1. tbl'[0] = tbl[0] /\ pc'[0] \in {"wait", "fork"}
      BY <1>3, <1>4, <1>6
    <3> QED BY <1>1, <1>7, <3>1 DEF Post, AtTable, Mains, Parallel
  <2> QED BY <2>1, <2>2, <2>3 DEF Posts
<1>10. Family'
  <2>1. \A j \in Children : pc'[j] # "idle" <=> j <= k
    <3> SUFFICES ASSUME NEW j \in Children PROVE pc'[j] # "idle" <=> j <= k
      OBVIOUS
    <3>1. CASE j = k
      BY <1>4, <1>6, <3>1
    <3>2. CASE j # k
      <4>1. pc'[j] = pc[j]
        BY <1>3, <1>6, <3>2
      <4>2. j <= k <=> j <= c
        BY <1>0, <1>2, <1>3, <3>2
      <4> QED BY <1>2, <4>1, <4>2
    <3> QED BY <3>1, <3>2
  <2>2. \A j \in Children : pc'[j] # "idle" => tbl'[j] = tbl'[0]
    BY <1>1, <1>3, <1>4, <1>6 DEF FInv, Family
  <2>3. CASE k = opt.children
    <3>1. {j \in Children : pc'[j] # "idle"} = Children
      BY <1>3, <2>1, <2>3 DEF Children
    <3>2. Cardinality(Children) = k
      BY <1>1, <2>3, ChildrenFinite
    <3>3. pc'[0] = "wait" /\ Children' = Children /\ c' = k
      BY <1>1, <1>6, <2>3 DEF Children
    <3> QED BY <2>2, <3>1, <3>2, <3>3 DEF Family
  <2>4. CASE k # opt.children
    <3>1. k < opt.children
      BY <1>0, <1>2, <1>3, <2>4 DEF Children
    <3> QED BY <1>1, <1>6, <2>1, <2>2, <2>4, <3>1 DEF Family, Children
  <2> QED BY <2>3, <2>4
<1>11. Buffers'
  <2>1. ASSUME NEW q \in Proc, q # 0, q # k PROVE Buffer(q)'
    BY <1>1, <1>6, <2>1, BufferSame DEF FInv, Buffers
  <2>2. Buffer(0)' /\ Buffer(k)'
    BY <1>3, <1>4, <1>5, <1>6 DEF Buffer
  <2> QED BY <2>1, <2>2 DEF Buffers
<1>12. FilesKept'
  <2>1. ASSUME NEW v \in opt.table, NEW q \in Writers(v)
        PROVE  /\ Ahead(q, v) => Ahead(q, v)'
               /\ Written(q, v) => Written(q, v)'
    <3>1. q \in Proc /\ Forked(q)' = Forked(q) /\ tbl'[0] = tbl[0] /\ pc'[0] \in {"wait", "fork"}
      BY <1>1, <1>3, <1>4, <1>6, PartFacts DEF Forked
    <3>2. ASSUME Ahead(q, v) PROVE Ahead(q, v)'
      <4>1. CASE Forked(q)
        <5>1. q \in Children /\ ChildAhead(q, v)
          BY <1>1, <3>2, <4>1, Numbers DEF Writers, Mains, Forked, Ahead
        <5>2. CASE q = k
          BY <1>1, <1>6, <3>1, <4>1, <5>1, <5>2
             DEF Ahead, ChildAhead, AtTable, Started, Gone
        <5>3. CASE q # k
          <6>2. q > c => q > k /\ k # opt.children
            BY <1>0, <1>2, <1>3, <5>1, <5>3 DEF Children
          <6>3. pc'[q] = pc[q]
            BY <1>3, <1>6, <3>1, <5>1, <5>3
          <6> QED BY <1>1, <1>6, <3>1, <4>1, <5>1, <6>2, <6>3
                  DEF Ahead, ChildAhead, AtTable, Started, Gone
        <5> QED BY <5>2, <5>3
      <4>2. CASE ~Forked(q)
        <5>1. q = 0 /\ OwnAhead(0, v)
          BY <1>1, <3>2, <4>2 DEF Forked, Ahead
        <5>2. OwnAhead(0, v)'
          BY <1>1, <3>1, <5>1 DEF OwnAhead, AtTable, Started, Gone
        <5>3. OwnAhead(q, v)'
          BY <5>1, <5>2
        <5> QED BY <3>1, <4>2, <5>3 DEF Ahead
      <4> QED BY <4>1, <4>2
    <3>3. ASSUME Written(q, v) PROVE Written(q, v)'
      <4>1. pc'[q] = "gen" /\ tbl'[q] = v <=> pc[q] = "gen" /\ tbl[q] = v
        BY <1>1, <1>5, <1>6, <3>1
      <4> QED BY <1>1, <1>6, <3>1, <3>3, <4>1, WrittenStill
    <3> QED BY <3>2, <3>3
  <2> QED BY <1>1, <2>1, AllKept
<1> QED BY <1>8, <1>9, <1>10, <1>11, <1>12 DEF FInv

\* One row: in its place in the file, or in the buffers.
LEMMA GenRowFiles ==
  ASSUME FInv, NEW p \in Proc, GenRow(p)
  PROVE  FInv'
<1>1. PICK t \in opt.table : t = tbl[p]
  BY DEF GenRow, FInv, Posts, Post, AtTable
<1>2. PICK r :
        /\ r.n = pos[p] + 1 /\ r.i = row[p]
        /\ \/ /\ pos[p] > 0
              /\ buf' = [buf EXCEPT ![p] = {w \in buf[p] : w.t # t}]
              /\ disk' = [disk EXCEPT ![FileOf(t, p)] =
                            Overlay(Opened(t, p), Pending(p, t) \cup {r})]
           \/ /\ buf' = [buf EXCEPT ![p] = buf[p] \cup {[t |-> t, row |-> r]}]
              /\ disk' = [disk EXCEPT ![FileOf(t, p)] = Opened(t, p)]
  <2> DEFINE made == [n |-> pos[p] + 1, i |-> row[p], at |-> [s \in Reads(t) |-> seed[p][s]]]
  <2>1. \/ /\ pos[p] > 0
           /\ buf' = [buf EXCEPT ![p] = {w \in buf[p] : w.t # t}]
           /\ disk' = [disk EXCEPT ![FileOf(t, p)] =
                         Overlay(Opened(t, p), Pending(p, t) \cup {made})]
        \/ /\ buf' = [buf EXCEPT ![p] = buf[p] \cup {[t |-> t, row |-> made]}]
           /\ disk' = [disk EXCEPT ![FileOf(t, p)] = Opened(t, p)]
    BY <1>1 DEF GenRow
  <2>2. made.n = pos[p] + 1 /\ made.i = row[p]
    OBVIOUS
  <2> HIDE DEF made
  <2> QED BY <2>1, <2>2
<1>3. /\ Kinds /\ pc[p] = "gen" /\ left[p] > 0
      /\ row' = [row EXCEPT ![p] = row[p] + 1]
      /\ left' = [left EXCEPT ![p] = left[p] - 1]
      /\ pos' = [pos EXCEPT ![p] = pos[p] + 1]
      /\ UNCHANGED <<opt, pc, tbl, c, lost>>
  BY DEF GenRow, FInv
<1>4. /\ p \in Writers(t) /\ row[p] = First(t, p) + pos[p] /\ left[p] + pos[p] = Count(t, p)
      /\ pos[p] \in Nat /\ left[p] \in Nat /\ row[p] \in Int /\ tbl[p] = t
  BY <1>1, <1>3 DEF FInv, Posts, Post, Kinds
<1>5. /\ Count(t, p) \in Nat /\ First(t, p) = Offset(t, PartOf(t, p)) + 1
      /\ PartCount(t, PartOf(t, p)) = Count(t, p) /\ Offset(t, PartOf(t, p)) \in Int
      /\ FileOf(t, p) = <<t, PartOf(t, p)>> /\ FileOf(t, p) \in File
  BY <1>3, <1>4, PartFacts
<1>6. Belongs(r, t, PartOf(t, p))
  BY <1>2, <1>3, <1>4, <1>5 DEF Belongs
<1>7. \A y \in Pending(p, t) : Belongs(y, t, PartOf(t, p))
  BY DEF FInv, Buffers, Buffer, Pending
<1>8. /\ row'[p] = row[p] + 1 /\ left'[p] = left[p] - 1 /\ pos'[p] = pos[p] + 1
      /\ \A q \in Proc : q # p => /\ row'[q] = row[q] /\ left'[q] = left[q] /\ pos'[q] = pos[q]
                                  /\ buf'[q] = buf[q]
      /\ \A f \in File : f # FileOf(t, p) => disk'[f] = disk[f]
  BY <1>2, <1>3 DEF Kinds
<1>9. Kinds'
  BY <1>2, <1>3, <1>4 DEF Kinds
<1>10. Posts'
  <2>1. ASSUME NEW q \in Proc, q # p PROVE Post(q)'
    BY <1>3, <1>8, <2>1, PostSame DEF FInv, Posts
  <2>2. Post(p)'
    <3>1. Post(p) /\ First(t, p)' = First(t, p) /\ Count(t, p)' = Count(t, p)
          /\ First(t, p) \in Int
      BY <1>3, <1>5 DEF FInv, Posts, First, Count, Parallel, PartRows, Rows
    <3>2. row'[p] = First(t, p) + pos'[p] /\ left'[p] + pos'[p] = Count(t, p)
      BY <1>4, <1>5, <1>8, <3>1
    <3>3. /\ p \in Mains' \/ (Forked(p)' /\ p \in Children' /\ Parallel(t)')
          /\ p \in Writers(t)'
      BY <1>3, <1>4, <3>1 DEF Post, Mains, Children, Forked, Parallel, Writers
    <3> QED BY <1>1, <1>3, <1>4, <3>1, <3>2, <3>3 DEF Post, AtTable, Forked, Parallel, Writers, Mains, Children, First, Count, PartRows, Rows
  <2> QED BY <2>1, <2>2 DEF Posts
<1>11. Family'
  BY <1>3 DEF FInv, Family, Children
<1>12. \A w \in buf'[p] : w \in buf[p] \/ w = [t |-> t, row |-> r]
  BY <1>2, <1>3 DEF Kinds
<1>13. Buffers'
  <2>1. ASSUME NEW q \in Proc, q # p PROVE Buffer(q)'
    BY <1>3, <1>8, <2>1, BufferSame DEF FInv, Buffers
  <2>2. Buffer(p)'
    <3>1. ASSUME NEW w \in buf'[p]
          PROVE  /\ w.t \in opt.table /\ p \in Writers(w.t)
                 /\ Belongs(w.row, w.t, PartOf(w.t, p))
                 /\ Forked(p) => w.t = tbl[p]
      <4>1. CASE w \in buf[p]
        BY <4>1 DEF FInv, Buffers, Buffer
      <4>2. CASE w = [t |-> t, row |-> r]
        BY <1>4, <1>6, <4>2
      <4> QED BY <1>12, <4>1, <4>2
    <3>2. ASSUME NEW w \in buf'[p]
          PROVE  /\ (w.t \in opt.table)' /\ (p \in Writers(w.t))'
                 /\ Belongs(w.row, w.t, PartOf(w.t, p))'
                 /\ (Forked(p) => w.t = tbl[p])'
      BY <1>3, <3>1 DEF Writers, Children, Mains, Parallel, PartOf, Belongs, PartCount, Offset,
                        Count, Rows, PartRows, Forked
    <3>3. pc'[p] = "gen"
      BY <1>3
    <3> QED BY <3>2, <3>3 DEF Buffer
  <2> QED BY <2>1, <2>2 DEF Buffers
<1>14. ASSUME NEW v \in opt.table, NEW q \in Writers(v), FileOf(v, q) # FileOf(t, p)
       PROVE  /\ Ahead(q, v) => Ahead(q, v)'
              /\ Written(q, v) => Written(q, v)'
  <2>1. q \in Proc /\ FileOf(v, q) \in File /\ (q = p => v # t) /\ Forked(q)' = Forked(q)
    BY <1>3, <1>14, PartFacts DEF Forked
  <2>2. ASSUME Ahead(q, v) PROVE Ahead(q, v)'
    <3>1. CASE Forked(q)
      <4>1. q \in Children /\ ~opt.steps /\ ChildAhead(q, v)
        BY <2>2, <3>1, <1>3, Numbers DEF Writers, Mains, Forked, Ahead
      <4>2. q = p /\ pc[0] \in {"fork", "wait"} => tbl[0] # v
        BY <1>3, <1>4, <2>1, <4>1 DEF FInv, Family
      <4> QED BY <1>3, <1>8, <2>1, <3>1, <4>1, <4>2 DEF Ahead, ChildAhead, AtTable, Started, Gone
    <3>2. CASE ~Forked(q)
      BY <1>3, <1>4, <1>8, <2>1, <2>2, <3>2 DEF Ahead, OwnAhead, AtTable, Started, Gone
    <3> QED BY <3>1, <3>2
  <2>3. ASSUME Written(q, v) PROVE Written(q, v)'
    <3>1. disk'[FileOf(v, q)] = disk[FileOf(v, q)]
      BY <1>8, <1>14, <2>1
    <3>2. Pending(q, v)' = Pending(q, v)
      <4>1. CASE q # p
        BY <1>8, <2>1, <4>1 DEF Pending
      <4>2. CASE q = p
        <5>1. \A w : w.t = v => (w \in buf'[q] <=> w \in buf[q])
          BY <1>2, <1>3, <2>1, <4>2 DEF Kinds
        <5> QED BY <5>1 DEF Pending
      <4> QED BY <4>1, <4>2
    <3>3. Printed(q, v)' = Printed(q, v)
      BY <1>3, <1>4, <1>8, <2>1 DEF Printed, Count, Parallel, PartRows, Rows
    <3> QED BY <1>3, <2>3, <3>1, <3>2, <3>3, WrittenOn
  <2> QED BY <2>2, <2>3
<1>15. FileKept(t, PartOf(t, p))'
  <2> DEFINE k == PartOf(t, p)
             F == FileOf(t, p)
  <2>1. /\ PartOf(t, p)' = PartOf(t, p) /\ F' = F /\ PartCount(t, k)' = PartCount(t, k)
        /\ Writers(t)' = Writers(t) /\ \A q : PartOf(t, q)' = PartOf(t, q)
        /\ \A x : Belongs(x, t, k)' <=> Belongs(x, t, k)
    BY <1>3 DEF PartOf, FileOf, PartCount, Count, Parallel, PartRows, Rows, Writers, Children,
                Mains, Belongs, Offset
  <2>2. FileKept(t, k)
    BY <1>3, <1>4, PartFacts DEF FInv, FilesKept
  <2>3. /\ \A x \in disk'[F] : x \in Opened(t, p) \/ x \in Pending(p, t) \/ x = r
        /\ \A x \in Opened(t, p) \cup Pending(p, t) \cup {r} :
             \E y \in disk'[F] \cup Pending(p, t)' : y.n = x.n
        /\ \A x \in Opened(t, p) : \E y \in disk'[F] : y.n = x.n
    <3>1. CASE /\ buf' = [buf EXCEPT ![p] = {w \in buf[p] : w.t # t}]
               /\ disk' = [disk EXCEPT ![F] = Overlay(Opened(t, p), Pending(p, t) \cup {r})]
      <4>1. disk'[F] = Overlay(Opened(t, p), Pending(p, t) \cup {r})
        BY <1>3, <1>5, <3>1 DEF Kinds
      <4> QED BY <4>1 DEF Overlay
    <3>2. CASE /\ buf' = [buf EXCEPT ![p] = buf[p] \cup {[t |-> t, row |-> r]}]
               /\ disk' = [disk EXCEPT ![F] = Opened(t, p)]
      <4>1. disk'[F] = Opened(t, p) /\ buf'[p] = buf[p] \cup {[t |-> t, row |-> r]}
        BY <1>3, <1>5, <3>2 DEF Kinds
      <4>2. Pending(p, t) \cup {r} \subseteq Pending(p, t)'
        <5>1. r \in Pending(p, t)'
          <6>1. [t |-> t, row |-> r] \in {w \in buf'[p] : w.t = t}
            BY <4>1
          <6> QED BY <6>1 DEF Pending
        <5>2. ASSUME NEW x \in Pending(p, t) PROVE x \in Pending(p, t)'
          BY <4>1 DEF Pending
        <5> QED BY <5>1, <5>2
      <4> QED BY <4>1, <4>2
    <3> QED BY <1>2, <3>1, <3>2
  <2>4. CASE <<t, k>> \in lost \/ PartCount(t, k) = 0
    BY <1>3, <2>1, <2>4 DEF FileKept
  <2>5. CASE <<t, k>> \notin lost /\ PartCount(t, k) # 0 /\ pos[p] = 0
    <3>1. \A x \in disk'[F] : Belongs(x, t, k)
      BY <1>6, <1>7, <2>3, <2>5 DEF Opened
    <3>2. Written(p, t)'
      <4>1. Printed(p, t)' = 1..1
        BY <1>3, <1>4, <1>8, <2>5 DEF Printed
      <4>2. \E y \in disk'[F] \cup Pending(p, t)' : y.n = 1
        BY <1>2, <2>3, <2>5
      <4> QED BY <2>1, <4>1, <4>2 DEF Written
    <3> QED BY <1>4, <1>5, <2>1, <3>1, <3>2 DEF FileKept
  <2>6. CASE <<t, k>> \notin lost /\ PartCount(t, k) # 0 /\ pos[p] # 0
    <3>1. Opened(t, p) = disk[F]
      BY <2>6 DEF Opened
    <3>2. \A q \in Writers(t) : Ahead(q, t) => Ahead(q, t)'
      <4> SUFFICES ASSUME NEW q \in Writers(t), Ahead(q, t) PROVE Ahead(q, t)'
        OBVIOUS
      <4>1. q \in Proc /\ Forked(q)' = Forked(q) /\ Started(p) /\ pos[p] + 1 > 0
        BY <1>3, <1>4, <2>6, PartFacts DEF Forked, Started
      <4> QED BY <1>3, <1>8, <4>1 DEF Ahead, ChildAhead, OwnAhead, AtTable, Started, Gone
    <3>3. \A q \in Writers(t) : PartOf(t, q) = k /\ Written(q, t) => Written(q, t)'
      <4> SUFFICES ASSUME NEW q \in Writers(t), PartOf(t, q) = k, Written(q, t)
                   PROVE  Written(q, t)'
        OBVIOUS
      <4>1. q \in Proc /\ FileOf(t, q) = F
        BY <1>3, <1>5, PartFacts
      <4>2. CASE q # p
        <5>1. Printed(q, t)' = Printed(q, t) /\ Pending(q, t)' = Pending(q, t)
          BY <1>3, <1>8, <4>1, <4>2 DEF Printed, Count, Parallel, PartRows, Rows, Pending
        <5>2. \A x \in disk[F] \cup Pending(q, t) : \E y \in disk'[F] \cup Pending(q, t)' : y.n = x.n
          BY <2>3, <3>1, <5>1
        <5>3. disk[FileOf(t, q)] = disk[F] /\ disk'[FileOf(t, q)] = disk'[F]
          BY <4>1
        <5>4. opt' = opt /\ Written(q, t)
          BY <1>3
        <5> HIDE DEF F
        <5> QED BY <5>1, <5>2, <5>3, <5>4, WrittenOn
      <4>3. CASE q = p
        <5>1. Printed(p, t) = 1..pos[p] /\ Printed(p, t)' = 1..(pos[p] + 1)
          BY <1>3, <1>4, <1>8 DEF Printed
        <5>2. ASSUME NEW n \in 1..(pos[p] + 1)
              PROVE  \E y \in disk'[F] \cup Pending(p, t)' : y.n = n
          <6>1. CASE n = pos[p] + 1
            BY <1>2, <2>3, <6>1
          <6>2. CASE n # pos[p] + 1
            <7>1. n \in Printed(p, t)
              BY <1>4, <5>1, <6>2
            <7>2. PICK x \in disk[F] \cup Pending(p, t) : x.n = n
              BY <4>3, <7>1 DEF Written
            <7> QED BY <2>3, <3>1, <7>2
          <6> QED BY <6>1, <6>2
        <5>3. Written(p, t)'
          BY <2>1, <5>1, <5>2 DEF Written
        <5> QED BY <4>3, <5>3
      <4> QED BY <4>2, <4>3
    <3>4. (\A q \in Writers(t) : PartOf(t, q) = k => Ahead(q, t))
            \/ \A x \in disk[F] : Belongs(x, t, k)
      BY <1>5, <2>2, <2>6 DEF FileKept
    <3>5. (\A q \in Writers(t) : PartOf(t, q) = k => Ahead(q, t)')
            \/ \A x \in disk'[F] : Belongs(x, t, k)
      BY <1>6, <1>7, <2>3, <3>1, <3>2, <3>4
    <3>6. PICK q \in Writers(t) : PartOf(t, q) = k /\ (Ahead(q, t) \/ Written(q, t))
      BY <2>2, <2>6 DEF FileKept
    <3>7. Ahead(q, t)' \/ Written(q, t)'
      BY <3>2, <3>3, <3>6
    <3> QED BY <1>5, <2>1, <3>5, <3>6, <3>7 DEF FileKept
  <2> QED BY <2>4, <2>5, <2>6
<1>16. FilesKept'
  <2> SUFFICES ASSUME NEW v \in opt.table, NEW k \in Parts(v) PROVE FileKept(v, k)'
    BY <1>3 DEF FilesKept, Parts, Parallel, Children
  <2>1. CASE v = t /\ k = PartOf(t, p)
    <3>1. PartOf(t, p)' = PartOf(t, p)
      BY <1>3 DEF PartOf, Parallel
    <3> QED BY <1>15, <2>1, <3>1
  <2>2. CASE ~(v = t /\ k = PartOf(t, p))
    <3>1. FileKept(v, k)
      BY DEF FInv, FilesKept
    <3>2. \A q \in Writers(v) : PartOf(v, q) = k => FileOf(v, q) # FileOf(t, p)
      BY <1>3, <1>5, <2>2, PartFacts
    <3>3. disk'[<<v, k>>] = disk[<<v, k>>]
      <4>1. k \in Proc /\ v \in Tables
        BY <1>3, Numbers DEF Parts
      <4>2. <<v, k>> \in File /\ <<v, k>> # FileOf(t, p)
        BY <1>5, <2>2, <4>1 DEF File
      <4> QED BY <1>8, <4>2
    <3> QED BY <1>3, <1>14, <3>1, <3>2, <3>3, KeptOn
  <2> QED BY <2>1, <2>2
<1> QED BY <1>9, <1>10, <1>11, <1>13, <1>16 DEF FInv

\* The rows that are left over by equal parts are those of the last one.
LEMMA PartsAddUp ==
  ASSUME NEW base \in Nat, NEW sf \in Nat, NEW procs \in Nat \ {0}
  PROVE  base * sf = RowCount(base, sf, procs) * procs + ExtraRows(base, sf, procs)
<1> DEFINE d == base \div procs
           m == base % procs
           r == m * sf
           e == r \div procs
           x == r % procs
<1>1. d \in Nat /\ m \in Nat /\ base = procs * d + m
  OBVIOUS
<1>2. r \in Nat
  BY <1>1
<1> HIDE DEF r
<1>3. e \in Nat /\ x \in Nat /\ r = procs * e + x
  BY <1>2
<1> HIDE DEF d, m, e, x
<1>4. base * sf = (procs * d) * sf + m * sf
  <2>1. procs * d \in Nat
    BY <1>1
  <2> DEFINE pd == procs * d
  <2> HIDE DEF pd
  <2>2. pd \in Nat /\ base = pd + m
    BY <1>1, <2>1 DEF pd
  <2>3. base * sf = pd * sf + m * sf
    BY <1>1, <2>2
  <2> QED BY <2>3 DEF pd
<1>5. (procs * d) * sf = (d * sf) * procs
  BY <1>1
<1>6. (d * sf + e) * procs = (d * sf) * procs + procs * e
  <2>1. d * sf \in Nat
    BY <1>1
  <2> DEFINE ds == d * sf
  <2> HIDE DEF ds
  <2>2. (ds + e) * procs = ds * procs + procs * e
    BY <1>3, <2>1 DEF ds
  <2> QED BY <2>2 DEF ds
<1>7. RowCount(base, sf, procs) = d * sf + e /\ ExtraRows(base, sf, procs) = x
  BY DEF RowCount, ExtraRows, d, m, r, e, x
<1>8. (d * sf) * procs \in Nat /\ procs * e \in Nat
  <2>1. d * sf \in Nat
    BY <1>1
  <2> QED BY <1>3, <2>1
<1>9. m * sf = r
  BY DEF r
<1> HIDE DEF r
<1>10. base * sf = (d * sf) * procs + (procs * e + x)
  BY <1>3, <1>4, <1>5, <1>9
<1>11. RowCount(base, sf, procs) * procs = (d * sf) * procs + procs * e
  BY <1>6, <1>7
<1> QED BY <1>3, <1>7, <1>8, <1>10, <1>11

\* A part ends where the next begins, and the last one with the table.
LEMMA PartEnds ==
  ASSUME Kinds, NEW t \in opt.table, NEW k \in Parts(t)
  PROVE  PartCount(t, k) = IF k = opt.children \/ ~Parallel(t)
                             THEN Rows(t) - Offset(t, k)
                             ELSE Offset(t, k + 1) - Offset(t, k)
<1>1. t \in Tables /\ opt.children \in Nat \ {0} /\ Base[t] \in Nat /\ opt.scale \in Nat
  BY Numbers, DbgenAssumption
<1>2. CASE ~Parallel(t)
  <2>1. Rows(t) \in Int
    BY <1>1 DEF Rows
  <2> QED BY <1>2, <2>1 DEF PartCount, Offset
<1>3. CASE Parallel(t)
  <2>1. k \in Int /\ k \in Children
    BY <1>3, Numbers DEF Parts
  <2> DEFINE size  == PartRows(t)
             extra == ExtraRows(Base[t], opt.scale, opt.children)
  <2>2. size \in Nat /\ extra \in Nat
    BY <1>1, PartNat DEF PartRows
  <2>3. Rows(t) = size * opt.children + extra
    BY <1>1, <1>3, PartsAddUp DEF Rows, PartRows, Parallel
  <2>4. PartCount(t, k) = size + (IF k = opt.children THEN extra ELSE 0)
    BY <1>3 DEF PartCount, Count
  <2>5. Offset(t, k) = size * (k - 1) /\ Offset(t, k + 1) = size * (k + 1 - 1)
    <3>1. \A j : Offset(t, j) = size * (j - 1)
      BY <1>3 DEF Offset
    <3>2. PICK j \in Int : j = k + 1
      BY <2>1
    <3>3. Offset(t, j) = size * (j - 1)
      BY <3>1
    <3>4. Offset(t, k) = size * (k - 1)
      BY <3>1
    <3> HIDE DEF size
    <3> QED BY <2>1, <2>2, <3>2, <3>3, <3>4
  <2> HIDE DEF size, extra
  <2>6. size * k \in Int /\ size * (k - 1) = size * k - size /\ size * (k + 1 - 1) = size * k
    BY <2>1, <2>2
  <2>7. CASE k = opt.children
    <3>1. Rows(t) - Offset(t, k) = size + extra
      BY <2>2, <2>3, <2>5, <2>6, <2>7
    <3> QED BY <2>4, <2>7, <3>1
  <2>8. CASE k # opt.children
    <3>1. Offset(t, k + 1) - Offset(t, k) = size
      BY <2>2, <2>5, <2>6
    <3> QED BY <1>3, <2>2, <2>4, <2>8, <3>1
  <2> QED BY <2>7, <2>8
<1> QED BY <1>2, <1>3

\* When all have ended, nothing is in a buffer any more, and each file has its rows.
LEMMA KeptComplete == FInv => CompleteOnExit
<1> SUFFICES ASSUME FInv, \A p \in Mains : pc[p] = "done",
                    NEW t \in opt.table, NEW k \in Parts(t), <<t, k>> \notin lost, Count(t, k) # 0
             PROVE  Whole(t, k)
  BY DEF CompleteOnExit
<1>1. Kinds /\ 0 \notin Children /\ 0 \in Proc /\ Children \subseteq Proc /\ opt.steps \in BOOLEAN
  BY Numbers DEF FInv
<1>2. PartCount(t, k) # 0
  BY DEF PartCount, Count
<1>3. ASSUME NEW q \in Writers(t), PartOf(t, q) = k
      PROVE  /\ ~Ahead(q, t) /\ pc[q] # "gen" /\ buf[q] = {} /\ FileOf(t, q) = <<t, k>>
             /\ Count(t, q) = PartCount(t, k)
  <2>1. q \in Proc /\ FileOf(t, q) = <<t, k>> /\ Count(t, q) = PartCount(t, k)
    BY <1>1, <1>3, PartFacts
  <2>2. CASE Forked(q)
    <3>1. pc[0] = "done" /\ pc[q] = "idle"
      BY <1>1, <2>2 DEF FInv, Family, Mains, Writers, Forked
    <3> QED BY <2>1, <2>2, <3>1 DEF FInv, Buffers, Buffer, Ahead, ChildAhead, AtTable, Gone
  <2>3. CASE ~Forked(q)
    <3>1. pc[q] = "done"
      BY <1>1, <2>3 DEF Mains, Writers, Forked
    <3> QED BY <2>1, <2>3, <3>1 DEF FInv, Buffers, Buffer, Ahead, OwnAhead, AtTable, Gone
  <2> QED BY <2>2, <2>3
<1>4. /\ (\A p \in Writers(t) : PartOf(t, p) = k => Ahead(p, t))
         \/ \A x \in disk[<<t, k>>] : Belongs(x, t, k)
      /\ \E p \in Writers(t) : PartOf(t, p) = k /\ (Ahead(p, t) \/ Written(p, t))
  BY <1>2 DEF FInv, FilesKept, FileKept
<1>5. PICK q \in Writers(t) : PartOf(t, q) = k /\ Written(q, t)
  BY <1>3, <1>4
<1>6. \A x \in disk[<<t, k>>] : Belongs(x, t, k)
  BY <1>3, <1>4, <1>5
<1>7. \A n \in 1..PartCount(t, k) : \E x \in disk[<<t, k>>] : x.n = n
  <2>1. Printed(q, t) = 1..PartCount(t, k) /\ Pending(q, t) = {} /\ FileOf(t, q) = <<t, k>>
    BY <1>3, <1>5 DEF Printed, Pending
  <2> QED BY <1>5, <2>1 DEF Written
<1>8. {x.n : x \in disk[<<t, k>>]} = 1..PartCount(t, k)
  BY <1>6, <1>7 DEF Belongs
<1> QED BY <1>1, <1>6, <1>8, PartEnds DEF Whole, Belongs

\* No file is opened yet, and every writer has its rows still to make.
LEMMA InitFiles == Init => FInv
<1> SUFFICES ASSUME Init PROVE FInv
  OBVIOUS
<1>1. /\ opt \in Commands /\ opt.table \in TableChoices
      /\ pc = [p \in Proc |-> IF p \in Mains THEN "main" ELSE "idle"]
      /\ buf = [p \in Proc |-> {}]
  BY CommandFacts DEF Init
<1>2. opt.table \subseteq Tables /\ \E t \in opt.table : \A u \in opt.table : t <= u
  BY <1>1, ChoiceFacts
<1>3. PICK first \in opt.table : /\ \A u \in opt.table : first <= u
                                 /\ tbl = [p \in Proc |-> first]
  BY <1>2 DEF Init
<1>4. Kinds
  <2>1. tbl \in [Proc -> Tables \cup {END}]
    BY <1>2, <1>3
  <2>2. pc \in [Proc -> {"idle", "main", "partial", "gen", "fork", "wait",
                        "exiting", "done", "dead", "failed"}]
    BY <1>1
  <2> QED BY <1>1, <2>1, <2>2 DEF Init, Kinds
<1>5. 0 \in Proc /\ Children \subseteq Proc /\ 0 \notin Children /\ Mains \subseteq Proc
      /\ opt.children \in Nat \ {0}
  BY <1>4, Numbers
<1>6. \A p \in Proc : /\ pc[p] = IF p \in Mains THEN "main" ELSE "idle"
                      /\ tbl[p] = first /\ buf[p] = {}
  BY <1>1, <1>3
<1>7. Posts
  BY <1>3, <1>6 DEF Posts, Post, AtTable
<1>8. Family
  BY <1>5, <1>6 DEF Family, Mains
<1>9. Buffers
  BY <1>6 DEF Buffers, Buffer
<1>10. FilesKept
  <2> SUFFICES ASSUME NEW t \in opt.table, NEW k \in Parts(t) PROVE FileKept(t, k)
    BY DEF FilesKept
  <2>1. ASSUME NEW p \in Writers(t) PROVE Ahead(p, t)
    <3>1. p \in Proc /\ first \in Int /\ t \in Int
      BY <1>4, Numbers, PartFacts
    <3>2. first < t \/ first = t
      BY <1>3, <3>1
    <3>3. CASE Forked(p)
      <4>1. pc[0] = "main" /\ tbl[0] = first
        BY <1>5, <1>6, <3>3 DEF Forked, Mains
      <4> QED BY <3>2, <3>3, <4>1 DEF Ahead, ChildAhead, AtTable
    <3>4. CASE ~Forked(p)
      <4>1. p \in Mains
        BY <1>4, <1>5, <3>1, <3>4, CommandFacts DEF Writers, Forked, Mains
      <4>2. pc[p] = "main" /\ tbl[p] = first
        BY <1>6, <3>1, <4>1
      <4> QED BY <3>2, <3>4, <4>2 DEF Ahead, OwnAhead, AtTable, Started
    <3> QED BY <3>3, <3>4
  <2>2. \E p \in Writers(t) : PartOf(t, p) = k
    <3>1. CASE Parallel(t)
      BY <3>1 DEF Writers, PartOf, Parts
    <3>2. CASE ~Parallel(t)
      <4>1. \E p : p \in Mains
        <5>1. 1 \in Children
          BY <1>5 DEF Children
        <5> QED BY <5>1 DEF Mains
      <4> QED BY <3>2, <4>1 DEF Writers, PartOf, Parts
    <3> QED BY <3>1, <3>2
  <2> QED BY <2>1, <2>2 DEF FileKept
<1> QED BY <1>4, <1>7, <1>8, <1>9, <1>10 DEF FInv

\* Every step keeps what is in the files.
LEMMA NextFiles ==
  ASSUME FInv, ParentInv, [Next]_vars
  PROVE  FInv'
<1>1. ASSUME NEW p \in Proc, Load1(p) PROVE FInv'
  BY <1>1, SerialFiles, PartialFiles, GenRowFiles, EndTableFiles, DrainFiles, ExitFiles DEF Load1
<1>2. ASSUME NEW p \in Proc, Refuse(p) \/ Die(p) \/ Rerun(p) PROVE FInv'
  BY <1>2, RefuseFiles, DieFiles, RerunFiles
<1>3. CASE Parent \/ ForkFails
  BY <1>3, ParentFiles, ForkFiles, ReapFiles, EndLoadFiles DEF Parent
<1>4. CASE UNCHANGED vars
  <2>1. Kinds'
    BY <1>4 DEF FInv, Kinds, vars
  <2>2. ASSUME NEW q \in Proc PROVE Post(q)' /\ Buffer(q)'
    BY <1>4, PostSame, BufferSame DEF FInv, Posts, Buffers, vars
  <2>3. Family'
    BY <1>4 DEF FInv, Family, Children, vars
  <2>4. FilesKept'
    <3>1. ASSUME NEW v \in opt.table, NEW q \in Writers(v)
          PROVE  /\ Ahead(q, v) => Ahead(q, v)'
                 /\ Written(q, v) => Written(q, v)'
      <4>1. Ahead(q, v) => Ahead(q, v)'
        BY <1>4 DEF Ahead, ChildAhead, OwnAhead, AtTable, Started, Gone, Forked, vars
      <4>2. Written(q, v) => Written(q, v)'
        BY <1>4, WrittenStill DEF vars
      <4> QED BY <4>1, <4>2
    <3> QED BY <1>4, <3>1, AllKept DEF vars
  <2> QED BY <2>1, <2>2, <2>3, <2>4 DEF FInv, Posts, Buffers
<1> QED BY <1>1, <1>2, <1>3, <1>4 DEF Next, Halted

\* Whatever the tables, parts, crashes, refusals and reruns: when every process has exited by
\* itself, each file that was not given up has exactly its rows, in order.
THEOREM CompleteFiles == Spec => []CompleteOnExit
<1>1. FInv /\ ParentInv /\ [Next]_vars => FInv' /\ ParentInv'
  BY NextFiles, NextParent
<1> QED BY <1>1, InitFiles, InitParent, KeptComplete, PTL DEF Spec

-----------------------------------------------------------------------------
(***************************************************************************)
(* The run is the data set that DataSet promises.                          *)
(***************************************************************************)
\* Each row that this run has written is a row of its part.
RowOf(x, f) == x.i = 0 \/ (f[1] \in opt.table /\ f[2] \in Parts(f[1]) /\ Belongs(x, f[1], f[2]))
Rooted == \A f \in File : \A x \in disk[f] : RowOf(x, f)

LEMMA RootedStep ==
  ASSUME Rooted, opt' = opt, DOMAIN disk = File,
         NEW f \in File, NEW new, disk' = [disk EXCEPT ![f] = new],
         \A x \in new : RowOf(x, f)
  PROVE  Rooted'
<1>1. \A x, g : RowOf(x, g)' <=> RowOf(x, g)
  BY DEF RowOf, Belongs, PartCount, Offset, Count, Rows, PartRows, Parts, Parallel, Children
<1>2. \A g \in File : \A x \in disk'[g] : RowOf(x, g)
  BY DEF Rooted
<1> QED BY <1>1, <1>2 DEF Rooted

\* The file after the rows that were buffered and those in it.
LEMMA BufferedRows ==
  ASSUME FInv, NEW p \in Proc, NEW t \in opt.table, p \in Writers(t)
  PROVE  /\ FileOf(t, p) \in File /\ FileOf(t, p)[1] = t /\ FileOf(t, p)[2] = PartOf(t, p)
         /\ PartOf(t, p) \in Parts(t)
         /\ \A y \in Pending(p, t) : Belongs(y, t, PartOf(t, p)) /\ RowOf(y, FileOf(t, p))
<1>1. Kinds
  BY DEF FInv
<1>2. /\ FileOf(t, p) = <<t, PartOf(t, p)>> /\ FileOf(t, p) \in File /\ PartOf(t, p) \in Parts(t)
  BY <1>1, PartFacts
<1>3. \A y \in Pending(p, t) : Belongs(y, t, PartOf(t, p))
  BY DEF FInv, Buffers, Buffer, Pending
<1> QED BY <1>2, <1>3 DEF RowOf

\* What a step does to the files: nothing, or to one file of a table that one process is at.
Touched(t, f, new) ==
  /\ t \in opt.table /\ f \in File /\ f[1] = t
  /\ disk' = [disk EXCEPT ![f] = new]
  /\ \A x \in new : RowOf(x, f)
  /\ new = {} \/ \A x \in disk[f] : x.i # 0 => \E y \in new : y.i = x.i

\* Rows of one part that have the same place are the same row.
LEMMA SamePlace ==
  ASSUME NEW f, NEW x, NEW y, RowOf(x, f), x.i # 0, Belongs(y, f[1], f[2]), x.n = y.n
  PROVE  x.i = y.i
BY DEF RowOf, Belongs

LEMMA OverlayTouched ==
  ASSUME FInv, Rooted, NEW t \in opt.table, NEW f \in File, f[1] = t, NEW W,
         \A w \in W : RowOf(w, f) /\ Belongs(w, f[1], f[2]),
         disk' = [disk EXCEPT ![f] = Overlay(disk[f], W)]
  PROVE  Touched(t, f, Overlay(disk[f], W))
<1> DEFINE new == Overlay(disk[f], W)
<1>1. \A x \in new : x \in disk[f] \/ x \in W
  BY DEF Overlay
<1>2. \A x \in new : RowOf(x, f)
  BY <1>1 DEF Rooted
<1>3. ASSUME NEW x \in disk[f], x.i # 0 PROVE \E y \in new : y.i = x.i
  <2>1. CASE \A w \in W : w.n # x.n
    BY <1>3, <2>1 DEF Overlay
  <2>2. CASE \E w \in W : w.n = x.n
    <3>1. PICK w \in W : w.n = x.n
      BY <2>2
    <3>2. w.i = x.i
      BY <1>3, <3>1, SamePlace DEF Rooted
    <3> QED BY <3>2 DEF Overlay
  <2> QED BY <2>1, <2>2
<1> QED BY <1>2, <1>3 DEF Touched

\* A step leaves the files alone, or touches one of them while its process is at work.
AtWork == \E p \in Proc : ~Ended(p)
Quiet  == disk' = disk
Moving == Quiet \/ (/\ AtWork /\ AtWork'
                    /\ \E t \in opt.table : \E f \in File : \E new : Touched(t, f, new))

LEMMA NextMoving ==
  ASSUME FInv, Rooted, [Next]_vars
  PROVE  Moving
<1> USE DEF Ended
<1>1. Kinds /\ \A p \in Proc : Post(p)
  BY DEF FInv, Posts
<1>2. ASSUME NEW p \in Proc, GenRow(p) PROVE Moving
  <2>1. PICK t \in opt.table : t = tbl[p] /\ p \in Writers(t)
    BY <1>1, <1>2 DEF GenRow, Post, AtTable
  <2> DEFINE f == FileOf(t, p)
             r == [n |-> pos[p] + 1, i |-> row[p], at |-> [s \in Reads(t) |-> seed[p][s]]]
  <2>2. \/ /\ pos[p] > 0
           /\ disk' = [disk EXCEPT ![f] = Overlay(Opened(t, p), Pending(p, t) \cup {r})]
        \/ disk' = [disk EXCEPT ![f] = Opened(t, p)]
    BY <1>2, <2>1 DEF GenRow
  <2>3. AtWork /\ AtWork'
    BY <1>2 DEF GenRow, AtWork
  <2>4. /\ f \in File /\ f[1] = t /\ f[2] = PartOf(t, p) /\ PartOf(t, p) \in Parts(t)
        /\ \A y \in Pending(p, t) : Belongs(y, t, PartOf(t, p)) /\ RowOf(y, f)
    BY <2>1, BufferedRows
  <2>5. Belongs(r, t, PartOf(t, p)) /\ RowOf(r, f)
    <3>1. r.n = pos[p] + 1 /\ r.i = row[p]
      OBVIOUS
    <3>2. /\ row[p] = First(t, p) + pos[p] /\ left[p] + pos[p] = Count(t, p)
          /\ pos[p] \in Nat /\ left[p] \in Nat /\ left[p] > 0
      BY <1>1, <1>2, <2>1 DEF GenRow, Post, Kinds
    <3>3. /\ Count(t, p) \in Nat /\ First(t, p) = Offset(t, PartOf(t, p)) + 1
          /\ PartCount(t, PartOf(t, p)) = Count(t, p) /\ Offset(t, PartOf(t, p)) \in Int
      BY <1>1, <2>1, PartFacts
    <3> HIDE DEF r
    <3>4. Belongs(r, t, PartOf(t, p))
      BY <3>1, <3>2, <3>3 DEF Belongs
    <3> QED BY <2>1, <2>4, <3>4 DEF RowOf
  <2> HIDE DEF f, r
  <2>6. \E new : Touched(t, f, new)
    <3>1. CASE pos[p] = 0 /\ disk' = [disk EXCEPT ![f] = Opened(t, p)]
      BY <2>4, <3>1 DEF Opened, Touched
    <3>2. CASE pos[p] # 0 /\ disk' = [disk EXCEPT ![f] = Opened(t, p)]
      <4>1. Opened(t, p) = disk[f]
        BY <3>2 DEF Opened, f
      <4>2. Touched(t, f, disk[f])
        BY <2>4, <3>2, <4>1 DEF Touched, Rooted
      <4> QED BY <4>2
    <3>3. CASE /\ pos[p] > 0
               /\ disk' = [disk EXCEPT ![f] = Overlay(Opened(t, p), Pending(p, t) \cup {r})]
      <4>1. Opened(t, p) = disk[f]
        BY <1>1, <3>3 DEF Opened, f, Kinds
      <4>2. \A w \in Pending(p, t) \cup {r} : RowOf(w, f) /\ Belongs(w, f[1], f[2])
        BY <2>4, <2>5
      <4>3. Touched(t, f, Overlay(disk[f], Pending(p, t) \cup {r}))
        BY <2>4, <3>3, <4>1, <4>2, OverlayTouched
      <4> QED BY <4>3
    <3> QED BY <2>2, <3>1, <3>2, <3>3
  <2> QED BY <2>3, <2>4, <2>6 DEF Moving
<1>3. ASSUME NEW p \in Proc, Drain(p) PROVE Moving
  <2>1. PICK t \in Tables :
          /\ Pending(p, t) # {}
          /\ disk' = [disk EXCEPT ![FileOf(t, p)] = Overlay(disk[FileOf(t, p)], Pending(p, t))]
    BY <1>3 DEF Drain
  <2>2. t \in opt.table /\ p \in Writers(t)
    BY <2>1 DEF FInv, Buffers, Buffer, Pending
  <2>3. AtWork /\ AtWork'
    BY <1>3 DEF Drain, AtWork
  <2>4. /\ FileOf(t, p) \in File /\ FileOf(t, p)[1] = t
        /\ \A w \in Pending(p, t) :
             RowOf(w, FileOf(t, p)) /\ Belongs(w, FileOf(t, p)[1], FileOf(t, p)[2])
    BY <2>2, BufferedRows
  <2>5. Touched(t, FileOf(t, p), Overlay(disk[FileOf(t, p)], Pending(p, t)))
    BY <2>1, <2>2, <2>4, OverlayTouched
  <2> QED BY <2>2, <2>3, <2>4, <2>5 DEF Moving
<1>4. ASSUME NEW p \in Proc, Refuse(p) PROVE Moving
  <2>1. PICK t \in opt.table : t = tbl[p] /\ p \in Writers(t)
    BY <1>1, <1>4 DEF Refuse, Post, AtTable
  <2>2. disk' = disk \/ disk' = [disk EXCEPT ![FileOf(t, p)] = {}]
    BY <1>4, <2>1 DEF Refuse
  <2>3. AtWork /\ AtWork'
    BY <1>1, <1>4 DEF Refuse, AtWork, Kinds
  <2>4. FileOf(t, p) \in File /\ FileOf(t, p)[1] = t
    BY <2>1, BufferedRows
  <2>5. CASE disk' = [disk EXCEPT ![FileOf(t, p)] = {}]
    <3>1. Touched(t, FileOf(t, p), {})
      BY <2>1, <2>4, <2>5 DEF Touched
    <3> QED BY <2>3, <2>4, <3>1 DEF Moving
  <2> QED BY <2>2, <2>5 DEF Moving, Quiet
<1>5. ASSUME NEW p \in Proc, Serial(p) \/ Partial(p) \/ EndTable(p) \/ Exit(p) \/ Die(p) \/ Rerun(p)
      PROVE  disk' = disk
  BY <1>5 DEF Serial, Partial, Load, EndTable, Exit, Die, Rerun
<1>6. CASE Parent \/ ForkFails \/ UNCHANGED vars
  BY <1>6 DEF Parent, StartLoad, Fork, Reap, EndLoad, ForkFails, Moving, Quiet, vars
<1> QED BY <1>2, <1>3, <1>4, <1>5, <1>6 DEF Next, Load1, Halted, Moving, Quiet

LEMMA RootedInit == Init => Rooted
BY DEF Init, Rooted, RowOf, Stale

LEMMA RootedNext ==
  ASSUME FInv, Rooted, [Next]_vars
  PROVE  Rooted'
<1>1. opt' = opt
  BY DEF Next, Load1, Serial, Partial, Load, GenRow, EndTable, Drain, Exit, Refuse, Die, Rerun,
         Parent, StartLoad, Fork, Reap, EndLoad, ForkFails, Halted, vars
<1>2. CASE Quiet
  BY <1>1, <1>2 DEF Rooted, RowOf, Quiet, Belongs, PartCount, Offset, Count, Rows, PartRows, Parts,
                    Parallel, Children
<1>3. CASE \E t \in opt.table : \E f \in File : \E new : Touched(t, f, new)
  <2>1. DOMAIN disk = File
    BY DEF FInv, Kinds
  <2> QED BY <1>1, <1>3, <2>1, RootedStep DEF Touched
<1> QED BY <1>2, <1>3, NextMoving DEF Moving

-----------------------------------------------------------------------------
\* The copies of a row: one if a file has it, since the parts do not overlap.
Has(t, i) == \E k \in Proc : \E x \in disk[<<t, k>>] : x.i = i

LEMMA Grows ==
  ASSUME NEW size \in Nat, NEW a \in Nat, NEW b \in Nat, a <= b
  PROVE  size * a \in Nat /\ size * a <= size * b
<1>1. PICK d \in Nat : b = a + d
  <2>1. b - a \in Nat /\ b = a + (b - a)
    OBVIOUS
  <2> QED BY <2>1
<1>2. size * b = size * a + size * d /\ size * a \in Nat /\ size * d \in Nat
  BY <1>1
<1> DEFINE x == size * a
           y == size * d
<1>3. x \in Nat /\ y \in Nat => x <= x + y
  OBVIOUS
<1> QED BY <1>2, <1>3

\* The rows of an earlier part come before those of a later one.
LEMMA PartsOrdered ==
  ASSUME Kinds, NEW t \in opt.table, NEW j \in Parts(t), NEW k \in Parts(t), j < k,
         NEW x, NEW y, Belongs(x, t, j), Belongs(y, t, k)
  PROVE  x.i < y.i
<1>1. Parallel(t) /\ j \in Children /\ k \in Children /\ opt.children \in Nat
  BY Numbers DEF Parts
<1>2. t \in Tables /\ Base[t] \in Nat /\ opt.scale \in Nat /\ opt.children \in Nat \ {0}
  BY Numbers, DbgenAssumption
<1> DEFINE size == PartRows(t)
<1>3. size \in Nat
  BY <1>2, PartNat DEF PartRows
<1>4. j \in Nat /\ k \in Nat /\ j >= 1 /\ k <= opt.children
  BY <1>1 DEF Children
<1>5. PartCount(t, j) = size
  BY <1>1, <1>3, <1>4 DEF PartCount, Count
<1>6. x.i = size * (j - 1) + x.n /\ y.i = size * (k - 1) + y.n /\ x.n \in 1..size
      /\ y.n \in 1..PartCount(t, k)
  BY <1>1, <1>5 DEF Belongs, Offset
<1> HIDE DEF size
<1>7. size * (k - 1) >= size * j
  <2>1. k - 1 \in Nat /\ j <= k - 1
    BY <1>4
  <2>2. size * j <= size * (k - 1)
    BY <1>3, <1>4, <2>1, Grows
  <2>3. size * j \in Int /\ size * (k - 1) \in Int
    BY <1>3, <1>4
  <2> QED BY <2>2, <2>3
<1>8. size * j = size * (j - 1) + size /\ size * (j - 1) \in Int /\ size * j \in Int
      /\ size * (k - 1) \in Int
  BY <1>3, <1>4
<1>9. y.n \in Int /\ y.n >= 1
  BY <1>6
<1> QED BY <1>3, <1>6, <1>7, <1>8, <1>9

\* Whatever the columns, the copies are those of a serial run's rows.
CopyFact ==
  \A t \in Tables : \A i \in 1..Wanted(t) : Copies(t, i) = IF Has(t, i) THEN 1 ELSE 0

LEMMA CopiesAre == IInv /\ FInv /\ Rooted => CopyFact
<1> SUFFICES ASSUME IInv, FInv, Rooted, NEW t \in Tables, NEW i \in 1..Wanted(t)
             PROVE  Copies(t, i) = IF Has(t, i) THEN 1 ELSE 0
  BY DEF CopyFact
<1>1. Kinds /\ opt.table \subseteq Tables /\ Children \subseteq Proc /\ 0 \in Proc
      /\ \A p \in Proc : p \in Int
  BY Numbers DEF FInv
<1>2. i \in Int /\ i # 0
  OBVIOUS
<1>3. \A k \in Proc : \A x \in disk[<<t, k>>] : SerialSeeds(x)
  <2>1. \A k \in Proc : <<t, k>> \in File
    BY DEF File
  <2> QED BY <2>1, ExactRows DEF RowsAsSerial
<1> DEFINE places == UNION {{<<k, x.n>> : x \in {y \in disk[<<t, k>>] : y.i = i /\ SerialSeeds(y)}}
                            : k \in Proc}
<1>4. CASE ~Has(t, i)
  <2>1. places = {}
    BY <1>4 DEF Has
  <2> QED BY <1>4, <2>1, FS_EmptySet DEF Copies
<1>5. CASE Has(t, i)
  <2>0. PICK k \in Proc : \E x \in disk[<<t, k>>] : x.i = i
    BY <1>5 DEF Has
  <2>1. PICK x \in disk[<<t, k>>] : x.i = i
    BY <2>0
  <2>2. ASSUME NEW j \in Proc, NEW y \in disk[<<t, j>>], y.i = i
        PROVE  t \in opt.table /\ j \in Parts(t) /\ Belongs(y, t, j)
    <3>1. <<t, j>> \in File
      BY DEF File
    <3>2. RowOf(y, <<t, j>>)
      BY <3>1 DEF Rooted
    <3> QED BY <1>2, <2>2, <3>2 DEF RowOf
  <2>3. ASSUME NEW j \in Proc, NEW y \in disk[<<t, j>>], y.i = i
        PROVE  j = k /\ y.n = x.n
    <3>1. /\ t \in opt.table /\ j \in Parts(t) /\ k \in Parts(t)
          /\ Belongs(y, t, j) /\ Belongs(x, t, k)
      BY <2>1, <2>2, <2>3
    <3>2. ~(j < k) /\ ~(k < j)
      BY <1>1, <1>2, <2>1, <2>3, <3>1, PartsOrdered
    <3>3. j = k
      BY <1>1, <3>2
    <3>4. y.n = x.n
      <4>1. x.n \in Int /\ y.n \in Int /\ i = Offset(t, k) + x.n /\ i = Offset(t, k) + y.n
        BY <2>1, <2>3, <3>1, <3>3 DEF Belongs
      <4>2. Offset(t, k) \in Int
        <5>1. PartRows(t) \in Int /\ k \in Int
          <6>1. Base[t] \in Nat /\ opt.scale \in Nat /\ opt.children \in Nat \ {0}
            BY <1>1, Numbers, DbgenAssumption
          <6>2. PartRows(t) \in Nat
            BY <6>1, PartNat DEF PartRows
          <6> QED BY <1>1, <6>2
        <5>2. PartRows(t) * (k - 1) \in Int
          BY <5>1
        <5> QED BY <5>2 DEF Offset
      <4> QED BY <4>1, <4>2
    <3> QED BY <3>3, <3>4
  <2>4. places = {<<k, x.n>>}
    <3>1. <<k, x.n>> \in places
      <4>1. <<k, x.n>> \in {<<k, z.n>> : z \in {y \in disk[<<t, k>>] : y.i = i /\ SerialSeeds(y)}}
        BY <1>3, <2>1
      <4> QED BY <4>1
    <3>2. ASSUME NEW e \in places PROVE e = <<k, x.n>>
      <4>1. PICK j \in Proc :
              e \in {<<j, z.n>> : z \in {y \in disk[<<t, j>>] : y.i = i /\ SerialSeeds(y)}}
        BY <3>2
      <4>2. PICK y \in disk[<<t, j>>] : y.i = i /\ e = <<j, y.n>>
        BY <4>1
      <4> QED BY <2>3, <4>2
    <3> QED BY <3>1, <3>2
  <2> QED BY <1>5, <2>4, FS_Singleton DEF Copies
<1> QED BY <1>4, <1>5

-----------------------------------------------------------------------------
\* Each row of a table is in one of its parts.
LEMMA InAPart ==
  ASSUME Kinds, NEW t \in opt.table, NEW i \in 1..Rows(t)
  PROVE  \E k \in Parts(t) : /\ Offset(t, k) \in Int
                             /\ i - Offset(t, k) \in 1..PartCount(t, k)
<1>1. t \in Tables /\ opt.children \in Nat \ {0} /\ Base[t] \in Nat /\ opt.scale \in Nat
  BY Numbers, DbgenAssumption
<1>2. i \in Nat /\ i >= 1 /\ i <= Rows(t) /\ Rows(t) \in Nat
  BY <1>1 DEF Rows
<1>3. CASE ~Parallel(t)
  <2>1. 0 \in Parts(t) /\ Offset(t, 0) = 0 /\ PartCount(t, 0) = Rows(t)
    BY <1>3 DEF Parts, Offset, PartCount
  <2> QED BY <1>2, <2>1
<1>4. CASE Parallel(t)
  <2> DEFINE size == PartRows(t)
             last == opt.children
  <2>1. size \in Nat /\ last \in Nat \ {0}
    BY <1>1, PartNat DEF PartRows
  <2>2. \A j : Offset(t, j) = size * (j - 1)
    BY <1>4 DEF Offset
  <2>3. Parts(t) = 1..last
    BY <1>4 DEF Parts, Children
  <2> HIDE DEF size, last
  <2>4. last - 1 \in Nat /\ size * (last - 1) \in Nat
    BY <2>1
  <2>5. CASE i > size * (last - 1)
    <3>1. last \in Parts(t) /\ Offset(t, last) = size * (last - 1)
      BY <2>1, <2>2, <2>3
    <3>2. PartCount(t, last) = Rows(t) - Offset(t, last)
      BY <3>1, PartEnds DEF last
    <3> QED BY <1>2, <2>4, <2>5, <3>1, <3>2
  <2>6. CASE i <= size * (last - 1)
    <3>1. PICK m \in Nat : m = i - 1
      BY <1>2
    <3>2. size # 0
      BY <1>2, <2>1, <2>4, <2>6
    <3>3. PICK q \in Nat, r \in Nat : m = size * q + r /\ r < size
      <4>1. m \div size \in Nat /\ m % size \in Nat /\ m % size < size
            /\ m = size * (m \div size) + (m % size)
        BY <2>1, <3>1, <3>2
      <4> QED BY <4>1
    <3>4. q < last - 1
      <4>1. SUFFICES ASSUME last - 1 <= q PROVE FALSE
        BY <2>4
      <4>2. size * (last - 1) <= size * q /\ size * q \in Nat
        <5>1. size * (last - 1) <= size * q
          BY <2>1, <2>4, <4>1, Grows
        <5> QED BY <2>1, <5>1
      <4> QED BY <2>4, <2>6, <3>1, <3>3, <4>2
    <3>5. PICK k \in Nat : k = q + 1
      OBVIOUS
    <3>6. k \in Parts(t) /\ k # last /\ k - 1 = q
      BY <2>1, <2>3, <3>4, <3>5
    <3>7. Offset(t, k) = size * q /\ size * q \in Nat
      <4>1. Offset(t, k) = size * (k - 1)
        BY <2>2
      <4> QED BY <2>1, <3>6, <4>1
    <3>8. PartCount(t, k) = size
      BY <1>4, <2>1, <3>6 DEF PartCount, Count, size, last
    <3>9. i - Offset(t, k) = r + 1
      <4>1. i = m + 1
        BY <1>2, <3>1
      <4> QED BY <3>3, <3>7, <4>1
    <3> QED BY <2>1, <3>3, <3>6, <3>7, <3>8, <3>9
  <2> QED BY <1>2, <2>4, <2>5, <2>6
<1> QED BY <1>3, <1>4

\* When all has ended well, no row is missing.
EndedWell   == lost = {} /\ \A p \in Mains : pc[p] = "done"
NoneMissing == \A t \in Tables : \A i \in 1..Wanted(t) : Has(t, i)

LEMMA AllThere == FInv /\ EndedWell => NoneMissing
<1> SUFFICES ASSUME FInv, EndedWell, NEW t \in Tables, NEW i \in 1..Wanted(t)
             PROVE  Has(t, i)
  BY DEF NoneMissing
<1>1. Kinds /\ t \in opt.table /\ i \in 1..Rows(t)
  BY DEF Wanted, FInv
<1>2. PICK k \in Parts(t) : /\ Offset(t, k) \in Int
                            /\ i - Offset(t, k) \in 1..PartCount(t, k)
  BY <1>1, InAPart
<1>3. k \in Proc
  BY <1>1, Numbers DEF Parts
<1>4. Whole(t, k)
  <2>1. Count(t, k) # 0
    <3>1. PartCount(t, k) # 0
      BY <1>2
    <3> QED BY <3>1 DEF PartCount, Count
  <2> QED BY <1>1, <2>1, KeptComplete DEF CompleteOnExit, EndedWell
<1>5. {x.n : x \in disk[<<t, k>>]} = 1..PartCount(t, k)
  BY <1>1, <1>4, PartEnds DEF Whole
<1>6. PICK x \in disk[<<t, k>>] : x.n = i - Offset(t, k)
  BY <1>2, <1>5
<1>7. x.i = i
  <2>1. x.i = Offset(t, k) + x.n
    BY <1>4 DEF Whole
  <2>2. i \in Int
    BY <1>1
  <2> QED BY <1>2, <1>6, <2>1, <2>2
<1> QED BY <1>3, <1>6, <1>7 DEF Has

-----------------------------------------------------------------------------
(***************************************************************************)
(* The steps of the data set.                                              *)
(***************************************************************************)
\* The rows wanted and their copies depend on the command line and the files only.
LEMMA SameWanted ==
  ASSUME opt' = opt
  PROVE  \A t : Wanted(t)' = Wanted(t)
BY DEF Wanted, Rows

LEMMA SameHas ==
  ASSUME NEW t, (\A k \in Proc : disk'[<<t, k>>] = disk[<<t, k>>])
  PROVE  \A i : Has(t, i)' <=> Has(t, i)
BY DEF Has

LEMMA WantedNat == Kinds => \A t \in Tables : Wanted(t) \in Nat
<1>1. Kinds => opt.scale \in Nat
  BY CommandFacts DEF Kinds
<1> QED BY <1>1, DbgenAssumption DEF Wanted, Rows

DSInv == IInv /\ FInv /\ Rooted

\* The files are left alone: the data set is, too.
LEMMA QuietCopies ==
  ASSUME DSInv, DSInv', Quiet, opt' = opt
  PROVE  /\ [t \in Tables |-> Wanted(t)]' = [t \in Tables |-> Wanted(t)]
         /\ [t \in Tables |-> [i \in 1..Wanted(t) |-> Copies(t, i)]]'
              = [t \in Tables |-> [i \in 1..Wanted(t) |-> Copies(t, i)]]
<1>1. \A t : Wanted(t)' = Wanted(t)
  BY SameWanted
<1>2. ASSUME NEW t, NEW i PROVE Copies(t, i)' = Copies(t, i)
  BY DEF Copies, Quiet
<1> QED BY <1>1, <1>2

\* One file of one table is touched: rows of that table appear, or the file is opened again.
LEMMA TouchedCopies ==
  ASSUME Kinds, CopyFact, CopyFact', opt' = opt, NEW t \in opt.table, NEW f \in File, NEW new,
         Touched(t, f, new), AtWork, AtWork'
  PROVE  DS!Work
<1>1. t \in Tables
  BY Numbers
<1>2. \A u : Wanted(u)' = Wanted(u)
  BY SameWanted
<1>3. Status = "generating" /\ Status' = "generating"
  BY DEF Status, AtWork
<1>4. PICK k \in Proc : f = <<t, k>>
  BY <1>1 DEF Touched, File
<1>5. disk' = [disk EXCEPT ![f] = new] /\ DOMAIN disk = File
  BY DEF Touched, Kinds
<1>6. ASSUME NEW u \in Tables, u # t, NEW i \in 1..Wanted(u)
      PROVE  Copies(u, i)' = Copies(u, i)
  <2>1. \A j \in Proc : disk'[<<u, j>>] = disk[<<u, j>>]
    BY <1>4, <1>5, <1>6
  <2>2. Has(u, i)' <=> Has(u, i)
    BY <2>1 DEF Has
  <2>3. i \in 1..Wanted(u)'
    BY <1>2
  <2> QED BY <2>2, <2>3 DEF CopyFact
<1>7. /\ \A i \in 1..Wanted(t) : Copies(t, i) = IF Has(t, i) THEN 1 ELSE 0
      /\ \A i \in 1..Wanted(t) : Copies(t, i)' = IF Has(t, i)' THEN 1 ELSE 0
  BY <1>1, <1>2 DEF CopyFact
<1>8. \/ \A i \in 1..Wanted(t) : Copies(t, i)' <= Copies(t, i)
      \/ \A i \in 1..Wanted(t) : Copies(t, i) <= Copies(t, i)'
  <2>1. CASE new = {}
    <3>1. ASSUME NEW i \in 1..Wanted(t), Has(t, i)' PROVE Has(t, i)
      <4>1. PICK j \in Proc : \E x \in disk'[<<t, j>>] : x.i = i
        BY <3>1 DEF Has
      <4>2. disk'[<<t, j>>] \subseteq disk[<<t, j>>]
        <5>1. <<t, j>> \in File
          BY <1>1 DEF File
        <5> QED BY <1>5, <2>1, <5>1
      <4> QED BY <4>1, <4>2 DEF Has
    <3> QED BY <1>7, <3>1
  <2>2. CASE \A x \in disk[f] : x.i # 0 => \E y \in new : y.i = x.i
    <3>1. ASSUME NEW i \in 1..Wanted(t), Has(t, i) PROVE Has(t, i)'
      <4>1. PICK j \in Proc : \E x \in disk[<<t, j>>] : x.i = i
        BY <3>1 DEF Has
      <4>2. <<t, j>> \in File /\ i # 0
        BY <1>1 DEF File
      <4>3. CASE <<t, j>> = f
        <5>1. \E y \in disk'[<<t, j>>] : y.i = i
          BY <1>5, <2>2, <4>1, <4>2, <4>3
        <5> QED BY <5>1 DEF Has
      <4>4. CASE <<t, j>> # f
        <5>1. disk'[<<t, j>>] = disk[<<t, j>>]
          BY <1>5, <4>2, <4>4
        <5> QED BY <4>1, <5>1 DEF Has
      <4> QED BY <4>3, <4>4
    <3> QED BY <1>7, <3>1
  <2> QED BY <2>1, <2>2 DEF Touched
<1>9. \A i \in 1..Wanted(t) : Copies(t, i) \in {0, 1} /\ Copies(t, i)' \in {0, 1}
  BY <1>7
<1>10. [u \in Tables |-> Wanted(u)]' = [u \in Tables |-> Wanted(u)]
  BY <1>2
<1>11. DS!Produce(t) \/ DS!Reopen(t)
  BY <1>1, <1>2, <1>8, <1>9 DEF DS!Produce, DS!Reopen
<1>12. [u \in Tables |-> [i \in 1..Wanted(u) |-> Copies(u, i)]]'
         = [[u \in Tables |-> [i \in 1..Wanted(u) |-> Copies(u, i)]]
              EXCEPT ![t] = ([u \in Tables |-> [i \in 1..Wanted(u) |-> Copies(u, i)]][t])']
  BY <1>1, <1>2, <1>6
<1> QED BY <1>1, <1>3, <1>10, <1>11, <1>12 DEF DS!Work

\* The other steps: the files stay as they are.
LEMMA StatusStays ==
  ASSUME Kinds, NEW p \in Proc, Serial(p) \/ Partial(p) \/ EndTable(p)
  PROVE  AtWork /\ AtWork'
BY DEF Serial, Partial, Load, EndTable, NextTable, AtWork, Ended, Kinds

LEMMA ParentStays ==
  ASSUME Kinds, Parent
  PROVE  AtWork /\ AtWork'
<1>1. 0 \in Proc /\ pc[0] \in {"main", "fork", "wait"}
  BY Numbers DEF Parent, StartLoad, Fork, Reap, EndLoad
<1>2. pc'[0] \in {"fork", "wait", "main", "exiting"}
  <2>1. CASE StartLoad
    BY <1>1, <2>1 DEF StartLoad, Kinds
  <2>2. CASE Fork
    <3>1. c + 1 # 0
      BY DEF Kinds
    <3> QED BY <1>1, <2>2, <3>1 DEF Fork, Kinds
  <2>3. CASE Reap
    <3>1. 0 \notin Children
      BY Numbers
    <3> QED BY <1>1, <2>3, <3>1 DEF Reap, Kinds
  <2>4. CASE EndLoad
    BY <1>1, <2>4 DEF EndLoad, NextTable, Kinds
  <2> QED BY <2>1, <2>2, <2>3, <2>4 DEF Parent
<1> QED BY <1>1, <1>2 DEF AtWork, Ended

\* A process ends: the run goes on, or is complete, or is not.
LEMMA EndStep ==
  ASSUME Kinds, CopyFact, EndedWell' => NoneMissing', disk' = disk, opt' = opt, AtWork
  PROVE  UNCHANGED DS!vars \/ DS!Finish \/ DS!Fail
<1>1. \A t : Wanted(t)' = Wanted(t)
  BY SameWanted
<1>2. [t \in Tables |-> Wanted(t)]' = [t \in Tables |-> Wanted(t)]
  BY <1>1
<1>3. [t \in Tables |-> [i \in 1..Wanted(t) |-> Copies(t, i)]]'
        = [t \in Tables |-> [i \in 1..Wanted(t) |-> Copies(t, i)]]
  BY <1>1 DEF Copies
<1>4. Status = "generating"
  BY DEF Status, AtWork
<1>5. CASE AtWork'
  <2>1. Status' = Status
    BY <1>4, <1>5 DEF Status, AtWork
  <2> QED BY <1>2, <1>3, <2>1 DEF DS!vars
<1>6. CASE ~AtWork' /\ EndedWell'
  <2>1. Status' = "complete"
    BY <1>6 DEF Status, AtWork, EndedWell
  <2>2. \A t \in Tables : \A i \in 1..Wanted(t) : Has(t, i)
    <3>1. \A t, i : Has(t, i)' <=> Has(t, i)
      BY DEF Has
    <3> QED BY <1>1, <1>6, <3>1 DEF NoneMissing
  <2>3. \A t \in Tables : \A i \in 1..Wanted(t) : Copies(t, i) = 1
    BY <2>2 DEF CopyFact
  <2>4. [t \in Tables |-> [i \in 1..Wanted(t) |-> Copies(t, i)]]
          = [t \in Tables |-> [i \in 1..[u \in Tables |-> Wanted(u)][t] |-> 1]]
    BY <2>3
  <2>5. DS!Finish
    BY <1>2, <1>3, <1>4, <2>1, <2>4 DEF DS!Finish
  <2> QED BY <2>5
<1>7. CASE ~AtWork' /\ ~EndedWell'
  <2>1. Status' = "incomplete"
    BY <1>7 DEF Status, AtWork, EndedWell
  <2>2. DS!Fail
    BY <1>2, <1>3, <1>4, <2>1 DEF DS!Fail
  <2> QED BY <2>2
<1> QED BY <1>5, <1>6, <1>7

\* A process that died is started again.
LEMMA RerunStep ==
  ASSUME Kinds, NEW p \in Proc, Rerun(p)
  PROVE  UNCHANGED DS!vars \/ DS!Resume
<1>1. \A t : Wanted(t)' = Wanted(t)
  BY SameWanted DEF Rerun
<1>2. [t \in Tables |-> Wanted(t)]' = [t \in Tables |-> Wanted(t)]
  BY <1>1
<1>3. [t \in Tables |-> [i \in 1..Wanted(t) |-> Copies(t, i)]]'
        = [t \in Tables |-> [i \in 1..Wanted(t) |-> Copies(t, i)]]
  BY <1>1 DEF Copies, Rerun
<1>4. AtWork' /\ Status' = "generating"
  BY DEF Status, AtWork, Ended, Rerun, Kinds
<1>5. CASE AtWork
  <2>1. Status = "generating"
    BY <1>5 DEF Status, AtWork
  <2> QED BY <1>2, <1>3, <1>4, <2>1 DEF DS!vars
<1>6. CASE ~AtWork
  <2>1. Status = "incomplete"
    BY <1>6 DEF Status, AtWork, Rerun
  <2>2. DS!Resume
    BY <1>2, <1>3, <1>4, <2>1 DEF DS!Resume
  <2> QED BY <2>2
<1> QED BY <1>5, <1>6

\* Steps that leave the files and the status alone.
LEMMA StutterStep ==
  ASSUME opt' = opt, disk' = disk, Status' = Status
  PROVE  UNCHANGED DS!vars
<1>1. \A t : Wanted(t)' = Wanted(t)
  BY SameWanted
<1>2. [t \in Tables |-> Wanted(t)]' = [t \in Tables |-> Wanted(t)]
  BY <1>1
<1>3. [t \in Tables |-> [i \in 1..Wanted(t) |-> Copies(t, i)]]'
        = [t \in Tables |-> [i \in 1..Wanted(t) |-> Copies(t, i)]]
  BY <1>1 DEF Copies
<1> QED BY <1>2, <1>3 DEF DS!vars

LEMMA DataSetInit ==
  ASSUME Init, FInv, CopyFact
  PROVE  DS!Init
<1>1. \A t \in Tables : Wanted(t) \in Nat
  <2>1. opt.scale \in Nat
    BY CommandFacts DEF Init
  <2> QED BY <2>1, DbgenAssumption DEF Wanted, Rows
<1>2. \A t \in Tables : \A i \in 1..Wanted(t) : Copies(t, i) = 0
  <2>1. ASSUME NEW t \in Tables, NEW i \in 1..Wanted(t) PROVE ~Has(t, i)
    <3>1. \A k \in Proc : \A x \in disk[<<t, k>>] : x.i = 0
      BY DEF Init, File, Stale
    <3>2. i # 0
      OBVIOUS
    <3> QED BY <3>1, <3>2 DEF Has
  <2> QED BY <2>1 DEF CopyFact
<1>3. Status = "generating"
  <2>1. PICK p \in Mains : TRUE
    <3>1. 1 \in Children
      BY Numbers DEF FInv, Children
    <3> QED BY <3>1 DEF Mains
  <2>2. p \in Proc
    BY Numbers DEF FInv
  <2>3. ~Ended(p)
    BY <2>1, <2>2 DEF Init, Ended
  <2> QED BY <2>2, <2>3 DEF Status
<1>4. [t \in Tables |-> [i \in 1..Wanted(t) |-> Copies(t, i)]]
        = [t \in Tables |-> [i \in 1..[u \in Tables |-> Wanted(u)][t] |-> 0]]
  BY <1>2
<1>5. [t \in Tables |-> Wanted(t)] \in [Tables -> Nat]
  BY <1>1
<1> QED BY <1>3, <1>4, <1>5 DEF DS!Init

LEMMA DataSetNext ==
  ASSUME FInv, Rooted, CopyFact, CopyFact', EndedWell' => NoneMissing', [Next]_vars
  PROVE  [DS!Next]_DS!vars
<1>1. Kinds
  BY DEF FInv
<1>2. opt' = opt
  BY DEF Next, Load1, Serial, Partial, Load, GenRow, EndTable, Drain, Exit, Refuse, Die, Rerun,
         Parent, StartLoad, Fork, Reap, EndLoad, ForkFails, Halted, vars
<1>3. CASE \E t \in opt.table : \E f \in File : \E new : Touched(t, f, new) /\ AtWork /\ AtWork'
  <2>1. DS!Work
    BY <1>1, <1>2, <1>3, TouchedCopies
  <2> QED BY <2>1 DEF DS!Next
<1>4. ASSUME disk' = disk, NEW p \in Proc,
             Serial(p) \/ Partial(p) \/ EndTable(p) \/ GenRow(p) \/ Drain(p) \/ Refuse(p)
      PROVE  [DS!Next]_DS!vars
  <2>1. AtWork /\ AtWork'
    <3>1. CASE Serial(p) \/ Partial(p) \/ EndTable(p)
      BY <1>1, <3>1, StatusStays
    <3>2. CASE GenRow(p) \/ Drain(p) \/ Refuse(p)
      BY <1>1, <3>2 DEF GenRow, Drain, Refuse, AtWork, Ended, Kinds
    <3> QED BY <1>4, <3>1, <3>2
  <2>2. Status' = Status
    BY <2>1 DEF Status, AtWork
  <2> QED BY <1>2, <1>4, <2>2, StutterStep
<1>5. ASSUME NEW p \in Proc, Exit(p) \/ Die(p)
      PROVE  [DS!Next]_DS!vars
  <2>1. AtWork /\ disk' = disk
    BY <1>5 DEF Exit, Die, AtWork, Ended
  <2> QED BY <1>1, <1>2, <2>1, EndStep DEF DS!Next
<1>6. CASE ForkFails
  <2>1. AtWork /\ disk' = disk
    BY <1>1, <1>6, Numbers DEF ForkFails, AtWork, Ended
  <2> QED BY <1>1, <1>2, <2>1, EndStep DEF DS!Next
<1>7. ASSUME NEW p \in Proc, Rerun(p) PROVE [DS!Next]_DS!vars
  BY <1>1, <1>7, RerunStep DEF DS!Next
<1>8. CASE Parent
  <2>1. AtWork /\ AtWork' /\ disk' = disk
    BY <1>1, <1>8, ParentStays DEF Parent, StartLoad, Fork, Reap, EndLoad
  <2>2. Status' = Status
    BY <2>1 DEF Status, AtWork
  <2> QED BY <1>2, <2>1, <2>2, StutterStep
<1>9. CASE UNCHANGED vars
  <2>1. disk' = disk /\ Status' = Status
    BY <1>9 DEF vars, Status, Ended, Mains, Children
  <2> QED BY <1>2, <2>1, StutterStep
<1>10. disk' = disk \/ \E t \in opt.table : \E f \in File : \E new :
                         Touched(t, f, new) /\ AtWork /\ AtWork'
  BY NextMoving DEF Moving, Quiet
<1> QED BY <1>3, <1>4, <1>5, <1>6, <1>7, <1>8, <1>9, <1>10 DEF Next, Load1, Halted

\* The run, with its processes, buffers, crashes and reruns, implements DataSet: no row of the
\* data set is ever in the files twice or at a wrong place, and when the program reports success
\* each is there.  It rests on NoWrap because a jump that wraps makes rows of another data set.
THEOREM Implements == ASSUME NoWrap PROVE Spec => IsDataSet
<1>1. IInv /\ [Next]_vars => IInv'
  BY NextInv
<1>2. FInv /\ ParentInv /\ [Next]_vars => FInv' /\ ParentInv'
  BY NextFiles, NextParent
<1>3. FInv /\ Rooted /\ [Next]_vars => Rooted'
  BY RootedNext
<1>4. FInv /\ Rooted /\ CopyFact /\ CopyFact' /\ (EndedWell' => NoneMissing') /\ [Next]_vars
        => [DS!Next]_DS!vars
  BY DataSetNext
<1>5. Init /\ FInv /\ CopyFact => DS!Init
  BY DataSetInit
<1> QED BY <1>1, <1>2, <1>3, <1>4, <1>5, InitInv, InitFiles, InitParent, RootedInit, CopiesAre,
           AllThere, PTL DEF Spec, IsDataSet, DS!Spec
=============================================================================
