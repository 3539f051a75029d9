---------------------------- MODULE Tools_proofs ----------------------------
(***************************************************************************)
(* The steps of the newer dbgen draw every row where one command for the   *)
(* whole table draws it, and the rows of update sets go on after it; and   *)
(* they make every row, and none twice: for every scale, number of rows,   *)
(* of steps and of sets.                                                   *)
(***************************************************************************)
EXTENDS Tools, TLAPS

PartStreams  == Part1 \cup {"P_CMNT", "P_NAME"}
PsuppStreams == PartSupp4 \cup {"PS_CMNT"}
OrderStreams == Order1 \cup {"O_CMNT"}
LineStreams  == Lines7 \cup {"L_CMNT"}
CustStreams  == Cust1 \cup {"C_ADDR", "C_PHNE", "C_CMNT"}
SuppStreams  == Supp1 \cup {"S_ADDR", "S_PHNE", "S_CMNT"}

LEMMA StreamsOfTables ==
  ASSUME NEW s \in Stream2
  PROVE  /\ TableOfStream(s) = "PART"   <=> s \in PartStreams
         /\ TableOfStream(s) = "PSUPP"  <=> s \in PsuppStreams
         /\ TableOfStream(s) = "ORDER"  <=> s \in OrderStreams
         /\ TableOfStream(s) = "LINE"   <=> s \in LineStreams
         /\ TableOfStream(s) = "CUST"   <=> s \in CustStreams
         /\ TableOfStream(s) = "SUPP"   <=> s \in SuppStreams
         /\ TableOfStream(s) = "NATION" <=> s = "N_CMNT"
         /\ TableOfStream(s) = "REGION" <=> s = "R_CMNT"
<1> USE DEF TableOfStream, PartStreams, PsuppStreams, OrderStreams, LineStreams, CustStreams,
            SuppStreams, Part1, PartSupp4, Order1, Lines7, Cust1, Supp1
<1>1. CASE s \in PartStreams
  BY <1>1
<1>2. CASE s \in PsuppStreams
  BY <1>2
<1>3. CASE s \in OrderStreams
  BY <1>3
<1>4. CASE s \in LineStreams
  BY <1>4
<1>5. CASE s \in CustStreams
  BY <1>5
<1>6. CASE s \in SuppStreams
  BY <1>6
<1>7. CASE s \in {"N_CMNT", "R_CMNT"}
  BY <1>7
<1> QED
  BY <1>1, <1>2, <1>3, <1>4, <1>5, <1>6, <1>7 DEF Stream2

LEMMA DependsOf ==
  ASSUME NEW t \in Table, NEW s \in Depends(t)
  PROVE  /\ s \in Stream2
         /\ t = "PART"       => s \in PartStreams
         /\ t = "PSUPP"      => s \in PsuppStreams
         /\ t = "PART_PSUPP" => s \in PartStreams \cup PsuppStreams
         /\ t \in {"ORDER", "ORDER_LINE"} => s \in OrderStreams \cup LineStreams
         /\ t = "LINE"   => s \in LineStreams \cup {"O_ODATE", "O_LCNT"}
         /\ t = "CUST"   => s \in CustStreams
         /\ t = "SUPP"   => s \in SuppStreams
         /\ t = "NATION" => s = "N_CMNT"
         /\ t = "REGION" => s = "R_CMNT"
<1>1. s \in Stream2
  BY DEF Depends, Stream2, Order1
<1> QED
  BY <1>1, StreamsOfTables DEF Depends

-----------------------------------------------------------------------------
\* Skipping a row moves each stream that the rows depend on by its boundary.
LEMMA PartSkips ==
  /\ \A s \in PartStreams : sd_part(s) = Boundary2(s) /\ sd_psupp(s) = 0
  /\ \A s \in PsuppStreams : sd_part(s) = 0 /\ sd_psupp(s) = Boundary2(s)
BY DEF PartStreams, PsuppStreams, Part1, PartSupp4, Lines7, sd_part, sd_psupp, Boundary2

LEMMA OrderSkips ==
  /\ \A s \in OrderStreams : sd_order(s) = Boundary2(s) /\ sd_line(s, 0) = 0
  /\ \A s \in LineStreams : sd_order(s) = 0 /\ sd_line(s, 0) = Boundary2(s)
  /\ \A s \in LineStreams \cup {"O_ODATE", "O_LCNT"} : sd_line(s, 1) = Boundary2(s)
BY DEF OrderStreams, LineStreams, Order1, Lines7, PartSupp4, sd_order, sd_line, Boundary2

LEMMA OtherSkips ==
  /\ \A s \in CustStreams : sd_cust(s) = Boundary2(s)
  /\ \A s \in SuppStreams : sd_supp(s) = Boundary2(s)
BY DEF CustStreams, SuppStreams, Cust1, Supp1, Lines7, PartSupp4, sd_cust, sd_supp, Boundary2

\* What set_state skips for each row.
SkippedPerRow(t, s) ==
  SkipRow(t, s, Shared(t)) + (IF ChildOf(t) = "NONE" THEN 0 ELSE SkipRow(ChildOf(t), s, 0))

LEMMA BoundaryNat == \A s : Boundary2(s) \in Nat
BY DEF Boundary2

LEMMA SkipMoves ==
  ASSUME NEW t \in Table \ Code, NEW s \in Depends(t)
  PROVE  SkippedPerRow(t, s) = Boundary2(s)
<1> USE DependsOf, BoundaryNat DEF SkippedPerRow, SkipRow, ChildOf, Shared
<1>1. CASE t \in {"PART", "PART_PSUPP"}
  BY <1>1, PartSkips
<1>2. CASE t = "PSUPP"
  BY <1>2, PartSkips
<1>3. CASE t \in {"ORDER", "ORDER_LINE"}
  BY <1>3, OrderSkips
<1>4. CASE t = "LINE"
  BY <1>4, OrderSkips
<1>5. CASE t \in {"CUST", "SUPP"}
  BY <1>5, OtherSkips
<1> QED
  BY <1>1, <1>2, <1>3, <1>4, <1>5 DEF Table, Code

\* Making a row does too, whatever the row draws: row_stop, or for the two streams that the
\* lineitems share with the orders one draw, moves it.
LEMMA RowMoves ==
  ASSUME NEW t \in Table, NEW s \in Depends(t), NEW lines, NEW address
  PROVE  \/ TableOfStream(s) \in Aligned(t)
         \/ Made(t, s, lines, address) = Boundary2(s)
<1>1. CASE t # "LINE"
  BY <1>1 DEF Depends, Aligned, Own2, ChildOf
<1>2. CASE t = "LINE" /\ TableOfStream(s) # "LINE"
  <2>1. s \in {"O_ODATE", "O_LCNT"}
    BY <1>2 DEF Depends
  <2>2. Made(t, s, lines, address) = MkOrderLine(s, lines)
    BY <1>2 DEF Made, Code
  <2> QED
    BY <2>1, <2>2 DEF MkOrderLine, Boundary2, Order1, PartSupp4, Lines7
<1>3. CASE t = "LINE" /\ TableOfStream(s) = "LINE"
  BY <1>3 DEF Aligned, Own2
<1> QED
  BY <1>1, <1>2, <1>3

-----------------------------------------------------------------------------
\* Tables that one command makes share no stream: "assumes that tables are completely
\* independent" (bm_utils.c).
TablesOfStreams(t) ==
  CASE t = "PART_PSUPP" -> {"PART", "PSUPP"} [] t = "ORDER_LINE" -> {"ORDER", "LINE"}
    [] OTHER -> {t}

LEMMA TwoTables ==
  ASSUME NEW T \in Options, NEW t \in TablesOf(T), NEW u \in TablesOf(T), t # u
  PROVE  {t, u} \subseteq DefaultTables
BY DEF Options, TablesOf, DefaultTables

LEMMA OwnStreams ==
  ASSUME NEW u \in DefaultTables, NEW s \in Depends(u)
  PROVE  s \in Stream2 /\ TableOfStream(s) \in TablesOfStreams(u)
<1>1. s \in Stream2
  BY DependsOf DEF DefaultTables, Table
<1>2. u # "LINE" /\ u # "ORDER"
  BY DEF DefaultTables
<1> QED
  BY <1>1, <1>2 DEF Depends, TablesOfStreams

LEMMA OneTable ==
  ASSUME NEW t \in DefaultTables, NEW s \in Stream2, TableOfStream(s) \notin TablesOfStreams(t),
         NEW lines, NEW address
  PROVE  /\ TableOfStream(s) \notin Aligned(t)
         /\ Made(t, s, lines, address) = 0
         /\ t \notin Code => SkippedPerRow(t, s) = 0
<1> USE StreamsOfTables DEF TablesOfStreams, Aligned, Own2, ChildOf, SkippedPerRow, SkipRow, Shared, Made, Code
<1>0. TableOfStream(s) # "NONE"
  BY DEF TableOfStream, Stream2
<1>1. CASE t = "CUST"
  BY <1>0, <1>1 DEF MkCust, sd_cust, CustStreams
<1>2. CASE t = "SUPP"
  BY <1>0, <1>2 DEF MkSupplier, sd_supp, SuppStreams
<1>3. CASE t = "PART_PSUPP"
  BY <1>0, <1>3 DEF MkPartPsupp, sd_part, sd_psupp, PartStreams, PsuppStreams
<1>4. CASE t = "ORDER_LINE"
  BY <1>0, <1>4 DEF MkOrderLine, sd_order, sd_line, OrderStreams, LineStreams,
                     Lines7
<1>5. CASE t \in Code
  BY <1>0, <1>5 DEF MkCode
<1> QED
  BY <1>1, <1>2, <1>3, <1>4, <1>5 DEF DefaultTables

LEMMA TablesApart ==
  ASSUME NEW T \in Options, NEW t \in TablesOf(T), NEW u \in TablesOf(T), t # u,
         NEW s \in Depends(u), NEW lines, NEW address
  PROVE  /\ s \in Stream2
         /\ TableOfStream(s) \notin Aligned(t)
         /\ Made(t, s, lines, address) = 0
         /\ t \notin Code => SkippedPerRow(t, s) = 0
<1>1. t \in DefaultTables /\ u \in DefaultTables
  BY TwoTables
<1>2. s \in Stream2 /\ TableOfStream(s) \in TablesOfStreams(u)
  BY <1>1, OwnStreams
<1>3. TableOfStream(s) \notin TablesOfStreams(t)
  BY <1>1, <1>2 DEF TablesOfStreams, DefaultTables
<1> QED
  BY <1>1, <1>2, <1>3, OneTable

-----------------------------------------------------------------------------
\* Arithmetic.
LEMMA DivInt ==
  ASSUME NEW a \in Int, NEW b \in Nat \ {0}
  PROVE  /\ a \div b \in Int /\ a % b \in Int
         /\ a = b * (a \div b) + (a % b)
OBVIOUS

LEMMA Distribute ==
  ASSUME NEW n \in Int, NEW a \in Int, NEW b \in Int
  PROVE  n * a + n * b = n * (a + b) /\ n * a \in Int
OBVIOUS

LEMMA ScaledInt ==
  ASSUME NEW s \in Nat, NEW t \in Table
  PROVE  /\ AllRows(s, t) \in Int /\ ScaledBase(s, t) \in Int /\ IntScale(s) \in Int
<1>1. ToolsBase[t] \in Nat /\ s * ToolsBase[t] \in Nat
  BY ToolsAssumption
<1>2. (s * ToolsBase[t]) \div 1000 \in Int /\ s \div 1000 \in Int
  BY <1>1
<1>3. ScaledBase(s, t) \in Int /\ IntScale(s) \in Int
  BY <1>1, <1>2 DEF ScaledBase, IntScale, AtLeastOne
<1> QED
  BY <1>1, <1>3 DEF AllRows

-----------------------------------------------------------------------------
\* What set_state leaves for a step of the table.
LEMMA SkipInt ==
  ASSUME NEW t \in Table \ Code, NEW s, NEW child \in {0, 1}
  PROVE  SkipRow(t, s, child) \in Int
BY DEF SkipRow, sd_part, sd_psupp, sd_order, sd_line, sd_cust, sd_supp, Table, Code

SkippedBefore(t, parts, stp) ==
  IF stp > 1 THEN (stp - 1) * (RowsOf(t) \div parts) ELSE 0

LEMMA SetState ==
  ASSUME cmd.permille \in Nat, NEW t \in Table \ Code, NEW parts \in Nat \ {0},
         NEW stp \in Nat, stp <= parts, NEW p, NEW s \in Stream2, p[s] \in Int
  PROVE  set_state(p, t, parts, stp)[s] =
           p[s] + SkippedBefore(t, parts, stp) * SkippedPerRow(t, s)
<1> DEFINE n == SkippedBefore(t, parts, stp)
           a == SkipRow(t, s, Shared(t))
           b == SkipRow(ChildOf(t), s, 0)
<1>1. n \in Int
  <2>1. RowsOf(t) \div parts \in Int
    BY ScaledInt, DivInt DEF RowsOf
  <2> QED
    BY <2>1 DEF SkippedBefore
<1>2. a \in Int
  BY SkipInt DEF Shared
<1>3. ~(stp > parts)
  OBVIOUS
<1>4. CASE ChildOf(t) = "NONE"
  <2>1. set_state(p, t, parts, stp)[s] = p[s] + n * a
    BY <1>3, <1>4 DEF set_state, Skipped, SkippedBefore
  <2>2. SkippedPerRow(t, s) = a
    BY <1>2, <1>4 DEF SkippedPerRow
  <2> QED
    BY <2>1, <2>2
<1>5. CASE ChildOf(t) # "NONE"
  <2>1. ChildOf(t) \in Table \ Code
    BY <1>5 DEF ChildOf, Table, Code
  <2>2. b \in Int
    BY <2>1, SkipInt
  <2>3. set_state(p, t, parts, stp)[s] = (p[s] + n * a) + n * b
    BY <1>3, <1>5 DEF set_state, Skipped, SkippedBefore
  <2>4. SkippedPerRow(t, s) = a + b
    BY <1>5 DEF SkippedPerRow
  <2>5. n * a \in Int /\ n * b \in Int /\ n * a + n * b = n * (a + b)
    BY <1>1, <1>2, <2>2, Distribute
  <2> HIDE DEF n, a, b
  <2>6. (p[s] + n * a) + n * b = p[s] + n * (a + b)
    BY <2>5
  <2>7. set_state(p, t, parts, stp)[s] = p[s] + n * SkippedPerRow(t, s)
    BY <2>3, <2>4, <2>6
  <2> QED
    BY <2>7 DEF n
<1> QED
  BY <1>4, <1>5

\* The rows in the table when an update set begins are skipped, and then those of the sets
\* before it.
LEMMA SetUpdates ==
  ASSUME cmd.permille \in Nat, RowsOf("ORDER") % UpdParts = 0, NEW n \in Int,
         NEW s \in Depends("ORDER_LINE")
  PROVE  LET p0 == set_state([x \in Stream2 |-> 0], "ORDER", UpdParts, UpdParts + 1)
         IN  Skipped(Skipped(p0, "ORDER", 0, n), "LINE", 0, n)[s]
               = Boundary2(s) * (RowsOf("ORDER") + n)
<1> DEFINE R == RowsOf("ORDER")
           q == R \div UpdParts
           a == sd_order(s)
           b == sd_line(s, 0)
           p0 == set_state([x \in Stream2 |-> 0], "ORDER", UpdParts, UpdParts + 1)
<1>1. s \in Stream2 /\ UpdParts \in Nat \ {0}
  BY DependsOf, ToolsAssumption DEF Table
<1>2. R \in Int
  BY ScaledInt DEF RowsOf, Table
<1>3. q \in Int /\ R = UpdParts * q
  <2>1. q \in Int /\ R = UpdParts * q + (R % UpdParts) /\ R % UpdParts = 0
    BY <1>1, <1>2, DivInt
  <2> HIDE DEF q, R
  <2>2. UpdParts * q \in Int
    BY <1>1, <2>1
  <2> QED
    BY <2>1, <2>2
<1>4. a \in Int /\ b \in Int /\ a + b = Boundary2(s)
  BY DependsOf, OrderSkips, BoundaryNat DEF Table
<1>5. ChildOf("ORDER") = "LINE" /\ Shared("ORDER") = 0 /\ (UpdParts + 1) - 1 = UpdParts
      /\ UpdParts + 1 > UpdParts /\ UpdParts + 1 > 1
  BY <1>1 DEF ChildOf, Shared
<1>6. \A c : SkipRow("ORDER", s, c) = a /\ SkipRow("LINE", s, 0) = b
  BY DEF SkipRow
<1>7. p0[s] = ((0 + (UpdParts * q) * a) + (UpdParts * q) * b) + 0 * a
  BY <1>1, <1>5, <1>6 DEF set_state, Skipped
<1>8. Skipped(Skipped(p0, "ORDER", 0, n), "LINE", 0, n)[s] = (p0[s] + n * a) + n * b
  BY <1>1, <1>6 DEF Skipped
<1> HIDE DEF R, q, a, b, p0
<1>9. p0[s] = R * a + R * b
  BY <1>1, <1>2, <1>3, <1>4, <1>7, Distribute
<1>10. p0[s] = R * (a + b) /\ n * a + n * b = n * (a + b)
  BY <1>2, <1>4, <1>9, Distribute
<1>11. (p0[s] + n * a) + n * b = p0[s] + n * (a + b)
  <2>1. n * a \in Int /\ n * b \in Int /\ R * (a + b) \in Int
    BY <1>2, <1>4, Distribute
  <2> QED
    BY <1>10, <2>1
<1>12. R * (a + b) + n * (a + b) = (a + b) * (R + n)
  BY <1>2, <1>4
<1>13. Skipped(Skipped(p0, "ORDER", 0, n), "LINE", 0, n)[s] = Boundary2(s) * (R + n)
  BY <1>4, <1>8, <1>10, <1>11, <1>12
<1> QED
  BY <1>13 DEF R, p0

-----------------------------------------------------------------------------
(***************************************************************************)
(* The inductive invariant: in main's loop the streams of the tables to    *)
(* come are where rnd.h has them, and those of the table in hand where the *)
(* rows before it leave them.                                              *)
(***************************************************************************)

\* No -S beyond -C and none below zero, which the code takes and which make rows beyond the
\* table's last, or before its first.
StepsWithin ==
  \A c \in ToolsCommands :
    c.children > 1 => \A k \in DOMAIN c.steps : c.steps[k] \in 0..c.children

At(t, n) == \A s \in Depends(t) : pos[s] = Boundary2(s) * n

Untouched(i) == \A j \in i..10 : InOrder[j] \in cmd.tables => At(InOrder[j], 0)

GoodCommand ==
  /\ cmd.permille \in Nat /\ cmd.children \in Nat /\ cmd.updates \in Nat
  /\ cmd.steps \in Seq(Int)
  /\ \E T \in Options : cmd.tables = TablesOf(T)
  /\ cmd.children > 1 => \A k \in DOMAIN cmd.steps : cmd.steps[k] \in 0..cmd.children
  /\ cmd.updates > 0 => RowsOf("ORDER") % UpdParts = 0

Numbers2 ==
  at_table \in Nat \ {0} /\ at_row \in Int /\ rows_left \in Int /\ tools_upd_num \in Nat

StepInv == cmd.children > 1 => stepnum \in 0..cmd.children

TablesInv == cmd.updates = 0 /\ StepInv /\ Untouched(at_table)

SetsInv == cmd.updates > 0 /\ At("ORDER_LINE", RowsOf("ORDER") + tools_upd_num * RowsPerSet)

TableRowsInv ==
  /\ at_table <= 10 /\ InOrder[at_table] \in cmd.tables /\ StepInv
  /\ At(InOrder[at_table], at_row - 1) /\ Untouched(at_table + 1)

SetRowsInv ==
  /\ At("ORDER_LINE", RowsOf("ORDER") + (at_row - 1))
  /\ at_row + rows_left = (tools_upd_num * RowsPerSet + RowsPerSet) + 1

TInv ==
  /\ Numbers2
  /\ cmd # NoCommand => GoodCommand
  /\ tools_pc \in {"tables", "sets", "rows"} => GoodCommand
  /\ tools_pc = "tables" => TablesInv
  /\ tools_pc = "sets" => SetsInv
  /\ tools_pc = "rows" /\ cmd.updates = 0 => TableRowsInv
  /\ tools_pc = "rows" /\ cmd.updates > 0 => SetRowsInv

LEMMA InOrderTables ==
  /\ \A j \in 1..10 : InOrder[j] \in Table
  /\ \A j, k \in 1..10 : j # k => InOrder[j] # InOrder[k]
  /\ Len(InOrder) = 10
BY DEF InOrder, Table

LEMMA ImpliesSerial == TInv => ToolsAsSerial
<1> SUFFICES ASSUME TInv, tools_pc = "rows", NEW s \in Depends(tnum)
             PROVE  pos[s] = Boundary2(s) *
                      ((IF cmd.updates > 0 THEN RowsOf("ORDER") ELSE 0) + at_row - 1)
  BY DEF ToolsAsSerial
<1>1. cmd.updates \in Nat /\ cmd.permille \in Nat /\ at_row \in Int
  BY DEF TInv, GoodCommand, Numbers2
<1>2. RowsOf("ORDER") \in Int
  BY <1>1, ScaledInt DEF RowsOf, Table
<1>3. CASE cmd.updates > 0
  BY <1>1, <1>2, <1>3 DEF TInv, SetRowsInv, At, tnum
<1>4. CASE cmd.updates = 0
  BY <1>1, <1>4 DEF TInv, TableRowsInv, At, tnum
<1> QED
  BY <1>1, <1>3, <1>4

LEMMA PerSet ==
  ASSUME cmd.permille \in Nat
  PROVE  RowsPerSet \in Int
<1>1. ScaledBase(cmd.permille, "ORDER_LINE") \in Int /\ IntScale(cmd.permille) \in Int
  BY ScaledInt DEF Table
<1>2. ScaledBase(cmd.permille, "ORDER_LINE") \div SetUnits \in Int /\ UPD_PCT \in Int
  BY <1>1, DivInt, ToolsAssumption
<1> QED
  BY <1>1, <1>2 DEF RowsPerSet

LEMMA Choosing == ASSUME StepsWithin, TInv, Choose PROVE TInv'
<1>1. cmd' \in ToolsCommands /\ tools_pc' = "shell"
  BY DEF Choose
<1>2. GoodCommand'
  BY <1>1, ToolsAssumption DEF StepsWithin, GoodCommand, RowsOf
<1> QED
  BY <1>1, <1>2 DEF Choose, TInv, Numbers2

LEMMA StartTables == ASSUME TInv, MainTables PROVE TInv'
<1>1. GoodCommand'
  BY DEF MainTables, TInv, GoodCommand, RowsOf
<1>2. Untouched(1)'
  <2> SUFFICES ASSUME NEW j \in 1..10, NEW s \in Depends(InOrder[j])
               PROVE  pos'[s] = Boundary2(s) * 0
    BY DEF Untouched, At
  <2> QED
    BY InOrderTables, DependsOf, BoundaryNat DEF MainTables
<1>3. StepInv'
  <2>1. cmd' = cmd /\ GoodCommand /\ Valid
    BY DEF MainTables, TInv
  <2>2. ASSUME cmd.children > 1
        PROVE  stepnum \in 0..cmd.children
    <3>1. stepnum # -1 /\ cmd.steps # <<>>
      BY <2>1, <2>2 DEF Valid, GoodCommand, stepnum
    <3>2. stepnum = cmd.steps[1] /\ 1 \in DOMAIN cmd.steps
      BY <2>1, <3>1 DEF GoodCommand, stepnum
    <3> QED
      BY <2>1, <2>2, <3>2 DEF GoodCommand
  <2> QED
    BY <2>1, <2>2 DEF StepInv, stepnum
<1> QED
  BY <1>1, <1>2, <1>3 DEF MainTables, TInv, Numbers2, TablesInv

LEMMA StartUpdates == ASSUME TInv, MainUpdates PROVE TInv'
<1>1. GoodCommand /\ cmd' = cmd
  BY DEF MainUpdates, TInv
<1>2. GoodCommand' /\ cmd'.updates > 0
  BY <1>1 DEF GoodCommand, RowsOf, MainUpdates
<1>3. cmd.permille \in Nat /\ RowsOf("ORDER") % UpdParts = 0 /\ stepnum \in Int
  BY <1>1 DEF GoodCommand, MainUpdates, stepnum
<1>4. RowsPerSet \in Int
  BY <1>3, PerSet
<1> DEFINE n == tools_upd_num' * RowsPerSet
           p0 == set_state([x \in Stream2 |-> 0], "ORDER", UpdParts, UpdParts + 1)
<1>5. tools_upd_num' \in Nat
      /\ n = IF stepnum > 0 THEN (stepnum - 1) * RowsPerSet ELSE 0
  BY <1>3, <1>4 DEF MainUpdates
<1>6. n \in Int
  BY <1>4, <1>5
<1>7. pos' = Skipped(Skipped(p0, "ORDER", 0, n), "LINE", 0, n)
  BY <1>5 DEF MainUpdates
<1>8. ASSUME NEW s \in Depends("ORDER_LINE")
      PROVE  pos'[s] = Boundary2(s) * (RowsOf("ORDER") + n)
  <2> HIDE DEF n
  <2> QED
    BY <1>3, <1>6, <1>7, SetUpdates
<1>9. RowsOf("ORDER")' = RowsOf("ORDER") /\ RowsPerSet' = RowsPerSet
  BY <1>1 DEF RowsOf, RowsPerSet
<1>10. SetsInv'
  BY <1>2, <1>8, <1>9 DEF SetsInv, At
<1> QED
  BY <1>1, <1>2, <1>5, <1>10 DEF MainUpdates, TInv, Numbers2

LEMMA Skipping == ASSUME TInv, SkipTable PROVE TInv'
<1>1. GoodCommand' /\ TablesInv /\ at_table \in Nat \ {0} /\ at_table <= 10
  BY InOrderTables DEF SkipTable, TInv, GoodCommand, RowsOf, Numbers2
<1>2. TablesInv'
  <2>1. \A j \in (at_table + 1)..10 : j \in at_table..10
    BY <1>1
  <2> QED
    BY <1>1, <2>1 DEF TablesInv, StepInv, stepnum, Untouched, At, SkipTable
<1> QED
  BY <1>1, <1>2 DEF SkipTable, TInv, Numbers2

LEMMA OtherTables ==
  ASSUME GoodCommand, NEW i \in 1..10, InOrder[i] \in cmd.tables, NEW j \in (i + 1)..10,
         InOrder[j] \in cmd.tables, NEW s \in Depends(InOrder[j]), NEW lines, NEW address
  PROVE  /\ s \in Stream2
         /\ TableOfStream(s) \notin Aligned(InOrder[i])
         /\ Made(InOrder[i], s, lines, address) = 0
         /\ InOrder[i] \notin Code => SkippedPerRow(InOrder[i], s) = 0
<1>1. InOrder[i] # InOrder[j]
  BY InOrderTables
<1>2. PICK T \in Options : cmd.tables = TablesOf(T)
  BY DEF GoodCommand
<1> QED
  BY <1>1, <1>2, TablesApart

LEMMA Beginning == ASSUME TInv, BeginTable PROVE TInv'
<1> DEFINE t == InOrder[at_table]
<1>1. /\ GoodCommand /\ GoodCommand' /\ cmd' = cmd /\ cmd.updates = 0 /\ Untouched(at_table)
      /\ at_table \in 1..10 /\ at_table' = at_table /\ tnum = t /\ t \in cmd.tables
      /\ tools_upd_num' = tools_upd_num /\ tools_upd_num \in Nat /\ tools_pc' = "rows" /\ StepInv
  BY InOrderTables DEF BeginTable, TInv, GoodCommand, RowsOf, Numbers2, TablesInv, tnum
<1>2. /\ \A s \in Depends(t) : s \in Stream2 /\ pos[s] = 0
      /\ \A j \in (at_table + 1)..10 : InOrder[j] \in cmd.tables =>
           \A s \in Depends(InOrder[j]) : s \in Stream2 /\ pos[s] = 0
  <2>1. \A j \in at_table..10 : InOrder[j] \in cmd.tables =>
          \A s \in Depends(InOrder[j]) : s \in Stream2 /\ pos[s] = 0
    BY <1>1, InOrderTables, DependsOf, BoundaryNat DEF Untouched, At
  <2> QED
    BY <1>1, <2>1
<1>3. t \in Table /\ RowsOf(t) \in Int /\ stepnum \in Int
  <2>1. cmd.permille \in Nat /\ cmd.steps \in Seq(Int)
    BY <1>1 DEF GoodCommand
  <2>2. t \in Table
    BY <1>1, InOrderTables
  <2>3. stepnum \in Int
    BY <2>1 DEF stepnum
  <2>4. RowsOf(t) \in Int
    BY <2>1, <2>2, ScaledInt DEF RowsOf
  <2> QED
    BY <2>2, <2>3, <2>4
<1>4. /\ at_row' \in Int /\ rows_left' \in Int
      /\ \A s \in Depends(t) : pos'[s] = Boundary2(s) * (at_row' - 1)
      /\ \A j \in (at_table + 1)..10 : InOrder[j] \in cmd.tables =>
           \A s \in Depends(InOrder[j]) : pos'[s] = 0
  <2>1. CASE cmd.children > 1 /\ t \notin Code
    <3> DEFINE q == RowsOfStep(t, cmd.children, stepnum)
               n == SkippedBefore(t, cmd.children, stepnum)
    <3>1. /\ pos' = set_state(pos, t, cmd.children, stepnum)
          /\ at_row' = q * (stepnum - 1) + 1
          /\ rows_left' = q + Extra(RowsOf(t))
      BY <1>1, <2>1 DEF BeginTable
    <3>2. cmd.children \in Nat \ {0} /\ stepnum \in 0..cmd.children /\ cmd.permille \in Nat
      BY <1>1, <2>1 DEF GoodCommand, StepInv
    <3>3. q \in Int /\ Extra(RowsOf(t)) \in Int /\ RowsOf(t) \div cmd.children \in Int
      BY <1>3, <3>2, DivInt DEF Extra, RowsOfStep
    <3>4. n \in Int /\ at_row' = n + 1 /\ rows_left' \in Int
      <4>1. n \in Int /\ n = q * (stepnum - 1)
        BY <3>2, <3>3 DEF RowsOfStep, SkippedBefore
      <4> HIDE DEF q, n
      <4> QED
        BY <3>1, <3>3, <4>1
    <3>5. ASSUME NEW s \in Stream2, pos[s] = 0
          PROVE  pos'[s] = 0 + n * SkippedPerRow(t, s)
      BY <1>3, <2>1, <3>1, <3>2, <3>5, SetState
    <3> HIDE DEF n, q
    <3>6. ASSUME NEW s \in Depends(t)
          PROVE  pos'[s] = Boundary2(s) * n
      <4>1. pos'[s] = 0 + n * Boundary2(s)
        BY <1>2, <1>3, <2>1, <3>5, SkipMoves
      <4> QED
        BY <3>4, <4>1, BoundaryNat
    <3>7. ASSUME NEW j \in (at_table + 1)..10, InOrder[j] \in cmd.tables,
                 NEW s \in Depends(InOrder[j])
          PROVE  pos'[s] = 0
      <4>1. pos'[s] = 0 + n * SkippedPerRow(t, s) /\ SkippedPerRow(t, s) = 0
        BY <1>1, <1>2, <2>1, <3>5, <3>7, OtherTables
      <4> QED
        BY <3>4, <4>1
    <3> QED
      BY <3>4, <3>6, <3>7
  <2>2. CASE ~(cmd.children > 1 /\ t \notin Code)
    BY <1>1, <1>2, <1>3, <2>2, BoundaryNat DEF BeginTable
  <2> QED
    BY <2>1, <2>2
<1>5. TableRowsInv'
  <2> HIDE DEF t
  <2>1. At(t, at_row - 1)'
    BY <1>1, <1>4 DEF At, t
  <2>2. Untouched(at_table + 1)'
    BY <1>1, <1>4, BoundaryNat DEF Untouched, At
  <2> QED
    BY <1>1, <2>1, <2>2 DEF TableRowsInv, StepInv, stepnum, t
<1> QED
  BY <1>1, <1>4, <1>5 DEF TInv, Numbers2

LEMMA BeginningSet == ASSUME TInv, BeginSet PROVE TInv'
<1>1. /\ GoodCommand /\ GoodCommand' /\ cmd' = cmd /\ SetsInv /\ Numbers2 /\ pos' = pos
  BY DEF BeginSet, TInv, GoodCommand, RowsOf
<1>2. RowsPerSet \in Int /\ RowsOf("ORDER") \in Int
  BY <1>1, PerSet, ScaledInt DEF GoodCommand, RowsOf, Table
<1>3. RowsPerSet' = RowsPerSet /\ RowsOf("ORDER")' = RowsOf("ORDER")
  BY <1>1 DEF RowsPerSet, RowsOf
<1> DEFINE n == tools_upd_num * RowsPerSet
<1>4. n \in Int
  BY <1>1, <1>2 DEF Numbers2
<1>5. at_row' = n + 1 /\ rows_left' = RowsPerSet /\ tools_upd_num' = tools_upd_num /\ at_table' = at_table
      /\ tools_pc' = "rows"
  BY DEF BeginSet
<1>6. At("ORDER_LINE", RowsOf("ORDER") + n)
  BY <1>1 DEF SetsInv
<1>7. (tools_upd_num * RowsPerSet)' = n
  BY <1>3, <1>5
<1> HIDE DEF n
<1>8. SetRowsInv'
  BY <1>1, <1>2, <1>3, <1>4, <1>5, <1>6, <1>7 DEF SetRowsInv, At
<1> QED
  BY <1>1, <1>2, <1>4, <1>5, <1>8 DEF TInv, Numbers2, SetsInv

\* A row moves the streams that its table depends on, and none of those of other tables.
LEMMA Making == ASSUME TInv, MakeRow PROVE TInv'
<1>1. /\ GoodCommand /\ GoodCommand' /\ cmd' = cmd /\ Numbers2 /\ Numbers2'
      /\ tools_upd_num' = tools_upd_num /\ at_table' = at_table /\ tools_pc = "rows" /\ tools_pc' = "rows"
      /\ at_row' = at_row + 1 /\ rows_left' = rows_left - 1
  BY DEF MakeRow, TInv, GoodCommand, RowsOf, Numbers2
<1>2. PICK lines \in {1, 7}, address \in {3, 9} :
        pos' = [s \in Stream2 |-> pos[s] + IF TableOfStream(s) \in Aligned(tnum) THEN Boundary2(s)
                                           ELSE Made(tnum, s, lines, address)]
  BY DEF MakeRow
<1>3. ASSUME tnum \in Table, NEW n \in Int, At(tnum, n)
      PROVE  \A s \in Depends(tnum) : pos'[s] = Boundary2(s) * (n + 1)
  <2> SUFFICES ASSUME NEW s \in Depends(tnum)
               PROVE  pos'[s] = Boundary2(s) * (n + 1)
    OBVIOUS
  <2>1. pos[s] = Boundary2(s) * n /\ s \in Stream2 /\ Boundary2(s) \in Nat
    BY <1>3, DependsOf, BoundaryNat DEF At
  <2>2. pos'[s] = pos[s] + Boundary2(s)
    BY <1>2, <1>3, <2>1, RowMoves
  <2> QED
    BY <2>1, <2>2
<1>4. CASE cmd.updates = 0
  <2>1. TableRowsInv /\ tnum = InOrder[at_table] /\ at_table \in 1..10
    BY <1>1, <1>4 DEF TInv, TableRowsInv, Numbers2, tnum
  <2>2. \A s \in Depends(tnum) : pos'[s] = Boundary2(s) * at_row
    <3>1. tnum \in Table /\ At(tnum, at_row - 1) /\ at_row - 1 \in Int /\ (at_row - 1) + 1 = at_row
      BY <1>1, <2>1, InOrderTables DEF TableRowsInv, Numbers2
    <3> QED
      BY <1>3, <3>1
  <2>3. ASSUME NEW j \in (at_table + 1)..10, InOrder[j] \in cmd.tables,
               NEW s \in Depends(InOrder[j])
        PROVE  pos'[s] = Boundary2(s) * 0
    <3>1. /\ s \in Stream2 /\ TableOfStream(s) \notin Aligned(tnum)
          /\ Made(tnum, s, lines, address) = 0
      BY <1>1, <2>1, <2>3, OtherTables DEF TableRowsInv
    <3>2. pos[s] = Boundary2(s) * 0 /\ Boundary2(s) \in Nat
      BY <2>1, <2>3, BoundaryNat DEF TableRowsInv, Untouched, At
    <3> QED
      BY <1>2, <3>1, <3>2
  <2>4. TableRowsInv'
    <3>1. (at_row + 1) - 1 = at_row
      BY <1>1 DEF Numbers2
    <3>2. At(InOrder[at_table], at_row - 1)'
      BY <1>1, <2>1, <2>2, <3>1 DEF At
    <3>3. Untouched(at_table + 1)'
      BY <1>1, <2>3 DEF Untouched, At
    <3> QED
      BY <1>1, <2>1, <3>2, <3>3 DEF TableRowsInv, StepInv, stepnum
  <2> QED
    BY <1>1, <1>4, <2>4 DEF TInv
<1>5. CASE cmd.updates > 0
  <2>1. SetRowsInv /\ tnum = "ORDER_LINE" /\ "ORDER_LINE" \in Table
    BY <1>1, <1>5 DEF TInv, tnum, Table
  <2> DEFINE R == RowsOf("ORDER")
  <2>2. R \in Int /\ R' = R /\ RowsPerSet \in Int /\ RowsPerSet' = RowsPerSet
    BY <1>1, PerSet, ScaledInt DEF GoodCommand, RowsOf, RowsPerSet, Table
  <2>3. R + (at_row - 1) \in Int
        /\ (R + (at_row - 1)) + 1 = R + ((at_row + 1) - 1)
    <3> HIDE DEF R
    <3> QED
      BY <1>1, <2>2 DEF Numbers2
  <2>4. \A s \in Depends("ORDER_LINE") : pos'[s] = Boundary2(s) * (R + ((at_row + 1) - 1))
    <3>1. At(tnum, R + (at_row - 1))
      BY <2>1 DEF SetRowsInv
    <3> HIDE DEF R
    <3> QED
      BY <1>3, <2>1, <2>3, <3>1
  <2>5. SetRowsInv'
    <3>1. At("ORDER_LINE", RowsOf("ORDER") + (at_row - 1))'
      BY <1>1, <2>2, <2>4 DEF At
    <3>2. (tools_upd_num * RowsPerSet + RowsPerSet)' = tools_upd_num * RowsPerSet + RowsPerSet
      BY <1>1, <2>2
    <3>3. at_row' + rows_left' = at_row + rows_left
      BY <1>1 DEF Numbers2
    <3> QED
      BY <2>1, <3>1, <3>2, <3>3 DEF SetRowsInv
  <2> QED
    BY <1>1, <1>5, <2>5 DEF TInv
<1> QED
  BY <1>1, <1>4, <1>5 DEF GoodCommand

LEMMA Ending == ASSUME TInv, EndRows PROVE TInv'
<1>1. /\ GoodCommand /\ GoodCommand' /\ cmd' = cmd /\ Numbers2 /\ pos' = pos
      /\ rows_left = 0 /\ tools_pc = "rows"
  BY DEF EndRows, TInv, GoodCommand, RowsOf
<1>2. CASE cmd.updates = 0
  <2>1. at_table' = at_table + 1 /\ tools_upd_num' = tools_upd_num /\ tools_pc' = "tables"
    BY <1>2 DEF EndRows
  <2>2. TablesInv'
    BY <1>1, <1>2, <2>1 DEF TInv, TableRowsInv, TablesInv, StepInv, stepnum, Untouched, At
  <2> QED
    BY <1>1, <2>1, <2>2 DEF EndRows, TInv, Numbers2
<1>3. CASE cmd.updates > 0
  <2>1. tools_upd_num' = tools_upd_num + 1 /\ at_table' = at_table /\ tools_pc' = "sets" /\ SetRowsInv
    BY <1>1, <1>3 DEF EndRows, TInv
  <2>2. RowsPerSet \in Int /\ RowsPerSet' = RowsPerSet /\ RowsOf("ORDER")' = RowsOf("ORDER")
    BY <1>1, PerSet DEF GoodCommand, RowsOf, RowsPerSet
  <2>3. (tools_upd_num * RowsPerSet)' = at_row - 1
    <3>1. (tools_upd_num + 1) * RowsPerSet = tools_upd_num * RowsPerSet + RowsPerSet
          /\ (tools_upd_num + 1) * RowsPerSet \in Int
      BY <1>1, <2>2 DEF Numbers2
    <3>2. at_row = (tools_upd_num + 1) * RowsPerSet + 1
      BY <1>1, <2>1, <3>1 DEF SetRowsInv, Numbers2
    <3>3. at_row - 1 = (tools_upd_num + 1) * RowsPerSet
      BY <3>1, <3>2
    <3> QED
      BY <2>1, <2>2, <3>3
  <2>4. SetsInv'
    BY <1>1, <1>3, <2>1, <2>2, <2>3 DEF SetRowsInv, SetsInv, At
  <2> QED
    BY <1>1, <1>3, <2>1, <2>4 DEF EndRows, TInv, Numbers2
<1> QED
  BY <1>1, <1>2, <1>3 DEF GoodCommand

LEMMA NextStep == ASSUME TInv, EndCommand PROVE TInv'
<1>1. GoodCommand /\ Numbers2 /\ Numbers2' /\ tools_pc' \in {"shell", "stop"}
  BY DEF EndCommand, TInv, Numbers2
<1>2. CASE Len(cmd.steps) > 1
  <2>1. cmd' = [cmd EXCEPT !.steps = Tail(cmd.steps)]
    BY <1>2 DEF EndCommand
  <2>2. cmd.steps \in Seq(Int)
    BY <1>1 DEF GoodCommand
  <2>3. /\ Tail(cmd.steps) \in Seq(Int)
        /\ \A k \in DOMAIN Tail(cmd.steps) :
             k + 1 \in DOMAIN cmd.steps /\ Tail(cmd.steps)[k] = cmd.steps[k + 1]
    BY <1>2, <2>2
  <2>4. GoodCommand'
    BY <1>1, <2>1, <2>3 DEF GoodCommand, RowsOf
  <2> QED
    BY <1>1, <2>4 DEF TInv
<1>3. CASE ~(Len(cmd.steps) > 1)
  <2>1. cmd' = cmd
    BY <1>3 DEF EndCommand
  <2>2. GoodCommand'
    BY <1>1, <2>1 DEF GoodCommand, RowsOf
  <2> QED
    BY <1>1, <2>2 DEF TInv
<1> QED
  BY <1>2, <1>3

LEMMA Refusing == ASSUME TInv, Refuse PROVE TInv'
BY DEF Refuse, TInv, GoodCommand, RowsOf, Numbers2

LEMMA Stuttering == ASSUME TInv, UNCHANGED tools_vars PROVE TInv'
BY DEF tools_vars, TInv, GoodCommand, RowsOf, Numbers2, TablesInv, SetsInv, TableRowsInv,
       SetRowsInv, StepInv, stepnum, Untouched, At, RowsPerSet

\* Every row of every table and of every update set, in any step, at any scale, is drawn where
\* one command for the whole would draw it, if no step is beyond the number of steps.
THEOREM Serial ==
  ASSUME StepsWithin
  PROVE  ToolsSpec => []ToolsAsSerial
<1>1. ToolsInit => TInv
  BY DEF ToolsInit, TInv, Numbers2
<1>2. TInv /\ [ToolsNext]_tools_vars => TInv'
  <2> SUFFICES ASSUME TInv, [ToolsNext]_tools_vars
               PROVE  TInv'
    OBVIOUS
  <2> QED
    BY Choosing, StartTables, StartUpdates, Refusing, Skipping, Beginning, BeginningSet, Making,
       Ending, NextStep, Stuttering DEF ToolsNext
<1>3. TInv => ToolsAsSerial
  BY ImpliesSerial
<1> QED
  BY <1>1, <1>2, <1>3, PTL DEF ToolsSpec

-----------------------------------------------------------------------------
(***************************************************************************)
(* The steps make every row once.                                          *)
(***************************************************************************)

\* Each of -S 1 to -S C is given once (-S 0, which makes nothing, may be given too), and a
\* command without -C is given once.
StepsOnce ==
  \A c \in ToolsCommands :
    /\ c.children <= 1 => Len(c.steps) <= 1
    /\ c.children > 1 /\ c.updates = 0 /\ c.steps # <<>> =>
         /\ \A j, k \in DOMAIN c.steps : c.steps[j] = c.steps[k] => j = k
         /\ \A n \in 1..c.children : \E j \in DOMAIN c.steps : c.steps[j] = n

\* The rows of a table that step k makes: those above Below up to UpTo.
Split(t) == cmd.children > 1 /\ t \notin Code
Below(t, k) ==
  IF Split(t) /\ k > 0 THEN (k - 1) * (RowsOf(t) \div cmd.children) ELSE 0
UpTo(t, k) ==
  IF ~Split(t) THEN RowsOf(t)
  ELSE IF k = 0 THEN 0
  ELSE Below(t, k) + (RowsOf(t) \div cmd.children)
         + (IF k = cmd.children THEN RowsOf(t) % cmd.children ELSE 0)

\* The steps whose commands have ended.
Given == {cmd.steps[j] : j \in DOMAIN cmd.steps}
Past  == IF cmd.children > 1 THEN (1..cmd.children) \ Given ELSE {}

MadeBefore(t, i) == \E k \in Past : Below(t, k) < i /\ i <= UpTo(t, k)
MadeNow(j, i) ==
  \/ /\ tools_pc \in {"tables", "rows"} /\ j < at_table
     /\ Below(InOrder[j], stepnum) < i /\ i <= UpTo(InOrder[j], stepnum)
  \/ /\ tools_pc = "rows" /\ j = at_table
     /\ Below(InOrder[j], stepnum) < i /\ i < at_row

\* What is written are rows of the tables; of all but the code tables, which every step makes,
\* those that the steps before have made and this one has made so far.
WrittenIs ==
  /\ \A w \in written :
       \E j \in 1..10 : InOrder[j] \in cmd.tables
                        /\ \E i \in 1..RowsOf(InOrder[j]) : w = <<InOrder[j], i>>
  /\ \A j \in 1..10 : InOrder[j] \in cmd.tables =>
       \A i \in Int :
         /\ MadeNow(j, i) => <<InOrder[j], i>> \in written
         /\ InOrder[j] \notin Code =>
              (<<InOrder[j], i>> \in written <=> MadeBefore(InOrder[j], i) \/ MadeNow(j, i))

OnceInv ==
  /\ cmd.children <= 1 => Len(cmd.steps) <= 1
  /\ cmd.children > 1 /\ cmd.updates = 0 =>
       \A j, k \in DOMAIN cmd.steps : cmd.steps[j] = cmd.steps[k] => j = k

RowsLeft ==
  LET t == InOrder[at_table]
  IN  /\ rows_left >= 0 /\ Below(t, stepnum) < at_row
      /\ at_row + rows_left = UpTo(t, stepnum) + 1

\* The rows of the sets, from the first one asked for.
FirstSet == IF stepnum > 0 THEN stepnum - 1 ELSE 0
Before2(u) == u * RowsPerSet
InSet(u, i) ==
  /\ Before2(u) < i
  /\ IF u < tools_upd_num THEN i <= Before2(u) + RowsPerSet ELSE tools_pc = "rows" /\ i < at_row

SetsWritten ==
  /\ FirstSet <= tools_upd_num /\ (tools_upd_num <= cmd.updates \/ tools_upd_num = FirstSet)
  /\ \A w : w \in written <=>
              \E u \in FirstSet..tools_upd_num : \E i \in Int : w = <<u, i>> /\ InSet(u, i)

CInv ==
  /\ tools_pc \in {"shell", "tables", "sets", "rows", "refused", "stop"}
  /\ cmd = NoCommand => tools_pc = "shell" /\ written = {}
  /\ cmd # NoCommand => OnceInv
  /\ tools_pc \in {"tables", "rows", "sets"} => cmd # NoCommand /\ Valid
  /\ tools_pc \in {"shell", "tables", "rows"} /\ cmd # NoCommand /\ Valid /\ cmd.updates = 0 =>
       WrittenIs
  /\ tools_pc = "rows" /\ cmd.updates = 0 => RowsLeft
  /\ tools_pc = "shell" /\ cmd.updates > 0 /\ Valid => written = {}
  /\ tools_pc \in {"sets", "rows"} /\ cmd.updates > 0 => SetsWritten
  /\ tools_pc = "rows" /\ cmd.updates > 0 =>
       rows_left >= 0 /\ Before2(tools_upd_num) < at_row /\ tools_upd_num < cmd.updates
  /\ tools_pc = "stop" => ToolsComplete

-----------------------------------------------------------------------------
\* The pieces of the steps lie one after the other and are together the table.
LEMMA Grows2 ==
  ASSUME NEW q \in Nat, NEW j \in Nat, NEW k \in Nat, j < k
  PROVE  j * q + q <= k * q /\ j * q \in Nat /\ k * q \in Nat
<1>1. PICK d \in Nat : k = (j + 1) + d
  <2>1. k - (j + 1) \in Nat /\ k = (j + 1) + (k - (j + 1))
    OBVIOUS
  <2> QED
    BY <2>1
<1>2. k * q = (j * q + q) + d * q
  BY <1>1
<1>3. j * q \in Nat /\ k * q \in Nat /\ d * q \in Nat
  OBVIOUS
<1> QED
  BY <1>2, <1>3

LEMMA RowsNat ==
  ASSUME cmd.permille \in Nat, NEW t \in Table
  PROVE  RowsOf(t) \in Nat
<1>1. ToolsBase[t] \in Nat /\ cmd.permille * ToolsBase[t] \in Nat
  BY ToolsAssumption
<1>2. (cmd.permille * ToolsBase[t]) \div 1000 \in Nat /\ cmd.permille \div 1000 \in Nat
  BY <1>1
<1>3. ScaledBase(cmd.permille, t) \in Nat /\ IntScale(cmd.permille) \in Nat
  BY <1>1, <1>2 DEF ScaledBase, IntScale, AtLeastOne
<1> DEFINE b == ScaledBase(cmd.permille, t)
           n == IntScale(cmd.permille)
<1>4. b \in Nat /\ n \in Nat /\ RowsOf(t) = IF t \in Code THEN ToolsBase[t] ELSE b * n
  BY <1>3 DEF AllRows, RowsOf
<1> HIDE DEF b, n
<1>5. b * n \in Nat
  BY <1>4
<1> QED
  BY <1>1, <1>4, <1>5

LEMMA DivNat ==
  ASSUME NEW a \in Nat, NEW b \in Nat \ {0}
  PROVE  /\ a \div b \in Nat /\ a % b \in Nat
         /\ a = b * (a \div b) + (a % b)
OBVIOUS

\* The numbers: C pieces of q rows, the last one with the r rows that are over.
LEMMA PieceNumbers ==
  ASSUME cmd.permille \in Nat, NEW t \in Table, Split(t), cmd.children \in Nat,
         NEW k \in 1..cmd.children
  PROVE  LET C == cmd.children
             q == RowsOf(t) \div C
             r == RowsOf(t) % C
         IN  /\ C \in Nat \ {0} /\ q \in Nat /\ r \in Nat /\ RowsOf(t) = C * q + r
             /\ Below(t, k) = (k - 1) * q
             /\ UpTo(t, k) = (k - 1) * q + q + (IF k = C THEN r ELSE 0)
<1>1. cmd.children \in Nat \ {0} /\ k > 0 /\ k # 0
  BY DEF Split
<1>2. RowsOf(t) \in Nat
  BY RowsNat
<1> QED
  BY <1>1, <1>2, DivNat DEF Below, UpTo

LEMMA PieceWithin ==
  ASSUME cmd.permille \in Nat, NEW t \in Table, cmd.children \in Nat,
         NEW k \in Int, cmd.children > 1 => k \in 0..cmd.children
  PROVE  /\ Below(t, k) \in Nat /\ UpTo(t, k) \in Nat
         /\ Below(t, k) <= UpTo(t, k) /\ UpTo(t, k) <= RowsOf(t)
<1>0. RowsOf(t) \in Nat
  BY RowsNat
<1>1. CASE ~Split(t)
  BY <1>0, <1>1 DEF Below, UpTo
<1>2. CASE Split(t) /\ k = 0
  BY <1>0, <1>2 DEF Below, UpTo
<1>3. CASE Split(t) /\ k # 0
  <2> DEFINE C == cmd.children
             q == RowsOf(t) \div C
             r == RowsOf(t) % C
  <2>1. k \in 1..C
    BY <1>3 DEF Split
  <2>2. /\ C \in Nat \ {0} /\ q \in Nat /\ r \in Nat /\ RowsOf(t) = C * q + r
        /\ Below(t, k) = (k - 1) * q
        /\ UpTo(t, k) = (k - 1) * q + q + (IF k = C THEN r ELSE 0)
    BY <1>3, <2>1, PieceNumbers
  <2> HIDE DEF C, q, r
  <2>3. (k - 1) * q + q <= C * q /\ (k - 1) * q \in Nat /\ C * q \in Nat
    <3>1. k - 1 \in Nat /\ k - 1 < C
      BY <2>1, <2>2
    <3> QED
      BY <2>2, <3>1, Grows2
  <2> QED
    BY <2>2, <2>3
<1> QED
  BY <1>1, <1>2, <1>3

LEMMA PiecesApart ==
  ASSUME cmd.permille \in Nat, NEW t \in Table, Split(t), cmd.children \in Nat,
         NEW j \in 1..cmd.children, NEW k \in 0..cmd.children, j # k, NEW i \in Int,
         Below(t, j) < i, i <= UpTo(t, j)
  PROVE  ~(Below(t, k) < i /\ i <= UpTo(t, k))
<1>1. CASE k = 0
  BY <1>1, PieceWithin DEF UpTo, Below
<1>2. CASE k # 0
  <2> DEFINE C == cmd.children
             q == RowsOf(t) \div C
             r == RowsOf(t) % C
  <2>1. k \in 1..C /\ j \in 1..C
    BY <1>2
  <2>2. /\ C \in Nat \ {0} /\ q \in Nat /\ r \in Nat
        /\ Below(t, k) = (k - 1) * q
        /\ UpTo(t, k) = (k - 1) * q + q + (IF k = C THEN r ELSE 0)
    BY <2>1, PieceNumbers
  <2>3. /\ Below(t, j) = (j - 1) * q
        /\ UpTo(t, j) = (j - 1) * q + q + (IF j = C THEN r ELSE 0)
    BY <2>1, PieceNumbers
  <2> HIDE DEF C, q, r
  <2>4. CASE j < k
    <3>1. (j - 1) * q + q <= (k - 1) * q /\ (j - 1) * q \in Nat /\ (k - 1) * q \in Nat
      <4>1. j - 1 \in Nat /\ k - 1 \in Nat /\ j - 1 < k - 1
        BY <2>1, <2>2, <2>4
      <4> QED
        BY <2>2, <4>1, Grows2
    <3>2. j # C
      BY <2>1, <2>2, <2>4
    <3> QED
      BY <2>2, <2>3, <3>1, <3>2
  <2>5. CASE k < j
    <3>1. (k - 1) * q + q <= (j - 1) * q /\ (j - 1) * q \in Nat /\ (k - 1) * q \in Nat
      <4>1. j - 1 \in Nat /\ k - 1 \in Nat /\ k - 1 < j - 1
        BY <2>1, <2>2, <2>5
      <4> QED
        BY <2>2, <4>1, Grows2
    <3>2. k # C
      BY <2>1, <2>2, <2>5
    <3> QED
      BY <2>2, <2>3, <3>1, <3>2
  <2> QED
    BY <2>1, <2>2, <2>4, <2>5
<1> QED
  BY <1>1, <1>2

LEMMA PiecesCover ==
  ASSUME cmd.permille \in Nat, NEW t \in Table, Split(t), cmd.children \in Nat,
         NEW i \in 1..RowsOf(t)
  PROVE  \E k \in 1..cmd.children : Below(t, k) < i /\ i <= UpTo(t, k)
<1> DEFINE C == cmd.children
           q == RowsOf(t) \div C
           r == RowsOf(t) % C
<1>0. C > 1 /\ RowsOf(t) \in Nat
  BY RowsNat DEF Split
<1>1. /\ C \in Nat \ {0} /\ q \in Nat /\ r \in Nat /\ RowsOf(t) = C * q + r
  <2>1. cmd.children \in Nat \ {0}
    BY <1>0
  <2> QED
    BY <1>0, <2>1, DivNat
<1>2. \A k \in 1..C :
        /\ Below(t, k) = (k - 1) * q
        /\ UpTo(t, k) = (k - 1) * q + q + (IF k = C THEN r ELSE 0)
  BY PieceNumbers
<1>3. i \in Nat /\ 1 <= i /\ i <= C * q + r
  BY <1>1
<1> HIDE DEF C, q, r
<1>4. (C - 1) * q + q = C * q /\ (C - 1) * q \in Nat /\ C - 1 \in Nat
  BY <1>1
<1>5. CASE i > (C - 1) * q
  <2>1. C \in 1..C
    BY <1>1
  <2>2. Below(t, C) < i /\ i <= UpTo(t, C)
    BY <1>1, <1>2, <1>3, <1>4, <1>5, <2>1
  <2> QED
    BY <2>1, <2>2 DEF C
<1>6. CASE i <= (C - 1) * q
  <2>1. q > 0
    BY <1>1, <1>3, <1>4, <1>6
  <2> DEFINE m == (i - 1) \div q
             o == (i - 1) % q
  <2>2. m \in Nat /\ o \in Nat /\ i - 1 = q * m + o /\ o < q
    <3>1. i - 1 \in Nat /\ q \in Nat \ {0}
      BY <1>1, <1>3, <2>1
    <3> HIDE DEF m, o
    <3>2. m \in Nat /\ o \in 0..(q - 1) /\ i - 1 = q * m + o
      BY <3>1 DEF m, o
    <3> QED
      BY <3>1, <3>2
  <2> HIDE DEF m, o
  <2>3. m < C - 1
    <3>1. SUFFICES ASSUME ~(m < C - 1) PROVE FALSE
      OBVIOUS
    <3>2. q * m >= (C - 1) * q
      <4>1. CASE m = C - 1
        BY <1>1, <1>4, <2>2, <4>1
      <4>2. CASE C - 1 < m
        <5>1. (C - 1) * q + q <= m * q /\ m * q \in Nat
          BY <1>1, <1>4, <2>2, <4>2, Grows2
        <5>2. m * q = q * m
          BY <1>1, <2>2
        <5> QED
          BY <1>1, <1>4, <5>1, <5>2
      <4> QED
        BY <1>4, <2>2, <3>1, <4>1, <4>2
    <3>3. q * m \in Nat
      BY <1>1, <2>2
    <3> QED
      BY <1>3, <1>4, <1>6, <2>2, <3>2, <3>3
  <2>4. m + 1 \in 1..C /\ m + 1 # C /\ (m + 1) - 1 = m
    BY <1>1, <2>2, <2>3
  <2>5. m * q = q * m /\ q * m \in Nat
    BY <1>1, <2>2
  <2>6. Below(t, m + 1) < i /\ i <= UpTo(t, m + 1)
    BY <1>1, <1>2, <1>3, <2>2, <2>4, <2>5
  <2> QED
    BY <2>4, <2>6 DEF C
<1> QED
  BY <1>3, <1>4, <1>5, <1>6

-----------------------------------------------------------------------------
\* The actions.  What is written stays what it has to be where the rows made do not change.
LEMMA WrittenFrame ==
  ASSUME WrittenIs, cmd' = cmd, written' = written,
         \A j \in 1..10 : InOrder[j] \in cmd.tables =>
           \A i \in Int : MadeNow(j, i)' <=> MadeNow(j, i)
  PROVE  WrittenIs'
<1>1. \A t, k : Below(t, k)' = Below(t, k) /\ UpTo(t, k)' = UpTo(t, k)
  BY DEF Below, UpTo, Split, RowsOf
<1>2. Past' = Past
  BY DEF Past, Given
<1>3. \A t, i : MadeBefore(t, i)' <=> MadeBefore(t, i)
  BY <1>1, <1>2 DEF MadeBefore
<1>4. \A t : RowsOf(t)' = RowsOf(t)
  BY DEF RowsOf
<1> QED
  BY <1>3, <1>4 DEF WrittenIs

\* No step is before the first command.
LEMMA ChoosingC == ASSUME StepsOnce, TInv, CInv, Choose PROVE CInv'
<1>1. cmd' \in ToolsCommands /\ tools_pc' = "shell" /\ written = {} /\ written' = {}
  BY DEF Choose, CInv
<1>2. OnceInv'
  <2>1. cmd'.children > 1 /\ cmd'.updates = 0 /\ cmd'.steps # <<>> =>
          \A j, k \in DOMAIN cmd'.steps : cmd'.steps[j] = cmd'.steps[k] => j = k
    BY <1>1 DEF StepsOnce
  <2>2. cmd'.children <= 1 => Len(cmd'.steps) <= 1
    BY <1>1 DEF StepsOnce
  <2>3. cmd'.steps = <<>> => DOMAIN cmd'.steps = {}
    OBVIOUS
  <2> QED
    BY <2>1, <2>2, <2>3 DEF OnceInv
<1>3. ASSUME Valid', cmd'.updates = 0 PROVE WrittenIs'
  <2>1. ASSUME cmd'.children > 1 PROVE \A n \in 1..cmd'.children : n \in Given'
    <3>1. cmd'.steps # <<>>
      BY <1>1, <2>1, <1>3, ToolsAssumption DEF Valid, stepnum
    <3>2. \A n \in 1..cmd'.children : \E j \in DOMAIN cmd'.steps : cmd'.steps[j] = n
      BY <1>1, <1>3, <2>1, <3>1 DEF StepsOnce
    <3> QED
      BY <3>2 DEF Given
  <2>2. \A n : n \notin Past'
    BY <2>1 DEF Past
  <2>3. \A t, i : ~MadeBefore(t, i)'
    BY <2>2 DEF MadeBefore
  <2>4. \A j, i : ~MadeNow(j, i)'
    BY <1>1 DEF MadeNow
  <2> QED
    BY <1>1, <2>3, <2>4 DEF WrittenIs
<1>4. cmd' # NoCommand \/ (tools_pc' = "shell" /\ written' = {})
  BY <1>1
<1> QED
  BY <1>1, <1>2, <1>3, <1>4 DEF CInv

LEMMA StartTablesC == ASSUME TInv, CInv, MainTables PROVE CInv'
<1>1. /\ tools_pc = "shell" /\ tools_pc' = "tables" /\ cmd # NoCommand /\ cmd' = cmd /\ Valid
      /\ cmd.updates = 0 /\ at_table' = 1 /\ written' = written
  BY DEF MainTables
<1>2. WrittenIs /\ OnceInv
  BY <1>1 DEF CInv
<1>3. \A j \in 1..10 : \A i \in Int : MadeNow(j, i)' <=> MadeNow(j, i)
  BY <1>1 DEF MadeNow
<1>4. WrittenIs'
  BY <1>1, <1>2, <1>3, WrittenFrame
<1> QED
  BY <1>1, <1>2, <1>4 DEF CInv, OnceInv, Valid, stepnum

LEMMA StartUpdatesC == ASSUME TInv, CInv, MainUpdates PROVE CInv'
<1>1. /\ tools_pc = "shell" /\ tools_pc' = "sets" /\ cmd # NoCommand /\ cmd' = cmd /\ Valid
      /\ cmd.updates > 0 /\ written' = written /\ tools_upd_num' = FirstSet
  BY DEF MainUpdates, FirstSet
<1>2. OnceInv /\ written = {} /\ GoodCommand
  BY <1>1 DEF CInv, TInv
<1>3. FirstSet' = FirstSet /\ FirstSet \in Nat
  BY <1>1, <1>2 DEF FirstSet, stepnum, GoodCommand
<1>4. SetsWritten'
  <2>1. \A u \in FirstSet..FirstSet : \A i : ~InSet(u, i)'
    BY <1>1, <1>3 DEF InSet
  <2> QED
    BY <1>1, <1>2, <1>3, <2>1 DEF SetsWritten
<1> QED
  BY <1>1, <1>2, <1>4 DEF CInv, OnceInv, Valid, stepnum, GoodCommand

LEMMA RefusingC == ASSUME TInv, CInv, Refuse PROVE CInv'
BY DEF Refuse, CInv, OnceInv

LEMMA SkippingC == ASSUME TInv, CInv, SkipTable PROVE CInv'
<1>1. /\ tools_pc = "tables" /\ tools_pc' = "tables" /\ cmd' = cmd /\ written' = written
      /\ at_table' = at_table + 1 /\ cmd.updates = 0 /\ InOrder[at_table] \notin cmd.tables
      /\ at_table \in Nat
  BY DEF SkipTable, tnum, TInv, TablesInv, Numbers2
<1>2. WrittenIs /\ OnceInv /\ Valid /\ cmd # NoCommand
  BY <1>1 DEF CInv
<1>3. \A j \in 1..10 : InOrder[j] \in cmd.tables => \A i \in Int : MadeNow(j, i)' <=> MadeNow(j, i)
  <2>1. \A j \in 1..10 : InOrder[j] \in cmd.tables => (j < at_table + 1 <=> j < at_table)
    BY <1>1
  <2>2. stepnum' = stepnum
    BY <1>1 DEF stepnum
  <2>3. \A j, i : (Below(InOrder[j], stepnum) < i /\ i <= UpTo(InOrder[j], stepnum))' <=>
                  (Below(InOrder[j], stepnum) < i /\ i <= UpTo(InOrder[j], stepnum))
    BY <1>1 DEF Below, UpTo, Split, RowsOf, stepnum
  <2> QED
    BY <1>1, <2>1, <2>3 DEF MadeNow
<1>4. WrittenIs'
  BY <1>1, <1>2, <1>3, WrittenFrame
<1> QED
  BY <1>1, <1>2, <1>4 DEF CInv, OnceInv, Valid, stepnum

LEMMA BeginningC == ASSUME TInv, CInv, BeginTable PROVE CInv'
<1> DEFINE t == InOrder[at_table]
<1>1. /\ tools_pc = "tables" /\ tools_pc' = "rows" /\ cmd' = cmd /\ written' = written
      /\ at_table' = at_table /\ cmd.updates = 0 /\ at_table \in 1..10 /\ tnum = t /\ StepInv
      /\ GoodCommand
  BY InOrderTables DEF BeginTable, tnum, TInv, TablesInv, Numbers2
<1>2. WrittenIs /\ OnceInv /\ Valid /\ cmd # NoCommand
  BY <1>1 DEF CInv
<1>3. cmd.permille \in Nat /\ cmd.children \in Nat /\ stepnum \in Int /\ t \in Table
      /\ (cmd.children > 1 => stepnum \in 0..cmd.children)
  BY <1>1, InOrderTables DEF GoodCommand, stepnum, StepInv
<1> HIDE DEF t
<1>4. RowsOf(t) \in Nat /\ Below(t, stepnum) \in Nat /\ UpTo(t, stepnum) \in Nat
      /\ Below(t, stepnum) <= UpTo(t, stepnum)
  BY <1>3, RowsNat, PieceWithin
<1>5. at_row' = Below(t, stepnum) + 1 /\ at_row' + rows_left' = UpTo(t, stepnum) + 1
      /\ rows_left' \in Int
  <2>1. CASE Split(t)
    <3> DEFINE q == RowsOf(t) \div cmd.children
               r == RowsOf(t) % cmd.children
    <3>1. /\ at_row' = RowsOfStep(t, cmd.children, stepnum) * (stepnum - 1) + 1
          /\ rows_left' = RowsOfStep(t, cmd.children, stepnum) + Extra(RowsOf(t))
      BY <1>1, <2>1 DEF BeginTable, Split
    <3>2. cmd.children \in Nat \ {0} /\ stepnum \in 0..cmd.children
      BY <1>3, <2>1 DEF Split
    <3>3. q \in Nat /\ r \in Nat
      BY <1>4, <3>2, DivNat
    <3>4. CASE stepnum = 0
      <4>1. stepnum # cmd.children
        BY <3>2, <3>4
      <4>2. at_row' = 0 * (0 - 1) + 1 /\ rows_left' = 0 + 0
        BY <3>1, <3>4, <4>1 DEF RowsOfStep, Extra
      <4> QED
        BY <2>1, <3>4, <4>2 DEF Below, UpTo
    <3>5. CASE stepnum # 0
      <4>1. at_row' = q * (stepnum - 1) + 1
            /\ rows_left' = q + (IF stepnum = cmd.children THEN r ELSE 0)
        BY <3>1, <3>5 DEF RowsOfStep, Extra
      <4>2. stepnum > 0
        BY <3>2, <3>5
      <4>3. Below(t, stepnum) = (stepnum - 1) * q
            /\ UpTo(t, stepnum) = Below(t, stepnum) + q + (IF stepnum = cmd.children THEN r ELSE 0)
        BY <2>1, <3>5, <4>2 DEF Below, UpTo
      <4> HIDE DEF q, r
      <4>4. q * (stepnum - 1) = (stepnum - 1) * q /\ q * (stepnum - 1) \in Int
        BY <1>3, <3>3
      <4> QED
        BY <1>3, <3>3, <4>1, <4>3, <4>4
    <3> QED
      BY <3>4, <3>5
  <2>2. CASE ~Split(t)
    BY <1>1, <1>4, <2>2 DEF BeginTable, Split, Below, UpTo
  <2> QED
    BY <2>1, <2>2
<1>6. /\ \A u, k : Below(u, k)' = Below(u, k) /\ UpTo(u, k)' = UpTo(u, k)
      /\ stepnum' = stepnum /\ t' = t
  BY <1>1 DEF Below, UpTo, Split, RowsOf, stepnum, t
<1>7. \A j \in 1..10 : \A i \in Int : MadeNow(j, i)' <=> MadeNow(j, i)
  <2>1. SUFFICES ASSUME NEW j \in 1..10, NEW i \in Int PROVE MadeNow(j, i)' <=> MadeNow(j, i)
    OBVIOUS
  <2>2. j = at_table => ~(Below(InOrder[j], stepnum) < i /\ i < at_row')
    BY <1>4, <1>5 DEF t
  <2>3. (Below(InOrder[j], stepnum) < i /\ i <= UpTo(InOrder[j], stepnum))' <=>
        (Below(InOrder[j], stepnum) < i /\ i <= UpTo(InOrder[j], stepnum))
    BY <1>1 DEF Below, UpTo, Split, RowsOf, stepnum
  <2>4. (Below(InOrder[j], stepnum) < i /\ i < at_row)' <=>
        (Below(InOrder[j], stepnum) < i /\ i < at_row')
    BY <1>1 DEF Below, Split, RowsOf, stepnum
  <2> QED
    BY <1>1, <2>2, <2>3, <2>4 DEF MadeNow
<1>8. WrittenIs'
  BY <1>1, <1>2, <1>7, WrittenFrame
<1>9. RowsLeft'
  <2>1. Below(InOrder[at_table], stepnum)' = Below(t, stepnum)
        /\ UpTo(InOrder[at_table], stepnum)' = UpTo(t, stepnum)
    BY <1>1 DEF Below, UpTo, Split, RowsOf, stepnum, t
  <2> QED
    BY <1>4, <1>5, <2>1 DEF RowsLeft
<1> QED
  BY <1>1, <1>2, <1>8, <1>9 DEF CInv, OnceInv, Valid, stepnum

\* A row more.
LEMMA MakingC == ASSUME TInv, CInv, MakeRow PROVE CInv'
<1>1. /\ tools_pc = "rows" /\ tools_pc' = "rows" /\ cmd' = cmd /\ at_table' = at_table
      /\ at_row' = at_row + 1 /\ rows_left' = rows_left - 1 /\ tools_upd_num' = tools_upd_num
      /\ rows_left > 0 /\ rows_left \in Int /\ at_row \in Int /\ tools_upd_num \in Nat
      /\ at_table \in Nat \ {0}
      /\ written' = written \cup {<<IF cmd.updates > 0 THEN tools_upd_num ELSE tnum, at_row>>}
      /\ GoodCommand
  BY DEF MakeRow, TInv, Numbers2
<1>2. OnceInv /\ Valid /\ cmd # NoCommand /\ OnceInv' /\ Valid'
  BY <1>1 DEF CInv, OnceInv, Valid, stepnum
<1>3. cmd.permille \in Nat /\ cmd.children \in Nat /\ stepnum \in Int /\ cmd.updates \in Nat
  BY <1>1 DEF GoodCommand, stepnum
<1>4. CASE cmd.updates = 0
  <2> DEFINE t == InOrder[at_table]
  <2>1. /\ t \in cmd.tables /\ t \in Table /\ at_table \in 1..10 /\ tnum = t
        /\ (cmd.children > 1 => stepnum \in 0..cmd.children)
    BY <1>1, <1>4, InOrderTables DEF TInv, TableRowsInv, StepInv, tnum
  <2>2. WrittenIs /\ rows_left >= 0 /\ Below(t, stepnum) < at_row
        /\ at_row + rows_left = UpTo(t, stepnum) + 1
    BY <1>1, <1>2, <1>4 DEF CInv, RowsLeft
  <2>3. /\ Below(t, stepnum) \in Nat /\ UpTo(t, stepnum) \in Nat /\ RowsOf(t) \in Nat
        /\ UpTo(t, stepnum) <= RowsOf(t)
    <3> HIDE DEF t
    <3> QED
      BY <1>3, <2>1, PieceWithin, RowsNat
  <2>4. at_row \in 1..RowsOf(t)
    <3> HIDE DEF t
    <3> QED
      BY <1>1, <2>2, <2>3
  <2>5. \A u, k : Below(u, k)' = Below(u, k) /\ UpTo(u, k)' = UpTo(u, k)
    BY <1>1 DEF Below, UpTo, Split, RowsOf
  <2>6. Past' = Past /\ (\A u : RowsOf(u)' = RowsOf(u))
    BY <1>1 DEF Past, Given, RowsOf
  <2>7. \A u, i : MadeBefore(u, i)' <=> MadeBefore(u, i)
    BY <2>5, <2>6 DEF MadeBefore
  <2>8. \A j \in 1..10 : \A i \in Int :
          MadeNow(j, i)' <=> MadeNow(j, i) \/ (j = at_table /\ i = at_row)
    <3> SUFFICES ASSUME NEW j \in 1..10, NEW i \in Int
                 PROVE  MadeNow(j, i)' <=> MadeNow(j, i) \/ (j = at_table /\ i = at_row)
      OBVIOUS
    <3>1. (Below(InOrder[j], stepnum) < i /\ i <= UpTo(InOrder[j], stepnum))' <=>
          (Below(InOrder[j], stepnum) < i /\ i <= UpTo(InOrder[j], stepnum))
      BY <1>1 DEF Below, UpTo, Split, RowsOf, stepnum
    <3>2. (Below(InOrder[j], stepnum) < i /\ i < at_row)' <=>
          (Below(InOrder[j], stepnum) < i /\ i < at_row')
      BY <1>1 DEF Below, Split, RowsOf, stepnum
    <3>3. i < at_row' <=> i < at_row \/ i = at_row
      BY <1>1
    <3>4. CASE j = at_table
      BY <1>1, <2>2, <3>2, <3>3, <3>4 DEF MadeNow
    <3>5. CASE j # at_table
      BY <1>1, <3>1, <3>5 DEF MadeNow
    <3> QED
      BY <3>4, <3>5
  <2>9. written' = written \cup {<<t, at_row>>}
    BY <1>1, <1>4, <2>1
  <2>10. WrittenIs'
    <3>1. \A w \in written' :
            \E j \in 1..10 : InOrder[j] \in cmd.tables
                             /\ \E i \in 1..RowsOf(InOrder[j]) : w = <<InOrder[j], i>>
      BY <2>1, <2>2, <2>4, <2>9 DEF WrittenIs
    <3>2. ASSUME NEW j \in 1..10, NEW i \in Int
          PROVE  <<InOrder[j], i>> \in written' <=>
                   <<InOrder[j], i>> \in written \/ (j = at_table /\ i = at_row)
      <4>1. InOrder[j] = t <=> j = at_table
        BY <2>1, InOrderTables
      <4> HIDE DEF t
      <4> QED
        BY <2>9, <4>1
    <3>3. \A j \in 1..10 : InOrder[j] \in cmd.tables =>
            \A i \in Int :
              /\ MadeNow(j, i)' => <<InOrder[j], i>> \in written'
              /\ InOrder[j] \notin Code =>
                   (<<InOrder[j], i>> \in written' <=>
                      MadeBefore(InOrder[j], i)' \/ MadeNow(j, i)')
      BY <2>2, <2>7, <2>8, <3>2 DEF WrittenIs
    <3> QED
      BY <1>1, <2>6, <3>1, <3>3 DEF WrittenIs
  <2>11. RowsLeft'
    <3>1. Below(InOrder[at_table], stepnum)' = Below(t, stepnum)
          /\ UpTo(InOrder[at_table], stepnum)' = UpTo(t, stepnum)
      BY <1>1 DEF Below, UpTo, Split, RowsOf, stepnum
    <3> HIDE DEF t
    <3> QED
      BY <1>1, <2>2, <2>3, <3>1 DEF RowsLeft
  <2> QED
    BY <1>1, <1>2, <1>4, <2>10, <2>11 DEF CInv
<1>5. CASE cmd.updates > 0
  <2>1. SetsWritten /\ Before2(tools_upd_num) < at_row /\ tools_upd_num < cmd.updates
    BY <1>1, <1>5 DEF CInv
  <2>2. FirstSet' = FirstSet /\ (\A u : Before2(u)' = Before2(u)) /\ RowsPerSet' = RowsPerSet
        /\ FirstSet \in Nat
    BY <1>1, <1>3 DEF FirstSet, stepnum, Before2, RowsPerSet
  <2>3. ASSUME NEW u \in FirstSet..tools_upd_num, NEW i \in Int
        PROVE  InSet(u, i)' <=> InSet(u, i) \/ (u = tools_upd_num /\ i = at_row)
    <3>1. i < at_row' <=> i < at_row \/ i = at_row
      BY <1>1
    <3>2. CASE u < tools_upd_num
      BY <1>1, <2>2, <3>2 DEF InSet
    <3>3. CASE ~(u < tools_upd_num)
      <4>1. u = tools_upd_num
        BY <1>1, <2>2, <3>3
      <4> QED
        BY <1>1, <2>1, <2>2, <3>1, <4>1 DEF InSet
    <3> QED
      BY <3>2, <3>3
  <2>4. written' = written \cup {<<tools_upd_num, at_row>>}
    BY <1>1, <1>5
  <2>5. tools_upd_num \in FirstSet..tools_upd_num
    BY <1>1, <2>1, <2>2 DEF SetsWritten
  <2>6. ASSUME NEW w
        PROVE  w \in written' <=>
                 \E u \in FirstSet..tools_upd_num : \E i \in Int : w = <<u, i>> /\ InSet(u, i)'
    <3>1. w \in written <=> \E u \in FirstSet..tools_upd_num : \E i \in Int : w = <<u, i>> /\ InSet(u, i)
      BY <2>1 DEF SetsWritten
    <3>2. CASE w = <<tools_upd_num, at_row>>
      BY <1>1, <2>3, <2>4, <2>5, <3>2
    <3>3. CASE w # <<tools_upd_num, at_row>>
      BY <2>3, <2>4, <3>1, <3>3
    <3> QED
      BY <3>2, <3>3
  <2>7. SetsWritten'
    BY <1>1, <2>1, <2>2, <2>6 DEF SetsWritten
  <2>8. rows_left' >= 0 /\ Before2(tools_upd_num)' < at_row' /\ tools_upd_num' < cmd'.updates
    <3>1. Before2(tools_upd_num)' = Before2(tools_upd_num)
      BY <1>1, <2>2 DEF Before2
    <3>2. Before2(tools_upd_num) \in Int
      BY <1>1, <1>3, PerSet DEF Before2
    <3> QED
      BY <1>1, <2>1, <3>1, <3>2
  <2> QED
    BY <1>1, <1>2, <1>5, <2>7, <2>8 DEF CInv
<1> QED
  BY <1>3, <1>4, <1>5

LEMMA PerSetNat ==
  ASSUME cmd.permille \in Nat
  PROVE  RowsPerSet \in Nat
<1> DEFINE b == ScaledBase(cmd.permille, "ORDER_LINE")
           n == IntScale(cmd.permille)
           q == b \div SetUnits
<1>1. ToolsBase["ORDER_LINE"] \in Nat /\ SetUnits \in Nat \ {0} /\ UPD_PCT \in Nat
  BY ToolsAssumption DEF Table
<1>2. cmd.permille * ToolsBase["ORDER_LINE"] \in Nat
  BY <1>1
<1>3. (cmd.permille * ToolsBase["ORDER_LINE"]) \div 1000 \in Nat /\ cmd.permille \div 1000 \in Nat
  BY <1>2
<1>4. b \in Nat /\ n \in Nat
  BY <1>1, <1>3 DEF ScaledBase, IntScale, AtLeastOne
<1> HIDE DEF b, n
<1>5. q \in Nat
  BY <1>1, <1>4, DivNat
<1> HIDE DEF q
<1>6. q * n \in Nat
  BY <1>4, <1>5
<1>7. (q * n) * UPD_PCT \in Nat
  BY <1>1, <1>6
<1> QED
  BY <1>7 DEF RowsPerSet, q, b, n

LEMMA BeginningSetC == ASSUME TInv, CInv, BeginSet PROVE CInv'
<1>1. /\ tools_pc = "sets" /\ tools_pc' = "rows" /\ cmd' = cmd /\ tools_upd_num' = tools_upd_num
      /\ tools_upd_num < cmd.updates /\ at_row' = Before2(tools_upd_num) + 1 /\ rows_left' = RowsPerSet
      /\ written' = written /\ GoodCommand /\ tools_upd_num \in Nat /\ cmd.updates > 0
  BY DEF BeginSet, TInv, SetsInv, Numbers2, Before2
<1>2. SetsWritten /\ OnceInv /\ Valid /\ cmd # NoCommand /\ OnceInv' /\ Valid'
  BY <1>1 DEF CInv, OnceInv, Valid, stepnum
<1>3. RowsPerSet \in Nat /\ Before2(tools_upd_num) \in Int
  BY <1>1, PerSetNat DEF GoodCommand, Before2
<1>4. /\ FirstSet' = FirstSet /\ (\A u : Before2(u)' = Before2(u)) /\ RowsPerSet' = RowsPerSet
      /\ Before2(tools_upd_num)' = Before2(tools_upd_num)
  BY <1>1 DEF FirstSet, stepnum, Before2, RowsPerSet
<1>5. FirstSet \in Nat
  BY <1>1 DEF FirstSet, stepnum, GoodCommand
<1>6. ASSUME NEW u \in FirstSet..tools_upd_num, NEW i \in Int
      PROVE  InSet(u, i)' <=> InSet(u, i)
  <2>1. CASE u < tools_upd_num
    BY <1>1, <1>4, <2>1 DEF InSet
  <2>2. CASE ~(u < tools_upd_num)
    <3>1. u = tools_upd_num
      BY <1>1, <1>5, <2>2
    <3>2. ~InSet(u, i)
      BY <1>1, <3>1 DEF InSet
    <3>3. ~(Before2(tools_upd_num) < i /\ i < at_row')
      BY <1>1, <1>3
    <3>4. ~InSet(u, i)'
      BY <1>1, <1>4, <3>1, <3>3 DEF InSet
    <3> QED
      BY <3>2, <3>4
  <2> QED
    BY <2>1, <2>2
<1>7. SetsWritten'
  BY <1>1, <1>2, <1>4, <1>6 DEF SetsWritten
<1>8. rows_left' >= 0 /\ Before2(tools_upd_num)' < at_row' /\ tools_upd_num' < cmd'.updates
  BY <1>1, <1>3, <1>4
<1> QED
  BY <1>1, <1>2, <1>7, <1>8 DEF CInv

LEMMA EndingC == ASSUME TInv, CInv, EndRows PROVE CInv'
<1>1. /\ tools_pc = "rows" /\ cmd' = cmd /\ rows_left = 0 /\ at_row' = at_row
      /\ written' = written /\ GoodCommand /\ tools_upd_num \in Nat /\ at_table \in Nat \ {0}
      /\ at_row \in Int
  BY DEF EndRows, TInv, Numbers2
<1>2. OnceInv /\ Valid /\ cmd # NoCommand /\ OnceInv' /\ Valid'
  BY <1>1 DEF CInv, OnceInv, Valid, stepnum
<1>3. cmd.permille \in Nat /\ cmd.children \in Nat /\ stepnum \in Int /\ cmd.updates \in Nat
  BY <1>1 DEF GoodCommand, stepnum
<1>4. CASE cmd.updates = 0
  <2> DEFINE t == InOrder[at_table]
  <2>1. /\ t \in cmd.tables /\ t \in Table /\ at_table \in 1..10
        /\ (cmd.children > 1 => stepnum \in 0..cmd.children)
        /\ at_table' = at_table + 1 /\ tools_pc' = "tables"
    BY <1>1, <1>4, InOrderTables DEF TInv, TableRowsInv, StepInv, EndRows
  <2>2. WrittenIs /\ at_row + rows_left = UpTo(t, stepnum) + 1
    BY <1>1, <1>2, <1>4 DEF CInv, RowsLeft
  <2>3. UpTo(t, stepnum) \in Nat
    <3> HIDE DEF t
    <3> QED
      BY <1>3, <2>1, PieceWithin
  <2>4. \A j \in 1..10 : \A i \in Int : MadeNow(j, i)' <=> MadeNow(j, i)
    <3> SUFFICES ASSUME NEW j \in 1..10, NEW i \in Int
                 PROVE  MadeNow(j, i)' <=> MadeNow(j, i)
      OBVIOUS
    <3>1. (Below(InOrder[j], stepnum) < i /\ i <= UpTo(InOrder[j], stepnum))' <=>
          (Below(InOrder[j], stepnum) < i /\ i <= UpTo(InOrder[j], stepnum))
      BY <1>1 DEF Below, UpTo, Split, RowsOf, stepnum
    <3>2. i <= UpTo(t, stepnum) <=> i < at_row
      <4> HIDE DEF t
      <4> QED
        BY <1>1, <2>2, <2>3
    <3>3. CASE j = at_table
      BY <1>1, <2>1, <3>1, <3>2, <3>3 DEF MadeNow
    <3>4. CASE j # at_table
      BY <1>1, <2>1, <3>1, <3>4 DEF MadeNow
    <3> QED
      BY <3>3, <3>4
  <2>5. WrittenIs'
    BY <1>1, <2>2, <2>4, WrittenFrame
  <2> QED
    BY <1>1, <1>2, <1>4, <2>1, <2>5 DEF CInv
<1>5. CASE cmd.updates > 0
  <2>1. /\ tools_upd_num' = tools_upd_num + 1 /\ tools_pc' = "sets"
        /\ SetsWritten /\ Before2(tools_upd_num) < at_row /\ tools_upd_num < cmd.updates
        /\ at_row = (Before2(tools_upd_num) + RowsPerSet) + 1
    <3>1. SetRowsInv /\ rows_left = 0
      BY <1>1, <1>5 DEF TInv
    <3>2. RowsPerSet \in Int /\ Before2(tools_upd_num) \in Int
      BY <1>1, <1>3, PerSet DEF Before2
    <3>3. at_row + rows_left = (Before2(tools_upd_num) + RowsPerSet) + 1
      BY <3>1 DEF SetRowsInv, Before2
    <3>4. at_row = (Before2(tools_upd_num) + RowsPerSet) + 1
      BY <1>1, <3>2, <3>3
    <3> QED
      BY <1>1, <1>5, <3>4 DEF CInv, EndRows
  <2>2. /\ FirstSet' = FirstSet /\ (\A u : Before2(u)' = Before2(u)) /\ RowsPerSet' = RowsPerSet
        /\ FirstSet \in Nat /\ RowsPerSet \in Int /\ (\A u \in Int : Before2(u) \in Int)
    BY <1>1, <1>3, PerSet DEF FirstSet, stepnum, Before2, RowsPerSet
  <2>3. ASSUME NEW u \in FirstSet..tools_upd_num, NEW i \in Int
        PROVE  InSet(u, i)' <=> InSet(u, i)
    <3>1. CASE u < tools_upd_num
      BY <1>1, <2>1, <2>2, <3>1 DEF InSet
    <3>2. CASE ~(u < tools_upd_num)
      <4>1. u = tools_upd_num
        BY <1>1, <2>2, <3>2
      <4>2. i < at_row <=> i <= Before2(tools_upd_num) + RowsPerSet
        BY <1>1, <2>1, <2>2
      <4> QED
        BY <1>1, <2>1, <2>2, <4>1, <4>2 DEF InSet
    <3> QED
      BY <3>1, <3>2
  <2>4. ASSUME NEW u, u = tools_upd_num + 1, NEW i \in Int PROVE ~InSet(u, i)'
    BY <1>1, <2>1, <2>4 DEF InSet
  <2>5. ASSUME NEW w
        PROVE  w \in written' <=>
                 \E u \in FirstSet..(tools_upd_num + 1) : \E i \in Int : w = <<u, i>> /\ InSet(u, i)'
    <3>1. w \in written <=> \E u \in FirstSet..tools_upd_num : \E i \in Int : w = <<u, i>> /\ InSet(u, i)
      BY <2>1 DEF SetsWritten
    <3>2. \A u \in FirstSet..(tools_upd_num + 1) : u \in FirstSet..tools_upd_num \/ u = tools_upd_num + 1
      BY <1>1, <2>2
    <3>3. \A u \in FirstSet..tools_upd_num : u \in FirstSet..(tools_upd_num + 1)
      BY <1>1, <2>2
    <3>4. ASSUME w \in written'
          PROVE  \E u \in FirstSet..(tools_upd_num + 1) : \E i \in Int : w = <<u, i>> /\ InSet(u, i)'
      <4>1. PICK u \in FirstSet..tools_upd_num : \E i \in Int : w = <<u, i>> /\ InSet(u, i)
        BY <1>1, <3>1, <3>4
      <4>2. PICK i \in Int : w = <<u, i>> /\ InSet(u, i)
        BY <4>1
      <4>3. InSet(u, i)' /\ u \in FirstSet..(tools_upd_num + 1)
        BY <2>3, <3>3, <4>2
      <4> QED
        BY <4>2, <4>3
    <3>5. ASSUME NEW u \in FirstSet..(tools_upd_num + 1), NEW i \in Int, w = <<u, i>>, InSet(u, i)'
          PROVE  w \in written'
      <4>1. u \in FirstSet..tools_upd_num
        BY <2>4, <3>2, <3>5
      <4>2. InSet(u, i)
        BY <2>3, <3>5, <4>1
      <4> QED
        BY <1>1, <3>1, <3>5, <4>1, <4>2
    <3> QED
      BY <3>4, <3>5
  <2>6. SetsWritten'
    <3>1. FirstSet <= tools_upd_num + 1 /\ tools_upd_num + 1 <= cmd.updates
      BY <1>1, <1>3, <2>1, <2>2 DEF SetsWritten
    <3> QED
      BY <1>1, <2>1, <2>2, <2>5, <3>1 DEF SetsWritten
  <2> QED
    BY <1>1, <1>2, <1>5, <2>1, <2>6 DEF CInv
<1> QED
  BY <1>3, <1>4, <1>5

LEMMA StutteringC == ASSUME TInv, CInv, UNCHANGED tools_vars PROVE CInv'
<1>1. /\ tools_pc' = tools_pc /\ cmd' = cmd /\ at_table' = at_table /\ at_row' = at_row
      /\ rows_left' = rows_left /\ tools_upd_num' = tools_upd_num /\ written' = written
  BY DEF tools_vars
<1>2. \A j, i : MadeNow(j, i)' <=> MadeNow(j, i)
  BY <1>1 DEF MadeNow, Below, UpTo, Split, RowsOf, stepnum
<1>3. WrittenIs => WrittenIs'
  BY <1>1, <1>2, WrittenFrame
<1>4. (RowsLeft => RowsLeft') /\ (OnceInv => OnceInv') /\ Valid' = Valid
  BY <1>1 DEF RowsLeft, OnceInv, Below, UpTo, Split, RowsOf, stepnum, Valid
<1>5. \A u, i : InSet(u, i)' <=> InSet(u, i)
  BY <1>1 DEF InSet, Before2, RowsPerSet
<1>6. SetsWritten => SetsWritten'
  BY <1>1, <1>5 DEF SetsWritten, FirstSet, stepnum
<1>7. Before2(tools_upd_num)' = Before2(tools_upd_num)
  BY <1>1 DEF Before2, RowsPerSet
<1>8. ToolsComplete => ToolsComplete'
  BY <1>1 DEF ToolsComplete, tnum, stepnum, RowsOf, RowsPerSet
<1> QED
  BY <1>1, <1>3, <1>4, <1>6, <1>7, <1>8 DEF CInv

LEMMA TablesKnown ==
  ASSUME GoodCommand, NEW t \in cmd.tables
  PROVE  \E j \in 1..10 : t = InOrder[j]
<1>1. PICK T \in Options : cmd.tables = TablesOf(T)
  BY DEF GoodCommand
<1>2. t \in Table
  BY <1>1 DEF Options, TablesOf, DefaultTables, Table
<1>3. /\ InOrder[1] = "PART" /\ InOrder[2] = "PSUPP" /\ InOrder[3] = "SUPP" /\ InOrder[4] = "CUST"
      /\ InOrder[5] = "ORDER" /\ InOrder[6] = "LINE" /\ InOrder[7] = "ORDER_LINE"
      /\ InOrder[8] = "PART_PSUPP" /\ InOrder[9] = "NATION" /\ InOrder[10] = "REGION"
  BY DEF InOrder
<1> QED
  BY <1>2, <1>3 DEF Table

\* The command ends.  Either the next step is given, and this one's rows become those of a step
\* before; or it was the last one, and the rows are all there.
LEMMA NextCommandC ==
  ASSUME TInv, CInv, EndCommand, Len(cmd.steps) > 1
  PROVE  CInv'
<1>1. /\ tools_pc' = "shell" /\ cmd' = [cmd EXCEPT !.steps = Tail(cmd.steps)]
      /\ written' = written /\ ((tools_pc = "tables" /\ at_table > 10) \/ tools_pc = "sets")
  BY InOrderTables DEF EndCommand
<1>2. GoodCommand /\ Valid /\ cmd # NoCommand /\ OnceInv
  BY <1>1 DEF CInv, TInv
<1>3. /\ cmd.children \in Nat /\ cmd.children > 1 /\ cmd.updates = 0 /\ cmd.steps \in Seq(Int)
  BY <1>2 DEF OnceInv, GoodCommand, Valid
<1>4. tools_pc = "tables" /\ at_table > 10 /\ WrittenIs /\ stepnum \in 0..cmd.children
      /\ at_table \in Nat
  BY <1>1, <1>2, <1>3 DEF CInv, TInv, SetsInv, TablesInv, StepInv, Numbers2
<1>5. cmd'.children = cmd.children /\ cmd'.updates = 0 /\ cmd'.tables = cmd.tables
      /\ cmd'.permille = cmd.permille /\ cmd'.steps = Tail(cmd.steps)
  BY <1>1, <1>2, <1>3 DEF GoodCommand
<1>6. /\ stepnum = cmd.steps[1] /\ 1 \in DOMAIN cmd.steps
      /\ \A j \in DOMAIN Tail(cmd.steps) : j \in Nat \ {0} /\ j + 1 \in DOMAIN cmd.steps
                                           /\ Tail(cmd.steps)[j] = cmd.steps[j + 1]
      /\ \A j \in DOMAIN cmd.steps : j \in Nat \ {0}
      /\ \A j \in DOMAIN cmd.steps : j # 1 => j - 1 \in DOMAIN Tail(cmd.steps)
  BY <1>3 DEF stepnum
<1>7. \A j, k \in DOMAIN cmd.steps : cmd.steps[j] = cmd.steps[k] => j = k
  BY <1>2, <1>3 DEF OnceInv
<1>8. OnceInv'
  <2>1. ASSUME NEW j \in DOMAIN Tail(cmd.steps), NEW k \in DOMAIN Tail(cmd.steps),
               Tail(cmd.steps)[j] = Tail(cmd.steps)[k]
        PROVE  j = k
    <3>1. j + 1 = k + 1
      BY <1>6, <1>7, <2>1
    <3> QED
      BY <1>6, <3>1
  <2> QED
    BY <1>3, <1>5, <2>1 DEF OnceInv
<1>9. \A n : n \in Given <=> n \in Given' \/ n = stepnum
  <2> SUFFICES ASSUME NEW n PROVE n \in Given <=> n \in Given' \/ n = stepnum
    OBVIOUS
  <2>1. n \in Given' <=> \E j \in DOMAIN Tail(cmd.steps) : Tail(cmd.steps)[j] = n
    BY <1>5 DEF Given
  <2>2. ASSUME n \in Given, n # stepnum PROVE n \in Given'
    <3>1. PICK j \in DOMAIN cmd.steps : cmd.steps[j] = n
      BY <2>2 DEF Given
    <3>2. j - 1 \in DOMAIN Tail(cmd.steps) /\ (j - 1) + 1 = j
      BY <1>6, <2>2, <3>1
    <3>3. Tail(cmd.steps)[j - 1] = n
      BY <1>6, <3>1, <3>2
    <3> QED
      BY <2>1, <3>2, <3>3
  <2>3. n \in Given' => n \in Given
    BY <1>6, <2>1 DEF Given
  <2>4. stepnum \in Given
    BY <1>6 DEF Given
  <2> QED
    BY <2>2, <2>3, <2>4
<1>10. stepnum \notin Given'
  <2>1. stepnum \in Given' <=> \E j \in DOMAIN Tail(cmd.steps) : Tail(cmd.steps)[j] = stepnum
    BY <1>5 DEF Given
  <2>2. ASSUME NEW j \in DOMAIN Tail(cmd.steps), Tail(cmd.steps)[j] = stepnum PROVE FALSE
    <3>1. j + 1 \in DOMAIN cmd.steps /\ cmd.steps[j + 1] = cmd.steps[1] /\ j + 1 # 1
      BY <1>6, <2>2
    <3> QED
      BY <1>6, <1>7, <3>1
  <2> QED
    BY <2>1, <2>2
<1>11. \A k : k \in Past' <=> k \in Past \/ (k = stepnum /\ stepnum # 0)
  <2>1. \A k : k \in Past <=> k \in 1..cmd.children /\ k \notin Given
    BY <1>3 DEF Past
  <2>2. \A k : k \in Past' <=> k \in 1..cmd.children /\ k \notin Given'
    BY <1>3, <1>5 DEF Past
  <2>3. stepnum \in 1..cmd.children <=> stepnum # 0
    BY <1>4
  <2> QED
    BY <1>9, <1>10, <2>1, <2>2, <2>3
<1>12. /\ \A t, k : Below(t, k)' = Below(t, k) /\ UpTo(t, k)' = UpTo(t, k)
       /\ \A t : RowsOf(t)' = RowsOf(t)
  BY <1>5 DEF Below, UpTo, Split, RowsOf
<1>13. ASSUME NEW j \in 1..10, InOrder[j] \notin Code, NEW i \in Int
       PROVE  MadeBefore(InOrder[j], i)' <=> MadeBefore(InOrder[j], i) \/ MadeNow(j, i)
  <2> DEFINE t == InOrder[j]
  <2>1. MadeNow(j, i) <=> Below(t, stepnum) < i /\ i <= UpTo(t, stepnum)
    BY <1>4 DEF MadeNow
  <2>2. stepnum = 0 => Below(t, stepnum) = 0 /\ UpTo(t, stepnum) = 0
    BY <1>3, <1>13 DEF Below, UpTo, Split
  <2> HIDE DEF t
  <2>3. MadeBefore(t, i)' <=> \E k \in Past' : Below(t, k) < i /\ i <= UpTo(t, k)
    BY <1>12 DEF MadeBefore
  <2>4. MadeBefore(t, i) <=> \E k \in Past : Below(t, k) < i /\ i <= UpTo(t, k)
    BY DEF MadeBefore
  <2>5. MadeBefore(t, i)' <=> MadeBefore(t, i) \/ MadeNow(j, i)
    BY <1>11, <2>1, <2>2, <2>3, <2>4
  <2> QED
    BY <2>5 DEF t
<1>14. \A j, i : ~MadeNow(j, i)'
  BY <1>1 DEF MadeNow
<1>15. WrittenIs'
  <2>1. \A w \in written' :
          \E j \in 1..10 : InOrder[j] \in cmd'.tables
                           /\ \E i \in 1..RowsOf(InOrder[j]) : w = <<InOrder[j], i>>
    BY <1>1, <1>4, <1>5 DEF WrittenIs
  <2>2. \A j \in 1..10 : InOrder[j] \in cmd'.tables =>
          \A i \in Int : InOrder[j] \notin Code =>
            (<<InOrder[j], i>> \in written' <=> MadeBefore(InOrder[j], i)')
    BY <1>1, <1>4, <1>5, <1>13 DEF WrittenIs
  <2> QED
    BY <1>12, <1>14, <2>1, <2>2 DEF WrittenIs
<1>16. cmd' # NoCommand
  BY <1>3, <1>5 DEF NoCommand
<1> QED
  BY <1>1, <1>5, <1>8, <1>15, <1>16 DEF CInv

LEMMA OneLeft ==
  ASSUME NEW s \in Seq(Int), s # <<>>, Len(s) <= 1
  PROVE  Len(s) = 1
<1> DEFINE n == Len(s)
<1>1. n \in Nat /\ n # 0 /\ n <= 1
  OBVIOUS
<1> HIDE DEF n
<1>2. n = 1
  BY <1>1
<1> QED
  BY <1>2 DEF n

LEMMA AllTablesMade ==
  ASSUME TInv, CInv, tools_pc = "tables", at_table > 10, Len(cmd.steps) <= 1
  PROVE  written = UNION {{<<t, i>> : i \in 1..RowsOf(t)} : t \in cmd.tables}
<1>1. GoodCommand /\ Valid /\ cmd.updates = 0 /\ WrittenIs /\ StepInv /\ at_table \in Nat
  BY DEF CInv, TInv, TablesInv, Numbers2
<1>2. cmd.children \in Nat /\ cmd.permille \in Nat /\ cmd.steps \in Seq(Int)
  BY <1>1 DEF GoodCommand
<1>0. ASSUME cmd.children > 1 PROVE Len(cmd.steps) = 1
  <2>1. stepnum # -1
    BY <1>0, <1>1 DEF Valid
  <2>2. cmd.steps # <<>>
    BY <2>1 DEF stepnum
  <2> QED
    BY <1>2, <2>2, OneLeft
<1>3. ASSUME NEW j \in 1..10, InOrder[j] \in cmd.tables, NEW i \in 1..RowsOf(InOrder[j])
      PROVE  <<InOrder[j], i>> \in written
  <2> DEFINE t == InOrder[j]
  <2>1. t \in Table /\ RowsOf(t) \in Nat
    BY <1>2, InOrderTables, RowsNat
  <2>2. MadeNow(j, i) <=> Below(t, stepnum) < i /\ i <= UpTo(t, stepnum)
    BY <1>1 DEF MadeNow
  <2>3. i \in 1..RowsOf(t) /\ i \in Int /\ 0 < i /\ i <= RowsOf(t)
    BY <2>1
  <2>4. CASE ~Split(t)
    <3>1. MadeNow(j, i)
      BY <2>2, <2>3, <2>4 DEF Below, UpTo
    <3> QED
      BY <1>1, <1>3, <2>3, <3>1 DEF WrittenIs
  <2>5. CASE Split(t)
    <3>1. cmd.children > 1 /\ t \notin Code
      BY <2>5 DEF Split
    <3>2. Len(cmd.steps) = 1
      BY <1>0, <3>1
    <3>3. \A k : k \in Given => k = stepnum
      BY <1>2, <3>2 DEF Given, stepnum
    <3>4. PICK k \in 1..cmd.children : Below(t, k) < i /\ i <= UpTo(t, k)
      <4>1. \A u \in Table : Split(u) =>
              \A n \in 1..RowsOf(u) :
                \E k \in 1..cmd.children : Below(u, k) < n /\ n <= UpTo(u, k)
        BY <1>2, PiecesCover
      <4> QED
        BY <2>1, <2>3, <2>5, <4>1
    <3>5. k \in Past \/ k = stepnum
      BY <3>1, <3>3 DEF Past
    <3>6. MadeBefore(t, i) \/ MadeNow(j, i)
      BY <2>2, <3>4, <3>5 DEF MadeBefore
    <3> QED
      BY <1>1, <1>3, <2>3, <3>1, <3>6 DEF WrittenIs
  <2> QED
    BY <2>4, <2>5
<1>4. ASSUME NEW t \in cmd.tables, NEW i \in 1..RowsOf(t) PROVE <<t, i>> \in written
  BY <1>1, <1>3, <1>4, TablesKnown
<1>5. \A w \in written : \E t \in cmd.tables : \E i \in 1..RowsOf(t) : w = <<t, i>>
  BY <1>1 DEF WrittenIs
<1> QED
  BY <1>4, <1>5

LEMMA AllSetsMade ==
  ASSUME TInv, CInv, tools_pc = "sets", tools_upd_num >= cmd.updates
  PROVE  written = UNION {{<<u, u * RowsPerSet + i>> : i \in 1..RowsPerSet} :
                            u \in FirstSet..(cmd.updates - 1)}
<1>1. GoodCommand /\ cmd.updates > 0 /\ SetsWritten /\ tools_upd_num \in Nat
  BY DEF CInv, TInv, SetsInv, Numbers2
<1>2. cmd.updates \in Nat /\ FirstSet \in Nat /\ RowsPerSet \in Nat
  BY <1>1, PerSetNat DEF GoodCommand, FirstSet, stepnum
<1>3. ASSUME NEW u \in Nat, NEW i \in Int
      PROVE  u \in FirstSet..tools_upd_num /\ InSet(u, i) <=>
               u \in FirstSet..(cmd.updates - 1) /\ Before2(u) < i /\ i <= Before2(u) + RowsPerSet
  <2>1. tools_upd_num <= cmd.updates \/ tools_upd_num = FirstSet
    BY <1>1 DEF SetsWritten
  <2>2. u \in FirstSet..tools_upd_num /\ u < tools_upd_num <=> u \in FirstSet..(cmd.updates - 1)
    BY <1>1, <1>2, <2>1
  <2> QED
    BY <2>2 DEF InSet
<1>4. \A u \in Nat : Before2(u) \in Int /\ Before2(u) = u * RowsPerSet
  BY <1>2 DEF Before2
<1>5. ASSUME NEW w \in written
      PROVE  \E u \in FirstSet..(cmd.updates - 1) : \E i \in 1..RowsPerSet :
               w = <<u, u * RowsPerSet + i>>
  <2>1. PICK u \in FirstSet..tools_upd_num : \E i \in Int : w = <<u, i>> /\ InSet(u, i)
    BY <1>1, <1>5 DEF SetsWritten
  <2>2. PICK i \in Int : w = <<u, i>> /\ InSet(u, i)
    BY <2>1
  <2>3. u \in Nat
    BY <1>1, <1>2
  <2>4. u \in FirstSet..(cmd.updates - 1) /\ Before2(u) < i /\ i <= Before2(u) + RowsPerSet
    BY <1>3, <2>2, <2>3
  <2>5. i - Before2(u) \in 1..RowsPerSet /\ i = Before2(u) + (i - Before2(u))
    BY <1>2, <1>4, <2>3, <2>4
  <2> QED
    BY <1>4, <2>2, <2>3, <2>4, <2>5
<1>6. ASSUME NEW u \in FirstSet..(cmd.updates - 1), NEW i \in 1..RowsPerSet
      PROVE  <<u, u * RowsPerSet + i>> \in written
  <2>1. u \in Nat /\ Before2(u) \in Int /\ Before2(u) = u * RowsPerSet
    BY <1>2, <1>4
  <2>2. Before2(u) + i \in Int /\ Before2(u) < Before2(u) + i
        /\ Before2(u) + i <= Before2(u) + RowsPerSet
    BY <1>2, <2>1
  <2>3. u \in FirstSet..tools_upd_num /\ InSet(u, Before2(u) + i)
    BY <1>3, <2>1, <2>2
  <2>4. <<u, Before2(u) + i>> \in written
    BY <1>1, <2>2, <2>3 DEF SetsWritten
  <2> QED
    BY <2>1, <2>4
<1> QED
  BY <1>5, <1>6

LEMMA LastCommandC ==
  ASSUME TInv, CInv, EndCommand, ~(Len(cmd.steps) > 1)
  PROVE  CInv'
<1>1. tools_pc' = "stop" /\ cmd' = cmd /\ written' = written
  BY DEF EndCommand
<1>2. (tools_pc = "tables" /\ at_table > 10) \/ (tools_pc = "sets" /\ tools_upd_num >= cmd.updates)
  BY InOrderTables DEF EndCommand
<1>3. GoodCommand /\ cmd # NoCommand /\ OnceInv
  BY <1>2 DEF CInv, TInv
<1>4. written = IF cmd.updates = 0
                  THEN UNION {{<<t, i>> : i \in 1..RowsOf(t)} : t \in cmd.tables}
                  ELSE UNION {{<<u, u * RowsPerSet + i>> : i \in 1..RowsPerSet} :
                               u \in FirstSet..(cmd.updates - 1)}
  <2>1. CASE tools_pc = "tables" /\ at_table > 10
    <3>1. cmd.updates = 0
      BY <2>1 DEF TInv, TablesInv
    <3>2. Len(cmd.steps) <= 1
      BY <1>3 DEF GoodCommand
    <3> QED
      BY <2>1, <3>1, <3>2, AllTablesMade
  <2>2. CASE tools_pc = "sets" /\ tools_upd_num >= cmd.updates
    <3>1. cmd.updates > 0
      BY <2>2 DEF TInv, SetsInv
    <3> QED
      BY <2>2, <3>1, AllSetsMade
  <2> QED
    BY <1>2, <2>1, <2>2
<1>5. ToolsComplete'
  BY <1>1, <1>4 DEF ToolsComplete, FirstSet, stepnum, RowsOf, RowsPerSet
<1> QED
  BY <1>1, <1>3, <1>5 DEF CInv, OnceInv

\* A row that is to be made is in no step before.
LEMMA ImpliesComplete == TInv /\ CInv => ToolsComplete
<1>1. SUFFICES ASSUME TInv, CInv, tools_pc = "rows", rows_left > 0, tnum \notin Code,
                      cmd.updates = 0, <<tnum, at_row>> \in written
               PROVE  FALSE
  BY DEF CInv, ToolsComplete
<1> DEFINE t == InOrder[at_table]
<1>2. /\ t \in cmd.tables /\ t \in Table /\ at_table \in 1..10 /\ tnum = t
      /\ (cmd.children > 1 => stepnum \in 0..cmd.children)
      /\ GoodCommand /\ at_row \in Int /\ rows_left \in Int
  BY <1>1, InOrderTables DEF TInv, TableRowsInv, StepInv, tnum, Numbers2
<1>3. Valid /\ WrittenIs /\ RowsLeft
  BY <1>1 DEF CInv
<1>4. cmd.permille \in Nat /\ cmd.children \in Nat /\ cmd.steps \in Seq(Int) /\ stepnum \in Int
  BY <1>2 DEF GoodCommand, stepnum
<1>5. ~MadeNow(at_table, at_row)
  BY <1>2 DEF MadeNow
<1>6. MadeBefore(t, at_row)
  BY <1>1, <1>2, <1>3, <1>5 DEF WrittenIs
<1>7. PICK k \in Past : Below(t, k) < at_row /\ at_row <= UpTo(t, k)
  BY <1>6 DEF MadeBefore
<1>8. cmd.children > 1 /\ k \in 1..cmd.children /\ k \notin Given /\ Split(t)
  BY <1>1, <1>2, <1>7 DEF Past, Split
<1>9. k # stepnum
  <2>1. stepnum # -1 /\ cmd.steps # <<>>
    BY <1>3, <1>4, <1>8 DEF Valid, stepnum
  <2>2. stepnum = cmd.steps[1] /\ 1 \in DOMAIN cmd.steps
    BY <1>4, <2>1 DEF stepnum
  <2> QED
    BY <1>8, <2>2 DEF Given
<1>10. Below(t, stepnum) < at_row /\ at_row + rows_left = UpTo(t, stepnum) + 1
  BY <1>3 DEF RowsLeft
<1> HIDE DEF t
<1>11. Below(t, stepnum) \in Nat /\ UpTo(t, stepnum) \in Nat
  BY <1>2, <1>4, PieceWithin
<1>12. at_row <= UpTo(t, stepnum)
  BY <1>1, <1>2, <1>10, <1>11
<1> QED
  BY <1>2, <1>4, <1>7, <1>8, <1>9, <1>10, <1>12, PiecesApart

\* The steps, whose parts are rounded, leave no row out and make none twice, and the sets are
\* those that one -U makes: for every scale, number of steps and of sets, and whatever order the
\* steps are given in.
THEOREM StepsMakeAll ==
  ASSUME StepsWithin, StepsOnce
  PROVE  ToolsSpec => []ToolsComplete
<1>1. ToolsInit => TInv /\ CInv
  <2> SUFFICES ASSUME ToolsInit PROVE TInv /\ CInv
    OBVIOUS
  <2>1. TInv
    BY DEF ToolsInit, TInv, Numbers2
  <2>2. cmd = NoCommand /\ tools_pc = "shell" /\ written = {} /\ cmd.updates = 0
    BY DEF ToolsInit, NoCommand
  <2>3. ~Valid
    BY <2>2 DEF Valid, stepnum, NoCommand
  <2> QED
    BY <2>1, <2>2, <2>3 DEF CInv
<1>2. TInv /\ CInv /\ [ToolsNext]_tools_vars => TInv' /\ CInv'
  <2> SUFFICES ASSUME TInv, CInv, [ToolsNext]_tools_vars
               PROVE  TInv' /\ CInv'
    OBVIOUS
  <2>1. TInv'
    BY Choosing, StartTables, StartUpdates, Refusing, Skipping, Beginning, BeginningSet, Making,
       Ending, NextStep, Stuttering DEF ToolsNext
  <2>2. CInv'
    BY ChoosingC, StartTablesC, StartUpdatesC, RefusingC, SkippingC, BeginningC, BeginningSetC,
       MakingC, EndingC, NextCommandC, LastCommandC, StutteringC DEF ToolsNext
  <2> QED
    BY <2>1, <2>2
<1>3. TInv /\ CInv => ToolsComplete
  BY ImpliesComplete
<1> QED
  BY <1>1, <1>2, <1>3, PTL DEF ToolsSpec
=============================================================================
