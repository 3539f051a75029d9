-------------------------------- MODULE Rows --------------------------------
(***************************************************************************)
(* The rows that dbgen makes (build.c): how the keys of one table refer to *)
(* another, the dates and states of an order and its lineitems, and prices.*)
(*                                                                         *)
(* A draw of a random number is a choice: any value of its range, or, where*)
(* the range is large, of a set that a constant gives.  The positions of   *)
(* the streams are in Streams, texts in Text.                              *)
(***************************************************************************)
EXTENDS Calendar, Sequences

CONSTANTS
  RowScale,      \* scale
  OrderDays,     \* the days after STARTDATE that orders are drawn from
  CustDraws,     \* the customers
  PartDraws,     \* the parts
  Amounts,       \* <<quantity, discount, tax>> of a lineitem
  MaxLines,      \* the lineitems of an order, 7 in the code
  ShipLag, CommitLag, ReceiptLag \* the days from the order to its shipment and to the day it
                 \* is promised for, and from shipment to receipt

\* The parts of dists.dss and dss.h that the rows depend on.
SUPP_PER_PART  == 4
CUST_MORTALITY == 3
Suppliers      == 10000 * RowScale
L_PKEY_MAX     == 200000 * RowScale
O_CKEY_MAX     == 150000 * RowScale

O_ODATE_MAX == STARTDATE + TOTDATE - (121 + 30) - 1

ASSUME RowsAssumption ==
  /\ RowScale \in Nat \ {0} /\ MaxLines \in 1..7
  /\ OrderDays \subseteq Nat
  /\ CustDraws \subseteq 1..O_CKEY_MAX /\ PartDraws \subseteq 1..L_PKEY_MAX
  /\ Amounts \subseteq (1..50) \X (0..10) \X (0..8)
  /\ ShipLag \subseteq 1..121 /\ CommitLag \subseteq 30..90 /\ ReceiptLag \subseteq 1..30

VARIABLES
  rows_pc,       \* "dates" (mk_ascdate), "start", "lines" (mk_order), "made"
  day,           \* mk_ascdate: the number of the date, and the date
  row            \* the row

rows_vars == <<rows_pc, day, row>>

-----------------------------------------------------------------------------
PART_SUPP_BRIDGE(p, s) ==
  ((p + s * ((Suppliers \div SUPP_PER_PART) + ((p - 1) \div Suppliers))) % Suppliers) + 1

rpb_routine(p) == 90000 + ((p \div 10) % 20001) + (p % 1000) * 100

LeastOf(a, b) == IF a < b THEN a ELSE b

\* Faulty variant: the next one, whatever the customers end with.
Mortal_Next(c) == IF c % CUST_MORTALITY = 0 THEN c + 1 ELSE c

\* mk_order: a customer with orders, the next one or, at the end, the one before.
Mortal(c) ==
  LET try[x \in (1..O_CKEY_MAX) \X {1, -1}] ==
        LET k == x[1]
            delta == x[2]
        IN  IF k % CUST_MORTALITY = 0 THEN try[<<LeastOf(k + delta, O_CKEY_MAX), -delta>>]
                                      ELSE k
  IN  try[<<c, 1>>]

Charge(eprice, discount, tax) ==
  (((eprice * (100 - discount)) \div 100) * (100 + tax)) \div 100

-----------------------------------------------------------------------------
RowsInit ==
  /\ rows_pc \in {"dates", "start"}
  /\ day = [i |-> 0, date |-> asc_date[0]]
  /\ row = [table |-> "none"]

\* mk_ascdate: the next date.
MkAscdate ==
  /\ rows_pc = "dates" /\ day.i < TOTDATE - 1
  /\ day' = [i |-> day.i + 1, date |-> mk_time(day.i + 2)]
  /\ UNCHANGED <<rows_pc, row>>

\* mk_order up to its loop.
MkOrder ==
  /\ rows_pc = "start"
  /\ \E c \in CustDraws, n \in 1..MaxLines,
        d \in {STARTDATE + o : o \in OrderDays} \cap STARTDATE..O_ODATE_MAX :
       row' = [table |-> "order", custkey |-> Mortal(c), date |-> d, lines |-> n,
               l |-> <<>>, ocnt |-> 0, totalprice |-> 0, orderstatus |-> "O"]
  /\ rows_pc' = "lines"
  /\ UNCHANGED day

\* The return flag is drawn for lineitems received by now, N is for the others.
RFlags(r_date) == IF julian(r_date) <= CURRENTDATE THEN {"R", "A"} ELSE {"N"}

\* Faulty variant: shipped by now by the number of days, which is not a Julian date.
Shipped_Linear(s_date) == s_date <= CURRENTDATE
Shipped(s_date) == julian(s_date) <= CURRENTDATE

Line(p, s, amount, s_date, c_date, r_date, rflag) ==
  [partkey |-> p, suppkey |-> PART_SUPP_BRIDGE(p, s),
   eprice |-> rpb_routine(p) * amount[1], discount |-> amount[2], tax |-> amount[3],
   sday |-> s_date - STARTDATE, cday |-> c_date - STARTDATE, rday |-> r_date - STARTDATE,
   rflag |-> rflag, lstatus |-> IF Shipped(s_date) THEN "F" ELSE "O"]

\* One pass of its loop.
MkLine ==
  /\ rows_pc = "lines" /\ Len(row.l) < row.lines
  /\ \E p \in PartDraws, s \in 0..(SUPP_PER_PART - 1), a \in Amounts,
        slag \in ShipLag, clag \in CommitLag, rlag \in ReceiptLag :
       \E flag \in RFlags(row.date + slag + rlag) :
         LET l == Line(p, s, a, row.date + slag, row.date + clag, row.date + slag + rlag, flag)
         IN  row' = [row EXCEPT !.l = Append(@, l),
                       !.totalprice = @ + Charge(l.eprice, a[2], a[3]),
                       !.ocnt = IF l.lstatus = "F" THEN @ + 1 ELSE @]
  /\ UNCHANGED <<rows_pc, day>>

\* The state of the order.
EndOrder ==
  /\ rows_pc = "lines" /\ Len(row.l) = row.lines
  /\ row' = [row EXCEPT !.orderstatus =
               IF row.ocnt = row.lines THEN "F" ELSE IF row.ocnt > 0 THEN "P" ELSE @]
  /\ rows_pc' = "made"
  /\ UNCHANGED day

PartRow(p) ==
  [table |-> "part", partkey |-> p, retailprice |-> rpb_routine(p),
   s |-> [k \in 1..SUPP_PER_PART |-> [partkey |-> p, suppkey |-> PART_SUPP_BRIDGE(p, k - 1)]]]

MkPart ==
  /\ rows_pc = "start"
  /\ \E p \in PartDraws : row' = PartRow(p)
  /\ rows_pc' = "made"
  /\ UNCHANGED day

RowsNext == MkAscdate \/ MkOrder \/ MkLine \/ EndOrder \/ MkPart

RowsSpec == RowsInit /\ [][RowsNext]_rows_vars

-----------------------------------------------------------------------------
(***************************************************************************)
(* Properties.                                                             *)
(***************************************************************************)

\* mk_ascdate's array is the calendar: each date is the day after the one before, over two
\* leap years and all ends of months, and unjulian takes a Julian date back to its number.
CalendarExact ==
  [][day' # day => /\ day'.date = DayAfter(day.date)
                   /\ unjulian(julian(STARTDATE + day'.i)) = day'.i]_rows_vars

\* The keys of a row name rows of other tables: a customer that may have orders, of the last
\* ones too; a part; and for a lineitem one of the four suppliers that mk_part gives its
\* part, which are four different suppliers.
KeysRefer ==
  rows_pc = "made" =>
    /\ row.table = "order" =>
         /\ row.custkey \in 1..O_CKEY_MAX /\ row.custkey % CUST_MORTALITY # 0
         /\ \A l \in {row.l[k] : k \in DOMAIN row.l} :
              \E k \in 1..SUPP_PER_PART : PartRow(l.partkey).s[k].suppkey = l.suppkey
    /\ row.table = "part" =>
         /\ \A k \in 1..SUPP_PER_PART : row.s[k].suppkey \in 1..Suppliers
         /\ \A j, k \in 1..SUPP_PER_PART : row.s[j].suppkey = row.s[k].suppkey => j = k

\* All dates of an order are within the calendar and in order, and what the row says of
\* them agrees with what it prints: lineitems shipped by June 17, 1995 are F, none received
\* after it has been returned, and the order is F, O or P as all, none or some are shipped.
DatesAgree ==
  rows_pc = "made" /\ row.table = "order" =>
    LET now == <<95, 6, 17>>
        Lines == {row.l[k] : k \in DOMAIN row.l}
    IN  /\ \A l \in Lines :
             /\ {l.sday, l.cday, l.rday} \subseteq DOMAIN asc_date
             /\ Before(asc_date[row.date - STARTDATE], asc_date[l.sday])
             /\ Before(asc_date[l.sday], asc_date[l.rday])
             /\ l.lstatus = "O" <=> Before(now, asc_date[l.sday])
             /\ l.rflag = "N" <=> Before(now, asc_date[l.rday])
        /\ row.orderstatus = "F" <=> \A l \in Lines : l.lstatus = "F"
        /\ row.orderstatus = "O" <=> \A l \in Lines : l.lstatus = "O"
=============================================================================
