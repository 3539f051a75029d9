------------------------------- MODULE Printing -------------------------------
(***************************************************************************)
(* What becomes of a row (print.c): it is printed, for mysqlimport to load *)
(* into the tables of scripts/mysql/ddl, with a separator after each value *)
(* or, with -O m, in columns; or it is added to a checksum (-O v); or, with*)
(* -D, it is given to a load routine, all of which are stubs               *)
(* (load_stub.c).  Some rows are of two tables: an order with its          *)
(* lineitems, a part with its suppliers.                                   *)
(*                                                                         *)
(* A value is its column and its length.  tpch_tools prints the same       *)
(* columns, with a separator after the last one too, and has neither -O m  *)
(* nor -O v.                                                               *)
(***************************************************************************)
EXTENDS Integers, Sequences, SequencesExt

CONSTANTS
  PrintTables,     \* the entries of tdefs to print rows of
  PrintScale       \* -s

MAX_SCALE == 1000

\* dss.h: the largest numbers of each table.
P_MAX  == [partkey |-> 200000 * PrintScale, mfgr |-> 5, brand |-> 5 * 10 + 5, size |-> 50,
           retailprice |-> 90000 + 20000 + 999 * 100]
S_MAX  == [suppkey |-> 10000 * PrintScale, acctbal |-> <<-99999, 999999>>]
PS_MAX == [availqty |-> 9999, supplycost |-> 100000]
C_MAX  == [custkey |-> 150000 * PrintScale, acctbal |-> <<-99999, 999999>>]
\* The keys of orders are sparse, eight of 32 numbers are used; in thousands, as they outgrow 32 bits.
O_MAX  == [orderkey |-> 4 * 1500 * PrintScale, clerk |-> 1000 * PrintScale,
           shippriority |-> 0, lines |-> 7]
L_MAX  == [quantity |-> 50, discount |-> 10, tax |-> 8,
           price |-> 50 * P_MAX.retailprice]
NATIONS_MAX == 90
\* An order's price: its lineitems', none with a discount and all with the most tax.
TotalPrice == O_MAX.lines * ((L_MAX.price \div 100) * (100 + L_MAX.tax))

\* The digits of a number, and the characters of an amount of cents, whose sign takes one.
Digits(n) == CHOOSE d \in 1..10 : n < 10^d /\ (d > 1 => n >= 10^(d - 1))
Money(cents) == IF cents < 0 THEN Digits((-cents) \div 100) + 4 ELSE Digits(cents \div 100) + 3
\* A tag with a number of nine digits or more.
Tagged(tag, n) == {tag + IF n < 10^9 THEN 9 ELSE Digits(n)}

\* A printed value: its format, the width it gets in columns, the lengths it may have; and of a
\* number the thousands of the largest.
Field(c, format, width, lengths) ==
  [column |-> c, format |-> format, width |-> width, lengths |-> lengths, thousands |-> 0]
PR_INT(c, most) ==
  [Field(c, "INT", 12, 1..Digits(most)) EXCEPT !.thousands = most \div 1000]
PR_HUGE(c, thousands) ==
  [Field(c, "HUGE", 12, 1..(Digits(thousands) + 3)) EXCEPT !.thousands = thousands]
PR_MONEY(c, most)    == Field(c, "MONEY", 15, 4..Money(most))
Balance(c, r)        ==
  Field(c, "BALANCE", 15, 4..(IF Money(r[1]) > Money(r[2]) THEN Money(r[1]) ELSE Money(r[2])))
PR_CHR(c)            == Field(c, "CHR", 2, {1})
PR_STR(c, width, ls) == Field(c, "STR", width, ls)
Date(c)              == PR_STR(c, 13, {10})
\* A text of 0.4 to 1.6 times its average length; ceil(LEN * V_STR_HGH).
PR_VSTR(c, avg) ==
  Field(c, "STR", (avg * 16 + 9) \div 10, ((avg * 4) \div 10)..((avg * 16) \div 10))

pr_cust ==
  <<PR_INT("c_custkey", C_MAX.custkey), PR_STR("c_name", 18, Tagged(9, C_MAX.custkey)),
    PR_VSTR("c_address", 25), PR_INT("c_nationkey", NATIONS_MAX), PR_STR("c_phone", 15, {15}),
    Balance("c_acctbal", C_MAX.acctbal), PR_STR("c_mktsegment", 10, 8..10),
    PR_VSTR("c_comment", 73)>>
pr_order ==
  <<PR_HUGE("o_orderkey", O_MAX.orderkey), PR_INT("o_custkey", C_MAX.custkey),
    PR_CHR("o_orderstatus"), PR_MONEY("o_totalprice", TotalPrice), Date("o_orderDATE"),
    PR_STR("o_orderpriority", 15, 5..15), PR_STR("o_clerk", 15, Tagged(6, O_MAX.clerk)),
    PR_INT("o_shippriority", O_MAX.shippriority), PR_VSTR("o_comment", 49)>>
pr_line ==
  <<PR_HUGE("l_orderkey", O_MAX.orderkey), PR_INT("l_partkey", P_MAX.partkey),
    PR_INT("l_suppkey", S_MAX.suppkey), PR_INT("l_linenumber", O_MAX.lines),
    PR_INT("l_quantity", L_MAX.quantity), PR_MONEY("l_extendedprice", L_MAX.price),
    PR_MONEY("l_discount", L_MAX.discount), PR_MONEY("l_tax", L_MAX.tax),
    PR_CHR("l_returnflag"), PR_CHR("l_linestatus"), Date("l_shipDATE"), Date("l_commitDATE"),
    Date("l_receiptDATE"), PR_STR("l_shipinstruct", 25, 4..17),
    PR_STR("l_shipmode", 10, 3..7), PR_VSTR("l_comment", 27)>>
pr_part ==
  <<PR_INT("p_partkey", P_MAX.partkey), PR_STR("p_name", 55, 22..52),
    PR_STR("p_mfgr", 25, {13 + Digits(P_MAX.mfgr)}),
    PR_STR("p_brand", 10, {6 + Digits(P_MAX.brand)}), PR_STR("p_type", 25, 16..25),
    PR_INT("p_size", P_MAX.size), PR_STR("p_container", 10, 6..10),
    PR_MONEY("p_retailprice", P_MAX.retailprice), PR_VSTR("p_comment", 14)>>
pr_psupp ==
  <<PR_INT("ps_partkey", P_MAX.partkey), PR_INT("ps_suppkey", S_MAX.suppkey),
    PR_INT("ps_availqty", PS_MAX.availqty), PR_MONEY("ps_supplycost", PS_MAX.supplycost),
    PR_VSTR("ps_comment", 124)>>
pr_supp ==
  <<PR_INT("s_suppkey", S_MAX.suppkey), PR_STR("s_name", 25, Tagged(9, S_MAX.suppkey)),
    PR_VSTR("s_address", 25), PR_INT("s_nationkey", NATIONS_MAX), PR_STR("s_phone", 15, {15}),
    Balance("s_acctbal", S_MAX.acctbal), PR_VSTR("s_comment", 63)>>
pr_nation ==
  <<PR_INT("n_nationkey", NATIONS_MAX), PR_STR("n_name", 25, 4..14),
    PR_INT("n_regionkey", NATIONS_MAX), PR_VSTR("n_comment", 72)>>
pr_region ==
  <<PR_INT("r_regionkey", NATIONS_MAX), PR_STR("r_name", 25, 4..11), PR_VSTR("r_comment", 72)>>

\* The tables of the rows that the functions of an entry of tdefs print, verify or load.
Lines(t) ==
  CASE t = "order_line" -> <<"orders", "lineitem">>
    [] t = "part_psupp" -> <<"part", "partsupp">>
    [] OTHER -> <<t>>

Printer(t) ==
  CASE t = "customer" -> pr_cust [] t = "orders" -> pr_order [] t = "lineitem" -> pr_line
    [] t = "part" -> pr_part [] t = "partsupp" -> pr_psupp [] t = "supplier" -> pr_supp
    [] t = "nation" -> pr_nation [] t = "region" -> pr_region

ASSUME PrintAssumption ==
  /\ PrintTables \subseteq {"customer", "orders", "lineitem", "part", "partsupp", "supplier",
                            "nation", "region", "order_line", "part_psupp"}
  /\ PrintScale \in 1..MAX_SCALE

\* The verify functions: the columns they go through, and those of VRF_MONEY.
Verify(columns, prices) == [columns |-> columns, prices |-> prices]
vrf_cust ==
  Verify(<<"c_custkey", "c_name", "c_address", "c_nationkey", "c_phone", "c_acctbal",
           "c_mktsegment", "c_comment">>, {"c_acctbal"})
vrf_order ==
  Verify(<<"o_orderkey", "o_custkey", "o_orderstatus", "o_totalprice", "o_orderDATE",
           "o_orderpriority", "o_clerk", "o_shippriority", "o_comment">>, {"o_totalprice"})
vrf_line ==
  Verify(<<"l_orderkey", "l_partkey", "l_suppkey", "l_linenumber", "l_quantity",
           "l_extendedprice", "l_discount", "l_tax", "l_returnflag", "l_linestatus",
           "l_shipDATE", "l_commitDATE", "l_receiptDATE", "l_shipinstruct", "l_shipmode",
           "l_comment">>, {"l_extendedprice", "l_discount", "l_tax"})
vrf_part ==
  Verify(<<"p_partkey", "p_name", "p_mfgr", "p_brand", "p_type", "p_size", "p_container",
           "p_retailprice", "p_comment">>, {"p_retailprice"})
vrf_psupp ==
  Verify(<<"ps_partkey", "ps_suppkey", "ps_availqty", "ps_supplycost", "ps_comment">>,
         {"ps_supplycost"})
vrf_supp ==
  Verify(<<"s_suppkey", "s_name", "s_address", "s_nationkey", "s_phone", "s_acctbal",
           "s_comment">>, {"s_acctbal"})
vrf_nation == Verify(<<"n_nationkey", "n_name", "n_regionkey", "n_comment">>, {})
vrf_region == Verify(<<"r_regionkey", "r_name", "r_comment">>, {})

Verifier(t) ==
  CASE t = "customer" -> vrf_cust [] t = "orders" -> vrf_order [] t = "lineitem" -> vrf_line
    [] t = "part" -> vrf_part [] t = "partsupp" -> vrf_psupp [] t = "supplier" -> vrf_supp
    [] t = "nation" -> vrf_nation [] t = "region" -> vrf_region

\* The tables of scripts/mysql/ddl: the columns with the characters there is room for, or, of
\* those of 32 bits, the thousands of the largest number, 2147483647.
SqlColumn(name, chars) == [column |-> name, chars |-> chars, thousands |-> 0]
INTEGER(name)          == [column |-> name, chars |-> 10, thousands |-> 2147483]
DECIMAL == 12
DATE    == 10
ddl(t) ==
  CASE t = "customer" ->
         <<INTEGER("c_custkey"), SqlColumn("c_name", 25), SqlColumn("c_address", 40),
           INTEGER("c_nationkey"), SqlColumn("c_phone", 15),
           SqlColumn("c_acctbal", DECIMAL), SqlColumn("c_mktsegment", 10),
           SqlColumn("c_comment", 117)>>
    [] t = "orders" ->
         <<INTEGER("o_orderkey"), INTEGER("o_custkey"),
           SqlColumn("o_orderstatus", 1), SqlColumn("o_totalprice", DECIMAL),
           SqlColumn("o_orderDATE", DATE), SqlColumn("o_orderpriority", 15),
           SqlColumn("o_clerk", 15), INTEGER("o_shippriority"),
           SqlColumn("o_comment", 79)>>
    [] t = "lineitem" ->
         <<INTEGER("l_orderkey"), INTEGER("l_partkey"),
           INTEGER("l_suppkey"), INTEGER("l_linenumber"),
           SqlColumn("l_quantity", DECIMAL), SqlColumn("l_extendedprice", DECIMAL),
           SqlColumn("l_discount", DECIMAL), SqlColumn("l_tax", DECIMAL),
           SqlColumn("l_returnflag", 1), SqlColumn("l_linestatus", 1),
           SqlColumn("l_shipDATE", DATE), SqlColumn("l_commitDATE", DATE),
           SqlColumn("l_receiptDATE", DATE), SqlColumn("l_shipinstruct", 25),
           SqlColumn("l_shipmode", 10), SqlColumn("l_comment", 44)>>
    [] t = "part" ->
         <<INTEGER("p_partkey"), SqlColumn("p_name", 55), SqlColumn("p_mfgr", 25),
           SqlColumn("p_brand", 10), SqlColumn("p_type", 25), INTEGER("p_size"),
           SqlColumn("p_container", 10), SqlColumn("p_retailprice", DECIMAL),
           SqlColumn("p_comment", 23)>>
    [] t = "partsupp" ->
         <<INTEGER("ps_partkey"), INTEGER("ps_suppkey"),
           INTEGER("ps_availqty"), SqlColumn("ps_supplycost", DECIMAL),
           SqlColumn("ps_comment", 199)>>
    [] t = "supplier" ->
         <<INTEGER("s_suppkey"), SqlColumn("s_name", 25), SqlColumn("s_address", 40),
           INTEGER("s_nationkey"), SqlColumn("s_phone", 15),
           SqlColumn("s_acctbal", DECIMAL), SqlColumn("s_comment", 101)>>
    [] t = "nation" ->
         <<INTEGER("n_nationkey"), SqlColumn("n_name", 25),
           INTEGER("n_regionkey"), SqlColumn("n_comment", 152)>>
    [] t = "region" ->
         <<INTEGER("r_regionkey"), SqlColumn("r_name", 25),
           SqlColumn("r_comment", 152)>>

VARIABLES
  print_pc,        \* "main", "row" (between two rows), "print", "verify", "load"
  print_table,     \* the entry of tdefs
  newer_print,     \* the program of tpch_tools
  columnar,        \* -O m
  header,          \* -O h
  direct,          \* -D
  validate,        \* -O v
  print_line,      \* the table of the next line, by its place in Lines
  longest,         \* the columns of this line that are as long as can be
  at_field,        \* the next column
  printed,         \* the line printed: values and separators
  row_number,
  vtotal,          \* -O v: the values the checksum of each table is a sum of, with their rows
  told             \* the stubs that have said that they are stubs

print_vars == <<print_pc, print_table, newer_print, columnar, header, direct, validate,
                print_line, longest, at_field, printed, row_number, vtotal, told>>
print_options == <<print_table, newer_print, columnar, header, direct, validate>>

SEPARATOR == [column |-> "|", chars |-> 1, thousands |-> 0]

\* The table of the line, and the columns of a table.
line == Lines(print_table)[print_line]
Columns(t) == ToSet([i \in DOMAIN Printer(t) |-> Printer(t)[i].column])

-----------------------------------------------------------------------------
PrintInit ==
  /\ print_pc = "main"
  /\ print_table = "region"
  /\ newer_print = FALSE /\ columnar = FALSE /\ header = FALSE /\ direct = FALSE
  /\ validate = FALSE
  /\ print_line = 1 /\ longest = {} /\ at_field = 1 /\ printed = <<>> /\ row_number = 0
  /\ vtotal = [t \in {print_table} |-> {}] /\ told = <<>>

\* process_options, and main, which takes one of the tables.
ChooseTable ==
  /\ print_pc = "main"
  /\ print_table' \in PrintTables
  /\ newer_print' \in BOOLEAN /\ columnar' \in BOOLEAN /\ header' \in BOOLEAN
  /\ direct' \in BOOLEAN /\ validate' \in BOOLEAN
  /\ newer_print' => ~columnar' /\ ~validate'
  /\ validate' => ~columnar'
  /\ vtotal' = [t \in {print_table'} \cup ToSet(Lines(print_table')) |-> {}]
  /\ print_pc' = "row"
  /\ UNCHANGED <<print_line, longest, at_field, printed, row_number, told>>

\* A stub says so when it is first called (count).
Tell(s, stub) == IF stub \in ToSet(s) THEN s ELSE Append(s, stub)
hd(t) == <<"header", t>>
ld(t) == <<"load", t>>

\* The next line of a row, at first the one a file is opened for (print_prep, tbl_open).  All
\* values but one are as short, or as long, as they get.
StartLine(row, i) ==
  /\ print_line' = i /\ at_field' = 1 /\ printed' = <<>>
  /\ print_pc' = IF validate THEN "verify" ELSE IF direct THEN "load" ELSE "print"
  /\ LET t == Lines(print_table)[i]
         columns == Columns(t)
     IN  /\ IF validate \/ direct \/ row = 1
              THEN longest' = columns
              ELSE longest' \in {{}} \cup UNION {{{c}, columns \ {c}} : c \in columns}
         /\ told' = IF ~validate /\ ~direct /\ header /\ columnar /\ row = 1
                      THEN Tell(told, hd(t)) ELSE told
  /\ UNCHANGED <<print_options, vtotal>>

\* gen_tbl: tdefs[tnum].loader[direct] or, with -O v, verify.
StartPrint ==
  /\ print_pc = "row" /\ row_number < 2
  /\ row_number' = row_number + 1
  /\ StartLine(row_number + 1, 1)

\* The detail table, or the end of the row.
EndOfLine ==
  IF print_line < Len(Lines(print_table))
    THEN StartLine(row_number, print_line + 1)
    ELSE /\ print_pc' = "row"
         /\ UNCHANGED <<print_options, print_line, longest, at_field, printed, vtotal, told>>

\* loader[1].
LoadRow ==
  /\ print_pc = "load"
  /\ told' = Tell(told, ld(line))
  /\ IF print_line < Len(Lines(print_table))
       THEN print_line' = print_line + 1 /\ UNCHANGED print_pc
       ELSE print_pc' = "row" /\ UNCHANGED print_line
  /\ UNCHANGED <<print_options, longest, at_field, printed, row_number, vtotal>>

\* How long a value of a field is: the lower balances are negative.
Longest(S)  == CHOOSE n \in S : \A m \in S : m <= n
Shortest(S) == CHOOSE n \in S : \A m \in S : n <= m
Chars(f) == IF f.column \in longest THEN Longest(f.lengths) ELSE Shortest(f.lengths)
Thousands(f) == IF f.column \in longest THEN f.thousands ELSE 0
Negative(f) == f.format = "BALANCE" /\ f.column \notin longest

\* dbg_print: in columns, printf fills a value up to its width, after the sign it has printed.
dbg_print(f) ==
  IF ~columnar THEN Chars(f)
  ELSE IF Negative(f) THEN 1 + f.width
  ELSE IF Chars(f) > f.width THEN Chars(f) ELSE f.width

\* Faulty variant: the test of sep is the wrong way round.
Separated_Last(last) == ~columnar /\ last
\* EOL_HANDLING, which the Makefile of tpch_tools does not define, is for the last separator.
Separated(last) == ~columnar /\ (~last \/ newer_print)

PrintField ==
  /\ print_pc = "print" /\ at_field <= Len(Printer(line))
  /\ LET f == Printer(line)[at_field]
         value == [column |-> f.column, chars |-> dbg_print(f), thousands |-> Thousands(f)]
     IN  printed' = printed \o (IF Separated(at_field = Len(Printer(line)))
                            THEN <<value, SEPARATOR>> ELSE <<value>>)
  /\ at_field' = at_field + 1
  /\ UNCHANGED <<print_pc, print_options, print_line, longest, row_number, vtotal, told>>

\* PR_END.
EndLine ==
  /\ print_pc = "print" /\ at_field > Len(Printer(line))
  /\ EndOfLine
  /\ UNCHANGED row_number

\* Faulty variant: numbers and strings are not added up either.
Summed_Set(column, value) == {value}
\* VRF_INT, VRF_STR, VRF_CHR and VRF_HUGE add; VRF_MONEY sets.
Summed(column, value) ==
  IF column \in Verifier(line).prices THEN {value} ELSE vtotal[line] \cup {value}

VerifyField ==
  /\ print_pc = "verify" /\ at_field <= Len(Verifier(line).columns)
  /\ LET column == Verifier(line).columns[at_field]
     IN  vtotal' = [vtotal EXCEPT ![line] = Summed(column, <<row_number, column>>)]
  /\ at_field' = at_field + 1
  /\ UNCHANGED <<print_pc, print_options, print_line, longest, printed, row_number, told>>

\* VRF_END.
EndVerify ==
  /\ print_pc = "verify" /\ at_field > Len(Verifier(line).columns)
  /\ EndOfLine
  /\ UNCHANGED row_number

PrintNext ==
  ChooseTable \/ StartPrint \/ LoadRow \/ PrintField \/ EndLine \/ VerifyField \/ EndVerify

PrintSpec == PrintInit /\ [][PrintNext]_print_vars

-----------------------------------------------------------------------------
(***************************************************************************)
(* Properties.                                                             *)
(***************************************************************************)

\* mysqlimport --fields-terminated-by='|': the values between the separators.
Loaded(l) ==
  LET fields == FoldLeft(LAMBDA fs, item :
                  IF item = SEPARATOR THEN Append(fs, <<>>)
                  ELSE Append(Front(fs), Append(Last(fs), item)), <<<<>>>>, l)
  IN  IF Last(fields) = <<>> THEN Front(fields) ELSE fields

Widths(s) == FoldLeft(LAMBDA sum, x : sum + x, 0, s)

\* A printed line loads into its table: the value of each column comes to the column of that
\* name and has room there, whatever the lengths of the values and the size of the numbers (the
\* keys of orders outgrow 32 bits at scales beyond 357).  With -O m every line of a
\* table has the same length, as a file of columns must, if no balance in it is negative.
\* With -D nothing is printed; each table whose rows are dropped is named, and named once.
RowLoads ==
  /\ print_pc = "print" /\ at_field > Len(Printer(line)) =>
       IF columnar
         THEN \/ Widths([i \in DOMAIN printed |-> printed[i].chars])
                   = Widths([i \in DOMAIN Printer(line) |-> Printer(line)[i].width])
              \/ \E i \in DOMAIN Printer(line) : Negative(Printer(line)[i])
         ELSE /\ Len(Loaded(printed)) = Len(ddl(line))
              /\ \A i \in DOMAIN Loaded(printed) :
                   \E item \in {Loaded(printed)[i][1]} :
                     /\ Loaded(printed)[i] = <<item>>
                     /\ item.column = ddl(line)[i].column
                     /\ item.chars <= ddl(line)[i].chars
                     /\ item.thousands <= ddl(line)[i].thousands
  /\ print_pc = "row" /\ direct /\ ~validate /\ row_number > 0 =>
       /\ printed = <<>>
       /\ told = [i \in DOMAIN Lines(print_table) |-> ld(Lines(print_table)[i])]

\* The checksums cover what is printed: every column of every row, up to the price that is
\* added last and makes it forget what came before.
ChecksumCovers ==
  print_pc = "row" /\ validate =>
    \A t \in ToSet(Lines(print_table)) : \A r \in 1..row_number : \A i \in DOMAIN Printer(t) :
      LET column(k) == Printer(t)[k].column
          price(k)  == column(k) \in Verifier(t).prices
      IN  \/ <<r, column(i)>> \in vtotal[t]
          \/ \E k \in DOMAIN Printer(t) : price(k) /\ (k > i \/ r < row_number)
=============================================================================
