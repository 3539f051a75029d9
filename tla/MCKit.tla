-------------------------------- MODULE MCKit --------------------------------
(***************************************************************************)
(* Small instances of the programs and functions that share nothing: one   *)
(* of them runs, the others stay where they begin.                         *)
(***************************************************************************)
EXTENDS Rows, Distributions, Text, Bcd, Printing, Qgen, Template, ParseQuery, Generator, Tools,
        MCUpdateSets

VARIABLE part      \* the one that runs

kit_vars == <<part, rows_vars, dist_vars, text_vars, bcd_vars, print_vars, qgen_vars,
              tpl_vars, parse_vars, gen_vars, tools_vars, update_vars>>

KitInit ==
  /\ part \in {"rows", "distributions", "text", "bcd", "print", "qgen", "template",
               "parse_query", "generator", "tools", "update"}
  /\ RowsInit /\ DistInit /\ TextInit /\ BcdInit /\ PrintInit /\ QgenInit
  /\ TemplateInit /\ ParseInit /\ GenInit /\ ToolsInit /\ UpdateInit
  /\ part = "rows" \/ rows_pc = "start"
  /\ part = "distributions" \/ file = CHOOSE f \in Files : TRUE
  /\ part = "text" \/ column = "POOL"
  /\ part = "update" \/ opt = CHOOSE c \in UpdateCommands : TRUE
  /\ part = "update" \/ order_rng = LoadedOrders(0) + Skip(opt.step)

RunRows ==
  /\ part = "rows" /\ RowsNext
  /\ UNCHANGED <<part, dist_vars, text_vars, bcd_vars, print_vars, qgen_vars, tpl_vars,
                 parse_vars, gen_vars, tools_vars, update_vars>>
RunDistributions ==
  /\ part = "distributions" /\ DistNext
  /\ UNCHANGED <<part, rows_vars, text_vars, bcd_vars, print_vars, qgen_vars, tpl_vars,
                 parse_vars, gen_vars, tools_vars, update_vars>>
RunText ==
  /\ part = "text" /\ TextNext
  /\ UNCHANGED <<part, rows_vars, dist_vars, bcd_vars, print_vars, qgen_vars, tpl_vars,
                 parse_vars, gen_vars, tools_vars, update_vars>>
RunBcd ==
  /\ part = "bcd" /\ BcdNext
  /\ UNCHANGED <<part, rows_vars, dist_vars, text_vars, print_vars, qgen_vars, tpl_vars,
                 parse_vars, gen_vars, tools_vars, update_vars>>
RunPrint ==
  /\ part = "print" /\ PrintNext
  /\ UNCHANGED <<part, rows_vars, dist_vars, text_vars, bcd_vars, qgen_vars, tpl_vars,
                 parse_vars, gen_vars, tools_vars, update_vars>>
RunQgen ==
  /\ part = "qgen" /\ QgenNext
  /\ UNCHANGED <<part, rows_vars, dist_vars, text_vars, bcd_vars, print_vars, tpl_vars,
                 parse_vars, gen_vars, tools_vars, update_vars>>
RunTemplate ==
  /\ part = "template" /\ TemplateNext
  /\ UNCHANGED <<part, rows_vars, dist_vars, text_vars, bcd_vars, print_vars, qgen_vars,
                 parse_vars, gen_vars, tools_vars, update_vars>>
RunParseQuery ==
  /\ part = "parse_query" /\ ParseNext
  /\ UNCHANGED <<part, rows_vars, dist_vars, text_vars, bcd_vars, print_vars, qgen_vars,
                 tpl_vars, gen_vars, tools_vars, update_vars>>
RunGenerator ==
  /\ part = "generator" /\ GenNext
  /\ UNCHANGED <<part, rows_vars, dist_vars, text_vars, bcd_vars, print_vars, qgen_vars,
                 tpl_vars, parse_vars, tools_vars, update_vars>>
RunTools ==
  /\ part = "tools" /\ ToolsNext
  /\ UNCHANGED <<part, rows_vars, dist_vars, text_vars, bcd_vars, print_vars, qgen_vars,
                 tpl_vars, parse_vars, gen_vars, update_vars>>
RunUpdate ==
  /\ part = "update" /\ UpdateNext
  /\ UNCHANGED <<part, rows_vars, dist_vars, text_vars, bcd_vars, print_vars, qgen_vars,
                 tpl_vars, parse_vars, gen_vars, tools_vars>>

KitNext ==
  \/ RunRows \/ RunDistributions \/ RunText \/ RunBcd \/ RunPrint
  \/ RunQgen \/ RunTemplate \/ RunParseQuery \/ RunGenerator \/ RunTools
  \/ RunUpdate

KitSpec == KitInit /\ [][KitNext]_kit_vars /\ WF_kit_vars(RunQgen)

-----------------------------------------------------------------------------
\* Rows: the first and the last days of orders, and the three around June 17, 1995 from which
\* lineitems are shipped before and after; customers at both ends; scale 101, at which a part
\* meets the suppliers of another round.
MCOrderDays == {0, 1142, 1262, 2405, 2406}
MCCustDraws == {3, 15150000}
MCPartDraws == {1, 20000999}
MCAmounts   == {<<50, 0, 8>>}

\* Distributions: before, after and without the others, without its end, too short.
MCFiles ==
  {<<Comment, Begin("a"), Count(1), Member("x", 4), End("a"), Begin("b"), Count(4), Comment,
     Member("p", 3), Member("q", 1), Member("r", 0), Member("s", 2), End("b")>>,
   <<Begin("b"), Count(3), Member("p", 1), Member("q", 2), Member("r", 1), End("b"),
     Begin("a"), Count(1), Member("x", 4), End("a")>>,
   <<Begin("a"), Count(1), Member("x", 4), End("a")>>,
   <<Begin("b"), Count(2), Member("p", 1), Member("q", 2)>>,
   <<Begin("b"), Count(2), Member("p", 1)>>}

MCColumns == {"P_CMNT", "PS_CMNT", "L_CMNT", "S_CMNT", "N_CMNT", "ADDRESS", "POOL"}

\* The shortest and the longest texts, of the shortest or the longest words, or long verbs among
\* short words.
MCTextLengths ==
  [c \in Texts \cup {"ADDRESS"} |-> {TextColumn(c).min, TextColumn(c).max}]
MCVocabularies ==
  {[k \in Kinds |-> {WordLen(k, Short)}], [k \in Kinds |-> {WordLen(k, Long)}],
   [k \in Kinds |-> {WordLen(k, Short)} \cup (IF k = "V" THEN {WordLen(k, Long)} ELSE {})]}

\* Bcd: carries over none, some and all of four digits.
MCNumbers  == {0, 7, 99, 100, 808, 999, 1234, 9999}
MCOperands == {0, 1, 4, 8, 9, 10, 96, 9999}

\* Rows to print: all tables, and those in pairs.
MCPrintTables ==
  {"customer", "orders", "lineitem", "part", "partsupp", "supplier", "nation", "region",
   "order_line", "part_psupp"}

\* Templates: the shape of those in queries/, and braces, over lines and in one, with a query
\* after them; all options.
MCTemplates ==
  << <<<<Dash, Dash, Words(1), Newline>>, <<Tag("x"), Newline>>, <<Tag("o"), Newline>>,
       <<Tag("c"), Words(2), Param(1), Words(3), Param(2), Words(4), Newline>>,
       <<Words(5), Dash, Words(6), Newline>>, <<RowCount(100), Words(7), Newline>>>>,
     <<<<Open, Words(1), Tag("q"), Newline>>, <<Words(2), Newline>>,
       <<Words(3), Close, Words(4), Tag("s"), Newline>>, <<Tag("b"), Newline>>,
       <<Words(5), Dash, Dash, Words(6), Param(1), Newline>>,
       <<Open, Words(7), Close, Words(8), Tag("q"), Tag("unknown"), Newline>>,
       <<Tag("e"), Newline>>>> >>
MCQueryLists == {<<1, 2, 1>>, <<2, 1, 2>>}
MCFlagSets   == SUBSET {"ANSI", "DBASE", "OUTPUT", "EXPLAIN", "COMMENT", "DFLT_NUM"}
MCSNUM       == -1

\* qgen: no permutation and the first row of the table; all queries and some; seeds from which
\* the second nation or ship mode is the first one again.
MCSnums == {-1, 0}
MCPermutation ==
  [s \in {0} |-> <<14, 2, 9, 20, 6, 17, 18, 8, 21, 13, 3, 22, 16, 4, 11, 15, 1, 10, 19, 5, 7, 12>>]
MCQueryArgs == {<<>>, <<7, 3, 2, 12>>, <<16, 1>>, <<22, 16, 7>>}

\* parse_query: query 15, of three statements, first and last.
MCWorkloads ==
  LET q15 == Query(15, <<<<"v">>, <<"s", "t">>, <<"d">>>>)
  IN  {<<Query(1, <<<<"a", "b", "c">>>>), q15>>,
       <<q15, Query(14, <<<<"a">>>>), Query(2, <<<<"a", "b">>>>)>>}

\* Jumps over all numbers of the period and one more, and back.
MCJumps == (-30..31) \cup {63, 64}

\* tpch_tools: rows that divide by the steps and that do not, scales below 1, all -T that have
\* a detail table or borrow streams, update sets from the first and a later one, and options
\* that exclude each other.
MCToolsBase ==
  [t \in Table |-> IF t \in Code \cup {"SUPP"} THEN 1
                   ELSE IF t \in {"ORDER", "LINE", "ORDER_LINE"} THEN 10 ELSE 5]
MCToolsCommands ==
  {Command(2000, T, 3, <<1, 2, 3>>, 0, 0) : T \in {"p", "L", "O", "S", "P", "c"}} \cup
  {Command(1000, "none", 1, <<>>, 0, 0), Command(2000, "none", 2, <<1, 2>>, 0, 0),
   Command(500, "o", 3, <<0, 1, 2, 3>>, 0, 0), Command(500, "s", 1, <<>>, 0, 0),
   Command(2000, "none", 1, <<>>, 3, 2), Command(2000, "none", 1, <<2>>, 3, 0),
   Command(500, "none", 1, <<1>>, 2, 0),
   Command(1000, "none", 2, <<>>, 0, 0), Command(1000, "none", 2, <<1>>, 1, 0),
   Command(1000, "none", 1, <<1>>, 0, 0), Command(1000, "none", 1, <<>>, 0, 2),
   Command(1000, "L", 1, <<>>, 1, 0)}
=============================================================================
