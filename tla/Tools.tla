------------------------------- MODULE Tools --------------------------------
(***************************************************************************)
(* The newer dbgen under tpch_tools: a data set made in chunks by commands *)
(* of their own (-C and -S), and update sets (-U), with their streams of   *)
(* random numbers (driver.c; bm_utils.c: set_state; speed_seed.c; rnd.c).  *)
(*                                                                         *)
(* It differs from src/dbgen in what a row draws (texts come from a pool   *)
(* that is made once), in rounding after scaling, in that it forks no      *)
(* children, and in its options.  A stream is the number of draws made     *)
(* from it; the generator is in Generator, keys and segments of update     *)
(* sets are those of UpdateSets.                                           *)
(***************************************************************************)
EXTENDS Integers, Sequences, FiniteSets

CONSTANTS
  ToolsBase,       \* tdefs[].base, by table
  ToolsCommands,   \* the command lines
  UpdParts,        \* -U: in how many parts the loaded orders are skipped, 100
  SetUnits,        \* 10000
  UPD_PCT          \* the rows of an update set, of so many

Table == {"PART", "PSUPP", "SUPP", "CUST", "ORDER", "LINE", "ORDER_LINE", "PART_PSUPP",
          "NATION", "REGION"}

\* main's loop: from PART to REGION.
InOrder == <<"PART", "PSUPP", "SUPP", "CUST", "ORDER", "LINE", "ORDER_LINE", "PART_PSUPP",
             "NATION", "REGION">>
Code == {"NATION", "REGION"}

\* process_options: -T.
DefaultTables == {"CUST", "SUPP", "NATION", "REGION", "PART_PSUPP", "ORDER_LINE"}
Options == {"none", "c", "L", "l", "n", "r", "O", "o", "P", "p", "S", "s"}
TablesOf(T) ==
  CASE T = "none" -> DefaultTables
    [] T = "c" -> {"CUST"}       [] T = "L" -> {"LINE"}       [] T = "l" -> {"NATION", "REGION"}
    [] T = "n" -> {"NATION"}     [] T = "r" -> {"REGION"}     [] T = "O" -> {"ORDER"}
    [] T = "o" -> {"ORDER_LINE"} [] T = "P" -> {"PART"}       [] T = "p" -> {"PART_PSUPP"}
    [] T = "S" -> {"PSUPP"}      [] T = "s" -> {"SUPP"}

\* -s (in thousandths), -T, -C, -U, -i; and -S, with the steps for which the command is given
\* in turn.
Command(s, T, C, S, U, i) ==
  [permille |-> s, tables |-> TablesOf(T), table_set |-> T # "none", children |-> C,
   steps |-> S, updates |-> U, segments |-> i]

\* tdefs[].child.
ChildOf(t) == CASE t \in {"PART", "PART_PSUPP"}  -> "PSUPP"
                [] t \in {"ORDER", "ORDER_LINE"} -> "LINE"
                [] OTHER                         -> "NONE"

\* rnd.h: the streams, the table of each, and its draws for a row of it.
Part1     == {"P_MFG", "P_BRND", "P_TYPE", "P_SIZE", "P_CNTR"}
PartSupp4 == {"PS_QTY", "PS_SCST"}
Order1    == {"O_SUPP", "O_CLRK", "O_ODATE", "O_PRIO", "O_CKEY", "O_LCNT"}
Lines7    == {"L_QTY", "L_DCNT", "L_TAX", "L_SHIP", "L_SMODE", "L_PKEY", "L_SKEY", "L_SDTE",
              "L_CDTE", "L_RDTE", "L_RFLG"}
Cust1     == {"C_NTRG", "C_ABAL", "C_MSEG"}
Supp1     == {"S_NTRG", "S_ABAL", "BBB_OFFSET", "BBB_TYPE", "BBB_CMNT", "BBB_JNK"}
Stream2   == Part1 \cup {"P_CMNT", "P_NAME"} \cup PartSupp4 \cup {"PS_CMNT"}
               \cup Order1 \cup {"O_CMNT"} \cup Lines7 \cup {"L_CMNT"}
               \cup Cust1 \cup {"C_ADDR", "C_PHNE", "C_CMNT"}
               \cup Supp1 \cup {"S_ADDR", "S_PHNE", "S_CMNT"} \cup {"N_CMNT", "R_CMNT"}

TableOfStream(s) ==
  CASE s \in Part1 \cup {"P_CMNT", "P_NAME"}           -> "PART"
    [] s \in PartSupp4 \cup {"PS_CMNT"}                -> "PSUPP"
    [] s \in Order1 \cup {"O_CMNT"}                    -> "ORDER"
    [] s \in Lines7 \cup {"L_CMNT"}                    -> "LINE"
    [] s \in Cust1 \cup {"C_ADDR", "C_PHNE", "C_CMNT"} -> "CUST"
    [] s \in Supp1 \cup {"S_ADDR", "S_PHNE", "S_CMNT"} -> "SUPP"
    [] s = "N_CMNT" -> "NATION"
    [] s = "R_CMNT" -> "REGION"

Boundary2(s) ==
  CASE s = "P_NAME" -> 92
    [] s = "L_CMNT" -> 14
    [] s \in {"C_ADDR", "S_ADDR"} -> 9
    [] s = "PS_CMNT" -> 8
    [] s \in Lines7 -> 7
    [] s \in PartSupp4 -> 4
    [] s \in {"C_PHNE", "S_PHNE"} -> 3
    [] s \in {"P_CMNT", "O_CMNT", "C_CMNT", "S_CMNT", "N_CMNT", "R_CMNT"} -> 2
    [] OTHER -> 1

\* Below scale 1 process_options takes rows from the base, and leaves one at least; above it
\* the scale is an integer.
AtLeastOne(n) == IF n < 1 THEN 1 ELSE n
ScaledBase(s, t) ==
  IF s < 1000 /\ t \notin Code THEN AtLeastOne((s * ToolsBase[t]) \div 1000) ELSE ToolsBase[t]
IntScale(s) == AtLeastOne(s \div 1000)
AllRows(s, t) == IF t \in Code THEN ToolsBase[t] ELSE ScaledBase(s, t) * IntScale(s)

\* 1500000 orders are a multiple of 100 at each scale, so that -U skips all of them.
ASSUME ToolsAssumption ==
  /\ ToolsBase \in [Table -> Nat \ {0}]
  /\ {UpdParts, SetUnits, UPD_PCT} \subseteq Nat \ {0}
  /\ ToolsBase["ORDER"] = ToolsBase["ORDER_LINE"] /\ ToolsBase["ORDER"] = ToolsBase["LINE"]
  /\ ToolsCommands \subseteq
       [permille : Nat, tables : {TablesOf(T) : T \in Options}, table_set : BOOLEAN,
        children : Nat, steps : Seq(Int), updates : Nat, segments : Nat]
  /\ \A c \in ToolsCommands : c.updates > 0 => AllRows(c.permille, "ORDER") % UpdParts = 0

VARIABLES
  tools_pc,        \* "shell" (between commands), "tables" (main's loop), "rows" (gen_tbl),
                   \* "sets" (main's loop over update sets), "refused", "stop"
  cmd,             \* the options, the steps to come first
  at_table,        \* main's i: where its loop over the tables is
  at_row, rows_left, \* gen_tbl: i and count
  pos,             \* the streams
  tools_upd_num,   \* upd_num
  written          \* the rows in the files, by table or number of the update set

tools_vars == <<tools_pc, cmd, at_table, at_row, rows_left, pos, tools_upd_num, written>>

stepnum == IF cmd.steps = <<>> THEN -1 ELSE Head(cmd.steps)
tnum == IF cmd.updates > 0 THEN "ORDER_LINE" ELSE InOrder[at_table]
RowsOf(t) == AllRows(cmd.permille, t)

\* main: rowcnt of an update set, which rounds before it multiplies.
RowsPerSet == (ScaledBase(cmd.permille, "ORDER_LINE") \div SetUnits) * IntScale(cmd.permille) * UPD_PCT

-----------------------------------------------------------------------------
\* Skipping one row of a table: the draws of a stream.
sd_part(s) ==
  CASE s \in Part1 -> 1 [] s = "P_CMNT" -> 2 [] s = "P_NAME" -> 92 [] OTHER -> 0

sd_psupp(s) == CASE s \in PartSupp4 -> 4 [] s = "PS_CMNT" -> 8 [] OTHER -> 0

sd_order(s) == CASE s \in Order1 -> 1 [] s = "O_CMNT" -> 2 [] OTHER -> 0

sd_line(s, child) ==
  CASE s \in Lines7 -> 7 [] s = "L_CMNT" -> 14
    [] child = 1 /\ s \in {"O_ODATE", "O_LCNT"} -> 1
    [] OTHER -> 0

sd_cust(s) ==
  CASE s \in Cust1 -> 1 [] s = "C_ADDR" -> 9 [] s = "C_CMNT" -> 2 [] s = "C_PHNE" -> 3
    [] OTHER -> 0

sd_supp(s) ==
  CASE s \in Supp1 -> 1 [] s = "S_PHNE" -> 3 [] s = "S_ADDR" -> 9 [] s = "S_CMNT" -> 2
    [] OTHER -> 0

\* tdefs[].gen_seed.
SkipRow(t, s, child) ==
  CASE t \in {"PART", "PART_PSUPP"}  -> sd_part(s)
    [] t \in {"ORDER", "ORDER_LINE"} -> sd_order(s)
    [] t = "PSUPP" -> sd_psupp(s)
    [] t = "LINE"  -> sd_line(s, child)
    [] t = "CUST"  -> sd_cust(s)
    [] t = "SUPP"  -> sd_supp(s)

\* Faulty variant: the lineitems alone do not skip the streams they share with the orders.
Shared_Not(t) == 0
\* set_state's first argument.
Shared(t) == IF t = "LINE" THEN 1 ELSE 0

Skipped(p, t, child, n) == [s \in Stream2 |-> p[s] + n * SkipRow(t, s, child)]

\* Where set_state leaves the streams for the given step of so many parts; its result.
set_state(p, t, parts, stp) ==
  LET n     == IF stp > 1 THEN (stp - 1) * (RowsOf(t) \div parts) ELSE 0
      own   == Skipped(p, t, Shared(t), n)
      below == IF ChildOf(t) = "NONE" THEN own ELSE Skipped(own, ChildOf(t), 0, n)
  IN  IF stp > parts THEN Skipped(below, t, 0, RowsOf(t) % parts) ELSE below

RowsOfStep(t, parts, stp) == IF stp = 0 THEN 0 ELSE RowsOf(t) \div parts

\* validate_options.
Valid ==
  /\ cmd.children # 1 => cmd.updates = 0 /\ stepnum # -1
  /\ cmd.updates = 0 => cmd.segments = 0
  /\ stepnum # -1 => cmd.children # 1 \/ cmd.updates # 0
  /\ cmd.table_set => cmd.updates = 0

-----------------------------------------------------------------------------
NoCommand == [permille |-> 1000, tables |-> {}, table_set |-> FALSE, children |-> 0,
              steps |-> <<>>, updates |-> 0, segments |-> 0]

ToolsInit ==
  /\ tools_pc = "shell" /\ cmd = NoCommand
  /\ at_table = 1 /\ at_row = 1 /\ rows_left = 0
  /\ pos = [s \in Stream2 |-> 0]
  /\ tools_upd_num = 0 /\ written = {}

Choose ==
  /\ tools_pc = "shell" /\ cmd = NoCommand
  /\ cmd' \in ToolsCommands
  /\ UNCHANGED <<tools_pc, at_table, at_row, rows_left, pos, tools_upd_num, written>>

\* main, from its start: the process has the streams of rnd.h.
MainTables ==
  /\ tools_pc = "shell" /\ cmd # NoCommand
  /\ Valid /\ cmd.updates = 0
  /\ at_table' = 1
  /\ pos' = [s \in Stream2 |-> 0]
  /\ tools_pc' = "tables"
  /\ UNCHANGED <<cmd, at_row, rows_left, tools_upd_num, written>>

\* -U: beyond the loaded rows, and with -S beyond the sets before.
MainUpdates ==
  /\ tools_pc = "shell" /\ cmd # NoCommand
  /\ Valid /\ cmd.updates > 0
  /\ LET p0 == set_state([s \in Stream2 |-> 0], "ORDER", UpdParts, UpdParts + 1)
         n  == IF stepnum > 0 THEN (stepnum - 1) * RowsPerSet ELSE 0
     IN  pos' = Skipped(Skipped(p0, "ORDER", 0, n), "LINE", 0, n)
  /\ tools_upd_num' = IF stepnum > 0 THEN stepnum - 1 ELSE 0
  /\ tools_pc' = "sets"
  /\ UNCHANGED <<cmd, at_table, at_row, rows_left, written>>

Refuse ==
  /\ tools_pc = "shell" /\ cmd # NoCommand
  /\ ~Valid
  /\ tools_pc' = "refused"
  /\ UNCHANGED <<cmd, at_table, at_row, rows_left, pos, tools_upd_num, written>>

\* Faulty variant: the last step forgets the rows that do not divide.
Extra_None(n) == 0
Extra(n) == IF stepnum = cmd.children THEN n % cmd.children ELSE 0

SkipTable ==
  /\ tools_pc = "tables" /\ at_table <= Len(InOrder) /\ tnum \notin cmd.tables
  /\ at_table' = at_table + 1
  /\ UNCHANGED <<tools_pc, cmd, at_row, rows_left, pos, tools_upd_num, written>>

\* partial, or a table in one piece.
BeginTable ==
  /\ tools_pc = "tables" /\ at_table <= Len(InOrder) /\ tnum \in cmd.tables
  /\ LET n == RowsOf(tnum)
     IN  IF cmd.children > 1 /\ tnum \notin Code
           THEN LET rowcount == RowsOfStep(tnum, cmd.children, stepnum)
                IN  /\ pos' = set_state(pos, tnum, cmd.children, stepnum)
                    /\ at_row' = rowcount * (stepnum - 1) + 1
                    /\ rows_left' = rowcount + Extra(n)
           ELSE /\ UNCHANGED pos
                /\ at_row' = 1 /\ rows_left' = n
  /\ tools_pc' = "rows"
  /\ UNCHANGED <<cmd, at_table, tools_upd_num, written>>

BeginSet ==
  /\ tools_pc = "sets" /\ tools_upd_num < cmd.updates
  /\ at_row' = tools_upd_num * RowsPerSet + 1
  /\ rows_left' = RowsPerSet
  /\ tools_pc' = "rows"
  /\ UNCHANGED <<cmd, at_table, pos, tools_upd_num, written>>

\* The numbers that the rows draw, by stream: a text takes two, a telephone number three, and
\* an address one for its length and one for each five of its 10 to 40 characters.
dbg_text_draws  == 2
gen_phone_draws == 3

MkCust(s, address) ==
  CASE s \in Cust1 -> 1 [] s = "C_ADDR" -> address [] s = "C_PHNE" -> gen_phone_draws
    [] s = "C_CMNT" -> dbg_text_draws [] OTHER -> 0

\* With its lineitems, of which some draw no return flag.
MkOrderLine(s, lines) ==
  CASE s \in Order1 \ {"O_SUPP"} -> 1 [] s = "O_CMNT" -> dbg_text_draws
    [] s = "L_RFLG" -> lines - 1 [] s \in Lines7 \ {"L_RFLG"} -> lines
    [] s = "L_CMNT" -> dbg_text_draws * lines [] OTHER -> 0

\* With its partsupp rows; the name permutes all 92 colours.
MkPartPsupp(s) ==
  CASE s \in Part1 -> 1 [] s = "P_NAME" -> 92 [] s = "P_CMNT" -> dbg_text_draws
    [] s \in PartSupp4 -> 4 [] s = "PS_CMNT" -> dbg_text_draws * 4 [] OTHER -> 0

MkSupplier(s, address) ==
  CASE s \in Supp1 -> 1 [] s = "S_ADDR" -> address [] s = "S_PHNE" -> gen_phone_draws
    [] s = "S_CMNT" -> dbg_text_draws [] OTHER -> 0

MkCode(t, s) ==
  IF s = (IF t = "NATION" THEN "N_CMNT" ELSE "R_CMNT") THEN dbg_text_draws ELSE 0

Made(t, s, lines, address) ==
  CASE t \in {"PART", "PSUPP", "PART_PSUPP"} -> MkPartPsupp(s)
    [] t \in {"ORDER", "LINE", "ORDER_LINE"} -> MkOrderLine(s, lines)
    [] t = "CUST" -> MkCust(s, address)
    [] t = "SUPP" -> MkSupplier(s, address)
    [] t \in Code -> MkCode(t, s)

\* row_stop's table, which is the first of the two that are made together.
Own2(t) == CASE t = "PART_PSUPP" -> "PART" [] t = "ORDER_LINE" -> "ORDER" [] OTHER -> t

\* row_stop: the streams of the table and of its child.
Aligned(t) == {Own2(t), ChildOf(t)}

\* gen_tbl: one row.
MakeRow ==
  /\ tools_pc = "rows" /\ rows_left > 0
  /\ \E lines \in {1, 7}, address \in {3, 9} :
       pos' = [s \in Stream2 |-> pos[s] + IF TableOfStream(s) \in Aligned(tnum) THEN Boundary2(s)
                                          ELSE Made(tnum, s, lines, address)]
  /\ written' = written \cup {<<IF cmd.updates > 0 THEN tools_upd_num ELSE tnum, at_row>>}
  /\ at_row' = at_row + 1
  /\ rows_left' = rows_left - 1
  /\ UNCHANGED <<tools_pc, cmd, at_table, tools_upd_num>>

EndRows ==
  /\ tools_pc = "rows" /\ rows_left = 0
  /\ IF cmd.updates > 0
       THEN tools_upd_num' = tools_upd_num + 1 /\ tools_pc' = "sets" /\ UNCHANGED at_table
       ELSE at_table' = at_table + 1 /\ tools_pc' = "tables" /\ UNCHANGED tools_upd_num
  /\ UNCHANGED <<cmd, at_row, rows_left, pos, written>>

\* The command ends; the next step is the next command.
EndCommand ==
  /\ \/ tools_pc = "tables" /\ at_table > Len(InOrder)
     \/ tools_pc = "sets" /\ tools_upd_num >= cmd.updates
  /\ IF Len(cmd.steps) > 1 THEN cmd' = [cmd EXCEPT !.steps = Tail(@)] /\ tools_pc' = "shell"
                           ELSE tools_pc' = "stop" /\ UNCHANGED cmd
  /\ UNCHANGED <<at_table, at_row, rows_left, pos, tools_upd_num, written>>

ToolsNext ==
  \/ Choose \/ MainTables \/ MainUpdates \/ Refuse \/ SkipTable \/ BeginTable \/ BeginSet
  \/ MakeRow \/ EndRows \/ EndCommand

ToolsSpec == ToolsInit /\ [][ToolsNext]_tools_vars

-----------------------------------------------------------------------------
(***************************************************************************)
(* Properties.                                                             *)
(***************************************************************************)

\* What the printed row depends on: not the streams of a table that is only made with it,
\* but the number and the dates of the lineitems come from streams of the orders.
Depends(t) ==
  {s \in Stream2 : TableOfStream(s) \in
     CASE t = "ORDER" -> {"ORDER", "LINE"} [] t = "ORDER_LINE" -> {"ORDER", "LINE"}
       [] t = "PART_PSUPP" -> {"PART", "PSUPP"} [] OTHER -> {t}}
  \cup (IF t = "LINE" THEN {"O_ODATE", "O_LCNT"} ELSE {})

\* Every row is drawn where one command that makes the whole table, or for an update set
\* goes on after it, would draw it: the steps agree with each other on each stream, shared
\* ones too, whatever the rows before have drawn.
ToolsAsSerial ==
  tools_pc = "rows" /\ rows_left > 0 =>
    \A s \in Depends(tnum) :
      pos[s] = Boundary2(s) *
                 ((IF cmd.updates > 0 THEN RowsOf("ORDER") ELSE 0) + at_row - 1)

\* When the last step has ended each row is there: the steps' parts, which are rounded, leave
\* none out and overlap nowhere, and the sets are those that one -U without -S makes.
ToolsComplete ==
  /\ tools_pc = "rows" /\ rows_left > 0 /\ tnum \notin Code /\ cmd.updates = 0 =>
       <<tnum, at_row>> \notin written
  /\ tools_pc = "stop" =>
       LET first == IF stepnum > 0 THEN stepnum - 1 ELSE 0
       IN  written =
             IF cmd.updates = 0
               THEN UNION {{<<t, i>> : i \in 1..RowsOf(t)} : t \in cmd.tables}
               ELSE UNION {{<<u, u * RowsPerSet + i>> : i \in 1..RowsPerSet} :
                            u \in first..(cmd.updates - 1)}
=============================================================================
