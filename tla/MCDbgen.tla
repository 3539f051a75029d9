------------------------------- MODULE MCDbgen -------------------------------
(***************************************************************************)
(* Small instances of Dbgen for TLC.                                       *)
(***************************************************************************)
EXTENDS Dbgen

\* The modulus is far below 2^31 - 1, so that TLC can count, and far above the
\* draws of the largest part, as it is for the scales the kit is used at.
MCModulus == 1000003

\* Few draws, and all the draws a row may make without leaving its boundary.
MCVarDraws == {[s \in VarStream |-> IF s = L_RFLG_SD THEN 0 ELSE 1],
               [s \in VarStream |-> IF s = L_RFLG_SD THEN 1 ELSE Boundary(s)]}
MCLineCounts == {1, 7}
AllLines == {7}
FewDraws == {[s \in VarStream |-> 1]}

Cmd(tables, scale, n, steps, force) ==
  [table |-> tables, scale |-> scale, children |-> n, steps |-> steps, force |-> force]

\* Tables that several steps write, one of two rows: a step that opens the file again may find
\* rows the other has written.
TwoRows == [t \in Tables |-> IF t \in {PART_PSUPP, CUST, NATION} THEN 2 ELSE 1]

\* Every -T choice by two forked children, in parts of one and two rows or of three each; the
\* pairs, and the tables that borrow streams or have empty parts, by three steps; one by three
\* children, of which the last makes all rows.
EachTable ==
  {Cmd({t}, 3, 2, FALSE, TRUE) : t \in Tables} \cup
  {Cmd({t}, 5, 2, FALSE, TRUE) : t \in {ORDER_LINE, LINE}} \cup
  {Cmd({CUST}, 3, 3, FALSE, TRUE)} \cup
  {Cmd({PART_PSUPP}, 3, 3, TRUE, TRUE), Cmd({ORDER_LINE}, 5, 3, TRUE, TRUE)} \cup
  {Cmd({t}, 2, 3, TRUE, TRUE) : t \in {LINE, CUST, SUPP}}

\* The default command line, and overwriting refused.
Together  == {Cmd(AllTables, 1, 2, FALSE, TRUE), Cmd({PART_PSUPP}, 1, 2, FALSE, FALSE),
              Cmd(AllTables, 1, 1, FALSE, FALSE),
              Cmd({NATION, REGION}, 1, 2, TRUE, TRUE), Cmd({PART_PSUPP}, 1, 2, TRUE, FALSE)}

MCCommands == EachTable \cup Together

\* A crash of the command lines whose processes write several tables or the same file.
MCCrashes == [cmd \in MCCommands |-> IF cmd \in Together THEN 1 ELSE 0]

\* A part too large for the modulus: five orders reserve 5 * 945 draws of L_CMNT_SD.
\* In the code the limit is passed by a part of 2272470 orders.
SmallModulus == 4095
TenOrders == [t \in Tables |-> IF t = ORDER_LINE THEN 10 ELSE 1]
TwoSteps  == {Cmd({ORDER_LINE}, 1, 2, TRUE, TRUE)}
NoCrashes == [cmd \in TwoSteps |-> 0]
=============================================================================
