---------------------------- MODULE MCUpdateSets ----------------------------
(***************************************************************************)
(* Small instances of UpdateSets for TLC: 20 units for 10000, 20 orders.   *)
(* With -r 10 a set has ten rows, which is not a multiple of the eight keys*)
(* of a group, and the sequence number changes every two sets, ten times   *)
(* before the sets' numbers reach Units, as in the code.                   *)
(***************************************************************************)
EXTENDS UpdateSets

Cmd(updates, step, refresh, is, ds, sql, rng) ==
  [updates |-> updates, step |-> step, refresh |-> refresh, insert_segments |-> is,
   delete_segments |-> ds, gen_sql |-> sql, gen_rng |-> rng, newer |-> FALSE]
ToolsCmd(updates, step, refresh, is, ds) ==
  [Cmd(updates, step, refresh, is, ds, FALSE, FALSE) EXCEPT !.newer = TRUE]

\* As many sets as delete the loaded orders, with each way to print and to split them.
\* (7 and 3 do not divide the units; five segments are more than three rows.)
OnePass ==
  {Cmd(20 \div r, -1, r, 0, 0, FALSE, rng) : r \in {10, 7, 3}, rng \in BOOLEAN}
    \cup {Cmd(2, st, 10, s, u, FALSE, FALSE) : st \in {-1, 1, 2}, s \in {0, 1, 3, 5}, u \in {3, 5}}
    \cup {Cmd(3, 2, 3, s, s, FALSE, FALSE) : s \in {1, 2, 5}}

\* As many sets as have numbers below Units: the sequence number reaches ten.
ManySets == {Cmd(19, -1, 10, 0, 0, FALSE, FALSE), Cmd(19, 5, 7, 0, 0, FALSE, FALSE),
             Cmd(19, -1, 3, 0, 0, FALSE, FALSE)}

\* The sets of tpch_tools: those that delete the loaded orders, and many.
ToolsSets == {ToolsCmd(2, st, 10, s, u) : st \in {-1, 2}, s \in {0, 3}, u \in {0, 3, 5}}
               \cup {ToolsCmd(6, -1, 3, 0, 2), ToolsCmd(19, 5, 10, 0, 0)}

MCCommands == OnePass \cup ManySets \cup ToolsSets

\* One set more than delete the loaded orders.
Rollover == {Cmd(3, -1, 10, 0, 0, FALSE, FALSE)}
=============================================================================
