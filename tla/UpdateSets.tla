----------------------------- MODULE UpdateSets -----------------------------
(***************************************************************************)
(* A run of dbgen -U: the update sets (driver.c: the updates branch of     *)
(* main, gen_tbl; build.c: mk_sparse; print.c: print_prep, pr_drange).     *)
(*                                                                         *)
(* Set n holds the orders RF1 inserts and the keys RF2 deletes.  The keys  *)
(* of orders are sparse: of 32 consecutive keys the load uses eight, and   *)
(* a sequence number selects another eight for the inserted orders.  After *)
(* Units / refresh sets, as many orders were inserted and deleted as were  *)
(* loaded, and the sequence number goes up.                                *)
(*                                                                         *)
(* Streams are kept as the row they are at: one position for the streams   *)
(* of the orders, one for those of the lineitems.  A file is the set of    *)
(* its rows.  Left out: the lineitems' file, which is written with the     *)
(* orders', and SQL text.                                                  *)
(*                                                                         *)
(* tpch_tools makes its sets the same way, but counts the sequence numbers *)
(* of its keys from another set, fills the files of the keys one after the *)
(* other, prints no ranges, and moves the streams of the lineitems over    *)
(* full parts only.                                                        *)
(***************************************************************************)
EXTENDS Integers, FiniteSets

CONSTANTS
  OrderBase,       \* tdefs[ORDER_LINE].base
  UpdateScale,     \* -s
  Units,           \* 10000: the basis points of -r, and what a segment adds to upd_num
  Parts,           \* 100: the parts in which tpch_tools moves over the loaded rows
  UpdateCommands,  \* the command lines
  Junk             \* the numbers of rows that a call without the argument may skip

UpdateCommand ==
  [updates : Nat \ {0}, step : Nat \cup {-1}, refresh : Nat \ {0},
   insert_segments : Nat, delete_segments : Nat, gen_sql : BOOLEAN, gen_rng : BOOLEAN,
   newer : BOOLEAN]       \* the program is that of tpch_tools

ASSUME UpdateSetsAssumption ==
  /\ OrderBase \in Nat \ {0} /\ UpdateScale \in Nat \ {0} /\ Units \in Nat \ {0}
  /\ Parts \in Nat \ {0}
  /\ UpdateCommands \subseteq
       {cmd \in UpdateCommand : cmd.refresh <= Units /\ (cmd.newer => ~cmd.gen_sql /\ ~cmd.gen_rng)}
  /\ Junk \subseteq Nat

VARIABLES
  opt,                 \* the command line
  pc,                  \* "set", "insert" (gen_tbl), "delete" (pr_drange), "done"
  upd_num,             \* main: sets made before this one
  upd_i,               \* the number of the row
  upd_count,           \* the rows still to make
  mode,                \* gen_tbl's upd_num: the set, and Units times the segments before
  rows_this_segment,   \* rows in the segment
  segment,             \* files opened for the set so far
  fp,                  \* the file that is open: set and segment
  order_rng,           \* the row that the streams of the orders are at
  line_rng,            \* the row that the streams of the lineitems are at
  upd_start, upd_last, \* pr_drange: the range of keys that is open
  inserts,             \* the rows of the insert files
  deletes              \* the rows of the delete files

update_vars == <<opt, pc, upd_num, upd_i, upd_count, mode, rows_this_segment, segment, fp,
                 order_rng, line_rng, upd_start, upd_last, inserts, deletes>>

-----------------------------------------------------------------------------
(***************************************************************************)
(* Sparse keys.                                                            *)
(***************************************************************************)
LOW == 8       \* 1 << SPARSE_KEEP
SEQ == 4       \* 1 << SPARSE_BITS

\* mk_sparse adds the sequence number: above SEQ - 1 it carries into the next group.
mk_sparse(k, seq) == ((k \div LOW) * SEQ + seq) * LOW + (k % LOW)

\* MK_SPARSE, which pr_drange uses, takes it modulo SEQ.
MK_SPARSE(k, seq) == ((k \div LOW) * SEQ + (seq % SEQ)) * LOW + (k % LOW)

rowcnt     == IF opt.newer THEN (OrderBase \div Units) * UpdateScale * opt.refresh
              ELSE (OrderBase * UpdateScale * opt.refresh) \div Units
SetsPerSeq == Units \div opt.refresh

minrow(n)  == (n - 1) * rowcnt + 1

\* Faulty variant: the load's own keys for the first sets.
InsertSeq_FromZero(n) == (n % Units) \div SetsPerSeq
InsertSeq(n) == IF n % Units = 0 THEN 0 ELSE 1 + (n % Units) \div SetsPerSeq

\* Faulty variant: the set's number counted from one.
DeleteSeq_FromOne(n) == n \div SetsPerSeq
DeleteSeq(n) == (IF opt.newer THEN n ELSE n - 1) \div SetsPerSeq

LoadedKeys == {mk_sparse(k, 0) : k \in 1..(OrderBase * UpdateScale)}

\* A set of rowcnt rows in s segments: the first ones have one row more.
PerSegment(s) == rowcnt \div s
Residual(s)   == rowcnt % s

-----------------------------------------------------------------------------
\* Faulty variant: the lineitems' streams are not moved to the set of -S.
Skip_OrdersOnly(step) == 0
Skip(step) == IF step > 0 THEN rowcnt * (step - 1) ELSE 0

\* set_state(ORDER, scale, 1, 2) moves both tables' streams over the loaded rows and
\* then calls gen_seed once more with one argument of two.
LoadedOrders(junk) == OrderBase * UpdateScale + junk
\* set_state(ORDER, scale, 100, 101) of tpch_tools moves both over the rows of 100 parts, and
\* only those of the orders over the rest.
LoadedLines ==
  OrderBase * UpdateScale - (IF opt.newer THEN (OrderBase * UpdateScale) % Parts ELSE 0)

UpdateInit ==
  /\ opt \in UpdateCommands
  /\ pc = "set"
  /\ upd_num = IF opt.step > 0 THEN opt.step - 1 ELSE 0
  /\ upd_i = 1 /\ upd_count = 0 /\ mode = 0 /\ rows_this_segment = 0 /\ segment = 0
  /\ fp = <<0, 0>>
  /\ \E junk \in (IF opt.newer THEN {0} ELSE Junk) :
       order_rng = LoadedOrders(junk) + Skip(opt.step)
  /\ line_rng = LoadedLines + Skip(opt.step)
  /\ upd_start = 0 /\ upd_last = 0
  /\ inserts = {} /\ deletes = {}

\* main: the next set; gen_tbl starts.
StartSet ==
  /\ pc = "set" /\ upd_num < opt.updates
  /\ pc' = "insert"
  /\ upd_i' = minrow(upd_num + 1)
  /\ upd_count' = rowcnt
  /\ mode' = upd_num + 1
  /\ rows_this_segment' = -1
  /\ segment' = 0
  /\ fp' = <<0, 0>>
  /\ UNCHANGED <<opt, upd_num, order_rng, line_rng, upd_start, upd_last, inserts, deletes>>

\* Faulty variant: one segment too many is of the longer ones.
NextInsertSegment_Off ==
  /\ opt.insert_segments > 0
  /\ IF mode \div Units <= Residual(opt.insert_segments)
       THEN rows_this_segment + 1 > PerSegment(opt.insert_segments)
       ELSE rows_this_segment + 1 >= PerSegment(opt.insert_segments)

\* gen_tbl: the segment is full, and the row belongs to the next one.
NextInsertSegment ==
  /\ opt.insert_segments > 0
  /\ IF mode \div Units < Residual(opt.insert_segments)
       THEN rows_this_segment + 1 > PerSegment(opt.insert_segments)
       ELSE rows_this_segment + 1 >= PerSegment(opt.insert_segments)

\* print_prep for a segment or for a whole set: fopen empties a file that is there.
InsertFile(n, s) == IF opt.insert_segments > 0 THEN <<n % Units, s>> ELSE <<n, 0>>
DeleteFile(n, s) == IF opt.delete_segments > 0 THEN <<n % Units, s>> ELSE <<n, 0>>
Emptied(rows, file) == {r \in rows : r.file # file}

\* gen_tbl: mk_order and pr_order_line, which opens a file when the mode is new.
InsertRow ==
  /\ pc = "insert" /\ upd_count > 0
  /\ mode' = IF NextInsertSegment THEN mode + Units ELSE mode
  /\ rows_this_segment' = IF opt.insert_segments = 0 THEN -1
                          ELSE IF NextInsertSegment THEN 0 ELSE rows_this_segment + 1
  /\ LET opens == fp = <<0, 0>> \/ mode' # mode
         file  == IF opens THEN InsertFile(mode', segment + 1) ELSE fp
         kept  == IF opens THEN Emptied(inserts, file) ELSE inserts
     IN  /\ segment' = IF opens /\ opt.insert_segments > 0 THEN segment + 1 ELSE segment
         /\ fp' = file
         /\ inserts' = kept \cup
              {[file |-> file, i |-> upd_i, key |-> mk_sparse(upd_i, InsertSeq(mode)),
                order_rng |-> order_rng, line_rng |-> line_rng]}
  /\ order_rng' = order_rng + 1
  /\ line_rng' = line_rng + 1
  /\ upd_i' = upd_i + 1
  /\ upd_count' = upd_count - 1
  /\ UNCHANGED <<opt, pc, upd_num, upd_start, upd_last, deletes>>

\* pr_drange starts: a new file, and the range that ends before the first key.
StartDelete ==
  /\ pc = "insert" /\ upd_count = 0
  /\ pc' = "delete"
  /\ upd_i' = minrow(upd_num + 1)
  /\ upd_count' = rowcnt
  /\ segment' = IF opt.delete_segments > 0 THEN 1 ELSE 0
  /\ fp' = DeleteFile(upd_num + 1, 1)
  /\ deletes' = Emptied(deletes, fp')
  /\ rows_this_segment' = 0
  /\ upd_start' = MK_SPARSE(minrow(upd_num + 1), DeleteSeq(upd_num + 1))
  /\ upd_last' = upd_start' - 1
  /\ UNCHANGED <<opt, upd_num, mode, order_rng, line_rng, inserts>>

Deleted(lo, hi, file) == [file |-> file, lo |-> lo, hi |-> hi]

\* pr_drange with keys: the segment is full (rows_per_segment is one more than PerSegment).
NextDeleteSegment ==
  /\ opt.delete_segments > 0
  /\ IF opt.newer \/ segment <= Residual(opt.delete_segments)
       THEN rows_this_segment + 1 > PerSegment(opt.delete_segments) + 1
       ELSE rows_this_segment + 1 >= PerSegment(opt.delete_segments) + 1

\* The row extends the range that is open ...
ExtendRange(new) ==
  /\ opt.gen_rng /\ new = upd_last + 1
  /\ upd_last' = new
  /\ UNCHANGED <<upd_start, deletes, segment, fp, rows_this_segment>>

\* ... closes it (-O r, -O d) ...
CloseRange(new) ==
  /\ opt.gen_sql \/ opt.gen_rng
  /\ ~(opt.gen_rng /\ new = upd_last + 1)
  /\ upd_start' = new /\ upd_last' = new
  /\ deletes' = deletes \cup {Deleted(upd_start, upd_last, fp)}
  /\ UNCHANGED <<segment, fp, rows_this_segment>>

\* ... or is printed as a key.
PrintKey(new) ==
  /\ ~opt.gen_sql /\ ~opt.gen_rng
  /\ upd_start' = new /\ upd_last' = new
  /\ segment' = IF NextDeleteSegment THEN segment + 1 ELSE segment
  /\ fp' = IF NextDeleteSegment THEN DeleteFile(upd_num + 1, segment') ELSE fp
  /\ rows_this_segment' = IF opt.delete_segments = 0 THEN 0
                          ELSE IF NextDeleteSegment THEN 1 ELSE rows_this_segment + 1
  /\ deletes' = (IF NextDeleteSegment THEN Emptied(deletes, fp') ELSE deletes)
                   \cup {Deleted(new, new, fp')}

DeleteRow ==
  /\ pc = "delete" /\ upd_count > 0
  /\ LET new == MK_SPARSE(upd_i, DeleteSeq(upd_num + 1))
     IN  ExtendRange(new) \/ CloseRange(new) \/ PrintKey(new)
  /\ upd_i' = upd_i + 1
  /\ upd_count' = upd_count - 1
  /\ UNCHANGED <<opt, pc, upd_num, mode, order_rng, line_rng, inserts>>

\* Faulty variant: the range that is open is not printed.
EndSet_OpenRange ==
  /\ pc = "delete" /\ upd_count = 0
  /\ upd_num' = upd_num + 1
  /\ pc' = "set"
  /\ UNCHANGED <<opt, upd_i, upd_count, mode, rows_this_segment, segment, fp, order_rng, line_rng,
                 upd_start, upd_last, inserts, deletes>>

\* pr_drange returns, with -O r after it has printed the last range; main counts the set.
EndSet ==
  /\ pc = "delete" /\ upd_count = 0
  /\ deletes' = IF opt.gen_rng THEN deletes \cup {Deleted(upd_start, upd_last, fp)} ELSE deletes
  /\ upd_num' = upd_num + 1
  /\ pc' = "set"
  /\ UNCHANGED <<opt, upd_i, upd_count, mode, rows_this_segment, segment, fp, order_rng, line_rng,
                 upd_start, upd_last, inserts>>

Exit ==
  /\ pc = "set" /\ upd_num >= opt.updates
  /\ pc' = "done"
  /\ UNCHANGED <<opt, upd_num, upd_i, upd_count, mode, rows_this_segment, segment, fp, order_rng,
                 line_rng, upd_start, upd_last, inserts, deletes>>

Done == pc = "done" /\ UNCHANGED update_vars

UpdateNext == StartSet \/ InsertRow \/ StartDelete \/ DeleteRow \/ EndSet \/ Exit \/ Done

UpdateSpec == UpdateInit /\ [][UpdateNext]_update_vars

-----------------------------------------------------------------------------
(***************************************************************************)
(* Properties.                                                             *)
(***************************************************************************)

\* An order of an update set has a key that no loaded order and no other inserted order
\* has: in the first Units - 1 sets, though the sequence number outgrows its two bits and
\* carries into the group of the row (build.c: ez_sparse).
InsertsFresh ==
  opt.updates < Units =>
    \A a \in inserts : a.key \notin LoadedKeys /\ \A b \in inserts : a.key = b.key => a = b

\* The sets that are finished.
Finished == {n \in 1..upd_num : n >= (IF opt.step > 0 THEN opt.step ELSE 1)}

InsertRows(n) == {r \in inserts : r.file[1] = n}
InsertKeys(n) == {r.key : r \in InsertRows(n)}
DeleteRows(n) == {d \in deletes : d.file[1] = n}
DeleteKeys(n) == UNION {d.lo..d.hi : d \in DeleteRows(n)}

\* After set n is inserted and before it is deleted, the keys that RF2 is to delete are in
\* the database: loaded or inserted, and not deleted by an earlier set.
Live(n) ==
  LET live == (LoadedKeys \cup UNION {InsertKeys(m) : m \in Finished \cap 1..n})
                \ UNION {DeleteKeys(m) : m \in Finished \cap 1..(n - 1)}
  IN  DeleteKeys(n) \subseteq live

\* So it is for the sets that delete the loaded orders, however they are printed; in
\* tpch_tools for all of them but the last, whose keys have the next sequence number.
DeletesLive ==
  opt.updates < Units =>
    \A n \in Finished : n < SetsPerSeq \/ (n = SetsPerSeq /\ ~opt.newer) => Live(n)

\* So it is for all sets: BUGS:915 lists Problem #00062, "bad update rollover after 1000
\* refreshes", as closed.
DeletesLiveAfterRollover == \A n \in Finished : Live(n)

\* RF2 takes as many orders from the database as RF1 puts there: with -O d alone the last
\* range of a set is not printed.
Balanced ==
  opt.updates < Units /\ (opt.gen_sql => opt.gen_rng) =>
    \A n \in Finished : Cardinality(DeleteKeys(n)) = Cardinality(InsertKeys(n))

Segments(rows) == {r.file[2] : r \in rows}
Size(rows, s)  == Cardinality({r \in rows : r.file[2] = s})

Even(rows, n) ==
  /\ Segments(rows) = 1..(IF n < rowcnt THEN n ELSE rowcnt)
  /\ \A s, u \in Segments(rows) : Size(rows, s) - Size(rows, u) <= 1

Filled(rows, n) ==
  /\ \E most \in 0..n : Segments(rows) = 1..most
  /\ \A s, u \in Segments(rows) : s < u => Size(rows, s) >= Size(rows, u)
  /\ \A s \in Segments(rows) : s + 1 \in Segments(rows) => Size(rows, s) = Size(rows, 1)

\* -i and -d split a set between n files: that many files if there are rows for them, none
\* of them more than one row longer than another.  The keys that tpch_tools deletes fill the
\* files in their order, and there may be fewer files than n, never more.
SegmentsEven ==
  opt.updates < Units =>
    \A n \in Finished :
      /\ opt.insert_segments > 0 => Even(InsertRows(n), opt.insert_segments)
      /\ opt.delete_segments > 0 /\ ~opt.gen_sql /\ ~opt.gen_rng =>
           IF opt.newer THEN Filled(DeleteRows(n), opt.delete_segments)
           ELSE Even(DeleteRows(n), opt.delete_segments)

\* Row i is drawn where a load of more rows than the scale would draw it, "to start
\* generating rows beyond SF=scale" (driver.c:860), whether the run made the sets before or
\* -S skipped them: the lineitems there, the orders all equally far behind it, so that no
\* two rows are drawn from the same place.  In tpch_tools the orders are there, and the
\* lineitems all equally far before it: by less than a row of each part.
DrawnBeyondScale ==
  /\ \E behind \in (IF opt.newer THEN {0} ELSE Junk) :
       \A r \in inserts : r.order_rng = OrderBase * UpdateScale + behind + r.i - 1
  /\ \E before \in (IF opt.newer THEN 0..(Parts - 1) ELSE {0}) :
       \A r \in inserts : r.line_rng = OrderBase * UpdateScale - before + r.i - 1
=============================================================================
