-------------------------- MODULE UpdateSets_proofs --------------------------
(***************************************************************************)
(* Proofs about UpdateSets: whatever the scale, the refresh percentage, the*)
(* segments and the set of -S, the orders of the update sets are drawn     *)
(* beyond those of the load, each from a place of its own, and have keys   *)
(* that no other order has; as many are deleted as inserted, and the sets  *)
(* are evenly split between their files.                                   *)
(***************************************************************************)
EXTENDS UpdateSets, FiniteSetTheorems, TLAPS

\* What the call without its argument may have skipped.
JunkOf == IF opt.newer THEN {0} ELSE Junk

\* How many rows past the load the streams are: all rows of the sets before and, in gen_tbl,
\* those of this set.
Past == CASE pc = "insert" -> upd_i - 1
          [] pc = "delete" -> upd_num * rowcnt + rowcnt
          [] OTHER -> upd_num * rowcnt

\* main and gen_tbl agree on the row: the set's rows follow those of the sets before.
Placed ==
  /\ opt \in UpdateCommands
  /\ pc \in {"set", "insert", "delete", "done"}
  /\ upd_num \in Nat /\ upd_i \in Int /\ upd_count \in Nat
  /\ pc = "insert" => upd_i + upd_count = upd_num * rowcnt + 1 + rowcnt

\* The streams are there, and each row that is on file was drawn there.
At(junk) ==
  /\ order_rng = OrderBase * UpdateScale + junk + Past
  /\ line_rng = LoadedLines + Past
  /\ \A r \in inserts : /\ r.i \in Int
                        /\ r.order_rng = OrderBase * UpdateScale + junk + r.i - 1
                        /\ r.line_rng = LoadedLines + r.i - 1

IInv == Placed /\ \E junk \in JunkOf : At(junk)

-----------------------------------------------------------------------------
\* A set has a whole number of rows.
LEMMA RowcntType ==
  ASSUME opt \in UpdateCommands
  PROVE  rowcnt \in Nat
<1>1. /\ OrderBase \in Nat /\ UpdateScale \in Nat /\ Units \in Nat \ {0}
      /\ opt.refresh \in Nat
  BY UpdateSetsAssumption DEF UpdateCommand
<1>2. OrderBase \div Units \in Nat
  BY <1>1
<1>3. (OrderBase \div Units) * UpdateScale \in Nat
  BY <1>1, <1>2
<1>4. (OrderBase \div Units) * UpdateScale * opt.refresh \in Nat
  BY <1>1, <1>3
<1>5. OrderBase * UpdateScale * opt.refresh \in Nat
  BY <1>1
<1>6. (OrderBase * UpdateScale * opt.refresh) \div Units \in Nat
  <2> DEFINE product == OrderBase * UpdateScale * opt.refresh
  <2>1. product \in Nat
    BY <1>5
  <2> HIDE DEF product
  <2>2. product \div Units \in Nat
    BY <2>1, <1>1
  <2> QED
    BY <2>2 DEF product
<1> QED
  BY <1>4, <1>6 DEF rowcnt

\* Where the streams of the lineitems begin: within a row of each part of the load.
LEMMA LoadedType ==
  /\ OrderBase * UpdateScale \in Nat
  /\ LoadedLines \in Int
  /\ \E before \in (IF opt.newer THEN 0..(Parts - 1) ELSE {0}) :
        LoadedLines = OrderBase * UpdateScale - before
<1> DEFINE loaded == OrderBase * UpdateScale
<1>1. loaded \in Nat /\ Parts \in Nat \ {0}
  BY UpdateSetsAssumption
<1> HIDE DEF loaded
<1>2. loaded % Parts \in 0..(Parts - 1)
  BY <1>1
<1>3. LoadedLines = loaded - (IF opt.newer THEN loaded % Parts ELSE 0)
  BY DEF LoadedLines, loaded
<1> QED
  BY <1>1, <1>2, <1>3 DEF loaded

LEMMA JunkType == JunkOf \subseteq Nat
BY UpdateSetsAssumption DEF JunkOf

\* One row more, and its set after the sets before.
LEMMA NextMultiple ==
  ASSUME NEW n \in Nat, NEW m \in Nat
  PROVE  (n + 1) * m = n * m + m /\ n * m \in Nat
OBVIOUS

LEMMA FirstRow ==
  ASSUME upd_num \in Nat, rowcnt \in Nat
  PROVE  minrow(upd_num + 1) = upd_num * rowcnt + 1
<1> DEFINE n == upd_num + 1
<1>1. n - 1 = upd_num
  OBVIOUS
<1> HIDE DEF n
<1>2. minrow(n) = upd_num * rowcnt + 1
  BY <1>1 DEF minrow
<1> QED
  BY <1>2 DEF n

-----------------------------------------------------------------------------
LEMMA InitIInv == UpdateInit => IInv
<1> SUFFICES ASSUME UpdateInit PROVE IInv
  OBVIOUS
<1> USE DEF UpdateInit
<1>1. opt \in UpdateCommands /\ opt.step \in Nat \cup {-1}
  BY UpdateSetsAssumption DEF UpdateCommand
<1>2. rowcnt \in Nat
  BY <1>1, RowcntType
<1> HIDE DEF UpdateInit
<1>3. upd_num \in Nat /\ Skip(opt.step) = upd_num * rowcnt
  <2>1. CASE opt.step > 0
    <3>1. upd_num = opt.step - 1
      BY <2>1 DEF UpdateInit
    <3>2. upd_num \in Nat
      BY <3>1, <2>1, <1>1
    <3>3. Skip(opt.step) = rowcnt * upd_num
      BY <3>1, <2>1 DEF Skip
    <3> QED
      BY <3>2, <3>3, <1>2
  <2>2. CASE ~(opt.step > 0)
    BY <2>2, <1>2 DEF UpdateInit, Skip
  <2> QED
    BY <2>1, <2>2
<1>4. Past = upd_num * rowcnt /\ inserts = {}
  BY DEF UpdateInit, Past
<1>5. PICK junk \in JunkOf : order_rng = LoadedOrders(junk) + Skip(opt.step)
  BY DEF UpdateInit, JunkOf
<1>6. At(junk)
  BY <1>3, <1>4, <1>5 DEF At, LoadedOrders, UpdateInit
<1>7. Placed
  BY <1>1, <1>3 DEF Placed, UpdateInit
<1> QED
  BY <1>6, <1>7 DEF IInv

\* The command line does not change, nor what is computed from it.
LEMMA Constants ==
  ASSUME opt' = opt
  PROVE  rowcnt' = rowcnt /\ LoadedLines' = LoadedLines /\ JunkOf' = JunkOf
BY DEF rowcnt, LoadedLines, JunkOf

\* It is enough that the streams and the rows on file stay where they are.
LEMMA Still ==
  ASSUME IInv, Placed', opt' = opt, Past' = Past, inserts' \subseteq inserts,
         UNCHANGED <<order_rng, line_rng>>
  PROVE  IInv'
<1>1. PICK junk \in JunkOf : At(junk)
  BY DEF IInv
<1>2. At(junk)'
  BY <1>1, Constants DEF At
<1> QED
  BY <1>1, <1>2, Constants DEF IInv

LEMMA StartSetIInv ==
  ASSUME IInv, StartSet
  PROVE  IInv'
<1>1. rowcnt \in Nat /\ rowcnt' = rowcnt /\ upd_num \in Nat
  BY RowcntType, Constants DEF IInv, Placed, StartSet
<1>2. upd_num * rowcnt \in Nat
  BY <1>1, NextMultiple
<1>3. upd_i' = upd_num * rowcnt + 1 /\ upd_count' = rowcnt
  BY <1>1, FirstRow DEF StartSet
<1>4. Past' = Past
  BY <1>1, <1>2, <1>3 DEF StartSet, Past
<1>5. Placed'
  BY <1>1, <1>2, <1>3 DEF StartSet, IInv, Placed
<1> QED
  BY <1>4, <1>5, Still DEF StartSet

LEMMA InsertRowIInv ==
  ASSUME IInv, InsertRow
  PROVE  IInv'
<1>1. opt' = opt /\ rowcnt' = rowcnt /\ LoadedLines' = LoadedLines /\ JunkOf' = JunkOf
  BY Constants DEF InsertRow
<1>2. /\ upd_i \in Int /\ upd_count \in Nat /\ upd_count > 0 /\ pc = "insert"
      /\ upd_i' = upd_i + 1 /\ upd_count' = upd_count - 1 /\ pc' = "insert"
      /\ order_rng' = order_rng + 1 /\ line_rng' = line_rng + 1
  BY DEF IInv, Placed, InsertRow
<1>3. Placed'
  BY <1>1, <1>2 DEF IInv, Placed, InsertRow
<1>4. PICK junk \in JunkOf : At(junk)
  BY DEF IInv
<1>5. Past = upd_i - 1 /\ Past' = upd_i
  BY <1>2 DEF Past
<1>6. /\ OrderBase * UpdateScale \in Nat /\ LoadedLines \in Int /\ junk \in Nat
  BY <1>4, LoadedType, JunkType
<1>7. ASSUME NEW r \in inserts'
      PROVE  \/ r \in inserts
             \/ r.i = upd_i /\ r.order_rng = order_rng /\ r.line_rng = line_rng
  BY DEF InsertRow, Emptied
<1>8. At(junk)'
  BY <1>1, <1>2, <1>4, <1>5, <1>6, <1>7 DEF At
<1> QED
  BY <1>1, <1>3, <1>4, <1>8 DEF IInv

LEMMA StartDeleteIInv ==
  ASSUME IInv, StartDelete
  PROVE  IInv'
<1>1. rowcnt \in Nat /\ rowcnt' = rowcnt /\ upd_num \in Nat
  BY RowcntType, Constants DEF IInv, Placed, StartDelete
<1>2. upd_num * rowcnt \in Nat
  BY <1>1, NextMultiple
<1>3. upd_i' = upd_num * rowcnt + 1 /\ upd_count' = rowcnt
  BY <1>1, FirstRow DEF StartDelete
<1>4. upd_i \in Int /\ upd_i + 0 = upd_num * rowcnt + 1 + rowcnt
  BY DEF IInv, Placed, StartDelete
<1>5. Past' = Past
  BY <1>1, <1>2, <1>4 DEF StartDelete, Past
<1>6. Placed'
  BY <1>1, <1>2, <1>3 DEF StartDelete, IInv, Placed
<1> QED
  BY <1>5, <1>6, Still DEF StartDelete

LEMMA DeleteRowIInv ==
  ASSUME IInv, DeleteRow
  PROVE  IInv'
<1>1. opt' = opt /\ rowcnt' = rowcnt
  BY Constants DEF DeleteRow
<1>2. Placed'
  BY <1>1 DEF DeleteRow, IInv, Placed
<1>3. Past' = Past
  BY <1>1 DEF DeleteRow, Past
<1> QED
  BY <1>1, <1>2, <1>3, Still DEF DeleteRow

LEMMA EndSetIInv ==
  ASSUME IInv, EndSet
  PROVE  IInv'
<1>1. rowcnt \in Nat /\ rowcnt' = rowcnt /\ upd_num \in Nat /\ upd_num' = upd_num + 1
  BY RowcntType, Constants DEF IInv, Placed, EndSet
<1>2. (upd_num + 1) * rowcnt = upd_num * rowcnt + rowcnt
  BY <1>1, NextMultiple
<1>3. Placed'
  BY <1>1 DEF EndSet, IInv, Placed
<1>4. Past' = Past
  BY <1>1, <1>2 DEF EndSet, Past
<1> QED
  BY <1>3, <1>4, Still DEF EndSet

LEMMA ExitIInv ==
  ASSUME IInv, Exit
  PROVE  IInv'
<1>1. opt' = opt /\ rowcnt' = rowcnt
  BY Constants DEF Exit
<1>2. Placed'
  BY <1>1 DEF Exit, IInv, Placed
<1>3. Past' = Past
  BY <1>1 DEF Exit, Past
<1> QED
  BY <1>1, <1>2, <1>3, Still DEF Exit

LEMMA StutterIInv ==
  ASSUME IInv, UNCHANGED update_vars
  PROVE  IInv'
<1>1. opt' = opt /\ rowcnt' = rowcnt
  BY Constants DEF update_vars
<1>2. Placed'
  BY <1>1 DEF update_vars, IInv, Placed
<1>3. Past' = Past
  BY <1>1 DEF update_vars, Past
<1> QED
  BY <1>1, <1>2, <1>3, Still DEF update_vars

LEMMA NextIInv == IInv /\ [UpdateNext]_update_vars => IInv'
<1> SUFFICES ASSUME IInv, [UpdateNext]_update_vars PROVE IInv'
  OBVIOUS
<1>1. CASE StartSet
  BY <1>1, StartSetIInv
<1>2. CASE InsertRow
  BY <1>2, InsertRowIInv
<1>3. CASE StartDelete
  BY <1>3, StartDeleteIInv
<1>4. CASE DeleteRow
  BY <1>4, DeleteRowIInv
<1>5. CASE EndSet
  BY <1>5, EndSetIInv
<1>6. CASE Exit
  BY <1>6, ExitIInv
<1>7. CASE Done
  BY <1>7, StutterIInv DEF Done
<1>8. CASE UNCHANGED update_vars
  BY <1>8, StutterIInv
<1> QED
  BY <1>1, <1>2, <1>3, <1>4, <1>5, <1>6, <1>7, <1>8 DEF UpdateNext

LEMMA IInvDrawn == IInv => DrawnBeyondScale
<1> SUFFICES ASSUME IInv PROVE DrawnBeyondScale
  OBVIOUS
<1>1. PICK junk \in JunkOf : At(junk)
  BY DEF IInv
<1>2. \A r \in inserts : r.order_rng = OrderBase * UpdateScale + junk + r.i - 1
  BY <1>1 DEF At
<1>3. PICK before \in (IF opt.newer THEN 0..(Parts - 1) ELSE {0}) :
        LoadedLines = OrderBase * UpdateScale - before
  BY LoadedType
<1>4. \A r \in inserts : r.line_rng = OrderBase * UpdateScale - before + r.i - 1
  BY <1>1, <1>3 DEF At
<1> QED
  BY <1>1, <1>2, <1>3, <1>4 DEF DrawnBeyondScale, JunkOf

\* Whatever the scale, the percentage, the segments and the set of -S, and in both releases:
\* the orders and lineitems of the update sets are drawn beyond those of the load, each where
\* no other is (main's skip to the set of -S and gen_tbl's rows agree).
THEOREM BeyondScale == UpdateSpec => []DrawnBeyondScale
<1>1. UpdateInit => IInv
  BY InitIInv
<1>2. IInv /\ [UpdateNext]_update_vars => IInv'
  BY NextIInv
<1>3. IInv => DrawnBeyondScale
  BY IInvDrawn
<1> QED
  BY <1>1, <1>2, <1>3, PTL DEF UpdateSpec

-----------------------------------------------------------------------------
(***************************************************************************)
(* The keys of the orders.  The sequence number does not go down from one  *)
(* set to the next, so that keys go up with the rows.  It begins at one;   *)
(* its two bits carry into the group of a row, so that a loaded order has  *)
(* the key of an inserted one only if its row is eight further for every   *)
(* four of the sequence number - and the row where that becomes four is    *)
(* too far from the end of the load already.                               *)
(***************************************************************************)

LEMMA DivMod ==
  ASSUME NEW x \in Nat, NEW y \in Nat \ {0}
  PROVE  /\ x \div y \in Nat
         /\ x % y >= 0 /\ x % y < y /\ x % y \in Nat
         /\ x = y * (x \div y) + (x % y)
OBVIOUS

\* A later row, of a set with the same or a higher sequence number, has a higher key.
LEMMA KeysGrow ==
  ASSUME NEW k \in Nat, NEW l \in Nat, NEW s \in Nat, NEW u \in Nat, k < l, s <= u
  PROVE  mk_sparse(k, s) < mk_sparse(l, u)
BY DEF mk_sparse, LOW, SEQ

\* The key of a loaded row is that of an inserted one only if that is of a lower row.
LEMMA SameKey ==
  ASSUME NEW k \in Nat, NEW l \in Nat, NEW s \in Nat, s >= 1,
         mk_sparse(k, 0) = mk_sparse(l, s)
  PROVE  s >= 4 /\ k >= l + 8
BY DEF mk_sparse, LOW, SEQ

\* Three times the sets of a sequence number, but one, are longer than the load, or almost:
\* b rows are loaded, a set has c rows, and n sets have the same number.
LEMMA LongEnough ==
  ASSUME NEW b \in Nat, NEW c \in Nat, NEW n \in Nat, NEW r \in Nat, NEW u \in Nat,
         r >= 1, c >= 1, n >= 1, b * r < (c + 1) * u, u < (n + 1) * r
  PROVE  (3 * n - 1) * c + 9 > b
<1>1. b * r < (c + 1) * ((n + 1) * r)
  <2>1. (c + 1) * u <= (c + 1) * ((n + 1) * r)
    OBVIOUS
  <2> QED
    BY <2>1
<1>2. b * r < ((c + 1) * (n + 1)) * r
  BY <1>1
<1>3. b < (c + 1) * (n + 1)
  BY <1>2
<1>4. n * (c - 1) >= 0
  OBVIOUS
<1>5. CASE n = 1
  BY <1>3, <1>5
<1>6. CASE n >= 2
  <2>1. c * (n - 2) >= 0
    BY <1>6
  <2> QED
    BY <1>3, <1>4, <2>1
<1> QED
  BY <1>5, <1>6

\* The sets of tpch_tools are rounded before they are multiplied, which loses nothing when the
\* base rows are a multiple of the units, as 1500000 is of 10000.
WholeUnits == OrderBase % Units = 0 \/ \A cmd \in UpdateCommands : ~cmd.newer

LEMMA SetSizes ==
  ASSUME WholeUnits, opt \in UpdateCommands
  PROVE  /\ rowcnt \in Nat /\ SetsPerSeq \in Nat /\ SetsPerSeq >= 1
         /\ opt.refresh \in Nat /\ opt.refresh >= 1
         /\ OrderBase * UpdateScale \in Nat
         /\ (OrderBase * UpdateScale) * opt.refresh < (rowcnt + 1) * Units
         /\ Units < (SetsPerSeq + 1) * opt.refresh
<1> DEFINE r == opt.refresh
<1>1. OrderBase \in Nat /\ UpdateScale \in Nat /\ Units \in Nat \ {0} /\ r \in Nat \ {0} /\ r <= Units
  BY UpdateSetsAssumption DEF UpdateCommand
<1>2. rowcnt \in Nat /\ OrderBase * UpdateScale \in Nat
  BY RowcntType, <1>1
<1>3. SetsPerSeq = Units \div r
  BY DEF SetsPerSeq
<1> HIDE DEF r
<1>4. Units = r * SetsPerSeq + (Units % r) /\ Units % r < r /\ SetsPerSeq \in Nat
      /\ Units % r \in Nat
  BY <1>1, <1>3, DivMod
<1>5. SetsPerSeq >= 1
  <2>1. CASE SetsPerSeq = 0
    BY <1>1, <1>4, <2>1
  <2> QED
    BY <1>4, <2>1
<1>6. Units < (SetsPerSeq + 1) * r
  BY <1>1, <1>4
<1>7. (OrderBase * UpdateScale) * r < (rowcnt + 1) * Units
  <2> DEFINE product == (OrderBase * UpdateScale) * r
  <2>1. product \in Nat
    BY <1>1, <1>2
  <2>2. CASE opt.newer
    <3> DEFINE b == OrderBase \div Units
    <3>1. OrderBase % Units = 0
      BY <2>2 DEF WholeUnits
    <3>2. b \in Nat /\ OrderBase = Units * b
      BY <1>1, <3>1, DivMod
    <3>3. rowcnt = b * UpdateScale * r
      BY <2>2 DEF rowcnt, r
    <3> HIDE DEF b
    <3>4. OrderBase * UpdateScale = Units * (b * UpdateScale)
      BY <1>1, <3>2
    <3>5. b * UpdateScale \in Nat
      BY <1>1, <3>2
    <3>6. product = rowcnt * Units
      <4> DEFINE x == b * UpdateScale
      <4>1. x \in Nat /\ rowcnt = x * r /\ product = (Units * x) * r
        BY <3>3, <3>4, <3>5
      <4> HIDE DEF x
      <4> QED
        BY <1>1, <4>1
    <3> QED
      BY <1>1, <1>2, <3>6
  <2>3. CASE ~opt.newer
    <3>1. rowcnt = product \div Units
      BY <2>3 DEF rowcnt, r
    <3> HIDE DEF product
    <3>2. product = Units * rowcnt + (product % Units) /\ product % Units < Units
          /\ product % Units \in Nat
      BY <1>1, <2>1, <3>1, DivMod
    <3>3. product < (rowcnt + 1) * Units
      BY <1>1, <1>2, <2>1, <3>2
    <3> QED
      BY <3>3 DEF product
  <2> QED
    BY <2>2, <2>3
<1> QED
  BY <1>1, <1>2, <1>4, <1>5, <1>6, <1>7 DEF r

\* The sequence number of a set: one more each SetsPerSeq sets.
LEMMA SeqOf ==
  ASSUME NEW n \in Nat, n >= 1, n < Units, Units \in Nat
  PROVE  InsertSeq(n) = 1 + (n \div SetsPerSeq)
<1>1. n % Units = n
  OBVIOUS
<1> QED
  BY <1>1 DEF InsertSeq

LEMMA DivGrows ==
  ASSUME NEW m \in Nat, NEW n \in Nat, NEW s \in Nat \ {0}, m <= n
  PROVE  m \div s <= n \div s
<1> DEFINE a == m \div s
           b == n \div s
<1>1. a \in Nat /\ b \in Nat /\ s * a <= m /\ n < s * b + s
  BY DivMod
<1> HIDE DEF a, b
<1>2. CASE a >= b + 1
  <2>1. s * a >= s * (b + 1)
    BY <1>1, <1>2
  <2> QED
    BY <1>1, <2>1
<1> QED
  BY <1>1, <1>2 DEF a, b

\* A segment adds Units to the number of the set, which its sequence number does not see.
LEMMA SegmentSeq ==
  ASSUME NEW n \in Nat, NEW k \in Nat, n < Units, Units \in Nat \ {0}
  PROVE  InsertSeq(n + k * Units) = InsertSeq(n)
<1> DEFINE x == n + k * Units
           e == x % Units
           d == x \div Units
<1>1. x \in Nat
  OBVIOUS
<1>2. x = Units * d + e /\ e \in Nat /\ e < Units /\ d \in Nat
  BY <1>1, DivMod
<1>3. x = Units * k + n
  OBVIOUS
<1> HIDE DEF x, e, d
<1>4. e = n
  <2>1. CASE d >= k + 1
    <3>1. Units * d >= Units * (k + 1)
      BY <1>2, <2>1
    <3> QED
      BY <1>2, <1>3, <3>1
  <2>2. CASE k >= d + 1
    <3>1. Units * k >= Units * (d + 1)
      BY <1>2, <2>2
    <3> QED
      BY <1>2, <1>3, <3>1
  <2>3. CASE d = k
    BY <1>2, <1>3, <2>3
  <2> QED
    BY <1>2, <2>1, <2>2, <2>3
<1>5. x % Units = n % Units
  BY <1>4 DEF e
<1> QED
  BY <1>5 DEF InsertSeq, x

\* The row is one of set n, and has its key.
RowOf(r, n) ==
  /\ (n - 1) * rowcnt < r.i /\ r.i <= n * rowcnt
  /\ r.key = mk_sparse(r.i, InsertSeq(n))

\* gen_tbl is in the set it was called for, at a row of it, and each row on file is one of a
\* set that was asked for, made once.
Keys ==
  /\ pc \in {"insert", "delete"} => upd_num < opt.updates
  /\ pc = "insert" => /\ upd_i >= upd_num * rowcnt + 1
                      /\ \E k \in Nat : mode = upd_num + 1 + k * Units
  /\ \A r \in inserts : r.i \in Nat /\ r.i <= Past /\ \E n \in 1..opt.updates : RowOf(r, n)
  /\ \A a, b \in inserts : a.i = b.i => a = b

KInv == opt.updates < Units => Keys

LEMMA OptTypes ==
  ASSUME IInv
  PROVE  /\ opt \in UpdateCommands /\ opt.updates \in Nat /\ Units \in Nat \ {0}
         /\ upd_num \in Nat /\ rowcnt \in Nat /\ upd_num * rowcnt \in Nat
         /\ (upd_num + 1) * rowcnt = upd_num * rowcnt + rowcnt
<1>1. opt \in UpdateCommands /\ opt.updates \in Nat /\ Units \in Nat \ {0} /\ upd_num \in Nat
  BY UpdateSetsAssumption DEF IInv, Placed, UpdateCommand
<1> QED
  BY <1>1, RowcntType, NextMultiple

LEMMA InitKInv == UpdateInit => KInv
BY DEF UpdateInit, KInv, Keys

\* It is enough that no row is added and none comes to be past the streams.
LEMMA KeysStay ==
  ASSUME Keys, opt' = opt, inserts' \subseteq inserts, Past' = Past
  PROVE  /\ \A r \in inserts' : r.i \in Nat /\ r.i <= Past' /\ \E n \in 1..opt'.updates : RowOf(r, n)'
         /\ \A a, b \in inserts' : a.i = b.i => a = b
<1>1. rowcnt' = rowcnt
  BY Constants
<1>2. \A r, n : RowOf(r, n) => RowOf(r, n)'
  BY <1>1 DEF RowOf, InsertSeq, SetsPerSeq
<1> QED
  BY <1>2 DEF Keys

LEMMA StartSetKInv ==
  ASSUME IInv, KInv, StartSet
  PROVE  KInv'
<1> SUFFICES ASSUME opt.updates < Units PROVE Keys'
  BY DEF KInv, StartSet
<1>1. Keys /\ opt' = opt /\ inserts' = inserts /\ rowcnt' = rowcnt /\ upd_num' = upd_num
  BY Constants DEF KInv, StartSet
<1>2. upd_i' = upd_num * rowcnt + 1
  BY OptTypes, FirstRow DEF StartSet
<1>3. Past = upd_num * rowcnt /\ Past' = Past
  BY <1>1, <1>2, OptTypes DEF StartSet, Past
<1>4. mode' = upd_num + 1 + 0 * Units /\ upd_num < opt.updates /\ pc' = "insert"
  BY OptTypes DEF StartSet
<1>5. upd_i' >= upd_num' * rowcnt' + 1
  BY <1>1, <1>2, OptTypes
<1>6. \E k \in Nat : mode' = upd_num' + 1 + k * Units
  BY <1>1, <1>4
<1> QED
  BY <1>1, <1>3, <1>4, <1>5, <1>6, KeysStay DEF Keys

LEMMA InsertRowKInv ==
  ASSUME IInv, KInv, InsertRow
  PROVE  KInv'
<1> SUFFICES ASSUME opt.updates < Units PROVE Keys'
  BY DEF KInv, InsertRow
<1>1. /\ Keys /\ opt' = opt /\ rowcnt' = rowcnt /\ upd_num' = upd_num
      /\ pc = "insert" /\ pc' = "insert" /\ upd_i' = upd_i + 1 /\ upd_count > 0
  BY Constants DEF KInv, InsertRow
<1>2. /\ upd_i \in Int /\ upd_i >= upd_num * rowcnt + 1 /\ upd_i <= upd_num * rowcnt + rowcnt
      /\ upd_num < opt.updates
  BY <1>1, OptTypes DEF IInv, Placed, Keys
<1>3. PICK k \in Nat : mode = upd_num + 1 + k * Units
  BY <1>1 DEF Keys
<1>4. InsertSeq(mode) = InsertSeq(upd_num + 1)
  BY <1>2, <1>3, OptTypes, SegmentSeq
<1>5. ASSUME NEW r \in inserts'
      PROVE  \/ r \in inserts
             \/ r.i = upd_i /\ r.key = mk_sparse(upd_i, InsertSeq(mode))
  BY DEF InsertRow, Emptied
<1>6. \A a, b \in inserts' : a \notin inserts /\ b \notin inserts => a = b
  BY DEF InsertRow, Emptied
<1>7. Past = upd_i - 1 /\ Past' = upd_i
  BY <1>1, <1>2 DEF Past
<1>8. \E l \in Nat : mode' = upd_num' + 1 + l * Units
  <2>1. CASE mode' = mode
    BY <1>1, <1>3, <2>1
  <2>2. CASE mode' = mode + Units
    <3>1. mode' = upd_num + 1 + (k + 1) * Units
      BY <1>3, <2>2, OptTypes
    <3> QED
      BY <1>1, <3>1
  <2> QED
    BY <2>1, <2>2 DEF InsertRow
<1>9. \A r, n : RowOf(r, n) => RowOf(r, n)'
  BY <1>1 DEF RowOf, InsertSeq, SetsPerSeq
<1>10. ASSUME NEW r \in inserts'
       PROVE  r.i \in Nat /\ r.i <= Past' /\ \E n \in 1..opt'.updates : RowOf(r, n)'
  <2>1. CASE r \in inserts
    BY <1>1, <1>2, <1>7, <1>9, <2>1 DEF Keys
  <2>2. CASE r.i = upd_i /\ r.key = mk_sparse(upd_i, InsertSeq(mode))
    <3> DEFINE n == upd_num + 1
    <3>1. n \in 1..opt.updates /\ n - 1 = upd_num
      BY <1>2, OptTypes
    <3>2. n * rowcnt = upd_num * rowcnt + rowcnt
      BY OptTypes
    <3>3. r.key = mk_sparse(r.i, InsertSeq(n))
      BY <1>4, <2>2
    <3> HIDE DEF n
    <3>4. RowOf(r, n)
      BY <1>2, <2>2, <3>1, <3>2, <3>3, OptTypes DEF RowOf
    <3> QED
      BY <1>1, <1>2, <1>7, <1>9, <2>2, <3>1, <3>4, OptTypes
  <2> QED
    BY <1>5, <2>1, <2>2
<1>11. \A a, b \in inserts' : a.i = b.i => a = b
  BY <1>1, <1>2, <1>5, <1>6, <1>7 DEF Keys
<1>12. upd_i' >= upd_num' * rowcnt' + 1
  BY <1>1, <1>2, OptTypes
<1> QED
  BY <1>1, <1>2, <1>8, <1>10, <1>11, <1>12 DEF Keys

LEMMA StartDeleteKInv ==
  ASSUME IInv, KInv, StartDelete
  PROVE  KInv'
<1> SUFFICES ASSUME opt.updates < Units PROVE Keys'
  BY DEF KInv, StartDelete
<1>1. Keys /\ opt' = opt /\ inserts' = inserts /\ rowcnt' = rowcnt /\ upd_num' = upd_num
      /\ pc = "insert" /\ pc' = "delete" /\ upd_count = 0
  BY Constants DEF KInv, StartDelete
<1>2. upd_i \in Int /\ upd_i + 0 = upd_num * rowcnt + 1 + rowcnt
  BY <1>1 DEF IInv, Placed
<1>3. Past' = Past
  BY <1>1, <1>2, OptTypes DEF Past
<1> QED
  BY <1>1, <1>3, KeysStay DEF Keys

LEMMA DeleteRowKInv ==
  ASSUME IInv, KInv, DeleteRow
  PROVE  KInv'
<1> SUFFICES ASSUME opt.updates < Units PROVE Keys'
  BY DEF KInv, DeleteRow
<1>1. Keys /\ opt' = opt /\ inserts' = inserts /\ rowcnt' = rowcnt /\ upd_num' = upd_num
      /\ pc = "delete" /\ pc' = pc
  BY Constants DEF KInv, DeleteRow
<1>2. Past' = Past
  BY <1>1 DEF Past
<1> QED
  BY <1>1, <1>2, KeysStay DEF Keys

LEMMA EndSetKInv ==
  ASSUME IInv, KInv, EndSet
  PROVE  KInv'
<1> SUFFICES ASSUME opt.updates < Units PROVE Keys'
  BY DEF KInv, EndSet
<1>1. Keys /\ opt' = opt /\ inserts' = inserts /\ rowcnt' = rowcnt /\ upd_num' = upd_num + 1
      /\ pc = "delete" /\ pc' = "set"
  BY Constants DEF KInv, EndSet
<1>2. Past' = Past
  BY <1>1, OptTypes DEF Past
<1> QED
  BY <1>1, <1>2, KeysStay DEF Keys

LEMMA QuietKInv ==
  ASSUME IInv, KInv, Exit \/ UNCHANGED update_vars
  PROVE  KInv'
<1> SUFFICES ASSUME opt.updates < Units PROVE Keys'
  BY DEF KInv, Exit, update_vars
<1>1. Keys /\ opt' = opt /\ inserts' = inserts /\ rowcnt' = rowcnt /\ upd_num' = upd_num
      /\ upd_i' = upd_i /\ mode' = mode /\ (pc' = pc \/ (pc = "set" /\ pc' = "done"))
  <2>1. CASE Exit
    BY <2>1, Constants DEF KInv, Exit
  <2>2. CASE UNCHANGED update_vars
    BY <2>2, Constants DEF KInv, update_vars
  <2> QED
    BY <2>1, <2>2
<1>2. Past' = Past
  BY <1>1 DEF Past
<1> QED
  BY <1>1, <1>2, KeysStay DEF Keys

LEMMA NextKInv == IInv /\ KInv /\ [UpdateNext]_update_vars => KInv'
<1> SUFFICES ASSUME IInv, KInv, [UpdateNext]_update_vars PROVE KInv'
  OBVIOUS
<1> QED
  BY StartSetKInv, InsertRowKInv, StartDeleteKInv, DeleteRowKInv, EndSetKInv, QuietKInv
     DEF UpdateNext, Done

\* Two rows of sets: the later one has the higher key.
LEMMA RowsApart ==
  ASSUME WholeUnits, IInv, opt.updates < Units, NEW a, NEW b, a.i \in Nat, b.i \in Nat, a.i < b.i,
         NEW m \in 1..opt.updates, RowOf(a, m), NEW n \in 1..opt.updates, RowOf(b, n)
  PROVE  a.key # b.key
<1>1. /\ rowcnt \in Nat /\ opt.updates \in Nat /\ Units \in Nat /\ SetsPerSeq \in Nat \ {0}
      /\ m \in Nat /\ n \in Nat /\ m >= 1 /\ n >= 1 /\ m < Units /\ n < Units
  BY SetSizes, OptTypes
<1>2. m <= n
  <2>1. CASE m >= n + 1
    <3>1. n * rowcnt <= (m - 1) * rowcnt
      BY <1>1, <2>1
    <3>2. n * rowcnt \in Int /\ (m - 1) * rowcnt \in Int
      BY <1>1
    <3> QED
      BY <3>1, <3>2 DEF RowOf
  <2> QED
    BY <1>1, <2>1
<1>3. InsertSeq(m) = 1 + (m \div SetsPerSeq) /\ InsertSeq(n) = 1 + (n \div SetsPerSeq)
  BY <1>1, SeqOf
<1>4. m \div SetsPerSeq \in Nat /\ n \div SetsPerSeq \in Nat
      /\ m \div SetsPerSeq <= n \div SetsPerSeq
  BY <1>1, <1>2, DivMod, DivGrows
<1>5. InsertSeq(m) \in Nat /\ InsertSeq(n) \in Nat /\ InsertSeq(m) <= InsertSeq(n)
  BY <1>3, <1>4
<1>6. mk_sparse(a.i, InsertSeq(m)) < mk_sparse(b.i, InsertSeq(n))
  BY <1>5, KeysGrow
<1>7. mk_sparse(a.i, InsertSeq(m)) \in Int
  BY <1>5 DEF mk_sparse, LOW, SEQ
<1> QED
  BY <1>6, <1>7 DEF RowOf

\* A row of a set does not have the key of a loaded one.
LEMMA NotLoaded ==
  ASSUME WholeUnits, IInv, opt.updates < Units, NEW a, a.i \in Nat,
         NEW n \in 1..opt.updates, RowOf(a, n)
  PROVE  a.key \notin LoadedKeys
<1> SUFFICES ASSUME NEW k \in 1..(OrderBase * UpdateScale), a.key = mk_sparse(k, 0) PROVE FALSE
  BY DEF LoadedKeys
<1> DEFINE s == SetsPerSeq
           d == n \div s
           c == rowcnt
           b == OrderBase * UpdateScale
<1>1. /\ c \in Nat /\ s \in Nat \ {0} /\ b \in Nat /\ k \in Nat /\ k <= b
      /\ Units \in Nat /\ n \in Nat /\ n >= 1 /\ n < Units
  BY SetSizes, OptTypes
<1>2. InsertSeq(n) = 1 + d
  BY <1>1, SeqOf
<1>3. d \in Nat /\ s * d <= n
  BY <1>1, DivMod
<1> HIDE DEF d
<1>4. mk_sparse(k, 0) = mk_sparse(a.i, 1 + d) /\ 1 + d \in Nat /\ 1 + d >= 1
  <2>1. a.key = mk_sparse(a.i, InsertSeq(n))
    BY DEF RowOf
  <2>2. 1 + d \in Nat /\ 1 + d >= 1
    BY <1>3
  <2> QED
    BY <1>2, <2>1, <2>2
<1>5. d >= 3 /\ k >= a.i + 8
  <2>1. 1 + d >= 4 /\ k >= a.i + 8
    BY <1>1, <1>4, SameKey
  <2> QED
    BY <1>3, <2>1
<1>6. (n - 1) * c < a.i /\ a.i <= n * c
  BY DEF RowOf
<1>7. b * opt.refresh < (c + 1) * Units /\ Units < (s + 1) * opt.refresh
      /\ opt.refresh \in Nat /\ opt.refresh >= 1
  BY SetSizes, OptTypes
<1> HIDE DEF s, c, b
<1>8. c >= 1
  <2>1. CASE c = 0
    <3>1. (n - 1) * c = 0 /\ n * c = 0
      BY <1>1, <2>1
    <3> QED
      BY <1>6, <3>1
  <2> QED
    BY <1>1, <2>1
<1>9. n >= 3 * s
  <2>1. s * d >= s * 3
    BY <1>1, <1>3, <1>5
  <2>2. s * d \in Int
    BY <1>1, <1>3
  <2> QED
    BY <1>1, <1>3, <2>1, <2>2
<1>10. (n - 1) * c >= (3 * s - 1) * c
  BY <1>1, <1>9
<1>11. (3 * s - 1) * c + 9 > b
  BY <1>1, <1>7, <1>8, LongEnough
<1>12. (n - 1) * c \in Int /\ (3 * s - 1) * c \in Int
  BY <1>1
<1>13. k > b
  BY <1>1, <1>5, <1>6, <1>10, <1>11, <1>12
<1> QED
  BY <1>1, <1>13

LEMMA KInvFresh == ASSUME WholeUnits PROVE IInv /\ KInv => InsertsFresh
<1> SUFFICES ASSUME IInv, KInv, opt.updates < Units, NEW a \in inserts
             PROVE  a.key \notin LoadedKeys /\ \A b \in inserts : a.key = b.key => a = b
  BY DEF InsertsFresh
<1>1. Keys
  BY DEF KInv
<1>2. a.i \in Nat /\ \E m \in 1..opt.updates : RowOf(a, m)
  BY <1>1 DEF Keys
<1>3. a.key \notin LoadedKeys
  BY <1>2, NotLoaded
<1>4. ASSUME NEW b \in inserts, a.key = b.key
      PROVE  a = b
  <2>1. b.i \in Nat /\ \E n \in 1..opt.updates : RowOf(b, n)
    BY <1>1 DEF Keys
  <2>2. ~(a.i < b.i) /\ ~(b.i < a.i)
    BY <1>2, <1>4, <2>1, RowsApart
  <2>3. a.i = b.i
    BY <1>2, <2>1, <2>2
  <2> QED
    BY <1>1, <2>3 DEF Keys
<1> QED
  BY <1>3, <1>4

\* Whatever the scale, the percentage, the segments and the set of -S: an order of the first
\* Units - 1 update sets has a key that no loaded order and no other inserted order has,
\* although the sequence number outgrows its two bits (build.c: ez_sparse).  In tpch_tools the
\* base rows have to be a multiple of the units.
THEOREM FreshKeys == ASSUME WholeUnits PROVE UpdateSpec => []InsertsFresh
<1>1. UpdateInit => IInv /\ KInv
  BY InitIInv, InitKInv
<1>2. IInv /\ KInv /\ [UpdateNext]_update_vars => IInv' /\ KInv'
  BY NextIInv, NextKInv
<1>3. IInv /\ KInv => InsertsFresh
  BY KInvFresh
<1> QED
  BY <1>1, <1>2, <1>3, PTL DEF UpdateSpec
-----------------------------------------------------------------------------
(***************************************************************************)
(* The files.  The rows of a set are cut into segments: the first ones,    *)
(* `long' of them, have a row more than the others.  Each row that was     *)
(* made is in the file of its segment, so that opening a file never        *)
(* empties one of the same set; and the keys that pr_drange printed, with  *)
(* those of the range that is open, are those of the rows it went over.    *)
(***************************************************************************)

\* The rows of a set in its first k segments, of which `long' have one row more than p.
Spread(p, long, k) == k * p + (IF k < long THEN k ELSE long)
Cut(s, long, k)    == Spread(PerSegment(s), long, k)

\* Row j of a set is in the file of its segment.
InSegment(s, long, file, j) ==
  IF s = 0 THEN file[2] = 0
  ELSE file[2] \in 1..s /\ Cut(s, long, file[2] - 1) < j /\ j <= Cut(s, long, file[2])

SetRows(n)      == ((n - 1) * rowcnt + 1)..(n * rowcnt)
DeleteKey(j, n) == MK_SPARSE(j, DeleteSeq(n))
FirstSet        == IF opt.step > 0 THEN opt.step ELSE 1

\* Segments of the keys: in tpch_tools all are long but the last.
LongDeletes == IF opt.newer THEN opt.delete_segments ELSE Residual(opt.delete_segments)

\* The last row pr_drange has gone over.
DeletedPast == IF pc = "delete" THEN upd_i - 1 ELSE upd_num * rowcnt

\* gen_tbl's counters: before the first row of a set, and after it.
InsertAt ==
  \/ /\ fp = <<0, 0>> /\ segment = 0 /\ rows_this_segment = -1
     /\ mode = upd_num + 1 /\ upd_i = upd_num * rowcnt + 1
  \/ /\ opt.insert_segments = 0
     /\ fp = <<upd_num + 1, 0>> /\ mode = upd_num + 1
  \/ /\ opt.insert_segments > 0
     /\ segment \in 1..opt.insert_segments /\ fp = <<upd_num + 1, segment>>
     /\ mode = upd_num + 1 + (segment - 1) * Units
     /\ rows_this_segment \in Nat
     /\ LET s == opt.insert_segments
        IN  /\ upd_i - (upd_num * rowcnt + 1)
                 = Cut(s, Residual(s), segment - 1) + rows_this_segment + 1
            /\ upd_i - (upd_num * rowcnt + 1) <= Cut(s, Residual(s), segment)

\* A row is in the file of its set and segment, with the key that the set gives it.
RowFiled(r) ==
  /\ r.i \in SetRows(r.file[1])
  /\ r.key = mk_sparse(r.i, InsertSeq(r.file[1]))
  /\ InSegment(opt.insert_segments, Residual(opt.insert_segments), r.file,
               r.i - (r.file[1] - 1) * rowcnt)

InsertFiles ==
  /\ pc = "insert" => InsertAt
  /\ \A r \in inserts :
       r.file[1] \in FirstSet..(upd_num + 1) /\ r.i <= Past /\ RowFiled(r)
  /\ \A n \in FirstSet..(upd_num + 1) : \A j \in SetRows(n) :
       j <= Past => \E r \in inserts : r.file[1] = n /\ r.i = j

\* pr_drange's counters.
DeleteAt ==
  /\ upd_i \in Int /\ upd_i >= upd_num * rowcnt + 1 /\ upd_i + upd_count = upd_num * rowcnt + 1 + rowcnt
  /\ upd_start \in Int /\ upd_last \in Int /\ upd_start <= upd_last + 1
  /\ opt.delete_segments = 0 => fp = <<upd_num + 1, 0>>
  /\ opt.delete_segments > 0 =>
       /\ segment \in 1..opt.delete_segments /\ fp = <<upd_num + 1, segment>>
       /\ rows_this_segment \in Nat
       /\ ~opt.gen_sql /\ ~opt.gen_rng =>
            /\ upd_i - (upd_num * rowcnt + 1)
                 = Cut(opt.delete_segments, LongDeletes, segment - 1) + rows_this_segment
            /\ upd_i - (upd_num * rowcnt + 1) <= Cut(opt.delete_segments, LongDeletes, segment)

\* The range that is not yet printed.
Open == IF opt.gen_sql \/ opt.gen_rng THEN upd_start..upd_last ELSE {}

\* A key, of a row up to `past', is in the file of its set and segment.
KeyFiled(d, past) ==
  /\ d.file = <<d.file[1], d.file[2]>>
  /\ \E j \in SetRows(d.file[1]) :
       /\ j <= past
       /\ d = Deleted(DeleteKey(j, d.file[1]), DeleteKey(j, d.file[1]), d.file)
       /\ InSegment(opt.delete_segments, LongDeletes, d.file, j - (d.file[1] - 1) * rowcnt)

KeysOf(n) == {DeleteKey(j, n) : j \in SetRows(n)}

DeleteFiles ==
  /\ pc = "delete" =>
       /\ DeleteAt
       /\ DeleteKeys(upd_num + 1) \cup Open
            = {DeleteKey(j, upd_num + 1) : j \in (upd_num * rowcnt + 1)..(upd_i - 1)}
  /\ \A d \in deletes :
       /\ d.file[1] \in FirstSet..(IF pc = "delete" THEN upd_num + 1 ELSE upd_num)
       /\ ~opt.gen_sql /\ ~opt.gen_rng => KeyFiled(d, DeletedPast)
  /\ \A n \in FirstSet..upd_num :
       /\ DeleteKeys(n) \subseteq KeysOf(n)
       /\ (opt.gen_sql => opt.gen_rng) => KeysOf(n) \subseteq DeleteKeys(n)

Files ==
  /\ FirstSet <= upd_num + 1
  /\ pc \in {"insert", "delete"} => upd_num < opt.updates
  /\ InsertFiles /\ DeleteFiles

FInv == opt.updates < Units => Files

LEMMA OptFiles ==
  ASSUME IInv
  PROVE  /\ opt.insert_segments \in Nat /\ opt.delete_segments \in Nat
         /\ opt.gen_sql \in BOOLEAN /\ opt.gen_rng \in BOOLEAN /\ opt.newer \in BOOLEAN
         /\ opt.newer => ~opt.gen_sql /\ ~opt.gen_rng
         /\ FirstSet \in Nat /\ FirstSet >= 1
         /\ SetsPerSeq \in Nat
<1>1. opt \in UpdateCommands /\ opt \in UpdateCommand /\ opt.refresh \in Nat \ {0} /\ Units \in Nat
  BY UpdateSetsAssumption DEF IInv, Placed, UpdateCommand
<1>2. opt.newer => ~opt.gen_sql /\ ~opt.gen_rng
  BY <1>1, UpdateSetsAssumption
<1>3. opt.step \in Nat \cup {-1}
  BY <1>1 DEF UpdateCommand
<1>4. SetsPerSeq \in Nat
  BY <1>1, DivMod DEF SetsPerSeq
<1> QED
  BY <1>1, <1>2, <1>3, <1>4 DEF UpdateCommand, FirstSet

\* Segment after segment, up to the last row of the set.
LEMMA CutFacts ==
  ASSUME rowcnt \in Nat, NEW s \in Nat \ {0}
  PROVE  /\ PerSegment(s) \in Nat /\ Residual(s) \in 0..(s - 1)
         /\ \A long \in Nat, k \in Nat :
              /\ Cut(s, long, k) \in Nat
              /\ Cut(s, long, k + 1)
                   = Cut(s, long, k) + PerSegment(s) + (IF k < long THEN 1 ELSE 0)
         /\ \A long \in Nat : Cut(s, long, 0) = 0
         /\ Cut(s, Residual(s), s) = rowcnt
         /\ Cut(s, s, s) >= rowcnt
<1> DEFINE p == PerSegment(s)
           r == Residual(s)
<1>1. p \in Nat /\ r \in 0..(s - 1) /\ rowcnt = s * p + r
  BY DivMod DEF PerSegment, Residual
<1>2. \A long, k : Cut(s, long, k) = k * p + (IF k < long THEN k ELSE long)
  BY DEF Cut, Spread
<1> HIDE DEF p, r
<1>3. ASSUME NEW long \in Nat, NEW k \in Nat
      PROVE  /\ Cut(s, long, k) \in Nat
             /\ Cut(s, long, k + 1) = Cut(s, long, k) + p + (IF k < long THEN 1 ELSE 0)
             /\ Cut(s, long, 0) = 0
  <2>1. k * p \in Nat /\ (k + 1) * p = k * p + p /\ 0 * p = 0
    BY <1>1
  <2>2. /\ Cut(s, long, k) = k * p + (IF k < long THEN k ELSE long)
        /\ Cut(s, long, k + 1) = (k + 1) * p + (IF k + 1 < long THEN k + 1 ELSE long)
        /\ Cut(s, long, 0) = 0 * p + (IF 0 < long THEN 0 ELSE long)
    BY <1>2
  <2> QED
    BY <1>1, <2>1, <2>2
<1>4. Cut(s, r, s) = s * p + r /\ Cut(s, s, s) = s * p + s
  BY <1>1, <1>2
<1>5. s * p \in Nat
  BY <1>1
<1>6. Cut(s, r, s) = rowcnt /\ Cut(s, s, s) >= rowcnt
  BY <1>1, <1>4, <1>5
<1> QED
  BY <1>1, <1>3, <1>6 DEF p, r

\* The set and the segments before are packed into one number.
LEMMA Packed ==
  ASSUME NEW n \in Nat, NEW k \in Nat, n < Units, Units \in Nat \ {0}
  PROVE  (n + k * Units) % Units = n /\ (n + k * Units) \div Units = k
<1> DEFINE x == n + k * Units
           e == x % Units
           d == x \div Units
<1>1. x \in Nat
  OBVIOUS
<1>2. x = Units * d + e /\ e \in Nat /\ e < Units /\ d \in Nat
  BY <1>1, DivMod
<1>3. x = Units * k + n
  OBVIOUS
<1> HIDE DEF x, e, d
<1>4. d = k
  <2>1. CASE d >= k + 1
    <3>1. Units * d >= Units * (k + 1)
      BY <1>2, <2>1
    <3> QED
      BY <1>2, <1>3, <3>1
  <2>2. CASE k >= d + 1
    <3>1. Units * k >= Units * (d + 1)
      BY <1>2, <2>2
    <3> QED
      BY <1>2, <1>3, <3>1
  <2> QED
    BY <1>2, <2>1, <2>2
<1>5. e = n
  BY <1>2, <1>3, <1>4
<1> QED
  BY <1>4, <1>5 DEF e, d, x

\* A row is in one set only.
LEMMA SetRowsFacts ==
  ASSUME rowcnt \in Nat, NEW n \in Nat \ {0}
  PROVE  /\ (n - 1) * rowcnt \in Nat /\ n * rowcnt = (n - 1) * rowcnt + rowcnt
         /\ SetRows(n) = ((n - 1) * rowcnt + 1)..((n - 1) * rowcnt + rowcnt)
         /\ \A m \in Nat : m < n => m * rowcnt <= (n - 1) * rowcnt
<1>1. n - 1 \in Nat
  OBVIOUS
<1>2. (n - 1) * rowcnt \in Nat /\ n * rowcnt = (n - 1) * rowcnt + rowcnt
  BY <1>1
<1>3. ASSUME NEW m \in Nat, m < n
      PROVE  m * rowcnt <= (n - 1) * rowcnt
  BY <1>1, <1>3
<1> QED
  BY <1>2, <1>3 DEF SetRows

\* gen_tbl's counters and the segment of the row agree: the file of the row is that of its
\* segment, and it is opened, empty, for the first of them.
LEMMA RowInFile ==
  ASSUME IInv, KInv, Files, opt.updates < Units, InsertRow
  PROVE  /\ InsertAt'
         /\ fp'[1] = upd_num + 1
         /\ InSegment(opt.insert_segments, Residual(opt.insert_segments), fp',
                      upd_i - upd_num * rowcnt)
         /\ inserts' = inserts \cup
              {[file |-> fp', i |-> upd_i, key |-> mk_sparse(upd_i, InsertSeq(upd_num + 1)),
                order_rng |-> order_rng, line_rng |-> line_rng]}
<1> DEFINE n == upd_num + 1
           base == upd_num * rowcnt
           s == opt.insert_segments
           res == Residual(s)
           new(file) == [file |-> file, i |-> upd_i, key |-> mk_sparse(upd_i, InsertSeq(n)),
                         order_rng |-> order_rng, line_rng |-> line_rng]
<1>1. /\ s \in Nat /\ base \in Nat /\ n \in Nat \ {0} /\ n < Units /\ rowcnt \in Nat
      /\ Units \in Nat \ {0} /\ upd_num \in Nat /\ opt.updates \in Nat
  BY OptFiles, OptTypes DEF Files, InsertRow
<1>2. /\ pc = "insert" /\ InsertAt /\ upd_i \in Int /\ upd_i >= base + 1 /\ upd_i <= base + rowcnt
      /\ rowcnt >= 1
  <2>1. pc = "insert" /\ upd_count > 0 /\ upd_count \in Nat /\ upd_i \in Int
        /\ upd_i + upd_count = base + 1 + rowcnt
    BY DEF InsertRow, IInv, Placed
  <2>2. upd_i >= base + 1
    BY <2>1 DEF KInv, Keys
  <2> QED
    BY <1>1, <2>1, <2>2 DEF Files, InsertFiles
<1>3. PICK k \in Nat : mode = n + k * Units
  BY <1>2 DEF KInv, Keys
<1>4. InsertSeq(mode) = InsertSeq(n)
  BY <1>1, <1>3, SegmentSeq
<1>5. upd_i' = upd_i + 1 /\ upd_num' = upd_num /\ opt' = opt /\ rowcnt' = rowcnt
  BY Constants DEF InsertRow
<1>6. /\ mode' = IF NextInsertSegment THEN mode + Units ELSE mode
      /\ rows_this_segment' = IF s = 0 THEN -1
                              ELSE IF NextInsertSegment THEN 0 ELSE rows_this_segment + 1
  BY DEF InsertRow
<1>7. /\ (fp = <<0, 0>> \/ mode' # mode) =>
           /\ fp' = InsertFile(mode', segment + 1)
           /\ segment' = IF s > 0 THEN segment + 1 ELSE segment
           /\ inserts' = Emptied(inserts, fp') \cup {new(fp')}
      /\ ~(fp = <<0, 0>> \/ mode' # mode) =>
           fp' = fp /\ segment' = segment /\ inserts' = inserts \cup {new(fp')}
  BY <1>4 DEF InsertRow
<1>8. \A r \in inserts :
           /\ r.i \in Int /\ r.i <= upd_i - 1
           /\ r.file[1] = n => InSegment(s, res, r.file, r.i - base)
  <2>1. \A r \in inserts : r.i \in Int /\ r.i <= Past
    BY <1>1 DEF Files, InsertFiles, IInv, At
  <2>2. Past = upd_i - 1
    BY <1>2 DEF Past
  <2>3. n - 1 = upd_num
    BY <1>1
  <2>4. \A r \in inserts : r.file[1] = n =>
          InSegment(s, res, r.file, r.i - (n - 1) * rowcnt)
    BY DEF Files, InsertFiles, RowFiled
  <2> QED
    BY <2>1, <2>2, <2>3, <2>4
<1> HIDE DEF n, base, s, res, new
<1>9. /\ InsertAt' <=>
           \/ /\ fp' = <<0, 0>> /\ segment' = 0 /\ rows_this_segment' = -1
              /\ mode' = n /\ upd_i' = base + 1
           \/ s = 0 /\ fp' = <<n, 0>> /\ mode' = n
           \/ /\ s > 0 /\ segment' \in 1..s /\ fp' = <<n, segment'>>
              /\ mode' = n + (segment' - 1) * Units
              /\ rows_this_segment' \in Nat
              /\ upd_i' - (base + 1) = Cut(s, res, segment' - 1) + rows_this_segment' + 1
              /\ upd_i' - (base + 1) <= Cut(s, res, segment')
      /\ InsertAt <=>
           \/ /\ fp = <<0, 0>> /\ segment = 0 /\ rows_this_segment = -1
              /\ mode = n /\ upd_i = base + 1
           \/ s = 0 /\ fp = <<n, 0>> /\ mode = n
           \/ /\ s > 0 /\ segment \in 1..s /\ fp = <<n, segment>>
              /\ mode = n + (segment - 1) * Units
              /\ rows_this_segment \in Nat
              /\ upd_i - (base + 1) = Cut(s, res, segment - 1) + rows_this_segment + 1
              /\ upd_i - (base + 1) <= Cut(s, res, segment)
  <2>1. s' = s /\ res' = res /\ n' = n /\ base' = base
    BY <1>5 DEF PerSegment, Residual, n, base, s, res
  <2>2. /\ Cut(s, res, segment - 1)' = Cut(s, res, segment' - 1)
        /\ Cut(s, res, segment)' = Cut(s, res, segment')
    BY <1>5, <2>1 DEF Cut, PerSegment
  <2> QED
    BY <2>1, <2>2, Zenon DEF InsertAt, n, base, s, res
<1>10. InsertAt' /\ fp'[1] = n /\ InSegment(s, res, fp', upd_i - base)
       /\ inserts' = inserts \cup {new(fp')}
  <2>1. CASE s = 0
    <3>1. ~NextInsertSegment /\ mode' = mode
      BY <1>6, <2>1 DEF NextInsertSegment, s
    <3>2. mode' = n /\ (fp = <<0, 0>> \/ fp = <<n, 0>>) /\ (fp = <<0, 0>> => upd_i = base + 1)
      BY <1>1, <1>2, <1>9, <2>1, <3>1
    <3>3. fp' = <<n, 0>>
      BY <1>1, <1>7, <2>1, <3>1, <3>2 DEF InsertFile, s
    <3>4. InSegment(s, res, fp', upd_i - base)
      BY <2>1, <3>3 DEF InSegment
    <3>5. inserts' = inserts \cup {new(fp')}
      <4>1. CASE fp = <<0, 0>>
        <5>1. upd_i = base + 1
          BY <3>2, <4>1
        <5>2. \A r \in inserts : r.file # fp'
          <6> SUFFICES ASSUME NEW r \in inserts, r.file = fp' PROVE FALSE
            OBVIOUS
          <6>1. r.file[1] = n
            BY <3>3
          <6>2. r.i \in SetRows(n)
            BY <6>1 DEF Files, InsertFiles, RowFiled
          <6>3. r.i >= base + 1
            <7>1. n - 1 = upd_num
              BY <1>1 DEF n
            <7> QED
              BY <1>1, <6>2, <7>1 DEF SetRows, base
          <6> QED
            BY <1>1, <1>8, <5>1, <6>3
        <5> QED
          BY <1>7, <4>1, <5>2 DEF Emptied
      <4>2. CASE fp # <<0, 0>>
        BY <1>7, <3>1, <4>2
      <4> QED
        BY <4>1, <4>2
    <3> QED
      BY <1>9, <2>1, <3>2, <3>3, <3>4, <3>5
  <2>2. CASE s > 0
    <3>1. /\ PerSegment(s) \in Nat /\ res \in 0..(s - 1)
          /\ \A k1 \in Nat :
               /\ Cut(s, res, k1) \in Nat
               /\ Cut(s, res, k1 + 1)
                    = Cut(s, res, k1) + PerSegment(s) + (IF k1 < res THEN 1 ELSE 0)
          /\ Cut(s, res, 0) = 0 /\ Cut(s, res, s) = rowcnt
      <4>1. res = Residual(s) /\ s \in Nat \ {0}
        BY <1>1, <2>2 DEF res
      <4>2. PerSegment(s) \in Nat /\ res \in 0..(s - 1) /\ Cut(s, res, s) = rowcnt
        BY <1>1, <4>1, CutFacts
      <4>3. res \in Nat
        BY <1>1, <4>2
      <4> QED
        BY <1>1, <4>1, <4>2, <4>3, CutFacts
    <3>2. NextInsertSegment <=>
            IF mode \div Units < res THEN rows_this_segment + 1 > PerSegment(s)
                                     ELSE rows_this_segment + 1 >= PerSegment(s)
      BY <2>2 DEF NextInsertSegment, s, res
    \* Rows of a segment that is to be opened are not there yet.
    <3>3. ASSUME NEW g \in Nat, g >= 1, upd_i >= base + 1, upd_i - (base + 1) <= Cut(s, res, g - 1)
          PROVE  \A r \in inserts : r.file # <<n, g>>
      <4> SUFFICES ASSUME NEW r \in inserts, r.file = <<n, g>> PROVE FALSE
        OBVIOUS
      <4>1. InSegment(s, res, r.file, r.i - base) /\ r.file[2] = g
        BY <1>8
      <4>2. Cut(s, res, g - 1) < r.i - base
        BY <2>2, <4>1 DEF InSegment
      <4>3. g - 1 \in Nat /\ Cut(s, res, g - 1) \in Nat
        BY <3>1, <3>3
      <4> QED
        BY <1>1, <1>2, <1>8, <3>3, <4>2, <4>3
    <3>4. CASE fp = <<0, 0>>
      <4>1. segment = 0 /\ rows_this_segment = -1 /\ mode = n /\ upd_i = base + 1
        BY <1>1, <1>2, <1>9, <2>2, <3>4
      <4>2. n \div Units = 0 /\ n % Units = n
        <5>1. n = n + 0 * Units
          BY <1>1
        <5> QED
          BY <1>1, <5>1, Packed
      <4>3. res = 0 => PerSegment(s) >= 1
        <5>1. PerSegment(s) = 0 /\ res = 0 => rowcnt = 0
          <6>1. rowcnt = s * PerSegment(s) + res
            BY <1>1, <2>2, DivMod DEF PerSegment, res, Residual
          <6> QED
            BY <1>1, <6>1
        <5> QED
          BY <1>2, <3>1, <5>1
      <4>4. ~NextInsertSegment
        BY <3>1, <3>2, <4>1, <4>2, <4>3
      <4>5. mode' = n /\ rows_this_segment' = 0 /\ segment' = 1 /\ fp' = <<n, 1>>
        BY <1>6, <1>7, <2>2, <3>4, <4>1, <4>2, <4>4 DEF InsertFile, s
      <4>6. Cut(s, res, 0) = 0 /\ Cut(s, res, 1) = PerSegment(s) + (IF 0 < res THEN 1 ELSE 0)
        BY <3>1
      <4>7. Cut(s, res, 1) >= 1
        BY <3>1, <4>3, <4>6
      <4>8. InSegment(s, res, fp', upd_i - base)
        <5>1. fp'[2] = 1 /\ fp'[2] - 1 = 0 /\ upd_i - base = 1 /\ 1 \in 1..s
          BY <1>1, <2>2, <4>1, <4>5
        <5> QED
          BY <2>2, <4>6, <4>7, <5>1 DEF InSegment
      <4>9. \A r \in inserts : r.file # fp'
        BY <1>1, <1>2, <3>3, <4>1, <4>5, <4>6
      <4>10. inserts' = inserts \cup {new(fp')}
        BY <1>7, <3>4, <4>9 DEF Emptied
      <4>11. mode' = n + (segment' - 1) * Units
        BY <1>1, <4>5
      <4> QED
        BY <1>1, <1>5, <1>9, <2>2, <4>1, <4>5, <4>6, <4>7, <4>8, <4>10, <4>11
    <3>5. CASE fp # <<0, 0>>
      <4>1. /\ segment \in 1..s /\ fp = <<n, segment>> /\ mode = n + (segment - 1) * Units
            /\ rows_this_segment \in Nat
            /\ upd_i - (base + 1) = Cut(s, res, segment - 1) + rows_this_segment + 1
            /\ upd_i - (base + 1) <= Cut(s, res, segment)
        BY <1>2, <1>9, <2>2, <3>5
      <4> DEFINE g == segment - 1
      <4>2. g \in Nat /\ segment = g + 1 /\ g + 1 \in Nat
        BY <1>1, <4>1
      <4>3. mode \div Units = g /\ mode % Units = n /\ (mode + Units) % Units = n
            /\ mode + Units = n + segment * Units /\ mode + Units # mode
        <5>1. mode = n + g * Units /\ mode + Units = n + (g + 1) * Units
          BY <1>1, <4>1, <4>2
        <5>2. mode \div Units = g /\ mode % Units = n
          BY <1>1, <4>2, <5>1, Packed
        <5>3. (n + (g + 1) * Units) % Units = n
          BY <1>1, <4>2, Packed
        <5>4. mode \in Int
          BY <1>1, <4>2, <5>1
        <5> QED
          BY <1>1, <4>2, <5>1, <5>2, <5>3, <5>4
      <4>7. /\ upd_i - (base + 1) = Cut(s, res, g) + rows_this_segment + 1
            /\ upd_i - (base + 1) <= Cut(s, res, g + 1)
            /\ Cut(s, res, segment - 1) = Cut(s, res, g) /\ Cut(s, res, segment) = Cut(s, res, g + 1)
        <5>1. segment - 1 = g /\ segment = g + 1
          BY <4>2
        <5> QED
          BY <4>1, <5>1
      <4> HIDE DEF g
      <4>4. /\ Cut(s, res, g) \in Nat
            /\ Cut(s, res, g + 1) = Cut(s, res, g) + PerSegment(s) + (IF g < res THEN 1 ELSE 0)
        BY <3>1, <4>2
      <4>5. CASE ~NextInsertSegment
        <5>1. mode' = mode /\ rows_this_segment' = rows_this_segment + 1
              /\ fp' = <<n, segment>> /\ segment' = segment /\ inserts' = inserts \cup {new(fp')}
          BY <1>6, <1>7, <2>2, <3>5, <4>1, <4>5
        <5>2. rows_this_segment + 1 < PerSegment(s) + (IF g < res THEN 1 ELSE 0)
          BY <3>1, <3>2, <4>1, <4>2, <4>3, <4>5
        <5>3. upd_i - base <= Cut(s, res, segment) /\ Cut(s, res, segment - 1) < upd_i - base
              /\ upd_i - base = Cut(s, res, segment - 1) + (rows_this_segment + 1) + 1
          BY <1>1, <1>2, <3>1, <4>1, <4>2, <4>4, <4>7, <5>2
        <5>4. InSegment(s, res, fp', upd_i - base)
          BY <2>2, <4>1, <5>1, <5>3 DEF InSegment
        <5>5. InsertAt'
          BY <1>1, <1>2, <1>5, <1>9, <2>2, <4>1, <5>1, <5>3
        <5> QED
          BY <5>1, <5>4, <5>5
      <4>6. CASE NextInsertSegment
        <5>1. upd_i - (base + 1) = Cut(s, res, segment)
          <6>1. rows_this_segment + 1 >= PerSegment(s) + (IF g < res THEN 1 ELSE 0)
            BY <3>1, <3>2, <4>1, <4>2, <4>3, <4>6
          <6>2. rows_this_segment + 1 <= PerSegment(s) + (IF g < res THEN 1 ELSE 0)
            BY <1>1, <1>2, <3>1, <4>1, <4>2, <4>4, <4>7
          <6> QED
            <7> DEFINE len == PerSegment(s) + (IF g < res THEN 1 ELSE 0)
            <7>1. len \in Nat /\ rows_this_segment + 1 >= len /\ rows_this_segment + 1 <= len
              BY <3>1, <4>2, <6>1, <6>2
            <7>2. Cut(s, res, segment) = Cut(s, res, g) + len
              BY <3>1, <4>2, <4>4, <4>7
            <7> HIDE DEF len
            <7> QED
              BY <1>1, <1>2, <4>1, <4>4, <4>7, <7>1, <7>2
        <5>2. mode' = n + segment * Units /\ mode' # mode /\ rows_this_segment' = 0
              /\ fp' = <<n, segment + 1>> /\ segment' = segment + 1
              /\ inserts' = Emptied(inserts, fp') \cup {new(fp')}
          <6>1. mode' = mode + Units /\ rows_this_segment' = 0
            BY <1>6, <2>2, <4>6
          <6>2. InsertFile(mode', segment + 1) = <<n, segment + 1>>
            BY <2>2, <4>3, <6>1 DEF InsertFile, s
          <6> QED
            BY <1>7, <2>2, <4>3, <6>1, <6>2
        <5>3. /\ Cut(s, res, segment) \in Nat
              /\ Cut(s, res, segment + 1)
                    = Cut(s, res, segment) + PerSegment(s) + (IF segment < res THEN 1 ELSE 0)
          BY <3>1, <4>1
        <5>4. segment < s
          <6>1. Cut(s, res, segment) < rowcnt
            BY <1>1, <1>2, <5>1, <5>3
          <6> QED
            BY <1>1, <3>1, <4>1, <6>1
        <5>5. PerSegment(s) = 0 => segment < res
          <6>1. CASE PerSegment(s) = 0 /\ segment >= res
            <7>1. Cut(s, res, segment) = res
              BY <4>1, <6>1, <3>1 DEF Cut, Spread
            <7>2. rowcnt = res
              BY <1>1, <3>1, <6>1 DEF Cut, Spread
            <7> QED
              BY <1>1, <1>2, <5>1, <7>1, <7>2
          <6> QED
            BY <3>1, <4>1, <6>1
        <5>6. Cut(s, res, segment + 1) >= Cut(s, res, segment) + 1
          BY <3>1, <5>3, <5>5
        <5>7. InSegment(s, res, fp', upd_i - base)
          BY <1>1, <1>2, <2>2, <4>1, <5>1, <5>2, <5>3, <5>4, <5>6 DEF InSegment
        <5>8. \A r \in inserts : r.file # fp'
          <6>1. segment + 1 \in Nat /\ segment + 1 >= 1 /\ (segment + 1) - 1 = segment
            BY <4>1
          <6>2. upd_i - (base + 1) <= Cut(s, res, (segment + 1) - 1)
            BY <5>1, <5>3, <6>1
          <6> QED
            BY <1>2, <3>3, <5>2, <6>1, <6>2
        <5>9. inserts' = inserts \cup {new(fp')}
          BY <5>2, <5>8 DEF Emptied
        <5>10. InsertAt'
          <6>1. segment' \in 1..s /\ segment' - 1 = segment
            BY <1>1, <4>1, <5>2, <5>4
          <6>2. upd_i' - (base + 1) = Cut(s, res, segment) + 0 + 1
                /\ upd_i' - (base + 1) <= Cut(s, res, segment')
            BY <1>1, <1>2, <1>5, <5>1, <5>2, <5>3, <5>6
          <6> QED
            BY <1>9, <2>2, <5>2, <6>1, <6>2
        <5> QED
          BY <5>2, <5>7, <5>9, <5>10
      <4> QED
        BY <4>5, <4>6
    <3> QED
      BY <3>4, <3>5
  <2> QED
    BY <1>1, <2>1, <2>2
<1> QED
  BY <1>10 DEF n, base, s, res, new

\* What depends on the command line only.
LEMMA OpsStay ==
  ASSUME opt' = opt
  PROVE  /\ rowcnt' = rowcnt /\ FirstSet' = FirstSet
         /\ \A n : SetRows(n)' = SetRows(n) /\ KeysOf(n)' = KeysOf(n)
         /\ \A j, n : DeleteKey(j, n)' = DeleteKey(j, n)
         /\ \A r : RowFiled(r)' = RowFiled(r)
         /\ \A d, past : KeyFiled(d, past)' = KeyFiled(d, past)
<1>1. rowcnt' = rowcnt
  BY Constants
<1>2. \A n : SetRows(n)' = SetRows(n)
  BY <1>1 DEF SetRows
<1>3. \A j, n : DeleteKey(j, n)' = DeleteKey(j, n)
  BY DEF DeleteKey, DeleteSeq, SetsPerSeq
<1>4. \A n : KeysOf(n)' = KeysOf(n)
  BY <1>2, <1>3 DEF KeysOf
<1>5. \A s, long, file, j : InSegment(s, long, file, j)' = InSegment(s, long, file, j)
  BY <1>1 DEF InSegment, Cut, PerSegment
<1>6. ASSUME NEW r
      PROVE  RowFiled(r)' = RowFiled(r)
  BY <1>1, Zenon DEF RowFiled, SetRows, InsertSeq, SetsPerSeq, InSegment, Cut, PerSegment, Residual
<1>7. ASSUME NEW d, NEW past
      PROVE  KeyFiled(d, past)' = KeyFiled(d, past)
  BY <1>1, Zenon DEF KeyFiled, SetRows, DeleteKey, DeleteSeq, SetsPerSeq, LongDeletes, InSegment,
               Cut, PerSegment, Residual
<1> QED
  BY <1>1, <1>2, <1>3, <1>4, <1>6, <1>7 DEF FirstSet

LEMMA InitFiles == UpdateInit => FInv
<1> SUFFICES ASSUME UpdateInit PROVE Files
  BY DEF FInv
<1>1. IInv
  BY InitIInv
<1>2. FirstSet = upd_num + 1 /\ upd_num \in Nat
  BY <1>1, OptFiles, OptTypes, UpdateSetsAssumption DEF UpdateInit, FirstSet, UpdateCommand
<1>3. pc = "set" /\ inserts = {} /\ deletes = {} /\ Past = upd_num * rowcnt
  BY DEF UpdateInit, Past
<1>4. \A j \in SetRows(upd_num + 1) : ~(j <= Past)
  BY <1>1, <1>2, <1>3, OptTypes DEF SetRows
<1>5. \A n \in FirstSet..(upd_num + 1) : n = upd_num + 1
  BY <1>2
<1> QED
  BY <1>2, <1>3, <1>4, <1>5 DEF Files, InsertFiles, DeleteFiles

\* The rows of the set in hand.
LEMMA ThisSet ==
  ASSUME IInv
  PROVE  /\ SetRows(upd_num + 1) = (upd_num * rowcnt + 1)..(upd_num * rowcnt + rowcnt)
         /\ (upd_num + 1) - 1 = upd_num
         /\ \A n \in 1..(upd_num + 1) : \A j \in SetRows(n) :
              /\ j \in Nat
              /\ j > upd_num * rowcnt => n = upd_num + 1
              /\ n <= upd_num => j <= upd_num * rowcnt
<1>1. upd_num \in Nat /\ rowcnt \in Nat /\ upd_num * rowcnt \in Nat
      /\ (upd_num + 1) * rowcnt = upd_num * rowcnt + rowcnt
  BY OptTypes
<1>2. (upd_num + 1) - 1 = upd_num
  BY <1>1
<1>3. SetRows(upd_num + 1) = (upd_num * rowcnt + 1)..(upd_num * rowcnt + rowcnt)
  BY <1>1, <1>2 DEF SetRows
<1>4. ASSUME NEW n \in 1..(upd_num + 1), NEW j \in SetRows(n)
      PROVE  /\ j \in Nat
             /\ j > upd_num * rowcnt => n = upd_num + 1
             /\ n <= upd_num => j <= upd_num * rowcnt
  <2>1. n \in Nat \ {0} /\ (n - 1) * rowcnt \in Nat /\ n * rowcnt \in Nat
        /\ j > (n - 1) * rowcnt /\ j <= n * rowcnt /\ j \in Int
    BY <1>1, SetRowsFacts DEF SetRows
  <2>2. CASE n <= upd_num
    <3>1. n * rowcnt <= upd_num * rowcnt
      BY <1>1, <2>1, <2>2
    <3> QED
      BY <1>1, <2>1, <2>2, <3>1
  <2> QED
    BY <1>1, <2>1, <2>2
<1> QED
  BY <1>2, <1>3, <1>4

LEMMA InsertRowFiles ==
  ASSUME IInv, KInv, Files, opt.updates < Units, InsertRow
  PROVE  Files'
<1>1. /\ opt' = opt /\ upd_num' = upd_num /\ pc = "insert" /\ pc' = "insert" /\ upd_i' = upd_i + 1
      /\ deletes' = deletes /\ upd_count > 0
  BY DEF InsertRow
<1>2. /\ upd_i \in Int /\ upd_i >= upd_num * rowcnt + 1 /\ upd_i <= upd_num * rowcnt + rowcnt
      /\ Past = upd_i - 1 /\ Past' = upd_i
  <2>1. upd_count \in Nat /\ upd_i \in Int /\ upd_i + upd_count = upd_num * rowcnt + 1 + rowcnt
    BY <1>1 DEF IInv, Placed
  <2>2. upd_i >= upd_num * rowcnt + 1
    BY <1>1 DEF KInv, Keys
  <2> QED
    BY <1>1, <2>1, <2>2, OptTypes DEF Past
<1>3. PICK new :
        /\ new.i = upd_i /\ new.key = mk_sparse(upd_i, InsertSeq(upd_num + 1)) /\ new.file = fp'
        /\ inserts' = inserts \cup {new}
  BY RowInFile
<1>4. fp'[1] = upd_num + 1 /\ InsertAt'
      /\ InSegment(opt.insert_segments, Residual(opt.insert_segments), fp', upd_i - upd_num * rowcnt)
  BY RowInFile
<1>5. upd_i \in SetRows(upd_num + 1)
  BY <1>2, ThisSet, OptTypes
<1>6. RowFiled(new)
  BY <1>3, <1>4, <1>5, ThisSet DEF RowFiled
<1>7. FirstSet \in Nat /\ FirstSet >= 1 /\ FirstSet <= upd_num + 1 /\ upd_num \in Nat
  BY OptFiles, OptTypes DEF Files
<1>8. ASSUME NEW r \in inserts'
      PROVE  r.file[1] \in FirstSet..(upd_num + 1) /\ r.i <= upd_i /\ RowFiled(r)
  <2>1. CASE r \in inserts
    <3>1. r.file[1] \in FirstSet..(upd_num + 1) /\ r.i <= upd_i - 1 /\ RowFiled(r)
      BY <1>2, <2>1 DEF Files, InsertFiles
    <3>2. r.i \in Int
      BY <2>1 DEF IInv, At
    <3> QED
      BY <1>2, <3>1, <3>2
  <2>2. CASE r = new
    BY <1>2, <1>3, <1>4, <1>6, <1>7, <2>2
  <2> QED
    BY <1>3, <2>1, <2>2
<1>9. ASSUME NEW n \in FirstSet..(upd_num + 1), NEW j \in SetRows(n), j <= upd_i
      PROVE  \E r \in inserts' : r.file[1] = n /\ r.i = j
  <2>1. n \in 1..(upd_num + 1)
    BY <1>7
  <2>2. CASE j <= upd_i - 1
    BY <1>2, <1>3, <2>2 DEF Files, InsertFiles
  <2>3. CASE j = upd_i
    <3>1. n = upd_num + 1
      BY <1>2, <2>1, <2>3, ThisSet, OptTypes
    <3> QED
      BY <1>3, <1>4, <2>3, <3>1
  <2> QED
    BY <1>2, <1>9, <2>1, <2>2, <2>3, ThisSet
<1>10. InsertFiles'
  BY <1>1, <1>2, <1>4, <1>8, <1>9, OpsStay DEF InsertFiles
<1>11. DeleteFiles'
  <2>1. DeletedPast' = DeletedPast
    BY <1>1, OpsStay DEF DeletedPast
  <2>2. \A n : DeleteKeys(n)' = DeleteKeys(n)
    BY <1>1 DEF DeleteKeys, DeleteRows
  <2> QED
    BY <1>1, <2>1, <2>2, OpsStay DEF Files, DeleteFiles
<1> QED
  BY <1>1, <1>10, <1>11, OpsStay DEF Files

LEMMA StartSetFiles ==
  ASSUME IInv, Files, opt.updates < Units, StartSet
  PROVE  Files'
<1>1. /\ opt' = opt /\ upd_num' = upd_num /\ pc = "set" /\ pc' = "insert"
      /\ deletes' = deletes /\ inserts' = inserts /\ upd_num < opt.updates
      /\ upd_i' = upd_num * rowcnt + 1
  BY FirstRow, OptTypes DEF StartSet
<1>2. Past' = Past /\ DeletedPast' = DeletedPast
  BY <1>1, OpsStay, OptTypes DEF Past, DeletedPast
<1>3. InsertAt'
  BY <1>1, OpsStay DEF StartSet, InsertAt
<1>4. InsertFiles'
  BY <1>1, <1>2, <1>3, OpsStay DEF Files, InsertFiles
<1>5. \A n : DeleteKeys(n)' = DeleteKeys(n)
  BY <1>1 DEF DeleteKeys, DeleteRows
<1>6. DeleteFiles'
  BY <1>1, <1>2, <1>5, OpsStay DEF Files, DeleteFiles
<1> QED
  BY <1>1, <1>4, <1>6, OpsStay DEF Files

\* How many segments of the keys are long.
LEMMA DeleteCuts ==
  ASSUME IInv, opt.delete_segments > 0
  PROVE  /\ opt.delete_segments \in Nat \ {0} /\ LongDeletes \in Nat
         /\ PerSegment(opt.delete_segments) \in Nat
         /\ \A k \in Nat :
              /\ Cut(opt.delete_segments, LongDeletes, k) \in Nat
              /\ Cut(opt.delete_segments, LongDeletes, k + 1)
                   = Cut(opt.delete_segments, LongDeletes, k) + PerSegment(opt.delete_segments)
                       + (IF k < LongDeletes THEN 1 ELSE 0)
         /\ Cut(opt.delete_segments, LongDeletes, 0) = 0
         /\ Cut(opt.delete_segments, LongDeletes, opt.delete_segments) >= rowcnt
<1> DEFINE s == opt.delete_segments
<1>1. s \in Nat \ {0} /\ rowcnt \in Nat /\ opt.newer \in BOOLEAN
  BY OptFiles, OptTypes
<1>2. LongDeletes = IF opt.newer THEN s ELSE Residual(s)
  BY DEF LongDeletes
<1> HIDE DEF s
<1>3. PerSegment(s) \in Nat /\ Residual(s) \in 0..(s - 1)
      /\ Cut(s, Residual(s), s) = rowcnt /\ Cut(s, s, s) >= rowcnt
  BY <1>1, CutFacts
<1>4. LongDeletes \in Nat
  BY <1>1, <1>2, <1>3
<1>5. Cut(s, LongDeletes, s) >= rowcnt
  BY <1>1, <1>2, <1>3
<1>6. /\ Cut(s, LongDeletes, 0) = 0
      /\ \A k \in Nat :
           /\ Cut(s, LongDeletes, k) \in Nat
           /\ Cut(s, LongDeletes, k + 1)
                = Cut(s, LongDeletes, k) + PerSegment(s) + (IF k < LongDeletes THEN 1 ELSE 0)
  BY <1>1, <1>4, CutFacts
<1> QED
  BY <1>1, <1>3, <1>4, <1>5, <1>6 DEF s

\* What the counters of pr_drange say after a step.
LEMMA DeleteAtNext ==
  ASSUME IInv, opt' = opt, upd_num' = upd_num
  PROVE  DeleteAt' <=>
           /\ upd_i' \in Int /\ upd_i' >= upd_num * rowcnt + 1
           /\ upd_i' + upd_count' = upd_num * rowcnt + 1 + rowcnt
           /\ upd_start' \in Int /\ upd_last' \in Int /\ upd_start' <= upd_last' + 1
           /\ opt.delete_segments = 0 => fp' = <<upd_num + 1, 0>>
           /\ opt.delete_segments > 0 =>
                /\ segment' \in 1..opt.delete_segments /\ fp' = <<upd_num + 1, segment'>>
                /\ rows_this_segment' \in Nat
                /\ ~opt.gen_sql /\ ~opt.gen_rng =>
                     /\ upd_i' - (upd_num * rowcnt + 1)
                          = Cut(opt.delete_segments, LongDeletes, segment' - 1)
                              + rows_this_segment'
                     /\ upd_i' - (upd_num * rowcnt + 1)
                          <= Cut(opt.delete_segments, LongDeletes, segment')
<1>1. rowcnt' = rowcnt /\ LongDeletes' = LongDeletes
  BY Constants DEF LongDeletes, Residual
<1>2. Cut(opt.delete_segments, LongDeletes, segment - 1)'
        = Cut(opt.delete_segments, LongDeletes, segment' - 1)
      /\ Cut(opt.delete_segments, LongDeletes, segment)'
        = Cut(opt.delete_segments, LongDeletes, segment')
  BY <1>1 DEF Cut, PerSegment
<1> QED
  BY <1>1, <1>2, Zenon DEF DeleteAt

LEMMA MKType == \A k \in Nat, q \in Nat : MK_SPARSE(k, q) \in Nat
BY DEF MK_SPARSE, LOW, SEQ

LEMMA DeleteSeqType ==
  ASSUME IInv, NEW n \in Nat \ {0}, opt.refresh <= Units
  PROVE  DeleteSeq(n) \in Nat
<1>1. SetsPerSeq \in Nat \ {0}
  <2>1. opt.refresh \in Nat \ {0} /\ Units \in Nat \ {0}
    BY UpdateSetsAssumption DEF IInv, Placed, UpdateCommand
  <2>2. Units = opt.refresh * SetsPerSeq + (Units % opt.refresh) /\ Units % opt.refresh < opt.refresh
        /\ SetsPerSeq \in Nat /\ Units % opt.refresh \in Nat
    BY <2>1, DivMod DEF SetsPerSeq
  <2>3. CASE SetsPerSeq = 0
    BY <2>1, <2>2, <2>3
  <2> QED
    BY <2>2, <2>3
<1>2. \A m \in Nat : m \div SetsPerSeq \in Nat
  BY <1>1, DivMod
<1>3. n \in Nat /\ n - 1 \in Nat
  OBVIOUS
<1> QED
  BY <1>2, <1>3 DEF DeleteSeq

LEMMA RefreshWithin == ASSUME IInv PROVE opt.refresh <= Units
BY UpdateSetsAssumption DEF IInv, Placed

\* Keys are numbers.
LEMMA KeyType ==
  ASSUME IInv, NEW n \in Nat \ {0}, NEW j \in Nat
  PROVE  DeleteKey(j, n) \in Nat
BY DeleteSeqType, RefreshWithin, MKType DEF DeleteKey

LEMMA StartDeleteFiles ==
  ASSUME IInv, Files, opt.updates < Units, StartDelete
  PROVE  Files'
<1> DEFINE n == upd_num + 1
           base == upd_num * rowcnt
<1>1. /\ opt' = opt /\ upd_num' = upd_num /\ pc = "insert" /\ pc' = "delete"
      /\ inserts' = inserts /\ upd_i' = base + 1 /\ upd_count' = rowcnt /\ upd_num < opt.updates
      /\ segment' = (IF opt.delete_segments > 0 THEN 1 ELSE 0)
      /\ fp' = DeleteFile(n, 1) /\ deletes' = Emptied(deletes, fp') /\ rows_this_segment' = 0
      /\ upd_start' = DeleteKey(base + 1, n) /\ upd_last' = upd_start' - 1
  BY FirstRow, OptTypes DEF StartDelete, DeleteKey, Files
<1>2. /\ base \in Nat /\ rowcnt \in Nat /\ upd_num \in Nat /\ n \in Nat \ {0} /\ n < Units
      /\ Units \in Nat \ {0} /\ FirstSet \in Nat
      /\ opt.delete_segments \in Nat /\ opt.updates \in Nat
  BY <1>1, OptTypes, OptFiles
<1>3. upd_i \in Int /\ upd_i = base + rowcnt + 1
  <2>1. upd_i \in Int /\ upd_i + 0 = base + 1 + rowcnt
    BY <1>1 DEF IInv, Placed, StartDelete
  <2> QED
    BY <1>2, <2>1
<1>4. Past' = Past /\ DeletedPast' = DeletedPast
  BY <1>1, <1>2, <1>3, OpsStay DEF Past, DeletedPast
<1>5. fp' = IF opt.delete_segments > 0 THEN <<n, 1>> ELSE <<n, 0>>
  <2>1. n % Units = n
    BY <1>2
  <2> QED
    BY <1>1, <2>1 DEF DeleteFile
<1>6. \A d \in deletes : d.file[1] \in FirstSet..upd_num
  BY <1>1 DEF Files, DeleteFiles
<1>7. deletes' = deletes
  <2>1. \A d \in deletes : d.file # fp'
    BY <1>2, <1>5, <1>6
  <2> QED
    BY <1>1, <2>1 DEF Emptied
<1>8. \A m : DeleteKeys(m)' = DeleteKeys(m)
  BY <1>7 DEF DeleteKeys, DeleteRows
<1>9. DeleteKeys(n) = {}
  BY <1>2, <1>6 DEF DeleteKeys, DeleteRows
<1>10. upd_start' \in Int /\ upd_last' \in Int /\ upd_start' <= upd_last' + 1 /\ upd_start' > upd_last'
  <2>1. n \in Nat \ {0} /\ base + 1 \in Nat
    BY <1>2
  <2>2. DeleteKey(base + 1, n) \in Nat
    BY <2>1, KeyType
  <2>3. upd_start' \in Nat /\ upd_last' = upd_start' - 1
    BY <1>1, <2>2
  <2>4. \A x \in Nat : \A y : y = x - 1 => x \in Int /\ y \in Int /\ x <= y + 1 /\ x > y
    OBVIOUS
  <2> QED
    BY <2>3, <2>4
<1>11. DeleteAt'
  <2>1. CASE opt.delete_segments = 0
    BY <1>1, <1>2, <1>5, <1>10, <2>1, DeleteAtNext
  <2>2. CASE opt.delete_segments > 0
    <3>1. Cut(opt.delete_segments, LongDeletes, 0) = 0
          /\ Cut(opt.delete_segments, LongDeletes, 1) \in Nat
      BY <2>2, DeleteCuts
    <3>2. segment' = 1 /\ segment' - 1 = 0 /\ fp' = <<n, segment'>> /\ rows_this_segment' = 0
      BY <1>1, <1>5, <2>2
    <3>3. upd_i' - (base + 1) = 0 + 0 /\ upd_i' \in Int /\ upd_i' >= base + 1 /\ upd_i' + upd_count' = base + 1 + rowcnt
      BY <1>1, <1>2
    <3> QED
      BY <1>1, <1>2, <1>10, <2>2, <3>1, <3>2, <3>3, DeleteAtNext
  <2> QED
    BY <1>2, <2>1, <2>2
<1>12. (DeleteKeys(upd_num + 1) \cup Open)'
         = {DeleteKey(j, upd_num + 1) : j \in (upd_num * rowcnt + 1)..(upd_i - 1)}'
  <2>1. Open' = {}
    BY <1>10 DEF Open
  <2>2. (base + 1)..(upd_i' - 1) = {}
    BY <1>1, <1>2
  <2>3. DeleteKeys(upd_num + 1)' = {}
    <3>1. \A d \in deletes' : d.file[1] # upd_num' + 1
      BY <1>1, <1>2, <1>6, <1>7
    <3> QED
      BY <3>1 DEF DeleteKeys, DeleteRows
  <2>4. {DeleteKey(j, upd_num + 1) : j \in (upd_num * rowcnt + 1)..(upd_i - 1)}' = {}
    BY <1>1, <2>2, OpsStay
  <2> QED
    BY <2>1, <2>3, <2>4
<1>13. InsertFiles'
  BY <1>1, <1>4, OpsStay DEF Files, InsertFiles
<1>14. DeleteFiles'
  <2>1. \A d \in deletes' : d.file[1] \in FirstSet'..(upd_num' + 1)
    BY <1>1, <1>2, <1>6, <1>7, OpsStay
  <2> QED
    BY <1>1, <1>2, <1>4, <1>7, <1>8, <1>11, <1>12, <2>1, OpsStay DEF Files, DeleteFiles
<1> QED
  BY <1>1, <1>13, <1>14, OpsStay DEF Files

\* pr_drange at a row: the set, its rows and the key.
LEMMA AtKey ==
  ASSUME IInv, Files, opt.updates < Units, DeleteRow
  PROVE  /\ pc = "delete" /\ opt' = opt /\ upd_num' = upd_num /\ pc' = pc
         /\ upd_i' = upd_i + 1 /\ upd_count' = upd_count - 1 /\ inserts' = inserts
         /\ upd_num + 1 \in Nat \ {0} /\ upd_num + 1 < Units
         /\ DeleteAt
         /\ upd_i \in Nat /\ upd_i >= upd_num * rowcnt + 1 /\ upd_i <= upd_num * rowcnt + rowcnt
         /\ upd_i' \in Int /\ upd_i' >= upd_num * rowcnt + 1
         /\ upd_i' + upd_count' = upd_num * rowcnt + 1 + rowcnt
         /\ DeleteKey(upd_i, upd_num + 1) \in Nat
         /\ \/ ExtendRange(DeleteKey(upd_i, upd_num + 1))
            \/ CloseRange(DeleteKey(upd_i, upd_num + 1))
            \/ PrintKey(DeleteKey(upd_i, upd_num + 1))
<1>1. /\ pc = "delete" /\ opt' = opt /\ upd_num' = upd_num /\ pc' = pc
      /\ upd_i' = upd_i + 1 /\ upd_count' = upd_count - 1 /\ inserts' = inserts
      /\ \/ ExtendRange(DeleteKey(upd_i, upd_num + 1))
         \/ CloseRange(DeleteKey(upd_i, upd_num + 1))
         \/ PrintKey(DeleteKey(upd_i, upd_num + 1))
  BY DEF DeleteRow, DeleteKey
<1>2. /\ DeleteAt /\ upd_num < opt.updates /\ upd_count \in Nat /\ upd_count > 0
  BY <1>1 DEF Files, DeleteFiles, DeleteRow, IInv, Placed
<1>3. upd_num + 1 \in Nat \ {0} /\ upd_num + 1 < Units
  BY <1>2, OptTypes
<1>4. /\ upd_i \in Nat /\ upd_i >= upd_num * rowcnt + 1 /\ upd_i <= upd_num * rowcnt + rowcnt
      /\ upd_i' \in Int /\ upd_i' >= upd_num * rowcnt + 1
      /\ upd_i' + upd_count' = upd_num * rowcnt + 1 + rowcnt
  BY <1>1, <1>2, OptTypes DEF DeleteAt
<1>5. DeleteKey(upd_i, upd_num + 1) \in Nat
  BY <1>3, <1>4, KeyType
<1> QED
  BY <1>1, <1>2, <1>3, <1>4, <1>5

\* A key is printed into the file of its segment, which is opened, empty, for the first of them.
LEMMA KeyInFile ==
  ASSUME IInv, Files, opt.updates < Units, DeleteRow,
         PrintKey(DeleteKey(upd_i, upd_num + 1))
  PROVE  /\ DeleteAt'
         /\ fp'[1] = upd_num + 1
         /\ InSegment(opt.delete_segments, LongDeletes, fp', upd_i - upd_num * rowcnt)
         /\ deletes' = deletes \cup
              {Deleted(DeleteKey(upd_i, upd_num + 1), DeleteKey(upd_i, upd_num + 1), fp')}
<1> DEFINE n == upd_num + 1
           base == upd_num * rowcnt
           s == opt.delete_segments
           new == DeleteKey(upd_i, n)
<1>1. /\ s \in Nat /\ base \in Nat /\ n \in Nat \ {0} /\ n < Units /\ rowcnt \in Nat
      /\ Units \in Nat \ {0} /\ upd_num \in Nat
      /\ pc = "delete" /\ opt' = opt /\ upd_num' = upd_num
      /\ upd_i \in Nat /\ upd_i >= base + 1 /\ upd_i <= base + rowcnt /\ rowcnt >= 1
      /\ upd_i' = upd_i + 1 /\ upd_i' \in Int /\ upd_i' >= base + 1 /\ upd_i' + upd_count' = base + 1 + rowcnt
      /\ new \in Nat
  BY AtKey, OptTypes, OptFiles
<1>2. /\ ~opt.gen_sql /\ ~opt.gen_rng /\ upd_start' = new /\ upd_last' = new
      /\ segment' = (IF NextDeleteSegment THEN segment + 1 ELSE segment)
      /\ fp' = (IF NextDeleteSegment THEN DeleteFile(n, segment') ELSE fp)
      /\ rows_this_segment' = (IF s = 0 THEN 0
                               ELSE IF NextDeleteSegment THEN 1 ELSE rows_this_segment + 1)
      /\ deletes' = (IF NextDeleteSegment THEN Emptied(deletes, fp') ELSE deletes)
                       \cup {Deleted(new, new, fp')}
  BY DEF PrintKey
<1>3. upd_start' \in Int /\ upd_last' \in Int /\ upd_start' <= upd_last' + 1
  BY <1>1, <1>2
<1>4. /\ s = 0 => fp = <<n, 0>>
      /\ s > 0 =>
           /\ segment \in 1..s /\ fp = <<n, segment>> /\ rows_this_segment \in Nat
           /\ upd_i - (base + 1) = Cut(s, LongDeletes, segment - 1) + rows_this_segment
           /\ upd_i - (base + 1) <= Cut(s, LongDeletes, segment)
  BY <1>2, AtKey DEF DeleteAt
<1>5. \A d \in deletes : d.file[1] = n =>
         \E j \in Nat : j <= upd_i - 1 /\ InSegment(s, LongDeletes, d.file, j - base)
  <2>1. \A d \in deletes : KeyFiled(d, upd_i - 1)
    BY <1>1, <1>2 DEF Files, DeleteFiles, DeletedPast
  <2>2. \A j \in SetRows(n) : j \in Nat
    BY <1>1, ThisSet
  <2>3. n - 1 = upd_num
    BY <1>1
  <2> HIDE DEF n
  <2> SUFFICES ASSUME NEW d \in deletes, d.file[1] = n
               PROVE  \E j \in Nat : j <= upd_i - 1 /\ InSegment(s, LongDeletes, d.file, j - base)
    OBVIOUS
  <2>4. PICK j \in SetRows(n) :
          j <= upd_i - 1 /\ InSegment(s, LongDeletes, d.file, j - (n - 1) * rowcnt)
    BY <2>1 DEF KeyFiled
  <2> QED
    BY <2>2, <2>3, <2>4
<1> HIDE DEF new
<1>6. DeleteAt' <=>
        /\ s = 0 => fp' = <<n, 0>>
        /\ s > 0 =>
             /\ segment' \in 1..s /\ fp' = <<n, segment'>> /\ rows_this_segment' \in Nat
             /\ upd_i' - (base + 1) = Cut(s, LongDeletes, segment' - 1) + rows_this_segment'
             /\ upd_i' - (base + 1) <= Cut(s, LongDeletes, segment')
  BY <1>1, <1>2, <1>3, DeleteAtNext, Zenon
<1>7. DeleteAt' /\ fp'[1] = n /\ InSegment(s, LongDeletes, fp', upd_i - base)
      /\ deletes' = deletes \cup {Deleted(new, new, fp')}
  <2>1. CASE s = 0
    <3>1. ~NextDeleteSegment
      BY <2>1 DEF NextDeleteSegment
    <3>2. fp' = <<n, 0>> /\ deletes' = deletes \cup {Deleted(new, new, fp')}
      BY <1>2, <1>4, <2>1, <3>1
    <3>3. InSegment(s, LongDeletes, fp', upd_i - base)
      BY <2>1, <3>2 DEF InSegment
    <3>4. DeleteAt'
      BY <1>6, <2>1, <3>2
    <3> QED
      BY <3>2, <3>3, <3>4
  <2>2. CASE s > 0
    <3> DEFINE p == PerSegment(s)
               long == LongDeletes
               g == segment - 1
               len == p + (IF g < long THEN 1 ELSE 0)
    <3>1. /\ segment \in 1..s /\ fp = <<n, segment>> /\ rows_this_segment \in Nat
          /\ g \in Nat /\ segment = g + 1 /\ segment \in Nat /\ segment + 1 \in Nat
      BY <1>1, <1>4, <2>2
    <3>2. /\ s \in Nat \ {0} /\ p \in Nat /\ long \in Nat
          /\ long = (IF opt.newer THEN s ELSE Residual(s))
          /\ \A k \in Nat :
               /\ Cut(s, long, k) \in Nat
               /\ Cut(s, long, k + 1) = Cut(s, long, k) + p + (IF k < long THEN 1 ELSE 0)
          /\ Cut(s, long, s) >= rowcnt
      BY <2>2, DeleteCuts DEF LongDeletes
    <3>3. NextDeleteSegment <=> rows_this_segment >= len
      <4>1. NextDeleteSegment <=>
              IF opt.newer \/ segment <= Residual(s) THEN rows_this_segment + 1 > p + 1
                                                     ELSE rows_this_segment + 1 >= p + 1
        BY <2>2 DEF NextDeleteSegment
      <4>2. (opt.newer \/ segment <= Residual(s)) <=> g < long
        <5>1. Residual(s) \in 0..(s - 1)
          BY <1>1, <3>2, CutFacts
        <5> QED
          BY <3>1, <3>2, <5>1
      <4> QED
        BY <3>1, <3>2, <4>1, <4>2
    <3> HIDE DEF p, long, g
    <3>4. /\ upd_i - (base + 1) = Cut(s, long, g) + rows_this_segment
          /\ upd_i - (base + 1) <= Cut(s, long, segment)
          /\ Cut(s, long, segment) = Cut(s, long, g) + len
          /\ Cut(s, long, segment + 1)
               = Cut(s, long, segment) + p + (IF segment < long THEN 1 ELSE 0)
          /\ Cut(s, long, g) \in Nat /\ Cut(s, long, segment) \in Nat
          /\ Cut(s, long, segment + 1) \in Nat /\ len \in Nat
      <4>1. /\ upd_i - (base + 1) = Cut(s, long, g) + rows_this_segment
            /\ upd_i - (base + 1) <= Cut(s, long, segment)
        BY <1>4, <2>2 DEF g, long
      <4>2. /\ Cut(s, long, g + 1) = Cut(s, long, g) + p + (IF g < long THEN 1 ELSE 0)
            /\ Cut(s, long, g) \in Nat /\ Cut(s, long, g + 1) \in Nat
        BY <3>1, <3>2
      <4>3. Cut(s, long, segment) = Cut(s, long, g + 1)
        BY <3>1
      <4>4. /\ Cut(s, long, segment + 1)
                 = Cut(s, long, segment) + p + (IF segment < long THEN 1 ELSE 0)
            /\ Cut(s, long, segment + 1) \in Nat
        BY <3>1, <3>2
      <4>5. len \in Nat
        BY <3>1, <3>2
      <4> QED
        BY <3>1, <3>2, <4>1, <4>2, <4>3, <4>4, <4>5
    <3> HIDE DEF len
    <3>5. DeleteAt' <=>
            /\ segment' \in 1..s /\ fp' = <<n, segment'>> /\ rows_this_segment' \in Nat
            /\ upd_i' - (base + 1) = Cut(s, long, segment' - 1) + rows_this_segment'
            /\ upd_i' - (base + 1) <= Cut(s, long, segment')
      <4>1. s > 0 /\ ~(s = 0)
        BY <1>1, <2>2
      <4> QED
        BY <1>6, <4>1, Zenon DEF long
    <3>6. InSegment(s, long, fp', upd_i - base) <=>
            fp'[2] \in 1..s /\ Cut(s, long, fp'[2] - 1) < upd_i - base
            /\ upd_i - base <= Cut(s, long, fp'[2])
      <4>1. ~(s = 0)
        BY <1>1, <2>2
      <4> QED
        BY <4>1 DEF InSegment
    <3>7. CASE ~NextDeleteSegment
      <4>1. /\ segment' = segment /\ fp' = <<n, segment>>
            /\ rows_this_segment' = rows_this_segment + 1
            /\ deletes' = deletes \cup {Deleted(new, new, fp')}
        BY <1>2, <2>2, <3>1, <3>7
      <4>2. rows_this_segment < len
        BY <3>1, <3>3, <3>4, <3>7
      <4>3. /\ upd_i - base = Cut(s, long, g) + (rows_this_segment + 1)
            /\ upd_i - base <= Cut(s, long, segment) /\ Cut(s, long, g) < upd_i - base
        BY <1>1, <3>1, <3>4, <4>2
      <4>4. segment' - 1 = g /\ fp'[2] = segment /\ fp'[2] - 1 = g /\ upd_i' - (base + 1) = upd_i - base
        BY <1>1, <3>1, <4>1
      <4>5. DeleteAt'
        BY <3>1, <3>5, <4>1, <4>3, <4>4
      <4>6. InSegment(s, long, fp', upd_i - base)
        BY <3>1, <3>6, <4>3, <4>4
      <4> QED
        BY <4>1, <4>5, <4>6 DEF long
    <3>8. CASE NextDeleteSegment
      <4>1. upd_i - (base + 1) = Cut(s, long, segment)
        BY <1>1, <3>1, <3>3, <3>4, <3>8
      <4>2. segment < s
        <5>1. Cut(s, long, segment) < rowcnt
          BY <1>1, <3>4, <4>1
        <5> QED
          BY <1>1, <3>1, <3>2, <3>4, <5>1
      <4>3. n % Units = n
        BY <1>1
      <4>4. /\ segment' = segment + 1 /\ fp' = <<n, segment + 1>> /\ rows_this_segment' = 1
            /\ deletes' = Emptied(deletes, fp') \cup {Deleted(new, new, fp')}
        BY <1>2, <2>2, <3>8, <4>3 DEF DeleteFile
      <4>5. p = 0 => segment < long
        <5>1. CASE p = 0 /\ segment >= long
          <6>1. ~opt.newer /\ long = Residual(s)
            BY <3>1, <3>2, <4>2, <5>1
          <6>2. Cut(s, long, segment) = segment * p + long
            BY <3>1, <3>2, <5>1 DEF Cut, Spread, p
          <6>3. rowcnt = s * p + Residual(s)
            BY <1>1, <3>2, DivMod DEF p, PerSegment, Residual
          <6> QED
            BY <1>1, <3>1, <3>2, <4>1, <5>1, <6>1, <6>2, <6>3
        <5> QED
          BY <3>1, <3>2, <5>1
      <4>6. Cut(s, long, segment + 1) >= Cut(s, long, segment) + 1
        BY <3>1, <3>2, <3>4, <4>5
      <4>7. segment' - 1 = segment /\ fp'[2] = segment + 1 /\ fp'[2] - 1 = segment
            /\ upd_i' - (base + 1) = upd_i - base /\ upd_i - base = Cut(s, long, segment) + 1
        BY <1>1, <3>1, <4>1, <4>4
      <4>8. DeleteAt'
        BY <3>1, <3>2, <3>4, <3>5, <4>2, <4>4, <4>6, <4>7
      <4>9. InSegment(s, long, fp', upd_i - base)
        BY <3>1, <3>2, <3>4, <3>6, <4>2, <4>6, <4>7
      <4>10. \A d \in deletes : d.file # fp'
        <5> SUFFICES ASSUME NEW d \in deletes, d.file = fp' PROVE FALSE
          OBVIOUS
        <5>1. d.file[1] = n
          BY <4>4
        <5>2. PICK j \in Nat : j <= upd_i - 1 /\ InSegment(s, long, d.file, j - base)
          BY <1>5, <5>1 DEF long
        <5>3. Cut(s, long, d.file[2] - 1) < j - base
          BY <1>1, <2>2, <5>2 DEF InSegment
        <5>4. Cut(s, long, segment) < j - base
          BY <4>7, <5>3
        <5> QED
          BY <1>1, <3>4, <4>7, <5>2, <5>4
      <4>11. deletes' = deletes \cup {Deleted(new, new, fp')}
        BY <4>4, <4>10 DEF Emptied
      <4> QED
        BY <4>4, <4>8, <4>9, <4>11 DEF long
    <3> QED
      BY <3>7, <3>8
  <2> QED
    BY <1>1, <2>1, <2>2
<1> QED
  BY <1>7 DEF n, base, s, new

\* The keys of a set in some files.
KeysIn(files, n) == UNION {d.lo..d.hi : d \in {e \in files : e.file[1] = n}}

LEMMA MoreKeys ==
  ASSUME NEW files, NEW lo \in Int, NEW hi \in Int, NEW file, NEW n, file[1] = n,
         NEW more, more = files \cup {Deleted(lo, hi, file)}
  PROVE  /\ KeysIn(more, n) = KeysIn(files, n) \cup lo..hi
         /\ \A m : m # n => KeysIn(more, m) = KeysIn(files, m)
<1>1. /\ Deleted(lo, hi, file).file = file /\ Deleted(lo, hi, file).lo = lo
      /\ Deleted(lo, hi, file).hi = hi
  BY DEF Deleted
<1> QED
  BY <1>1 DEF KeysIn

LEMMA KeysInFiles == \A n : DeleteKeys(n) = KeysIn(deletes, n)
BY DEF DeleteKeys, DeleteRows, KeysIn

\* What the files of the keys say after a step.
LEMMA DeleteFilesNext ==
  ASSUME opt' = opt,
         pc' = "delete" =>
           /\ DeleteAt'
           /\ KeysIn(deletes', upd_num' + 1) \cup Open'
                = {DeleteKey(j, upd_num' + 1) : j \in (upd_num' * rowcnt + 1)..(upd_i' - 1)},
         \A d \in deletes' :
           /\ d.file[1] \in FirstSet..(IF pc' = "delete" THEN upd_num' + 1 ELSE upd_num')
           /\ ~opt.gen_sql /\ ~opt.gen_rng => KeyFiled(d, DeletedPast'),
         \A n \in FirstSet..upd_num' :
           /\ KeysIn(deletes', n) \subseteq KeysOf(n)
           /\ (opt.gen_sql => opt.gen_rng) => KeysOf(n) \subseteq KeysIn(deletes', n)
  PROVE  DeleteFiles'
<1>1. \A d : KeyFiled(d, DeletedPast)' = KeyFiled(d, DeletedPast')
  BY OpsStay, ZenonT(60) DEF KeyFiled, SetRows, DeleteKey, DeleteSeq, SetsPerSeq, LongDeletes, InSegment,
                        Cut, PerSegment, Residual
<1>2. \A j : DeleteKey(j, upd_num + 1)' = DeleteKey(j, upd_num' + 1)
  BY OpsStay, Zenon DEF DeleteKey, DeleteSeq, SetsPerSeq
<1>3. DeleteKeys(upd_num + 1)' = KeysIn(deletes', upd_num' + 1)
      /\ \A n : DeleteKeys(n)' = KeysIn(deletes', n)
  BY DEF DeleteKeys, DeleteRows, KeysIn
<1>4. /\ rowcnt' = rowcnt /\ FirstSet' = FirstSet /\ \A n : KeysOf(n)' = KeysOf(n)
  BY OpsStay
<1> QED
  BY <1>1, <1>2, <1>3, <1>4, Zenon DEF DeleteFiles

\* The files of the orders, when none is added.
LEMMA InsertFilesStay ==
  ASSUME IInv, Files, opt' = opt, upd_num' = upd_num, inserts' = inserts, Past' = Past,
         pc' # "insert"
  PROVE  InsertFiles'
BY OpsStay DEF Files, InsertFiles

LEMMA KeyFiledLater ==
  ASSUME NEW d, NEW past \in Int, NEW later \in Int, past <= later, KeyFiled(d, past),
         \A j \in SetRows(d.file[1]) : j \in Int
  PROVE  KeyFiled(d, later)
BY DEF KeyFiled

LEMMA DeleteRowFiles ==
  ASSUME IInv, Files, opt.updates < Units, DeleteRow
  PROVE  Files'
<1> DEFINE n == upd_num + 1
           base == upd_num * rowcnt
           new == DeleteKey(upd_i, n)
<1>1. /\ pc = "delete" /\ pc' = "delete" /\ opt' = opt /\ upd_num' = upd_num
      /\ inserts' = inserts /\ n \in Nat \ {0} /\ upd_num \in Nat /\ base \in Nat
      /\ upd_i \in Nat /\ upd_i >= base + 1 /\ upd_i <= base + rowcnt /\ upd_i' = upd_i + 1
      /\ upd_i' \in Int /\ upd_i' >= base + 1 /\ upd_i' + upd_count' = base + 1 + rowcnt
      /\ new \in Nat /\ DeleteAt /\ rowcnt \in Nat
      /\ opt.gen_sql \in BOOLEAN /\ opt.gen_rng \in BOOLEAN
      /\ FirstSet \in Nat /\ FirstSet >= 1 /\ FirstSet <= n
  BY AtKey, OptTypes, OptFiles DEF Files
<1>2. Past' = Past /\ DeletedPast = upd_i - 1 /\ DeletedPast' = upd_i
  BY <1>1, OpsStay DEF Past, DeletedPast
<1>3. fp[1] = n /\ upd_start \in Int /\ upd_last \in Int /\ upd_start <= upd_last + 1
  BY <1>1, OptFiles DEF DeleteAt
<1>4. KeysIn(deletes, n) \cup Open = {DeleteKey(j, n) : j \in (base + 1)..(upd_i - 1)}
  BY <1>1, KeysInFiles DEF Files, DeleteFiles
<1>5. {DeleteKey(j, n) : j \in (base + 1)..(upd_i' - 1)}
        = {DeleteKey(j, n) : j \in (base + 1)..(upd_i - 1)} \cup {new}
  <2>1. (base + 1)..(upd_i' - 1) = (base + 1)..(upd_i - 1) \cup {upd_i}
    BY <1>1
  <2> QED
    BY <2>1
\* One of three things happens to the files of the keys.
<1>6. /\ DeleteAt'
      /\ KeysIn(deletes', n) \cup Open' = KeysIn(deletes, n) \cup Open \cup {new}
      /\ \A m : m # n => KeysIn(deletes', m) = KeysIn(deletes, m)
      /\ \A d \in deletes' \ deletes :
           /\ d.file[1] = n
           /\ ~opt.gen_sql /\ ~opt.gen_rng => KeyFiled(d, upd_i)
  <2>1. CASE ExtendRange(new)
    <3>1. opt.gen_rng /\ new = upd_last + 1 /\ upd_last' = new
          /\ UNCHANGED <<upd_start, deletes, segment, fp, rows_this_segment>>
      BY <2>1 DEF ExtendRange
    <3>2. DeleteAt'
      BY <1>1, <1>3, <3>1, DeleteAtNext DEF DeleteAt
    <3>3. Open = upd_start..upd_last /\ Open' = upd_start..(upd_last + 1) /\ upd_last + 1 = new
      BY <1>1, <3>1 DEF Open
    <3>4. upd_start..(upd_last + 1) = upd_start..upd_last \cup {upd_last + 1}
      BY <1>3
    <3> QED
      BY <3>1, <3>2, <3>3, <3>4
  <2>2. CASE CloseRange(new)
    <3>1. (opt.gen_sql \/ opt.gen_rng) /\ upd_start' = new /\ upd_last' = new
          /\ deletes' = deletes \cup {Deleted(upd_start, upd_last, fp)}
          /\ UNCHANGED <<segment, fp, rows_this_segment>>
      BY <2>2 DEF CloseRange
    <3>2. DeleteAt'
      BY <1>1, <1>3, <3>1, DeleteAtNext DEF DeleteAt
    <3>3. Open = upd_start..upd_last /\ Open' = {new}
      BY <1>1, <3>1 DEF Open
    <3>4. KeysIn(deletes', n) = KeysIn(deletes, n) \cup upd_start..upd_last
          /\ \A m : m # n => KeysIn(deletes', m) = KeysIn(deletes, m)
      <4>1. deletes' = deletes \cup {Deleted(upd_start, upd_last, fp)} /\ fp[1] = n
        BY <1>3, <3>1
      <4>2. upd_start \in Int /\ upd_last \in Int
        BY <1>3
      <4> HIDE DEF n, new
      <4>3. KeysIn(deletes', n) = KeysIn(deletes, n) \cup upd_start..upd_last
        BY <4>1, <4>2, MoreKeys
      <4>4. \A m : m # n => KeysIn(deletes', m) = KeysIn(deletes, m)
        BY <4>1, <4>2, MoreKeys
      <4> QED
        BY <4>3, <4>4
    <3>5. \A d \in deletes' \ deletes : d.file[1] = n
      BY <1>3, <3>1 DEF Deleted
    <3> QED
      BY <3>1, <3>2, <3>3, <3>4, <3>5
  <2>3. CASE PrintKey(new)
    <3>1. ~opt.gen_sql /\ ~opt.gen_rng
      BY <2>3 DEF PrintKey
    <3>2. /\ DeleteAt' /\ fp'[1] = n
          /\ InSegment(opt.delete_segments, LongDeletes, fp', upd_i - base)
          /\ deletes' = deletes \cup {Deleted(new, new, fp')}
      BY <2>3, KeyInFile
    <3>3. Open = {} /\ Open' = {}
      BY <1>1, <3>1 DEF Open
    <3>4. KeysIn(deletes', n) = KeysIn(deletes, n) \cup new..new
          /\ \A m : m # n => KeysIn(deletes', m) = KeysIn(deletes, m)
      <4>1. deletes' = deletes \cup {Deleted(new, new, fp')} /\ fp'[1] = n
        BY <3>2
      <4>2. new \in Int
        BY <1>1
      <4> HIDE DEF n, new
      <4> QED
        BY <4>1, <4>2, MoreKeys
    <3>5. new..new = {new}
      BY <1>1
    <3>6. ASSUME NEW d \in deletes' \ deletes
          PROVE  d.file[1] = n /\ KeyFiled(d, upd_i)
      <4>1. d = Deleted(new, new, fp') /\ d.file = fp'
        BY <3>2 DEF Deleted
      <4>2. upd_i \in SetRows(n) /\ n - 1 = upd_num
        BY <1>1, ThisSet
      <4>3. d.file[1] = n
        BY <3>2, <4>1
      <4>4. InSegment(opt.delete_segments, LongDeletes, d.file, upd_i - (n - 1) * rowcnt)
        BY <3>2, <4>1, <4>2
      <4>5. d = Deleted(DeleteKey(upd_i, n), DeleteKey(upd_i, n), d.file)
        BY <4>1
      <4>6. d.file = <<d.file[1], d.file[2]>>
        <5>1. fp' = <<n, 0>> \/ fp' = <<n, segment'>>
          BY <1>1, <3>2, OptFiles, DeleteAtNext
        <5> QED
          BY <4>1, <5>1
      <4> HIDE DEF n
      <4>7. KeyFiled(d, upd_i)
        BY <1>1, <4>2, <4>3, <4>4, <4>5, <4>6 DEF KeyFiled
      <4> QED
        BY <4>3, <4>7
    <3> QED
      BY <3>2, <3>3, <3>4, <3>5, <3>6
  <2> QED
    BY <2>1, <2>2, <2>3, AtKey
<1>7. ASSUME NEW d \in deletes'
      PROVE  d.file[1] \in FirstSet..n /\ (~opt.gen_sql /\ ~opt.gen_rng => KeyFiled(d, upd_i))
  <2>1. CASE d \in deletes
    <3>1. d.file[1] \in FirstSet..n /\ (~opt.gen_sql /\ ~opt.gen_rng => KeyFiled(d, upd_i - 1))
      BY <1>1, <1>2, <2>1 DEF Files, DeleteFiles
    <3>2. \A j \in SetRows(d.file[1]) : j \in Int
      <4>1. d.file[1] \in 1..(upd_num + 1)
        BY <1>1, <3>1
      <4>2. \A j \in SetRows(d.file[1]) : j \in Nat
        BY <4>1, ThisSet
      <4> QED
        BY <4>2
    <3>3. upd_i - 1 \in Int /\ upd_i \in Int /\ upd_i - 1 <= upd_i
      BY <1>1
    <3> QED
      BY <3>1, <3>2, <3>3, KeyFiledLater
  <2>2. CASE d \notin deletes
    BY <1>1, <1>6, <2>2
  <2> QED
    BY <2>1, <2>2
<1>8. ASSUME NEW m \in FirstSet..upd_num
      PROVE  /\ KeysIn(deletes', m) \subseteq KeysOf(m)
             /\ (opt.gen_sql => opt.gen_rng) => KeysOf(m) \subseteq KeysIn(deletes', m)
  <2>1. m # n
    BY <1>1
  <2>2. KeysIn(deletes', m) = KeysIn(deletes, m)
    BY <1>6, <2>1
  <2> QED
    BY <2>2, KeysInFiles DEF Files, DeleteFiles
<1>9. DeleteFiles'
  <2>1. KeysIn(deletes', n) \cup Open' = {DeleteKey(j, n) : j \in (base + 1)..(upd_i' - 1)}
    BY <1>4, <1>5, <1>6
  <2> QED
    BY <1>1, <1>2, <1>6, <1>7, <1>8, <2>1, DeleteFilesNext
<1>10. InsertFiles'
  BY <1>1, <1>2, InsertFilesStay
<1> QED
  BY <1>1, <1>9, <1>10, OpsStay DEF Files

LEMMA EndSetFiles ==
  ASSUME IInv, Files, opt.updates < Units, EndSet
  PROVE  Files'
<1> DEFINE n == upd_num + 1
           base == upd_num * rowcnt
<1>1. /\ pc = "delete" /\ pc' = "set" /\ opt' = opt /\ upd_num' = n
      /\ inserts' = inserts /\ upd_i' = upd_i /\ n \in Nat \ {0} /\ upd_num \in Nat /\ base \in Nat
      /\ rowcnt \in Nat /\ rowcnt' = rowcnt /\ n * rowcnt = base + rowcnt
      /\ DeleteAt /\ upd_count = 0
      /\ opt.gen_sql \in BOOLEAN /\ opt.gen_rng \in BOOLEAN
      /\ FirstSet \in Nat /\ FirstSet >= 1 /\ FirstSet <= n
  BY OptTypes, OptFiles, Constants DEF Files, DeleteFiles, EndSet
<1>2. upd_i = base + rowcnt + 1 /\ fp[1] = n /\ upd_start \in Int /\ upd_last \in Int
  <2>1. upd_i \in Int /\ upd_i + 0 = base + 1 + rowcnt
    BY <1>1 DEF DeleteAt
  <2> QED
    BY <1>1, <2>1, OptFiles DEF DeleteAt
<1>3. Past' = Past /\ Past = base + rowcnt /\ DeletedPast = base + rowcnt
      /\ DeletedPast' = base + rowcnt
  BY <1>1, <1>2 DEF Past, DeletedPast
<1>4. InsertFiles'
  <2>1. \A r \in inserts' : r.file[1] \in FirstSet..(n + 1) /\ r.i <= Past /\ RowFiled(r)
    BY <1>1 DEF Files, InsertFiles
  <2>2. ASSUME NEW m \in FirstSet..(n + 1), NEW j \in SetRows(m), j <= Past
        PROVE  \E r \in inserts' : r.file[1] = m /\ r.i = j
    <3>1. CASE m \in FirstSet..n
      BY <1>1, <2>2, <3>1 DEF Files, InsertFiles
    <3>2. CASE m = n + 1
      <4>1. m - 1 = n
        BY <1>1, <3>2
      <4>2. j \in Int /\ j >= (m - 1) * rowcnt + 1
        <5>1. (m - 1) * rowcnt + 1 \in Int /\ m * rowcnt \in Int
          BY <1>1, <3>2
        <5> QED
          BY <5>1 DEF SetRows
      <4> QED
        BY <1>1, <1>3, <2>2, <4>1, <4>2
    <3> QED
      BY <1>1, <3>1, <3>2
  <2> QED
    BY <1>1, <1>3, <2>1, <2>2, OpsStay DEF InsertFiles
<1>5. KeysIn(deletes, n) \cup Open = KeysOf(n)
  <2>1. KeysIn(deletes, n) \cup Open = {DeleteKey(j, n) : j \in (base + 1)..(upd_i - 1)}
    BY <1>1, KeysInFiles DEF Files, DeleteFiles
  <2>2. SetRows(n) = (base + 1)..(upd_i - 1)
    BY <1>1, <1>2, ThisSet
  <2> QED
    BY <2>1, <2>2 DEF KeysOf
\* The range that is open is printed, if there is one.
<1>6. /\ opt.gen_rng => KeysIn(deletes', n) = KeysIn(deletes, n) \cup Open
      /\ ~opt.gen_rng => deletes' = deletes
      /\ \A m : m # n => KeysIn(deletes', m) = KeysIn(deletes, m)
      /\ \A d \in deletes' \ deletes : d.file[1] = n /\ opt.gen_rng
  <2>1. CASE opt.gen_rng
    <3>1. deletes' = deletes \cup {Deleted(upd_start, upd_last, fp)} /\ Open = upd_start..upd_last
      BY <2>1 DEF EndSet, Open
    <3>2. upd_start \in Int /\ upd_last \in Int /\ fp[1] = n
      BY <1>2
    <3>3. \A d \in deletes' \ deletes : d.file[1] = n
      BY <3>1, <3>2 DEF Deleted
    <3> HIDE DEF n
    <3>4. KeysIn(deletes', n) = KeysIn(deletes, n) \cup upd_start..upd_last
      <4>1. deletes' = deletes \cup {Deleted(upd_start, upd_last, fp)}
        BY <3>1
      <4> QED
        BY <3>2, <4>1, MoreKeys
    <3>5. \A m : m # n => KeysIn(deletes', m) = KeysIn(deletes, m)
      <4>1. deletes' = deletes \cup {Deleted(upd_start, upd_last, fp)}
        BY <3>1
      <4> QED
        BY <3>2, <4>1, MoreKeys
    <3> QED
      BY <2>1, <3>1, <3>3, <3>4, <3>5
  <2>2. CASE ~opt.gen_rng
    BY <2>2 DEF EndSet
  <2> QED
    BY <2>1, <2>2
<1>7. \A d \in deletes' :
        /\ d.file[1] \in FirstSet..n
        /\ ~opt.gen_sql /\ ~opt.gen_rng => KeyFiled(d, base + rowcnt)
  BY <1>1, <1>3, <1>6 DEF Files, DeleteFiles
<1>8. ASSUME NEW m \in FirstSet..n
      PROVE  /\ KeysIn(deletes', m) \subseteq KeysOf(m)
             /\ (opt.gen_sql => opt.gen_rng) => KeysOf(m) \subseteq KeysIn(deletes', m)
  <2>1. CASE m = n
    <3>1. CASE opt.gen_rng
      BY <1>5, <1>6, <2>1, <3>1
    <3>2. CASE ~opt.gen_rng
      <4>1. ~opt.gen_sql => Open = {}
        BY <3>2 DEF Open
      <4> QED
        BY <1>5, <1>6, <2>1, <3>2, <4>1
    <3> QED
      BY <3>1, <3>2
  <2>2. CASE m # n
    <3>1. m \in FirstSet..upd_num
      BY <1>1, <2>2
    <3>2. KeysIn(deletes', m) = KeysIn(deletes, m)
      BY <1>6, <2>2
    <3> QED
      BY <3>1, <3>2, KeysInFiles DEF Files, DeleteFiles
  <2> QED
    BY <2>1, <2>2
<1>9. DeleteFiles'
  BY <1>1, <1>3, <1>7, <1>8, DeleteFilesNext
<1>10. FirstSet' <= upd_num' + 1
  BY <1>1, OpsStay
<1> QED
  BY <1>1, <1>4, <1>9, <1>10 DEF Files

LEMMA QuietFiles ==
  ASSUME IInv, Files, Exit \/ UNCHANGED update_vars
  PROVE  Files'
<1>1. /\ opt' = opt /\ upd_num' = upd_num /\ upd_i' = upd_i /\ upd_count' = upd_count /\ mode' = mode
      /\ rows_this_segment' = rows_this_segment /\ segment' = segment /\ fp' = fp
      /\ upd_start' = upd_start /\ upd_last' = upd_last /\ inserts' = inserts /\ deletes' = deletes
      /\ (pc' = pc \/ (pc = "set" /\ pc' = "done"))
  BY DEF Exit, update_vars
<1>2. Past' = Past /\ DeletedPast' = DeletedPast /\ Open' = Open
  BY <1>1, OpsStay DEF Past, DeletedPast, Open
<1>3. InsertFiles'
  <2>1. pc' = "insert" => InsertAt'
    BY <1>1, OpsStay, Zenon DEF Files, InsertFiles, InsertAt, Cut, PerSegment, Residual
  <2> QED
    BY <1>1, <1>2, <2>1, OpsStay DEF Files, InsertFiles
<1>4. DeleteFiles'
  <2>1. pc' = "delete" => DeleteAt'
    BY <1>1, DeleteAtNext DEF Files, DeleteFiles, DeleteAt
  <2>2. pc' = "delete" =>
          KeysIn(deletes', upd_num' + 1) \cup Open'
            = {DeleteKey(j, upd_num' + 1) : j \in (upd_num' * rowcnt + 1)..(upd_i' - 1)}
    BY <1>1, <1>2, KeysInFiles DEF Files, DeleteFiles
  <2>3. \A d \in deletes' :
           /\ d.file[1] \in FirstSet..(IF pc' = "delete" THEN upd_num' + 1 ELSE upd_num')
           /\ ~opt.gen_sql /\ ~opt.gen_rng => KeyFiled(d, DeletedPast')
    BY <1>1, <1>2 DEF Files, DeleteFiles
  <2>4. \A m \in FirstSet..upd_num' :
           /\ KeysIn(deletes', m) \subseteq KeysOf(m)
           /\ (opt.gen_sql => opt.gen_rng) => KeysOf(m) \subseteq KeysIn(deletes', m)
    BY <1>1, KeysInFiles DEF Files, DeleteFiles
  <2> QED
    BY <1>1, <2>1, <2>2, <2>3, <2>4, DeleteFilesNext
<1> QED
  BY <1>1, <1>3, <1>4, OpsStay DEF Files

LEMMA NextFInv == IInv /\ KInv /\ FInv /\ [UpdateNext]_update_vars => FInv'
<1> SUFFICES ASSUME IInv, KInv, FInv, [UpdateNext]_update_vars PROVE FInv'
  OBVIOUS
<1>1. opt' = opt
  BY DEF UpdateNext, update_vars, StartSet, InsertRow, StartDelete, DeleteRow, EndSet, Exit, Done
<1> SUFFICES ASSUME opt.updates < Units PROVE Files'
  BY <1>1 DEF FInv
<1>2. Files
  BY DEF FInv
<1> QED
  BY <1>2, StartSetFiles, InsertRowFiles, StartDeleteFiles, DeleteRowFiles, EndSetFiles, QuietFiles
     DEF UpdateNext, Done

-----------------------------------------------------------------------------
(***************************************************************************)
(* What is counted in the files.                                           *)
(***************************************************************************)

\* As many as are named, when each has a name of its own.
LEMMA Renamed ==
  ASSUME NEW S, IsFiniteSet(S), NEW T, NEW f \in [S -> T],
         \A x, y \in S : f[x] = f[y] => x = y,
         \A t \in T : \E x \in S : f[x] = t
  PROVE  IsFiniteSet(T) /\ Cardinality(T) = Cardinality(S)
<1>1. f \in Bijection(S, T)
  BY DEF Bijection, Injection, Surjection, IsInjective
<1> QED
  BY <1>1, FS_Bijection DEF ExistsBijection

\* The sequence number of the sets changes after a set at least.
LEMMA SetsPerSeqType ==
  ASSUME IInv
  PROVE  /\ SetsPerSeq \in Nat \ {0} /\ opt.refresh \in Nat \ {0}
         /\ opt.refresh * SetsPerSeq <= Units
<1>1. opt.refresh \in Nat \ {0} /\ Units \in Nat \ {0} /\ opt.refresh <= Units
  BY RefreshWithin, UpdateSetsAssumption DEF IInv, Placed, UpdateCommand
<1>2. Units = opt.refresh * SetsPerSeq + (Units % opt.refresh) /\ Units % opt.refresh < opt.refresh
      /\ SetsPerSeq \in Nat /\ Units % opt.refresh \in Nat
  BY <1>1, DivMod DEF SetsPerSeq
<1>3. CASE SetsPerSeq = 0
  BY <1>1, <1>2, <1>3
<1>4. opt.refresh * SetsPerSeq \in Nat
  BY <1>1, <1>2
<1> QED
  BY <1>1, <1>2, <1>3, <1>4

\* A finished set: its rows were all made, and its keys are those of its rows.
LEMMA FinishedSet ==
  ASSUME IInv, KInv, Files, opt.updates < Units, NEW n \in Finished
  PROVE  /\ n \in Nat \ {0} /\ n <= upd_num /\ n \in FirstSet..upd_num
         /\ SetRows(n) = ((n - 1) * rowcnt + 1)..((n - 1) * rowcnt + rowcnt)
         /\ (n - 1) * rowcnt \in Nat /\ rowcnt \in Nat
         /\ \A j \in SetRows(n) : j \in Nat /\ \E r \in inserts : r.file[1] = n /\ r.i = j
         /\ \A r \in InsertRows(n) : r.i \in SetRows(n) /\ RowFiled(r)
         /\ \A a, b \in inserts : a.i = b.i => a = b
         /\ DeleteKeys(n) \subseteq KeysOf(n)
         /\ (opt.gen_sql => opt.gen_rng) => KeysOf(n) \subseteq DeleteKeys(n)
<1>1. /\ upd_num \in Nat /\ rowcnt \in Nat /\ upd_num * rowcnt \in Nat /\ n \in Nat \ {0}
      /\ n <= upd_num /\ FirstSet \in Nat /\ FirstSet >= 1 /\ n \in FirstSet..upd_num
  BY OptTypes, OptFiles DEF Finished, FirstSet
<1>2. /\ SetRows(n) = ((n - 1) * rowcnt + 1)..((n - 1) * rowcnt + rowcnt)
      /\ (n - 1) * rowcnt \in Nat
  BY <1>1, SetRowsFacts
<1>3. Past >= upd_num * rowcnt /\ Past \in Int
  <2>1. CASE pc = "insert"
    <3>1. upd_i \in Int /\ upd_i >= upd_num * rowcnt + 1
      BY <2>1 DEF KInv, Keys, IInv, Placed
    <3> QED
      BY <1>1, <2>1, <3>1 DEF Past
  <2>2. CASE pc # "insert"
    BY <1>1, <2>2 DEF Past
  <2> QED
    BY <2>1, <2>2
<1>4. ASSUME NEW j \in SetRows(n)
      PROVE  j \in Nat /\ j <= Past
  <2>1. n \in 1..(upd_num + 1)
    BY <1>1
  <2>2. j \in Nat /\ (n <= upd_num => j <= upd_num * rowcnt)
    BY <2>1, ThisSet
  <2> QED
    BY <1>1, <1>3, <2>2
<1>5. \A j \in SetRows(n) : \E r \in inserts : r.file[1] = n /\ r.i = j
  <2>1. n \in FirstSet..(upd_num + 1)
    BY <1>1
  <2> QED
    BY <1>4, <2>1 DEF Files, InsertFiles
<1>6. \A r \in InsertRows(n) : r.i \in SetRows(n) /\ RowFiled(r)
  BY DEF InsertRows, Files, InsertFiles, RowFiled
<1>7. /\ DeleteKeys(n) \subseteq KeysOf(n)
      /\ (opt.gen_sql => opt.gen_rng) => KeysOf(n) \subseteq DeleteKeys(n)
  BY <1>1 DEF Files, DeleteFiles
<1>8. \A a, b \in inserts : a.i = b.i => a = b
  BY DEF KInv, Keys
<1> QED
  BY <1>1, <1>2, <1>4, <1>5, <1>6, <1>7, <1>8

LEMMA SeqType ==
  ASSUME IInv, NEW n \in Nat \ {0}
  PROVE  InsertSeq(n) \in Nat
<1>1. n % Units \in Nat
  BY OptTypes, DivMod
<1>2. (n % Units) \div SetsPerSeq \in Nat
  BY <1>1, SetsPerSeqType, DivMod
<1> QED
  BY <1>2 DEF InsertSeq

\* Rows of a set have keys of their own, inserted and deleted.
LEMMA KeysDiffer ==
  ASSUME IInv, NEW n \in Nat \ {0}, NEW j \in Nat, NEW k \in Nat
  PROVE  /\ mk_sparse(j, InsertSeq(n)) = mk_sparse(k, InsertSeq(n)) => j = k
         /\ DeleteKey(j, n) = DeleteKey(k, n) => j = k
<1>1. \A s \in Nat : mk_sparse(j, s) \in Int /\ mk_sparse(k, s) \in Int
  BY DEF mk_sparse, LOW, SEQ
<1>2. \A s \in Nat : mk_sparse(j, s) = mk_sparse(k, s) => j = k
  <2> SUFFICES ASSUME NEW s \in Nat, mk_sparse(j, s) = mk_sparse(k, s), j # k PROVE FALSE
    OBVIOUS
  <2>1. CASE j < k
    BY <1>1, <2>1, KeysGrow
  <2>2. CASE k < j
    BY <1>1, <2>2, KeysGrow
  <2> QED
    BY <2>1, <2>2
<1>3. DeleteSeq(n) % SEQ \in Nat
  BY DeleteSeqType, RefreshWithin DEF SEQ
<1>4. \A l : DeleteKey(l, n) = mk_sparse(l, DeleteSeq(n) % SEQ)
  BY DEF DeleteKey, MK_SPARSE, mk_sparse
<1> QED
  BY <1>2, <1>3, <1>4, SeqType

LEMMA FInvBalanced == IInv /\ KInv /\ FInv => Balanced
<1> SUFFICES ASSUME IInv, KInv, FInv, opt.updates < Units, opt.gen_sql => opt.gen_rng,
                    NEW n \in Finished
             PROVE  Cardinality(DeleteKeys(n)) = Cardinality(InsertKeys(n))
  BY DEF Balanced
<1>1. Files
  BY DEF FInv
<1> DEFINE rows == SetRows(n)
<1>2. IsFiniteSet(rows)
  <2>1. (n - 1) * rowcnt + 1 \in Int /\ (n - 1) * rowcnt + rowcnt \in Int
    BY <1>1, FinishedSet
  <2> QED
    BY <1>1, <2>1, FinishedSet, FS_Interval
<1>3. n \in Nat \ {0} /\ rows \subseteq Nat
  BY <1>1, FinishedSet
<1>4. Cardinality(DeleteKeys(n)) = Cardinality(rows)
  <2>1. DeleteKeys(n) = {DeleteKey(j, n) : j \in rows}
    BY <1>1, FinishedSet DEF KeysOf
  <2> DEFINE f == [j \in rows |-> DeleteKey(j, n)]
  <2>2. \A x, y \in rows : f[x] = f[y] => x = y
    BY <1>3, KeysDiffer
  <2>3. f \in [rows -> DeleteKeys(n)] /\ \A t \in DeleteKeys(n) : \E x \in rows : f[x] = t
    BY <2>1
  <2> HIDE DEF f, rows
  <2> QED
    BY <1>2, <2>2, <2>3, Renamed
<1>5. Cardinality(InsertKeys(n)) = Cardinality(rows)
  <2>1. InsertKeys(n) = {mk_sparse(j, InsertSeq(n)) : j \in rows}
    <3>1. \A r \in InsertRows(n) : r.i \in rows /\ r.key = mk_sparse(r.i, InsertSeq(n))
      BY <1>1, FinishedSet DEF RowFiled, InsertRows
    <3>2. \A j \in rows : \E r \in InsertRows(n) : r.i = j
      BY <1>1, FinishedSet DEF InsertRows
    <3> QED
      BY <3>1, <3>2 DEF InsertKeys
  <2> DEFINE f == [j \in rows |-> mk_sparse(j, InsertSeq(n))]
  <2>2. \A x, y \in rows : f[x] = f[y] => x = y
    BY <1>3, KeysDiffer
  <2>3. f \in [rows -> InsertKeys(n)] /\ \A t \in InsertKeys(n) : \E x \in rows : f[x] = t
    BY <2>1
  <2> HIDE DEF f, rows
  <2> QED
    BY <1>2, <2>2, <2>3, Renamed
<1> QED
  BY <1>4, <1>5

\* The sets of one sequence number have no more rows than the load.
LEMMA Capacity ==
  ASSUME IInv
  PROVE  OrderBase * UpdateScale \in Nat /\ SetsPerSeq * rowcnt <= OrderBase * UpdateScale
<1> DEFINE r == opt.refresh
           s == SetsPerSeq
           c == rowcnt
           loaded == OrderBase * UpdateScale
<1>1. /\ OrderBase \in Nat /\ UpdateScale \in Nat /\ Units \in Nat \ {0} /\ r \in Nat \ {0}
      /\ s \in Nat \ {0} /\ r * s <= Units /\ c \in Nat /\ loaded \in Nat
  BY UpdateSetsAssumption, SetsPerSeqType, OptTypes
<1>2. CASE opt.newer
  <2> DEFINE b == OrderBase \div Units
  <2>1. b \in Nat /\ Units * b <= OrderBase
    <3>1. b \in Nat /\ OrderBase % Units \in Nat /\ OrderBase = Units * b + (OrderBase % Units)
      BY <1>1, DivMod
    <3> HIDE DEF b
    <3>2. Units * b \in Nat
      BY <1>1, <3>1
    <3> QED
      BY <1>1, <3>1, <3>2
  <2>2. c = b * UpdateScale * r
    BY <1>2 DEF rowcnt
  <2> HIDE DEF b, c, r, s
  <2> DEFINE x == b * UpdateScale
  <2>3. x \in Nat /\ c = x * r
    BY <1>1, <2>1, <2>2
  <2>4. Units * x <= loaded
    <3>1. (Units * b) * UpdateScale <= OrderBase * UpdateScale
      BY <1>1, <2>1
    <3> QED
      BY <1>1, <2>1, <3>1
  <2> HIDE DEF x, loaded
  <2>5. s * c = (r * s) * x
    BY <1>1, <2>3
  <2>6. (r * s) * x <= Units * x
    BY <1>1, <2>3
  <2>7. s * c \in Int /\ (r * s) * x \in Int /\ Units * x \in Int
    BY <1>1, <2>3
  <2>8. s * c <= loaded
    BY <1>1, <2>4, <2>5, <2>6, <2>7
  <2> QED
    BY <1>1, <2>8 DEF c, s, loaded
<1>3. CASE ~opt.newer
  <2> DEFINE product == loaded * r
  <2>1. c = product \div Units /\ product \in Nat
    BY <1>1, <1>3 DEF rowcnt
  <2> HIDE DEF product, c, r, s, loaded
  <2>2. Units * c <= product
    <3>1. product = Units * c + (product % Units) /\ product % Units \in Nat
      BY <1>1, <2>1, DivMod
    <3>2. Units * c \in Nat
      BY <1>1
    <3> QED
      BY <2>1, <3>1, <3>2
  <2>3. ASSUME s * c > loaded
        PROVE  FALSE
    <3>1. Units * (s * c) > Units * loaded
      BY <1>1, <2>3
    <3>2. Units * (s * c) = (Units * c) * s
      BY <1>1
    <3>3. (Units * c) * s <= product * s
      BY <1>1, <2>1, <2>2
    <3>4. product * s = (r * s) * loaded
      BY <1>1 DEF product
    <3>5. (r * s) * loaded <= Units * loaded
      BY <1>1
    <3>6. /\ Units * (s * c) \in Int /\ Units * loaded \in Int /\ (Units * c) * s \in Int
          /\ product * s \in Int /\ (r * s) * loaded \in Int
      BY <1>1, <2>1
    <3> QED
      BY <3>1, <3>2, <3>3, <3>4, <3>5, <3>6
  <2>4. s * c \in Nat
    BY <1>1
  <2>5. s * c <= loaded
    BY <1>1, <2>3, <2>4
  <2> QED
    BY <1>1, <2>5 DEF c, s, loaded
<1> QED
  BY <1>2, <1>3

\* The first sets delete loaded orders.
LEMMA DeletesLoaded ==
  ASSUME IInv, KInv, Files, opt.updates < Units, NEW n \in Finished,
         n < SetsPerSeq \/ (n = SetsPerSeq /\ ~opt.newer)
  PROVE  /\ DeleteSeq(n) = 0
         /\ DeleteKeys(n) \subseteq {mk_sparse(j, 0) : j \in SetRows(n)}
         /\ SetRows(n) \subseteq 1..(OrderBase * UpdateScale)
<1>1. /\ n \in Nat \ {0} /\ rowcnt \in Nat /\ (n - 1) * rowcnt \in Nat
      /\ SetsPerSeq \in Nat \ {0} /\ n <= SetsPerSeq
  BY FinishedSet, SetsPerSeqType
<1>2. DeleteSeq(n) = 0
  <2> DEFINE m == IF opt.newer THEN n ELSE n - 1
             q == m \div SetsPerSeq
  <2>1. m \in Nat /\ m < SetsPerSeq
    BY <1>1
  <2> HIDE DEF m
  <2>2. q \in Nat /\ SetsPerSeq * q + (m % SetsPerSeq) = m /\ m % SetsPerSeq \in Nat
    BY <1>1, <2>1, DivMod
  <2>3. DeleteSeq(n) = q
    BY DEF DeleteSeq, m
  <2> HIDE DEF q
  <2>4. CASE q >= 1
    <3>1. SetsPerSeq * q >= SetsPerSeq
      BY <1>1, <2>2, <2>4
    <3>2. SetsPerSeq * q \in Nat
      BY <1>1, <2>2
    <3> QED
      BY <1>1, <2>1, <2>2, <3>1, <3>2
  <2> QED
    BY <2>2, <2>3, <2>4
<1>3. KeysOf(n) = {mk_sparse(j, 0) : j \in SetRows(n)}
  BY <1>2 DEF KeysOf, DeleteKey, MK_SPARSE, mk_sparse, SEQ
<1>4. SetRows(n) \subseteq 1..(OrderBase * UpdateScale)
  <2>1. n * rowcnt <= SetsPerSeq * rowcnt
    BY <1>1
  <2>2. n * rowcnt = (n - 1) * rowcnt + rowcnt
    BY <1>1, SetRowsFacts
  <2>3. n * rowcnt \in Int /\ SetsPerSeq * rowcnt \in Int
    BY <1>1
  <2>4. n * rowcnt <= OrderBase * UpdateScale
    BY <2>1, <2>3, Capacity
  <2> QED
    BY <1>1, <2>2, <2>4, Capacity, FinishedSet
<1> QED
  BY <1>2, <1>3, <1>4, FinishedSet

LEMMA FInvLive == IInv /\ KInv /\ FInv => DeletesLive
<1> SUFFICES ASSUME IInv, KInv, FInv, opt.updates < Units, NEW n \in Finished,
                    n < SetsPerSeq \/ (n = SetsPerSeq /\ ~opt.newer)
             PROVE  Live(n)
  BY DEF DeletesLive
<1>1. Files
  BY DEF FInv
<1>2. DeleteKeys(n) \subseteq LoadedKeys
  BY <1>1, DeletesLoaded DEF LoadedKeys
<1>3. ASSUME NEW m \in Finished \cap 1..(n - 1), NEW key \in DeleteKeys(n), key \in DeleteKeys(m)
      PROVE  FALSE
  <2>1. /\ n \in Nat \ {0} /\ m \in Nat \ {0} /\ m < n /\ m \in Finished
        /\ SetsPerSeq \in Nat
    BY <1>1, FinishedSet, SetsPerSeqType
  <2>2. m < SetsPerSeq
    BY <2>1
  <2>3. PICK j \in SetRows(n) : key = mk_sparse(j, 0)
    BY <1>1, DeletesLoaded
  <2>4. PICK k \in SetRows(m) : key = mk_sparse(k, 0)
    BY <1>1, <1>3, <2>1, <2>2, DeletesLoaded
  <2>5. k < j /\ k \in Nat /\ j \in Nat
    <3>1. m * rowcnt <= (n - 1) * rowcnt /\ m * rowcnt = (m - 1) * rowcnt + rowcnt
      <4>1. rowcnt \in Nat
        BY OptTypes
      <4>2. m * rowcnt <= (n - 1) * rowcnt
        BY <2>1, <4>1, SetRowsFacts
      <4>3. m * rowcnt = (m - 1) * rowcnt + rowcnt
        BY <2>1, <4>1, SetRowsFacts
      <4> QED
        BY <4>2, <4>3
    <3>2. /\ j \in ((n - 1) * rowcnt + 1)..((n - 1) * rowcnt + rowcnt)
          /\ k \in ((m - 1) * rowcnt + 1)..((m - 1) * rowcnt + rowcnt)
          /\ (n - 1) * rowcnt \in Nat /\ (m - 1) * rowcnt \in Nat /\ rowcnt \in Nat
      <4>1. j \in ((n - 1) * rowcnt + 1)..((n - 1) * rowcnt + rowcnt)
            /\ (n - 1) * rowcnt \in Nat /\ rowcnt \in Nat
        BY <1>1, FinishedSet
      <4>2. k \in ((m - 1) * rowcnt + 1)..((m - 1) * rowcnt + rowcnt)
            /\ (m - 1) * rowcnt \in Nat
        BY <1>1, <2>1, FinishedSet
      <4> QED
        BY <4>1, <4>2
    <3> QED
      BY <3>1, <3>2
  <2>6. mk_sparse(k, 0) < mk_sparse(j, 0) /\ mk_sparse(k, 0) \in Int
    BY <2>5, KeysGrow DEF mk_sparse, LOW, SEQ
  <2> QED
    BY <2>3, <2>4, <2>6
<1> QED
  BY <1>2, <1>3 DEF Live

\* Where the rows of segment k end, and how many it has.
ShareEnd(s, long, k)  == IF Cut(s, long, k) < rowcnt THEN Cut(s, long, k) ELSE rowcnt
ShareSize(s, long, k) == IF Cut(s, long, k - 1) < ShareEnd(s, long, k)
                         THEN ShareEnd(s, long, k) - Cut(s, long, k - 1) ELSE 0

LEMMA CutGrows ==
  ASSUME rowcnt \in Nat, NEW s \in Nat \ {0}, NEW long \in Nat, NEW a \in Nat, NEW b \in Nat,
         a <= b
  PROVE  Cut(s, long, a) <= Cut(s, long, b) /\ Cut(s, long, a) \in Nat /\ Cut(s, long, b) \in Nat
<1> DEFINE p == PerSegment(s)
<1>1. p \in Nat
  BY CutFacts
<1>2. Cut(s, long, a) = a * p + (IF a < long THEN a ELSE long)
      /\ Cut(s, long, b) = b * p + (IF b < long THEN b ELSE long)
  BY DEF Cut, Spread
<1> HIDE DEF p
<1>3. a * p <= b * p /\ a * p \in Nat /\ b * p \in Nat
  BY <1>1
<1> QED
  BY <1>2, <1>3

\* Rows that are each in the file of their segment are dealt as the segments are cut.
LEMMA Dealt ==
  ASSUME rowcnt \in Nat, NEW s \in Nat \ {0}, NEW long \in Nat,
         NEW rows, NEW at \in [rows -> 1..rowcnt],
         \A r, t \in rows : at[r] = at[t] => r = t,
         \A j \in 1..rowcnt : \E r \in rows : at[r] = j,
         \A r \in rows : InSegment(s, long, r.file, at[r])
  PROVE  /\ \A k \in 1..s : Size(rows, k) = ShareSize(s, long, k)
         /\ \A k : k \in Segments(rows) <=> k \in 1..s /\ ShareSize(s, long, k) > 0
<1>1. \A r \in rows :
        /\ r.file[2] \in 1..s
        /\ Cut(s, long, r.file[2] - 1) < at[r] /\ at[r] <= Cut(s, long, r.file[2])
  BY DEF InSegment
<1>2. \A k \in 1..s : Cut(s, long, k - 1) \in Nat /\ Cut(s, long, k) \in Nat
  <2> SUFFICES ASSUME NEW k \in 1..s
               PROVE  Cut(s, long, k - 1) \in Nat /\ Cut(s, long, k) \in Nat
    OBVIOUS
  <2>1. k - 1 \in Nat /\ k \in Nat
    OBVIOUS
  <2> QED
    BY <2>1, CutFacts
<1>3. ASSUME NEW k \in 1..s, NEW r \in rows,
             Cut(s, long, k - 1) < at[r], at[r] <= Cut(s, long, k)
      PROVE  r.file[2] = k
  <2> DEFINE m == r.file[2]
  <2>1. m \in 1..s /\ Cut(s, long, m - 1) < at[r] /\ at[r] <= Cut(s, long, m) /\ at[r] \in Nat
    BY <1>1
  <2> HIDE DEF m
  <2>2. /\ Cut(s, long, m - 1) \in Nat /\ Cut(s, long, m) \in Nat
        /\ Cut(s, long, k - 1) \in Nat /\ Cut(s, long, k) \in Nat
    BY <1>2, <2>1
  <2>3. CASE m < k
    <3>1. m \in Nat /\ k - 1 \in Nat /\ m <= k - 1
      BY <2>1, <2>3
    <3>2. Cut(s, long, m) <= Cut(s, long, k - 1)
      BY <3>1, CutGrows
    <3> QED
      BY <1>3, <2>1, <2>2, <3>2
  <2>4. CASE k < m
    <3>1. k \in Nat /\ m - 1 \in Nat /\ k <= m - 1
      BY <2>1, <2>4
    <3>2. Cut(s, long, k) <= Cut(s, long, m - 1)
      BY <3>1, CutGrows
    <3> QED
      BY <1>3, <2>1, <2>2, <3>2
  <2>5. CASE m = k
    BY <2>5 DEF m
  <2> QED
    BY <2>1, <2>3, <2>4, <2>5
<1>4. ASSUME NEW k \in 1..s
      PROVE  /\ Size(rows, k) = ShareSize(s, long, k)
             /\ k \in Segments(rows) <=> ShareSize(s, long, k) > 0
  <2> DEFINE lo == Cut(s, long, k - 1)
             hi == ShareEnd(s, long, k)
             T  == {r \in rows : r.file[2] = k}
             f  == [r \in T |-> at[r]]
  <2>1. /\ lo \in Nat /\ hi \in Nat /\ hi <= rowcnt /\ hi <= Cut(s, long, k)
        /\ Cut(s, long, k) \in Nat
        /\ \A j \in Nat : j <= Cut(s, long, k) /\ j <= rowcnt => j <= hi
    BY <1>2 DEF ShareEnd
  <2>2. ShareSize(s, long, k) = (IF lo < hi THEN hi - lo ELSE 0)
    BY DEF ShareSize
  <2>3. \A r \in T : at[r] \in (lo + 1)..hi
    BY <1>1, <2>1
  <2>4. \A j \in (lo + 1)..hi : \E r \in T : at[r] = j
    <3> SUFFICES ASSUME NEW j \in (lo + 1)..hi PROVE \E r \in T : at[r] = j
      OBVIOUS
    <3>1. j \in 1..rowcnt /\ lo < j /\ j <= Cut(s, long, k)
      BY <2>1
    <3>2. PICK r \in rows : at[r] = j
      BY <3>1
    <3>3. r.file[2] = k
      BY <1>3, <3>1, <3>2
    <3> QED
      BY <3>2, <3>3
  <2> HIDE DEF lo, hi
  <2>5. IsFiniteSet((lo + 1)..hi)
        /\ Cardinality((lo + 1)..hi) = (IF lo < hi THEN hi - lo ELSE 0)
    <3>1. lo + 1 \in Int /\ hi \in Int
      BY <2>1
    <3>2. IsFiniteSet((lo + 1)..hi)
          /\ Cardinality((lo + 1)..hi) = (IF lo + 1 > hi THEN 0 ELSE hi - (lo + 1) + 1)
      BY <3>1, FS_Interval
    <3> QED
      BY <2>1, <3>2
  <2>6. Cardinality(T) = Cardinality((lo + 1)..hi)
    <3>1. f \in Bijection(T, (lo + 1)..hi)
      BY <2>3, <2>4 DEF Bijection, Injection, Surjection, IsInjective
    <3> HIDE DEF f, T
    <3>2. f \in Injection(T, (lo + 1)..hi) /\ f \in Surjection(T, (lo + 1)..hi)
      BY <3>1 DEF Bijection
    <3> QED
      BY <2>5, <3>2, FS_Injection
  <2>7. Size(rows, k) = ShareSize(s, long, k)
    BY <2>2, <2>5, <2>6 DEF Size
  <2>8. k \in Segments(rows) <=> T # {}
    BY DEF Segments
  <2>9. T # {} <=> lo < hi
    <3>1. T # {} => lo < hi
      BY <2>1, <2>3
    <3>2. lo < hi => lo + 1 \in (lo + 1)..hi
      BY <2>1
    <3> QED
      BY <2>4, <3>1, <3>2
  <2>10. lo < hi <=> ShareSize(s, long, k) > 0
    BY <2>1, <2>2
  <2> QED
    BY <2>7, <2>8, <2>9, <2>10
<1>5. Segments(rows) \subseteq 1..s
  BY <1>1 DEF Segments
<1> QED
  BY <1>4, <1>5

\* Segments of which the first ones have a row more are even.
LEMMA EvenlyDealt ==
  ASSUME rowcnt \in Nat, NEW s \in Nat \ {0}, NEW rows,
         \A k \in 1..s : Size(rows, k) = ShareSize(s, Residual(s), k),
         \A k : k \in Segments(rows) <=> k \in 1..s /\ ShareSize(s, Residual(s), k) > 0
  PROVE  Even(rows, s)
<1> DEFINE p   == PerSegment(s)
           res == Residual(s)
<1>1. p \in Nat /\ res \in Nat /\ res < s /\ rowcnt = s * p + res /\ s * p \in Nat
  <2>1. p \in Nat /\ res \in 0..(s - 1)
    BY CutFacts
  <2>2. rowcnt = s * p + res
    BY DivMod DEF PerSegment, Residual
  <2> HIDE DEF p
  <2> QED
    BY <2>1, <2>2
<1>2. ASSUME NEW k \in 1..s
      PROVE  ShareSize(s, res, k) = p + (IF k <= res THEN 1 ELSE 0)
  <2> DEFINE g == k - 1
  <2>1. g \in Nat /\ k = g + 1 /\ k \in Nat /\ k <= s /\ s \in Nat
    OBVIOUS
  <2>2. Cut(s, res, k) <= Cut(s, res, s) /\ Cut(s, res, s) = rowcnt
    <3>1. Cut(s, res, s) = rowcnt
      BY <1>1, CutFacts
    <3> QED
      BY <1>1, <2>1, <3>1, CutGrows
  <2>3. /\ Cut(s, res, g) \in Nat
        /\ Cut(s, res, g + 1) = Cut(s, res, g) + p + (IF g < res THEN 1 ELSE 0)
    <3>1. res \in Nat /\ g \in Nat /\ s \in Nat \ {0}
      BY <1>1, <2>1
    <3> HIDE DEF g, res
    <3> QED
      BY <3>1, CutFacts
  <2>4. Cut(s, res, k) = Cut(s, res, g + 1)
    BY <2>1
  <2>5. Cut(s, res, k) \in Nat
    BY <1>1, <2>3, <2>4
  <2>6. ShareEnd(s, res, k) = Cut(s, res, k)
    BY <2>2, <2>5 DEF ShareEnd
  <2>7. ShareSize(s, res, k)
          = IF Cut(s, res, g) < Cut(s, res, k) THEN Cut(s, res, k) - Cut(s, res, g) ELSE 0
    BY <2>6 DEF ShareSize
  <2> HIDE DEF g, p, res
  <2> QED
    BY <1>1, <2>1, <2>3, <2>4, <2>5, <2>7
<1>3. Segments(rows) = 1..(IF s < rowcnt THEN s ELSE rowcnt)
  <2>1. \A k : k \in Segments(rows) <=> k \in 1..s /\ (p > 0 \/ k <= res)
    BY <1>1, <1>2
  <2> HIDE DEF p, res
  <2>2. CASE p = 0
    <3>1. s * 0 = 0
      OBVIOUS
    <3>2. rowcnt = res /\ ~(s < rowcnt)
      BY <1>1, <2>2, <3>1
    <3>3. \A k : k \in Segments(rows) <=> k \in 1..rowcnt
      BY <1>1, <2>1, <2>2, <3>2
    <3> QED
      BY <3>2, <3>3
  <2>3. CASE p > 0
    <3>1. s * p >= s
      BY <1>1, <2>3
    <3>2. rowcnt >= s
      BY <1>1, <3>1
    <3>3. (IF s < rowcnt THEN s ELSE rowcnt) = s
      BY <1>1, <3>2
    <3>4. \A k : k \in Segments(rows) <=> k \in 1..s
      BY <2>1, <2>3
    <3> QED
      BY <3>3, <3>4
  <2> QED
    BY <1>1, <2>2, <2>3
<1>4. \A k, l \in Segments(rows) : Size(rows, k) - Size(rows, l) <= 1
  BY <1>1, <1>2
<1> QED
  BY <1>3, <1>4 DEF Even

\* Segments that all have a row more are filled in their order.
LEMMA FilledInOrder ==
  ASSUME rowcnt \in Nat, NEW s \in Nat \ {0}, NEW rows,
         \A k \in 1..s : Size(rows, k) = ShareSize(s, s, k),
         \A k : k \in Segments(rows) <=> k \in 1..s /\ ShareSize(s, s, k) > 0
  PROVE  Filled(rows, s)
<1> DEFINE w == PerSegment(s) + 1
<1>1. w \in Nat \ {0} /\ s * w >= rowcnt /\ s * w \in Nat
  <2>1. PerSegment(s) \in Nat /\ Cut(s, s, s) >= rowcnt
    BY CutFacts
  <2>2. Cut(s, s, s) = s * PerSegment(s) + s
    BY DEF Cut, Spread
  <2> DEFINE p == PerSegment(s)
  <2>3. p \in Nat /\ s * p + s >= rowcnt /\ w = p + 1
    BY <2>1, <2>2
  <2> HIDE DEF p, w
  <2> QED
    BY <2>3
<1>2. \A k \in 0..s : Cut(s, s, k) = k * w /\ k * w \in Nat
  <2> SUFFICES ASSUME NEW k \in 0..s PROVE Cut(s, s, k) = k * w /\ k * w \in Nat
    OBVIOUS
  <2> DEFINE p == PerSegment(s)
  <2>1. p \in Nat /\ w = p + 1 /\ k \in Nat /\ k <= s
    BY CutFacts
  <2>2. Cut(s, s, k) = k * p + (IF k < s THEN k ELSE s)
    BY DEF Cut, Spread
  <2> HIDE DEF p, w
  <2>3. k * w = k * p + k /\ k * w \in Nat
    BY <2>1
  <2> QED
    BY <2>1, <2>2, <2>3
<1> HIDE DEF w
<1>3. ASSUME NEW k \in 1..s
      PROVE  /\ (k - 1) * w \in Nat /\ k * w \in Nat /\ k * w = (k - 1) * w + w
             /\ ShareSize(s, s, k) > 0 <=> (k - 1) * w < rowcnt
             /\ ShareSize(s, s, k) \in Nat /\ ShareSize(s, s, k) <= w
             /\ k * w <= rowcnt => ShareSize(s, s, k) = w
  <2> DEFINE g == k - 1
             x == g * w
  <2>1. g \in 0..s /\ k \in 0..s /\ k = g + 1
    OBVIOUS
  <2>2. k * w = x + w /\ x \in Nat
    BY <1>1, <2>1
  <2>3. Cut(s, s, g) = x /\ Cut(s, s, k) = x + w
    BY <1>2, <2>1, <2>2
  <2>4. ShareEnd(s, s, k) = (IF x + w < rowcnt THEN x + w ELSE rowcnt)
    BY <2>3 DEF ShareEnd
  <2>5. ShareSize(s, s, k) = (IF x < ShareEnd(s, s, k) THEN ShareEnd(s, s, k) - x ELSE 0)
    BY <2>3 DEF ShareSize
  <2> HIDE DEF x
  <2>6. /\ ShareSize(s, s, k) > 0 <=> x < rowcnt
        /\ ShareSize(s, s, k) \in Nat /\ ShareSize(s, s, k) <= w
        /\ x + w <= rowcnt => ShareSize(s, s, k) = w
        /\ x \in Nat /\ x + w \in Nat
    BY <1>1, <2>2, <2>4, <2>5
  <2> QED
    BY <2>2, <2>6 DEF x
<1>4. \A k, l \in 1..s : k < l => k * w <= (l - 1) * w
  BY <1>1
<1>5. \A k : k \in Segments(rows) <=> k \in 1..s /\ (k - 1) * w < rowcnt
  BY <1>3
<1>6. \E most \in 0..s : Segments(rows) = 1..most
  <2>1. CASE rowcnt = 0
    <3>1. Segments(rows) = {}
      BY <1>3, <1>5, <2>1
    <3> QED
      BY <3>1
  <2>2. CASE rowcnt > 0
    <3> DEFINE last_row == rowcnt - 1
               q == last_row \div w
    <3>1. last_row \in Nat /\ rowcnt = last_row + 1
      BY <2>2
    <3> HIDE DEF last_row
    <3>2. q \in Nat /\ last_row % w \in Nat /\ last_row % w < w
          /\ last_row = w * q + (last_row % w)
      BY <1>1, <3>1, DivMod
    <3> HIDE DEF q
    <3>3. q < s
      <4>1. CASE q >= s
        <5>1. w * q >= w * s /\ w * s = s * w /\ w * q \in Nat
          BY <1>1, <3>2, <4>1
        <5>2. last_row \in Nat /\ last_row >= w * q
          BY <3>1, <3>2, <5>1
        <5> QED
          BY <1>1, <3>1, <5>1, <5>2
      <4> QED
        BY <3>2, <4>1
    <3>4. ASSUME NEW k \in 1..s
          PROVE  (k - 1) * w < rowcnt <=> k <= q + 1
      <4> DEFINE g == k - 1
      <4>1. g \in Nat /\ k = g + 1
        OBVIOUS
      <4> HIDE DEF g
      <4>2. CASE g <= q
        <5>1. g * w <= w * q /\ g * w \in Nat /\ w * q \in Nat
          BY <1>1, <3>2, <4>1, <4>2
        <5>2. g * w < rowcnt
          BY <3>1, <3>2, <5>1
        <5> QED
          BY <3>2, <4>1, <4>2, <5>2 DEF g
      <4>3. CASE g >= q + 1
        <5>1. g * w >= w * q + w /\ g * w \in Nat /\ w * q \in Nat
          BY <1>1, <3>2, <4>1, <4>3
        <5>2. ~(g * w < rowcnt)
          BY <1>1, <3>1, <3>2, <5>1
        <5> QED
          BY <3>2, <4>1, <4>3, <5>2 DEF g
      <4> QED
        BY <3>2, <4>1, <4>2, <4>3
    <3>5. \A k : k \in Segments(rows) <=> k \in 1..(q + 1)
      <4>1. \A k : k \in 1..(q + 1) => k \in 1..s
        BY <3>2, <3>3
      <4>2. \A k \in 1..s : k \in 1..(q + 1) <=> k <= q + 1
        BY <3>2
      <4> QED
        BY <1>5, <3>4, <4>1, <4>2
    <3>6. q + 1 \in 0..s
      BY <3>2, <3>3
    <3> QED
      BY <3>5, <3>6
  <2> QED
    BY <2>1, <2>2
<1>7. ASSUME NEW k \in 1..s, NEW l \in Segments(rows), k < l
      PROVE  Size(rows, k) = w
  <2>1. l \in 1..s /\ (l - 1) * w < rowcnt
    BY <1>5
  <2>2. k * w <= (l - 1) * w
    BY <1>4, <1>7, <2>1
  <2>3. k * w <= rowcnt
    <3>1. (l - 1) * w \in Nat /\ k * w \in Nat
      BY <1>3, <2>1
    <3> QED
      BY <2>1, <2>2, <3>1
  <2> QED
    BY <1>3, <2>3
<1>8. \A k, l \in Segments(rows) : k < l => Size(rows, k) >= Size(rows, l)
  BY <1>1, <1>3, <1>5, <1>7
<1>9. \A k \in Segments(rows) : k + 1 \in Segments(rows) => Size(rows, k) = Size(rows, 1)
  <2> SUFFICES ASSUME NEW k \in Segments(rows), k + 1 \in Segments(rows)
               PROVE  Size(rows, k) = Size(rows, 1)
    OBVIOUS
  <2>1. k \in 1..s /\ 1 \in 1..s /\ k < k + 1 /\ 1 < k + 1
    BY <1>5
  <2> QED
    BY <1>7, <2>1
<1> QED
  BY <1>6, <1>8, <1>9 DEF Filled

\* The orders of a finished set are dealt to its segments.
LEMMA InsertsDealt ==
  ASSUME IInv, KInv, Files, opt.updates < Units, NEW n \in Finished, opt.insert_segments > 0
  PROVE  Even(InsertRows(n), opt.insert_segments)
<1> DEFINE s    == opt.insert_segments
           base == (n - 1) * rowcnt
           rows == InsertRows(n)
           at   == [r \in rows |-> r.i - base]
<1>1. /\ s \in Nat \ {0} /\ base \in Nat /\ rowcnt \in Nat /\ n \in Nat \ {0}
      /\ SetRows(n) = (base + 1)..(base + rowcnt)
      /\ \A j \in SetRows(n) : \E r \in rows : r.i = j
      /\ \A r \in rows : r.i \in SetRows(n) /\ RowFiled(r) /\ r.file[1] = n
      /\ \A a, b \in rows : a.i = b.i => a = b
  BY OptFiles, FinishedSet DEF InsertRows
<1>2. \A r \in rows : InSegment(s, Residual(s), r.file, r.i - base)
  BY <1>1 DEF RowFiled
<1> HIDE DEF rows, base, s
<1>3. at \in [rows -> 1..rowcnt]
  BY <1>1
<1>4. \A r, t \in rows : at[r] = at[t] => r = t
  <2> SUFFICES ASSUME NEW r \in rows, NEW t \in rows, at[r] = at[t] PROVE r = t
    OBVIOUS
  <2>1. r.i - base = t.i - base /\ r.i \in Int /\ t.i \in Int
    BY <1>1
  <2>2. r.i = t.i
    BY <1>1, <2>1
  <2> QED
    BY <1>1, <2>2
<1>5. \A j \in 1..rowcnt : \E r \in rows : at[r] = j
  <2> SUFFICES ASSUME NEW j \in 1..rowcnt PROVE \E r \in rows : at[r] = j
    OBVIOUS
  <2>1. base + j \in SetRows(n)
    BY <1>1
  <2>2. PICK r \in rows : r.i = base + j
    BY <1>1, <2>1
  <2>3. at[r] = j
    BY <1>1, <2>2
  <2> QED
    BY <2>3
<1>6. \A r \in rows : InSegment(s, Residual(s), r.file, at[r])
  BY <1>2
<1> HIDE DEF at
<1>7. Residual(s) \in Nat
  <2>1. Residual(s) \in 0..(s - 1)
    BY <1>1, CutFacts
  <2> QED
    BY <1>1, <2>1
<1>8. /\ \A k \in 1..s : Size(rows, k) = ShareSize(s, Residual(s), k)
      /\ \A k : k \in Segments(rows) <=> k \in 1..s /\ ShareSize(s, Residual(s), k) > 0
  BY <1>1, <1>3, <1>4, <1>5, <1>6, <1>7, Dealt
<1>9. Even(rows, s)
  BY <1>1, <1>8, EvenlyDealt
<1> QED
  BY <1>9 DEF rows, s

\* And so are its keys, when they are printed as keys.
LEMMA DeletesDealt ==
  ASSUME IInv, KInv, Files, opt.updates < Units, NEW n \in Finished,
         opt.delete_segments > 0, ~opt.gen_sql, ~opt.gen_rng
  PROVE  IF opt.newer THEN Filled(DeleteRows(n), opt.delete_segments)
         ELSE Even(DeleteRows(n), opt.delete_segments)
<1> DEFINE s      == opt.delete_segments
           base   == (n - 1) * rowcnt
           rows   == DeleteRows(n)
           key(j) == DeleteKey(base + j, n)
           at     == [d \in rows |-> CHOOSE j \in 1..rowcnt : d.lo = key(j)]
<1>1. /\ s \in Nat \ {0} /\ base \in Nat /\ rowcnt \in Nat /\ n \in Nat \ {0}
      /\ SetRows(n) = (base + 1)..(base + rowcnt) /\ KeysOf(n) \subseteq DeleteKeys(n)
  BY OptFiles, FinishedSet
<1>2. \A j \in 1..rowcnt : key(j) \in Nat
  <2> SUFFICES ASSUME NEW j \in 1..rowcnt PROVE key(j) \in Nat
    OBVIOUS
  <2>1. base + j \in Nat
    BY <1>1
  <2> QED
    BY <1>1, <2>1, KeyType
<1>3. \A j, k \in 1..rowcnt : key(j) = key(k) => j = k
  <2> SUFFICES ASSUME NEW j \in 1..rowcnt, NEW k \in 1..rowcnt, key(j) = key(k) PROVE j = k
    OBVIOUS
  <2>1. base + j \in Nat /\ base + k \in Nat
    BY <1>1
  <2>2. base + j = base + k
    BY <1>1, <2>1, KeysDiffer
  <2> QED
    BY <1>1, <2>2
<1>4. ASSUME NEW d \in rows
      PROVE  /\ d.file = <<n, d.file[2]>>
             /\ \E j \in 1..rowcnt :
                  d = Deleted(key(j), key(j), d.file) /\ InSegment(s, LongDeletes, d.file, j)
  <2>1. d.file[1] = n /\ \E past : KeyFiled(d, past)
    BY DEF DeleteRows, Files, DeleteFiles
  <2>2. /\ d.file = <<n, d.file[2]>>
        /\ \E k \in SetRows(n) :
             /\ d = Deleted(DeleteKey(k, n), DeleteKey(k, n), d.file)
             /\ InSegment(s, LongDeletes, d.file, k - base)
    BY <2>1 DEF KeyFiled
  <2>3. PICK k \in SetRows(n) :
          /\ d = Deleted(DeleteKey(k, n), DeleteKey(k, n), d.file)
          /\ InSegment(s, LongDeletes, d.file, k - base)
    BY <2>2
  <2>4. k - base \in 1..rowcnt /\ base + (k - base) = k
    BY <1>1
  <2> QED
    BY <2>2, <2>3, <2>4
<1> HIDE DEF key
<1>5. ASSUME NEW d \in rows, NEW j \in 1..rowcnt, d = Deleted(key(j), key(j), d.file)
      PROVE  at[d] = j
  <2>1. d.lo = key(j)
    BY <1>5 DEF Deleted
  <2> QED
    BY <1>3, <2>1
<1>6. \A d \in rows : /\ at[d] \in 1..rowcnt
                      /\ d = Deleted(key(at[d]), key(at[d]), <<n, d.file[2]>>)
                      /\ InSegment(s, LongDeletes, d.file, at[d])
  <2> SUFFICES ASSUME NEW d \in rows
               PROVE  /\ at[d] \in 1..rowcnt
                      /\ d = Deleted(key(at[d]), key(at[d]), <<n, d.file[2]>>)
                      /\ InSegment(s, LongDeletes, d.file, at[d])
    OBVIOUS
  <2>1. PICK j \in 1..rowcnt :
          d = Deleted(key(j), key(j), d.file) /\ InSegment(s, LongDeletes, d.file, j)
    BY <1>4
  <2>2. at[d] = j
    BY <1>5, <2>1
  <2> HIDE DEF at
  <2> QED
    BY <1>4, <2>1, <2>2
<1>7. \A j \in 1..rowcnt : \E d \in rows : at[d] = j
  <2> SUFFICES ASSUME NEW j \in 1..rowcnt PROVE \E d \in rows : at[d] = j
    OBVIOUS
  <2>1. base + j \in SetRows(n)
    BY <1>1
  <2>2. key(j) \in DeleteKeys(n)
    BY <1>1, <2>1 DEF KeysOf, key
  <2>3. PICK d \in rows : key(j) \in d.lo..d.hi
    BY <2>2 DEF DeleteKeys
  <2>4. PICK k \in 1..rowcnt : d = Deleted(key(k), key(k), d.file)
    BY <1>4
  <2>5. d.lo = key(k) /\ d.hi = key(k)
    BY <2>4 DEF Deleted
  <2>6. key(j) = key(k)
    BY <1>2, <2>3, <2>5
  <2> QED
    BY <1>3, <1>5, <2>4, <2>6
<1>8. at \in [rows -> 1..rowcnt]
  BY <1>6
<1> HIDE DEF at, rows, base, s
<1>9. LongDeletes \in Nat /\ LongDeletes = (IF opt.newer THEN s ELSE Residual(s))
  BY DeleteCuts DEF LongDeletes, s
\* A row is told from another by its place in the set: its segment follows from that.
<1>10. \A r, t \in rows : at[r] = at[t] => r = t
  <2> SUFFICES ASSUME NEW r \in rows, NEW t \in rows, at[r] = at[t] PROVE r = t
    OBVIOUS
  <2>1. r.file[2] = t.file[2]
    <3> DEFINE k == r.file[2]
               m == t.file[2]
    <3>1. /\ k \in 1..s /\ m \in 1..s /\ at[r] \in Nat
          /\ Cut(s, LongDeletes, k - 1) < at[r] /\ at[r] <= Cut(s, LongDeletes, k)
          /\ Cut(s, LongDeletes, m - 1) < at[r] /\ at[r] <= Cut(s, LongDeletes, m)
      <4>1. InSegment(s, LongDeletes, r.file, at[r]) /\ at[r] \in 1..rowcnt
            /\ InSegment(s, LongDeletes, t.file, at[r])
        BY <1>6
      <4>2. s # 0
        BY <1>1
      <4>3. /\ k \in 1..s /\ Cut(s, LongDeletes, k - 1) < at[r] /\ at[r] <= Cut(s, LongDeletes, k)
        BY <4>1, <4>2 DEF InSegment
      <4>4. /\ m \in 1..s /\ Cut(s, LongDeletes, m - 1) < at[r] /\ at[r] <= Cut(s, LongDeletes, m)
        BY <4>1, <4>2 DEF InSegment
      <4>5. at[r] \in Nat
        BY <1>1, <4>1
      <4> HIDE DEF k, m
      <4> QED
        BY <4>3, <4>4, <4>5
    <3> HIDE DEF k, m
    <3>2. CASE k < m
      <4>1. k \in Nat /\ m - 1 \in Nat /\ k <= m - 1
        BY <3>1, <3>2
      <4>2. Cut(s, LongDeletes, k) <= Cut(s, LongDeletes, m - 1)
            /\ Cut(s, LongDeletes, k) \in Nat /\ Cut(s, LongDeletes, m - 1) \in Nat
        BY <1>1, <1>9, <4>1, CutGrows
      <4> QED
        BY <3>1, <4>2
    <3>3. CASE m < k
      <4>1. m \in Nat /\ k - 1 \in Nat /\ m <= k - 1
        BY <3>1, <3>3
      <4>2. Cut(s, LongDeletes, m) <= Cut(s, LongDeletes, k - 1)
            /\ Cut(s, LongDeletes, m) \in Nat /\ Cut(s, LongDeletes, k - 1) \in Nat
        BY <1>1, <1>9, <4>1, CutGrows
      <4> QED
        BY <3>1, <4>2
    <3>4. CASE k = m
      BY <3>4 DEF k, m
    <3> QED
      BY <1>1, <3>1, <3>2, <3>3, <3>4
  <2> QED
    BY <1>6, <2>1
<1>11. /\ \A k \in 1..s : Size(rows, k) = ShareSize(s, LongDeletes, k)
       /\ \A k : k \in Segments(rows) <=> k \in 1..s /\ ShareSize(s, LongDeletes, k) > 0
  <2>1. LongDeletes \in Nat /\ s \in Nat \ {0} /\ rowcnt \in Nat
    BY <1>1, <1>9
  <2>2. \A r \in rows : InSegment(s, LongDeletes, r.file, at[r])
    BY <1>6
  <2> QED
    BY <1>7, <1>8, <1>10, <2>1, <2>2, Dealt
<1>12. IF opt.newer THEN Filled(rows, s) ELSE Even(rows, s)
  <2>1. CASE opt.newer
    <3>1. LongDeletes = s
      BY <1>9, <2>1
    <3>2. /\ \A k \in 1..s : Size(rows, k) = ShareSize(s, s, k)
          /\ \A k : k \in Segments(rows) <=> k \in 1..s /\ ShareSize(s, s, k) > 0
      BY <1>11, <3>1
    <3> QED
      BY <1>1, <2>1, <3>2, FilledInOrder
  <2>2. CASE ~opt.newer
    <3>1. LongDeletes = Residual(s)
      BY <1>9, <2>2
    <3>2. /\ \A k \in 1..s : Size(rows, k) = ShareSize(s, Residual(s), k)
          /\ \A k : k \in Segments(rows) <=> k \in 1..s /\ ShareSize(s, Residual(s), k) > 0
      BY <1>11, <3>1
    <3> QED
      BY <1>1, <2>2, <3>2, EvenlyDealt
  <2> QED
    BY <2>1, <2>2
<1> QED
  BY <1>12 DEF rows, s

LEMMA FInvEven == IInv /\ KInv /\ FInv => SegmentsEven
<1> SUFFICES ASSUME IInv, KInv, FInv, opt.updates < Units, NEW n \in Finished
             PROVE  /\ opt.insert_segments > 0 => Even(InsertRows(n), opt.insert_segments)
                    /\ opt.delete_segments > 0 /\ ~opt.gen_sql /\ ~opt.gen_rng =>
                         IF opt.newer THEN Filled(DeleteRows(n), opt.delete_segments)
                         ELSE Even(DeleteRows(n), opt.delete_segments)
  BY DEF SegmentsEven
<1>1. Files
  BY DEF FInv
<1> QED
  BY <1>1, InsertsDealt, DeletesDealt

-----------------------------------------------------------------------------
\* The files of the sets keep to their segments, in every behaviour.
THEOREM FilesOfSets == UpdateSpec => [](IInv /\ KInv /\ FInv)
<1>1. UpdateInit => IInv /\ KInv /\ FInv
  BY InitIInv, InitKInv, InitFiles
<1>2. IInv /\ KInv /\ FInv /\ [UpdateNext]_update_vars => IInv' /\ KInv' /\ FInv'
  BY NextIInv, NextKInv, NextFInv
<1> QED
  BY <1>1, <1>2, PTL DEF UpdateSpec

\* Whatever the scale, the percentage, the segments and the set of -S: RF2 takes as many
\* orders from the database as RF1 puts there (pr_drange's ranges and gen_tbl's rows agree).
THEOREM BalancedSets == UpdateSpec => []Balanced
BY FilesOfSets, FInvBalanced, PTL

\* The sets of the first sequence number delete loaded orders, none of them twice.
THEOREM LiveDeletes == UpdateSpec => []DeletesLive
BY FilesOfSets, FInvLive, PTL

\* -i and -d split every set as evenly as they can, and opening a file never empties one with
\* rows of the same set (gen_tbl's and pr_drange's counters agree with the segments).
THEOREM EvenSegments == UpdateSpec => []SegmentsEven
BY FilesOfSets, FInvEven, PTL
=============================================================================
